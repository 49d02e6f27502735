------------------------- MODULE HssCaptureProofs ---------------------------
(***************************************************************************)
(* One HSS capture, its launch, its control by tasks and its end           *)
(* (HssCapture), and the lease under which the record of its session is    *)
(* changed (DirectoryLease).                                               *)
(***************************************************************************)
EXTENDS HssCapture, DirectoryLease, TLAPS

(***************************************************************************)
(* One HSS capture (HssCapture): the probe is taken while the helper runs, *)
(* a capture that has ended, or was refused, leaves the target as it was   *)
(* found, and session and package agree.                                   *)
(*                                                                         *)
(* Everything turns on one fact about the helper: once it is gone it does  *)
(* not come back.  Who settles has only read a session record, so the      *)
(* proof carries, for each place of a task and of hss_start, why what that *)
(* record said means that the helper is gone: its process id is recorded   *)
(* and it does not run, or the record is old enough that a helper without  *)
(* an identity was never there.                                            *)
(***************************************************************************)

(* hss_start: before the record is written; while it holds the queue.      *)
Preparing == {"memory", "closed", "before", "capability", "create"} \cup Answers
Launching == {"launch", "pid", "claim", "token", "ready", "abort", "end", "fail"}
Held == Preparing \cup Launching
StartPhases == Held \cup {"idle", "check", "done", "dead"} \cup NotStarted
TaskPhases == {"idle", "reconcile", "ensure", "request", "stop", "stopping", "wait", "settle",
               "journal", "seal", "write", "restore", "verify"}
SessionRecords == [state : Active \cup Terminal \cup {"none"}, pid : {0, 1},
                   token : 0 .. MaxClaims, pending : BOOLEAN]
Packages == [journal : Terminal \cup {"active", "none"}, sealed : BOOLEAN]
Helpers == [is : Living \cup {"none", "dead"}, named : BOOLEAN,
            result : {"none", "ok", "stopped", "error"}]
Owners == [token : 0 .. MaxClaims, by : Servers \cup {Nobody}]
Starts == [at : StartPhases, claimed : 0 .. MaxClaims, over : BOOLEAN]
Tasks == [at : TaskPhases, op : {"none", "status", "stop", "monitor", "call"},
          then : {"none", "decide", "stopping", "written"}, token : 0 .. MaxClaims,
          state : Terminal \cup {"none"}]

(* The types: what is on disk, what is so, what runs in the servers.       *)
DiskTyped ==
  /\ session \in SessionRecords /\ pkg \in Packages
  /\ stopFile \in BOOLEAN /\ young \in BOOLEAN
WorldTyped ==
  /\ helper \in Helpers /\ target \in {"found", "changed"}
  /\ claims \in 0 .. MaxClaims /\ faults \in 0 .. MaxFaults
  /\ owner \in Owners /\ owner.token <= claims /\ (owner.token # 0 => owner.by \in Servers)
  /\ queue \in Servers \cup {Nobody, Launcher} /\ lease \in Servers \cup {Nobody}
ServersTyped ==
  /\ up \in [Servers -> BOOLEAN] /\ watch \in [Servers -> BOOLEAN]
  /\ start \in Starts /\ task \in [Servers -> Tasks]
  /\ \A p \in Servers : task[p].at # "idle" => up[p]
Typed == DiskTyped /\ WorldTyped /\ ServersTyped

(* Before the session record there is nothing of the capture.              *)
EmptyInv ==
  session.state = "none" =>
    /\ session = NoSession /\ pkg = NoPkg /\ young
    /\ helper.is = "none" /\ ~helper.named
    /\ claims = 0 /\ lease = Nobody
    /\ \A p \in Servers : task[p].at = "idle" /\ ~watch[p]

(* hss_start at its places: it has the queue while it works, the record    *)
(* when it launches, the process id when it claims, a token when it waits  *)
(* for a helper that runs.                                                 *)
PlaceInv ==
  /\ queue = Launcher <=> start.at \in Held
  /\ start.at \in Held \cup {"check"} => up[Starter]
  /\ start.at \in {"idle"} \cup Preparing \cup NotStarted => session.state = "none"
  /\ start.at \in Launching \cup {"check", "done"} => session.state # "none"
  /\ start.at \in {"launch", "pid", "claim"} => claims = 0
  /\ start.at = "token" => start.claimed > 0
  /\ start.at \in {"token", "ready", "abort"} => claims > 0
  /\ start.at = "launch" => helper.is = "none" /\ session.pid = 0 /\ young
  /\ start.at \in {"claim", "token", "ready"} => session.pid = 1
  /\ start.at = "ready" /\ HelperRuns => session.token # 0

(* A record that is not the store's is not on disk.                        *)
ValidInv == Valid(session) \/ session.state = "none"

(* The helper is gone for good: it does not run and will not be launched.  *)
Gone == ~HelperRuns /\ start.at # "launch" /\ session.state # "none"
HelperInv ==
  /\ helper.named => helper.is \notin {"none", "started"}
  /\ helper.is \in {"named", "ready", "hung"} => helper.named
  /\ session.pid = 0 /\ ~young => helper.is # "started"
EndedInv ==
  /\ session.state \in Terminal => Gone
  /\ start.at \in {"end", "fail"} => Gone
KnowsHelper(p) ==
  /\ task[p].at = "settle" /\ session.pid = 0 => Gone
  /\ task[p].at \in {"journal", "seal", "write", "restore", "verify"} => Gone
  /\ task[p].at \in {"ensure", "stop", "stopping", "wait"} => session.pid = 1
  /\ task[p].at = "reconcile" \/ (task[p].at = "ensure" /\ task[p].then # "stopping") =>
       task[p].op \in {"status", "stop", "monitor"}
TaskInv == \A p \in Servers : KnowsHelper(p)

(* Who changes the capture holds its lease, who works on the target the    *)
(* queue.                                                                  *)
Holds(p) ==
  /\ task[p].at \in {"ensure", "stopping", "journal", "seal", "write", "restore", "verify"} =>
       lease = p
  /\ task[p].at = "verify" => queue = p
HoldersInv == \A p \in Servers : Holds(p)

(* The target is as it was found where hss_start may leave it so, and      *)
(* where a capture has ended with nothing left to restore.                 *)
TargetInv ==
  /\ start.at \in {"idle", "memory", "before", "create", "fail", "refused", "polls", "planned"} =>
       target = "found"
  /\ session.state \in Terminal /\ ~session.pending => target = "found"

(* While the helper runs its probe is taken.                               *)
ProbeInv ==
  HelperRuns => owner.token # 0 \/ (claims = 0 /\ (queue = Launcher \/ start.at = "dead"))

(* How the package ended is on its way into the session.                   *)
Passes(p) ==
  /\ task[p].at = "seal" => task[p].state = pkg.journal /\ pkg.journal \in Terminal
  /\ task[p].at = "write" =>
       /\ task[p].state \in Terminal
       /\ task[p].state = "failed" \/ pkg = [journal |-> task[p].state, sealed |-> TRUE]
SealInv == \A p \in Servers : Passes(p)

IInv == /\ Typed /\ EmptyInv /\ PlaceInv /\ ValidInv /\ HelperInv /\ EndedInv /\ TaskInv
        /\ HoldersInv /\ TargetInv /\ ProbeInv /\ SealInv /\ SessionAgreesWithPackage
-----------------------------------------------------------------------------
(* The three kinds of steps of hss_start, and a step of a task.            *)
Prepare == \/ Unprepared \/ Begin \/ CloseMemory \/ Reconnect \/ Before \/ Capability
           \/ After \/ Refused
LaunchSteps == \/ Create \/ CreateFails \/ Launch \/ RecordPid \/ ClaimProbe \/ RecordToken
               \/ Ready \/ NotReady \/ Check \/ Abort \/ Leave \/ EndVerified \/ Fail
               \/ FailPending
TaskStep(p) == Call(p) \/ Monitor(p) \/ Steps(p) \/ VerifyFails(p)

LEMMA NextKinds ==
  ASSUME [Next]_vars
  PROVE  \/ HelperSteps \/ Ages \/ Prepare \/ LaunchSteps \/ UNCHANGED vars
         \/ \E p \in Servers : TaskStep(p) \/ Dies(p) \/ Restart(p)
BY DEF Next, StartSteps, Prepare, LaunchSteps, TaskStep

LEMMA SGoEffect ==
  ASSUME start \in Starts, NEW step \in StartPhases, SGo(step)
  PROVE  start' \in Starts /\ start'.at = step
BY CaptureConstantsOK DEF SGo, Starts, NotStarting

LEMMA GoEffect ==
  ASSUME task \in [Servers -> Tasks], NEW p \in Servers, NEW step \in TaskPhases, Go(p, step)
  PROVE  /\ task' \in [Servers -> Tasks]
         /\ task'[p].at = step /\ task'[p].op = task[p].op /\ task'[p].state = task[p].state
         /\ task'[p].token = task[p].token /\ task'[p].then = task[p].then
         /\ \A q \in Servers \ {p} : task'[q] = task[q]
BY DEF Go, Tasks

LEMMA DoingTyped ==
  ASSUME NEW step \in TaskPhases, NEW op \in {"none", "status", "stop", "monitor", "call"}
  PROVE  Doing(step, op) \in Tasks /\ Doing(step, op).at = step /\ Doing(step, op).op = op
BY CaptureConstantsOK DEF Doing, Tasks

LEMMA NoTaskTyped == NoTask \in Tasks /\ NoTask.at = "idle"
BY DoingTyped DEF NoTask, TaskPhases

LEMMA ReturnEffect ==
  ASSUME task \in [Servers -> Tasks], NEW p \in Servers, Return(p)
  PROVE  /\ task' \in [Servers -> Tasks] /\ task'[p].at = "idle"
         /\ \A q \in Servers \ {p} : task'[q] = task[q]
BY NoTaskTyped DEF Return

LEMMA SettlingTyped ==
  ASSUME NEW op
  PROVE  Settling(op) \in Tasks /\ Settling(op).at = "settle"
BY DoingTyped DEF Settling, TaskPhases

(* Where a call goes after the session was reconciled.                     *)
LEMMA DecisionEffect ==
  ASSUME NEW s \in SessionRecords, NEW op \in {"status", "stop", "monitor"}
  PROVE  /\ Decision(op, s) \in Tasks
         /\ Decision(op, s).at \in {"idle", "settle", "request", "stop"}
         /\ Decision(op, s).at = "settle" =>
              s.state \in Terminal \/ (~IsAlive(s) /\ ~StartupPending(s))
         /\ Decision(op, s).at = "stop" =>
              s.state \in Active /\ ~StartupPending(s) /\ IsAlive(s)
<1>. DEFINE left == s.state \in Active /\ ~IsAlive(s) /\ ~StartupPending(s)
            settles == \/ op = "status" /\ (left \/ (s.state \in Terminal /\ s.pending))
                       \/ op = "stop" /\ (left \/ (s.state \in {"completed", "stopped"} /\ ~IsAlive(s)))
                       \/ op = "monitor" /\ ~IsAlive(s) /\ ~StartupPending(s)
<1>1. /\ settles => s.state \in Terminal \/ (~IsAlive(s) /\ ~StartupPending(s))
      /\ ~settles /\ op = "stop" /\ s.state \in Active => IsAlive(s) \/ StartupPending(s)
  BY DEF Terminal, Active
<1>2. Decision(op, s) =
        IF settles THEN Settling(op)
        ELSE IF op # "stop" \/ s.state \notin Active THEN NoTask
        ELSE Doing(IF StartupPending(s) THEN "request" ELSE "stop", op)
  BY Zenon DEF Decision
<1>. HIDE DEF settles
<1>. QED
  BY <1>1, <1>2, DoingTyped, SettlingTyped, NoTaskTyped DEF TaskPhases

(* What updates of the session record leave in it.                         *)
EndOf(s, pending) == [s EXCEPT !.state = "failed", !.pending = pending]
TerminalOf(s, state, token) == [s EXCEPT !.state = state, !.token = token, !.pending = TRUE]
LeftOf(s, token) == [s EXCEPT !.state = "stopping", !.pid = 1, !.token = token]

(* How a capture ends.                                                     *)
LEMMA EndEffect ==
  ASSUME NEW s \in SessionRecords, NEW pending \in BOOLEAN, NEW y, y = EndOf(s, pending)
  PROVE  y \in SessionRecords /\ y.state = "failed" /\ y.pid = s.pid /\ y.token = s.token
         /\ y.pending = pending
<1>1. PICK a : a = [s EXCEPT !.state = "failed"]
  OBVIOUS
<1>2. a \in SessionRecords /\ a.state = "failed" /\ a.pid = s.pid /\ a.token = s.token
  BY <1>1 DEF SessionRecords, Terminal
<1>3. y = [a EXCEPT !.pending = pending]
  BY <1>1, Zenon DEF EndOf
<1>. QED
  BY <1>2, <1>3 DEF SessionRecords

LEMMA TerminalEffect ==
  ASSUME NEW s \in SessionRecords, NEW state \in Terminal, NEW token \in 0 .. MaxClaims,
         NEW y, y = TerminalOf(s, state, token)
  PROVE  y \in SessionRecords /\ y.state = state /\ y.pid = s.pid /\ y.token = token
         /\ y.pending
<1>1. PICK a : a = [s EXCEPT !.state = state]
  OBVIOUS
<1>2. a \in SessionRecords /\ a.state = state /\ a.pid = s.pid
  BY <1>1 DEF SessionRecords
<1>3. PICK b : b = [a EXCEPT !.token = token]
  OBVIOUS
<1>4. b \in SessionRecords /\ b.state = state /\ b.pid = s.pid /\ b.token = token
  BY <1>2, <1>3 DEF SessionRecords
<1>5. PICK yes \in BOOLEAN : yes = TRUE
  OBVIOUS
<1>6. y = [b EXCEPT !.pending = yes]
  BY <1>1, <1>3, <1>5, Zenon DEF TerminalOf
<1>. QED
  BY <1>4, <1>5, <1>6 DEF SessionRecords

LEMMA LeftEffect ==
  ASSUME NEW s \in SessionRecords, NEW token \in 0 .. MaxClaims,
         NEW y, y = LeftOf(s, token)
  PROVE  y \in SessionRecords /\ y.state = "stopping" /\ y.pid = 1 /\ y.token = token
<1>1. PICK a : a = [s EXCEPT !.state = "stopping"]
  OBVIOUS
<1>2. a \in SessionRecords /\ a.state = "stopping"
  BY <1>1 DEF SessionRecords, Active
<1>3. PICK b : b = [a EXCEPT !.pid = 1]
  OBVIOUS
<1>4. b \in SessionRecords /\ b.state = "stopping" /\ b.pid = 1
  BY <1>2, <1>3 DEF SessionRecords
<1>5. y = [b EXCEPT !.token = token]
  BY <1>1, <1>3, Zenon DEF LeftOf
<1>. QED
  BY <1>4, <1>5 DEF SessionRecords

(* The helper's own steps.                                                 *)
LEMMA HelperEffect ==
  ASSUME IInv, HelperSteps
  PROVE  /\ UNCHANGED <<session, pkg, owner, claims, queue, lease, young>>
         /\ UNCHANGED <<up, watch, start, task>>
         /\ stopFile' \in BOOLEAN /\ target' \in {"found", "changed"} /\ faults' \in 0 .. MaxFaults
         /\ helper' \in Helpers /\ helper'.is \notin {"none", "started"} /\ HelperRuns
         /\ helper'.is \in {"named", "ready", "hung"} => helper'.named
<1>1. UNCHANGED <<session, pkg, owner, claims, queue, lease, young>>
  BY DEF HelperSteps, HelperNames, HelperReady, HelperEnds, HelperDies, HelperHangs, disk, probe
<1>2. UNCHANGED <<up, watch, start, task>>
  BY DEF HelperSteps, HelperNames, HelperReady, HelperEnds, HelperDies, HelperHangs, tasks
<1>3. faults' \in 0 .. MaxFaults
  BY CaptureConstantsOK DEF IInv, Typed, WorldTyped, HelperSteps, HelperNames, HelperReady,
       HelperEnds, HelperDies, HelperHangs, Fault
<1>4. stopFile' \in BOOLEAN /\ target' \in {"found", "changed"}
  BY DEF IInv, Typed, WorldTyped, DiskTyped, HelperSteps, HelperNames, HelperReady,
         HelperEnds, HelperDies, HelperHangs, disk
<1>5. HelperRuns
  BY DEF HelperSteps, HelperNames, HelperReady, HelperEnds, HelperDies, HelperHangs, HelperRuns,
         Living
<1>6. /\ helper' \in Helpers /\ helper'.is \notin {"none", "started"}
      /\ helper'.is \in {"named", "ready", "hung"} => helper'.named
  <2>0. helper \in Helpers
    BY DEF IInv, Typed, WorldTyped
  <2>1. CASE HelperNames
    <3>1. PICK yes \in BOOLEAN : yes = TRUE
      OBVIOUS
    <3>2. PICK h : h = [helper EXCEPT !.is = "named"]
      OBVIOUS
    <3>3. h \in Helpers /\ h.is = "named"
      BY <2>0, <3>2 DEF Helpers, Living
    <3>4. helper' = [h EXCEPT !.named = yes]
      BY <2>1, <3>1, <3>2, Zenon DEF HelperNames
    <3>. QED
      BY <3>1, <3>3, <3>4 DEF Helpers
  <2>2. CASE HelperReady
    BY <2>0, <2>2 DEF HelperReady, Helpers, Living, IInv, HelperInv
  <2>3. CASE HelperEnds
    <3>1. PICK result \in {"ok", "stopped", "error"} :
            helper' = [helper EXCEPT !.is = "dead", !.result = result]
      BY <2>3 DEF HelperEnds
    <3>2. PICK h : h = [helper EXCEPT !.is = "dead"]
      OBVIOUS
    <3>3. h \in Helpers /\ h.is = "dead"
      BY <2>0, <3>2 DEF Helpers
    <3>4. helper' = [h EXCEPT !.result = result]
      BY <3>1, <3>2, Zenon
    <3>. QED
      BY <3>3, <3>4 DEF Helpers
  <2>4. CASE HelperDies
    BY <2>0, <2>4 DEF HelperDies, Helpers
  <2>5. CASE HelperHangs
    BY <2>0, <2>5 DEF HelperHangs, Helpers, Living, IInv, HelperInv
  <2>. QED
    BY <2>1, <2>2, <2>3, <2>4, <2>5 DEF HelperSteps
<1>. QED
  BY <1>1, <1>2, <1>3, <1>4, <1>5, <1>6

(* hss_start before there is a record.                                     *)
LEMMA LeaveAsEffect ==
  ASSUME start \in Starts, NEW outs \in SUBSET NotStarted, LeaveAs(outs)
  PROVE  start' \in Starts /\ start'.at \in outs /\ queue' = Nobody
BY SGoEffect DEF LeaveAs, StartPhases

LEMMA PrepareEffect ==
  ASSUME IInv, Prepare
  PROVE  /\ UNCHANGED <<session, stopFile, pkg, owner, claims, helper, lease, young, faults>>
         /\ UNCHANGED <<up, watch, task>>
         /\ up[Starter] /\ session.state = "none"
         /\ start' \in Starts /\ start'.at \in Preparing \cup NotStarted
         /\ queue' \in {queue, Nobody, Launcher} /\ (queue' = Launcher <=> start'.at \in Preparing)
         /\ target' \in {"found", "changed"}
         /\ start'.at \in {"memory", "before", "create", "refused", "polls", "planned"} =>
              target' = "found"
<1>0. /\ start \in Starts /\ target \in {"found", "changed"}
      /\ start.at \in {"idle", "memory", "before", "create", "refused", "polls", "planned"} =>
           target = "found"
      /\ queue = Launcher <=> start.at \in Held
      /\ queue \in Servers \cup {Nobody, Launcher}
  BY DEF IInv, Typed, ServersTyped, WorldTyped, TargetInv, PlaceInv
<1>1. Nobody # Launcher
  BY DEF Nobody, Launcher
<1>2. UNCHANGED <<session, stopFile, pkg, owner, claims, helper, lease, young, faults>>
  BY DEF Prepare, Unprepared, Begin, CloseMemory, Reconnect, Before, Capability, After, Refused,
         BeforeCreate, disk
<1>3. UNCHANGED <<up, watch, task>>
  BY DEF Prepare, Unprepared, Begin, CloseMemory, Reconnect, Before, Capability, After, Refused,
         BeforeCreate
<1>4. up[Starter] /\ start.at \in {"idle"} \cup Preparing
  BY DEF Prepare, Unprepared, Begin, CloseMemory, Reconnect, Before, Capability, After, Refused,
         SAt, Preparing
<1>5. session.state = "none"
  BY <1>4 DEF IInv, PlaceInv
<1>6. /\ start' \in Starts /\ start'.at \in Preparing \cup NotStarted
      /\ queue' \in {queue, Nobody, Launcher} /\ (queue' = Launcher <=> start'.at \in Preparing)
  <2>1. \A step \in Preparing \cup NotStarted :
           SGo(step) => start' \in Starts /\ start'.at = step
    BY <1>0, SGoEffect DEF StartPhases, Held
  <2>2. \A outs \in SUBSET NotStarted :
           LeaveAs(outs) => start' \in Starts /\ start'.at \in NotStarted /\ queue' = Nobody
    BY <1>0, LeaveAsEffect
  <2>3. Unseen => start' \in Starts /\ start'.at \in NotStarted /\ queue' = Nobody
    BY <2>2 DEF Unseen, NotStarted
  <2>4. Preparing \cap NotStarted = {}
    BY DEF Preparing, NotStarted, Answers
  <2>5. CASE Unprepared
    <3>1. SGo("refused") /\ queue' = queue /\ start.at = "idle"
      BY <2>5 DEF Unprepared, SAt
    <3>2. queue # Launcher
      BY <1>0, <3>1 DEF Held, Preparing, Launching, Answers
    <3>. QED
      BY <2>1, <2>4, <3>1, <3>2 DEF NotStarted
  <2>6. CASE Begin
    <3>1. (queue' = Launcher /\ SGo("memory")) \/ LeaveAs({"refused", "polls"})
      BY <2>6 DEF Begin, Unavailable
    <3>. QED
      BY <1>1, <2>1, <2>2, <2>4, <3>1 DEF NotStarted, Preparing
  <2>7. ASSUME start.at \in Preparing
        PROVE  queue = Launcher
    BY <1>0, <2>7 DEF Held
  <2>8. CASE CloseMemory
    <3>1. \/ SGo("before") /\ queue' = queue
          \/ SGo("closed") /\ queue' = queue
          \/ LeaveAs({"unknown"})
      BY <2>8 DEF CloseMemory
    <3>2. start.at \in Preparing
      BY <2>8 DEF CloseMemory, SAt, Preparing
    <3>. QED
      BY <1>1, <2>1, <2>2, <2>4, <2>7, <3>1, <3>2 DEF NotStarted, Preparing
  <2>9. CASE Reconnect
    <3>1. \/ SGo("before") /\ queue' = queue
          \/ Unseen \/ LeaveAs({"unknown"})
      BY <2>9 DEF Reconnect
    <3>2. start.at \in Preparing
      BY <2>9 DEF Reconnect, SAt, Preparing
    <3>. QED
      BY <1>1, <2>1, <2>2, <2>3, <2>4, <2>7, <3>1, <3>2 DEF NotStarted, Preparing
  <2>10. CASE Before
    <3>1. \/ SGo("capability") /\ queue' = queue
          \/ Unseen
      BY <2>10 DEF Before
    <3>2. start.at \in Preparing
      BY <2>10 DEF Before, SAt, Preparing
    <3>. QED
      BY <1>1, <2>1, <2>3, <2>4, <2>7, <3>1, <3>2 DEF Preparing
  <2>11. CASE Capability
    <3>1. PICK answer \in Answers : SGo(answer)
      BY <2>11 DEF Capability
    <3>2. start.at \in Preparing /\ queue' = queue
      BY <2>11 DEF Capability, SAt, Preparing
    <3>3. answer \in Preparing
      BY <3>1 DEF Preparing
    <3>. QED
      BY <2>1, <2>4, <2>7, <3>1, <3>2, <3>3
  <2>12. CASE After
    <3>1. \/ SGo("create") /\ queue' = queue
          \/ LeaveAs({"unknown"}) \/ LeaveAs({"polls", "refused"}) \/ LeaveAs({"polls"})
          \/ LeaveAs({"refused", "unknown"})
      BY <2>12 DEF After
    <3>2. start.at \in Preparing
      BY <2>12 DEF After, Preparing
    <3>. QED
      BY <1>1, <2>1, <2>2, <2>4, <2>7, <3>1, <3>2 DEF NotStarted, Preparing
  <2>13. CASE Refused
    BY <1>1, <2>2, <2>4, <2>13 DEF Refused, NotStarted
  <2>. QED
    BY <2>5, <2>6, <2>8, <2>9, <2>10, <2>11, <2>12, <2>13 DEF Prepare
<1>7. /\ target' \in {"found", "changed"}
      /\ start'.at \in {"memory", "before", "create", "refused", "polls", "planned"} =>
           target' = "found"
  <2>1. \A step \in Preparing \cup NotStarted : SGo(step) => start'.at = step
    BY <1>0, SGoEffect DEF StartPhases, Held
  <2>2. \A outs \in SUBSET NotStarted : LeaveAs(outs) => start'.at \in outs
    BY <1>0, LeaveAsEffect
  <2>3. Unseen => start'.at \in {"raised", "unknown"}
    BY <2>2 DEF Unseen, NotStarted
  <2>4. CASE Unprepared \/ Begin \/ Before \/ Refused
    <3>1. target' = target
      BY <2>4 DEF Unprepared, Begin, Before, Refused
    <3>2. start.at \in {"idle", "create"} \/ start'.at \in {"capability", "raised", "unknown"}
      BY <2>1, <2>3, <2>4 DEF Unprepared, Begin, Before, Refused, SAt, Preparing
    <3>. QED
      BY <1>0, <3>1, <3>2
  <2>5. CASE CloseMemory
    <3>1. \/ target' = target
          \/ target' \in {"found", "changed"} /\ (SGo("closed") \/ LeaveAs({"unknown"}))
      BY <2>5 DEF CloseMemory
    <3>. QED
      BY <1>0, <2>1, <2>2, <2>5, <3>1 DEF CloseMemory, SAt, Preparing, NotStarted
  <2>6. CASE Reconnect
    <3>1. \/ target' = target /\ (Unseen \/ LeaveAs({"unknown"}))
          \/ target' = "found"
      BY <2>6 DEF Reconnect, Restore
    <3>. QED
      BY <1>0, <2>2, <2>3, <3>1 DEF NotStarted
  <2>7. CASE Capability
    <3>1. PICK answer \in Answers : SGo(answer)
      BY <2>7 DEF Capability
    <3>2. start'.at \in Answers
      BY <2>1, <3>1 DEF Preparing
    <3>. QED
      BY <2>7, <3>2 DEF Capability, Answers
  <2>8. CASE After
    <3>1. \/ target' = target /\ (LeaveAs({"unknown"}) \/ target = "found")
          \/ target' = "found"
      BY <2>8 DEF After, Restore
    <3>. QED
      BY <1>0, <2>2, <3>1 DEF NotStarted
  <2>. QED
    BY <2>4, <2>5, <2>6, <2>7, <2>8 DEF Prepare
<1>. QED
  BY <1>2, <1>3, <1>4, <1>5, <1>6, <1>7

(* hss_start from the record on: where it goes, and what it leaves alone.  *)
LEMMA LaunchMoves ==
  ASSUME IInv, LaunchSteps
  PROVE  /\ UNCHANGED <<lease, young, up>> /\ up[Starter]
         /\ start.at \in {"create", "check"} \cup Launching
         /\ start' \in Starts /\ start'.at \in Launching \cup {"check", "done"}
         /\ queue' = queue \/ (queue = Launcher /\ queue' = Nobody)
         /\ queue' = Launcher <=> start'.at \in Launching
<1>0. /\ start \in Starts /\ (queue = Launcher <=> start.at \in Held)
      /\ claims \in 0 .. MaxClaims
  BY DEF IInv, Typed, ServersTyped, WorldTyped, PlaceInv
<1>1. Nobody # Launcher
  BY DEF Nobody, Launcher
<1>2. UNCHANGED <<lease, young, up>>
  BY DEF LaunchSteps, Create, CreateFails, Launch, RecordPid, ClaimProbe, RecordToken, Ready,
         NotReady, Check, Abort, Leave, EndVerified, Fail, FailPending, StartRest, world
<1>3. up[Starter] /\ start.at \in {"create", "check"} \cup Launching
  BY DEF LaunchSteps, Create, CreateFails, Launch, RecordPid, ClaimProbe, RecordToken, Ready,
         NotReady, Check, Abort, Leave, EndVerified, Fail, FailPending, SAt, Launching
<1>4. \A step \in Launching \cup {"check", "done"} :
         SGo(step) => start' \in Starts /\ start'.at = step
  BY <1>0, SGoEffect DEF StartPhases, Held
<1>5. CASE Create
  <2>1. SGo("launch") /\ queue' = queue /\ start.at = "create"
    BY <1>5 DEF Create, SAt, probe
  <2>. QED
    BY <1>0, <1>2, <1>3, <1>4, <2>1 DEF Launching, Held, Preparing
<1>6. CASE CreateFails \/ Leave \/ Fail \/ FailPending
  <2>1. SGo("done") /\ queue' = Nobody /\ start.at \in {"create", "abort", "fail", "end"}
    BY <1>6 DEF CreateFails, Leave, Fail, FailPending, SAt
  <2>2. queue = Launcher
    BY <1>0, <2>1 DEF Launching, Held, Preparing
  <2>. QED
    BY <1>1, <1>2, <1>3, <1>4, <2>1, <2>2 DEF Launching
<1>7. CASE Launch \/ RecordPid \/ NotReady \/ Abort \/ EndVerified
  <2>1. /\ \E step \in Launching : SGo(step)
        /\ queue' = queue /\ start.at \in Launching
    BY <1>7 DEF Launch, RecordPid, NotReady, Abort, EndVerified, SAt, probe, Launching
  <2>2. queue = Launcher
    BY <1>0, <2>1 DEF Held
  <2>. QED
    BY <1>2, <1>3, <1>4, <2>1, <2>2
<1>8. CASE ClaimProbe
  <2>1. queue' = queue /\ start.at \in Launching
    BY <1>8 DEF ClaimProbe, SAt, Launching
  <2>2. queue = Launcher
    BY <1>0, <2>1 DEF Held
  <2>3. CASE SGo("abort")
    BY <1>2, <1>3, <1>4, <2>1, <2>2, <2>3 DEF Launching
  <2>4. CASE start' = [start EXCEPT !.at = "token", !.claimed = claims + 1] /\ claims < MaxClaims
    <3>1. PICK s : s = [start EXCEPT !.at = "token"]
      OBVIOUS
    <3>2. s \in Starts /\ s.at = "token"
      BY <1>0, <3>1 DEF Starts, StartPhases, Held, Launching
    <3>3. start' = [s EXCEPT !.claimed = claims + 1]
      BY <2>4, <3>1, Zenon
    <3>4. start' \in Starts /\ start'.at = "token"
      BY <1>0, <2>4, <3>2, <3>3, CaptureConstantsOK DEF Starts
    <3>. QED
      BY <1>2, <1>3, <2>1, <2>2, <3>4 DEF Launching
  <2>. QED
    BY <1>8, <2>3, <2>4 DEF ClaimProbe, Claim
<1>9. CASE RecordToken
  <2>1. queue' = queue /\ start.at \in Launching
    BY <1>9 DEF RecordToken, SAt, Launching, probe
  <2>2. queue = Launcher
    BY <1>0, <2>1 DEF Held
  <2>3. CASE SGo("abort")
    BY <1>2, <1>3, <1>4, <2>1, <2>2, <2>3 DEF Launching
  <2>4. CASE start' = [start EXCEPT !.at = "ready", !.over = session.state \in Terminal]
    <3>1. PICK s : s = [start EXCEPT !.at = "ready"]
      OBVIOUS
    <3>2. s \in Starts /\ s.at = "ready"
      BY <1>0, <3>1 DEF Starts, StartPhases, Held, Launching
    <3>3. PICK over \in BOOLEAN : over = (session.state \in Terminal)
      <4>1. (session.state \in Terminal) \in BOOLEAN
        OBVIOUS
      <4>. QED
        BY <4>1, Zenon
    <3>4. start' = [s EXCEPT !.over = over]
      BY <2>4, <3>1, <3>3, Zenon
    <3>5. start' \in Starts /\ start'.at = "ready"
      BY <3>2, <3>3, <3>4 DEF Starts
    <3>. QED
      BY <1>2, <1>3, <2>1, <2>2, <3>5 DEF Launching
  <2>. QED
    BY <1>9, <2>3, <2>4 DEF RecordToken
<1>10. CASE Ready
  <2>1. start.at \in Launching
    BY <1>10 DEF Ready, SAt, Launching
  <2>2. queue = Launcher
    BY <1>0, <2>1 DEF Held
  <2>3. (SGo("abort") /\ queue' = queue) \/ (SGo("check") /\ queue' = Nobody)
    BY <1>10 DEF Ready
  <2>. QED
    BY <1>1, <1>2, <1>3, <1>4, <2>2, <2>3 DEF Launching
<1>11. CASE Check
  <2>1. SGo("done") /\ queue' = queue /\ start.at = "check"
    BY <1>11 DEF Check, SAt, probe
  <2>2. queue # Launcher
    BY <1>0, <2>1 DEF Held, Preparing, Launching, Answers
  <2>. QED
    BY <1>2, <1>3, <1>4, <2>1, <2>2 DEF Launching
<1>. QED
  BY <1>5, <1>6, <1>7, <1>8, <1>9, <1>10, <1>11 DEF LaunchSteps

(* A server that is not the holder leaves an owner in force alone.         *)
LEMMA ReleasedEffect ==
  ASSUME NEW p \in Servers, NEW token \in 0 .. MaxClaims, WorldTyped, owner' = Released(p, token)
  PROVE  owner' \in Owners /\ owner' \in {owner, NoOwner} /\ owner'.token <= claims
         /\ (owner'.token # 0 => owner'.by \in Servers)
BY CaptureConstantsOK DEF Released, WorldTyped, Owners, NoOwner

LEMMA ClaimEffect ==
  ASSUME NEW p \in Servers, WorldTyped, Claim(p)
  PROVE  /\ claims' \in 1 .. MaxClaims /\ owner' \in Owners /\ owner'.token = claims'
         /\ owner'.token # 0 /\ owner'.by = p /\ claims' = claims + 1
BY CaptureConstantsOK DEF Claim, WorldTyped, Owners

(* A step of a task: it is its own task's, and leaves alone what is so.    *)
LEMMA TaskBase ==
  ASSUME IInv, NEW p \in Servers, TaskStep(p)
  PROVE  /\ UNCHANGED <<helper, young, up, start>> /\ up[p]
         /\ session.state # "none"
         /\ target' = target \/ (target' = "found" /\ task[p].at = "verify")
<1>1. UNCHANGED <<helper, young, up, start>>
  BY DEF TaskStep, Steps, Call, Monitor, Reconcile, EnsureOwner, EnsureRefused, RequestStop, Stop,
         Stopping, Wait, Settle, EndJournal, Seal, WriteTerminal, EnterQueue, Verify, VerifyFails,
         TaskRest
<1>2. up[p]
  BY DEF TaskStep, Steps, Call, Monitor, Reconcile, EnsureOwner, EnsureRefused, RequestStop, Stop,
         Stopping, Wait, Settle, EndJournal, Seal, WriteTerminal, EnterQueue, Verify, VerifyFails,
         At
<1>3. session.state # "none"
  <2>1. Call(p) => session.state # "none"
    BY DEF Call
  <2>2. Monitor(p) => watch[p]
    BY DEF Monitor
  <2>3. Steps(p) \/ VerifyFails(p) => task[p].at # "idle"
    BY DEF Steps, Reconcile, EnsureOwner, EnsureRefused, RequestStop, Stop, Stopping, Wait, Settle,
           EndJournal, Seal, WriteTerminal, EnterQueue, Verify, VerifyFails, At
  <2>. QED
    BY <2>1, <2>2, <2>3 DEF TaskStep, IInv, EmptyInv
<1>4. target' = target \/ (target' = "found" /\ task[p].at = "verify")
  BY DEF TaskStep, Steps, Call, Monitor, Reconcile, EnsureOwner, EnsureRefused, RequestStop, Stop,
         Stopping, Wait, Settle, EndJournal, Seal, WriteTerminal, EnterQueue, Verify, VerifyFails,
         TaskRest, At, Restore
<1>. QED
  BY <1>1, <1>2, <1>3, <1>4

(* The session record after it was reconciled: the process id, no more.    *)
LEMMA DiscoveredEffect ==
  ASSUME session \in SessionRecords
  PROVE  /\ Discovered \in SessionRecords /\ Discovered.state = session.state
         /\ Discovered.token = session.token /\ Discovered.pending = session.pending
         /\ session.pid = 1 \/ helper.named => Discovered.pid = 1
         /\ Discovered.pid = 1 => session.pid = 1 \/ helper.named
<1>1. CASE session.pid = 0 /\ helper.named
  <2>1. Discovered = [session EXCEPT !.pid = 1]
    BY <1>1 DEF Discovered
  <2>2. PICK s : s = [session EXCEPT !.pid = 1]
    OBVIOUS
  <2>3. /\ s \in SessionRecords /\ s.state = session.state /\ s.token = session.token
        /\ s.pid = 1
    BY <2>2 DEF SessionRecords
  <2>4. s.pending = session.pending
    BY <2>2 DEF SessionRecords
  <2>. QED
    BY <1>1, <2>1, <2>2, <2>3, <2>4
<1>2. CASE ~(session.pid = 0 /\ helper.named)
  <2>1. Discovered = session
    BY <1>2 DEF Discovered
  <2>. QED
    BY <1>2, <2>1 DEF SessionRecords
<1>. QED
  BY <1>1, <1>2

(* The owner of the capture after ensureSessionOwner.                      *)
LEMMA EnsureEffect ==
  ASSUME IInv, NEW p \in Servers, Owned(p, session), session.state # "none"
  PROVE  /\ session' \in SessionRecords /\ session'.pid = session.pid
         /\ session'.pending = session.pending
         /\ session'.state \in {session.state, "capturing"}
         /\ session'.state # session.state => session.state = "starting"
         /\ \/ owner' = owner /\ claims' = claims
            \/ Claim(p) /\ (OwnerLive \/ queue = Nobody)
         /\ ~CaptureAlive(session) => session' = session /\ owner' = owner /\ claims' = claims
         /\ CaptureAlive(session) => session'.token # 0
<1>0. session \in SessionRecords /\ WorldTyped
  BY DEF IInv, Typed, DiskTyped
<1>1. CASE ~CaptureAlive(session)
  BY <1>0, <1>1 DEF Owned, SessionRecords
<1>2. CASE CaptureAlive(session)
  <2>1. \/ UNCHANGED <<owner, claims>> /\ owner.token # 0
        \/ Claim(p) /\ (OwnerLive \/ queue = Nobody)
    BY <1>2 DEF Owned, OwnerLive
  <2>2. owner'.token \in 0 .. MaxClaims /\ owner'.token # 0
    BY <1>0, <2>1, ClaimEffect DEF WorldTyped, Owners
  <2>3. PICK s : s = [session EXCEPT !.token = owner'.token]
    OBVIOUS
  <2>4. /\ s \in SessionRecords /\ s.pid = session.pid /\ s.state = session.state
        /\ s.token # 0
    BY <1>0, <2>2, <2>3 DEF SessionRecords
  <2>5. s.pending = session.pending
    BY <1>0, <2>3 DEF SessionRecords
  <2>6. session' = [s EXCEPT !.state = IF s.state = "starting" THEN "capturing" ELSE s.state]
    BY <1>2, <2>3, Zenon DEF Owned
  <2>7. /\ session' \in SessionRecords /\ session'.pid = s.pid /\ session'.token = s.token
        /\ session'.state = IF s.state = "starting" THEN "capturing" ELSE s.state
    BY <2>4, <2>6 DEF SessionRecords, Active
  <2>8. session'.pending = s.pending
    BY <2>4, <2>6 DEF SessionRecords
  <2>9. session'.pending = session.pending
    BY <2>5, <2>8, Zenon
  <2>. QED
    BY <1>2, <2>1, <2>4, <2>7, <2>9
<1>. QED
  BY <1>1, <1>2

(* What a step of a task does to the session record.                       *)
LEMMA TaskSession ==
  ASSUME IInv, NEW p \in Servers, TaskStep(p)
  PROVE  /\ session' \in SessionRecords /\ session'.state # "none" /\ Valid(session')
         /\ session.pid = 1 => session'.pid = 1
         /\ session'.pid = 1 => session.pid = 1 \/ helper.named
         /\ session'.state \in Terminal =>
              \/ session'.state = session.state
              \/ task[p].at = "write" /\ session'.state = task[p].state
         /\ session'.state \in Terminal /\ ~session'.pending =>
              (session.state \in Terminal /\ ~session.pending) \/ target' = "found"
         /\ HelperRuns /\ session.token # 0 => session'.token # 0
<1>0. session \in SessionRecords /\ session.state # "none" /\ Valid(session)
  BY TaskBase DEF IInv, Typed, DiskTyped, ValidInv
<1>1. CASE session' = session
  BY <1>0, <1>1
<1>2. CASE Reconcile(p)
  <2>1. session' = Discovered
    BY <1>2 DEF Reconcile
  <2>2. /\ session' \in SessionRecords /\ session'.state = session.state
        /\ session'.token = session.token /\ session'.pending = session.pending
        /\ session.pid = 1 => session'.pid = 1
        /\ session'.pid = 1 => session.pid = 1 \/ helper.named
    BY <1>0, <2>1, DiscoveredEffect
  <2>3. Valid(session')
    BY <1>0, <2>2 DEF Valid, SessionRecords
  <2>4. session'.state \in Terminal /\ ~session'.pending => session.state \in Terminal /\ ~session.pending
    BY <2>2
  <2>. QED
    BY <1>0, <2>2, <2>3, <2>4
<1>3. CASE EnsureOwner(p)
  <2>1. Owned(p, session) /\ session.pid = 1
    BY <1>3 DEF EnsureOwner, At, IInv, TaskInv, KnowsHelper
  <2>2. /\ session' \in SessionRecords /\ session'.pid = 1
        /\ session'.pending = session.pending
        /\ session'.state \in {session.state, "capturing"}
        /\ ~CaptureAlive(session) => session' = session
        /\ CaptureAlive(session) => session'.token # 0
    BY <1>0, <2>1, EnsureEffect
  <2>3. CASE CaptureAlive(session)
    <3>1. session'.token # 0
      BY <2>2, <2>3
    <3>2. Valid(session')
      BY <2>2, <3>1 DEF Valid
    <3>3. session'.state \in Terminal => session'.state = session.state
      BY <2>2 DEF Terminal
    <3>4. session'.state \in Terminal /\ ~session'.pending =>
            session.state \in Terminal /\ ~session.pending
      BY <2>2, <3>3
    <3>. QED
      BY <1>0, <2>1, <2>2, <3>1, <3>2, <3>3, <3>4 DEF Active
  <2>. QED
    BY <1>1, <2>2, <2>3
<1>4. CASE RequestStop(p) \/ Stopping(p)
  <2>1. session' = session \/ (session' = [session EXCEPT !.state = "stopping"] /\ Valid(session'))
    <3>1. CASE RequestStop(p)
      BY <3>1 DEF RequestStop
    <3>2. CASE Stopping(p)
      <4>1. \/ session' = session
            \/ /\ session' = [session EXCEPT !.state = "stopping"]
               /\ OwnerLive /\ owner.token = session.token /\ IsAlive(session)
        BY <3>2 DEF Stopping
      <4>2. CASE session' # session
        <5>1. session'.pid = session.pid /\ session'.token = session.token
          BY <1>0, <4>1, <4>2 DEF SessionRecords
        <5>. QED
          BY <4>1, <4>2, <5>1 DEF Valid, OwnerLive, IsAlive
      <4>. QED
        BY <4>1, <4>2
    <3>. QED
      BY <1>4, <3>1, <3>2
  <2>2. CASE session' = [session EXCEPT !.state = "stopping"] /\ Valid(session')
    <3>1. /\ session' \in SessionRecords /\ session'.state = "stopping"
          /\ session'.pid = session.pid /\ session'.token = session.token
      BY <1>0, <2>2 DEF SessionRecords, Active
    <3>. QED
      BY <2>2, <3>1 DEF Terminal
  <2>. QED
    BY <1>1, <2>1, <2>2
<1>5. CASE WriteTerminal(p)
  <2>1. /\ task[p].at = "write" /\ task[p].state \in Terminal /\ task[p].token \in 0 .. MaxClaims
    BY <1>5 DEF WriteTerminal, At, IInv, SealInv, Passes, Typed, ServersTyped, Tasks
  <2>2. PICK s : s = TerminalOf(session, task[p].state, task[p].token)
    OBVIOUS
  <2>3. /\ s \in SessionRecords /\ s.state = task[p].state /\ s.pid = session.pid
        /\ s.token = task[p].token /\ s.pending
    BY <1>0, <2>1, <2>2, TerminalEffect
  <2>4. session' = session \/ (session' = s /\ Valid(s))
    BY <1>5, <2>2, Zenon DEF WriteTerminal, TerminalOf
  <2>5. ~HelperRuns
    BY <2>1 DEF IInv, TaskInv, KnowsHelper, Gone
  <2>. QED
    BY <1>1, <2>1, <2>3, <2>4, <2>5 DEF Terminal
<1>6. CASE Verify(p)
  <2>1. session' = [session EXCEPT !.pending = FALSE] /\ target' = "found"
    BY <1>6 DEF Verify, Restore
  <2>2. /\ session' \in SessionRecords /\ session'.state = session.state
        /\ session'.pid = session.pid /\ session'.token = session.token
    BY <1>0, <2>1 DEF SessionRecords
  <2>3. Valid(session')
    BY <1>0, <2>2 DEF Valid
  <2>. QED
    BY <1>0, <2>1, <2>2, <2>3
<1>7. CASE \/ Call(p) \/ Monitor(p) \/ EnsureRefused(p) \/ Stop(p) \/ Wait(p) \/ Settle(p)
           \/ EndJournal(p) \/ Seal(p) \/ EnterQueue(p) \/ VerifyFails(p)
  <2>1. session' = session
    BY <1>7 DEF Call, Monitor, EnsureRefused, Stop, Wait, Settle, EndJournal, Seal, EnterQueue,
                VerifyFails, disk
  <2>. QED
    BY <1>1, <2>1
<1>. QED
  BY <1>2, <1>3, <1>4, <1>5, <1>6, <1>7 DEF TaskStep, Steps

(* And a step of hss_start.                                                *)
LEMMA LaunchSession ==
  ASSUME IInv, LaunchSteps
  PROVE  /\ session' \in SessionRecords /\ session'.state # "none" /\ Valid(session')
         /\ session.pid = 1 => session'.pid = 1
         /\ session'.state \in Terminal =>
              \/ session'.state = session.state
              \/ session'.state = "failed" /\ start.at \in {"create", "end", "fail"}
         /\ session'.state \in Terminal /\ ~session'.pending =>
              (session.state \in Terminal /\ ~session.pending) \/ target' = "found"
         /\ start'.at = "launch" => session'.pid = 0
         /\ start'.at \in {"claim", "token", "ready"} => session'.pid = 1
         /\ start'.at = "ready" => session'.token # 0
<1>0. /\ session \in SessionRecords /\ start \in Starts
      /\ session.state = "none" => start.at = "create"
  BY LaunchMoves DEF IInv, Typed, DiskTyped, ServersTyped, PlaceInv
<1>1. CASE Create \/ CreateFails
  <2>1. \E state \in {"starting", "failed"} : session' = [NoSession EXCEPT !.state = state]
    BY <1>1 DEF Create, CreateFails
  <2>2. /\ session' \in SessionRecords /\ session'.state \in {"starting", "failed"}
        /\ session'.pid = 0
    <3>1. NoSession \in SessionRecords /\ NoSession.pid = 0
      BY CaptureConstantsOK DEF NoSession, SessionRecords
    <3>. QED
      BY <2>1, <3>1 DEF SessionRecords, Active, Terminal
  <2>3. session.pid = 0 /\ start.at = "create" /\ target' = "found"
    BY <1>1 DEF Create, CreateFails, SAt, StartRest, IInv, EmptyInv, NoSession, TargetInv
  <2>4. start'.at \in {"launch", "done"}
    <3>1. SGo("launch") \/ SGo("done")
      BY <1>1 DEF Create, CreateFails
    <3>. QED
      BY <1>0, <3>1, SGoEffect DEF StartPhases, Held, Launching
  <2>. QED
    BY <2>2, <2>3, <2>4 DEF Valid, Terminal
<1>2. CASE session.state # "none"
  <2>0. Valid(session)
    BY <1>2 DEF IInv, ValidInv
  <2>1. CASE session' = session /\ start'.at \notin {"launch", "claim", "token", "ready"}
    BY <1>0, <1>2, <2>0, <2>1
  <2>2. CASE RecordPid
    <3>1. /\ session' = [session EXCEPT !.pid = 1]
          /\ SGo("claim")
      BY <2>2 DEF RecordPid
    <3>2. /\ session' \in SessionRecords /\ session'.state = session.state
          /\ session'.pid = 1 /\ session'.token = session.token
      BY <1>0, <3>1 DEF SessionRecords
    <3>3. session'.pending = session.pending
      BY <1>0, <3>1 DEF SessionRecords
    <3>4. start'.at = "claim"
      BY <1>0, <3>1, SGoEffect DEF StartPhases, Held, Launching
    <3>5. Valid(session')
      BY <2>0, <3>2 DEF Valid
    <3>6. session'.state \in Terminal /\ ~session'.pending => session.state \in Terminal /\ ~session.pending
      BY <3>2, <3>3
    <3>. QED
      BY <1>2, <3>2, <3>4, <3>5, <3>6
  <2>3. CASE ClaimProbe
    <3>1. session' = session /\ session.pid = 1
      BY <2>3 DEF ClaimProbe, disk, SAt, IInv, PlaceInv
    <3>2. start'.at \in {"token", "abort"}
      <4>1. SGo("abort") => start'.at = "abort"
        BY <1>0, SGoEffect DEF StartPhases, Held, Launching
      <4>2. start' = [start EXCEPT !.at = "token", !.claimed = claims + 1] => start'.at = "token"
        <5>1. start \in [at : StartPhases, claimed : 0 .. MaxClaims, over : BOOLEAN]
          BY <1>0 DEF Starts
        <5>. QED
          BY <5>1
      <4>. QED
        BY <2>3, <4>1, <4>2 DEF ClaimProbe
    <3>. QED
      BY <1>0, <1>2, <2>0, <3>1, <3>2
  <2>4. CASE RecordToken
    <3>1. session.pid = 1 /\ start.claimed \in 1 .. MaxClaims
      BY <1>0, <2>4 DEF RecordToken, SAt, IInv, PlaceInv, Starts
    <3>2. PICK s : s = [session EXCEPT !.token = start.claimed]
      OBVIOUS
    <3>3. /\ s \in SessionRecords /\ s.state = session.state /\ s.pid = 1
          /\ s.token = start.claimed
      BY <1>0, <3>1, <3>2 DEF SessionRecords
    <3>4. s.pending = session.pending
      BY <1>0, <3>2 DEF SessionRecords
    <3>5. (session' = s /\ Valid(s)) \/ (session' = session /\ SGo("abort"))
      BY <2>4, <3>2, Zenon DEF RecordToken
    <3>6. SGo("abort") => start'.at = "abort"
      BY <1>0, SGoEffect DEF StartPhases, Held, Launching
    <3>7. CASE session' = s /\ Valid(s)
      <4>1. start'.at # "launch"
        <5>1. session.pid = 1 /\ start.at = "token"
          BY <2>4, <3>1 DEF RecordToken, SAt
        <5>2. start'.at \in {"abort", "ready"}
          <6>1. start' = [start EXCEPT !.at = "ready", !.over = session.state \in Terminal]
                  => start'.at = "ready"
            BY <1>0 DEF Starts
          <6>. QED
            BY <2>4, <3>6, <6>1 DEF RecordToken
        <5>. QED
          BY <5>2
      <4>2. s.state \in Terminal /\ ~s.pending => session.state \in Terminal /\ ~session.pending
        BY <3>3, <3>4
      <4>3. s.token # 0
        BY <3>1, <3>3
      <4>. QED
        BY <1>2, <3>3, <3>7, <4>1, <4>2, <4>3
    <3>. QED
      BY <2>1, <3>5, <3>6, <3>7
  <2>5. CASE Ready
    <3>1. start'.at \in {"abort", "check"}
      <4>1. SGo("abort") \/ SGo("check")
        BY <2>5 DEF Ready
      <4>. QED
        BY <1>0, <4>1, SGoEffect DEF StartPhases, Held, Launching
    <3>2. session' = session \/
            session' = [session EXCEPT !.state = IF session.state = "stopping" THEN session.state
                                                 ELSE "capturing"]
      BY <2>5 DEF Ready
    <3>3. session.pid = 1 /\ session.token # 0
      BY <2>5 DEF Ready, SAt, IInv, PlaceInv, HelperRuns, Living
    <3>4. CASE session' # session
      <4>1. /\ session' \in SessionRecords /\ session'.state \in {"stopping", "capturing"}
            /\ session'.pid = 1 /\ session'.token # 0
        BY <1>0, <3>2, <3>3, <3>4 DEF SessionRecords, Active
      <4>. QED
        BY <3>1, <4>1 DEF Valid, Terminal
    <3>. QED
      BY <2>1, <3>1, <3>4
  <2>6. CASE Leave
    <3>1. start'.at = "done"
      <4>1. SGo("done")
        BY <2>6 DEF Leave
      <4>. QED
        BY <1>0, <4>1, SGoEffect DEF StartPhases
    <3>2. PICK token \in 0 .. MaxClaims :
            token = IF owner'.token # 0 THEN owner'.token ELSE session.token
      <4>1. owner'.token \in 0 .. MaxClaims
        <5>1. owner' = owner \/ Claim(Starter)
          BY <2>6 DEF Leave
        <5>. QED
          BY <5>1, ClaimEffect, CaptureConstantsOK DEF IInv, Typed, WorldTyped, Owners
      <4>. QED
        BY <1>0, <4>1 DEF SessionRecords
    <3>3. PICK s : s = LeftOf(session, token)
      OBVIOUS
    <3>4. s \in SessionRecords /\ s.state = "stopping" /\ s.pid = 1 /\ s.token = token
      BY <1>0, <3>2, <3>3, LeftEffect
    <3>5. session' = session \/ (session' = s /\ Valid(s))
      BY <2>6, <3>2, <3>3, Zenon DEF Leave, LeftOf
    <3>. QED
      BY <2>1, <3>1, <3>4, <3>5 DEF Terminal
  <2>7. CASE Fail \/ FailPending
    <3>1. start'.at = "done" /\ start.at \in {"end", "fail"}
      <4>1. SGo("done")
        BY <2>7 DEF Fail, FailPending
      <4>. QED
        BY <1>0, <2>7, <4>1, SGoEffect DEF StartPhases, Fail, FailPending, SAt
    <3>2. PICK pending \in BOOLEAN :
            /\ session' = EndOf(session, pending)
            /\ ~pending => target' = "found"
      <4>1. CASE Fail
        <5>1. target' = "found"
          BY <4>1 DEF Fail, StartRest, SAt, IInv, TargetInv
        <5>. QED
          BY <4>1, <5>1, Zenon DEF Fail, EndOf
      <4>2. CASE FailPending
        BY <4>2, Zenon DEF FailPending, EndOf
      <4>. QED
        BY <2>7, <4>1, <4>2
    <3>3. /\ session' \in SessionRecords /\ session'.state = "failed"
          /\ session'.pid = session.pid /\ session'.pending = pending
      BY <1>0, <3>2, EndEffect
    <3>. QED
      BY <3>1, <3>2, <3>3 DEF Valid
  <2>8. CASE Launch \/ NotReady \/ Check \/ Abort \/ EndVerified
    <3>1. session' = session
      BY <2>8 DEF Launch, NotReady, Check, Abort, EndVerified, disk
    <3>2. \E step \in {"pid", "end", "abort", "done", "fail"} : SGo(step)
      BY <2>8 DEF Launch, NotReady, Check, Abort, EndVerified
    <3>3. start'.at \in {"pid", "end", "abort", "done", "fail"}
      BY <1>0, <3>2, SGoEffect DEF StartPhases, Held, Launching
    <3>. QED
      BY <2>1, <3>1, <3>3
  <2>9. CASE CreateFails \/ Create
    BY <1>1, <2>9
  <2>. QED
    BY <2>2, <2>3, <2>4, <2>5, <2>6, <2>7, <2>8, <2>9 DEF LaunchSteps
<1>3. CASE session.state = "none"
  <2>1. Create \/ CreateFails
    BY <1>0, <1>3 DEF LaunchSteps, Launch, RecordPid, ClaimProbe, RecordToken, Ready, NotReady,
                      Check, Abort, Leave, EndVerified, Fail, FailPending, SAt
  <2>. QED
    BY <1>1, <2>1
<1>. QED
  BY <1>2, <1>3

-----------------------------------------------------------------------------
(* What goes on only: a record stays, a helper that is gone stays so.      *)
LEMMA LaunchHelper ==
  ASSUME IInv, LaunchSteps
  PROVE  /\ helper' \in Helpers
         /\ \/ helper' = helper
            \/ /\ start.at = "launch" /\ helper'.is = "started" /\ ~helper'.named
               /\ start'.at = "pid"
            \/ helper'.is = "dead"
         /\ start'.at = "launch" => start.at = "create" /\ helper' = helper
         /\ start.at = "launch" => session.state # "none"
<1>0. helper \in Helpers /\ start \in Starts /\ (start.at = "launch" => session.state # "none")
  BY DEF IInv, Typed, WorldTyped, ServersTyped, PlaceInv, Launching
<1>1. CASE Launch
  <2>1. SGo("pid") \/ SGo("end")
    BY <1>1 DEF Launch
  <2>2. SGo("pid") => start'.at = "pid"
    BY <1>0, SGoEffect DEF StartPhases, Held, Launching
  <2>3. SGo("end") => start'.at = "end"
    BY <1>0, SGoEffect DEF StartPhases, Held, Launching
  <2>4. ~helper.named /\ start.at = "launch"
    BY <1>1 DEF Launch, SAt, IInv, HelperInv, PlaceInv
  <2>5. CASE helper' = [helper EXCEPT !.is = "started"] /\ SGo("pid")
    <3>1. helper' \in Helpers /\ helper'.is = "started"
      BY <1>0, <2>5 DEF Helpers, Living
    <3>2. helper'.named = helper.named
      BY <1>0, <2>5 DEF Helpers
    <3>. QED
      BY <1>0, <2>2, <2>4, <2>5, <3>1, <3>2
  <2>. QED
    BY <1>0, <1>1, <2>3, <2>4, <2>5 DEF Launch
<1>2. CASE Ready \/ Abort
  <2>1. helper' = helper \/ helper' = [helper EXCEPT !.is = "dead"]
    BY <1>2 DEF Ready, Abort
  <2>2. SGo("abort") \/ SGo("check") \/ SGo("end")
    BY <1>2 DEF Ready, Abort
  <2>3. start'.at # "launch"
    BY <1>0, <2>2, SGoEffect DEF StartPhases, Held, Launching
  <2>. QED
    BY <1>0, <2>1, <2>3 DEF Helpers
<1>3. CASE Create
  BY <1>0, <1>3 DEF Create, SAt
<1>4. CASE \/ CreateFails \/ RecordPid \/ NotReady \/ Check \/ Leave \/ EndVerified
           \/ Fail \/ FailPending
  <2>1. helper' = helper
    BY <1>4 DEF CreateFails, RecordPid, NotReady, Check, Leave, EndVerified, Fail, FailPending,
                world
  <2>2. \E step \in {"claim", "abort", "done", "fail"} : SGo(step)
    BY <1>4 DEF CreateFails, RecordPid, NotReady, Check, Leave, EndVerified, Fail, FailPending
  <2>3. start'.at # "launch"
    BY <1>0, <2>2, SGoEffect DEF StartPhases, Held, Launching
  <2>. QED
    BY <1>0, <2>1, <2>3
<1>5. CASE ClaimProbe \/ RecordToken
  <2>1. helper' = helper
    BY <1>5 DEF ClaimProbe, RecordToken
  <2>2. \/ SGo("abort")
        \/ start' = [start EXCEPT !.at = "token", !.claimed = claims + 1]
        \/ start' = [start EXCEPT !.at = "ready", !.over = session.state \in Terminal]
    BY <1>5 DEF ClaimProbe, RecordToken
  <2>3. SGo("abort") => start'.at # "launch"
    BY <1>0, SGoEffect DEF StartPhases, Held, Launching
  <2>4. start' = [start EXCEPT !.at = "token", !.claimed = claims + 1] => start'.at # "launch"
    BY <1>0 DEF Starts
  <2>5. start' = [start EXCEPT !.at = "ready", !.over = session.state \in Terminal]
          => start'.at # "launch"
    BY <1>0 DEF Starts
  <2>. QED
    BY <1>0, <2>1, <2>2, <2>3, <2>4, <2>5
<1>. QED
  BY <1>1, <1>2, <1>3, <1>4, <1>5 DEF LaunchSteps

LEMMA DiesEffect ==
  ASSUME IInv, NEW p \in Servers, Dies(p)
  PROVE  /\ UNCHANGED <<session, stopFile, pkg, owner, claims, helper, target, young>>
         /\ up' \in [Servers -> BOOLEAN] /\ watch' \in [Servers -> BOOLEAN]
         /\ \A q \in Servers \ {p} : up'[q] = up[q] /\ watch'[q] = watch[q]
         /\ ~up'[p] /\ ~watch'[p]
         /\ task' \in [Servers -> Tasks] /\ task'[p].at = "idle"
         /\ \A q \in Servers \ {p} : task'[q] = task[q]
         /\ faults' \in 0 .. MaxFaults
         /\ start' \in Starts
         /\ \/ start' = start /\ (p = Starter => start.at \in {"done"} \cup NotStarted)
            \/ start'.at = "dead" /\ p = Starter
         /\ lease' \in {lease, Nobody} /\ (lease # p => lease' = lease)
         /\ queue' \in {queue, Nobody} /\ queue' # p
         /\ queue = Launcher => (queue' = Nobody <=> p = Starter)
         /\ queue \notin {p, Launcher} => queue' = queue
<1>1. UNCHANGED <<session, stopFile, pkg, owner, claims, helper, target, young>>
  BY DEF Dies, disk
<1>2. /\ up' \in [Servers -> BOOLEAN] /\ watch' \in [Servers -> BOOLEAN]
      /\ \A q \in Servers \ {p} : up'[q] = up[q] /\ watch'[q] = watch[q]
      /\ ~up'[p] /\ ~watch'[p]
  BY DEF Dies, IInv, Typed, ServersTyped
<1>3. /\ task' \in [Servers -> Tasks] /\ task'[p].at = "idle"
      /\ \A q \in Servers \ {p} : task'[q] = task[q]
  BY NoTaskTyped DEF Dies, IInv, Typed, ServersTyped
<1>4. faults' \in 0 .. MaxFaults
  BY CaptureConstantsOK DEF Dies, Fault, IInv, Typed, WorldTyped
<1>5. /\ start' \in Starts
      /\ \/ start' = start /\ (p = Starter => start.at \in {"done"} \cup NotStarted)
         \/ start'.at = "dead" /\ p = Starter
  BY CaptureConstantsOK DEF Dies, IInv, Typed, ServersTyped, NotStarting, Starts, StartPhases
<1>6. lease' \in {lease, Nobody} /\ (lease # p => lease' = lease)
  BY DEF Dies
<1>7. /\ queue' \in {queue, Nobody} /\ queue' # p
      /\ queue = Launcher => (queue' = Nobody <=> p = Starter)
      /\ queue \notin {p, Launcher} => queue' = queue
  BY CaptureConstantsOK DEF Dies, Nobody, Launcher
<1>. QED
  BY <1>1, <1>2, <1>3, <1>4, <1>5, <1>6, <1>7

LEMMA RestartEffect ==
  ASSUME IInv, NEW p \in Servers, Restart(p)
  PROVE  /\ UNCHANGED <<session, stopFile, pkg, owner, claims, queue, lease>>
         /\ UNCHANGED <<helper, target, young, faults, start, task>>
         /\ up' \in [Servers -> BOOLEAN] /\ watch' \in [Servers -> BOOLEAN]
         /\ \A q \in Servers : up[q] => up'[q]
         /\ \A q \in Servers : watch'[q] =>
              watch[q] \/ session.state \in Active \/ session.pending
<1>1. /\ UNCHANGED <<session, stopFile, pkg, owner, claims, queue, lease>>
      /\ UNCHANGED <<helper, target, young, faults, start, task>>
  BY DEF Restart, disk, probe, world
<1>2. watch' = [watch EXCEPT ![p] = session.state \in Active \/ session.pending]
  BY DEF Restart
<1>3. up' = [up EXCEPT ![p] = TRUE]
  BY DEF Restart
<1>4. up \in [Servers -> BOOLEAN] /\ watch \in [Servers -> BOOLEAN]
  BY DEF IInv, Typed, ServersTyped
<1>5. (session.state \in Active \/ session.pending) \in BOOLEAN
  OBVIOUS
<1>6. /\ watch' \in [Servers -> BOOLEAN]
      /\ \A q \in Servers : watch'[q] => watch[q] \/ session.state \in Active \/ session.pending
  BY <1>2, <1>4, <1>5
<1>7. up' \in [Servers -> BOOLEAN] /\ \A q \in Servers : up[q] => up'[q]
  BY <1>3, <1>4
<1>. QED
  BY <1>1, <1>6, <1>7

LEMMA AgesEffect ==
  ASSUME Ages
  PROVE  /\ UNCHANGED <<session, stopFile, pkg, owner, claims, queue, lease>>
         /\ UNCHANGED <<helper, target, faults, up, watch, start, task>>
         /\ session.state = "starting" /\ helper.is # "started" /\ young' = FALSE
         /\ start.at # "launch" \/ ~up[Starter]
BY DEF Ages, disk, probe, tasks

LEMMA StutterEffect ==
  ASSUME UNCHANGED vars
  PROVE  /\ UNCHANGED <<session, stopFile, pkg, owner, claims, queue, lease>>
         /\ UNCHANGED <<helper, target, young, faults, up, watch, start, task>>
BY DEF vars, disk, probe, world, tasks

LEMMA Onward ==
  ASSUME IInv, [Next]_vars
  PROVE  /\ session' \in SessionRecords
         /\ session.pid = 1 => session'.pid = 1
         /\ session.state # "none" => session'.state # "none"
         /\ Gone => Gone'
<1>0. session \in SessionRecords
  BY DEF IInv, Typed, DiskTyped
<1>1. CASE HelperSteps
  BY <1>0, <1>1, HelperEffect DEF Gone
<1>2. CASE Ages
  BY <1>0, <1>2, AgesEffect DEF Gone, HelperRuns
<1>3. CASE Prepare
  BY <1>0, <1>3, PrepareEffect DEF Gone
<1>4. CASE LaunchSteps
  BY <1>4, LaunchSession, LaunchHelper, LaunchMoves DEF Gone, HelperRuns, Living, IInv, PlaceInv,
     Preparing
<1>5. CASE \E p \in Servers : TaskStep(p)
  BY <1>5, TaskSession, TaskBase DEF Gone, HelperRuns
<1>6. CASE \E p \in Servers : Dies(p)
  BY <1>0, <1>6, DiesEffect DEF Gone, HelperRuns
<1>7. CASE \E p \in Servers : Restart(p)
  BY <1>0, <1>7, RestartEffect DEF Gone, HelperRuns
<1>8. CASE UNCHANGED vars
  BY <1>0, <1>8, StutterEffect DEF Gone, HelperRuns
<1>. QED
  BY <1>1, <1>2, <1>3, <1>4, <1>5, <1>6, <1>7, <1>8, NextKinds

-----------------------------------------------------------------------------
(* The parts about the record, hss_start, the helper and the target.       *)
LEMMA EmptyKept ==
  ASSUME IInv, [Next]_vars
  PROVE  EmptyInv'
<1>1. CASE session'.state # "none"
  BY <1>1 DEF EmptyInv
<1>2. CASE session.state = "none" /\ Prepare
  BY <1>2, PrepareEffect DEF IInv, EmptyInv
<1>3. CASE session.state = "none" /\ UNCHANGED vars
  BY <1>3, StutterEffect DEF IInv, EmptyInv
<1>4. CASE session.state = "none" /\ \E p \in Servers : Dies(p)
  <2>1. PICK p \in Servers : Dies(p)
    BY <1>4
  <2>. QED
    BY <1>4, <2>1, DiesEffect DEF IInv, EmptyInv
<1>5. CASE session.state = "none" /\ \E p \in Servers : Restart(p)
  <2>1. PICK p \in Servers : Restart(p)
    BY <1>5
  <2>2. session = NoSession /\ session.state \notin Active
    BY <1>5 DEF IInv, EmptyInv, Active
  <2>3. ~session.pending
    BY <2>2 DEF NoSession
  <2>4. EmptyInv
    BY DEF IInv
  <2>5. \A q \in Servers : ~watch'[q]
    BY <1>5, <2>1, <2>2, <2>3, <2>4, RestartEffect DEF EmptyInv
  <2>. QED
    BY <1>5, <2>1, <2>4, <2>5, RestartEffect DEF EmptyInv
<1>6. CASE session.state = "none" /\ (HelperSteps \/ Ages \/ LaunchSteps \/ \E p \in Servers : TaskStep(p))
  <2>1. ~HelperSteps
    BY <1>6, HelperEffect DEF IInv, EmptyInv, HelperRuns, Living
  <2>2. ~Ages
    BY <1>6, AgesEffect
  <2>. QED
    BY <1>1, <1>6, <2>1, <2>2, LaunchSession, TaskBase
<1>. QED
  BY <1>1, <1>2, <1>3, <1>4, <1>5, <1>6, NextKinds, Onward

LEMMA ValidKept ==
  ASSUME IInv, [Next]_vars
  PROVE  ValidInv'
<1>1. CASE session' = session
  BY <1>1 DEF IInv, ValidInv, Valid
<1>. QED
  BY <1>1, NextKinds, HelperEffect, AgesEffect, PrepareEffect, LaunchSession, TaskSession,
     DiesEffect, RestartEffect, StutterEffect DEF ValidInv

LEMMA HelperKept ==
  ASSUME IInv, [Next]_vars
  PROVE  HelperInv'
<1>0. HelperInv /\ session \in SessionRecords
  BY DEF IInv, Typed, DiskTyped
<1>1. CASE HelperSteps
  BY <1>1, HelperEffect DEF HelperInv
<1>2. CASE Ages
  BY <1>0, <1>2, AgesEffect DEF HelperInv
<1>3. CASE LaunchSteps
  <2>1. young' = young /\ (session.pid = 1 => session'.pid = 1) /\ session'.pid \in {0, 1}
    BY <1>3, LaunchMoves, LaunchSession DEF SessionRecords
  <2>2. start.at = "launch" => young
    BY DEF IInv, PlaceInv
  <2>3. session.pid = 0 \/ session.pid = 1
    BY <1>0 DEF SessionRecords
  <2>4. CASE helper' = helper
    BY <1>0, <2>1, <2>3, <2>4 DEF HelperInv
  <2>5. CASE helper'.is = "dead"
    BY <2>5 DEF HelperInv
  <2>6. CASE start.at = "launch" /\ helper'.is = "started" /\ ~helper'.named
    <3>1. young'
      BY <2>1, <2>2, <2>6, Zenon
    <3>. QED
      BY <2>6, <3>1 DEF HelperInv
  <2>. QED
    BY <1>3, <2>4, <2>5, <2>6, LaunchHelper
<1>4. CASE \E p \in Servers : TaskStep(p)
  <2>1. UNCHANGED <<helper, young>>
    BY <1>4, TaskBase
  <2>2. session.pid = 1 => session'.pid = 1
    BY Onward
  <2>3. session.pid = 0 \/ session.pid = 1
    BY <1>0 DEF SessionRecords
  <2>. QED
    BY <1>0, <2>1, <2>2, <2>3 DEF HelperInv
<1>5. CASE UNCHANGED <<session, helper, young>>
  BY <1>0, <1>5 DEF HelperInv
<1>. QED
  BY <1>1, <1>2, <1>3, <1>4, <1>5, NextKinds, PrepareEffect, DiesEffect, RestartEffect,
     StutterEffect

LEMMA EndedKept ==
  ASSUME IInv, [Next]_vars
  PROVE  EndedInv'
<1>0. EndedInv /\ TaskInv /\ (Gone => Gone')
  BY Onward DEF IInv
<1>1. CASE session'.state = session.state /\ start'.at = start.at
  BY <1>0, <1>1 DEF EndedInv
<1>2. CASE Prepare
  BY <1>2, PrepareEffect DEF EndedInv, Preparing, NotStarted, Answers, Terminal
<1>3. CASE \E p \in Servers : Dies(p)
  <2>1. session' = session /\ (start' = start \/ start'.at = "dead")
    BY <1>3, DiesEffect
  <2>. QED
    BY <1>0, <2>1 DEF EndedInv
<1>4. CASE \E p \in Servers : TaskStep(p)
  <2>1. PICK p \in Servers : TaskStep(p)
    BY <1>4
  <2>2. start' = start /\ (task[p].at = "write" => Gone)
    BY <1>0, <2>1, TaskBase DEF TaskInv, KnowsHelper
  <2>. QED
    BY <1>0, <2>1, <2>2, TaskSession DEF EndedInv
<1>5. CASE LaunchSteps
  <2>1. start \in Starts /\ PlaceInv /\ HelperInv
    BY DEF IInv, Typed, ServersTyped
  <2>2. ~HelperRuns' /\ start'.at # "launch" => Gone'
    BY <1>5, LaunchSession DEF Gone
  <2>3. CASE CreateFails
    <3>1. session'.state # "none" /\ start'.at = "done" /\ ~HelperRuns'
      <4>1. helper'.is = "none"
        BY <2>3 DEF CreateFails, IInv, EmptyInv
      <4>2. SGo("done")
        BY <2>3 DEF CreateFails
      <4>. QED
        BY <1>5, <2>1, <4>1, <4>2, SGoEffect, LaunchSession DEF StartPhases, HelperRuns, Living
    <3>. QED
      BY <2>2, <3>1 DEF EndedInv
  <2>4. CASE start'.at \in {"end", "fail"} /\ ~(start.at \in {"end", "fail"})
    <3>1. Launch \/ Abort
      <4>1. \A step \in {"launch", "claim", "abort", "done", "check"} : SGo(step) => start'.at = step
        BY <2>1, SGoEffect DEF StartPhases, Held, Launching
      <4>2. /\ start' = [start EXCEPT !.at = "token", !.claimed = claims + 1] => start'.at = "token"
            /\ start' = [start EXCEPT !.at = "ready", !.over = session.state \in Terminal] =>
                 start'.at = "ready"
        BY <2>1 DEF Starts
      <4>3. ~EndVerified /\ ~Fail /\ ~FailPending
        BY <2>4 DEF EndVerified, Fail, FailPending, SAt
      <4>. QED
        BY <1>5, <2>4, <4>1, <4>2, <4>3
        DEF LaunchSteps, Create, CreateFails, RecordPid, ClaimProbe, RecordToken, Ready, NotReady,
            Check, Leave
    <3>2. ~HelperRuns'
      <4>1. CASE Launch
        <5>1. SGo("pid") => start'.at = "pid"
          BY <2>1, SGoEffect DEF StartPhases, Held, Launching
        <5>2. helper' = helper /\ helper.is = "none"
          BY <2>1, <2>4, <4>1, <5>1 DEF Launch, SAt, PlaceInv
        <5>. QED
          BY <5>2 DEF HelperRuns, Living
      <4>2. CASE Abort
        <5>1. helper \in Helpers
          BY DEF IInv, Typed, WorldTyped
        <5>. QED
          BY <4>2, <5>1 DEF Abort, HelperRuns, Helpers, Living
      <4>. QED
        BY <3>1, <4>1, <4>2
    <3>3. Gone'
      BY <2>2, <2>4, <3>2
    <3>. QED
      BY <3>3 DEF EndedInv
  <2>5. CASE start.at \in {"end", "fail"}
    BY <1>0, <2>5 DEF EndedInv
  <2>6. CASE session'.state \in Terminal /\ session'.state # session.state
    <3>1. start.at \in {"create", "end", "fail"}
      BY <1>5, <2>6, LaunchSession
    <3>2. CASE start.at = "create"
      <4>1. Create \/ CreateFails
        BY <1>5, <3>2 DEF LaunchSteps, Launch, RecordPid, ClaimProbe, RecordToken, Ready, NotReady,
                          Check, Abort, Leave, EndVerified, Fail, FailPending, SAt
      <4>2. Create => session'.state = "starting"
        BY DEF Create, NoSession
      <4>. QED
        BY <2>3, <2>6, <4>1, <4>2 DEF Terminal
    <3>. QED
      BY <2>5, <3>1, <3>2
  <2>7. CASE /\ start'.at \in {"end", "fail"} => start.at \in {"end", "fail"}
             /\ session'.state \in Terminal => session'.state = session.state
    BY <1>0, <2>7 DEF EndedInv
  <2>. QED
    BY <2>4, <2>6, <2>7
<1>. QED
  BY <1>1, <1>2, <1>3, <1>4, <1>5, NextKinds, HelperEffect, AgesEffect, RestartEffect, StutterEffect

LEMMA TargetKept ==
  ASSUME IInv, [Next]_vars
  PROVE  TargetInv'
<1>0. TargetInv /\ EndedInv /\ PlaceInv
  BY DEF IInv
<1>1. CASE HelperSteps
  <2>1. HelperRuns /\ session' = session /\ start' = start
    BY <1>1, HelperEffect
  <2>2. session.state \notin Terminal /\ start.at # "fail"
    BY <1>0, <2>1 DEF EndedInv, Gone
  <2>3. session.state # "none"
    BY <2>1 DEF IInv, EmptyInv, HelperRuns, Living
  <2>4. start.at \notin {"idle", "memory", "before", "create", "refused", "polls", "planned"}
    BY <1>0, <2>3 DEF PlaceInv, Preparing, NotStarted
  <2>. QED
    BY <2>1, <2>2, <2>4 DEF TargetInv
<1>2. CASE Prepare
  BY <1>0, <1>2, PrepareEffect DEF TargetInv, Preparing, NotStarted, Answers, Terminal
<1>3. CASE LaunchSteps
  <2>1. start'.at \in Launching \cup {"check", "done"}
    BY <1>3, LaunchMoves
  <2>2. CASE EndVerified
    <3>1. target' = "found"
      BY <2>2 DEF EndVerified, Restore
    <3>. QED
      BY <3>1 DEF TargetInv
  <2>3. CASE ~EndVerified
    <3>1. target' = target
      BY <1>3, <2>3 DEF LaunchSteps, Create, CreateFails, Launch, RecordPid, ClaimProbe, RecordToken,
           Ready, NotReady, Check, Abort, Leave, Fail, FailPending, StartRest, world
    <3>2. start'.at # "fail"
      <4>1. start \in Starts
        BY DEF IInv, Typed, ServersTyped
      <4>2. \A step \in Launching \cup {"check", "done"} : SGo(step) => start'.at = step
        BY <4>1, SGoEffect DEF StartPhases, Held
      <4>3. /\ start' = [start EXCEPT !.at = "token", !.claimed = claims + 1] => start'.at = "token"
            /\ start' = [start EXCEPT !.at = "ready", !.over = session.state \in Terminal] =>
                 start'.at = "ready"
        BY <4>1 DEF Starts
      <4>4. \/ \E step \in {"launch", "pid", "claim", "abort", "end", "done", "check"} : SGo(step)
            \/ start' = [start EXCEPT !.at = "token", !.claimed = claims + 1]
            \/ start' = [start EXCEPT !.at = "ready", !.over = session.state \in Terminal]
        BY <1>3, <2>3 DEF LaunchSteps, Create, CreateFails, Launch, RecordPid, ClaimProbe,
             RecordToken, Ready, NotReady, Check, Abort, Leave, Fail, FailPending
      <4>. QED
        BY <4>2, <4>3, <4>4 DEF Launching
    <3>. QED
      BY <1>0, <1>3, <2>1, <3>1, <3>2, LaunchSession DEF TargetInv, Launching
  <2>. QED
    BY <2>2, <2>3
<1>4. CASE \E p \in Servers : TaskStep(p)
  <2>1. PICK p \in Servers : TaskStep(p)
    BY <1>4
  <2>2. start' = start /\ (target' = target \/ target' = "found")
    BY <2>1, TaskBase
  <2>. QED
    BY <1>0, <2>1, <2>2, TaskSession DEF TargetInv
<1>5. CASE /\ session' = session /\ target' = target
           /\ start' = start \/ start'.at = "dead"
  BY <1>0, <1>5 DEF TargetInv
<1>. QED
  BY <1>1, <1>2, <1>3, <1>4, <1>5, NextKinds, AgesEffect, DiesEffect, RestartEffect, StutterEffect

-----------------------------------------------------------------------------
(* The parts about the tasks.                                              *)
AtThen(p, step, then) == [task EXCEPT ![p].at = step, ![p].then = then]
AtToken(p, step, token) == [task EXCEPT ![p].at = step, ![p].token = token]
AtState(p, step, state) == [task EXCEPT ![p].at = step, ![p].state = state]

LEMMA WithThen ==
  ASSUME task \in [Servers -> Tasks], NEW p \in Servers, NEW step \in TaskPhases,
         NEW then \in {"none", "decide", "stopping", "written"}
  PROVE  /\ AtThen(p, step, then) \in [Servers -> Tasks]
         /\ AtThen(p, step, then)[p].at = step /\ AtThen(p, step, then)[p].then = then
         /\ AtThen(p, step, then)[p].op = task[p].op
         /\ \A q \in Servers \ {p} : AtThen(p, step, then)[q] = task[q]
<1>1. PICK f : f = [task EXCEPT ![p].at = step]
  OBVIOUS
<1>2. /\ f \in [Servers -> Tasks] /\ f[p].at = step /\ f[p].op = task[p].op
      /\ \A q \in Servers \ {p} : f[q] = task[q]
  BY <1>1 DEF Tasks
<1>3. AtThen(p, step, then) = [f EXCEPT ![p].then = then]
  BY <1>1, Zenon DEF AtThen
<1>. QED
  BY <1>2, <1>3 DEF Tasks

LEMMA WithToken ==
  ASSUME task \in [Servers -> Tasks], NEW p \in Servers, NEW step \in TaskPhases,
         NEW token \in 0 .. MaxClaims
  PROVE  /\ AtToken(p, step, token) \in [Servers -> Tasks]
         /\ AtToken(p, step, token)[p].at = step
         /\ \A q \in Servers \ {p} : AtToken(p, step, token)[q] = task[q]
<1>1. PICK f : f = [task EXCEPT ![p].at = step]
  OBVIOUS
<1>2. /\ f \in [Servers -> Tasks] /\ f[p].at = step /\ f[p].op = task[p].op
      /\ \A q \in Servers \ {p} : f[q] = task[q]
  BY <1>1 DEF Tasks
<1>3. AtToken(p, step, token) = [f EXCEPT ![p].token = token]
  BY <1>1, Zenon DEF AtToken
<1>. QED
  BY <1>2, <1>3 DEF Tasks

LEMMA WithState ==
  ASSUME task \in [Servers -> Tasks], NEW p \in Servers, NEW step \in TaskPhases,
         NEW state \in Terminal \cup {"none"}
  PROVE  /\ AtState(p, step, state) \in [Servers -> Tasks]
         /\ AtState(p, step, state)[p].at = step /\ AtState(p, step, state)[p].state = state
         /\ \A q \in Servers \ {p} : AtState(p, step, state)[q] = task[q]
<1>1. PICK f : f = [task EXCEPT ![p].at = step]
  OBVIOUS
<1>2. /\ f \in [Servers -> Tasks] /\ f[p].at = step /\ f[p].op = task[p].op
      /\ \A q \in Servers \ {p} : f[q] = task[q]
  BY <1>1 DEF Tasks
<1>3. AtState(p, step, state) = [f EXCEPT ![p].state = state]
  BY <1>1, Zenon DEF AtState
<1>. QED
  BY <1>2, <1>3 DEF Tasks

(* Why a call that settles knows that the helper is gone.                  *)
LEMMA SettlesGone ==
  ASSUME IInv, NEW s \in SessionRecords, Valid(s), s.state = session.state,
         session.state # "none", s.pid = 0, session.pid = 0, ~helper.named,
         s.state \in Terminal \/ (~IsAlive(s) /\ ~StartupPending(s))
  PROVE  Gone
<1>1. CASE s.state \in Terminal
  BY <1>1 DEF IInv, EndedInv
<1>2. CASE s.state \notin Terminal /\ ~StartupPending(s)
  <2>1. s.state = "starting"
    BY <1>2 DEF Valid, Terminal, SessionRecords
  <2>2. ~young
    BY <1>2, <2>1 DEF StartupPending
  <2>3. helper.is \notin {"started", "named", "ready", "hung"} /\ start.at # "launch"
    BY <2>2 DEF IInv, HelperInv, PlaceInv
  <2>. QED
    BY <2>3 DEF Gone, HelperRuns, Living
<1>. QED
  BY <1>1, <1>2

Proceeds(p) == task' \in [Servers -> Tasks] /\ \A q \in Servers \ {p} : task'[q] = task[q]

LEMMA TaskMoves ==
  ASSUME IInv, NEW p \in Servers, TaskStep(p)
  PROVE  Proceeds(p) /\ KnowsHelper(p)' /\ Holds(p)' /\ Passes(p)'
<1>0. /\ task \in [Servers -> Tasks] /\ session \in SessionRecords
      /\ session.state # "none" /\ Valid(session)
      /\ KnowsHelper(p) /\ Holds(p) /\ Passes(p)
  BY TaskBase DEF IInv, Typed, ServersTyped, DiskTyped, ValidInv, TaskInv, HoldersInv, SealInv
<1>1. Gone' <=> Gone
  BY TaskBase, TaskSession DEF Gone, HelperRuns
<1>2. /\ session'.pid = 1 \/ session'.pid = 0
      /\ session.pid = 1 => session'.pid = 1
  BY TaskSession DEF SessionRecords
<1>3. ASSUME task'[p].at = "idle"
      PROVE  KnowsHelper(p)' /\ Holds(p)' /\ Passes(p)'
  BY <1>3 DEF KnowsHelper, Holds, Passes
<1>4. Return(p) => Proceeds(p) /\ task'[p].at = "idle"
  BY <1>0, ReturnEffect DEF Proceeds
<1>5. ASSUME NEW step \in TaskPhases, Go(p, step)
      PROVE  /\ Proceeds(p) /\ task'[p].at = step /\ task'[p].state = task[p].state
             /\ task'[p].op = task[p].op
  BY <1>0, <1>5, GoEffect DEF Proceeds
<1>6. ASSUME NEW t \in Tasks, task' = [task EXCEPT ![p] = t]
      PROVE  Proceeds(p) /\ task'[p] = t
  BY <1>0, <1>6 DEF Proceeds
<1>7. CASE Call(p)
  <2>1. PICK op \in {"status", "stop"} : task' = [task EXCEPT ![p] = Doing("reconcile", op)]
    BY <1>7 DEF Call
  <2>2. /\ Doing("reconcile", op) \in Tasks /\ Doing("reconcile", op).at = "reconcile"
        /\ Doing("reconcile", op).op = op
    BY DoingTyped DEF TaskPhases
  <2>3. Proceeds(p) /\ task'[p].at = "reconcile" /\ task'[p].op = op
    BY <1>6, <2>1, <2>2
  <2>. QED
    BY <2>3 DEF KnowsHelper, Holds, Passes
<1>8. CASE Monitor(p)
  <2>1. CASE UNCHANGED task
    <3>1. Proceeds(p) /\ task'[p].at = "idle"
      BY <1>0, <1>8, <2>1 DEF Proceeds, Monitor, At
    <3>. QED
      BY <1>3, <3>1
  <2>2. CASE session.state \in Terminal /\ task' = [task EXCEPT ![p] = Settling("monitor")]
    <3>1. Proceeds(p) /\ task'[p].at = "settle"
      BY <1>6, <2>2, SettlingTyped
    <3>2. Gone'
      BY <1>1, <2>2 DEF IInv, EndedInv
    <3>. QED
      BY <3>1, <3>2 DEF KnowsHelper, Holds, Passes
  <2>3. CASE task' = [task EXCEPT ![p] = Doing("reconcile", "monitor")]
    <3>1. /\ Doing("reconcile", "monitor") \in Tasks
          /\ Doing("reconcile", "monitor").at = "reconcile"
          /\ Doing("reconcile", "monitor").op = "monitor"
      BY DoingTyped DEF TaskPhases
    <3>2. Proceeds(p) /\ task'[p].at = "reconcile" /\ task'[p].op = "monitor"
      BY <1>6, <2>3, <3>1
    <3>. QED
      BY <3>2 DEF KnowsHelper, Holds, Passes
  <2>. QED
    BY <1>8, <2>1, <2>2, <2>3 DEF Monitor
<1>9. CASE Reconcile(p)
  <2>1. /\ task[p].op \in {"status", "stop", "monitor"}
        /\ session' = Discovered
    BY <1>0, <1>9 DEF Reconcile, At, KnowsHelper
  <2>2. CASE CaptureAlive(session') /\ lease' = p /\ task' = AtThen(p, "ensure", "decide")
    <3>1. /\ Proceeds(p) /\ task'[p].at = "ensure" /\ task'[p].then = "decide"
          /\ task'[p].op = task[p].op
      BY <1>0, <2>2, WithThen DEF Proceeds, TaskPhases
    <3>2. session'.pid = 1
      BY <2>2 DEF CaptureAlive
    <3>. QED
      BY <2>1, <2>2, <3>1, <3>2 DEF KnowsHelper, Holds, Passes
  <2>3. CASE Return(p)
    BY <1>3, <1>4, <2>3
  <2>4. CASE task' = [task EXCEPT ![p] = Decision(task[p].op, session')]
    <3>1. session' \in SessionRecords /\ Valid(session') /\ session'.state = session.state
          /\ (session'.pid = 0 => session.pid = 0 /\ ~helper.named)
      <4>1. /\ session'.state = session.state
            /\ session.pid = 1 \/ helper.named => session'.pid = 1
        BY <1>0, <2>1, DiscoveredEffect
      <4>. QED
        BY <1>0, <4>1, TaskSession DEF SessionRecords
    <3>2. PICK t \in Tasks : t = Decision(task[p].op, session')
      BY <2>1, <3>1, DecisionEffect
    <3>3. /\ t.at \in {"idle", "settle", "request", "stop"}
          /\ t.at = "settle" =>
              session'.state \in Terminal \/ (~IsAlive(session') /\ ~StartupPending(session'))
          /\ t.at = "stop" => IsAlive(session')
      BY <2>1, <3>1, <3>2, DecisionEffect
    <3>4. Proceeds(p) /\ task'[p] = t
      BY <1>6, <2>4, <3>2
    <3>5. t.at = "settle" /\ session'.pid = 0 => Gone'
      BY <1>0, <1>1, <1>2, <3>1, <3>3, SettlesGone
    <3>6. t.at = "stop" => session'.pid = 1
      BY <3>3 DEF IsAlive
    <3>. QED
      BY <3>3, <3>4, <3>5, <3>6 DEF KnowsHelper, Holds, Passes
  <2>. QED
    BY <1>9, <2>2, <2>3, <2>4 DEF Reconcile, AtThen
<1>10. CASE EnsureOwner(p)
  <2>1. /\ Owned(p, session) /\ task[p].at = "ensure" /\ session.pid = 1
    BY <1>0, <1>10 DEF EnsureOwner, At, KnowsHelper
  <2>2. /\ session' \in SessionRecords /\ session'.pid = 1 /\ Valid(session')
    BY <1>2, <2>1, TaskSession
  <2>3. CASE task' = AtThen(p, "stopping", "none") /\ lease' = lease
    <3>1. /\ Proceeds(p) /\ task'[p].at = "stopping"
      BY <1>0, <2>3, WithThen DEF Proceeds, TaskPhases
    <3>2. lease' = p
      BY <1>0, <2>1, <2>3 DEF Holds
    <3>. QED
      BY <2>2, <3>1, <3>2 DEF KnowsHelper, Holds, Passes
  <2>4. CASE task[p].then # "stopping" /\ task' = [task EXCEPT ![p] = Decision(task[p].op, session')]
    <3>1. task[p].op \in {"status", "stop", "monitor"}
      BY <1>0, <2>1, <2>4 DEF KnowsHelper
    <3>2. PICK t \in Tasks : t = Decision(task[p].op, session')
      BY <2>2, <3>1, DecisionEffect
    <3>3. t.at \in {"idle", "settle", "request", "stop"}
      BY <2>2, <3>1, <3>2, DecisionEffect
    <3>4. Proceeds(p) /\ task'[p] = t
      BY <1>6, <2>4, <3>2
    <3>. QED
      BY <2>2, <3>3, <3>4 DEF KnowsHelper, Holds, Passes
  <2>. QED
    BY <1>10, <2>3, <2>4 DEF EnsureOwner, AtThen
<1>11. CASE EnsureRefused(p) \/ RequestStop(p) \/ Verify(p) \/ VerifyFails(p)
  <2>1. Return(p)
    BY <1>11 DEF EnsureRefused, RequestStop, Verify, VerifyFails
  <2>. QED
    BY <1>3, <1>4, <2>1
<1>12. CASE Stop(p)
  <2>1. session.pid = 1
    BY <1>0, <1>12 DEF Stop, At, KnowsHelper
  <2>2. CASE lease' = p /\ task' = AtThen(p, "ensure", "stopping")
    <3>1. Proceeds(p) /\ task'[p].at = "ensure" /\ task'[p].then = "stopping"
      BY <1>0, <2>2, WithThen DEF Proceeds, TaskPhases
    <3>. QED
      BY <1>2, <2>1, <2>2, <3>1 DEF KnowsHelper, Holds, Passes
  <2>3. CASE Go(p, "wait")
    <3>1. Proceeds(p) /\ task'[p].at = "wait"
      BY <1>5, <2>3 DEF TaskPhases
    <3>. QED
      BY <1>2, <2>1, <3>1 DEF KnowsHelper, Holds, Passes
  <2>. QED
    BY <1>12, <2>2, <2>3 DEF Stop, AtThen
<1>13. CASE Stopping(p)
  <2>1. session.pid = 1
    BY <1>0, <1>13 DEF Stopping, At, KnowsHelper
  <2>2. CASE Return(p)
    BY <1>3, <1>4, <2>2
  <2>3. CASE Go(p, "wait")
    <3>1. Proceeds(p) /\ task'[p].at = "wait"
      BY <1>5, <2>3 DEF TaskPhases
    <3>. QED
      BY <1>2, <2>1, <3>1 DEF KnowsHelper, Holds, Passes
  <2>. QED
    BY <1>13, <2>2, <2>3 DEF Stopping
<1>14. CASE Wait(p)
  <2>1. session.pid = 1
    BY <1>0, <1>14 DEF Wait, At, KnowsHelper
  <2>2. CASE Return(p)
    BY <1>3, <1>4, <2>2
  <2>3. CASE task' = [task EXCEPT ![p] = Settling("stop")]
    <3>1. Proceeds(p) /\ task'[p].at = "settle"
      BY <1>6, <2>3, SettlingTyped
    <3>. QED
      BY <1>2, <2>1, <3>1 DEF KnowsHelper, Holds, Passes
  <2>. QED
    BY <1>14, <2>2, <2>3 DEF Wait
<1>15. CASE Settle(p)
  <2>1. CASE Return(p)
    BY <1>3, <1>4, <2>1
  <2>2. CASE lease' = p /\ Go(p, "restore") /\ session.state \in Terminal
    <3>1. Proceeds(p) /\ task'[p].at = "restore"
      BY <1>5, <2>2 DEF TaskPhases
    <3>2. Gone'
      BY <1>1, <2>2 DEF IInv, EndedInv
    <3>. QED
      BY <2>2, <3>1, <3>2 DEF KnowsHelper, Holds, Passes
  <2>3. CASE /\ lease' = p /\ ~IsAlive(session)
             /\ task' = AtToken(p, "journal", session.token)
    <3>1. Proceeds(p) /\ task'[p].at = "journal"
      <4>1. session.token \in 0 .. MaxClaims
        BY <1>0 DEF SessionRecords
      <4>. QED
        BY <1>0, <2>3, <4>1, WithToken DEF Proceeds, TaskPhases
    <3>2. Gone
      <4>1. CASE session.pid = 0
        BY <1>0, <1>15, <4>1 DEF Settle, At, KnowsHelper
      <4>2. CASE session.pid = 1
        <5>1. start.at # "launch"
          BY <4>2 DEF IInv, PlaceInv
        <5>. QED
          BY <1>0, <2>3, <4>2, <5>1 DEF IsAlive, Gone
      <4>. QED
        BY <1>0, <4>1, <4>2 DEF SessionRecords
    <3>. QED
      BY <1>1, <2>3, <3>1, <3>2 DEF KnowsHelper, Holds, Passes
  <2>. QED
    BY <1>15, <2>1, <2>2, <2>3 DEF Settle, AtToken
<1>16. CASE EndJournal(p)
  <2>1. task[p].at = "journal" /\ lease' = lease /\ lease = p /\ Gone'
    BY <1>0, <1>1, <1>16 DEF EndJournal, At, KnowsHelper, Holds
  <2>2. helper \in Helpers /\ pkg \in Packages
    BY DEF IInv, Typed, WorldTyped, DiskTyped
  <2>3. Ends \subseteq Terminal
    BY <2>2 DEF Ends, Terminal, Helpers
  <2>4. CASE \E end \in Ends : /\ pkg' = [pkg EXCEPT !.journal = end]
                               /\ task' = AtState(p, "seal", end)
    <3>1. PICK end \in Ends : /\ pkg' = [pkg EXCEPT !.journal = end]
                              /\ task' = AtState(p, "seal", end)
      BY <2>4
    <3>2. Proceeds(p) /\ task'[p].at = "seal" /\ task'[p].state = end
      BY <1>0, <2>3, <3>1, WithState DEF Proceeds, TaskPhases
    <3>3. pkg'.journal = end
      BY <2>2, <3>1 DEF Packages
    <3>4. Passes(p)'
      <4>1. end \in Terminal
        BY <2>3, <3>1
      <4>. QED
        BY <3>2, <3>3, <4>1 DEF Passes
    <3>. QED
      BY <2>1, <3>2, <3>4 DEF KnowsHelper, Holds
  <2>5. CASE task' = AtState(p, "write", "failed")
    <3>1. Proceeds(p) /\ task'[p].at = "write" /\ task'[p].state = "failed"
      BY <1>0, <2>5, WithState DEF Proceeds, TaskPhases, Terminal
    <3>. QED
      BY <2>1, <3>1 DEF KnowsHelper, Holds, Passes, Terminal
  <2>. QED
    BY <1>16, <2>4, <2>5 DEF EndJournal, AtState
<1>17. CASE Seal(p)
  <2>1. task[p].at = "seal" /\ lease' = lease /\ lease = p /\ Gone'
    BY <1>0, <1>1, <1>17 DEF Seal, At, KnowsHelper, Holds
  <2>2. CASE pkg' = [pkg EXCEPT !.sealed = TRUE] /\ Go(p, "write")
    <3>1. Proceeds(p) /\ task'[p].at = "write" /\ task'[p].state = task[p].state
      BY <1>5, <2>2 DEF TaskPhases
    <3>2. task[p].state = pkg.journal /\ pkg.journal \in Terminal
      BY <1>0, <2>1 DEF Passes
    <3>3. pkg' = [journal |-> pkg.journal, sealed |-> TRUE]
      BY <2>2 DEF IInv, Typed, DiskTyped, Packages
    <3>4. Passes(p)'
      <4>1. pkg' = [journal |-> task'[p].state, sealed |-> TRUE]
        BY <3>1, <3>2, <3>3, Zenon
      <4>. QED
        BY <3>1, <3>2, <4>1, Zenon DEF Passes
    <3>. QED
      BY <2>1, <3>1, <3>4 DEF KnowsHelper, Holds
  <2>3. CASE task' = AtState(p, "write", "failed")
    <3>1. Proceeds(p) /\ task'[p].at = "write" /\ task'[p].state = "failed"
      BY <1>0, <2>3, WithState DEF Proceeds, TaskPhases, Terminal
    <3>. QED
      BY <2>1, <3>1 DEF KnowsHelper, Holds, Passes, Terminal
  <2>. QED
    BY <1>17, <2>2, <2>3 DEF Seal, AtState
<1>18. CASE WriteTerminal(p)
  <2>1. task[p].at = "write" /\ lease = p /\ Gone'
    BY <1>0, <1>1, <1>18 DEF WriteTerminal, At, KnowsHelper, Holds
  <2>2. CASE Return(p)
    BY <1>3, <1>4, <2>2
  <2>3. CASE /\ lease' = lease
             /\ task' = [task EXCEPT ![p] = [Doing("restore", task[p].op) EXCEPT !.then = "written"]]
    <3>1. Doing("restore", task[p].op) \in Tasks /\ Doing("restore", task[p].op).at = "restore"
      <4>1. task[p].op \in {"none", "status", "stop", "monitor", "call"}
        BY <1>0 DEF Tasks
      <4>. QED
        BY <4>1, DoingTyped DEF TaskPhases
    <3>2. PICK t : t = [Doing("restore", task[p].op) EXCEPT !.then = "written"]
      OBVIOUS
    <3>3. t \in Tasks /\ t.at = "restore"
      BY <3>1, <3>2 DEF Tasks
    <3>4. Proceeds(p) /\ task'[p].at = "restore"
      BY <1>6, <2>3, <3>2, <3>3
    <3>. QED
      BY <2>1, <2>3, <3>4 DEF KnowsHelper, Holds, Passes
  <2>. QED
    BY <1>18, <2>2, <2>3 DEF WriteTerminal
<1>19. CASE EnterQueue(p)
  <2>1. Proceeds(p) /\ task'[p].at = "verify"
    BY <1>5, <1>19 DEF EnterQueue, TaskPhases
  <2>2. lease' = p /\ queue' = p /\ Gone'
    BY <1>0, <1>1, <1>19 DEF EnterQueue, At, KnowsHelper, Holds
  <2>. QED
    BY <2>1, <2>2 DEF KnowsHelper, Holds, Passes
<1>. QED
  BY <1>7, <1>8, <1>9, <1>10, <1>11, <1>12, <1>13, <1>14, <1>15, <1>16, <1>17, <1>18, <1>19
  DEF TaskStep, Steps

-----------------------------------------------------------------------------
(* What a step of a task, or of hss_start, does to what all share.         *)
LEMMA TaskShared ==
  ASSUME IInv, NEW p \in Servers, TaskStep(p)
  PROVE  /\ lease' = lease \/ (lease \in {Nobody, p} /\ lease' \in {Nobody, p})
         /\ queue' = queue \/ (queue \in {Nobody, p} /\ queue' \in {Nobody, p})
         /\ pkg' \in Packages
         /\ pkg' = pkg \/ (/\ lease = p /\ task[p].at \in {"journal", "seal"}
                           /\ pkg.journal = "active"
                                \/ pkg' = [journal |-> pkg.journal, sealed |-> TRUE])
         /\ owner' \in Owners /\ owner'.token <= claims' /\ (owner'.token # 0 => owner'.by \in Servers)
         /\ claims' \in 0 .. MaxClaims
         /\ claims' = claims \/ (claims' = claims + 1 /\ (OwnerLive \/ queue = Nobody))
         /\ HelperRuns => (owner' = owner /\ claims' = claims) \/ owner'.token # 0
<1>0. /\ WorldTyped /\ session \in SessionRecords /\ pkg \in Packages
      /\ Holds(p) /\ KnowsHelper(p) /\ EndedInv /\ session.state # "none"
  BY TaskBase DEF IInv, Typed, DiskTyped, HoldersInv, TaskInv
<1>1. lease' = lease \/ (lease \in {Nobody, p} /\ lease' \in {Nobody, p})
  <2>1. CASE EnsureOwner(p) \/ EnsureRefused(p) \/ Stopping(p) \/ Reconcile(p) \/ Stop(p) \/ Settle(p)
    BY <2>1 DEF EnsureOwner, EnsureRefused, Stopping, Reconcile, Stop, Settle
  <2>2. CASE WriteTerminal(p) \/ Verify(p) \/ VerifyFails(p)
    BY <1>0, <2>2 DEF WriteTerminal, Verify, VerifyFails, At, Holds
  <2>3. CASE \/ Call(p) \/ Monitor(p) \/ RequestStop(p) \/ Wait(p) \/ EndJournal(p) \/ Seal(p)
             \/ EnterQueue(p)
    BY <2>3 DEF Call, Monitor, RequestStop, Wait, EndJournal, Seal, EnterQueue
  <2>. QED
    BY <2>1, <2>2, <2>3 DEF TaskStep, Steps
<1>2. queue' = queue \/ (queue \in {Nobody, p} /\ queue' \in {Nobody, p})
  <2>1. CASE Verify(p) \/ VerifyFails(p) \/ EnterQueue(p)
    BY <1>0, <2>1 DEF Verify, VerifyFails, EnterQueue, At, Holds
  <2>2. CASE ~(Verify(p) \/ VerifyFails(p) \/ EnterQueue(p))
    BY <2>2 DEF TaskStep, Steps, Call, Monitor, Reconcile, EnsureOwner, EnsureRefused, RequestStop,
                Stop, Stopping, Wait, Settle, EndJournal, Seal, WriteTerminal, probe
  <2>. QED
    BY <2>1, <2>2
<1>3. /\ pkg' \in Packages
      /\ pkg' = pkg \/ (/\ lease = p /\ task[p].at \in {"journal", "seal"}
                        /\ pkg.journal = "active"
                             \/ pkg' = [journal |-> pkg.journal, sealed |-> TRUE])
  <2>1. CASE EndJournal(p)
    <3>1. lease = p /\ task[p].at = "journal"
      BY <1>0, <2>1 DEF EndJournal, At, Holds
    <3>2. Ends \subseteq Terminal
      BY <1>0 DEF Ends, Terminal, Helpers, WorldTyped
    <3>3. \/ pkg' = pkg
          \/ pkg.journal = "active" /\ \E end \in Ends : pkg' = [pkg EXCEPT !.journal = end]
      BY <2>1 DEF EndJournal
    <3>4. CASE pkg.journal = "active" /\ \E end \in Ends : pkg' = [pkg EXCEPT !.journal = end]
      <4>1. pkg' \in Packages
        BY <1>0, <3>2, <3>4 DEF Packages
      <4>. QED
        BY <3>1, <3>4, <4>1
    <3>. QED
      BY <1>0, <3>3, <3>4
  <2>2. CASE Seal(p)
    <3>1. lease = p /\ task[p].at = "seal"
      BY <1>0, <2>2 DEF Seal, At, Holds
    <3>2. CASE pkg' = [pkg EXCEPT !.sealed = TRUE]
      <4>1. pkg' = [journal |-> pkg.journal, sealed |-> TRUE]
        BY <1>0, <3>2 DEF Packages
      <4>2. [journal |-> pkg.journal, sealed |-> TRUE] \in Packages
        BY <1>0 DEF Packages
      <4>. QED
        BY <3>1, <4>1, <4>2
    <3>. QED
      BY <1>0, <2>2, <3>2 DEF Seal
  <2>3. CASE ~(EndJournal(p) \/ Seal(p))
    <3>1. pkg' = pkg
      BY <2>3 DEF TaskStep, Steps, Call, Monitor, Reconcile, EnsureOwner, EnsureRefused, RequestStop,
                  Stop, Stopping, Wait, Settle, WriteTerminal, EnterQueue, Verify, VerifyFails, disk
    <3>. QED
      BY <1>0, <3>1
  <2>. QED
    BY <2>1, <2>2, <2>3
<1>4. /\ owner' \in Owners /\ owner'.token <= claims' /\ (owner'.token # 0 => owner'.by \in Servers)
      /\ claims' \in 0 .. MaxClaims
      /\ claims' = claims \/ (claims' = claims + 1 /\ (OwnerLive \/ queue = Nobody))
      /\ HelperRuns => (owner' = owner /\ claims' = claims) \/ owner'.token # 0
  <2>1. CASE owner' = owner /\ claims' = claims
    BY <1>0, <2>1 DEF WorldTyped
  <2>2. CASE EnsureOwner(p)
    <3>1. Owned(p, session)
      BY <2>2 DEF EnsureOwner
    <3>2. CASE Claim(p) /\ (OwnerLive \/ queue = Nobody)
      <4>1. /\ claims' \in 1 .. MaxClaims /\ owner' \in Owners /\ owner'.token = claims'
            /\ owner'.token # 0 /\ owner'.by = p /\ claims' = claims + 1
        BY <1>0, <3>2, ClaimEffect
      <4>. QED
        BY <3>2, <4>1, CaptureConstantsOK
    <3>. QED
      BY <1>0, <2>1, <3>1, <3>2, EnsureEffect
  <2>3. CASE Monitor(p) \/ Settle(p) \/ Verify(p)
    <3>1. claims' = claims
      BY <2>3 DEF Monitor, Settle, Verify
    <3>2. owner' = owner \/ (owner' = Released(p, session.token) /\ ~HelperRuns)
      <4>1. CASE Monitor(p)
        BY <1>0, <4>1 DEF Monitor, EndedInv, Gone
      <4>2. CASE Settle(p)
        BY <1>0, <4>2 DEF Settle, EndedInv, Gone
      <4>3. CASE Verify(p)
        BY <1>0, <4>3 DEF Verify, At, KnowsHelper, Gone
      <4>. QED
        BY <2>3, <4>1, <4>2, <4>3
    <3>3. session.token \in 0 .. MaxClaims
      BY <1>0 DEF SessionRecords
    <3>4. CASE owner' = Released(p, session.token) /\ ~HelperRuns
      <4>1. owner' \in Owners /\ owner'.token <= claims /\ (owner'.token # 0 => owner'.by \in Servers)
        BY <1>0, <3>3, <3>4, ReleasedEffect
      <4>. QED
        BY <1>0, <3>1, <3>4, <4>1 DEF WorldTyped
    <3>. QED
      BY <2>1, <3>1, <3>2, <3>4
  <2>4. CASE ~(EnsureOwner(p) \/ Monitor(p) \/ Settle(p) \/ Verify(p))
    <3>1. owner' = owner /\ claims' = claims
      BY <2>4 DEF TaskStep, Steps, Call, Reconcile, EnsureRefused, RequestStop, Stop, Stopping, Wait,
                  EndJournal, Seal, WriteTerminal, EnterQueue, VerifyFails, probe
    <3>. QED
      BY <2>1, <3>1
  <2>. QED
    BY <2>2, <2>3, <2>4
<1>. QED
  BY <1>1, <1>2, <1>3, <1>4

LEMMA LaunchShared ==
  ASSUME IInv, LaunchSteps
  PROVE  /\ pkg' \in Packages /\ (pkg' = pkg \/ pkg.journal \notin Terminal)
         /\ owner' \in Owners /\ owner'.token <= claims' /\ (owner'.token # 0 => owner'.by \in Servers)
         /\ claims' \in 0 .. MaxClaims /\ claims' >= claims
         /\ HelperRuns => (owner' = owner /\ claims' = claims) \/ owner'.token # 0
         /\ claims' # claims => start.at \in {"claim", "abort"}
         /\ start'.at = "token" => start'.claimed > 0
         /\ start'.at \in {"launch", "pid", "claim"} =>
              start.at \in {"create", "launch", "pid"} /\ claims' = claims
         /\ start'.at \in {"token", "ready", "abort"} => claims' > 0
<1>0. /\ WorldTyped /\ pkg \in Packages /\ EndedInv /\ start \in Starts /\ PlaceInv /\ ProbeInv
  BY DEF IInv, Typed, DiskTyped, ServersTyped
<1>1. pkg' \in Packages /\ (pkg' = pkg \/ pkg.journal \notin Terminal)
  <2>1. CASE Create \/ CreateFails
    <3>1. pkg = NoPkg
      BY <2>1 DEF Create, CreateFails, IInv, EmptyInv
    <3>2. \/ pkg' = [NoPkg EXCEPT !.journal = "active"]
          \/ pkg' = [journal |-> "failed", sealed |-> TRUE]
      BY <2>1 DEF Create, CreateFails
    <3>3. /\ NoPkg \in Packages /\ NoPkg.journal \notin Terminal
          /\ [journal |-> "failed", sealed |-> TRUE] \in Packages
      BY DEF NoPkg, Packages, Terminal
    <3>4. [NoPkg EXCEPT !.journal = "active"] \in Packages
      BY <3>3 DEF Packages
    <3>. QED
      BY <3>1, <3>2, <3>3, <3>4
  <2>2. CASE Fail \/ FailPending
    <3>1. pkg' = pkg \/ (pkg.journal = "active" /\ pkg' = [journal |-> "failed", sealed |-> TRUE])
      BY <2>2 DEF Fail, FailPending, FailPackage
    <3>2. [journal |-> "failed", sealed |-> TRUE] \in Packages /\ "active" \notin Terminal
      BY DEF Packages, Terminal
    <3>. QED
      BY <1>0, <3>1, <3>2
  <2>3. CASE ~(Create \/ CreateFails \/ Fail \/ FailPending)
    <3>1. pkg' = pkg
      BY <2>3 DEF LaunchSteps, Launch, RecordPid, ClaimProbe, RecordToken, Ready, NotReady, Check,
                  Abort, Leave, EndVerified, disk
    <3>. QED
      BY <1>0, <3>1
  <2>. QED
    BY <2>1, <2>2, <2>3
<1>2. /\ owner' \in Owners /\ owner'.token <= claims' /\ (owner'.token # 0 => owner'.by \in Servers)
      /\ claims' \in 0 .. MaxClaims /\ claims' >= claims
      /\ HelperRuns => (owner' = owner /\ claims' = claims) \/ owner'.token # 0
      /\ claims' # claims => start.at \in {"claim", "abort"}
  <2>1. CASE owner' = owner /\ claims' = claims
    BY <1>0, <2>1 DEF WorldTyped
  <2>2. CASE Claim(Starter) /\ start.at \in {"claim", "abort"}
    <3>1. /\ claims' \in 1 .. MaxClaims /\ owner' \in Owners /\ owner'.token = claims'
          /\ owner'.token # 0 /\ owner'.by \in Servers /\ claims' = claims + 1
      BY <1>0, <2>2, ClaimEffect, CaptureConstantsOK
    <3>. QED
      BY <1>0, <2>2, <3>1, CaptureConstantsOK DEF WorldTyped
  <2>3. CASE Fail
    <3>1. claims' = claims /\ ~HelperRuns
      BY <1>0, <2>3 DEF Fail, SAt, EndedInv, Gone
    <3>2. owner' = owner \/ owner' = Released(Starter, start.claimed)
      BY <2>3 DEF Fail
    <3>3. Starter \in Servers /\ start.claimed \in 0 .. MaxClaims
      BY <1>0, CaptureConstantsOK DEF Starts
    <3>4. CASE owner' = Released(Starter, start.claimed)
      <4>1. owner' \in Owners /\ owner'.token <= claims /\ (owner'.token # 0 => owner'.by \in Servers)
        BY <1>0, <3>3, <3>4, ReleasedEffect
      <4>. QED
        BY <1>0, <3>1, <4>1 DEF WorldTyped
    <3>. QED
      BY <2>1, <3>1, <3>2, <3>4
  <2>4. CASE ClaimProbe \/ Leave
    BY <2>1, <2>2, <2>4 DEF ClaimProbe, Leave, SAt
  <2>5. CASE ~(Fail \/ ClaimProbe \/ Leave)
    <3>1. owner' = owner /\ claims' = claims
      BY <2>5 DEF LaunchSteps, Create, CreateFails, Launch, RecordPid, RecordToken, Ready, NotReady,
                  Check, Abort, EndVerified, FailPending, probe
    <3>. QED
      BY <2>1, <3>1
  <2>. QED
    BY <2>3, <2>4, <2>5
<1>3. /\ start'.at = "token" => start'.claimed > 0
      /\ start'.at \in {"launch", "pid", "claim"} =>
           start.at \in {"create", "launch", "pid"} /\ claims' = claims
      /\ start'.at \in {"token", "ready", "abort"} => claims' > 0
  <2>1. \A step \in Launching \cup {"check", "done"} : SGo(step) => start'.at = step
    BY <1>0, SGoEffect DEF StartPhases, Held
  <2>2. CASE Create \/ Launch \/ RecordPid
    <3>1. /\ SGo("launch") \/ SGo("pid") \/ SGo("claim") \/ SGo("end")
          /\ start.at \in {"create", "launch", "pid"} /\ claims' = claims
      BY <2>2 DEF Create, Launch, RecordPid, SAt, probe
    <3>2. start'.at \in {"launch", "pid", "claim", "end"}
      BY <2>1, <3>1 DEF Launching
    <3>. QED
      BY <3>1, <3>2
  <2>3. CASE \/ CreateFails \/ Check \/ Abort \/ Leave \/ EndVerified \/ Fail \/ FailPending
    <3>1. SGo("done") \/ SGo("end") \/ SGo("fail")
      BY <2>3 DEF CreateFails, Check, Abort, Leave, EndVerified, Fail, FailPending
    <3>2. start'.at \in {"done", "end", "fail"}
      BY <2>1, <3>1 DEF Launching
    <3>. QED
      BY <3>2
  <2>4. CASE Ready \/ NotReady
    <3>1. /\ SGo("abort") \/ SGo("check")
          /\ start.at = "ready" /\ claims' = claims
      BY <2>4 DEF Ready, NotReady, SAt, probe
    <3>2. start'.at \in {"abort", "check"}
      BY <2>1, <3>1 DEF Launching
    <3>3. claims > 0
      BY <1>0, <3>1 DEF PlaceInv
    <3>. QED
      BY <3>1, <3>2, <3>3
  <2>5. CASE RecordToken
    <3>1. start.at = "token" /\ claims' = claims
      BY <2>5 DEF RecordToken, SAt, probe
    <3>2. start'.at \in {"abort", "ready"}
      <4>1. SGo("abort") \/ start' = [start EXCEPT !.at = "ready", !.over = session.state \in Terminal]
        BY <2>5 DEF RecordToken
      <4>2. start' = [start EXCEPT !.at = "ready", !.over = session.state \in Terminal] => start'.at = "ready"
        BY <1>0 DEF Starts
      <4>. QED
        BY <2>1, <4>1, <4>2 DEF Launching
    <3>3. claims > 0
      BY <1>0, <3>1 DEF PlaceInv
    <3>. QED
      BY <3>1, <3>2, <3>3
  <2>6. CASE ClaimProbe
    <3>1. claims = 0 /\ owner.token = 0
      <4>1. claims = 0
        BY <1>0, <2>6 DEF ClaimProbe, SAt, PlaceInv
      <4>. QED
        BY <1>0, <4>1, CaptureConstantsOK DEF WorldTyped, Owners
    <3>2. /\ Claim(Starter)
          /\ start' = [start EXCEPT !.at = "token", !.claimed = claims + 1]
      BY <2>6, <3>1 DEF ClaimProbe, OwnerLive
    <3>3. claims' = 1
      BY <3>1, <3>2 DEF Claim
    <3>4. PICK s : s = [start EXCEPT !.at = "token"]
      OBVIOUS
    <3>5. s \in Starts /\ s.at = "token"
      BY <1>0, <3>4 DEF Starts, StartPhases, Held, Launching
    <3>6. start' = [s EXCEPT !.claimed = claims + 1]
      BY <3>2, <3>4, Zenon
    <3>7. start'.at = "token" /\ start'.claimed = 1
      BY <3>1, <3>5, <3>6 DEF Starts
    <3>. QED
      BY <3>3, <3>7
  <2>. QED
    BY <2>2, <2>3, <2>4, <2>5, <2>6 DEF LaunchSteps
<1>. QED
  BY <1>1, <1>2, <1>3

-----------------------------------------------------------------------------
(* The tasks, the probe, the package and hss_start's places.               *)
LEMMA TasksKept ==
  ASSUME IInv, [Next]_vars
  PROVE  TaskInv' /\ HoldersInv' /\ SealInv'
<1>0. /\ TaskInv /\ HoldersInv /\ SealInv /\ session \in SessionRecords
  BY DEF IInv, Typed, DiskTyped
<1>1. /\ session' \in SessionRecords /\ (Gone => Gone')
      /\ session.pid = 1 => session'.pid = 1
  BY Onward
<1>2. ASSUME NEW q \in Servers, task'[q] = task[q],
             lease = q => lease' = q,
             task[q].at = "verify" => queue' = queue,
             pkg' = pkg \/ pkg.journal \notin Terminal \/ task[q].at \notin {"seal", "write"}
      PROVE  KnowsHelper(q)' /\ Holds(q)' /\ Passes(q)'
  <2>1. KnowsHelper(q) /\ Holds(q) /\ Passes(q)
    BY <1>0 DEF TaskInv, HoldersInv, SealInv
  <2>2. KnowsHelper(q)'
    <3>1. session'.pid = 0 => session.pid = 0
      BY <1>0, <1>1 DEF SessionRecords
    <3>. QED
      BY <1>1, <1>2, <2>1, <3>1 DEF KnowsHelper
  <2>3. Holds(q)'
    BY <1>2, <2>1 DEF Holds
  <2>4. Passes(q)'
    <3>1. CASE pkg' = pkg \/ task[q].at \notin {"seal", "write"}
      BY <1>2, <2>1, <3>1 DEF Passes
    <3>2. CASE pkg.journal \notin Terminal
      <4>1. task[q].at # "seal" /\ (task[q].at = "write" => task[q].state = "failed")
        BY <2>1, <3>2 DEF Passes
      <4>. QED
        BY <1>2, <4>1 DEF Passes, Terminal
    <3>. QED
      BY <1>2, <3>1, <3>2
  <2>. QED
    BY <2>2, <2>3, <2>4
<1>3. ASSUME NEW q \in Servers, task'[q].at = "idle"
      PROVE  KnowsHelper(q)' /\ Holds(q)' /\ Passes(q)'
  BY <1>3 DEF KnowsHelper, Holds, Passes
<1>4. CASE HelperSteps \/ Ages \/ UNCHANGED vars \/ \E p \in Servers : Restart(p)
  <2>1. UNCHANGED <<task, lease, queue, pkg>>
    BY <1>4, HelperEffect, AgesEffect, StutterEffect, RestartEffect
  <2>. QED
    BY <1>2, <2>1 DEF TaskInv, HoldersInv, SealInv
<1>5. CASE Prepare
  <2>1. task' = task /\ \A q \in Servers : task[q].at = "idle"
    BY <1>5, PrepareEffect DEF IInv, EmptyInv
  <2>. QED
    BY <1>3, <2>1 DEF TaskInv, HoldersInv, SealInv
<1>6. CASE LaunchSteps
  <2>1. /\ lease' = lease /\ (queue = Launcher \/ queue' = queue)
        /\ pkg' = pkg \/ pkg.journal \notin Terminal
    BY <1>6, LaunchMoves, LaunchShared
  <2>2. ASSUME NEW q \in Servers, task'[q] = task[q]
        PROVE  KnowsHelper(q)' /\ Holds(q)' /\ Passes(q)'
    <3>1. task[q].at = "verify" => queue # Launcher
      BY <1>0, CaptureConstantsOK DEF HoldersInv, Holds, Launcher
    <3>. QED
      BY <1>2, <2>1, <2>2, <3>1
  <2>3. CASE task' = task
    BY <2>2, <2>3 DEF TaskInv, HoldersInv, SealInv
  <2>4. CASE /\ task' = [task EXCEPT ![Starter] = Doing("settle", "call")]
             /\ ~HelperRuns /\ Check
    <3>1. /\ Starter \in Servers /\ Doing("settle", "call") \in Tasks
          /\ Doing("settle", "call").at = "settle"
      BY CaptureConstantsOK, DoingTyped DEF TaskPhases
    <3>2. task'[Starter].at = "settle" /\ \A q \in Servers \ {Starter} : task'[q] = task[q]
      BY <2>4, <3>1 DEF IInv, Typed, ServersTyped
    <3>3. Gone
      BY <2>4 DEF Check, SAt, Gone, IInv, PlaceInv
    <3>4. KnowsHelper(Starter)' /\ Holds(Starter)' /\ Passes(Starter)'
      BY <1>1, <3>2, <3>3 DEF KnowsHelper, Holds, Passes
    <3>. QED
      BY <2>2, <3>2, <3>4 DEF TaskInv, HoldersInv, SealInv
  <2>5. task' = task \/ (/\ task' = [task EXCEPT ![Starter] = Doing("settle", "call")]
                         /\ ~HelperRuns /\ Check)
    BY <1>6 DEF LaunchSteps, Create, CreateFails, Launch, RecordPid, ClaimProbe, RecordToken, Ready,
         NotReady, Check, Abort, Leave, EndVerified, Fail, FailPending, StartRest
  <2>. QED
    BY <2>3, <2>4, <2>5
<1>7. CASE \E p \in Servers : TaskStep(p)
  <2>1. PICK p \in Servers : TaskStep(p)
    BY <1>7
  <2>2. /\ \A q \in Servers \ {p} : task'[q] = task[q]
        /\ KnowsHelper(p)' /\ Holds(p)' /\ Passes(p)'
    BY <2>1, TaskMoves DEF Proceeds
  <2>3. ASSUME NEW q \in Servers \ {p}
        PROVE  KnowsHelper(q)' /\ Holds(q)' /\ Passes(q)'
    <3>1. /\ lease = q => lease' = q
          /\ queue = q => queue' = queue
          /\ pkg' = pkg \/ lease = p
      BY <2>1, <2>3, TaskShared, CaptureConstantsOK DEF Nobody
    <3>2. /\ task[q].at = "verify" => queue = q
          /\ task[q].at \in {"seal", "write"} => lease = q
      BY <1>0, <2>3 DEF HoldersInv, Holds
    <3>. QED
      BY <1>2, <2>2, <2>3, <3>1, <3>2
  <2>. QED
    BY <2>2, <2>3 DEF TaskInv, HoldersInv, SealInv
<1>8. CASE \E p \in Servers : Dies(p)
  <2>1. PICK p \in Servers : Dies(p)
    BY <1>8
  <2>2. ASSUME NEW q \in Servers \ {p}
        PROVE  KnowsHelper(q)' /\ Holds(q)' /\ Passes(q)'
    <3>1. /\ lease = q => lease' = q
          /\ queue = q => queue' = queue
          /\ pkg' = pkg /\ task'[q] = task[q]
      BY <2>1, <2>2, DiesEffect, CaptureConstantsOK DEF Launcher
    <3>2. task[q].at = "verify" => queue = q
      BY <1>0, <2>2 DEF HoldersInv, Holds
    <3>. QED
      BY <1>2, <2>2, <3>1, <3>2
  <2>3. task'[p].at = "idle"
    BY <2>1, DiesEffect
  <2>. QED
    BY <1>3, <2>2, <2>3 DEF TaskInv, HoldersInv, SealInv
<1>. QED
  BY <1>4, <1>5, <1>6, <1>7, <1>8, NextKinds

LEMMA PackageKept ==
  ASSUME IInv, [Next]_vars
  PROVE  SessionAgreesWithPackage'
<1>. DEFINE Good == {"completed", "stopped", "interrupted"}
            Whole(state) == [journal |-> state, sealed |-> TRUE]
<1>0. /\ session.state \in Good => pkg = Whole(session.state)
      /\ Good \subseteq Terminal /\ "failed" \notin Good
      /\ \A state : Whole(state).journal = state
  BY DEF IInv, SessionAgreesWithPackage, Terminal
<1>1. SUFFICES ASSUME session'.state \in Good
               PROVE  pkg' = Whole(session'.state)
  BY DEF SessionAgreesWithPackage
<1>2. CASE session' = session /\ pkg' = pkg
  BY <1>0, <1>1, <1>2
<1>3. CASE LaunchSteps
  <2>1. session'.state = session.state
    BY <1>0, <1>1, <1>3, LaunchSession
  <2>2. pkg = Whole(session.state) /\ pkg.journal \in Terminal
    BY <1>0, <1>1, <2>1
  <2>3. pkg' = pkg
    BY <1>3, <2>2, LaunchShared
  <2>. QED
    BY <2>1, <2>2, <2>3
<1>4. CASE \E p \in Servers : TaskStep(p)
  <2>1. PICK p \in Servers : TaskStep(p)
    BY <1>4
  <2>2. CASE session'.state = session.state
    <3>1. pkg = Whole(session.state)
      BY <1>0, <1>1, <2>2
    <3>2. pkg.journal = session.state /\ pkg.journal # "active"
      BY <1>0, <1>1, <2>2, <3>1 DEF Terminal
    <3>3. pkg' = pkg \/ pkg' = Whole(pkg.journal)
      BY <2>1, <3>2, TaskShared
    <3>. QED
      BY <2>2, <3>1, <3>2, <3>3, Zenon
  <2>3. CASE task[p].at = "write" /\ session'.state = task[p].state
    <3>1. pkg = Whole(task[p].state)
      BY <1>0, <1>1, <2>3 DEF IInv, SealInv, Passes
    <3>2. pkg' = pkg
      BY <2>1, <2>3, TaskShared
    <3>. QED
      BY <2>3, <3>1, <3>2
  <2>. QED
    BY <1>0, <1>1, <2>1, <2>2, <2>3, TaskSession
<1>. QED
  BY <1>2, <1>3, <1>4, NextKinds, HelperEffect, AgesEffect, PrepareEffect, DiesEffect,
     RestartEffect, StutterEffect

LEMMA ProbeKept ==
  ASSUME IInv, [Next]_vars
  PROVE  ProbeInv'
<1>0. /\ ProbeInv /\ PlaceInv /\ EndedInv /\ EmptyInv /\ helper \in Helpers
  BY DEF IInv, Typed, WorldTyped
<1>1. CASE /\ UNCHANGED <<owner, claims, queue, start>>
           /\ HelperRuns' => HelperRuns
  BY <1>0, <1>1 DEF ProbeInv
<1>2. CASE Prepare
  BY <1>0, <1>2, PrepareEffect DEF ProbeInv, EmptyInv, HelperRuns, Living
<1>3. CASE LaunchSteps
  <2>1. CASE ~HelperRuns'
    BY <2>1 DEF ProbeInv
  <2>2. CASE start.at = "launch" /\ start'.at = "pid"
    <3>1. queue' = Launcher /\ claims = 0 /\ claims' = claims
      BY <1>0, <1>3, <2>2, LaunchMoves, LaunchShared DEF Launching, PlaceInv
    <3>. QED
      BY <3>1 DEF ProbeInv
  <2>3. CASE HelperRuns
    <3>1. CASE owner'.token # 0
      BY <3>1 DEF ProbeInv
    <3>2. CASE owner' = owner /\ claims' = claims /\ owner.token = 0
      <4>1. claims = 0 /\ (queue = Launcher \/ start.at = "dead")
        BY <1>0, <2>3, <3>2 DEF ProbeInv
      <4>2. start.at \in Launching \cup {"create", "check"}
        BY <1>3, LaunchMoves
      <4>3. start.at \in {"launch", "pid", "claim"}
        <5>1. start.at \notin {"create", "end", "fail"}
          BY <1>0, <2>3 DEF EndedInv, Gone, PlaceInv, EmptyInv, Preparing, HelperRuns, Living
        <5>2. start.at # "check"
          BY <1>0, <4>1 DEF PlaceInv, Held, Preparing, Launching, Answers
        <5>. QED
          BY <1>0, <4>1, <4>2, <5>1, <5>2 DEF PlaceInv, Launching
      <4>4. queue = Launcher
        BY <4>1, <4>3
      <4>5. start'.at \in Launching
        <5>1. Launch \/ RecordPid \/ ClaimProbe
          BY <1>3, <4>3 DEF LaunchSteps, Create, CreateFails, RecordToken, Ready, NotReady, Check,
                            Abort, Leave, EndVerified, Fail, FailPending, SAt
        <5>2. UNCHANGED queue
          BY <5>1 DEF Launch, RecordPid, ClaimProbe, probe
        <5>. QED
          BY <1>3, <4>4, <5>2, LaunchMoves
      <4>6. queue' = Launcher
        BY <1>3, <4>5, LaunchMoves
      <4>. QED
        BY <3>2, <4>1, <4>6 DEF ProbeInv
    <3>. QED
      BY <1>3, <2>3, <3>1, <3>2, LaunchShared
  <2>4. CASE HelperRuns' /\ ~HelperRuns
    <3>1. helper' # helper /\ helper'.is # "dead"
      BY <2>4 DEF HelperRuns, Living
    <3>. QED
      BY <1>3, <2>2, <3>1, LaunchHelper
  <2>. QED
    BY <2>1, <2>3, <2>4
<1>4. CASE \E p \in Servers : TaskStep(p)
  <2>1. PICK p \in Servers : TaskStep(p)
    BY <1>4
  <2>2. start' = start /\ (HelperRuns' <=> HelperRuns)
    BY <2>1, TaskBase DEF HelperRuns
  <2>3. queue = Launcher => queue' = Launcher
    BY <2>1, TaskShared, CaptureConstantsOK DEF Launcher, Nobody
  <2>. QED
    BY <1>0, <2>1, <2>2, <2>3, TaskShared DEF ProbeInv
<1>5. CASE \E p \in Servers : Dies(p)
  <2>1. PICK p \in Servers : Dies(p)
    BY <1>5
  <2>2. UNCHANGED <<owner, claims>> /\ (HelperRuns' <=> HelperRuns)
    BY <2>1, DiesEffect DEF HelperRuns
  <2>3. start.at = "dead" => start'.at = "dead"
    BY <2>1, DiesEffect
  <2>4. queue = Launcher => queue' = Launcher \/ start'.at = "dead"
    <3>1. queue = Launcher => start.at \notin {"done"} \cup NotStarted
      BY <1>0 DEF PlaceInv, Held, Preparing, Launching, Answers, NotStarted
    <3>. QED
      BY <2>1, <3>1, DiesEffect
  <2>. QED
    BY <1>0, <2>2, <2>3, <2>4 DEF ProbeInv
<1>6. HelperSteps => UNCHANGED <<owner, claims, queue, start>> /\ HelperRuns
  BY HelperEffect
<1>7. Ages \/ UNCHANGED vars \/ (\E p \in Servers : Restart(p)) =>
        UNCHANGED <<owner, claims, queue, start, helper>>
  BY AgesEffect, StutterEffect, RestartEffect
<1>. QED
  BY <1>1, <1>2, <1>3, <1>4, <1>5, <1>6, <1>7, NextKinds DEF HelperRuns

-----------------------------------------------------------------------------
(* hss_start at its places.                                                *)
LEMMA PlaceKept ==
  ASSUME IInv, [Next]_vars
  PROVE  PlaceInv'
<1>0. /\ PlaceInv /\ HelperInv /\ EmptyInv /\ WorldTyped /\ session \in SessionRecords
      /\ Nobody # Launcher /\ Launcher \notin Servers /\ claims \in Nat
  BY CaptureConstantsOK DEF IInv, Typed, DiskTyped, WorldTyped, Nobody, Launcher
<1>1. CASE HelperSteps
  <2>1. start.at # "launch" /\ HelperRuns
    BY <1>0, <1>1, HelperEffect DEF PlaceInv, HelperRuns, Living
  <2>. QED
    BY <1>0, <1>1, <2>1, HelperEffect DEF PlaceInv
<1>2. CASE Ages
  <2>1. start.at # "launch"
    BY <1>0, <1>2, AgesEffect DEF PlaceInv, Held, Launching
  <2>. QED
    BY <1>0, <1>2, <2>1, AgesEffect DEF PlaceInv, HelperRuns
<1>3. CASE Prepare
  <2>1. /\ start'.at \in Preparing \cup NotStarted
        /\ queue' = Launcher <=> start'.at \in Preparing
        /\ up'[Starter] /\ session'.state = "none"
    BY <1>3, PrepareEffect
  <2>2. start'.at \notin Launching \cup {"check", "done"}
    BY <2>1 DEF Preparing, NotStarted, Launching, Answers
  <2>. QED
    BY <2>1, <2>2 DEF PlaceInv, Held, Launching
<1>4. CASE LaunchSteps
  <2>1. /\ start'.at \in Launching \cup {"check", "done"}
        /\ queue' = Launcher <=> start'.at \in Launching
        /\ up'[Starter] /\ session'.state # "none" /\ young' = young
    BY <1>4, LaunchMoves, LaunchSession
  <2>2. start'.at \notin {"idle"} \cup Preparing \cup NotStarted
    BY <2>1 DEF Preparing, NotStarted, Launching, Answers
  <2>3. start'.at \in {"launch", "pid", "claim"} => claims' = 0
    BY <1>0, <1>4, LaunchShared DEF PlaceInv, EmptyInv, Preparing
  <2>4. start'.at = "launch" => helper'.is = "none" /\ session'.pid = 0 /\ young'
    <3>1. ASSUME start'.at = "launch"
          PROVE  session.state = "none" /\ helper' = helper /\ session'.pid = 0
      BY <1>0, <1>4, <3>1, LaunchHelper, LaunchSession DEF PlaceInv, Preparing
    <3>. QED
      BY <1>0, <2>1, <3>1 DEF EmptyInv
  <2>5. /\ start'.at \in {"claim", "token", "ready"} => session'.pid = 1
        /\ start'.at = "ready" => session'.token # 0
    BY <1>4, LaunchSession
  <2>6. /\ start'.at = "token" => start'.claimed > 0
        /\ start'.at \in {"token", "ready", "abort"} => claims' > 0
    BY <1>4, LaunchShared
  <2>. QED
    BY <2>1, <2>2, <2>3, <2>4, <2>5, <2>6 DEF PlaceInv, Held
<1>5. CASE \E p \in Servers : TaskStep(p)
  <2>1. PICK p \in Servers : TaskStep(p)
    BY <1>5
  <2>2. /\ UNCHANGED <<helper, young, up, start>> /\ session.state # "none"
        /\ session'.state # "none" /\ (session.pid = 1 => session'.pid = 1)
        /\ session'.pid = 1 => session.pid = 1 \/ helper.named
        /\ session'.pid = 0 \/ session'.pid = 1
        /\ HelperRuns /\ session.token # 0 => session'.token # 0
    BY <2>1, TaskBase, TaskSession DEF SessionRecords
  <2>3. queue = Launcher <=> queue' = Launcher
    BY <1>0, <2>1, TaskShared
  <2>4. claims' >= claims
    BY <1>0, <2>1, TaskShared
  <2>5. start.at \in {"launch", "pid", "claim"} => claims' = claims
    <3>1. ASSUME start.at \in {"launch", "pid", "claim"}
          PROVE  queue = Launcher /\ claims = 0
      BY <1>0, <3>1 DEF PlaceInv, Held, Launching
    <3>2. claims = 0 => ~OwnerLive
      BY <1>0 DEF OwnerLive, WorldTyped, Owners
    <3>. QED
      BY <1>0, <2>1, <3>1, <3>2, TaskShared
  <2>6. start.at = "launch" => session'.pid = 0
    BY <1>0, <2>2 DEF PlaceInv, HelperInv
  <2>7. claims' \in Nat /\ (claims > 0 => claims' > 0)
    BY <1>0, <2>1, <2>4, TaskShared, CaptureConstantsOK
  <2>. QED
    BY <1>0, <2>2, <2>3, <2>5, <2>6, <2>7 DEF PlaceInv, HelperRuns
<1>6. CASE \E p \in Servers : Dies(p)
  <2>1. PICK p \in Servers : Dies(p)
    BY <1>6
  <2>2. CASE start'.at = "dead" /\ p = Starter
    <3>1. queue' # Launcher
      BY <1>0, <2>1, <2>2, DiesEffect
    <3>. QED
      BY <2>2, <3>1 DEF PlaceInv, Held, Preparing, Launching, Answers, NotStarted
  <2>3. CASE start' = start /\ (p = Starter => start.at \in {"done"} \cup NotStarted)
    <3>1. start.at \in Held \cup {"check"} => p # Starter
      BY <2>3 DEF Held, Preparing, Launching, Answers, NotStarted
    <3>2. queue' = Launcher <=> start.at \in Held
      BY <1>0, <2>1, <3>1, DiesEffect DEF PlaceInv
    <3>3. start.at \in Held \cup {"check"} => up'[Starter]
      BY <1>0, <2>1, <3>1, DiesEffect, CaptureConstantsOK DEF PlaceInv
    <3>4. UNCHANGED <<session, claims, helper, young>>
      BY <2>1, DiesEffect
    <3>. QED
      BY <1>0, <2>3, <3>2, <3>3, <3>4 DEF PlaceInv, HelperRuns
  <2>. QED
    BY <2>1, <2>2, <2>3, DiesEffect
<1>7. CASE \E p \in Servers : Restart(p)
  <2>1. PICK p \in Servers : Restart(p)
    BY <1>7
  <2>. QED
    BY <1>0, <2>1, RestartEffect, CaptureConstantsOK DEF PlaceInv, HelperRuns
<1>8. CASE UNCHANGED vars
  BY <1>0, <1>8, StutterEffect DEF PlaceInv, HelperRuns
<1>. QED
  BY <1>1, <1>2, <1>3, <1>4, <1>5, <1>6, <1>7, <1>8, NextKinds

(* The types.                                                              *)
LEMMA DiskKept ==
  ASSUME IInv, [Next]_vars
  PROVE  DiskTyped'
<1>0. DiskTyped /\ WorldTyped
  BY DEF IInv, Typed
<1>1. stopFile' \in BOOLEAN
  <2>1. CASE stopFile' = stopFile
    BY <1>0, <2>1 DEF DiskTyped
  <2>2. CASE LaunchSteps
    BY <1>0, <2>2 DEF DiskTyped, LaunchSteps, Create, CreateFails, Launch, RecordPid, ClaimProbe,
         RecordToken, Ready, NotReady, Check, Abort, Leave, EndVerified, Fail, FailPending, disk,
         AskToStop
  <2>3. CASE \E p \in Servers : TaskStep(p)
    <3>1. PICK p \in Servers : TaskStep(p)
      BY <2>3
    <3>2. stopFile' = stopFile \/ AskToStop
      BY <3>1 DEF TaskStep, Steps, Call, Monitor, Reconcile, EnsureOwner, EnsureRefused,
           RequestStop, Stop, Stopping, Wait, Settle, EndJournal, Seal, WriteTerminal, EnterQueue,
           Verify, VerifyFails, disk
    <3>. QED
      BY <2>1, <3>2 DEF AskToStop
  <2>. QED
    BY <2>1, <2>2, <2>3, NextKinds, HelperEffect, AgesEffect, PrepareEffect, DiesEffect,
       RestartEffect, StutterEffect
<1>2. young' \in BOOLEAN
  <2>1. CASE young' = young
    BY <1>0, <2>1 DEF DiskTyped
  <2>2. CASE young' = FALSE
    BY <2>2
  <2>. QED
    BY <2>1, <2>2, NextKinds, HelperEffect, AgesEffect, PrepareEffect, LaunchMoves, TaskBase,
       DiesEffect, RestartEffect, StutterEffect
<1>3. pkg' \in Packages
  <2>1. CASE pkg' = pkg
    BY <1>0, <2>1 DEF DiskTyped
  <2>. QED
    BY <2>1, NextKinds, HelperEffect, AgesEffect, PrepareEffect, LaunchShared, TaskShared,
       DiesEffect, RestartEffect, StutterEffect
<1>4. session' \in SessionRecords
  BY Onward
<1>. QED
  BY <1>1, <1>2, <1>3, <1>4 DEF DiskTyped

LEMMA WorldKept ==
  ASSUME IInv, [Next]_vars
  PROVE  WorldTyped'
<1>0. WorldTyped /\ MaxFaults \in Nat
  BY CaptureConstantsOK DEF IInv, Typed
<1>1. helper' \in Helpers
  <2>1. CASE helper' = helper
    BY <1>0, <2>1 DEF WorldTyped
  <2>. QED
    BY <2>1, NextKinds, HelperEffect, AgesEffect, PrepareEffect, LaunchHelper, TaskBase,
       DiesEffect, RestartEffect, StutterEffect
<1>2. target' \in {"found", "changed"}
  <2>1. CASE target' = target
    BY <1>0, <2>1 DEF WorldTyped
  <2>2. CASE LaunchSteps
    BY <1>0, <2>2 DEF WorldTyped, LaunchSteps, Create, CreateFails, Launch, RecordPid, ClaimProbe,
         RecordToken, Ready, NotReady, Check, Abort, Leave, EndVerified, Fail, FailPending, world,
         StartRest, Restore
  <2>. QED
    BY <2>1, <2>2, NextKinds, HelperEffect, AgesEffect, PrepareEffect, TaskBase, DiesEffect,
       RestartEffect, StutterEffect
<1>3. faults' \in 0 .. MaxFaults
  <2>1. CASE faults' = faults \/ Fault
    BY <1>0, <2>1 DEF WorldTyped, Fault
  <2>2. CASE LaunchSteps
    <3>1. faults' = faults \/ Fault
      BY <2>2 DEF LaunchSteps, Create, CreateFails, Launch, RecordPid, ClaimProbe,
         RecordToken, Ready, NotReady, Check, Abort, Leave, EndVerified, Fail, FailPending, world,
         StartRest
    <3>. QED
      BY <2>1, <3>1
  <2>3. CASE \E p \in Servers : TaskStep(p)
    <3>1. PICK p \in Servers : TaskStep(p)
      BY <2>3
    <3>2. faults' = faults \/ Fault
      BY <3>1 DEF TaskStep, Steps, Call, Monitor, Reconcile, EnsureOwner, EnsureRefused,
           RequestStop, Stop, Stopping, Wait, Settle, EndJournal, Seal, WriteTerminal, EnterQueue,
           Verify, VerifyFails, TaskRest
    <3>. QED
      BY <2>1, <3>2
  <2>. QED
    BY <2>1, <2>2, <2>3, NextKinds, HelperEffect, AgesEffect, PrepareEffect, DiesEffect,
       RestartEffect, StutterEffect
<1>4. /\ owner' \in Owners /\ owner'.token <= claims' /\ (owner'.token # 0 => owner'.by \in Servers)
      /\ claims' \in 0 .. MaxClaims
  <2>1. CASE owner' = owner /\ claims' = claims
    BY <1>0, <2>1 DEF WorldTyped
  <2>. QED
    BY <2>1, NextKinds, HelperEffect, AgesEffect, PrepareEffect, LaunchShared, TaskShared,
       DiesEffect, RestartEffect, StutterEffect
<1>5. queue' \in Servers \cup {Nobody, Launcher} /\ lease' \in Servers \cup {Nobody}
  <2>1. CASE queue' \in {queue, Nobody, Launcher} /\ lease' \in {lease, Nobody}
    BY <1>0, <2>1 DEF WorldTyped
  <2>2. CASE \E p \in Servers : TaskStep(p)
    <3>1. PICK p \in Servers : TaskStep(p)
      BY <2>2
    <3>. QED
      BY <1>0, <3>1, TaskShared DEF WorldTyped
  <2>. QED
    BY <2>1, <2>2, NextKinds, HelperEffect, AgesEffect, PrepareEffect, LaunchMoves, DiesEffect,
       RestartEffect, StutterEffect
<1>. QED
  BY <1>1, <1>2, <1>3, <1>4, <1>5 DEF WorldTyped

LEMMA ServersKept ==
  ASSUME IInv, [Next]_vars
  PROVE  ServersTyped'
<1>0. ServersTyped /\ Starter \in Servers
  BY CaptureConstantsOK DEF IInv, Typed
<1>1. CASE UNCHANGED <<up, watch, task>> /\ start' \in Starts
  BY <1>0, <1>1 DEF ServersTyped
<1>2. CASE LaunchSteps
  <2>1. start' \in Starts /\ up' = up /\ up[Starter]
    BY <1>2, LaunchMoves
  <2>2. watch' = watch \/ watch' = [watch EXCEPT ![Starter] = TRUE]
    BY <1>2 DEF LaunchSteps, Create, CreateFails, Launch, RecordPid, ClaimProbe, RecordToken,
         Ready, NotReady, Check, Abort, Leave, EndVerified, Fail, FailPending, StartRest
  <2>3. watch' \in [Servers -> BOOLEAN]
    BY <1>0, <2>2 DEF ServersTyped
  <2>4. task' = task \/ task' = [task EXCEPT ![Starter] = Doing("settle", "call")]
    BY <1>2 DEF LaunchSteps, Create, CreateFails, Launch, RecordPid, ClaimProbe, RecordToken,
         Ready, NotReady, Check, Abort, Leave, EndVerified, Fail, FailPending, StartRest
  <2>5. /\ task' \in [Servers -> Tasks]
        /\ \A q \in Servers \ {Starter} : task'[q] = task[q]
    BY <1>0, <2>4, DoingTyped DEF ServersTyped, TaskPhases
  <2>. QED
    BY <1>0, <2>1, <2>3, <2>5 DEF ServersTyped
<1>3. CASE \E p \in Servers : TaskStep(p)
  <2>1. PICK p \in Servers : TaskStep(p)
    BY <1>3
  <2>2. UNCHANGED <<up, start>> /\ up[p] /\ task' \in [Servers -> Tasks]
        /\ \A q \in Servers \ {p} : task'[q] = task[q]
    BY <2>1, TaskBase, TaskMoves DEF Proceeds
  <2>3. watch' = watch \/ \E on \in BOOLEAN : watch' = [watch EXCEPT ![p] = on]
    <3>1. CASE Monitor(p) \/ RequestStop(p)
      <4>1. watch' = watch \/ watch' = [watch EXCEPT ![p] = TRUE] \/ watch' = [watch EXCEPT ![p] = FALSE]
        BY <3>1 DEF Monitor, RequestStop
      <4>. QED
        BY <4>1
    <3>2. CASE Settle(p) \/ WriteTerminal(p) \/ Verify(p) \/ VerifyFails(p)
      <4>1. \/ watch' = watch
            \/ watch' = [watch EXCEPT ![p] = @ /\ task[p].op # "monitor"]
            \/ watch' = [watch EXCEPT ![p] = @ /\ (task[p].op # "monitor" \/ task[p].then # "written")]
        BY <3>2 DEF Settle, WriteTerminal, Verify, VerifyFails
      <4>2. /\ (watch[p] /\ task[p].op # "monitor") \in BOOLEAN
            /\ (watch[p] /\ (task[p].op # "monitor" \/ task[p].then # "written")) \in BOOLEAN
        OBVIOUS
      <4>. QED
        BY <4>1, <4>2, Zenon
    <3>3. CASE ~(\/ Monitor(p) \/ RequestStop(p) \/ Settle(p) \/ WriteTerminal(p) \/ Verify(p)
                 \/ VerifyFails(p))
      BY <2>1, <3>3 DEF TaskStep, Steps, Call, Reconcile, EnsureOwner, EnsureRefused, Stop,
           Stopping, Wait, EndJournal, Seal, EnterQueue
    <3>. QED
      BY <3>1, <3>2, <3>3
  <2>4. watch' \in [Servers -> BOOLEAN]
    BY <1>0, <2>3 DEF ServersTyped
  <2>. QED
    BY <1>0, <2>1, <2>2, <2>4 DEF ServersTyped
<1>4. CASE \E p \in Servers : Dies(p)
  <2>1. PICK p \in Servers : Dies(p)
    BY <1>4
  <2>. QED
    BY <1>0, <2>1, DiesEffect DEF ServersTyped
<1>5. CASE \E p \in Servers : Restart(p)
  <2>1. PICK p \in Servers : Restart(p)
    BY <1>5
  <2>. QED
    BY <1>0, <2>1, RestartEffect DEF ServersTyped
<1>6. HelperSteps \/ Ages \/ UNCHANGED vars \/ Prepare =>
        UNCHANGED <<up, watch, task>> /\ start' \in Starts
  BY <1>0, HelperEffect, AgesEffect, StutterEffect, PrepareEffect DEF ServersTyped
<1>. QED
  BY <1>1, <1>2, <1>3, <1>4, <1>5, <1>6, NextKinds
-----------------------------------------------------------------------------
LEMMA InitInv == Init => IInv
<1>. SUFFICES ASSUME Init
              PROVE  IInv
  OBVIOUS
<1>1. /\ session = NoSession /\ stopFile = FALSE /\ pkg = NoPkg
      /\ helper = [is |-> "none", named |-> FALSE, result |-> "none"] /\ target = "found"
      /\ owner = [token |-> 0, by |-> Nobody] /\ claims = 0
      /\ queue = Nobody /\ lease = Nobody /\ young = TRUE
      /\ up = [p \in Servers |-> TRUE] /\ watch = [p \in Servers |-> FALSE]
      /\ start = NotStarting("idle")
      /\ task = [p \in Servers |-> NoTask] /\ faults = 0
  BY DEF Init
<1>2. NoSession \in SessionRecords /\ NoPkg \in Packages
  BY CaptureConstantsOK DEF NoSession, NoPkg, SessionRecords, Packages
<1>3. /\ NoSession.state = "none" /\ NoSession.pid = 0
      /\ start \in Starts /\ start.at = "idle"
  BY <1>1, CaptureConstantsOK DEF NoSession, NotStarting, Starts, StartPhases
<1>4. helper \in Helpers /\ helper.is = "none" /\ ~helper.named
  BY <1>1 DEF Helpers
<1>5. DiskTyped
  BY <1>1, <1>2 DEF DiskTyped
<1>6. WorldTyped
  BY <1>1, <1>4, CaptureConstantsOK DEF WorldTyped, Owners
<1>7. task \in [Servers -> Tasks] /\ \A p \in Servers : task[p].at = "idle"
  BY <1>1, NoTaskTyped
<1>8. ServersTyped
  BY <1>1, <1>3, <1>7 DEF ServersTyped
<1>9. EmptyInv /\ ValidInv /\ HelperInv
  BY <1>1, <1>3, <1>4, <1>7 DEF EmptyInv, ValidInv, HelperInv
<1>10. PlaceInv
  BY <1>1, <1>3 DEF PlaceInv, Held, Preparing, Launching, Answers, Nobody, Launcher
<1>11. EndedInv /\ TargetInv /\ ProbeInv /\ SessionAgreesWithPackage
  BY <1>1, <1>3, <1>4 DEF EndedInv, TargetInv, ProbeInv, SessionAgreesWithPackage, Terminal,
                          HelperRuns, Living
<1>12. TaskInv /\ HoldersInv /\ SealInv
  BY <1>7 DEF TaskInv, KnowsHelper, HoldersInv, Holds, SealInv, Passes
<1>. QED
  BY <1>5, <1>6, <1>8, <1>9, <1>10, <1>11, <1>12 DEF IInv, Typed

LEMMA Inductive == IInv /\ [Next]_vars => IInv'
<1>. SUFFICES ASSUME IInv, [Next]_vars
              PROVE  IInv'
  OBVIOUS
<1>1. Typed'
  BY DiskKept, WorldKept, ServersKept DEF Typed
<1>. QED
  BY <1>1, EmptyKept, PlaceKept, ValidKept, HelperKept, EndedKept, TasksKept, TargetKept,
     ProbeKept, PackageKept DEF IInv

(* What the invariant says of the properties.                              *)
LEMMA CaptureIsSafe == IInv => CaptureSound
<1>. SUFFICES ASSUME IInv
              PROVE  CaptureSound
  OBVIOUS
<1>0. /\ WorldTyped /\ ServersTyped /\ DiskTyped /\ ValidInv
      /\ PlaceInv /\ EndedInv /\ TargetInv /\ ProbeInv /\ TaskInv
  BY DEF IInv, Typed
<1>1. TypeOK
  <2>1. owner.token \in 0 .. claims
    BY <1>0 DEF WorldTyped, Owners
  <2>. QED
    BY <1>0, <2>1 DEF TypeOK, WorldTyped, ServersTyped, DiskTyped, ValidInv, SessionRecords,
                      Packages, Helpers
<1>2. RefusedLeavesTarget
  <2>1. NotStarted \cap Held = {}
    BY DEF NotStarted, Held, Preparing, Launching, Answers
  <2>. QED
    BY <1>0, <2>1 DEF RefusedLeavesTarget, PlaceInv, TargetInv
<1>3. ProbeTakenWhileHelperRuns
  <2>1. \A p \in Servers : task[p].at = "verify" => ~HelperRuns
    BY <1>0 DEF TaskInv, KnowsHelper, Gone
  <2>. QED
    BY <1>0, <2>1 DEF ProbeTakenWhileHelperRuns, ProbeInv, OwnerLive
<1>4. TargetLeftAsFound
  BY <1>0 DEF TargetLeftAsFound, TargetInv, EndedInv, Gone
<1>. QED
  BY <1>1, <1>2, <1>3, <1>4 DEF CaptureSound

LEMMA Invariance == Spec => []IInv
<1>. QED
  BY InitInv, Inductive, PTL DEF Spec

(* Probe and target are safe with a capture: while its helper runs the     *)
(* probe is taken and nobody else works on the target, when it has ended   *)
(* with nothing left to restore the target is as it was found, and so it   *)
(* is when hss_start was refused or handed on to polling, whichever        *)
(* servers die, take over or settle (hss_start, settle,                    *)
(* settleTargetStateAndOwner, ensureSessionOwner in hss-operations.ts).    *)
THEOREM CaptureIsSound == Spec => []CaptureSound
<1>. QED
  BY Invariance, CaptureIsSafe, PTL

(* A session recorded as completed, stopped or interrupted is one whose    *)
(* package ended so in its journal and is sealed (finalizeCaptureResult,   *)
(* settle and markSessionTerminal in hss-operations.ts).                   *)
THEOREM SessionAgrees == Spec => []SessionAgreesWithPackage
<1>1. IInv => SessionAgreesWithPackage
  BY DEF IInv
<1>. QED
  BY <1>1, Invariance, PTL

-----------------------------------------------------------------------------
(***************************************************************************)
(* The lease of a directory (DirectoryLease), under which the record of a  *)
(* capture's session is changed. Without a guard two waiters may retire by *)
(* path what a third has just taken, so exclusion is proved for what no    *)
(* death and no stall has disturbed: then the record read is that of a     *)
(* process that lives, and nobody retires it.                              *)
(***************************************************************************)
(* No process has died and none has stalled.                               *)
Undisturbed == crashes = 0 /\ stalls = 0

(* What stands at the path, or was read there, is of a process that lives, *)
(* so nobody retires it but who holds it.                                  *)
UndisturbedInv ==
  /\ \A p \in Procs : alive[p]
  /\ standing # NoLease => standing.inc = inc[standing.pid]
  /\ \A p \in Procs :
       /\ record[p] # NoLease => record[p].inc = inc[record[p].pid]
       /\ pc[p] = "judge" => record[p] # NoLease
       /\ pc[p] # "retire"
       /\ pc[p] \in Holding => standing # NoLease /\ standing = record[p] /\ standing.pid = p

LeaseInv == LeaseTypeOK /\ (Undisturbed => UndisturbedInv)

LEMMA LeaseAtFirst ==
  ASSUME LeaseInit
  PROVE  LeaseInv
BY LeaseConstantsOK DEF LeaseInit, LeaseInv, LeaseTypeOK, PCs, UndisturbedInv, Holding

(* Deaths and stalls are counted, so what is undisturbed always was.       *)
LEMMA LeaseTyped ==
  ASSUME LeaseInv, LeaseNext
  PROVE  LeaseTypeOK' /\ (Undisturbed' => Undisturbed)
<1> PICK p \in Procs : Step(p) \/ Ask(p) \/ Crash(p) \/ ComeBack(p)
  BY DEF LeaseNext
<1> USE LeaseConstantsOK DEF LeaseInv, LeaseTypeOK, PCs, Undisturbed, LeaseAt, Goto, Forget, Environment
<1>1. CASE CreateLease(p)
  <2>1. NewRecord(p) \in LeaseRecord
    BY DEF NewRecord, LeaseRecord
  <2> QED BY <1>1, <2>1 DEF CreateLease
<1>2. CASE Read(p)
  BY <1>2 DEF Read
<1>3. CASE Stat(p)
  BY <1>3 DEF Stat
<1>4. CASE Judge(p)
  BY <1>4 DEF Judge
<1>5. CASE Retire(p)
  BY <1>5 DEF Retire
<1>6. CASE Pause(p)
  BY <1>6 DEF Pause
<1>7. CASE LeaveLease(p)
  BY <1>7 DEF LeaveLease
<1>8. CASE Release(p)
  BY <1>8 DEF Release
<1>9. CASE Ask(p)
  BY <1>9 DEF Ask
<1>10. CASE Crash(p)
  BY <1>10 DEF Crash
<1>11. CASE ComeBack(p)
  BY <1>11 DEF ComeBack
<1> QED BY <1>1, <1>2, <1>3, <1>4, <1>5, <1>6, <1>7, <1>8, <1>9, <1>10, <1>11 DEF Step

LEMMA UndisturbedKept ==
  ASSUME LeaseTypeOK, UndisturbedInv, LeaseNext, Undisturbed'
  PROVE  UndisturbedInv'
<1> PICK p \in Procs : Step(p) \/ Ask(p) \/ Crash(p) \/ ComeBack(p)
  BY DEF LeaseNext
<1> USE LeaseConstantsOK DEF LeaseTypeOK, Holding, UndisturbedInv, Undisturbed,
    LeaseAt, Goto, Forget, Environment
(* The path was free, so nobody held.                                      *)
<1>1. CASE CreateLease(p)
  <2>1. NewRecord(p) \in LeaseRecord /\ NewRecord(p).pid = p /\ NewRecord(p).inc = inc[p]
    BY DEF NewRecord, LeaseRecord
  <2> QED BY <1>1, <2>1 DEF CreateLease
<1>2. CASE Read(p)
  BY <1>2 DEF Read
<1>3. CASE Stat(p)
  BY <1>3 DEF Stat
(* Every record is found live.                                             *)
<1>4. CASE Judge(p)
  <2>1. record[p] \in LeaseRecord /\ RecordLive(p, record[p])
    BY <1>4 DEF Judge, RecordLive, LeaseRecord
  <2> QED BY <1>4, <2>1 DEF Judge
(* Only the holder retires, and it is alone.                               *)
<1>5. CASE Retire(p)
  BY <1>5 DEF Retire
<1>6. CASE Pause(p)
  BY <1>6 DEF Pause
<1>7. CASE LeaveLease(p)
  BY <1>7 DEF LeaveLease
<1>8. CASE Release(p)
  BY <1>8 DEF Release
<1>9. CASE Ask(p)
  BY <1>9 DEF Ask
<1>10. CASE Crash(p)
  BY <1>10 DEF Crash
<1>11. CASE ComeBack(p)
  BY <1>11 DEF ComeBack
<1> QED BY <1>1, <1>2, <1>3, <1>4, <1>5, <1>6, <1>7, <1>8, <1>9, <1>10, <1>11 DEF Step

(* The types of a directory lease, and whose lease stands at its path      *)
(* until a process dies or stalls.                                         *)
THEOREM LeaseInvariance == LeaseSpec => []LeaseInv
<1>1. LeaseInit => LeaseInv
  BY LeaseAtFirst
<1>2. LeaseInv /\ [LeaseNext]_leaseVars => LeaseInv'
  <2> SUFFICES ASSUME LeaseInv, [LeaseNext]_leaseVars PROVE LeaseInv'
    OBVIOUS
  <2>1. CASE LeaseNext
    BY <2>1, LeaseTyped, UndisturbedKept DEF LeaseInv
  <2>2. CASE UNCHANGED leaseVars
    <3>1. LeaseTypeOK' /\ (Undisturbed' = Undisturbed)
      BY <2>2 DEF LeaseInv, leaseVars, budgets, LeaseTypeOK, Undisturbed
    <3>2. UndisturbedInv' = UndisturbedInv
      BY <2>2 DEF leaseVars, UndisturbedInv
    <3> QED BY <3>1, <3>2 DEF LeaseInv
  <2> QED BY <2>1, <2>2
<1> QED BY <1>1, <1>2, PTL DEF LeaseSpec

(* Two operations under one lease never overlap until a process dies or    *)
(* stalls for five seconds, however many processes there are and however   *)
(* many retiring renames fail: withDirectoryLease.                         *)
THEOREM LeaseIsExclusive == LeaseSpec => []ExclusiveUndisturbed
<1>1. LeaseInv => ExclusiveUndisturbed
  BY DEF LeaseInv, LeaseTypeOK, Undisturbed, UndisturbedInv, ExclusiveUndisturbed, MutualExclusion
<1> QED BY <1>1, LeaseInvariance, PTL

=============================================================================
