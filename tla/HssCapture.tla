----------------------------- MODULE HssCapture -----------------------------
(***************************************************************************)
(* One HSS capture from hss_start to its last trace (hss-operations.ts,    *)
(* hss-session-store.ts, hss-helper-adapter.ts).                           *)
(*                                                                         *)
(* The capture is run by a detached helper process that outlives the       *)
(* server that launched it.  What is known of it is on disk: the session   *)
(* record, the identity the helper writes, its result, the package.  Any   *)
(* server on the machine may find the capture there, take over the probe,  *)
(* stop it, and settle it: end the package, seal it, write the terminal    *)
(* session, put the target back into the state it was found in and give    *)
(* the probe back.  Settling and reconciling hold the lease of the capture *)
(* and then the probe queue; hss_start holds the queue and no lease.       *)
(*                                                                         *)
(* The journals and the index of the package are JcapPackage; here it has  *)
(* ended in its journal and is sealed, or not yet.                         *)
(***************************************************************************)
EXTENDS Naturals

CONSTANTS Servers,   (* the server processes                               *)
          Starter,   (* the one that runs hss_start                        *)
          MaxClaims, (* bound on the claims and adoptions of the probe     *)
          MaxFaults  (* bound on deaths, failed restorations and failed    *)
                     (* writes of the package                              *)

ASSUME CaptureConstantsOK ==
  /\ Starter \in Servers /\ {"nobody", "start"} \cap Servers = {}
  /\ MaxClaims \in Nat \ {0} /\ MaxFaults \in Nat

VARIABLES
  session, (* the session record                                           *)
  helper,  (* the helper process and what it left: result                  *)
  stopFile,(* is there a request to stop that a helper may still read?     *)
  pkg,     (* how the package ended in its journal, and is it sealed?      *)
  target,  (* is the target as hss_start found it?                         *)
  owner,   (* the owner record of the probe                                *)
  claims,  (* how many owner tokens were handed out                        *)
  queue,   (* who is inside the probe queue                                *)
  lease,   (* who holds the lease of the capture                           *)
  young,   (* is the session record younger than five seconds?             *)
  up,      (* is the server running?                                       *)
  watch,   (* does the server monitor the capture?                         *)
  start,   (* hss_start                                                    *)
  task,    (* a call or the monitor in each server                         *)
  faults

disk == <<session, stopFile, pkg>>
probe == <<owner, claims, queue>>
world == <<helper, target, young, faults>>
tasks == <<up, watch, start, task>>
vars == <<disk, probe, lease, world, tasks>>

Nobody == "nobody"
Launcher == "start"
Active == {"starting", "capturing", "stopping"}
Terminal == {"completed", "stopped", "interrupted", "failed"}

NoSession == [state |-> "none", pid |-> 0, token |-> 0, pending |-> FALSE]
NoPkg == [journal |-> "none", sealed |-> FALSE]
Doing(step, op) == [at |-> step, op |-> op, then |-> "none", token |-> 0, state |-> "none"]
NoTask == Doing("idle", "none")
NotStarting(step) == [at |-> step, claimed |-> 0, over |-> FALSE]

Init == /\ session = NoSession /\ stopFile = FALSE /\ pkg = NoPkg
        /\ helper = [is |-> "none", named |-> FALSE, result |-> "none"] /\ target = "found"
        /\ owner = [token |-> 0, by |-> Nobody] /\ claims = 0
        /\ queue = Nobody /\ lease = Nobody /\ young = TRUE
        /\ up = [p \in Servers |-> TRUE] /\ watch = [p \in Servers |-> FALSE]
        /\ start = NotStarting("idle")
        /\ task = [p \in Servers |-> NoTask] /\ faults = 0

Fault == faults < MaxFaults /\ faults' = faults + 1

-----------------------------------------------------------------------------
(* The helper.  "started": launched; "named": its identity is on disk;     *)
(* "ready": the heartbeat advances; "hung": it does not any more.          *)
Living == {"started", "named", "ready", "hung"}
HelperRuns == helper.is \in Living
HelperFresh == helper.is = "ready"

(* isAlive and isCaptureAlive ask by the process id of a session record.   *)
IsAlive(s) == s.pid = 1 /\ HelperRuns
CaptureAlive(s) == s.pid = 1 /\ HelperFresh

HelperNames == /\ helper.is = "started" /\ helper' = [helper EXCEPT !.is = "named", !.named = TRUE]
               /\ UNCHANGED <<disk, probe, lease, target, young, faults, tasks>>

(* It resumes a halted target before it says that it is ready.             *)
HelperReady == /\ helper.is = "named" /\ helper' = [helper EXCEPT !.is = "ready"]
               /\ target' \in {"found", "changed"}
               /\ UNCHANGED <<disk, probe, lease, young, faults, tasks>>

(* It leaves the target running, whatever it was before.                   *)
HelperEnds ==
  /\ helper.is \in {"named", "ready"}
  /\ \E result \in {"ok", "stopped", "error"} :
       /\ result = "stopped" => stopFile
       /\ result = "ok" => helper.is = "ready"
       /\ helper' = [helper EXCEPT !.is = "dead", !.result = result]
  /\ target' \in IF helper.is = "ready" THEN {target} ELSE {"found", "changed"}
  /\ stopFile' = FALSE
  /\ UNCHANGED <<session, pkg, probe, lease, young, faults, tasks>>

HelperDies == /\ HelperRuns /\ Fault
              /\ helper' = [helper EXCEPT !.is = "dead"] /\ stopFile' = FALSE
              /\ UNCHANGED <<session, pkg, probe, lease, target, young, tasks>>

HelperHangs == /\ helper.is = "ready" /\ Fault
               /\ helper' = [helper EXCEPT !.is = "hung"]
               /\ UNCHANGED <<disk, probe, lease, target, young, tasks>>

(* Five seconds are enough for a helper that was launched to name itself;  *)
(* the age is only asked of a record without the process id.               *)
Ages == /\ young /\ session.state = "starting" /\ session.pid = 0 /\ helper.is # "started"
        /\ start.at # "launch" \/ ~up[Starter]
        /\ young' = FALSE
        /\ UNCHANGED <<disk, probe, lease, helper, target, faults, tasks>>

AskToStop == stopFile' = (helper.is # "dead")

-----------------------------------------------------------------------------
(* validateSession: a record without the process id or the owner token of  *)
(* its helper is only written while "starting" or as "failed".             *)
Valid(s) == s.state \in {"starting", "failed"} \/ (s.pid # 0 /\ s.token # 0)

(* ownerRecordLive: the server lives, or the helper it claimed for.        *)
OwnerOfLiveServer == owner.token # 0 /\ up[owner.by]
OwnerLive == owner.token # 0 /\ (up[owner.by] \/ HelperRuns)
NoOwner == [token |-> 0, by |-> Nobody]

Claim(p) == /\ claims < MaxClaims /\ claims' = claims + 1
            /\ owner' = [token |-> claims + 1, by |-> p]

(* releaseOwner: a dead record goes, a live one only by its own server.    *)
Released(p, token) ==
  IF ~OwnerLive \/ (owner.token = token /\ owner.by = p) THEN NoOwner ELSE owner

(* startupJournalPending *)
StartupPending(s) == s.state \in {"starting", "stopping"} /\ s.pid = 0 /\ young

-----------------------------------------------------------------------------
(* hss_start.  One action for each step that another process can see.      *)
NotStarted == {"refused", "polls", "unknown", "raised", "planned"}
SAt(step) == up[Starter] /\ start.at = step
SGo(step) ==
  start' = IF step \in {"check", "done"} \cup NotStarted THEN NotStarting(step) ELSE [start EXCEPT !.at = step]
StartRest == <<lease, target, young, faults, up, watch, task>>

(* Before anything is on disk.  Each way out leaves the queue: "refused";  *)
(* "polls", with an error that lets hss_start go on as a polling capture;  *)
(* "unknown", reported as an unknown state of the target; "raised", a look *)
(* at the target that failed without saying so.                            *)
LeaveAs(outs) == \E out \in outs : SGo(out) /\ queue' = Nobody

(* observeTargetState, when it does not answer "running" or "halted".      *)
Unseen == LeaveAs({"raised", "unknown"})

(* restoreHaltedState, restoreRunningState.                                *)
Restore == target' = "found"
BeforeCreate == <<disk, owner, claims, helper, lease, young, faults, up, watch, task>>

(* prepare: the input and the variables; and no capture may be active.     *)
Unprepared == /\ SAt("idle") /\ SGo("refused")
              /\ UNCHANGED <<BeforeCreate, queue, target>>

(* inspectRuntime: the helper, the library and their versions.             *)
Unavailable == LeaveAs({"refused", "polls"})

(* The active session is looked for before and again inside the queue.     *)
Begin == /\ SAt("idle") /\ session.state = "none" /\ queue = Nobody /\ ~OwnerLive
         /\ (queue' = Launcher /\ SGo("memory")) \/ Unavailable
         /\ UNCHANGED <<BeforeCreate, target>>

(* releaseLocalMemorySessionForHss: closing the server's own memory        *)
(* session may leave the target otherwise than it was before; it is looked *)
(* at, and put back.                                                       *)
CloseMemory == /\ SAt("memory")
               /\ \/ SGo("before") /\ UNCHANGED <<queue, target>>
                  \/ /\ target' \in {"found", "changed"}
                     /\ (SGo("closed") /\ UNCHANGED queue) \/ LeaveAs({"unknown"})
               /\ UNCHANGED BeforeCreate

Reconnect == /\ SAt("closed")
             /\ \/ Unseen /\ UNCHANGED target
                \/ Restore /\ SGo("before") /\ UNCHANGED queue
                \/ target = "changed" /\ LeaveAs({"unknown"}) /\ UNCHANGED target
             /\ UNCHANGED BeforeCreate

(* capabilityPreservingTargetState: look, ask for the capability, look     *)
(* again; what the helper answers is the next step.                        *)
Before == /\ SAt("before")
          /\ (SGo("capability") /\ UNCHANGED queue) \/ Unseen
          /\ UNCHANGED <<BeforeCreate, target>>

Answers == {"able", "unable", "restored", "moved"}
Capability == /\ SAt("capability") /\ target' \in {"found", "changed"}
              /\ \E answer \in Answers : SGo(answer)
              /\ UNCHANGED <<BeforeCreate, queue>>

(* A target that was running is resumed and the capture polls instead; one *)
(* that was halted is halted, and the capture refused.                     *)
After == /\ up[Starter] /\ start.at \in Answers
         /\ \/ LeaveAs({"unknown"}) /\ UNCHANGED target
            \/ target = "changed" /\ Restore /\ LeaveAs({"polls", "refused"})
            \/ /\ target = "found" /\ UNCHANGED target
               /\ \/ start.at = "able" /\ SGo("create") /\ UNCHANGED queue
                  \/ start.at = "unable" /\ LeaveAs({"polls", "refused"})
                  \/ start.at = "restored" /\ LeaveAs({"polls"})
                  \/ start.at = "moved" /\ LeaveAs({"refused", "unknown"})
         /\ UNCHANGED BeforeCreate

(* The rate, the blocks and what the capture needs on disk; a dry run ends *)
(* here.                                                                   *)
Refused == /\ SAt("create") /\ LeaveAs({"refused", "polls", "planned"})
           /\ UNCHANGED <<BeforeCreate, target>>

(* createCapture, and the provisional record.                              *)
Create == /\ SAt("create") /\ session.state = "none"
          /\ pkg' = [NoPkg EXCEPT !.journal = "active"]
          /\ session' = [NoSession EXCEPT !.state = "starting"]
          /\ SGo("launch")
          /\ UNCHANGED <<stopFile, probe, helper, StartRest>>

(* A failure in it leaves a failed package and a failed record.            *)
CreateFails == /\ SAt("create") /\ session.state = "none"
               /\ pkg' = [journal |-> "failed", sealed |-> TRUE]
               /\ session' = [NoSession EXCEPT !.state = "failed"]
               /\ queue' = Nobody /\ SGo("done")
               /\ UNCHANGED <<stopFile, owner, claims, helper, StartRest>>

Launch == /\ SAt("launch")
          /\ \/ helper' = [helper EXCEPT !.is = "started"] /\ SGo("pid")
             \/ SGo("end") /\ UNCHANGED helper
          /\ UNCHANGED <<disk, probe, StartRest>>

RecordPid == /\ SAt("pid") /\ session' = [session EXCEPT !.pid = 1] /\ SGo("claim")
             /\ UNCHANGED <<stopFile, pkg, probe, helper, StartRest>>

ClaimProbe == /\ SAt("claim")
              /\ \/ /\ ~OwnerLive /\ Claim(Starter)
                    /\ start' = [start EXCEPT !.at = "token", !.claimed = claims + 1]
                 \/ OwnerLive /\ SGo("abort") /\ UNCHANGED <<owner, claims>>
              /\ UNCHANGED <<disk, queue, helper, StartRest>>

(* What start knows of the state of the session is from this update.       *)
RecordToken ==
  /\ SAt("token")
  /\ LET next == [session EXCEPT !.token = start.claimed]
     IN IF Valid(next)
        THEN session' = next
               /\ start' = [start EXCEPT !.at = "ready", !.over = session.state \in Terminal]
        ELSE UNCHANGED session /\ SGo("abort")
  /\ UNCHANGED <<stopFile, pkg, probe, helper, StartRest>>

(* waitUntilReady and the update after it: nothing else runs in between.   *)
Ready ==
  /\ SAt("ready") /\ helper.is \in {"ready", "hung"}
  /\ IF start.over
     THEN /\ stopFile' = FALSE /\ SGo("abort") /\ UNCHANGED <<session, queue>>
          /\ helper' = [helper EXCEPT !.is = "dead"]
     ELSE /\ session' = [session EXCEPT !.state = IF @ = "stopping" THEN @ ELSE "capturing"]
          /\ queue' = Nobody /\ SGo("check") /\ UNCHANGED <<stopFile, helper>>
  /\ UNCHANGED <<pkg, owner, claims, StartRest>>

NotReady == /\ SAt("ready") /\ helper.is \notin {"ready", "hung"} /\ SGo("abort")
            /\ UNCHANGED <<disk, probe, helper, StartRest>>

(* The monitor is scheduled; a helper that is gone already is settled.     *)
Check ==
  /\ SAt("check") /\ task[Starter].at = "idle" /\ SGo("done")
  /\ watch' = [watch EXCEPT ![Starter] = TRUE]
  /\ task' = IF ~HelperRuns /\ session.state # "stopping"
             THEN [task EXCEPT ![Starter] = Doing("settle", "call")]
             ELSE task
  /\ UNCHANGED <<disk, probe, lease, world, up>>

(* The way out: ask the helper to stop, wait, and kill it if it proves     *)
(* that it is this capture's; or it lives on.                              *)
Abort ==
  /\ SAt("abort") /\ stopFile' = FALSE
  /\ \/ ~HelperRuns /\ SGo("end") /\ UNCHANGED helper
     \/ HelperFresh /\ helper' = [helper EXCEPT !.is = "dead"] /\ SGo("end")
  /\ UNCHANGED <<session, pkg, probe, StartRest>>

(* It lives on: the probe stays taken, the monitor goes on.                *)
Leave ==
  /\ SAt("abort") /\ HelperRuns /\ AskToStop /\ queue' = Nobody /\ SGo("done")
  /\ IF owner.token = 0 /\ claims < MaxClaims THEN Claim(Starter) ELSE UNCHANGED <<owner, claims>>
  /\ LET next == [session EXCEPT !.state = "stopping", !.pid = 1,
                    !.token = IF owner'.token # 0 THEN owner'.token ELSE @]
     IN IF Valid(next)
        THEN session' = next /\ watch' = [watch EXCEPT ![Starter] = TRUE]
        ELSE UNCHANGED <<session, watch>>
  /\ UNCHANGED <<pkg, helper, lease, target, young, faults, up, task>>

(* It is dead, or was never launched: the target is verified, the package  *)
(* ends as failed, and so does the session.                                *)
EndVerified ==
  /\ SAt("end") /\ SGo("fail")
  /\ Restore
  /\ UNCHANGED <<disk, probe, helper, lease, young, faults, up, watch, task>>

FailPackage ==
  IF pkg.journal = "active" THEN [journal |-> "failed", sealed |-> TRUE]
  ELSE pkg

Fail ==
  /\ SAt("fail") /\ pkg' = FailPackage
  /\ session' = [session EXCEPT !.state = "failed", !.pending = FALSE]
  /\ owner' = IF start.claimed # 0 THEN Released(Starter, start.claimed) ELSE owner
  /\ queue' = Nobody /\ SGo("done")
  /\ UNCHANGED <<stopFile, claims, helper, StartRest>>

(* The target could not be restored: the probe stays taken meanwhile.      *)
FailPending ==
  /\ SAt("end") /\ helper.is # "none" /\ Fault
  /\ pkg' = FailPackage
  /\ session' = [session EXCEPT !.state = "failed", !.pending = TRUE]
  /\ watch' = [watch EXCEPT ![Starter] = TRUE]
  /\ queue' = Nobody /\ SGo("done")
  /\ UNCHANGED <<stopFile, owner, claims, helper, lease, target, young, up, task>>

StartSteps ==
  \/ Unprepared \/ Begin \/ CloseMemory \/ Reconnect \/ Before \/ Capability \/ After \/ Refused \/ Create \/ CreateFails \/ Launch \/ RecordPid \/ ClaimProbe
  \/ RecordToken \/ Ready \/ NotReady \/ Check \/ Abort \/ Leave \/ EndVerified
  \/ Fail \/ FailPending

-----------------------------------------------------------------------------
(* A call or the monitor in a server: hss_status, hss_stop, and the        *)
(* monitor's rounds.  hss_recover takes steps of hss_status or refuses: a  *)
(* session that is reconciled and still active has a helper that proves    *)
(* itself, or none; and settle turns one that hangs meanwhile away.        *)
At(p, step) == up[p] /\ task[p].at = step
Go(p, step) == task' = [task EXCEPT ![p].at = step]
Return(p) == task' = [task EXCEPT ![p] = NoTask]
TaskRest == <<helper, target, young, faults, up, start>>

Call(p) ==
  /\ At(p, "idle") /\ session.state # "none"
  /\ \E op \in {"status", "stop"} :
       task' = [task EXCEPT ![p] = Doing("reconcile", op)]
  /\ UNCHANGED <<disk, probe, lease, watch, TaskRest>>

Settling(op) == Doing("settle", IF op = "monitor" THEN op ELSE "call")

(* A round of the monitor; it ends with a terminal session.                *)
Monitor(p) ==
  /\ At(p, "idle") /\ watch[p]
  /\ IF session.state \in Terminal /\ ~session.pending
     THEN /\ owner' = IF session.token # 0 THEN Released(p, session.token) ELSE owner
          /\ watch' = [watch EXCEPT ![p] = FALSE] /\ UNCHANGED task
     ELSE /\ task' = [task EXCEPT ![p] = IF session.state \in Terminal THEN Settling("monitor")
                        ELSE Doing("reconcile", "monitor")]
          /\ UNCHANGED <<owner, watch>>
  /\ UNCHANGED <<disk, claims, queue, lease, TaskRest>>

DecisionCapturing(op, s) ==
  IF ~IsAlive(s) /\ (op # "monitor" \/ s.state = "capturing") THEN Settling(op) ELSE NoTask

(* What is done after the session was reconciled to s.                     *)
Decision(op, s) ==
  LET left == s.state \in Active /\ ~IsAlive(s) /\ ~StartupPending(s)
      settles == \/ op = "status" /\ (left \/ (s.state \in Terminal /\ s.pending))
                 \/ op = "stop" /\ (left \/ (s.state \in {"completed", "stopped"} /\ ~IsAlive(s)))
                 \/ op = "monitor" /\ ~IsAlive(s) /\ ~StartupPending(s)
  IN IF settles THEN Settling(op)
     ELSE IF op # "stop" \/ s.state \notin Active THEN NoTask
     ELSE Doing(IF StartupPending(s) THEN "request" ELSE "stop", op)

(* discoverHelperPid *)
Discovered == IF session.pid = 0 /\ helper.named THEN [session EXCEPT !.pid = 1] ELSE session

(* reconcileSession: a helper that lives but does not prove it is refused. *)
Reconcile(p) ==
  /\ At(p, "reconcile") /\ lease = Nobody /\ session' = Discovered
  /\ IF session'.state \in Active /\ CaptureAlive(session')
     THEN lease' = p /\ task' = [task EXCEPT ![p].at = "ensure", ![p].then = "decide"]
     ELSE /\ UNCHANGED lease
          /\ IF session'.state \in Active /\ IsAlive(session') THEN Return(p)
             ELSE task' = [task EXCEPT ![p] = Decision(task[p].op, session')]
  /\ UNCHANGED <<stopFile, pkg, probe, watch, TaskRest>>

(* ensureSessionOwner: the record of another token is adopted if its       *)
(* server is dead; without a record the probe is claimed in the queue.     *)
Adoptable ==
  CaptureAlive(session) /\ OwnerLive /\ owner.token # session.token => ~up[owner.by]

Owned(p, s) ==
  IF ~CaptureAlive(s) THEN session' = s /\ UNCHANGED <<owner, claims>>
  ELSE /\ IF OwnerLive /\ owner.token = s.token THEN UNCHANGED <<owner, claims>>
          ELSE (OwnerLive \/ queue = Nobody) /\ Claim(p)
       /\ session' = [s EXCEPT !.token = owner'.token,
                               !.state = IF @ = "starting" THEN "capturing" ELSE @]

EnsureOwner(p) ==
  /\ At(p, "ensure") /\ lease = p /\ Adoptable /\ Owned(p, session)
  /\ IF task[p].then = "stopping"
     THEN task' = [task EXCEPT ![p].at = "stopping", ![p].then = "none"] /\ UNCHANGED lease
     ELSE task' = [task EXCEPT ![p] = Decision(task[p].op, session')] /\ lease' = Nobody
  /\ UNCHANGED <<stopFile, pkg, queue, watch, TaskRest>>

EnsureRefused(p) ==
  /\ At(p, "ensure") /\ lease = p /\ ~Adoptable
  /\ lease' = Nobody /\ Return(p)
  /\ UNCHANGED <<disk, probe, watch, TaskRest>>

RequestStopUnchecked(p) ==
  /\ At(p, "request") /\ lease = Nobody /\ AskToStop /\ Return(p)
  /\ session' = [session EXCEPT !.state = "stopping"]
  /\ watch' = [watch EXCEPT ![p] = TRUE]
  /\ UNCHANGED <<pkg, probe, lease, TaskRest>>

(* hss_stop while the identity of the helper is not known yet: the request *)
(* is durable; "stopping" is not, unless start went on meanwhile.          *)
RequestStop(p) ==
  /\ At(p, "request") /\ lease = Nobody /\ AskToStop /\ Return(p)
  /\ LET next == [session EXCEPT !.state = "stopping"]
     IN IF Valid(next) THEN session' = next /\ watch' = [watch EXCEPT ![p] = TRUE]
        ELSE UNCHANGED <<session, watch>>
  /\ UNCHANGED <<pkg, probe, lease, TaskRest>>

Stop(p) ==
  /\ At(p, "stop") /\ lease = Nobody
  /\ IF session.state \in Active /\ IsAlive(session)
     THEN lease' = p /\ task' = [task EXCEPT ![p].at = "ensure", ![p].then = "stopping"]
     ELSE Go(p, "wait") /\ UNCHANGED lease
  /\ UNCHANGED <<disk, probe, watch, TaskRest>>

(* requiredOwner, and the request inside the queue.                        *)
Stopping(p) ==
  /\ At(p, "stopping") /\ lease = p
  /\ IF OwnerLive /\ owner.token = session.token
     THEN /\ queue = Nobody /\ Go(p, "wait")
          /\ IF session.state \in Active /\ IsAlive(session)
             THEN AskToStop /\ session' = [session EXCEPT !.state = "stopping"]
             ELSE UNCHANGED <<stopFile, session>>
     ELSE Return(p) /\ UNCHANGED <<stopFile, session>>
  /\ lease' = Nobody
  /\ UNCHANGED <<pkg, probe, watch, TaskRest>>

(* Fifteen seconds for the helper to end.                                  *)
Wait(p) ==
  /\ At(p, "wait")
  /\ \/ ~IsAlive(session) /\ task' = [task EXCEPT ![p] = Settling("stop")]
     \/ IsAlive(session) /\ Return(p)
  /\ UNCHANGED <<disk, probe, lease, watch, TaskRest>>

-----------------------------------------------------------------------------
(* settle.                                                                 *)
Settle(p) ==
  /\ At(p, "settle") /\ lease = Nobody
  /\ \/ /\ session.state \in Terminal /\ session.pending
        /\ lease' = p /\ Go(p, "restore") /\ UNCHANGED <<owner, watch>>
     \/ /\ session.state \in Terminal /\ ~session.pending
        /\ owner' = Released(p, session.token) /\ Return(p) /\ UNCHANGED <<lease, watch>>
     \/ /\ session.state \in Active /\ IsAlive(session)
        /\ Return(p) /\ UNCHANGED <<owner, lease>>
        /\ watch' = [watch EXCEPT ![p] = @ /\ task[p].op # "monitor"]
     \/ /\ session.state \in Active /\ ~IsAlive(session)
        /\ lease' = p /\ task' = [task EXCEPT ![p].at = "journal", ![p].token = session.token]
        /\ UNCHANGED <<owner, watch>>
  /\ UNCHANGED <<disk, claims, queue, TaskRest>>

(* What the result of the helper, its duration and the journals make of it.*)
Ends ==
  CASE helper.result = "ok" -> {"completed", "interrupted", "failed"}
    [] helper.result = "stopped" -> {"stopped", "interrupted"}
    [] helper.result = "error" -> {"failed", "interrupted"}
    [] helper.result = "none" -> {"interrupted", "failed"}

(* The closing events; a journal that has ended takes none.                *)
EndJournal(p) ==
  /\ At(p, "journal")
  /\ \/ /\ pkg.journal = "active" /\ UNCHANGED faults
        /\ \E end \in Ends : /\ pkg' = [pkg EXCEPT !.journal = end]
                             /\ task' = [task EXCEPT ![p].at = "seal", ![p].state = end]
     \/ /\ IF pkg.journal = "active" THEN Fault ELSE UNCHANGED faults
        /\ task' = [task EXCEPT ![p].at = "write", ![p].state = "failed"] /\ UNCHANGED pkg
  /\ UNCHANGED <<session, stopFile, probe, lease, helper, target, young, up, watch, start>>

SealOrNot(p) ==
  /\ At(p, "seal") /\ Go(p, "write")
  /\ \/ pkg' = [pkg EXCEPT !.sealed = TRUE] /\ UNCHANGED faults
     \/ Fault /\ UNCHANGED pkg
  /\ UNCHANGED <<session, stopFile, probe, lease, helper, target, young, up, watch, start>>

(* capture.json and the sealed file.                                       *)
Seal(p) ==
  /\ At(p, "seal")
  /\ \/ pkg' = [pkg EXCEPT !.sealed = TRUE] /\ Go(p, "write") /\ UNCHANGED faults
     \/ /\ Fault /\ UNCHANGED pkg
        /\ task' = [task EXCEPT ![p].at = "write", ![p].state = "failed"]
  /\ UNCHANGED <<session, stopFile, probe, lease, helper, target, young, up, watch, start>>

(* The record written is the one read when the settling began.             *)
WriteTerminal(p) ==
  /\ At(p, "write")
  /\ LET next == [session EXCEPT !.state = task[p].state, !.token = task[p].token, !.pending = TRUE]
     IN IF Valid(next)
        THEN /\ session' = next /\ UNCHANGED <<lease, watch>>
             /\ task' = [task EXCEPT ![p] = [Doing("restore", task[p].op) EXCEPT !.then = "written"]]
        ELSE /\ UNCHANGED session /\ Return(p) /\ lease' = Nobody
             /\ watch' = [watch EXCEPT ![p] = @ /\ task[p].op # "monitor"]
  /\ UNCHANGED <<stopFile, pkg, probe, TaskRest>>

(* settleTargetStateAndOwner: the queue is entered past the owner of this  *)
(* capture that was visible before.                                        *)
EnterQueue(p) ==
  /\ At(p, "restore") /\ queue = Nobody /\ queue' = p /\ Go(p, "verify")
  /\ UNCHANGED <<disk, owner, claims, lease, watch, TaskRest>>

(* A monitor that settles a session it found active gives up at an error;  *)
(* one that found it terminal comes back.                                  *)
Verify(p) ==
  /\ At(p, "verify") /\ Restore
  /\ session' = [session EXCEPT !.pending = FALSE]
  /\ owner' = IF owner.token = session.token THEN Released(p, session.token) ELSE owner
  /\ queue' = Nobody /\ lease' = Nobody /\ Return(p)
  /\ watch' = [watch EXCEPT ![p] = @ /\ task[p].op # "monitor"]
  /\ UNCHANGED <<stopFile, pkg, claims, helper, young, faults, up, start>>

VerifyFailsForGood(p) ==
  /\ At(p, "verify") /\ Fault
  /\ session' = [session EXCEPT !.state = "failed", !.pending = FALSE]
  /\ queue' = Nobody /\ lease' = Nobody /\ Return(p)
  /\ UNCHANGED <<stopFile, pkg, owner, claims, helper, target, young, up, watch, start>>

VerifyFails(p) ==
  /\ At(p, "verify") /\ Fault
  /\ queue' = Nobody /\ lease' = Nobody /\ Return(p)
  /\ watch' = [watch EXCEPT ![p] = @ /\ (task[p].op # "monitor" \/ task[p].then # "written")]
  /\ UNCHANGED <<disk, owner, claims, helper, target, young, up, start>>

-----------------------------------------------------------------------------
Dies(p) ==
  /\ up[p] /\ Fault
  /\ up' = [up EXCEPT ![p] = FALSE] /\ watch' = [watch EXCEPT ![p] = FALSE]
  /\ task' = [task EXCEPT ![p] = NoTask]
  /\ start' = IF p = Starter /\ start.at \notin {"done"} \cup NotStarted THEN NotStarting("dead") ELSE start
  /\ queue' = IF queue = p \/ (p = Starter /\ queue = Launcher) THEN Nobody ELSE queue
  /\ lease' = IF lease = p THEN Nobody ELSE lease
  /\ UNCHANGED <<disk, owner, claims, helper, target, young>>

(* A server that starts monitors what it finds unsettled.                  *)
Restart(p) ==
  /\ ~up[p] /\ up' = [up EXCEPT ![p] = TRUE]
  /\ watch' = [watch EXCEPT ![p] = session.state \in Active \/ session.pending]
  /\ UNCHANGED <<disk, probe, lease, world, start, task>>

HelperSteps == HelperNames \/ HelperReady \/ HelperEnds \/ HelperDies \/ HelperHangs
Steps(p) ==
  \/ Reconcile(p) \/ EnsureOwner(p) \/ EnsureRefused(p) \/ RequestStop(p) \/ Stop(p)
  \/ Stopping(p) \/ Wait(p) \/ Settle(p) \/ EndJournal(p) \/ Seal(p) \/ WriteTerminal(p)
  \/ EnterQueue(p) \/ Verify(p)
Next ==
  \/ HelperSteps \/ Ages \/ StartSteps
  \/ \E p \in Servers : \/ Call(p) \/ Monitor(p) \/ Steps(p) \/ VerifyFails(p)
                        \/ Dies(p) \/ Restart(p)

(* Node runs what it has begun; a helper that neither dies nor hangs gets  *)
(* on with the capture; the lease and the queue are first come first       *)
(* served, hence strong fairness for those who wait for them.              *)
Fairness == /\ WF_vars(HelperSteps /\ ~HelperDies /\ ~HelperHangs)
            /\ WF_vars(StartSteps)
            /\ \A p \in Servers : WF_vars(Monitor(p)) /\ SF_vars(Steps(p))

Spec == Init /\ [][Next]_vars /\ Fairness

-----------------------------------------------------------------------------
(* Types; and no record is on disk that the session store would refuse.    *)
TypeOK ==
  /\ session \in [state : Active \cup Terminal \cup {"none"}, pid : {0, 1},
                 token : 0 .. MaxClaims, pending : BOOLEAN]
  /\ Valid(session) \/ session.state = "none"
  /\ pkg \in [journal : Terminal \cup {"active", "none"}, sealed : BOOLEAN]
  /\ helper \in [is : Living \cup {"none", "dead"}, named : BOOLEAN,
                result : {"none", "ok", "stopped", "error"}]
  /\ owner.token \in 0 .. claims /\ (owner.token # 0 => owner.by \in Servers)
  /\ queue \in Servers \cup {Nobody, Launcher} /\ lease \in Servers \cup {Nobody}
  /\ \A p \in Servers : task[p].at # "idle" => up[p]
  /\ target \in {"found", "changed"} /\ faults \in 0 .. MaxFaults

(* While the helper runs the probe is taken, whichever servers die, take   *)
(* over or settle: by a live owner record, or by hss_start in the queue.   *)
(* The one gap is a server that dies between the launch and the claim.     *)
(* Nobody works on the target in the queue meanwhile.                      *)
ProbeTakenWhileHelperRuns ==
  HelperRuns => /\ \/ OwnerLive
                   \/ claims = 0 /\ (queue = Launcher \/ start.at = "dead")
                /\ \A p \in Servers : task[p].at # "verify"

(* A capture that has ended and claims nothing more to restore has left    *)
(* the target as hss_start found it, and its helper is gone.               *)
TargetLeftAsFound ==
  session.state \in Terminal /\ ~session.pending => target = "found" /\ ~HelperRuns

(* An hss_start that is refused, planned or handed on to polling has left  *)
(* the target as it found it, whatever closing the memory session and the  *)
(* capability helper did to it, and has the queue given back; otherwise it *)
(* reports an unknown state.  (A look that fails says neither.)            *)
RefusedLeavesTarget ==
  start.at \in NotStarted => /\ queue # Launcher /\ session.state = "none"
                             /\ (start.at \in {"refused", "polls", "planned"} => target = "found")

(* Probe and target are safe with a capture: while it is prepared, while   *)
(* it runs and when it has ended.                                          *)
CaptureSound ==
  TypeOK /\ RefusedLeavesTarget /\ ProbeTakenWhileHelperRuns /\ TargetLeftAsFound

(* What the session says is what the package says: a capture recorded as   *)
(* completed, stopped or interrupted has ended so in its journal and is    *)
(* sealed.  (A failed session may hide a package that ended otherwise.)    *)
SessionAgreesWithPackage ==
  session.state \in {"completed", "stopped", "interrupted"} =>
    pkg = [journal |-> session.state, sealed |-> TRUE]

(* A capture whose helper ends is settled by the server that started it,   *)
(* or restarted meanwhile, if it monitors the capture and lives, once the  *)
(* probe was claimed for it.  (The monitor gives up on a record without an *)
(* owner token, and on a helper that hangs.)                               *)
CaptureSettles ==
  (session.state \in Active /\ session.token # 0 /\ watch[Starter] /\ start.at \in {"done", "dead"})
    ~> (session.state \in Terminal \/ ~up[Starter] \/ helper.is = "hung")

=============================================================================
