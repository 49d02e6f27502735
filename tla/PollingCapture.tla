-------------------------- MODULE PollingCapture --------------------------
(***************************************************************************)
(* A capture that reads its variables one by one through the memory        *)
(* session of the server (polling-capture.ts): where the Probe cannot      *)
(* sample by itself, in the background of the running target or, if that   *)
(* fails, in short pauses of it.                                           *)
(*                                                                         *)
(* One job lives in the memory of one server.  Between its samples callers *)
(* write variables and resume the target through the same session; the job *)
(* ends at its deadline, on a stop request or on an error, waits for those *)
(* callers, closes the session, proves with a second session that closing  *)
(* left the target as it was, and seals the package.  Other operations of  *)
(* the server close the session or open another meanwhile.  If the server  *)
(* dies, whoever asks for the capture next seals what is there; one of     *)
(* another server does so while the job still runs.  The staged package is *)
(* JcapPackage's, the memory session MemorySession's.                      *)
(***************************************************************************)
EXTENDS Naturals, FiniteSets

CONSTANTS None,
          Calls,       (* writes and resumes from outside the job           *)
          Askers,      (* hss_status, hss_stop, the monitor: each once      *)
          MaxSamples,  (* bound on the samples of the capture               *)
          MaxFaults    (* bound on deaths and on failed writes of files     *)

CpuStates == {"running", "halted"}
Terminal == {"completed", "stopped", "interrupted", "failed"}
Installations == {1, 2}
Failures == {None, "known", "unknown", "sealing"}

(* What the final file holds, and which of the two who can seal made it.   *)
FinalFile == [state : Terminal, by : {"job", "asker"},
              writes : SUBSET Calls, samples : 0 .. MaxSamples]

ASSUME PollingCaptureConstantsOK ==
  /\ MaxSamples \in Nat /\ MaxFaults \in Nat
  /\ IsFiniteSet(Calls) /\ {None, "job"} \cap Calls = {}
  /\ None \notin Installations /\ None \notin {"job", "known", "unknown", "sealing"}
  /\ None \notin CpuStates \cup Terminal /\ None \notin FinalFile

VARIABLES
  job,      (* the job, or where it is gone                                *)
  call,     (* the calls from outside                                      *)
  asker,    (* who seals a capture that has no job                         *)
  probe,    (* who is executing in the queue of the Probe                  *)
  owner,    (* is the memory session open, and from which installation?    *)
  disturbs, (* which installations change the target's state as they close *)
  target,   (* running or halted                                           *)
  wanted,   (* the states a caller may expect to find it in                *)
  unsaid,   (* it left them, and the job cannot tell; no action reads this *)
  session,  (* the record of the capture                                   *)
  raw,      (* the staged package                                          *)
  file,     (* the final file                                              *)
  faults

cpu == <<target, wanted, unsaid, disturbs>>
disk == <<session, raw, file>>
pollingVars == <<job, call, asker, probe, owner, cpu, disk, faults>>

Other(s) == IF s = "running" THEN "halted" ELSE "running"
NoJob == [at |-> "gone", stop |-> FALSE, accepting |-> FALSE, error |-> None,
          pauses |-> FALSE, owns |-> TRUE, closed |-> None, expected |-> None, ends |-> None]
NoCall == [at |-> "idle", issued |-> FALSE, lost |-> FALSE]

PollingInit ==
  /\ job = [NoJob EXCEPT !.at = "start"]
  /\ call = [c \in Calls |-> NoCall] /\ asker = [a \in Askers |-> [at |-> "idle", early |-> FALSE]]
  /\ probe = None /\ owner = 1 /\ disturbs \in SUBSET Installations
  /\ target \in CpuStates /\ wanted = {target} /\ unsaid = FALSE
  /\ session = [state |-> "none", error |-> None]
  /\ raw = [samples |-> 0, last |-> "active", meta |-> "active", sound |-> TRUE,
            writes |-> {}, staged |-> TRUE]
  /\ file = None /\ faults = 0

Fault == faults < MaxFaults /\ faults' = faults + 1
Goto(at) == job' = [job EXCEPT !.at = at]
Active == job.at # "gone"
OperationsEver == {c \in Calls : call[c].at # "idle"}
Operations == {c \in Calls : call[c].at \in {"begun", "runs", "done"}}
SessionActive == session.state \in {"capturing", "stopping"}

(* What closes a memory session puts the target into: what it was, or what *)
(* releasing it with that installation of the J-Link software makes of it. *)
Release(s) == IF owner \in disturbs THEN Other(s) ELSE s

(* withProbe: the session still has the token that is in the record.       *)
Owned == owner # None /\ job.owns

(* probeFor, inside the queue: that session; or, where it turns out to be  *)
(* of no use, another, opened after the one at hand is closed.             *)
Sessions ==
  {[owner |-> owner, owns |-> job.owns, target |-> target]}
    \cup {[owner |-> i, owns |-> FALSE, target |-> Release(target)] : i \in Installations}

Unseen(s) == unsaid' = (unsaid \/ s \notin wanted)

(* A write of an event that fails may leave a part of it in the journal;   *)
(* metadata have no place once an asker has cleared the package away.      *)
FileFault == IF raw.staged THEN Fault ELSE UNCHANGED faults
TornEvent == raw' \in {raw, [raw EXCEPT !.sound = FALSE]}

-----------------------------------------------------------------------------
(* With the memory session open: the package, the record, the job.  What   *)
(* fails takes the package back and closes the session.                    *)
JobStarts ==
  /\ job.at = "start" /\ job' = [job EXCEPT !.at = "poll", !.accepting = TRUE]
  /\ session' = [session EXCEPT !.state = "capturing"]
  /\ UNCHANGED <<call, asker, probe, owner, cpu, raw, file, faults>>

StartFails ==
  /\ job.at = "start" /\ Fault /\ job' = NoJob /\ owner' \in {owner, None}
  /\ target' = Release(target) /\ raw' = [raw EXCEPT !.staged = FALSE]
  /\ UNCHANGED <<call, asker, probe, wanted, unsaid, disturbs, session, file>>

(* Another operation of the server closes the session to use the Probe by  *)
(* other means, or it idles for too long, or its process ends; an access   *)
(* of the memory opens one again, under another token.                     *)
Between == job.at \in {"start", "poll", "again", "drain", "close"} /\ probe = None

SessionGoes ==
  /\ Between /\ owner # None /\ owner' = None /\ target' \in {target, Release(target)}
  /\ UNCHANGED <<job, call, asker, probe, wanted, unsaid, disturbs, disk, faults>>

Reopens ==
  /\ Between /\ owner = None /\ owner' \in Installations
  /\ job' = [job EXCEPT !.owns = FALSE] /\ Unseen(target)
  /\ UNCHANGED <<call, asker, probe, target, wanted, disturbs, disk, faults>>

(* The loop.  An error that leaves the state of the target in doubt, or    *)
(* the loss of the session, ends it, as does a journal that takes no more; *)
(* another costs a sample.                                                 *)
Ends(j, error) ==
  [j EXCEPT !.at = "drain", !.accepting = FALSE,
            !.error = IF error = None THEN @ ELSE error]

LoopEnds ==
  /\ job.at = "poll" /\ job' = Ends(job, None)
  /\ UNCHANGED <<call, asker, probe, owner, cpu, disk, faults>>

LoopFails ==
  /\ job.at = "poll" /\ FileFault /\ job' = Ends(job, "known")
  /\ UNCHANGED <<call, asker, probe, owner, cpu, disk>>

(* In a pause, the target is halted first, whether or not that is said to  *)
(* have succeeded; one that was halted already is only read.               *)
SampleBeginsUnqueued ==
  /\ job.at \in {"poll", "again"} /\ (job.at = "again" \/ ~job.stop)
  /\ raw.samples < MaxSamples /\ Owned
  /\ probe' = "job"
  /\ \E s \in Sessions :
       /\ owner' = s.owner /\ Unseen(s.target)
       /\ IF job.pauses /\ s.target = "running"
          THEN job' = [job EXCEPT !.at = "pause", !.owns = s.owns] /\ target' \in CpuStates
          ELSE job' = [job EXCEPT !.at = "read", !.owns = s.owns] /\ target' = s.target
  /\ UNCHANGED <<call, asker, wanted, disturbs, disk, faults>>

SampleBegins == probe = None /\ SampleBeginsUnqueued

OwnerLost ==
  /\ job.at \in {"poll", "again"} /\ (job.at = "again" \/ ~job.stop) /\ ~Owned
  /\ job' = Ends(job, "unknown")
  /\ UNCHANGED <<call, asker, probe, owner, cpu, disk, faults>>

Took == raw' = [raw EXCEPT !.samples = @ + 1]

(* A background read that fails is repeated in a pause, now and from then  *)
(* on; unless the event that says so, or the record, cannot be written.    *)
ReadEnds ==
  /\ job.at = "read" /\ probe' = None
  /\ \/ Took /\ Goto("poll") /\ UNCHANGED faults
     \/ /\ UNCHANGED <<raw, faults>>
        /\ job' = IF job.pauses THEN [job EXCEPT !.at = "poll"]
                  ELSE [job EXCEPT !.at = "again", !.pauses = TRUE]
     \/ ~job.pauses /\ Fault /\ TornEvent /\ job' = [job EXCEPT !.at = "poll", !.pauses = TRUE]
     \/ UNCHANGED <<raw, faults>> /\ job' = Ends(job, "unknown")
  /\ UNCHANGED <<call, asker, owner, cpu, session, file>>

(* A pause ends with a resume that must be seen to have worked; that is    *)
(* judged after the event of the pause is in the journal, and an event     *)
(* that cannot be written is one more sample lost, whatever the resume did.*)
PauseEnds ==
  /\ job.at = "pause" /\ probe' = None
  /\ \/ target' = "running" /\ Took /\ Goto("poll") /\ UNCHANGED <<unsaid, faults>>
     \/ target' = "running" /\ Goto("poll") /\ UNCHANGED <<raw, unsaid, faults>>
     \/ target' \in CpuStates /\ job' = Ends(job, "unknown") /\ UNCHANGED <<raw, unsaid, faults>>
     \/ target' \in CpuStates /\ Goto("poll") /\ Fault /\ TornEvent /\ Unseen(target')
  /\ UNCHANGED <<call, asker, owner, wanted, disturbs, session, file>>

(* Once a second, and with every call, the job writes its own metadata     *)
(* over what is there: an asker's may be.                                  *)
Syncs ==
  /\ job.at = "poll" /\ raw.staged /\ raw' = [raw EXCEPT !.meta = "active"]
  /\ UNCHANGED <<job, call, asker, probe, owner, cpu, session, file, faults>>

(* stop: the flag, and the record.                                         *)
Stop ==
  /\ Active /\ ~job.stop /\ SessionActive
  /\ job' = [job EXCEPT !.stop = TRUE] /\ session' = [session EXCEPT !.state = "stopping"]
  /\ UNCHANGED <<call, asker, probe, owner, cpu, raw, file, faults>>

-----------------------------------------------------------------------------
(* The calls from outside: counted in, executed in the queue, their event  *)
(* appended to the journal, counted out.                                   *)
CallBegins(c) ==
  /\ call[c].at = "idle" /\ job.accepting /\ session.state = "capturing"
  /\ call' = [call EXCEPT ![c].at = "begun"]
  /\ UNCHANGED <<job, asker, probe, owner, cpu, disk, faults>>

CallRefused(c) ==
  /\ call[c].at = "begun" /\ probe = None /\ ~Owned
  /\ call' = [call EXCEPT ![c].at = "done"]
  /\ UNCHANGED <<job, asker, probe, owner, cpu, disk, faults>>

(* The state of the target is observed before a write; then the write is   *)
(* dispatched, or not.                                                     *)
WriteRuns(c) ==
  /\ call[c].at = "begun" /\ probe = None /\ Owned /\ probe' = c
  /\ \E s \in Sessions :
       /\ owner' = s.owner /\ target' = s.target /\ Unseen(s.target)
       /\ job' = [job EXCEPT !.owns = s.owns]
  /\ \E issued \in BOOLEAN : call' = [call EXCEPT ![c].at = "runs", ![c].issued = issued]
  /\ UNCHANGED <<asker, wanted, disturbs, disk, faults>>

(* It is read back, restored if so asked, and the target observed again; a *)
(* command that fails for good takes the session with it.                  *)
WriteEnds(c) ==
  /\ call[c].at = "runs" /\ probe' = None /\ call' = [call EXCEPT ![c].at = "done"]
  /\ \/ UNCHANGED <<owner, target>>
     \/ owner' = None /\ target' \in {target, Release(target)}
  /\ UNCHANGED <<job, asker, wanted, unsaid, disturbs, disk, faults>>

(* A halted target is resumed; one resumed without being seen to run is    *)
(* reported as unknown to that caller.                                     *)
Resumes(c) ==
  /\ call[c].at = "begun" /\ probe = None /\ Owned
  /\ \E s \in Sessions :
       s.target = "halted" /\ owner' = s.owner /\ job' = [job EXCEPT !.owns = s.owns]
  /\ \/ target' = "running" /\ wanted' = {"running"}
     \/ target' \in CpuStates /\ wanted' = CpuStates
  /\ unsaid' = FALSE
  /\ call' = [call EXCEPT ![c].at = "done", ![c].issued = TRUE]
  /\ UNCHANGED <<asker, probe, disturbs, disk, faults>>

(* Once an asker has put an end to the journal, what is appended behind it *)
(* is not read.                                                            *)
Ended == raw.last \in Terminal

Record(c) ==
  /\ call[c].at = "done" /\ Active /\ raw.staged
  /\ raw' = [raw EXCEPT !.writes = IF Ended THEN @ ELSE @ \cup {c}, !.meta = "active"]
  /\ call' = [call EXCEPT ![c].at = "told"]
  /\ UNCHANGED <<job, asker, probe, owner, cpu, session, file, faults>>

RecordFails(c) ==
  /\ call[c].at = "done" /\ FileFault /\ TornEvent
  /\ call' = [call EXCEPT ![c].at = "told", ![c].lost = TRUE]
  /\ UNCHANGED <<job, asker, probe, owner, cpu, session, file>>

-----------------------------------------------------------------------------
(* The end of the job: no call comes in any more, those inside finish.     *)
DrainsAtOnce ==
  /\ job.at = "drain" /\ Goto("close")
  /\ UNCHANGED <<call, asker, probe, owner, cpu, disk, faults>>

Drains ==
  /\ job.at = "drain" /\ Operations = {} /\ Goto("close")
  /\ UNCHANGED <<call, asker, probe, owner, cpu, disk, faults>>

Doubt == job' = [job EXCEPT !.error = "unknown", !.at = "finalize"]

CloseUnobserved ==
  /\ job.at = "close" /\ owner = None /\ Doubt
  /\ UNCHANGED <<call, asker, probe, owner, cpu, disk, faults>>

(* Closed, with the state it had before; or that could not be observed, or *)
(* the end of the session's process not be confirmed.  Whose token the     *)
(* session has is not asked.                                               *)
Close ==
  /\ job.at = "close" /\ probe = None /\ owner # None
  /\ target' = Release(target) /\ owner' = None
  /\ \/ /\ job' = [job EXCEPT !.closed = owner, !.expected = target, !.at = "observe"]
        /\ probe' = "job"
     \/ Doubt /\ UNCHANGED probe
  /\ UNCHANGED <<call, asker, wanted, unsaid, disturbs, disk, faults>>

(* observePollingTargetHealth: its state, and on a Cortex-M core that it   *)
(* goes on without a fault.                                                *)
Unhealthy == job' = [job EXCEPT !.error = "unknown", !.at = "release"]

(* A session opened anew sees the target as it was, and healthy; or not,   *)
(* and then restores it.  What is installed may have been replaced.        *)
Observe ==
  /\ job.at = "observe"
  /\ \/ /\ owner' \in Installations
        /\ \/ target = job.expected /\ Goto("release") /\ UNCHANGED target
           \/ Unhealthy /\ UNCHANGED target
           \/ /\ target # job.expected /\ target' \in CpuStates
              /\ Unhealthy
        /\ UNCHANGED probe
     \/ Doubt /\ probe' = None /\ UNCHANGED <<owner, target>>
  /\ UNCHANGED <<call, asker, wanted, unsaid, disturbs, disk, faults>>

(* The observer is closed as the session was: what that closing did to the *)
(* target, this one does, provided it is the same installation.            *)
ReleaseUnqualified ==
  /\ job.at = "release" /\ probe' = None /\ owner' = None /\ target' = Release(target)
  /\ \/ Goto("finalize")
     \/ Doubt
  /\ UNCHANGED <<call, asker, wanted, unsaid, disturbs, disk, faults>>

ReleaseObserver ==
  /\ job.at = "release" /\ probe' = None /\ owner' = None /\ target' = Release(target)
  /\ \/ owner = job.closed /\ target = job.expected /\ Goto("finalize")
     \/ Doubt
  /\ UNCHANGED <<call, asker, wanted, unsaid, disturbs, disk, faults>>

Broken == IF raw.samples > 0 THEN "interrupted" ELSE "failed"
Outcome ==
  IF job.error # None THEN Broken ELSE IF job.stop THEN "stopped" ELSE "completed"

(* The last events and the metadata; then the final file, built beside it; *)
(* then the record.  An error of the first two replaces the one the job    *)
(* ended with, and its doubt about the target.  The journal is read back   *)
(* for the metadata; where an asker has ended it, with the same outcome    *)
(* and the asker's count of lost samples.  The final file is tried in any  *)
(* case, and made if the metadata say that the capture has ended.          *)
JournalAgrees == raw.staged /\ raw.sound /\ (Ended => raw.last = Outcome)

Finalize ==
  /\ job.at = "finalize" /\ JournalAgrees /\ job' = [job EXCEPT !.at = "seal", !.ends = Outcome]
  /\ \E same \in BOOLEAN :
       /\ ~Ended => same
       /\ raw' = [raw EXCEPT !.last = Outcome, !.meta = Outcome, !.sound = same]
  /\ UNCHANGED <<call, asker, probe, owner, cpu, session, file, faults>>

FinalizeFails ==
  /\ job.at = "finalize" /\ (IF JournalAgrees THEN Fault ELSE UNCHANGED faults)
  /\ job' = [job EXCEPT !.at = "seal", !.ends = Broken, !.error = "sealing"]
  /\ raw' \in IF Ended THEN {raw} ELSE {raw, [raw EXCEPT !.last = "finalizing"], [raw EXCEPT !.last = Outcome]}
  /\ UNCHANGED <<call, asker, probe, owner, cpu, session, file>>

Contents(by) == [state |-> raw.meta, by |-> by, writes |-> raw.writes, samples |-> raw.samples]

Sealable == raw.staged /\ raw.sound /\ raw.meta \in Terminal

Seal ==
  /\ job.at = "seal" /\ Sealable /\ Goto("publish") /\ file' = Contents("job")
  /\ UNCHANGED <<call, asker, probe, owner, cpu, session, raw, faults>>

SealFails ==
  /\ job.at = "seal" /\ (IF Sealable THEN Fault ELSE UNCHANGED faults)
  /\ job' = [job EXCEPT !.at = "publish", !.ends = Broken, !.error = "sealing"]
  /\ UNCHANGED <<call, asker, probe, owner, cpu, disk>>

Publish ==
  /\ job.at = "publish" /\ job' = NoJob
  /\ session' = [state |-> job.ends, error |-> job.error]
  /\ raw' = [raw EXCEPT !.staged = @ /\ file = None]
  /\ UNCHANGED <<call, asker, probe, owner, cpu, file, faults>>

(* The rejection of the job is handled nowhere: the server dies.           *)
ServerDies ==
  /\ Active /\ Fault /\ job' = NoJob
  /\ call' = [c \in Calls |-> IF c \in Operations THEN [call[c] EXCEPT !.at = "told", !.lost = TRUE]
                              ELSE call[c]]
  /\ probe' = None /\ owner' = None
  /\ target' \in {target, IF owner = None THEN target ELSE Release(target)}
  /\ UNCHANGED <<asker, wanted, unsaid, disturbs, disk>>

-----------------------------------------------------------------------------
(* reconcileOrphan, of a server that does not have the job, whether or not *)
(* another has it.  Its quality event counts every sample as missing, its  *)
(* metadata none: the package is refused by every later reader unless      *)
(* there was no sample.                                                    *)
Lost == session' = [state |-> "failed", error |-> "unknown"]
Asks(a, at) == asker' = [asker EXCEPT ![a] = [at |-> at, early |-> Active]]

Reconcile(a) ==
  /\ asker[a].at = "idle" /\ SessionActive
  /\ IF raw.staged /\ raw.sound /\ raw.meta = "active" /\ raw.last \in {"active", "finalizing"}
     THEN /\ raw' = [raw EXCEPT !.last = "interrupted", !.meta = "interrupted",
                                !.sound = raw.samples = 0]
          /\ IF raw.samples = 0
             THEN Asks(a, "seals") /\ UNCHANGED session
             ELSE Asks(a, "done") /\ Lost
     ELSE Asks(a, "done") /\ Lost /\ UNCHANGED raw
  /\ UNCHANGED <<job, call, probe, owner, cpu, file, faults>>

Reconciled(a) ==
  /\ asker[a].at = "seals" /\ asker' = [asker EXCEPT ![a].at = "done"]
  /\ \/ /\ Sealable
        /\ file' = Contents("asker") /\ raw' = [raw EXCEPT !.staged = FALSE]
        /\ session' = [state |-> "interrupted", error |-> "unknown"] /\ UNCHANGED faults
     \/ /\ IF Sealable THEN Fault ELSE UNCHANGED faults
        /\ Lost /\ UNCHANGED <<raw, file>>
  /\ UNCHANGED <<job, call, probe, owner, cpu>>

-----------------------------------------------------------------------------
JobSteps ==
  \/ JobStarts \/ StartFails \/ LoopEnds \/ LoopFails \/ SampleBegins \/ OwnerLost \/ ReadEnds \/ PauseEnds \/ Drains
  \/ CloseUnobserved \/ Close \/ Observe \/ ReleaseObserver
  \/ Finalize \/ FinalizeFails \/ Seal \/ SealFails \/ Publish
CallSteps(c) ==
  \/ CallRefused(c) \/ WriteRuns(c) \/ WriteEnds(c) \/ Resumes(c) \/ Record(c) \/ RecordFails(c)
AskerSteps == \E a \in Askers : Reconcile(a) \/ Reconciled(a)
PollingNext == \/ JobSteps \/ Stop \/ ServerDies \/ AskerSteps \/ SessionGoes \/ Reopens \/ Syncs
        \/ \E c \in Calls : CallBegins(c) \/ CallSteps(c)

(* The job goes on, samples only until its deadline; the calls inside go   *)
(* on; and a server that starts looks after the captures it finds active.  *)
Fairness == /\ WF_pollingVars(JobSteps) /\ SF_pollingVars(LoopEnds) /\ WF_pollingVars(AskerSteps)
            /\ \A c \in Calls : WF_pollingVars(CallSteps(c))

PollingSpec == PollingInit /\ [][PollingNext]_pollingVars /\ Fairness

-----------------------------------------------------------------------------
(* Types; the queue belongs to whoever is at work in it; a job that has    *)
(* begun to close has no call inside.                                      *)
PollingTypeOK ==
  /\ job.error \in Failures /\ target \in CpuStates /\ wanted \subseteq CpuStates
  /\ session.state \in Terminal \cup {"none", "capturing", "stopping"}
  /\ raw.samples \in 0 .. MaxSamples /\ raw.writes \subseteq Calls
  /\ unsaid \in BOOLEAN
  /\ probe = "job" <=> job.at \in {"read", "pause", "observe", "release"}
  /\ \A c \in Calls : probe = c <=> call[c].at = "runs"
  /\ faults \in 0 .. MaxFaults

(* A capture whose record does not say that the state is unknown leaves    *)
(* the target as it found it, or as a caller resumed it: after pauses,     *)
(* after a session that disturbs it as it closes, after a server that died *)
(* in a pause.  Two things escape the job, and are left out: a pause that  *)
(* did not end with the target running, and whose event could not be       *)
(* written; and what the end of a session did that was replaced by another *)
(* before the job could miss it.  The error of a sealing that failed takes *)
(* the place of any doubt the job had.                                     *)
LeftAsFound ==
  session.state \in Terminal /\ session.error \in {None, "known"} => target \in wanted \/ unsaid

(* The same without what is left out, which the program does not keep; and *)
(* with installations that disturb nothing, where only the pause is left.  *)
AlwaysLeftAsFound ==
  session.state \in Terminal /\ session.error \in {None, "known"} => target \in wanted
QuietlyLeftAsFound == disturbs = {} => AlwaysLeftAsFound

(* A write or resume that reached the target during the capture is in the  *)
(* final file of the job, unless its own caller was told that the event    *)
(* was lost.                                                               *)
IssuedIsRecorded ==
  file # None /\ file.by = "job" =>
    \A c \in Calls : call[c].issued /\ ~call[c].lost => c \in file.writes

(* A final file of an asker holds every sample, too.                       *)
WholeRecord ==
  /\ IssuedIsRecorded
  /\ session.state \in Terminal /\ file # None => file.samples = raw.samples

(* A record that says completed or stopped has a final file; a final file  *)
(* says what the record says, unless that gave the capture up as failed,   *)
(* and the job's holds every sample: whoever else seals it, and when.      *)
SealedAsReported ==
  /\ session.state \in {"completed", "stopped"} => file # None
  /\ session.state \in Terminal /\ file # None =>
       /\ session.state \in {file.state, "failed"}
       /\ file.by = "job" => file.samples = raw.samples

(* An asker took the capture for an orphan while its job was alive.        *)
Taken == \E a \in Askers : asker[a].early

(* What the record and the final file say of a capture is what came of it; *)
(* only what was put into the journal after a server without the job ended *)
(* it under the job is lost.                                               *)
RecordSound == PollingTypeOK /\ SealedAsReported /\ (Taken \/ WholeRecord)

(* A capture ends, whatever dies: the job seals it, or who asks next.      *)
PollingEnds == <>[](~Active /\ ~SessionActive)
=============================================================================
