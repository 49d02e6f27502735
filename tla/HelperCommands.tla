--------------------------- MODULE HelperCommands ---------------------------
(***************************************************************************)
(* The one-shot commands of the native helper (hss_helper.cpp): the server *)
(* starts the helper with a command, the helper works through it against   *)
(* the vendor DLL and prints one answer. Modelled are "capture"            *)
(* (hss-capture), "getcaps", "preflight" (connect-preflight) and "control" *)
(* (cpu-control and target-state). They share the way in: load the DLL,    *)
(* select the probe, open it, set it up, connect; every failure gives back *)
(* what was taken so far and answers. A capture then guards the target's   *)
(* state, starts HSS, and reads records until its time, its samples, its   *)
(* bytes or a stop file end it.                                            *)
(*                                                                         *)
(* The vendor DLL is external: each call succeeds, fails or raises; a call *)
(* that touches the target may leave it in another state than it was.      *)
(* What memory requests do during a capture is module CaptureMemory; here  *)
(* only what they leave behind for the answer.                             *)
(***************************************************************************)
EXTENDS Integers, Sequences

CONSTANTS
    Rate,       \* requestedRateHz
    Requested,  \* the number of samples planned, requested_samples
    Times       \* the timestamps in ms that a record may carry

ASSUME RateAssumption == Rate \in 1..1000
ASSUME RequestedAssumption == Requested \in Nat \ {0}
ASSUME TimesAssumption == Times \subseteq Nat

VARIABLES
    job,      \* the command and its options
    phase,    \* what it does next
    held,     \* what it holds: the DLL, the probe, HSS, the samples file
    core,     \* what the target really does
    did,      \* the controls issued so far
    stop,     \* the stop file exists
    expired,  \* the planned duration is over
    seq,      \* record_sequence
    loop,     \* the counters and flags of the sampling loop
    written,  \* the slots of the records in the samples file, in order
    answer    \* what it printed

commandVars == <<job, phase, held, core, did, stop, expired, seq, loop, written, answer>>

States == {"running", "halted"}
Other(s) == IF s = "running" THEN "halted" ELSE "running"

(* A job: the command; the state the target is expected in; for a capture  *)
(* also whether it drains at the end, waits for a stable counter and wants *)
(* the first record to have index zero; for a control what it is to do.    *)
JobType ==
    [op: {"capture"}, state: States, drain: BOOLEAN, stable: BOOLEAN, zero: BOOLEAN]
        \cup [op: {"getcaps"}, state: States]
        \cup [op: {"preflight"}]
        \cup [op: {"control"}, act: {"look", "halt", "resume", "reset halt", "reset go"}]

Capture == job.op = "capture"

Nothing == [lib |-> FALSE, session |-> FALSE, hss |-> "off", raw |-> "none"]

NoAnswer == [kind |-> "none"]

NoRecord ==
    [has |-> FALSE, invalid |-> FALSE, last |-> 0, first |-> 0, lastSlot |-> 0,
     emitted |-> 0, dup |-> 0, gaps |-> 0, gapSlots |-> 0]

NoLoop ==
    [attempt |-> 0, left |-> 0, decoded |-> 0, crashed |-> FALSE, readError |-> FALSE,
     stopped |-> FALSE, budget |-> FALSE, rawFailed |-> FALSE, ipcFailed |-> FALSE,
     readyFailed |-> FALSE, memory |-> "none", resumed |-> FALSE]

CommandInit ==
    /\ job \in JobType
    /\ phase = "plan"
    /\ held = Nothing
    /\ core \in States
    /\ did = {}
    /\ stop = FALSE /\ expired = FALSE
    /\ seq = NoRecord /\ loop = NoLoop
    /\ written = <<>>
    /\ answer = NoAnswer

-----------------------------------------------------------------------------
(* Answers. "resume" is what the answer says of a resume: most errors do   *)
(* not mention it.                                                         *)
Error(unknown) ==
    [kind |-> "error", unknown |-> unknown, halt |-> FALSE, reset |-> FALSE,
     resume |-> "unsaid", restored |-> FALSE, after |-> "unsaid", quality |-> FALSE]

Quit(a) ==
    /\ answer' = a
    /\ phase' = "done"
    /\ held' = [held EXCEPT !.lib = FALSE, !.session = FALSE]

Still == UNCHANGED <<job, core, did, stop, expired, seq, loop, written>>

Go(p) == phase' = p /\ UNCHANGED answer

(* The plan or the options are read and checked; a capture publishes its   *)
(* pid file in the middle.                                                 *)
ReadPlan ==
    /\ phase = "plan"
    /\ \/ Go(IF job.op = "preflight" THEN "load" ELSE "trust") /\ UNCHANGED held
       \/ job.op # "preflight" /\ Quit(Error(FALSE))
    /\ Still

(* The script named, if any, must be the file its hash says.               *)
TrustScript ==
    /\ phase = "trust"
    /\ \/ Go(IF Capture THEN "manifest" ELSE "load") /\ UNCHANGED held
       \/ Quit(Error(FALSE))
    /\ Still

(* The manifest of the artifact must be the one of this plan and session.  *)
LoadManifest ==
    /\ phase = "manifest"
    /\ \/ Go("load") /\ UNCHANGED held
       \/ Quit(Error(FALSE))
    /\ Still

(* LoadLibrary, the hash of what was loaded, the exports, the version.     *)
Load ==
    /\ phase = "load"
    /\ \/ Go("select") /\ held' = [held EXCEPT !.lib = TRUE]
       \/ Quit(Error(FALSE))
    /\ Still

Select ==
    /\ phase = "select"
    /\ \/ Go("open") /\ UNCHANGED held
       \/ Quit(Error(FALSE))
    /\ Still

Open ==
    /\ phase = "open"
    /\ \/ Go("policy") /\ held' = [held EXCEPT !.session = TRUE]
       \/ Quit(Error(job.op = "getcaps"))
    /\ Still

(* The settings before the connection, in their order, and the phase after *)
(* each. A preflight forces an attach and takes no script.                 *)
NextSetting(s) ==
    CASE s = "policy" -> "gui"
      [] s = "gui" -> IF job.op = "preflight" THEN "attach" ELSE "device"
      [] s = "attach" -> "device"
      [] s = "device" -> IF job.op = "preflight" THEN "link" ELSE "script"
      [] s = "script" -> "link"
      [] s = "link" -> "connect"

SettingUnknown(s) ==
    \/ s \in {"policy", "attach", "link"}
    \/ s \in {"gui", "device"} /\ job.op \in {"preflight", "control"}

Setting ==
    /\ phase \in {"policy", "gui", "attach", "device", "script", "link"}
    /\ \/ Go(NextSetting(phase)) /\ UNCHANGED held
       \/ Quit(Error(SettingUnknown(phase)))
    /\ Still

(* The connection may disturb the target; then the serial is verified.     *)
Connect ==
    /\ phase = "connect"
    /\ core' \in States
    /\ \/ /\ UNCHANGED held
          /\ Go(CASE job.op \in {"capture", "getcaps"} -> "guard"
                  [] job.op = "preflight" -> "observe"
                  [] job.op = "control" -> "before")
       \/ \E unknown \in BOOLEAN : Quit(Error(unknown))
    /\ UNCHANGED <<job, did, stop, expired, seq, loop, written>>

-----------------------------------------------------------------------------
(* enforce_expected_target_state: the state must be what is expected; when *)
(* it is not the guard puts it back and fails all the same.                *)
Restorer(s) == IF s = "halted" THEN "halt" ELSE "resume"

Evidence(pass, unknown, restored, d, t) ==
    [pass |-> pass, unknown |-> unknown, restored |-> restored, did |-> d, target |-> t]

(* The state could not be read.                                            *)
Blind == Evidence(FALSE, TRUE, FALSE, {}, core)

RestoresUnread(s) == {Evidence(FALSE, FALSE, TRUE, {Restorer(s)}, t) : t \in States}

(* The control was issued, and what the target does was read again.        *)
Restores(s) ==
    {Evidence(FALSE, TRUE, FALSE, {Restorer(s)}, t) : t \in States}
        \cup {Evidence(FALSE, FALSE, TRUE, {Restorer(s)}, s)}

(* A capture does without the export that resumes.                         *)
NoExport(s) ==
    IF Capture /\ job.state = s /\ s = "running"
    THEN {Evidence(FALSE, FALSE, FALSE, {}, core)} ELSE {}

Guard(s) ==
    {Blind} \cup
        IF core = s THEN {Evidence(TRUE, FALSE, FALSE, {}, core)}
        ELSE Restores(s) \cup NoExport(s)

(* The error a failed guard prints.                                        *)
GuardError(g, unclean) ==
    [kind |-> "guard", unknown |-> g.unknown \/ unclean, halt |-> "halt" \in g.did, reset |-> FALSE,
     resume |-> IF "resume" \in g.did THEN "yes" ELSE "no",
     restored |-> g.restored, after |-> "unsaid", quality |-> FALSE]

Guarded(s, next) ==
    \E g \in Guard(s) :
        /\ core' = g.target
        /\ did' = did \cup g.did
        /\ IF g.pass THEN Go(next) /\ UNCHANGED held
           ELSE \E crashed \in BOOLEAN : Quit(GuardError(g, crashed))

Before ==
    /\ phase = "guard"
    /\ Guarded(job.state, IF Capture THEN "enter" ELSE "caps")
    /\ UNCHANGED <<job, stop, expired, seq, loop, written>>

(* getcaps: the call itself, and the guard after it.                       *)
Caps ==
    /\ phase = "caps"
    /\ core' \in States
    /\ \/ Go("caps guard") /\ UNCHANGED held
       \/ Quit(Error(FALSE))
    /\ UNCHANGED <<job, did, stop, expired, seq, loop, written>>

AfterCaps ==
    /\ phase = "caps guard"
    /\ Guarded(job.state, "caps close")
    /\ UNCHANGED <<job, stop, expired, seq, loop, written>>

Ok(after) == [Error(FALSE) EXCEPT !.kind = "ok", !.after = after]

CapsAnswer ==
    /\ phase = "caps close"
    /\ \/ \E unknown \in BOOLEAN : Quit(Error(unknown))
       \/ Quit(Ok(job.state))
    /\ Still

(* connect-preflight: what the target does, and the close.                 *)
Observe ==
    /\ phase = "observe"
    /\ \E a \in {Error(TRUE), Ok(core), Ok("unsaid")} : Quit(a)
    /\ Still

-----------------------------------------------------------------------------
(* cpu-control: the state before, the control, the state after.            *)
LookBefore ==
    /\ phase = "before"
    /\ \/ Go("act") /\ UNCHANGED held
       \/ Quit(Error(FALSE))
    /\ Still

Controls == [a \in {"look", "halt", "resume", "reset halt", "reset go"} |->
    CASE a = "look" -> {} [] a = "halt" -> {"halt"} [] a = "resume" -> {"resume"}
      [] a = "reset halt" -> {"reset", "halt"} [] a = "reset go" -> {"reset", "resume"}]

ControlAnswer(kind, unknown, d, after) ==
    [kind |-> kind, unknown |-> unknown, halt |-> "halt" \in d, reset |-> "reset" \in d,
     resume |-> IF "resume" \in d THEN "yes" ELSE "no", restored |-> FALSE,
     after |-> after, quality |-> FALSE]

(* A control that raises may have taken effect; a reset that raises is the *)
(* last thing done.                                                        *)
Act ==
    /\ phase = "act"
    /\ \/ /\ did' = Controls[job.act]
          /\ core' \in IF did' = {} THEN {core} ELSE States
          /\ Go("after") /\ UNCHANGED held
       \/ /\ job.act # "look"
          /\ Quit(Error(FALSE))
          /\ UNCHANGED <<did, core>>
       \/ /\ \E d \in {Controls[job.act], Controls[job.act] \cap {"reset"}} \ {{}} :
                did' = d /\ Quit(ControlAnswer("error", TRUE, d, "unsaid"))
          /\ core' \in States
    /\ UNCHANGED <<job, stop, expired, seq, loop, written>>

LookAfter ==
    /\ phase = "after"
    /\ \/ Quit(ControlAnswer("error", TRUE, did, "unsaid"))
       \/ Quit(ControlAnswer("ok", FALSE, did, core))
    /\ Still

-----------------------------------------------------------------------------
(* enter_hss_capture_state: a target found halted is resumed, then guarded *)
(* as running. A resume that raises answers without saying so.             *)
Enter ==
    /\ phase = "enter"
    /\ \/ /\ \E crashed \in BOOLEAN : Quit(GuardError(Blind, crashed))
          /\ UNCHANGED <<did, core>>
       \/ /\ job.state = "running"
          /\ Guarded("running", "stable")
       \/ /\ job.state = "halted"
          /\ \/ Quit(Error(FALSE)) /\ UNCHANGED <<did, core>>
             \/ /\ did' = did \cup {"resume"}
                /\ core' \in States
                /\ \/ Quit(Error(FALSE))
                   \/ Go("entered") /\ UNCHANGED held
    /\ UNCHANGED <<job, stop, expired, seq, loop, written>>

Entered ==
    /\ phase = "entered"
    /\ \/ Guarded("running", "stable")
       \/ /\ \E crashed \in BOOLEAN : Quit(GuardError(Blind, crashed))
          /\ UNCHANGED <<did, core>>
    /\ UNCHANGED <<job, stop, expired, seq, loop, written>>

(* The counter must run at its rate for a number of checks in a row.       *)
Stable ==
    /\ phase = "stable"
    /\ \/ Go("match") /\ UNCHANGED held
       \/ job.stable /\ Quit(Error(FALSE))
    /\ Still

(* Every nonvolatile byte of the artifact is compared; a byte that differs *)
(* is read three times more.                                               *)
Match ==
    /\ phase = "match"
    /\ \/ Go("raw") /\ UNCHANGED held
       \/ Quit(Error(FALSE))
    /\ Still

OpenRaw ==
    /\ phase = "raw"
    /\ \/ Go("start") /\ held' = [held EXCEPT !.raw = "open"]
       \/ Quit(Error(FALSE))
    /\ Still

(* The ways out while the samples file is open: the file is closed, HSS is *)
(* stopped, the probe closed, the DLL freed, in that order or the other.   *)
QuitUnstopped(a, stopped) ==
    /\ answer' = a
    /\ phase' = "done"
    /\ held' = [held EXCEPT !.lib = FALSE, !.session = FALSE, !.raw = "closed"]

QuitStarted(a, stopped) ==
    /\ answer' = a
    /\ phase' = "done"
    /\ held' = [Nothing EXCEPT !.raw = "closed", !.hss = stopped]

(* HSS_Stop that raises leaves HSS in a state nobody knows.                *)
Stopped == {"off", "lost"}

StartError(unknown) ==
    [Error(unknown) EXCEPT !.resume = IF job.state = "halted" THEN "yes" ELSE "no"]

Start ==
    /\ phase = "start"
    /\ core' \in States
    /\ \/ Go("start guard") /\ held' = [held EXCEPT !.hss = "on"]
       \/ QuitStarted(StartError(TRUE), "lost")
       \/ \E crashed \in BOOLEAN : QuitStarted(StartError(crashed), "off")
    /\ UNCHANGED <<job, did, stop, expired, seq, loop, written>>

StartGuard ==
    /\ phase = "start guard"
    /\ \E g \in Guard("running") :
        /\ core' = g.target
        /\ did' = did \cup g.did
        /\ IF g.pass THEN Go("ready") /\ UNCHANGED held
           ELSE \E s \in Stopped, unclean \in BOOLEAN :
                    QuitStarted(GuardError(g, unclean \/ s = "lost"), s)
    /\ UNCHANGED <<job, stop, expired, seq, loop, written>>

(* The tick of the start and the first heartbeat, which tells the server   *)
(* that the capture runs.                                                  *)
Ready ==
    /\ phase = "ready"
    /\ \/ Go(IF job.drain THEN "drain" ELSE "sample") /\ UNCHANGED held
       \/ \E s \in Stopped : QuitStarted(Error(FALSE), s)
       \/ \E s \in Stopped, crashed \in BOOLEAN : QuitStarted(StartError(s = "lost" \/ crashed), s)
    /\ Still

-----------------------------------------------------------------------------
(* observe_hss_sample: a record's timestamp is mapped to its slot on the   *)
(* planned grid and counted: a slot again, the next one, or a gap.         *)
Slot(t) == (t * Rate + 500) \div 1000

Backwards(s, t) == s.has /\ (t < s.last \/ Slot(t) < s.lastSlot)

(* A gap counted with both its ends.                                       *)
CountRecordOver(s, t) ==
    LET n == Slot(t)
    IN  [has |-> TRUE, invalid |-> s.invalid, last |-> t,
         first |-> IF s.has THEN s.first ELSE n,
         lastSlot |-> n,
         emitted |-> s.emitted + 1,
         dup |-> IF s.has /\ n = s.lastSlot THEN s.dup + 1 ELSE s.dup,
         gaps |-> IF s.has /\ n > s.lastSlot + 1 THEN s.gaps + 1 ELSE s.gaps,
         gapSlots |-> IF s.has /\ n > s.lastSlot + 1 THEN s.gapSlots + n - s.lastSlot ELSE s.gapSlots]

CountRecord(s, t) ==
    LET n == Slot(t)
        gap == IF s.has /\ n > s.lastSlot + 1 THEN n - s.lastSlot - 1 ELSE 0
    IN  [has |-> TRUE, invalid |-> s.invalid, last |-> t,
         first |-> IF s.has THEN s.first ELSE n,
         lastSlot |-> n,
         emitted |-> s.emitted + 1,
         dup |-> IF s.has /\ n = s.lastSlot THEN s.dup + 1 ELSE s.dup,
         gaps |-> IF gap > 0 THEN s.gaps + 1 ELSE s.gaps,
         gapSlots |-> s.gapSlots + gap]

Dropped(s) ==
    LET d == s.lastSlot - s.first + 1 - s.emitted IN IF s.has /\ d > 0 THEN d ELSE 0

Broken ==
    \/ seq.invalid \/ loop.crashed \/ loop.budget
    \/ loop.rawFailed \/ loop.ipcFailed \/ loop.readyFailed

(* What a request handled between two reads leaves behind: a write leaves  *)
(* its flags; a request to resume the target none, "resumed" is ours. The  *)
(* response to either may fail to be written.                              *)
Handled(l, m, f, r) == [l EXCEPT !.memory = m, !.ipcFailed = f, !.resumed = r]

Memory(l) ==
    {Handled(l, m, f, r) :
        m \in {l.memory, "wrote", "unknown"}, f \in BOOLEAN, r \in {l.resumed, TRUE}}

Serves(l) ==
    {m \in Memory(l) :
        /\ m.memory = l.memory \/ m.resumed = l.resumed
        /\ l.memory = "unknown" => m.memory = "unknown"}

(* Such a request finds the target halted, by a breakpoint or a fault, and *)
(* lets it go; whether it runs then, nobody asks again.                    *)
ResumesServed ==
    IF loop'.resumed THEN did' = did \cup {"resume"} /\ core' \in States
    ELSE UNCHANGED <<did, core>>

(* The heartbeat that could not be refreshed.                              *)
Beats(ls) == ls \cup {[l EXCEPT !.readyFailed = TRUE] : l \in ls}

LoopOnly == UNCHANGED <<job, held, core, did, stop, expired, seq, written, answer>>
ServeOnly == ResumesServed /\ UNCHANGED <<job, held, stop, expired, seq, written, answer>>

(* readMode drain: wait for the end of the time, then read.                *)
Drain ==
    /\ phase = "drain"
    /\ ~loop.readyFailed
    /\ \/ ~expired /\ stop /\ loop' = [loop EXCEPT !.stopped = TRUE] /\ phase' = "sample"
       \/ ~expired /\ ~stop /\ loop' \in Beats({loop}) /\ UNCHANGED phase
       \/ expired /\ phase' = "sample" /\ UNCHANGED loop
    /\ LoopOnly

DrainFails ==
    /\ phase = "drain"
    /\ loop.readyFailed
    /\ phase' = "sample"
    /\ UNCHANGED loop
    /\ LoopOnly

InTime == loop.attempt < Requested /\ (job.drain \/ ~expired)

(* One pass of the loop: the stop file, a request, the heartbeat, a read.  *)
SampleStops ==
    /\ phase = "sample"
    /\ InTime /\ ~Broken
    /\ stop
    /\ loop' = [loop EXCEPT !.stopped = TRUE]
    /\ phase' = "tail"
    /\ LoopOnly

(* HSS_Read: records, none, an error or a short record, or an exception.   *)
(* BatchBound caps what one read returns.                                  *)
BatchBound == 2

Read(l) ==
    {[l EXCEPT !.left = n] : n \in 0..BatchBound} \cup {[l EXCEPT !.readError = TRUE]}
        \cup {[l EXCEPT !.readError = TRUE, !.crashed = TRUE]}

Sample ==
    /\ phase = "sample"
    /\ InTime /\ ~Broken
    /\ ~stop
    /\ \E l \in Beats(Serves(loop)) : loop' \in Read(l)
    /\ phase' = "record"
    /\ ServeOnly

SampleEnds ==
    /\ phase = "sample"
    /\ ~InTime \/ Broken
    /\ phase' = "tail"
    /\ UNCHANGED loop
    /\ LoopOnly

-----------------------------------------------------------------------------
(* One record of the batch: its timestamp is judged, then it is appended.  *)
RecordOnly == UNCHANGED <<job, phase, held, core, did, stop, expired, answer>>

InBatch == phase = "record" /\ loop.left > 0 /\ seq.emitted < Requested

NotFirst ==
    /\ InBatch
    /\ job.zero /\ ~seq.has
    /\ \E t \in Times : t # 0
    /\ seq' = [seq EXCEPT !.invalid = TRUE]
    /\ loop' = [loop EXCEPT !.left = 0]
    /\ UNCHANGED written
    /\ RecordOnly

Early(t) == job.zero /\ ~seq.has /\ t # 0

TakeRecord ==
    /\ InBatch
    /\ \E t \in Times :
        /\ ~Early(t)
        /\ ~Backwards(seq, t)
        /\ seq' = CountRecord(seq, t)
        /\ written' = Append(written, Slot(t))
    /\ loop' = [loop EXCEPT !.left = @ - 1, !.decoded = @ + 1]
    /\ RecordOnly

(* A timestamp that goes back ends the capture; the record is counted as   *)
(* decoded and not written.                                                *)
RecordBack ==
    /\ InBatch
    /\ \E t \in Times : ~Early(t) /\ Backwards(seq, t)
    /\ seq' = [seq EXCEPT !.invalid = TRUE]
    /\ loop' = [loop EXCEPT !.left = 0, !.decoded = @ + 1]
    /\ UNCHANGED written
    /\ RecordOnly

(* The file has no room left, or the append fails: the record is neither   *)
(* counted nor part of the file's valid prefix.                            *)
RecordLost ==
    /\ InBatch
    /\ \E t \in Times : ~Early(t) /\ ~Backwards(seq, t)
    /\ \/ loop' = [loop EXCEPT !.left = 0, !.budget = TRUE]
       \/ loop' = [loop EXCEPT !.left = 0, !.rawFailed = TRUE]
    /\ UNCHANGED <<seq, written>>
    /\ RecordOnly

(* A pass that read nothing is not counted.                                *)
BatchEndsUncounted ==
    /\ phase = "record"
    /\ loop.left = 0 \/ seq.emitted = Requested
    /\ IF Broken THEN phase' = "tail" /\ loop' = [loop EXCEPT !.left = 0]
       ELSE phase' = "sample" /\ loop' = [loop EXCEPT !.left = 0, !.attempt = IF seq.has THEN @ + 1 ELSE @]
    /\ LoopOnly

(* The batch is over.                                                      *)
BatchEnds ==
    /\ phase = "record"
    /\ loop.left = 0 \/ seq.emitted = Requested
    /\ IF Broken THEN phase' = "tail" /\ loop' = [loop EXCEPT !.left = 0]
       ELSE phase' = "sample" /\ loop' = [loop EXCEPT !.left = 0, !.attempt = @ + 1]
    /\ LoopOnly

(* After the last read a periodic capture serves requests until its time.  *)
Waiting == ~job.drain /\ ~loop.stopped /\ ~Broken /\ ~expired

WaitOut ==
    /\ phase = "tail"
    /\ Waiting
    /\ \/ stop /\ loop' = [loop EXCEPT !.stopped = TRUE] /\ LoopOnly
       \/ ~stop /\ loop' \in Beats(Serves(loop)) /\ ServeOnly
    /\ UNCHANGED phase

-----------------------------------------------------------------------------
(* The end of a capture and the verdict on it.                             *)
Judged(s) ==
    /\ ~s.invalid
    /\ IF s.emitted = 0 THEN loop.stopped /\ loop.decoded = 0 ELSE loop.decoded = s.emitted

(* The timeline judged by the slots it spans alone.                        *)
ReportableSpan(s) ==
    /\ expired
    /\ s.emitted >= Requested
    /\ Dropped(s) = 0
    /\ ~s.invalid

Reportable(s) ==
    /\ expired
    /\ s.emitted * 100 >= Requested * 95
    /\ s.emitted >= Requested
    /\ Dropped(s) = 0 /\ s.dup = 0 /\ s.gaps = 0
    /\ ~s.invalid

Lifecycle(clean) == clean /\ ~loop.crashed /\ (loop.stopped \/ loop.decoded > 0)

Failed(clean) ==
    \/ ~loop.stopped /\ (loop.crashed \/ seq.emitted = 0)
    \/ loop.rawFailed \/ loop.ipcFailed \/ loop.readyFailed
    \/ ~Lifecycle(clean)
    \/ ~Judged(seq) \/ ~(loop.stopped \/ loop.budget \/ expired) \/ loop.readError

Verdict(clean) ==
    [StartError(loop.memory = "unknown" \/ (loop.ipcFailed /\ loop.memory # "none")) EXCEPT
        !.kind = IF Failed(clean) THEN "error" ELSE IF loop.stopped \/ loop.budget THEN "stopped" ELSE "ok",
        !.quality = Reportable(seq)]

(* "clean": the file was flushed and closed and could be hashed, HSS_Stop  *)
(* and the close of the probe succeeded.                                   *)
Finish ==
    /\ phase = "tail"
    /\ ~Waiting
    /\ \E s \in Stopped, clean \in BOOLEAN :
        /\ clean => s = "off"
        /\ QuitStarted(Verdict(clean), s)
    /\ UNCHANGED <<job, core, did, stop, expired, seq, loop, written>>

(* The server asks for the end; the time passes.                           *)
AskStop ==
    /\ Capture /\ phase # "done"
    /\ ~stop /\ stop' = TRUE
    /\ UNCHANGED <<job, phase, held, core, did, expired, seq, loop, written, answer>>

TimePasses ==
    /\ phase \in {"drain", "sample", "record", "tail"}
    /\ ~expired /\ expired' = TRUE
    /\ UNCHANGED <<job, phase, held, core, did, stop, seq, loop, written, answer>>

Settled == phase = "done" /\ UNCHANGED commandVars

WayIn == ReadPlan \/ TrustScript \/ LoadManifest \/ Load \/ Select \/ Open \/ Setting \/ Connect
Asked == Before \/ Caps \/ AfterCaps \/ CapsAnswer \/ Observe \/ LookBefore \/ Act \/ LookAfter
Starting == Enter \/ Entered \/ Stable \/ Match \/ OpenRaw \/ Start \/ StartGuard \/ Ready
Sampling == Drain \/ DrainFails \/ SampleStops \/ Sample \/ SampleEnds
Recording == NotFirst \/ TakeRecord \/ RecordBack \/ RecordLost \/ BatchEnds
Helper == WayIn \/ Asked \/ Starting \/ Sampling \/ Recording \/ WaitOut \/ Finish

CommandNext == Helper \/ AskStop \/ TimePasses \/ Settled

(* The helper is one thread that never waits for another process; a call   *)
(* of the DLL that does not return is outside the model. The time passes.  *)
CommandSpec == CommandInit /\ [][CommandNext]_commandVars /\ WF_commandVars(Helper) /\ WF_commandVars(TimePasses)

-----------------------------------------------------------------------------
(* The types of the variables.                                             *)
SequenceOK ==
    seq \in [has : BOOLEAN, invalid : BOOLEAN, last : Nat, first : Nat, lastSlot : Nat,
             emitted : Nat, dup : Nat, gaps : Nat, gapSlots : Nat]

CommandTypeOK ==
    /\ job \in JobType
    /\ held \in [lib : BOOLEAN, session : BOOLEAN, hss : {"off", "on", "lost"},
                 raw : {"none", "open", "closed"}]
    /\ core \in States
    /\ did \subseteq {"halt", "resume", "reset"}
    /\ stop \in BOOLEAN /\ expired \in BOOLEAN
    /\ SequenceOK
    /\ seq.emitted <= Requested /\ loop.attempt <= Requested /\ loop.left \in 0..BatchBound
    /\ written \in Seq(Nat)

(* Whatever fails, and wherever, the helper ends with the DLL freed, the   *)
(* probe closed, the samples file closed and HSS stopped, unless the call  *)
(* that starts or stops HSS itself raised: the probe is free for the next  *)
(* command, and HSS never runs on without a reader (the returns of         *)
(* hss_capture, getcaps, connect_preflight and cpu_control).               *)
NothingLeftOpen ==
    phase = "done" =>
        /\ ~held.lib /\ ~held.session
        /\ held.raw # "open" /\ held.hss # "on"

(* The server rebuilds the target's state from the answer alone: a halt or *)
(* reset the helper issued is always in it, a resume it denies happened    *)
(* only when it says the state is unknown or a memory request asked for    *)
(* that resume, and a state it claims to have restored or observed is the  *)
(* state the target is in.                                                 *)
AnswerTruthful ==
    phase = "done" =>
        /\ answer.halt = ("halt" \in did)
        /\ answer.reset = ("reset" \in did)
        /\ answer.resume = "no" /\ "resume" \in did => answer.unknown \/ loop.resumed
        /\ answer.resume = "yes" => "resume" \in did
        /\ answer.restored => core = IF answer.halt THEN "halted" ELSE "running"
        /\ answer.after \in States => core = answer.after

(* The same of every resume: what the final answer of a capture calls      *)
(* resumeIssued leaves out the resumes of memory requests.                 *)
ResumesAreTold == phase = "done" /\ answer.resume = "no" /\ "resume" \in did => answer.unknown

(* The counters of a capture account for every slot between the first and  *)
(* the last record: each is filled by a record, less the records that fell *)
(* into a slot twice, or counted in a gap (observe_hss_sample).            *)
SamplesAccounted ==
    /\ seq.emitted = Len(written)
    /\ seq.has <=> seq.emitted > 0
    /\ seq.has => seq.lastSlot - seq.first + 1 = seq.emitted - seq.dup + seq.gapSlots

(* A capture whose quality is reported lost nothing: its file holds the    *)
(* planned number of records, each in the slot after the one before it. A  *)
(* capture that did not fail has every record it counted in its file, in   *)
(* the order of time.                                                      *)
FileMatchesAnswer ==
    phase = "done" =>
        /\ answer.quality =>
            Len(written) = Requested /\ \A i \in 1..Requested : written[i] = written[1] + i - 1
        /\ answer.kind \in {"ok", "stopped"} /\ Capture =>
            /\ ~seq.invalid /\ ~loop.rawFailed
            /\ loop.decoded = Len(written)
            /\ \A i \in 2..Len(written) : written[i - 1] <= written[i]

(* The one line the helper prints can be relied on.                        *)
AnswerSound == CommandTypeOK /\ NothingLeftOpen /\ AnswerTruthful /\ FileMatchesAnswer

(* Whatever the DLL returns, the helper comes to an answer: no read that   *)
(* brings nothing, and no wait, holds a capture beyond its time and its    *)
(* number of attempts (the loops of hss_capture).                          *)
CommandAnswers == <>(phase = "done")

=============================================================================
