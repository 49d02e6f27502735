----------------------------- MODULE JcapPackage -----------------------------
(***************************************************************************)
(* One JCAP v1 package and the .jcap file sealed from it (jcap-v1.ts), with *)
(* the queries that read them (capture-query-operations.ts).               *)
(*                                                                         *)
(* A package is three files.  samples.bin and events.bin are append-only   *)
(* journals; capture.json holds the state, what the journals were when the *)
(* capture ended, and the status of the index capture.db.  Nothing updates *)
(* two of them at once: a process may die between any two steps, or in the *)
(* middle of a frame.  Whoever ends the capture appends the quality event, *)
(* "finalizing" and a terminal event, writes capture.json and seals the    *)
(* file; a query builds the index when it is missing.                      *)
(*                                                                         *)
(* A journal is kept as what the code derives from it: how many samples    *)
(* and gaps, the last lifecycle state, the quality event, and whether its  *)
(* tail is whole, cut in a frame, or rubbish.                              *)
(***************************************************************************)
EXTENDS Naturals

CONSTANTS Readers,    (* the processes that query the capture             *)
          MaxSamples, (* bound on the frames of samples.bin               *)
          MaxMissing, (* bound on the samples reported missing            *)
          MaxFaults   (* bound on deaths, failed writes and damaged files *)

ASSUME PackageBoundsOK == {MaxSamples, MaxMissing, MaxFaults} \subseteq Nat

VARIABLES
  samples, (* samples.bin                                                  *)
  events,  (* events.bin                                                   *)
  meta,    (* capture.json                                                 *)
  db,      (* capture.db                                                   *)
  file,    (* the sealed .jcap file                                        *)
  csv,     (* the exported file                                            *)
  writer,  (* the JcapV1Writer of the process that made the package        *)
  helper,  (* the process that writes samples.bin, "off" if the writer does *)
  client,  (* who ends the capture                                         *)
  lease,   (* the reader that holds the package's directory lease, or Free *)
  reader,  (* the readers                                                  *)
  faults,  (* how much went wrong                                          *)
  rotten   (* was samples.bin damaged after the capture ended?             *)

journals == <<samples, events>>
ending == <<writer, helper, client>>
querying == <<lease, reader, csv>>
harm == <<faults, rotten>>
packageVars == <<journals, meta, db, file, ending, querying, harm>>

Free == "free"
Open == {"active", "finalizing"}
Terminal == {"completed", "stopped", "interrupted", "failed"}
Tails == {"clean", "torn", "corrupt"}

Unsaid == [said |-> FALSE, missing |-> 0, validated |-> FALSE]
Claims == [said : {TRUE}, missing : 0 .. MaxMissing, validated : BOOLEAN]

NoSamples == [made |-> FALSE, count |-> 0, gaps |-> 0, tail |-> "clean"]
NoEvents == [life |-> "none", claim |-> Unsaid, tail |-> "clean"]
Raw == [samples |-> samples, events |-> events]
NoRaw == [samples |-> NoSamples, events |-> NoEvents]

NoMeta == [state |-> "none", index |-> "absent", claim |-> Unsaid, raw |-> NoRaw]
NoIndex == [whole |-> FALSE, state |-> "none", claim |-> Unsaid, raw |-> NoRaw]

Closed == [at |-> "closed", life |-> "none"]
NoClient == [at |-> "idle", state |-> "none", claim |-> Unsaid,
             counted |-> Unsaid, raw |-> NoRaw]
NoReader == [at |-> "idle", restore |-> NoMeta, raw |-> NoRaw,
             got |-> NoIndex]

PackageInit ==
  /\ samples = NoSamples /\ events = NoEvents /\ meta = NoMeta
  /\ db = NoIndex /\ file = NoIndex /\ csv = "none"
  /\ writer = [Closed EXCEPT !.at = "none"]
  /\ helper \in {"none", "off"} /\ client = NoClient
  /\ lease = Free /\ reader = [r \in Readers |-> NoReader]
  /\ faults = 0 /\ rotten = FALSE

External == helper # "off"

Fault == faults < MaxFaults /\ faults' = faults + 1
Healthy == UNCHANGED faults

-----------------------------------------------------------------------------
(* The journals.  parseFrames stops at the first frame that is cut or that *)
(* does not follow the one before: a frame after a torn one is rubbish.    *)
Push(journal, longer) ==
  IF journal.tail = "clean" THEN longer ELSE [journal EXCEPT !.tail = "corrupt"]

Tear(journal) ==
  IF journal.tail = "clean" THEN [journal EXCEPT !.tail = "torn"]
  ELSE [journal EXCEPT !.tail = "corrupt"]

(* Variant: an event is only compared with the event before it.            *)
AnyOrder(life, next) == life # "none"

(* validateEvent: "active" comes first, a terminal event last.             *)
Allowed(life, next) ==
  CASE next = "active" -> life = "none"
    [] next = "finalizing" -> life = "active"
    [] next \in {"completed", "stopped"} -> life = "finalizing"
    [] next \in {"interrupted", "failed"} -> life \in Open
    [] OTHER -> life \in Open

Extended(journal, event, claim) ==
  CASE event = "quality" -> Push(journal, [journal EXCEPT !.claim = claim])
    [] OTHER -> Push(journal, [journal EXCEPT !.life = event])

Damaged(raw) == raw.samples.tail # "clean" \/ raw.events.tail # "clean"
Corrupt(raw) == "corrupt" \in {raw.samples.tail, raw.events.tail}

(* assertQualityFacts.  Variant: the duration is taken from capture.json.  *)
QualityTrusted(m, e) ==
  m.state \in Terminal =>
    /\ e.claim.said = m.claim.said
    /\ e.claim.missing = m.claim.missing

QualityFacts(m, e) ==
  /\ QualityTrusted(m, e)
  /\ m.state = "completed" /\ e.claim.said => e.claim.validated

(* readJcapV1Raw: capture.json, both journals and the quality facts.       *)
Readable == /\ meta.state # "none" /\ samples.made /\ events.life # "none"
            /\ QualityFacts(meta, events)

EffectiveState(raw) ==
  IF Damaged(raw) /\ raw.events.life \in Open THEN "interrupted" ELSE raw.events.life

(* Variants: the requested state is believed; so it is for stopped ones.   *)
AnyState(raw, state) == raw.events.life # "none"

(* terminalStateMatchesRaw: without a terminal event only damage explains  *)
(* the end.                                                                *)
MatchesRaw(raw, state) ==
  \/ raw.events.life = state
  \/ /\ raw.events.life \in Open
     /\ \/ state = "interrupted"
           /\ "torn" \in {raw.samples.tail, raw.events.tail}
        \/ state = "failed" /\ Corrupt(raw)

(* Variant: counted as far as the plan goes.                               *)
PlannedLossFacts(m, raw) ==
  m.state = "completed" => raw.samples.count + m.claim.missing >= MaxSamples

(* assertSampleLossFacts: the counters explain the gaps and the deficit.   *)
LossFacts(m, raw) ==
  /\ raw.samples.gaps <= m.claim.missing
  /\ m.state = "completed" /\ raw.samples.count < MaxSamples =>
       m.claim.said /\ m.claim.missing >= MaxSamples - raw.samples.count

(* assertFinalRawIdentities.                                               *)
FinalIdentities(m, raw, whileBuilding) ==
  /\ m.state \in Terminal \ {"failed"}
  /\ whileBuilding \/ m.index # "building"
  /\ m.raw = raw

-----------------------------------------------------------------------------
(* The process that makes the package.                                     *)
CreatePackage ==
  /\ writer.at = "none"
  /\ writer' = [at |-> "open", life |-> "none"]
  /\ samples' = [samples EXCEPT !.made = ~External]
  /\ meta' = [NoMeta EXCEPT !.state = "active"]
  /\ UNCHANGED <<events, db, file, helper, client, querying, harm>>

(* appendEvent: the writer knows the journal it has written, not the file. *)
WriterEvent(event, claim) ==
  /\ writer.at = "open" /\ Allowed(writer.life, event)
  /\ events' = Extended(events, event, claim)
  /\ writer' = IF event = "quality" THEN writer ELSE [writer EXCEPT !.life = event]

(* The other events (writes, notes, helper events) carry no fact here.     *)
Record == /\ client.at = "idle" /\ WriterEvent("active", Unsaid)
          /\ UNCHANGED <<samples, meta, db, file, helper, client, querying, harm>>

(* Variant: a sample may be recorded after the last planned one.           *)
NextSampleLate(gap) ==
  /\ samples.count <= MaxSamples
  /\ gap = 1 => samples.count > 0
  /\ samples' = Push(samples, [samples EXCEPT !.made = TRUE, !.count = @ + 1,
                                              !.gaps = @ + gap])

(* Inside one process: appendSample; in the helper: its own writer.  A gap *)
(* is a frame whose index skips one and whose flags say so.                *)
NextSample(gap) ==
  /\ samples.count < MaxSamples
  /\ gap = 1 => samples.count > 0
  /\ samples' = Push(samples, [samples EXCEPT !.made = TRUE, !.count = @ + 1,
                                              !.gaps = @ + gap])

AppendSample ==
  /\ writer.at = "open" /\ ~External /\ writer.life = "active"
  /\ client.at = "idle"
  /\ \E gap \in 0 .. 1 : samples.gaps + gap <= 1 /\ NextSample(gap)
  /\ UNCHANGED <<events, meta, db, file, ending, querying, harm>>

(* publishProgress and refreshActiveJcapV1Metadata publish counts that no  *)
(* decision reads; the second one leaves a terminal capture.json alone.    *)
(* createCapture of HSS closes the writer once "active" is in, and starts  *)
(* the helper.                                                             *)
HandOver ==
  /\ helper = "none" /\ writer.at = "open" /\ writer.life = "active"
  /\ writer' = Closed
  /\ helper' = "running"
  /\ UNCHANGED <<journals, meta, db, file, client, querying, harm>>

HelperSample ==
  /\ helper = "running"
  /\ \E gap \in 0 .. 1 : samples.gaps + gap <= 1 /\ NextSample(gap)
  /\ UNCHANGED <<events, meta, db, file, ending, querying, harm>>

HelperExits ==
  /\ helper = "running" /\ helper' = "exited"
  /\ \/ Healthy /\ UNCHANGED samples
     \/ Fault /\ samples' = Tear([samples EXCEPT !.made = TRUE])
  /\ UNCHANGED <<events, meta, db, file, writer, client, querying, rotten>>

(* The process of the writer dies, perhaps in the middle of a frame.       *)
WriterDies ==
  /\ writer.at = "open" /\ Fault
  /\ writer' = Closed
  /\ client' = NoClient
  /\ \/ UNCHANGED journals
     \/ samples.made /\ samples' = Tear(samples) /\ UNCHANGED events
     \/ events' = Tear(events) /\ UNCHANGED samples
  /\ UNCHANGED <<meta, db, file, helper, querying, rotten>>

-----------------------------------------------------------------------------
(* The end of the capture.  The caller says how it ended and what was      *)
(* missing: what it puts in the quality event and what it counts in        *)
(* capture.json need not agree.                                            *)
ClientAt(step) == client.at = step
ClientGoto(step) == client' = [client EXCEPT !.at = step]
ClientLeaves(step) == client' = [NoClient EXCEPT !.at = step]

(* settle of HSS: what the journals show goes before what the helper says; *)
(* who finds a capture without its process calls it interrupted.           *)
EndState(said) ==
  IF writer.at = "open" THEN said
  ELSE IF ~External THEN "interrupted"
  ELSE IF Corrupt(Raw) THEN "failed"
  ELSE IF Damaged(Raw) \/ (said = "failed" /\ samples.count > 0) THEN "interrupted"
  ELSE said

(* What the helper reported outlives whoever ends the capture.             *)
BeginEnd(said, claim, counted) ==
  /\ ClientAt("idle") /\ meta.state # "none" /\ helper # "running"
  /\ writer.at = "open" => writer.life = "active" /\ ~External
  /\ client.state # "none" =>
       /\ said = client.state /\ claim = client.claim /\ counted = client.counted
  /\ samples' = [samples EXCEPT !.made = TRUE]
  /\ client' = [at |-> IF External /\ events.tail # "clean" THEN "metadata"
                       ELSE IF claim.said THEN "quality" ELSE "finalizing",
                state |-> EndState(said), claim |-> claim, counted |-> counted,
                raw |-> NoRaw]
  /\ UNCHANGED <<events, meta, db, file, writer, helper, querying, harm>>

(* Variants: the metadata is not consulted, and neither is the journal.    *)
ForeignEventAnyState(event, claim) ==
  /\ writer.at # "open" /\ events.tail = "clean"
  /\ events' = Extended(events, event, claim)
  /\ UNCHANGED writer

(* appendJcapV1Event: another process parses the journal before it appends. *)
ForeignEvent(event, claim) ==
  /\ writer.at # "open" /\ meta.state \in Open
  /\ events.tail = "clean" /\ Allowed(events.life, event)
  /\ events' = Extended(events, event, claim)
  /\ UNCHANGED writer

EndEvent(event) == WriterEvent(event, client.claim) \/ ForeignEvent(event, client.claim)

EventStep(step, event, next) ==
  /\ ClientAt(step) /\ EndEvent(event) /\ ClientGoto(next)
  /\ UNCHANGED <<samples, meta, db, file, helper, querying, harm>>

EndQuality == EventStep("quality", "quality", "finalizing")
EndFinalizing == EventStep("finalizing", "finalizing", "terminal")
EndTerminal == EventStep("terminal", client.state, "close")
                 \/ EventStep("finalizing", client.state, "close")

(* A refused event ends it: the callers give up on the package.            *)
EndRefused ==
  /\ \/ ClientAt("quality") /\ ~Allowed(events.life, "quality")
     \/ ClientAt("finalizing") /\ ~Allowed(events.life, "finalizing")
     \/ ClientAt("terminal") /\ ~Allowed(events.life, client.state)
     \/ client.at \in {"quality", "finalizing", "terminal"} /\ writer.at # "open"
          /\ (meta.state \notin Open \/ events.tail # "clean")
  /\ ClientLeaves("gaveup")
  /\ UNCHANGED <<journals, meta, db, file, writer, helper, querying, harm>>

Close ==
  /\ ClientAt("close") /\ ClientGoto("metadata")
  /\ writer' = IF writer.at = "open" THEN Closed ELSE writer
  /\ UNCHANGED <<journals, meta, db, file, helper, querying, harm>>

(* finalizeJcapV1Metadata.                                                 *)
FinalMeta(state, claim) ==
  [state |-> state, index |-> IF state = "failed" THEN "failed" ELSE "rebuild_required",
   claim |-> claim, raw |-> Raw]

Finalize ==
  /\ ClientAt("metadata")
  /\ IF Readable /\ MatchesRaw(Raw, client.state)
     THEN meta' = FinalMeta(client.state, client.counted) /\ ClientGoto("seal")
     ELSE UNCHANGED meta /\ ClientGoto("seal")
  /\ UNCHANGED <<journals, db, file, writer, helper, querying, harm>>

(* finalizeJcapV2FromV1Package: the journals are read, the file is built   *)
(* beside, replaces the sealed one at once and is verified.                *)
Seal ==
  /\ ClientAt("seal")
  /\ IF Readable /\ meta.state \in Terminal
     THEN client' = [client EXCEPT !.at = "publish", !.raw = Raw]
     ELSE ClientLeaves("gaveup")
  /\ UNCHANGED <<journals, meta, db, file, writer, helper, querying, harm>>

Publish ==
  /\ ClientAt("publish") /\ ClientLeaves("done")
  /\ file' = [whole |-> TRUE, state |-> meta.state, claim |-> meta.claim, raw |-> client.raw]
  /\ UNCHANGED <<journals, meta, db, writer, helper, querying, harm>>

(* The process that ends the capture dies, or sealing fails; the next one  *)
(* begins again.                                                           *)
ClientDies ==
  /\ client.at \notin {"idle", "done", "gaveup"} /\ writer.at # "open" /\ Fault
  /\ client' = IF External THEN [client EXCEPT !.at = "idle", !.raw = NoRaw] ELSE NoClient
  /\ \/ UNCHANGED events
     \/ /\ client.at \in {"quality", "finalizing", "terminal"}
        /\ meta.state \in Open /\ events.tail = "clean"
        /\ events' = Tear(events)
  /\ UNCHANGED <<samples, meta, db, file, writer, helper, querying, rotten>>

-----------------------------------------------------------------------------
(* The index and its readers.                                              *)
(* Variant: the index is compared with capture.json, not with the files.   *)
VerifyByMetadata ==
  IF meta.index = "ready" /\ db # NoIndex THEN "ready"
  ELSE IF meta.state \in Terminal \ {"failed"} THEN "rebuild_required" ELSE "absent"

VerifyIndex ==
  IF meta.index = "building" THEN "rebuild_required"
  ELSE IF db = NoIndex
  THEN IF meta.state \in Terminal \ {"failed"} THEN "rebuild_required"
       ELSE IF meta.state = "failed" THEN "failed" ELSE "absent"
  ELSE IF /\ db.whole /\ db.state = meta.state /\ db.claim = meta.claim
          /\ db.raw = Raw /\ FinalIdentities(meta, db.raw, FALSE)
  THEN "ready" ELSE "rebuild_required"

On(r, step) == reader[r].at = step
Move(r, step) == reader' = [reader EXCEPT ![r].at = step]
Release(r) == lease' = IF lease = r THEN Free ELSE lease
Return(r) == reader' = [reader EXCEPT ![r] = NoReader] /\ Release(r)
storage == <<journals, meta, db, file>>

(* A sealed file is preferred; it is verified against itself.              *)
Ask(r) ==
  /\ On(r, "idle") /\ meta.state # "none"
  /\ IF file # NoIndex
     THEN reader' = [reader EXCEPT ![r].at = "serve", ![r].got = file] /\ UNCHANGED lease
     ELSE lease = Free /\ lease' = r
            /\ reader' = [reader EXCEPT ![r] = [NoReader EXCEPT !.at = "verify"]]
  /\ UNCHANGED <<storage, ending, csv, harm>>

Verify(r) ==
  /\ On(r, "verify")
  /\ CASE VerifyIndex = "ready" ->
            reader' = [reader EXCEPT ![r].at = "serve", ![r].got = db] /\ UNCHANGED lease
       [] VerifyIndex = "rebuild_required" /\ meta.state \in Terminal \ {"failed"} ->
            Move(r, "rebuild") /\ UNCHANGED lease
       [] OTHER -> Return(r)
  /\ UNCHANGED <<storage, ending, csv, harm>>

(* Variant: an unfinished build stands in the way of the next one.         *)
RebuildableOnce ==
  /\ Readable /\ meta.state \in Terminal \ {"failed"}
  /\ EffectiveState(Raw) = meta.state /\ ~Corrupt(Raw)
  /\ FinalIdentities(meta, Raw, FALSE)
  /\ LossFacts(meta, Raw)

(* rebuildJcapV1IndexWithinLease: what is checked before the first write.  *)
Rebuildable ==
  /\ Readable /\ meta.state \in Terminal \ {"failed"}
  /\ EffectiveState(Raw) = meta.state /\ ~Corrupt(Raw)
  /\ FinalIdentities(meta, Raw, meta.index = "building")
  /\ LossFacts(meta, Raw)

Rebuild(r) ==
  /\ On(r, "rebuild")
  /\ IF Rebuildable
     THEN /\ meta' = [meta EXCEPT !.index = "building"]
          /\ reader' = [reader EXCEPT ![r].at = "build", ![r].raw = Raw,
               ![r].restore = [meta EXCEPT !.index =
                 IF @ = "building" THEN "rebuild_required" ELSE @]]
          /\ UNCHANGED lease
     ELSE Return(r) /\ UNCHANGED meta
  /\ UNCHANGED <<journals, db, file, ending, csv, harm>>

(* capture.db.tmp is written, checked and synced; then the journals and    *)
(* capture.json are compared once more and the index replaced at once.     *)
Built(r) ==
  /\ On(r, "build")
  /\ IF Raw = reader[r].raw /\ FinalIdentities(meta, reader[r].raw, TRUE)
     THEN /\ db' = [whole |-> TRUE, state |-> reader[r].restore.state,
                    claim |-> reader[r].restore.claim, raw |-> reader[r].raw]
          /\ Move(r, "ready")
     ELSE Move(r, "restore") /\ UNCHANGED db
  /\ UNCHANGED <<journals, meta, file, ending, lease, csv, harm>>

Ready(r) ==
  /\ On(r, "ready")
  /\ meta' = [reader[r].restore EXCEPT !.index = "ready", !.raw = reader[r].raw]
  /\ Move(r, "verify")
  /\ UNCHANGED <<journals, db, file, ending, lease, csv, harm>>

StepFails(r) ==
  /\ reader[r].at \in {"build", "ready"} /\ Fault /\ Move(r, "restore")
  /\ UNCHANGED <<storage, ending, lease, csv, rotten>>

Restore(r) ==
  /\ On(r, "restore")
  /\ \/ meta' = reader[r].restore /\ Healthy
     \/ UNCHANGED meta /\ Fault
  /\ Return(r)
  /\ UNCHANGED <<journals, db, file, ending, csv, rotten>>

Serve(r) ==
  /\ On(r, "serve") /\ Return(r)
  /\ UNCHANGED <<storage, ending, csv, harm>>

(* exportCsv opens its file only if there is none yet ("wx").              *)
Export(r) ==
  /\ On(r, "serve") /\ reader[r].got.state # "failed"
  /\ IF csv = "none" THEN csv' = "partial" /\ Move(r, "export") /\ UNCHANGED lease
     ELSE Return(r) /\ UNCHANGED csv
  /\ UNCHANGED <<storage, ending, harm>>

Exported(r) ==
  /\ On(r, "export")
  /\ \/ csv' = "whole" /\ Healthy /\ Return(r)
     \/ csv' \in {"none", "partial"} /\ Fault /\ Return(r)
  /\ UNCHANGED <<storage, ending, rotten>>

(* A reader dies: its lease is recovered, the files stay as they are.      *)
ReaderDies(r) ==
  /\ reader[r].at # "idle" /\ Fault
  /\ Return(r)
  /\ UNCHANGED <<storage, ending, csv, rotten>>

(* The storage loses what it held.                                         *)
SamplesRot ==
  /\ client.at \in {"done", "gaveup"} /\ ~rotten /\ samples.count > 0 /\ Fault
  /\ rotten' = TRUE
  /\ samples' = [samples EXCEPT !.count = @ - 1, !.tail = "corrupt"]
  /\ UNCHANGED <<events, meta, db, file, ending, querying>>

IndexRots ==
  /\ db.whole /\ Fault /\ db' = [db EXCEPT !.whole = FALSE]
  /\ UNCHANGED <<journals, meta, file, ending, querying, rotten>>

-----------------------------------------------------------------------------
Query(r) == \/ Ask(r) \/ Verify(r) \/ Rebuild(r) \/ Built(r) \/ Ready(r)
            \/ Restore(r) \/ Serve(r) \/ Exported(r)

End == \/ \E state \in Terminal, claim, counted \in Claims \cup {Unsaid} :
            ~counted.validated /\ BeginEnd(state, claim, counted)
       \/ EndQuality \/ EndFinalizing \/ EndTerminal \/ EndRefused
       \/ Close \/ Finalize \/ Seal \/ Publish

PackageNext ==
  \/ CreatePackage \/ Record \/ AppendSample \/ HandOver
  \/ HelperSample \/ HelperExits \/ WriterDies
  \/ End \/ ClientDies
  \/ \E r \in Readers : Query(r) \/ Export(r) \/ StepFails(r) \/ ReaderDies(r)
  \/ SamplesRot \/ IndexRots

(* Queries run to their end, and somebody asks again.                      *)
QueriesRun == \A r \in Readers : WF_packageVars(Query(r))

PackageSpec == PackageInit /\ [][PackageNext]_packageVars /\ QueriesRun

-----------------------------------------------------------------------------
AnyClaim == Claims \cup {Unsaid}
AnySamples == [made : BOOLEAN, count : 0 .. MaxSamples, gaps : 0 .. 1, tail : Tails]
AnyEvents == [life : Open \cup Terminal \cup {"none"}, claim : AnyClaim, tail : Tails]

(* Journals that are there, or those of no index.                          *)
HeldSamples == {NoSamples} \cup {s \in AnySamples : s.made}
HeldRaw == [samples : HeldSamples, events : AnyEvents]
IndexOf == [whole : BOOLEAN, state : Terminal \cup {"none"}, claim : AnyClaim,
            raw : HeldRaw]

PackageTypeOK ==
  /\ meta.state \in Open \cup Terminal \cup {"none"}
  /\ meta.index \in {"absent", "building", "ready", "rebuild_required", "failed"}
  /\ {db, file} \subseteq IndexOf
  /\ samples \in AnySamples /\ events \in AnyEvents
  /\ csv \in {"none", "partial", "whole"} /\ lease \in Readers \cup {Free}
  /\ faults \in 0 .. MaxFaults /\ rotten \in BOOLEAN

(* Once capture.json says that the capture ended, nothing is appended to   *)
(* its journals any more and it ended in that state for good, whoever dies *)
(* and whoever tries to end it again (updateJcapV1Metadata,                *)
(* appendJcapV1Event, rebuildJcapV1IndexWithinLease write the same files). *)
FinalForGood ==
  [][meta.state \in Terminal =>
       /\ meta'.state = meta.state /\ meta'.raw = meta.raw /\ meta'.claim = meta.claim
       /\ rotten' \/ UNCHANGED journals]_packageVars

(* The state a capture ended in is the one its journal ends with, or the   *)
(* journal is damaged and the state says so.                               *)
EndedAsRecorded ==
  meta.state \in Terminal =>
    \/ events.life = meta.state
    \/ /\ meta.state \in {"interrupted", "failed"} /\ events.life \in Open
       /\ Damaged(meta.raw)

(* What a query answers, from the index or from the sealed file, is what   *)
(* the journals held when the capture ended, whatever happened to builds   *)
(* of the index, to the files or to the processes in between.              *)
ServedIsFinal ==
  \A r \in Readers :
    reader[r].at \in {"serve", "export"} =>
      /\ reader[r].got.whole
      /\ reader[r].got.raw = meta.raw /\ reader[r].got.state = meta.state
      /\ reader[r].got.claim = meta.claim

(* An index of a capture that "completed" rests on evidence: the planned   *)
(* duration was validated and the missing samples are owned up to.         *)
CompletedIsAccounted ==
  db.state = "completed" =>
    /\ db.raw.events.claim.said => db.raw.events.claim.validated
    /\ db.raw.samples.gaps <= db.claim.missing
    /\ MaxSamples - db.raw.samples.count <= db.claim.missing

(* How a capture ended is never said without the journals to show for it.  *)
PackageSound == PackageTypeOK /\ EndedAsRecorded /\ CompletedIsAccounted

(* A build of the index that a dying reader left behind is taken up by the *)
(* next query; only damaged journals or a sealed file make that needless.  *)
StaleBuildRecovered ==
  meta.index = "building" ~> (meta.index # "building" \/ rotten \/ file # NoIndex)
=============================================================================
