-------------------------- MODULE FirmwareIdentity --------------------------
(***************************************************************************)
(* What the program believes about the firmware in a target: the project's *)
(* record in targets.json (TargetStore), its dirty markers on disk and in  *)
(* memory, and the direct operations that change the flash and then say so *)
(* (DirectOperations).  Several server processes share the project and its *)
(* probe; an operation on the probe holds the slot of the probe's queue    *)
(* (module ProbeQueue), an update of targets.json its lock.                *)
(*                                                                         *)
(* Readers take no lock: they read the document and then look for a marker.*)
(***************************************************************************)
EXTENDS Naturals

CONSTANTS Procs, Nobody,
          Readers,     (* processes that are asked for the target's status  *)
          Files,       (* flash images, each with a place of its own        *)
          ImageSets,   (* sets of images a project may be configured with   *)
          MaxGen,      (* bound on the generations of the target            *)
          MaxCrashes,  (* bound on the deaths of processes                  *)
          Faults       (* "observe": the target cannot be observed after an *)
                       (*   erase that succeeded;                           *)
                       (* "busy": the lock is not had within ten seconds;   *)
                       (* "marker", "document", "clear": the marker cannot  *)
                       (*   be written, the document cannot be replaced,    *)
                       (*   the marker cannot be removed                    *)

ASSUME FirmwareConstantsOK ==
  /\ Nobody \notin Procs
  /\ Readers \subseteq Procs
  /\ ImageSets \subseteq SUBSET Files
  /\ MaxGen \in Nat \ {0}
  /\ MaxCrashes \in Nat
  /\ Faults \subseteq {"observe", "busy", "marker", "document", "clear"}

VARIABLES
  doc,      (* the project's record in targets.json                         *)
  markers,  (* generations whose artifact marker is on disk                 *)
  poison,   (* poison[p]: generations whose marker p holds in memory        *)
  flash,    (* the images whole in the target's flash                       *)
  slot,     (* who holds the slot of the probe's queue                      *)
  lock,     (* who holds the lock of targets.json                           *)
  op,       (* op[p]: the operation of p and its locals                     *)
  crashes,
  change,   (* the last change of the flash: "reported" to the store,       *)
            (* "pending" as long as it is not, "excused" if the process     *)
            (* died or the store failed before                              *)
  unsaid,   (* <<p, g>>: p could not mark g and told its caller so          *)
  genuine   (* genuine[p]: the record was verified at some time since the   *)
            (* status read of p began                                       *)

store == <<doc, markers, poison, lock>>
ghosts == <<change, unsaid>>
vars == <<store, flash, slot, op, crashes, ghosts, genuine>>

Statuses == {"unverified", "verified", "mismatch"}
Mutations == {"flash", "erase", "raw"}
Kinds == Mutations \cup {"verify", "stale", "configure", "status"}

(* A generation of 0 is a project that was never configured.  The identity *)
(* stands for the device, the probe and the hashes of the images; records  *)
(* of older versions, and records without images, have none.               *)
Target == [gen : 0 .. MaxGen, images : SUBSET Files, identity : SUBSET Files,
           status : Statuses]

Unconfigured == [gen |-> 0, images |-> {}, identity |-> {}, status |-> "unverified"]

Places == {"idle", "queued", "issue", "observe", "mark", "publish", "clear",
           "commit", "marker", "shown"}

Operation == [kind : Kinds \cup {"none"},
              at : Places,
              gen : 0 .. MaxGen,       (* generation it was asked for       *)
              images : SUBSET Files,   (* images of the target, or of the   *)
                                       (* file to program, or to configure  *)
              want : Statuses,         (* status to set                     *)
              migrate : BOOLEAN,       (* ... and the identity with it      *)
              got : BOOLEAN,           (* target was seen verified          *)
              read : Target]           (* its copy of the record            *)

Idle == [kind |-> "none", at |-> "idle", gen |-> 0, images |-> {},
         want |-> "unverified", migrate |-> FALSE, got |-> FALSE,
         read |-> Unconfigured]

-----------------------------------------------------------------------------
Legacy(d) == d.identity = {} /\ d.images # {}

(* applyDirtyArtifactOverlay, for what is on disk and for process p.       *)
Verified(d) == d.status = "verified" /\ ~Legacy(d) /\ d.gen \notin markers

(* Variant of Sees: the marker in memory is not asked.                     *)
SeesOnDisk(p, d) == Verified(d)

Sees(p, d) == Verified(d) /\ d.gen \notin poison[p]

(* A fresh installation, or a record an older version has left verified.   *)
Init == /\ doc \in {Unconfigured}
              \cup [gen : {1}, images : ImageSets \ {{}}, identity : {{}},
                    status : {"verified"}]
        /\ markers = {}
        /\ poison = [p \in Procs |-> {}]
        /\ flash \in SUBSET Files
        /\ slot = Nobody /\ lock = Nobody
        /\ op = [p \in Procs |-> Idle]
        /\ crashes = 0
        /\ change = "reported"
        /\ unsaid = {}
        /\ genuine = [p \in Procs |-> FALSE]

At(p, kinds, place) == op[p].kind \in kinds /\ op[p].at = place
Become(p, o) == op' = [op EXCEPT ![p] = o]
Goto(p, place) == Become(p, [op[p] EXCEPT !.at = place])
Leave(p) == slot' = IF slot = p THEN Nobody ELSE slot

(* The operation returns to its caller.                                    *)
End(p) == Become(p, Idle) /\ Leave(p)

Excuse == change' = IF change = "pending" THEN "excused" ELSE change

Setting(p, status, migrate) ==
  Become(p, [op[p] EXCEPT !.at = "mark", !.want = status, !.migrate = migrate])

-----------------------------------------------------------------------------
(* An operation reads the target, then waits for the probe.                *)
Ask(p) ==
  /\ op[p] = Idle
  /\ doc.gen > 0
  /\ \E k \in Mutations \cup {"verify", "stale"}, f \in Files :
       Become(p, [Idle EXCEPT !.kind = k, !.at = "queued", !.gen = doc.gen,
                              !.images = IF k = "flash" THEN {f} ELSE {}])
  /\ UNCHANGED <<store, flash, slot, crashes, ghosts>>

(* Variant of FirstStep: a new configuration does not wait for the probe.  *)
NeverQueued == "commit"

(* Only a project that is already configured has a probe to wait for.      *)
FirstStep == IF doc.gen = 0 THEN "commit" ELSE "queued"

AskConfigure(p) ==
  /\ op[p] = Idle
  /\ doc.gen < MaxGen
  /\ \E s \in ImageSets :
       Become(p, [Idle EXCEPT !.kind = "configure", !.at = FirstStep,
                              !.gen = doc.gen, !.images = s])
  /\ UNCHANGED <<store, flash, slot, crashes, ghosts>>

Entered(kind) == IF kind = "configure" THEN "commit" ELSE "issue"

(* The queue gives p the slot; requireCurrent refuses a target that was    *)
(* configured anew meanwhile.                                              *)
Enter(p) ==
  /\ op[p].at = "queued"
  /\ slot = Nobody
  /\ IF doc.gen # op[p].gen
     THEN Become(p, Idle) /\ UNCHANGED slot
     ELSE /\ slot' = p
          /\ Become(p, [op[p] EXCEPT !.at = Entered(op[p].kind), !.got = Sees(p, doc)])
  /\ UNCHANGED <<store, flash, crashes, ghosts>>

(* The backend refuses, or a check before it does: nothing was issued.  So *)
(* does a comparison after which the target cannot be observed.            *)
NotIssued(p) == /\ At(p, Mutations \cup {"verify", "stale"}, "issue")
                /\ End(p)
                /\ UNCHANGED <<store, flash, crashes, ghosts>>

(* Variant of Associated: any file that is programmed verifies.            *)
AlwaysAssociated(files) == TRUE

Associated(files) == files \subseteq doc.images

(* flash: programming a file may spoil others.  A vendor success makes the *)
(* status verified if the file is one of the configured images.            *)
Program(p) ==
  /\ At(p, {"flash"}, "issue")
  /\ \/ /\ \E kept \in SUBSET flash : flash' = op[p].images \cup kept
        /\ LET associated == Associated(op[p].images)
           IN  Setting(p, IF associated THEN "verified" ELSE "unverified", associated)
     \/ /\ flash' \in SUBSET (flash \cup op[p].images)
        /\ Setting(p, "unverified", FALSE)
  /\ change' = "pending"
  /\ UNCHANGED <<store, slot, crashes, unsaid>>

(* erase: a failure after issue is reported at once, a success only when   *)
(* the target has been observed.                                           *)
Erase(p) ==
  /\ At(p, {"erase"}, "issue")
  /\ \/ flash' = {} /\ Goto(p, "observe")
     \/ flash' \in SUBSET flash /\ Setting(p, "mismatch", FALSE)
  /\ change' = "pending"
  /\ UNCHANGED <<store, slot, crashes, unsaid>>

Observed(p) == /\ op[p].at = "observe"
               /\ Setting(p, "mismatch", FALSE)
               /\ UNCHANGED <<store, flash, slot, crashes, ghosts>>

(* observeAfterMutation throws; only the memory mutation trust falls.      *)
ObserveFails(p) == /\ "observe" \in Faults
                   /\ op[p].at = "observe"
                   /\ End(p)
                   /\ UNCHANGED <<store, flash, crashes, ghosts>>

(* Variant of Raw: a command that failed is not reported.                  *)
RawReportsSuccess(p) == /\ At(p, {"raw"}, "issue")
                        /\ flash' \in SUBSET Files
                        /\ \/ Setting(p, "unverified", FALSE) /\ UNCHANGED slot
                           \/ End(p)
                        /\ change' = "pending"
                        /\ UNCHANGED <<store, crashes, unsaid>>

(* probe_command: raw commands may do anything to the flash.               *)
Raw(p) == /\ At(p, {"raw"}, "issue")
          /\ flash' \in SUBSET Files
          /\ Setting(p, "unverified", FALSE)
          /\ change' = "pending"
          /\ UNCHANGED <<store, slot, crashes, unsaid>>

(* The vendor's comparison goes on until an image is not found.            *)
Matches(images) == images \subseteq flash

(* verifyFirmware: the configured images against the flash, or a failure.  *)
Verify(p) ==
  /\ At(p, {"verify"}, "issue")
  /\ doc.images # {}
  /\ \/ Setting(p, IF Matches(doc.images) THEN "verified" ELSE "mismatch", FALSE)
     \/ Setting(p, "unverified", FALSE)
  /\ UNCHANGED <<store, flash, slot, crashes, ghosts>>

(* gdbConnect: the configured artifact is not the file on disk any more.   *)
FindStale(p) == /\ At(p, {"stale"}, "issue")
                /\ Setting(p, "unverified", FALSE)
                /\ UNCHANGED <<store, flash, slot, crashes, ghosts>>

-----------------------------------------------------------------------------
(* setArtifactMatch, under the lock: the marker first, in memory and then  *)
(* on disk; the document; the marker again.                                *)

Written(d, status, migrate) ==
  [d EXCEPT !.status = status,
            !.identity = IF status = "verified" /\ migrate THEN d.images ELSE @]

Mark(p) ==
  /\ op[p].at = "mark"
  /\ lock = Nobody
  /\ IF doc.gen # op[p].gen
     THEN End(p) /\ UNCHANGED <<store, ghosts>>
     ELSE /\ lock' = p
          /\ Become(p, [op[p] EXCEPT !.at = "publish", !.read = doc])
          /\ poison' = [poison EXCEPT ![p] = @ \cup {doc.gen}]
          /\ markers' = markers \cup {doc.gen}
          /\ change' = "reported"
          /\ unsaid' = {u \in unsaid : u[2] # doc.gen}
          /\ UNCHANGED <<doc, slot>>
  /\ UNCHANGED <<flash, crashes>>

(* Variant of Poisoned: the marker in memory follows the one on disk.      *)
NotPoisoned(p) == poison[p]

Poisoned(p) == poison[p] \cup {doc.gen}

(* A marker that is already on disk is not written again.                  *)
MarkFails(p) ==
  /\ "marker" \in Faults
  /\ op[p].at = "mark"
  /\ lock = Nobody
  /\ doc.gen = op[p].gen
  /\ doc.gen \notin markers
  /\ poison' = [poison EXCEPT ![p] = Poisoned(p)]
  /\ End(p)
  /\ Excuse
  /\ unsaid' = unsaid \cup {<<p, doc.gen>>}
  /\ UNCHANGED <<doc, markers, lock, flash, crashes>>

(* TARGET_STORE_BUSY, before anything was marked.                          *)
Busy(p) ==
  /\ "busy" \in Faults
  /\ op[p].at \in {"mark", "commit"}
  /\ End(p)
  /\ Excuse
  /\ UNCHANGED <<store, flash, crashes, unsaid>>

Publish(p) ==
  /\ op[p].at = "publish"
  /\ doc' = Written(op[p].read, op[p].want, op[p].migrate)
  /\ Goto(p, "clear")
  /\ UNCHANGED <<markers, poison, lock, flash, slot, crashes, ghosts>>

(* Variant of AfterFailure: a marker does not outlive its operation.       *)
MarkerRemoved(g) == markers \ {g}

(* A write that fails leaves its marker behind.                            *)
AfterFailure(g) == markers

PublishFails(p) ==
  /\ "document" \in Faults
  /\ op[p].at = "publish"
  /\ markers' = AfterFailure(op[p].gen)
  /\ lock' = Nobody
  /\ End(p)
  /\ UNCHANGED <<doc, poison, flash, crashes, ghosts>>

Clear(p) ==
  /\ op[p].at = "clear"
  /\ markers' = markers \ {op[p].gen}
  /\ poison' = [poison EXCEPT ![p] = @ \ {op[p].gen}]
  /\ lock' = Nobody
  /\ End(p)
  /\ UNCHANGED <<doc, flash, crashes, ghosts>>

ClearFails(p) ==
  /\ "clear" \in Faults
  /\ op[p].at = "clear"
  /\ lock' = Nobody
  /\ End(p)
  /\ UNCHANGED <<doc, markers, poison, flash, crashes, ghosts>>

-----------------------------------------------------------------------------
(* Variant of Preserves: the document's status is taken without markers.   *)
PreservesStored(p, images) ==
  doc.status = "verified" /\ doc.identity # {} /\ doc.identity = images

(* Variant of Configured: the identity is computed when it is first used.  *)
Anonymous(p, images) == [gen |-> doc.gen + 1, images |-> images, status |-> "unverified"]

(* A new configuration keeps a verified status if the images' identity is  *)
(* the same.                                                               *)
Preserves(p, images) ==
  Sees(p, doc) /\ doc.identity # {} /\ doc.identity = images

Configured(p, images) ==
  [gen |-> doc.gen + 1, images |-> images, identity |-> images,
   status |-> IF Preserves(p, images) THEN "verified" ELSE "unverified"]

(* configure, under the lock: one file is replaced, if the target is still *)
(* the one that was read before the queue.                                 *)
Commit(p) ==
  /\ op[p].at = "commit"
  /\ lock = Nobody
  /\ doc' = IF doc.gen = op[p].gen THEN Configured(p, op[p].images) ELSE doc
  /\ End(p)
  /\ UNCHANGED <<markers, poison, lock, flash, crashes, ghosts>>

CommitFails(p) == /\ "document" \in Faults
                  /\ op[p].at = "commit"
                  /\ End(p)
                  /\ UNCHANGED <<store, flash, crashes, ghosts>>

-----------------------------------------------------------------------------
(* target_status: get reads the document, then looks for the marker.       *)
ReadDocument(p) ==
  /\ p \in Readers
  /\ op[p] = Idle
  /\ doc.gen > 0
  /\ Become(p, [Idle EXCEPT !.kind = "status", !.at = "marker",
                            !.gen = doc.gen, !.read = doc])
  /\ UNCHANGED <<store, flash, slot, crashes, ghosts>>

ReadMarker(p) ==
  /\ op[p].at = "marker"
  /\ Become(p, [op[p] EXCEPT !.at = "shown", !.got = Sees(p, op[p].read)])
  /\ UNCHANGED <<store, flash, slot, crashes, ghosts>>

Show(p) == op[p].at = "shown" /\ End(p) /\ UNCHANGED <<store, flash, crashes, ghosts>>

(* A process dies and is replaced: its memory is gone, and the queue and   *)
(* the store take away the slot and the lock it held.                      *)
Crash(p) ==
  /\ crashes < MaxCrashes
  /\ crashes' = crashes + 1
  /\ Become(p, Idle)
  /\ poison' = [poison EXCEPT ![p] = {}]
  /\ Leave(p)
  /\ lock' = IF lock = p THEN Nobody ELSE lock
  /\ IF slot = p THEN Excuse ELSE UNCHANGED change
  /\ unsaid' = {u \in unsaid : u[1] # p}
  /\ UNCHANGED <<doc, markers, flash>>

Step(p) ==
  \/ Ask(p) \/ AskConfigure(p) \/ Enter(p) \/ NotIssued(p)
  \/ Program(p) \/ Erase(p) \/ Observed(p) \/ ObserveFails(p) \/ Raw(p)
  \/ Verify(p) \/ FindStale(p)
  \/ Mark(p) \/ MarkFails(p) \/ Busy(p) \/ Publish(p) \/ PublishFails(p)
  \/ Clear(p) \/ ClearFails(p) \/ Commit(p) \/ CommitFails(p)
  \/ ReadDocument(p) \/ ReadMarker(p) \/ Show(p) \/ Crash(p)

Reading(o) == o.kind = "status"

(* Bookkeeping for StatusReadSound, with every step.                       *)
Witness ==
  genuine' = [p \in Procs |->
    Reading(op'[p]) /\ (Verified(doc)' \/ genuine[p] \/ (op[p] = Idle /\ Verified(doc)))]

Next == \E p \in Procs : Step(p) /\ Witness

Spec == Init /\ [][Next]_vars

-----------------------------------------------------------------------------
TypeOK == /\ doc \in Target
          /\ markers \subseteq 0 .. MaxGen
          /\ poison \in [Procs -> SUBSET (0 .. MaxGen)]
          /\ flash \subseteq Files
          /\ slot \in Procs \cup {Nobody}
          /\ lock \in Procs \cup {Nobody}
          /\ op \in [Procs -> Operation]
          /\ crashes \in 0 .. MaxCrashes
          /\ change \in {"reported", "pending", "excused"}
          /\ unsaid \subseteq Procs \X (0 .. MaxGen)
          /\ genuine \in [Procs -> BOOLEAN]

(* A record that anyone can see as verified names what is in the flash.    *)
(* Excused are a change whose operation is still going to report it, and   *)
(* one whose process died, or whose report the store refused, before the   *)
(* marker was on disk: the program marks after the change, not before.     *)
VerifiedIsProgrammed ==
  Verified(doc) /\ change = "reported" => doc.images \subseteq flash

(* Trust once lost, by whatever failure, comes back only with evidence: a  *)
(* step after which the record counts as verified is one at which the      *)
(* flash holds the configured images.                                      *)
VerifiedByEvidence ==
  [][~Verified(doc) /\ Verified(doc)' => doc'.images \subseteq flash']_vars

(* An operation that changed the flash does not return to its caller,      *)
(* whatever else it failed in, before the store has been told.             *)
NoSilentChange ==
  change = "pending" => \E p \in Procs : op[p].at \in {"observe", "mark"}

(* The process that could not leave a marker on disk does not itself see   *)
(* the target verified any more.                                           *)
UnsaidNotSeen == \A p \in Procs : <<p, doc.gen>> \in unsaid => ~Sees(p, doc)

(* Inside the slot the target stays what the operation found it to be:     *)
(* same generation, and verified if it was, until the operation itself     *)
(* says otherwise.  Symbol reads, writes and captures rely on it.          *)
StableInSlot ==
  \A p \in Procs :
    /\ op[p].at \in {"issue", "observe", "mark", "publish", "clear"}
         => slot = p /\ op[p].gen = doc.gen
    /\ op[p].at \in {"issue", "observe", "mark"} /\ op[p].got => Verified(doc)

(* A status that says verified was true at some time during its read.      *)
StatusReadSound ==
  \A p \in Procs : op[p].at = "shown" /\ op[p].got => genuine[p]
=============================================================================
