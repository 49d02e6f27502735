----------------------- MODULE FirmwareIdentityProofs -----------------------
(***************************************************************************)
(* For any number of processes, images, generations and deaths, and for    *)
(* any faults of the store: a record that counts as verified names what is *)
(* in the flash, as long as a project is configured with one image at most *)
(* (with several it may not, see MCFirmwareImages.cfg).                    *)
(***************************************************************************)
EXTENDS FirmwareIdentity, TLAPS

(* No project is configured with more than one image.                     *)
SingleImage == \A s \in ImageSets : \A f, g \in s : f = g

InSlot == {"issue", "observe", "mark", "publish", "clear"}
InLock == {"publish", "clear"}

(* The slot and the lock belong to who is past them, and the target is     *)
(* still the one the operation was asked for.                              *)
Holds(p) == slot = p /\ op[p].gen = doc.gen /\ doc.gen > 0

SlotInv ==
  \A p \in Procs :
    /\ op[p].at \in InSlot => Holds(p)
    /\ op[p].at = "commit" => Holds(p) \/ op[p].gen = 0
    /\ op[p].at = "queued" => op[p].gen > 0
    /\ op[p].at \in InLock => lock = p

(* What the steps of setArtifactMatch rely on.                             *)
SettingInv ==
  \A p \in Procs :
    /\ op[p].at \in InLock => doc.gen \in markers
    /\ op[p].at = "publish" => op[p].read = doc
    /\ op[p].at = "clear" => op[p].want = doc.status

(* A status of verified that is on its way has its evidence.               *)
EvidenceInv ==
  \A p \in Procs :
    op[p].at \in {"mark", "publish", "clear"} /\ op[p].want = "verified"
      => doc.images \subseteq flash

ConfigInv ==
  /\ doc.images \in ImageSets \cup {{}}
  /\ doc.identity \in {{}, doc.images}
  /\ \A p \in Procs :
       /\ op[p].at = "commit" => op[p].images \in ImageSets
       /\ op[p].at = "queued" /\ op[p].kind = "configure" => op[p].images \in ImageSets
       /\ op[p].at \in {"queued", "issue"} /\ op[p].kind = "flash" => op[p].images # {}

SeenInv ==
  \A p \in Procs :
    op[p].at \in {"issue", "observe", "mark"} /\ op[p].got => Verified(doc)

UnsaidInv ==
  \A p \in Procs :
    /\ \A g \in 0 .. MaxGen : <<p, g>> \in unsaid => g \in poison[p]
    /\ op[p].at \in InLock => <<p, doc.gen>> \notin unsaid

-----------------------------------------------------------------------------
(* The records the actions build are records of their type.                *)
LEMMA TargetTyped ==
  /\ Unconfigured \in Target
  /\ \A d \in Target, s \in Statuses, m \in BOOLEAN : Written(d, s, m) \in Target
<1>1. Unconfigured \in Target
  BY FirmwareConstantsOK DEF Target, Unconfigured, Statuses
<1>2. ASSUME NEW d \in Target, NEW s \in Statuses, NEW m \in BOOLEAN
      PROVE  Written(d, s, m) \in Target
  <2>1. \A i \in SUBSET Files : [d EXCEPT !.status = s, !.identity = i] \in Target
    BY DEF Target
  <2>2. d.images \in SUBSET Files /\ d.identity \in SUBSET Files
    BY DEF Target
  <2>3. Written(d, s, m) = [d EXCEPT !.status = s, !.identity =
                              IF s = "verified" /\ m THEN d.images ELSE d.identity]
    BY DEF Written, Target
  <2>. QED
    BY <2>1, <2>2, <2>3
<1>. QED
  BY <1>1, <1>2

(* The idle operation is typed.                                            *)
LEMMA IdleTyped == Idle \in Operation
BY TargetTyped, FirmwareConstantsOK DEF Operation, Idle, Places, Statuses

(* So is one that moves on,                                                *)
LEMMA MovedTyped ==
  ASSUME NEW o \in Operation, NEW place \in Places
  PROVE  /\ [o EXCEPT !.at = place] \in Operation
         /\ \A b \in BOOLEAN : [o EXCEPT !.at = place, !.got = b] \in Operation
         /\ \A d \in Target : [o EXCEPT !.at = place, !.read = d] \in Operation
         /\ \A s \in Statuses, b \in BOOLEAN :
              [o EXCEPT !.at = place, !.want = s, !.migrate = b] \in Operation
BY ZenonT(60) DEF Operation

(* and one that is asked for.                                              *)
LEMMA AskedTyped ==
  ASSUME NEW k \in Kinds, NEW place \in Places, NEW g \in 0 .. MaxGen
  PROVE  /\ \A s \in SUBSET Files :
              [Idle EXCEPT !.kind = k, !.at = place, !.gen = g, !.images = s] \in Operation
         /\ \A d \in Target :
              [Idle EXCEPT !.kind = k, !.at = place, !.gen = g, !.read = d] \in Operation
BY IdleTyped, ZenonT(60) DEF Operation

(* The fields of typed records are typed.                                  *)
LEMMA FieldsTyped ==
  /\ \A d \in Target : /\ d.gen \in 0 .. MaxGen
                         /\ d.images \in SUBSET Files /\ d.identity \in SUBSET Files
  /\ \A o \in Operation : /\ o.gen \in 0 .. MaxGen /\ o.images \in SUBSET Files
                            /\ o.want \in Statuses /\ o.migrate \in BOOLEAN
                            /\ o.got \in BOOLEAN /\ o.read \in Target /\ o.at \in Places
BY DEF Target, Operation

(* A typed operation takes the place of another.                           *)
LEMMA BecomeTyped ==
  ASSUME op \in [Procs -> Operation], NEW p \in Procs, NEW o \in Operation, Become(p, o)
  PROVE  op' \in [Procs -> Operation]
BY DEF Become

(* Every step leaves the operations typed.                                 *)
LEMMA OperationTyped ==
  ASSUME TypeOK, NEW p \in Procs, Step(p)
  PROVE  op' \in [Procs -> Operation]
<1>. USE FirmwareConstantsOK, IdleTyped, FieldsTyped, BecomeTyped
<1>0. op[p] \in Operation /\ doc \in Target
  BY DEF TypeOK
<1>. USE <1>0, MovedTyped, AskedTyped DEF TypeOK, Goto, Setting, End, Places,
         Statuses, Kinds, Mutations
<1>1. CASE Ask(p)
  <2>1. PICK k \in Mutations \cup {"verify", "stale"}, f \in Files :
          Become(p, [Idle EXCEPT !.kind = k, !.at = "queued", !.gen = doc.gen,
                                 !.images = IF k = "flash" THEN {f} ELSE {}])
    BY <1>1, ZenonT(60) DEF Ask
  <2>2. (IF k = "flash" THEN {f} ELSE {}) \in SUBSET Files
    BY ZenonT(60)
  <2>. QED
    BY <2>1, <2>2, ZenonT(60)
<1>2. CASE AskConfigure(p)
  BY <1>2, ZenonT(60) DEF AskConfigure, FirstStep
<1>3. CASE Enter(p)
  <2>1. Sees(p, doc) \in BOOLEAN /\ Entered(op[p].kind) \in Places
    BY DEF Sees, Verified, Legacy, Entered
  <2>. QED
    BY <1>3, <2>1, ZenonT(60) DEF Enter
<1>4. CASE NotIssued(p)
  BY <1>4, ZenonT(60) DEF NotIssued
<1>5. CASE Program(p)
  <2>1. Associated(op[p].images) \in BOOLEAN
    BY ZenonT(60) DEF Associated
  <2>. QED
    BY <1>5, <2>1, ZenonT(60) DEF Program
<1>6. CASE Erase(p)
  BY <1>6, ZenonT(60) DEF Erase
<1>7. CASE Observed(p)
  BY <1>7, ZenonT(60) DEF Observed
<1>8. CASE ObserveFails(p)
  BY <1>8, ZenonT(60) DEF ObserveFails
<1>9. CASE Raw(p)
  BY <1>9, ZenonT(60) DEF Raw
<1>10. CASE Verify(p)
  BY <1>10, ZenonT(60) DEF Verify
<1>11. CASE FindStale(p)
  BY <1>11, ZenonT(60) DEF FindStale
<1>12. CASE Mark(p)
  BY <1>12, ZenonT(60) DEF Mark
<1>13. CASE MarkFails(p)
  BY <1>13, ZenonT(60) DEF MarkFails
<1>14. CASE Busy(p)
  BY <1>14, ZenonT(60) DEF Busy
<1>15. CASE Publish(p)
  BY <1>15, ZenonT(60) DEF Publish
<1>16. CASE PublishFails(p)
  BY <1>16, ZenonT(60) DEF PublishFails
<1>17. CASE Clear(p)
  BY <1>17, ZenonT(60) DEF Clear
<1>18. CASE ClearFails(p)
  BY <1>18, ZenonT(60) DEF ClearFails
<1>19. CASE Commit(p)
  BY <1>19, ZenonT(60) DEF Commit
<1>20. CASE CommitFails(p)
  BY <1>20, ZenonT(60) DEF CommitFails
<1>21. CASE ReadDocument(p)
  BY <1>21, ZenonT(60) DEF ReadDocument
<1>22. CASE ReadMarker(p)
  <2>1. Sees(p, op[p].read) \in BOOLEAN
    BY ZenonT(60) DEF Sees, Verified, Legacy
  <2>. QED
    BY <1>22, <2>1, ZenonT(60) DEF ReadMarker
<1>23. CASE Show(p)
  BY <1>23, ZenonT(60) DEF Show
<1>24. CASE Crash(p)
  BY <1>24 DEF Crash
<1>. QED
  BY <1>1, <1>2, <1>3, <1>4, <1>5, <1>6, <1>7, <1>8, <1>9, <1>10, <1>11, <1>12,
     <1>13, <1>14, <1>15, <1>16, <1>17, <1>18, <1>19, <1>20, <1>21, <1>22,
     <1>23, <1>24 DEF Step

(* A generation is only created below the bound.                           *)
Bounded ==
  \A p \in Procs :
    op[p].at = "commit" \/ (op[p].at = "queued" /\ op[p].kind = "configure")
      => op[p].gen < MaxGen

(* A configuration below the bound gives a typed record.                   *)
LEMMA ConfiguredTyped ==
  ASSUME TypeOK, doc.gen < MaxGen, NEW p \in Procs, NEW s \in SUBSET Files
  PROVE  Configured(p, s) \in Target
BY FirmwareConstantsOK DEF Configured, Target, TypeOK, Statuses
-----------------------------------------------------------------------------
(* What the actions do, field by field; actions that differ in nothing the *)
(* invariant speaks of are taken together.                                 *)
Returning(p) == NotIssued(p) \/ ObserveFails(p) \/ Busy(p) \/ CommitFails(p) \/ Show(p)
Issuing(p) == Program(p) \/ Erase(p) \/ Observed(p) \/ Raw(p) \/ Verify(p) \/ FindStale(p)
Ending(p) == PublishFails(p) \/ Clear(p) \/ ClearFails(p)
Looking(p) == ReadDocument(p) \/ ReadMarker(p)

Others(p) == \A q \in Procs \ {p} : op'[q] = op[q]

(* p has returned, and given up the slot if it had it.                     *)
Returned(p) == /\ Others(p)
               /\ op'[p].at = "idle" /\ op'[p].kind = "none"
               /\ slot' = IF slot = p THEN Nobody ELSE slot

(* p goes on with the operation it was asked for.                          *)
Same(p) == /\ Others(p)
           /\ op'[p].kind = op[p].kind /\ op'[p].gen = op[p].gen
           /\ op'[p].images = op[p].images

(* The operation of one process changes, the others do not.                *)
LEMMA BecomeEffect ==
  ASSUME TypeOK, NEW p \in Procs, NEW o, Become(p, o)
  PROVE  op'[p] = o /\ Others(p)
BY DEF Become, Others, TypeOK

(* Only the place changes.                                                 *)
LEMMA GotoEffect ==
  ASSUME TypeOK, NEW p \in Procs, NEW place, Goto(p, place)
  PROVE  /\ Same(p) /\ op'[p].at = place /\ op'[p].want = op[p].want
         /\ op'[p].got = op[p].got /\ op'[p].read = op[p].read
<1>1. op[p] \in Operation
  BY DEF TypeOK
<1>2. op'[p] = [op[p] EXCEPT !.at = place] /\ Others(p)
  BY BecomeEffect DEF Goto
<1>. QED
  BY <1>1, <1>2 DEF Operation, Same

(* p is about to set the status.                                           *)
WillSet(p, status) == /\ Same(p)
                      /\ op'[p].at = "mark" /\ op'[p].want = status
                      /\ op'[p].got = op[p].got

(* Setting leaves what the operation was asked for.                        *)
LEMMA SettingEffect ==
  ASSUME TypeOK, NEW p \in Procs, NEW s, NEW m, Setting(p, s, m)
  PROVE  WillSet(p, s)
<1>1. op[p] \in Operation
  BY DEF TypeOK
<1>2. op'[p] = [op[p] EXCEPT !.at = "mark", !.want = s, !.migrate = m] /\ Others(p)
  BY BecomeEffect DEF Setting
<1>. QED
  BY <1>1, <1>2 DEF Operation, Same, WillSet

(* The same, where the identity stays.                                     *)
LEMMA FallingEffect ==
  ASSUME TypeOK, NEW p \in Procs, NEW s, Setting(p, s, FALSE)
  PROVE  WillSet(p, s)
BY SettingEffect, Zenon

(* The caller has its answer.                                              *)
LEMMA EndEffect ==
  ASSUME TypeOK, NEW p \in Procs, End(p)
  PROVE  Returned(p)
BY BecomeEffect DEF End, Leave, Idle, Returned

(* A request waits, with the generation it was asked for.                  *)
LEMMA AskEffect ==
  ASSUME TypeOK, NEW p \in Procs, Ask(p)
  PROVE  /\ Others(p) /\ doc.gen > 0
         /\ UNCHANGED <<doc, markers, poison, lock, flash, slot, change, unsaid>>
         /\ op'[p].at = "queued" /\ op'[p].gen = doc.gen /\ op'[p].kind # "configure"
         /\ op'[p].kind = "flash" => op'[p].images # {}
<1>1. PICK k \in Mutations \cup {"verify", "stale"}, f \in Files :
        Become(p, [Idle EXCEPT !.kind = k, !.at = "queued", !.gen = doc.gen,
                               !.images = IF k = "flash" THEN {f} ELSE {}])
  BY DEF Ask
<1>2. k # "configure"
  BY DEF Mutations
<1>3. /\ op'[p] = [Idle EXCEPT !.kind = k, !.at = "queued", !.gen = doc.gen,
                               !.images = IF k = "flash" THEN {f} ELSE {}]
      /\ Others(p)
  BY <1>1, BecomeEffect
<1>4. doc.gen > 0 /\ UNCHANGED <<doc, markers, poison, lock, flash, slot, change, unsaid>>
  BY DEF Ask, store, ghosts
<1>. QED
  BY <1>2, <1>3, <1>4 DEF Idle

(* So does a configuration, unless the project is new.                     *)
LEMMA AskConfigureEffect ==
  ASSUME TypeOK, NEW p \in Procs, AskConfigure(p)
  PROVE  /\ Others(p) /\ doc.gen < MaxGen
         /\ UNCHANGED <<doc, markers, poison, lock, flash, slot, change, unsaid>>
         /\ op'[p].at = FirstStep /\ op'[p].gen = doc.gen
         /\ op'[p].kind = "configure" /\ op'[p].images \in ImageSets
<1>1. PICK s \in ImageSets :
        Become(p, [Idle EXCEPT !.kind = "configure", !.at = FirstStep,
                               !.gen = doc.gen, !.images = s])
  BY DEF AskConfigure
<1>2. /\ op'[p] = [Idle EXCEPT !.kind = "configure", !.at = FirstStep,
                               !.gen = doc.gen, !.images = s]
      /\ Others(p)
  BY <1>1, BecomeEffect
<1>3. /\ doc.gen < MaxGen
      /\ UNCHANGED <<doc, markers, poison, lock, flash, slot, change, unsaid>>
  BY DEF AskConfigure, store, ghosts
<1>. QED
  BY <1>2, <1>3 DEF Idle

(* The slot is had, or the target is another one.                          *)
LEMMA EnterEffect ==
  ASSUME TypeOK, NEW p \in Procs, Enter(p)
  PROVE  /\ Others(p) /\ op[p].at = "queued" /\ slot = Nobody
         /\ UNCHANGED <<doc, markers, poison, lock, flash, change, unsaid>>
         /\ \/ op'[p].at = "idle" /\ op'[p].kind = "none" /\ slot' = slot
            \/ /\ doc.gen = op[p].gen /\ slot' = p /\ Same(p)
               /\ op'[p].at = Entered(op[p].kind) /\ op'[p].got = Sees(p, doc)
<1>1. op[p] \in Operation
  BY DEF TypeOK
<1>0. /\ op[p].at = "queued" /\ slot = Nobody
      /\ UNCHANGED <<doc, markers, poison, lock, flash, change, unsaid>>
  BY DEF Enter, store, ghosts
<1>2. CASE doc.gen # op[p].gen
  BY <1>0, <1>2, BecomeEffect DEF Enter, Idle
<1>3. CASE doc.gen = op[p].gen
  <2>1. /\ op'[p] = [op[p] EXCEPT !.at = Entered(op[p].kind), !.got = Sees(p, doc)]
        /\ Others(p) /\ slot' = p
    BY <1>3, BecomeEffect DEF Enter
  <2>. QED
    BY <1>0, <1>1, <1>3, <2>1 DEF Operation, Same
<1>. QED
  BY <1>2, <1>3

(* A change that has not been reported is not reported by an excuse.       *)
Excused == change' = "reported" => change = "reported"

(* Ends at which nothing more is stored.                                   *)
LEMMA ReturningEffect ==
  ASSUME TypeOK, NEW p \in Procs, Returning(p)
  PROVE  /\ Returned(p) /\ Excused
         /\ UNCHANGED <<doc, markers, poison, lock, flash, unsaid>>
<1>1. End(p)
  BY DEF Returning, NotIssued, ObserveFails, Busy, CommitFails, Show
<1>2. /\ UNCHANGED <<doc, markers, poison, lock, flash, unsaid>>
      /\ Excuse \/ UNCHANGED change
  BY DEF Returning, NotIssued, ObserveFails, Busy, CommitFails, Show, store,
     ghosts
<1>3. Excused
  BY <1>2 DEF Excused, Excuse
<1>. QED
  BY <1>1, <1>2, <1>3, EndEffect

(* A status of verified is set for a file that was programmed, or for the  *)
(* configured images that were compared.                                   *)
Evidence(p) ==
  \/ op[p].kind = "flash" /\ op[p].images \subseteq flash' /\ op[p].images \subseteq doc.images
  \/ doc.images \subseteq flash'

(* Everything between the slot and the store.                              *)
LEMMA IssuingEffect ==
  ASSUME TypeOK, NEW p \in Procs, Issuing(p)
  PROVE  /\ Same(p) /\ op[p].at \in {"issue", "observe"} /\ op'[p].at \in {"observe", "mark"}
         /\ op[p].at = "observe" => op'[p].want # "verified"
         /\ op'[p].got = op[p].got
         /\ UNCHANGED <<doc, markers, poison, lock, slot, unsaid>>
         /\ op'[p].at = "mark" /\ op'[p].want = "verified" => Evidence(p)
         /\ UNCHANGED <<flash, change>> \/ (change' = "pending" /\ op[p].at = "issue")
<1>0. UNCHANGED <<doc, markers, poison, lock, slot, unsaid>>
  BY DEF Issuing, Program, Erase, Observed, Raw, Verify, FindStale, store,
     ghosts
<1>. USE <1>0
<1>1. CASE Program(p)
  <2>1. /\ op[p].at = "issue" /\ op[p].kind = "flash" /\ change' = "pending"
    BY <1>1 DEF Program, At
  <2>2. CASE /\ op[p].images \subseteq flash'
             /\ Setting(p, IF Associated(op[p].images) THEN "verified" ELSE "unverified",
                        Associated(op[p].images))
    BY <2>1, <2>2, SettingEffect DEF Associated, Evidence, WillSet
  <2>3. CASE Setting(p, "unverified", FALSE)
    <3>1. WillSet(p, "unverified")
      BY <2>3, FallingEffect, Zenon
    <3>. QED
      BY <2>1, <3>1 DEF WillSet
  <2>. QED
    BY <1>1, <2>2, <2>3 DEF Program
<1>2. CASE Erase(p)
  <2>1. op[p].at = "issue" /\ change' = "pending"
    BY <1>2 DEF Erase, At
  <2>2. CASE Goto(p, "observe")
    BY <2>1, <2>2, GotoEffect
  <2>3. CASE Setting(p, "mismatch", FALSE)
    <3>1. WillSet(p, "mismatch")
      BY <2>3, FallingEffect, Zenon
    <3>. QED
      BY <2>1, <3>1 DEF WillSet
  <2>. QED
    BY <1>2, <2>2, <2>3 DEF Erase
<1>3. CASE Observed(p)
  <2>1. op[p].at = "observe" /\ UNCHANGED <<flash, change>> /\ Setting(p, "mismatch", FALSE)
    BY <1>3 DEF Observed, ghosts
  <2>2. WillSet(p, "mismatch")
    BY <2>1, FallingEffect, Zenon
  <2>. QED
    BY <2>1, <2>2 DEF WillSet
<1>4. CASE Raw(p)
  <2>1. op[p].at = "issue" /\ change' = "pending" /\ Setting(p, "unverified", FALSE)
    BY <1>4 DEF Raw, At
  <2>2. WillSet(p, "unverified")
    BY <2>1, FallingEffect, Zenon
  <2>. QED
    BY <2>1, <2>2 DEF WillSet
<1>5. CASE Verify(p)
  <2>1. op[p].at = "issue" /\ UNCHANGED <<flash, change>>
    BY <1>5 DEF Verify, At, ghosts
  <2>2. CASE Setting(p, IF Matches(doc.images) THEN "verified" ELSE "mismatch", FALSE)
    <3>1. WillSet(p, IF Matches(doc.images) THEN "verified" ELSE "mismatch")
      BY <2>2, FallingEffect, Zenon
    <3>. QED
      BY <2>1, <3>1 DEF WillSet, Matches, Evidence
  <2>3. CASE Setting(p, "unverified", FALSE)
    <3>1. WillSet(p, "unverified")
      BY <2>3, FallingEffect, Zenon
    <3>. QED
      BY <2>1, <3>1 DEF WillSet
  <2>. QED
    BY <1>5, <2>2, <2>3 DEF Verify
<1>6. CASE FindStale(p)
  <2>1. /\ op[p].at = "issue" /\ UNCHANGED <<flash, change>>
        /\ Setting(p, "unverified", FALSE)
    BY <1>6 DEF FindStale, At, ghosts
  <2>2. WillSet(p, "unverified")
    BY <2>1, FallingEffect, Zenon
  <2>. QED
    BY <2>1, <2>2 DEF WillSet
<1>. QED
  BY <1>1, <1>2, <1>3, <1>4, <1>5, <1>6 DEF Issuing

(* The marker goes up, in memory and on disk.                              *)
LEMMA MarkEffect ==
  ASSUME TypeOK, SlotInv, NEW p \in Procs, Mark(p)
  PROVE  /\ Same(p) /\ op[p].at = "mark" /\ lock = Nobody /\ lock' = p
         /\ UNCHANGED <<doc, slot, flash>>
         /\ poison' = [poison EXCEPT ![p] = @ \cup {doc.gen}]
         /\ markers' = markers \cup {doc.gen}
         /\ unsaid' = {u \in unsaid : u[2] # doc.gen}
         /\ op'[p].at = "publish" /\ op'[p].read = doc /\ op'[p].want = op[p].want
<1>0. op[p].at = "mark" /\ lock = Nobody
  BY DEF Mark
<1>. doc.gen = op[p].gen
  BY <1>0 DEF SlotInv, InSlot, Holds
<1>1. op[p] \in Operation
  BY DEF TypeOK
<1>2. op'[p] = [op[p] EXCEPT !.at = "publish", !.read = doc] /\ Others(p)
  BY BecomeEffect DEF Mark
<1>3. /\ op[p].at = "mark" /\ lock = Nobody /\ lock' = p
      /\ UNCHANGED <<doc, slot, flash>>
      /\ poison' = [poison EXCEPT ![p] = @ \cup {doc.gen}]
      /\ markers' = markers \cup {doc.gen}
      /\ unsaid' = {u \in unsaid : u[2] # doc.gen}
  BY DEF Mark
<1>. QED
  BY <1>1, <1>2, <1>3 DEF Operation, Same

(* The marker goes up in memory only.                                      *)
LEMMA MarkFailsEffect ==
  ASSUME TypeOK, NEW p \in Procs, MarkFails(p)
  PROVE  /\ Returned(p) /\ Excused /\ lock = Nobody
         /\ UNCHANGED <<doc, markers, lock, flash>>
         /\ poison' = [poison EXCEPT ![p] = @ \cup {doc.gen}]
         /\ unsaid' = unsaid \cup {<<p, doc.gen>>}
<1>1. End(p) /\ Excuse /\ lock = Nobody /\ UNCHANGED <<doc, markers, lock, flash>>
  BY DEF MarkFails
<1>2. /\ poison' = [poison EXCEPT ![p] = @ \cup {doc.gen}]
      /\ unsaid' = unsaid \cup {<<p, doc.gen>>}
  BY DEF MarkFails, Poisoned, TypeOK
<1>. QED
  BY <1>1, <1>2, EndEffect DEF Excuse, Excused

(* The document is replaced.                                               *)
LEMMA PublishEffect ==
  ASSUME TypeOK, NEW p \in Procs, Publish(p)
  PROVE  /\ Same(p) /\ op[p].at = "publish" /\ op'[p].at = "clear"
         /\ op'[p].want = op[p].want
         /\ doc' = Written(op[p].read, op[p].want, op[p].migrate)
         /\ UNCHANGED <<markers, poison, lock, flash, slot, change, unsaid>>
<1>1. /\ op[p].at = "publish" /\ Goto(p, "clear")
      /\ doc' = Written(op[p].read, op[p].want, op[p].migrate)
      /\ UNCHANGED <<markers, poison, lock, flash, slot, change, unsaid>>
  BY DEF Publish, ghosts
<1>. QED
  BY <1>1, GotoEffect

(* The lock is given up, with the marker or without.                       *)
LEMMA EndingEffect ==
  ASSUME TypeOK, NEW p \in Procs, Ending(p)
  PROVE  /\ Returned(p) /\ op[p].at \in {"publish", "clear"} /\ lock' = Nobody
         /\ UNCHANGED <<doc, flash, change, unsaid>>
         /\ \/ UNCHANGED <<markers, poison>>
            \/ /\ op[p].at = "clear"
               /\ markers' = markers \ {op[p].gen}
               /\ poison' = [poison EXCEPT ![p] = @ \ {op[p].gen}]
<1>1. End(p) /\ op[p].at \in {"publish", "clear"} /\ lock' = Nobody
  BY DEF Ending, PublishFails, Clear, ClearFails
<1>2. /\ UNCHANGED <<doc, flash, change, unsaid>>
      /\ \/ UNCHANGED <<markers, poison>>
         \/ /\ op[p].at = "clear"
            /\ markers' = markers \ {op[p].gen}
            /\ poison' = [poison EXCEPT ![p] = @ \ {op[p].gen}]
  BY DEF Ending, PublishFails, Clear, ClearFails, AfterFailure, ghosts
<1>. QED
  BY <1>1, <1>2, EndEffect

(* A configuration, or none if another came first.                         *)
LEMMA CommitEffect ==
  ASSUME TypeOK, NEW p \in Procs, Commit(p)
  PROVE  /\ Returned(p) /\ op[p].at = "commit" /\ lock = Nobody
         /\ doc' = IF doc.gen = op[p].gen THEN Configured(p, op[p].images) ELSE doc
         /\ UNCHANGED <<markers, poison, lock, flash, change, unsaid>>
<1>1. /\ End(p) /\ op[p].at = "commit" /\ lock = Nobody
      /\ doc' = IF doc.gen = op[p].gen THEN Configured(p, op[p].images) ELSE doc
      /\ UNCHANGED <<markers, poison, lock, flash, change, unsaid>>
  BY DEF Commit, ghosts
<1>. QED
  BY <1>1, EndEffect

(* Status reads change nothing.                                            *)
LEMMA LookingEffect ==
  ASSUME TypeOK, NEW p \in Procs, Looking(p)
  PROVE  /\ Others(p) /\ op'[p].at \in {"marker", "shown"}
         /\ UNCHANGED <<doc, markers, poison, lock, flash, slot, change, unsaid>>
<1>0. UNCHANGED <<doc, markers, poison, lock, flash, slot, change, unsaid>>
  BY DEF Looking, ReadDocument, ReadMarker, store, ghosts
<1>1. CASE ReadDocument(p)
  <2>1. /\ op'[p] = [Idle EXCEPT !.kind = "status", !.at = "marker",
                                 !.gen = doc.gen, !.read = doc]
        /\ Others(p)
    BY <1>1, BecomeEffect DEF ReadDocument
  <2>. QED
    BY <1>0, <2>1 DEF Idle
<1>2. CASE ReadMarker(p)
  <2>1. op[p] \in Operation
    BY DEF TypeOK
  <2>2. PICK b : op'[p] = [op[p] EXCEPT !.at = "shown", !.got = b] /\ Others(p)
    BY <1>2, BecomeEffect DEF ReadMarker
  <2>. QED
    BY <1>0, <2>1, <2>2 DEF Operation
<1>. QED
  BY <1>1, <1>2 DEF Looking

(* A dead process leaves disk and flash as they are.                       *)
LEMMA CrashEffect ==
  ASSUME TypeOK, NEW p \in Procs, Crash(p)
  PROVE  /\ Returned(p) /\ Excused
         /\ lock' = IF lock = p THEN Nobody ELSE lock
         /\ poison' = [poison EXCEPT ![p] = {}]
         /\ unsaid' = {u \in unsaid : u[1] # p}
         /\ UNCHANGED <<doc, markers, flash>>
<1>1. Others(p) /\ op'[p] = Idle
  BY BecomeEffect DEF Crash
<1>2. /\ lock' = IF lock = p THEN Nobody ELSE lock
      /\ poison' = [poison EXCEPT ![p] = {}]
      /\ unsaid' = {u \in unsaid : u[1] # p}
      /\ slot' = IF slot = p THEN Nobody ELSE slot
      /\ UNCHANGED <<doc, markers, flash>>
  BY DEF Crash, Leave
<1>3. Excused
  BY DEF Crash, Excuse, Excused
<1>. QED
  BY <1>1, <1>2, <1>3 DEF Idle, Returned

(* Every step is one of these.                                             *)
LEMMA StepParts ==
  ASSUME NEW p \in Procs, Step(p)
  PROVE  \/ Ask(p) \/ AskConfigure(p) \/ Enter(p) \/ Returning(p) \/ Issuing(p)
         \/ Mark(p) \/ MarkFails(p) \/ Publish(p) \/ Ending(p) \/ Commit(p)
         \/ Looking(p) \/ Crash(p)
BY DEF Step, Returning, Issuing, Ending, Looking


(* The other variables keep their types too.                               *)
LEMMA VariablesTyped ==
  ASSUME TypeOK, Bounded, NEW p \in Procs, Step(p)
  PROVE  /\ doc' \in Target /\ markers' \subseteq 0 .. MaxGen
         /\ poison' \in [Procs -> SUBSET (0 .. MaxGen)]
         /\ flash' \subseteq Files /\ slot' \in Procs \cup {Nobody} /\ lock' \in Procs \cup {Nobody}
         /\ crashes' \in 0 .. MaxCrashes
         /\ change' \in {"reported", "pending", "excused"}
         /\ unsaid' \subseteq Procs \X (0 .. MaxGen)
<1>. USE FirmwareConstantsOK
<1>0. op[p] \in Operation /\ doc \in Target
  BY DEF TypeOK
<1>. USE <1>0, FieldsTyped DEF TypeOK, End, Leave, Excuse, store, ghosts
<1>1. CASE Ask(p)
  BY <1>1 DEF Ask
<1>2. CASE AskConfigure(p)
  BY <1>2 DEF AskConfigure
<1>3. CASE Enter(p)
  BY <1>3 DEF Enter
<1>4. CASE NotIssued(p)
  BY <1>4 DEF NotIssued
<1>5. CASE Program(p)
  BY <1>5 DEF Program
<1>6. CASE Erase(p)
  BY <1>6 DEF Erase
<1>7. CASE Observed(p)
  BY <1>7 DEF Observed
<1>8. CASE ObserveFails(p)
  BY <1>8 DEF ObserveFails
<1>9. CASE Raw(p)
  BY <1>9 DEF Raw
<1>10. CASE Verify(p)
  BY <1>10 DEF Verify
<1>11. CASE FindStale(p)
  BY <1>11 DEF FindStale
<1>12. CASE Mark(p)
  BY <1>12 DEF Mark, Setting
<1>13. CASE MarkFails(p)
  BY <1>13 DEF MarkFails, Poisoned
<1>14. CASE Busy(p)
  BY <1>14 DEF Busy
<1>15. CASE Publish(p)
  <2>1. Written(op[p].read, op[p].want, op[p].migrate) \in Target
    BY TargetTyped DEF TypeOK
  <2>. QED
    BY <1>15, <2>1 DEF Publish
<1>16. CASE PublishFails(p)
  BY <1>16 DEF PublishFails, AfterFailure
<1>17. CASE Clear(p)
  BY <1>17 DEF Clear
<1>18. CASE ClearFails(p)
  BY <1>18 DEF ClearFails
<1>19. CASE Commit(p)
  <2>1. doc' \in Target
    BY <1>19, ConfiguredTyped DEF Commit, Bounded, TypeOK
  <2>. QED
    BY <1>19, <2>1 DEF Commit
<1>20. CASE CommitFails(p)
  BY <1>20 DEF CommitFails
<1>21. CASE ReadDocument(p)
  BY <1>21 DEF ReadDocument
<1>22. CASE ReadMarker(p)
  BY <1>22 DEF ReadMarker
<1>23. CASE Show(p)
  BY <1>23 DEF Show
<1>24. CASE Crash(p)
  BY <1>24 DEF Crash
<1>. QED
  BY <1>1, <1>2, <1>3, <1>4, <1>5, <1>6, <1>7, <1>8, <1>9, <1>10, <1>11, <1>12,
     <1>13, <1>14, <1>15, <1>16, <1>17, <1>18, <1>19, <1>20, <1>21, <1>22,
     <1>23, <1>24 DEF Step

-----------------------------------------------------------------------------
(* The parts of the invariant, one after the other.                        *)
StateInv == /\ TypeOK /\ Bounded
            /\ SlotInv /\ SettingInv /\ ConfigInv
            /\ SeenInv /\ UnsaidInv

(* For one image at a time: the status has its evidence.                   *)
IInv == StateInv /\ EvidenceInv /\ VerifiedIsProgrammed

(* What an update leaves of the record.                                    *)
LEMMA WrittenFields ==
  ASSUME NEW d \in Target, NEW s, NEW m
  PROVE  /\ Written(d, s, m).gen = d.gen /\ Written(d, s, m).images = d.images
         /\ Written(d, s, m).status = s
         /\ Written(d, s, m).identity \in {d.identity, d.images}
BY DEF Written, Target

LEMMA ConfiguredFields ==
  ASSUME NEW p, NEW s
  PROVE  /\ Configured(p, s).gen = doc.gen + 1 /\ Configured(p, s).images = s
         /\ Configured(p, s).identity = s
         /\ Configured(p, s).status = "verified" => Preserves(p, s)
BY DEF Configured

(* What the two updates of the record do to it.                            *)
LEMMA PublishedDoc ==
  ASSUME TypeOK, SettingInv, NEW p \in Procs, Publish(p)
  PROVE  /\ doc'.gen = doc.gen /\ doc'.images = doc.images
         /\ doc'.status = op[p].want
         /\ doc'.identity \in {doc.identity, doc.images}
<1>1. doc' = Written(doc, op[p].want, op[p].migrate) /\ doc \in Target
  BY PublishEffect DEF SettingInv, TypeOK
<1>. QED
  BY <1>1, WrittenFields

(* Nobody's operation is in the slot when a configuration is committed.    *)
LEMMA CommittedDoc ==
  ASSUME TypeOK, SlotInv, NEW p \in Procs, Commit(p), doc' # doc
  PROVE  /\ doc'.gen = doc.gen + 1 /\ doc.gen = op[p].gen
         /\ doc'.images = op[p].images /\ doc'.identity = op[p].images
         /\ doc'.status = "verified" => Preserves(p, op[p].images)
         /\ \A q \in Procs : op[q].at \notin InSlot
         /\ \A q \in Procs \ {p} : op[q].at = "commit" => op[q].gen = 0
<1>1. /\ op[p].at = "commit" /\ doc.gen = op[p].gen
      /\ doc' = Configured(p, op[p].images)
  BY CommitEffect
<1>2. Holds(p) \/ doc.gen = 0
  BY <1>1 DEF SlotInv
<1>3. doc.gen \in Nat
  BY FieldsTyped, FirmwareConstantsOK DEF TypeOK
<1>4. ASSUME NEW q \in Procs, Holds(q)
      PROVE  q = p
  BY <1>2, <1>3, <1>4 DEF Holds
<1>5. \A q \in Procs : op[q].at \notin InSlot
  BY <1>1, <1>4 DEF SlotInv, InSlot
<1>6. \A q \in Procs \ {p} : op[q].at = "commit" => op[q].gen = 0
  BY <1>4 DEF SlotInv
<1>. QED
  BY <1>1, <1>5, <1>6, ConfiguredFields

(* No generation is created beyond the bound.                              *)
LEMMA BoundedStep ==
  ASSUME StateInv, NEW p \in Procs, Step(p)
  PROVE  Bounded'
<1>. USE DEF StateInv, Bounded, Others, Same, Returned
<1>1. CASE Ask(p)
  BY <1>1, AskEffect
<1>2. CASE AskConfigure(p)
  BY <1>2, AskConfigureEffect DEF FirstStep
<1>3. CASE Enter(p)
  BY <1>3, EnterEffect DEF Entered
<1>4. CASE Returning(p)
  BY <1>4, ReturningEffect
<1>5. CASE Issuing(p)
  BY <1>5, IssuingEffect
<1>6. CASE Mark(p)
  BY <1>6, MarkEffect
<1>7. CASE MarkFails(p)
  BY <1>7, MarkFailsEffect
<1>8. CASE Publish(p)
  BY <1>8, PublishEffect
<1>9. CASE Ending(p)
  BY <1>9, EndingEffect
<1>10. CASE Commit(p)
  BY <1>10, CommitEffect
<1>11. CASE Looking(p)
  BY <1>11, LookingEffect
<1>12. CASE Crash(p)
  BY <1>12, CrashEffect
<1>. QED
  BY <1>1, <1>2, <1>3, <1>4, <1>5, <1>6, <1>7, <1>8, <1>9, <1>10, <1>11, <1>12,
     StepParts

(* The slot and the lock stay with who is past them.                       *)
LEMMA SlotStep ==
  ASSUME StateInv, NEW p \in Procs, Step(p)
  PROVE  SlotInv'
<1>0. /\ Nobody \notin Procs /\ doc.gen \in Nat
  BY FieldsTyped, FirmwareConstantsOK DEF StateInv, TypeOK
<1>. USE <1>0 DEF StateInv, SlotInv, Holds, InSlot, InLock, Others, Same,
         Returned
<1>1. CASE Ask(p)
  BY <1>1, AskEffect
<1>2. CASE AskConfigure(p)
  BY <1>2, AskConfigureEffect DEF FirstStep
<1>3. CASE Enter(p)
  BY <1>3, EnterEffect DEF Entered
<1>4. CASE Returning(p)
  BY <1>4, ReturningEffect
<1>5. CASE Issuing(p)
  BY <1>5, IssuingEffect
<1>6. CASE Mark(p)
  BY <1>6, MarkEffect
<1>7. CASE MarkFails(p)
  BY <1>7, MarkFailsEffect
<1>8. CASE Publish(p)
  BY <1>8, PublishEffect, PublishedDoc
<1>9. CASE Ending(p)
  BY <1>9, EndingEffect
<1>10. CASE Commit(p)
  BY <1>10, CommitEffect, CommittedDoc
<1>11. CASE Looking(p)
  BY <1>11, LookingEffect
<1>12. CASE Crash(p)
  BY <1>12, CrashEffect
<1>. QED
  BY <1>1, <1>2, <1>3, <1>4, <1>5, <1>6, <1>7, <1>8, <1>9, <1>10, <1>11, <1>12,
     StepParts

(* The lock keeps the record, and its marker, as setArtifactMatch found    *)
(* it.                                                                     *)
LEMMA SettingStep ==
  ASSUME StateInv, NEW p \in Procs, Step(p)
  PROVE  SettingInv'
<1>. USE FirmwareConstantsOK DEF StateInv, SlotInv, SettingInv, Holds, InSlot,
         InLock, Others, Same, Returned
<1>1. CASE Ask(p)
  BY <1>1, AskEffect
<1>2. CASE AskConfigure(p)
  BY <1>2, AskConfigureEffect DEF FirstStep
<1>3. CASE Enter(p)
  BY <1>3, EnterEffect DEF Entered
<1>4. CASE Returning(p)
  BY <1>4, ReturningEffect
<1>5. CASE Issuing(p)
  BY <1>5, IssuingEffect
<1>6. CASE Mark(p)
  BY <1>6, MarkEffect
<1>7. CASE MarkFails(p)
  BY <1>7, MarkFailsEffect
<1>8. CASE Publish(p)
  BY <1>8, PublishEffect, PublishedDoc
<1>9. CASE Ending(p)
  BY <1>9, EndingEffect
<1>10. CASE Commit(p)
  BY <1>10, CommitEffect, CommittedDoc
<1>11. CASE Looking(p)
  BY <1>11, LookingEffect
<1>12. CASE Crash(p)
  BY <1>12, CrashEffect
<1>. QED
  BY <1>1, <1>2, <1>3, <1>4, <1>5, <1>6, <1>7, <1>8, <1>9, <1>10, <1>11, <1>12,
     StepParts

(* The evidence lasts until the status is set: the slot keeps out whoever  *)
(* could change the flash or the images.                                   *)
LEMMA EvidenceStep ==
  ASSUME StateInv, EvidenceInv, SingleImage, NEW p \in Procs, Step(p)
  PROVE  EvidenceInv'
<1>. USE DEF StateInv, SlotInv, EvidenceInv, Holds, InSlot, Others, Same,
         Returned
<1>1. CASE Ask(p)
  BY <1>1, AskEffect
<1>2. CASE AskConfigure(p)
  BY <1>2, AskConfigureEffect DEF FirstStep
<1>3. CASE Enter(p)
  BY <1>3, EnterEffect DEF Entered
<1>4. CASE Returning(p)
  BY <1>4, ReturningEffect
<1>5. CASE Issuing(p)
  BY <1>5, IssuingEffect DEF Evidence, ConfigInv, SingleImage
<1>6. CASE Mark(p)
  BY <1>6, MarkEffect
<1>7. CASE MarkFails(p)
  BY <1>7, MarkFailsEffect
<1>8. CASE Publish(p)
  BY <1>8, PublishEffect, PublishedDoc
<1>9. CASE Ending(p)
  BY <1>9, EndingEffect
<1>10. CASE Commit(p)
  BY <1>10, CommitEffect, CommittedDoc
<1>11. CASE Looking(p)
  BY <1>11, LookingEffect
<1>12. CASE Crash(p)
  BY <1>12, CrashEffect
<1>. QED
  BY <1>1, <1>2, <1>3, <1>4, <1>5, <1>6, <1>7, <1>8, <1>9, <1>10, <1>11, <1>12,
     StepParts

(* Images and identity come from configurations only.                      *)
LEMMA ConfigStep ==
  ASSUME StateInv, NEW p \in Procs, Step(p)
  PROVE  ConfigInv'
<1>. USE DEF StateInv, ConfigInv, Others, Same, Returned
<1>1. CASE Ask(p)
  BY <1>1, AskEffect
<1>2. CASE AskConfigure(p)
  BY <1>2, AskConfigureEffect DEF FirstStep
<1>3. CASE Enter(p)
  BY <1>3, EnterEffect DEF Entered
<1>4. CASE Returning(p)
  BY <1>4, ReturningEffect
<1>5. CASE Issuing(p)
  BY <1>5, IssuingEffect
<1>6. CASE Mark(p)
  BY <1>6, MarkEffect
<1>7. CASE MarkFails(p)
  BY <1>7, MarkFailsEffect
<1>8. CASE Publish(p)
  BY <1>8, PublishEffect, PublishedDoc
<1>9. CASE Ending(p)
  BY <1>9, EndingEffect
<1>10. CASE Commit(p)
  BY <1>10, CommitEffect, CommittedDoc
<1>11. CASE Looking(p)
  BY <1>11, LookingEffect
<1>12. CASE Crash(p)
  BY <1>12, CrashEffect
<1>. QED
  BY <1>1, <1>2, <1>3, <1>4, <1>5, <1>6, <1>7, <1>8, <1>9, <1>10, <1>11, <1>12,
     StepParts

(* What was verified on entry stays so until the operation marks it.       *)
LEMMA SeenStep ==
  ASSUME StateInv, NEW p \in Procs, Step(p)
  PROVE  SeenInv'
<1>. USE DEF StateInv, SlotInv, SeenInv, Holds, InSlot, Others, Same, Returned,
         Verified
<1>1. CASE Ask(p)
  BY <1>1, AskEffect
<1>2. CASE AskConfigure(p)
  BY <1>2, AskConfigureEffect DEF FirstStep
<1>3. CASE Enter(p)
  BY <1>3, EnterEffect DEF Entered, Sees
<1>4. CASE Returning(p)
  BY <1>4, ReturningEffect
<1>5. CASE Issuing(p)
  BY <1>5, IssuingEffect
<1>6. CASE Mark(p)
  BY <1>6, MarkEffect
<1>7. CASE MarkFails(p)
  BY <1>7, MarkFailsEffect
<1>8. CASE Publish(p)
  BY <1>8, PublishEffect, PublishedDoc
<1>9. CASE Ending(p)
  BY <1>9, EndingEffect
<1>10. CASE Commit(p)
  BY <1>10, CommitEffect, CommittedDoc
<1>11. CASE Looking(p)
  BY <1>11, LookingEffect
<1>12. CASE Crash(p)
  BY <1>12, CrashEffect
<1>. QED
  BY <1>1, <1>2, <1>3, <1>4, <1>5, <1>6, <1>7, <1>8, <1>9, <1>10, <1>11, <1>12,
     StepParts

(* What could not be said stays poisoned until the marker is written.      *)
LEMMA UnsaidStep ==
  ASSUME StateInv, NEW p \in Procs, Step(p)
  PROVE  UnsaidInv'
<1>. USE FirmwareConstantsOK DEF StateInv, TypeOK, SlotInv, UnsaidInv, Holds,
         InSlot, InLock, Others, Same, Returned
<1>1. CASE Ask(p)
  BY <1>1, AskEffect
<1>2. CASE AskConfigure(p)
  BY <1>2, AskConfigureEffect DEF FirstStep
<1>3. CASE Enter(p)
  BY <1>3, EnterEffect DEF Entered
<1>4. CASE Returning(p)
  BY <1>4, ReturningEffect
<1>5. CASE Issuing(p)
  BY <1>5, IssuingEffect
<1>6. CASE Mark(p)
  BY <1>6, MarkEffect
<1>7. CASE MarkFails(p)
  BY <1>7, MarkFailsEffect
<1>8. CASE Publish(p)
  BY <1>8, PublishEffect, PublishedDoc
<1>9. CASE Ending(p)
  BY <1>9, EndingEffect
<1>10. CASE Commit(p)
  <2>1. UNCHANGED <<unsaid, poison>> /\ Returned(p)
    BY <1>10, CommitEffect
  <2>2. CASE doc' = doc
    BY <2>1, <2>2
  <2>3. CASE doc' # doc
    BY <1>10, <2>1, <2>3, CommittedDoc
  <2>. QED
    BY <2>2, <2>3
<1>11. CASE Looking(p)
  BY <1>11, LookingEffect
<1>12. CASE Crash(p)
  BY <1>12, CrashEffect
<1>. QED
  BY <1>1, <1>2, <1>3, <1>4, <1>5, <1>6, <1>7, <1>8, <1>9, <1>10, <1>11, <1>12,
     StepParts

(* A record becomes verified when its marker goes, with the evidence.      *)
LEMMA ProgrammedStep ==
  ASSUME IInv, NEW p \in Procs, Step(p)
  PROVE  VerifiedIsProgrammed'
<1>. USE DEF IInv, StateInv, SlotInv, SettingInv, EvidenceInv,
         VerifiedIsProgrammed, Holds, InSlot, InLock, Excused, Verified
<1>1. CASE Ask(p)
  BY <1>1, AskEffect
<1>2. CASE AskConfigure(p)
  BY <1>2, AskConfigureEffect
<1>3. CASE Enter(p)
  BY <1>3, EnterEffect
<1>4. CASE Returning(p)
  BY <1>4, ReturningEffect
<1>5. CASE Issuing(p)
  BY <1>5, IssuingEffect
<1>6. CASE Mark(p)
  BY <1>6, MarkEffect
<1>7. CASE MarkFails(p)
  BY <1>7, MarkFailsEffect
<1>8. CASE Publish(p)
  BY <1>8, PublishEffect, PublishedDoc
<1>9. CASE Ending(p)
  BY <1>9, EndingEffect
<1>10. CASE Commit(p)
  BY <1>10, CommitEffect, CommittedDoc DEF Preserves, Sees, ConfigInv
<1>11. CASE Looking(p)
  BY <1>11, LookingEffect
<1>12. CASE Crash(p)
  BY <1>12, CrashEffect
<1>. QED
  BY <1>1, <1>2, <1>3, <1>4, <1>5, <1>6, <1>7, <1>8, <1>9, <1>10, <1>11, <1>12,
     StepParts

(* Every step keeps the types.                                             *)
LEMMA TypesStep ==
  ASSUME StateInv, NEW p \in Procs, Step(p), Witness
  PROVE  TypeOK'
<1>1. op' \in [Procs -> Operation]
  BY OperationTyped DEF StateInv
<1>2. /\ doc' \in Target /\ markers' \subseteq 0 .. MaxGen
      /\ poison' \in [Procs -> SUBSET (0 .. MaxGen)]
      /\ flash' \subseteq Files /\ slot' \in Procs \cup {Nobody} /\ lock' \in Procs \cup {Nobody}
      /\ crashes' \in 0 .. MaxCrashes
      /\ change' \in {"reported", "pending", "excused"}
      /\ unsaid' \subseteq Procs \X (0 .. MaxGen)
  BY VariablesTyped DEF StateInv
<1>3. genuine' \in [Procs -> BOOLEAN]
  BY DEF Witness, Reading, StateInv, TypeOK, Verified, Legacy
<1>. QED
  BY <1>1, <1>2, <1>3 DEF TypeOK

(* A stuttering step keeps everything.                                     *)
LEMMA StutterKeeps ==
  ASSUME UNCHANGED vars
  PROVE  /\ StateInv => StateInv'
         /\ EvidenceInv => EvidenceInv'
         /\ VerifiedIsProgrammed => VerifiedIsProgrammed'
<1>. USE DEF vars, store, ghosts
<1>1. TypeOK /\ Bounded => TypeOK' /\ Bounded'
  BY DEF TypeOK, Bounded
<1>2. SlotInv /\ SettingInv /\ ConfigInv => SlotInv' /\ SettingInv' /\ ConfigInv'
  BY DEF SlotInv, SettingInv, ConfigInv, Holds
<1>3. SeenInv /\ UnsaidInv => SeenInv' /\ UnsaidInv'
  BY DEF SeenInv, UnsaidInv, Verified, Legacy
<1>4. EvidenceInv => EvidenceInv'
  BY DEF EvidenceInv
<1>5. VerifiedIsProgrammed => VerifiedIsProgrammed'
  BY DEF VerifiedIsProgrammed, Verified, Legacy
<1>. QED
  BY <1>1, <1>2, <1>3, <1>4, <1>5 DEF StateInv

(* A fresh installation, or an old record, satisfies the invariant.        *)
LEMMA InitHolds == Init => IInv
<1>. SUFFICES ASSUME Init PROVE IInv
  OBVIOUS
<1>0. \A p \in Procs : op[p] = Idle
  BY DEF Init
<1>1. /\ doc.identity = {} /\ doc.images \in ImageSets \cup {{}} /\ doc.gen \in 0 .. MaxGen
      /\ doc \in Target
      /\ doc.images = {} => doc.status = "unverified"
  BY FirmwareConstantsOK DEF Init, Unconfigured, Target, Statuses
<1>2. TypeOK
  <2>1. genuine \in [Procs -> BOOLEAN] /\ poison \in [Procs -> SUBSET (0 .. MaxGen)]
    BY DEF Init
  <2>2. op \in [Procs -> Operation]
    BY IdleTyped DEF Init
  <2>. QED
    BY <1>1, <2>1, <2>2, FirmwareConstantsOK DEF Init, TypeOK
<1>3. Bounded /\ SlotInv /\ SettingInv /\ EvidenceInv /\ ConfigInv /\ SeenInv
  BY <1>0, <1>1 DEF Idle, Bounded, SlotInv, SettingInv, EvidenceInv, ConfigInv,
     SeenInv, InSlot, InLock
<1>4. UnsaidInv
  BY <1>0 DEF Init, UnsaidInv, Idle, InLock
<1>5. VerifiedIsProgrammed
  BY <1>1 DEF VerifiedIsProgrammed, Verified, Legacy
<1>. QED
  BY <1>2, <1>3, <1>4, <1>5 DEF IInv, StateInv

(* The part that holds for any sets of images is inductive.                *)
LEMMA StateInductive == StateInv /\ [Next]_vars => StateInv'
<1>. SUFFICES ASSUME StateInv, [Next]_vars PROVE StateInv'
  OBVIOUS
<1>1. CASE UNCHANGED vars
  BY <1>1, StutterKeeps
<1>2. ASSUME NEW p \in Procs, Step(p), Witness PROVE StateInv'
  <2>1. TypeOK'
    BY <1>2, TypesStep
  <2>. QED
    BY <1>2, <2>1, BoundedStep, SlotStep, SettingStep, ConfigStep, SeenStep,
       UnsaidStep DEF StateInv
<1>. QED
  BY <1>1, <1>2 DEF Next

(* With one image at a time the whole invariant is.                        *)
LEMMA Inductive == SingleImage /\ IInv /\ [Next]_vars => IInv'
<1>. SUFFICES ASSUME SingleImage, IInv, [Next]_vars PROVE IInv'
  OBVIOUS
<1>0. StateInv'
  BY StateInductive DEF IInv
<1>1. CASE UNCHANGED vars
  BY <1>0, <1>1, StutterKeeps DEF IInv
<1>2. ASSUME NEW p \in Procs, Step(p) PROVE IInv'
  BY <1>0, <1>2, EvidenceStep, ProgrammedStep DEF IInv
<1>. QED
  BY <1>1, <1>2 DEF Next

-----------------------------------------------------------------------------
(* The invariant holds in every reachable state.                           *)
THEOREM Invariance == Spec => []StateInv
<1>1. Init => StateInv
  BY InitHolds DEF IInv
<1>. QED
  BY <1>1, StateInductive, PTL DEF Spec

(* Every variable keeps its type, whatever images a project may have.      *)
THEOREM TypeCorrect == Spec => []TypeOK
<1>1. StateInv => TypeOK
  BY DEF StateInv
<1>. QED
  BY <1>1, Invariance, PTL

(* From the moment the queue lets an operation in until it returns, nobody *)
(* else configures the target or lowers its status: requireCurrent, asked  *)
(* once inside the slot, is enough.                                        *)
THEOREM SlotKeepsTarget == Spec => []StableInSlot
<1>1. StateInv => StableInSlot
  BY DEF StateInv, SlotInv, SeenInv, StableInSlot, Holds, InSlot
<1>. QED
  BY <1>1, Invariance, PTL

(* A process whose marker could not be written does not trust the record   *)
(* itself, as long as it lives.                                            *)
THEOREM PoisonLasts == Spec => []UnsaidNotSeen
<1>1. StateInv => UnsaidNotSeen
  BY DEF StateInv, TypeOK, Target, UnsaidInv, UnsaidNotSeen, Sees
<1>. QED
  BY <1>1, Invariance, PTL

(* A record that counts as verified names what is in the flash, unless the *)
(* last change is not reported yet or could not be, if projects have one   *)
(* image at most.                                                          *)
THEOREM VerifiedIsTrue == SingleImage => (Spec => []VerifiedIsProgrammed)
<1>. SUFFICES ASSUME SingleImage PROVE Spec => []VerifiedIsProgrammed
  OBVIOUS
<1>1. IInv /\ [Next]_vars => IInv'
  BY Inductive
<1>2. IInv => VerifiedIsProgrammed
  BY DEF IInv
<1>. QED
  BY <1>1, <1>2, InitHolds, PTL DEF Spec

(* The step that makes a record verified is Clear, in the lock.            *)
LEMMA EvidenceOfStep ==
  ASSUME IInv, NEW p \in Procs, Step(p), ~Verified(doc), Verified(doc)'
  PROVE  doc'.images \subseteq flash'
<1>. USE DEF IInv, StateInv, SlotInv, SettingInv, EvidenceInv, Holds, InSlot,
         InLock, Verified
<1>1. CASE Ask(p)
  BY <1>1, AskEffect
<1>2. CASE AskConfigure(p)
  BY <1>2, AskConfigureEffect
<1>3. CASE Enter(p)
  BY <1>3, EnterEffect
<1>4. CASE Returning(p)
  BY <1>4, ReturningEffect
<1>5. CASE Issuing(p)
  BY <1>5, IssuingEffect
<1>6. CASE Mark(p)
  BY <1>6, MarkEffect
<1>7. CASE MarkFails(p)
  BY <1>7, MarkFailsEffect
<1>8. CASE Publish(p)
  BY <1>8, PublishEffect, PublishedDoc
<1>9. CASE Ending(p)
  BY <1>9, EndingEffect
<1>10. CASE Commit(p)
  BY <1>10, CommitEffect, CommittedDoc DEF Preserves, Sees
<1>11. CASE Looking(p)
  BY <1>11, LookingEffect
<1>12. CASE Crash(p)
  BY <1>12, CrashEffect
<1>. QED
  BY <1>1, <1>2, <1>3, <1>4, <1>5, <1>6, <1>7, <1>8, <1>9, <1>10, <1>11, <1>12,
     StepParts

(* Trust that was lost, in whatever way, returns only in a step at which   *)
(* the flash holds the configured image.                                   *)
THEOREM TrustNeedsEvidence == SingleImage => (Spec => VerifiedByEvidence)
<1>. SUFFICES ASSUME SingleImage PROVE Spec => VerifiedByEvidence
  OBVIOUS
<1>1. IInv /\ [Next]_vars => IInv'
  BY Inductive
<1>2. IInv /\ [Next]_vars
        => [~Verified(doc) /\ Verified(doc)' => doc'.images \subseteq flash']_vars
  BY EvidenceOfStep DEF Next
<1>. QED
  BY <1>1, <1>2, InitHolds, PTL DEF Spec, VerifiedByEvidence
=============================================================================
