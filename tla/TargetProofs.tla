--------------------------- MODULE TargetProofs -----------------------------
(***************************************************************************)
(* What the server itself does to the target and then says of it: writes   *)
(* and sequences of steps (DebugSequence), and the capture that polls the  *)
(* target with calls in between (PollingCapture).                          *)
(***************************************************************************)
EXTENDS DebugSequence, PollingCapture, TLAPS

(***************************************************************************)
(* What an answer to a write, alone or as a step of a sequence, says of    *)
(* the target is so: proved for any values, any number of steps and of     *)
(* cleanup actions, from ValuesOK and SequenceOK alone.                    *)
(***************************************************************************)

(* The records of a write and of a sequence.                               *)
ErrorRecords == [raised : BOOLEAN, issued : BOOLEAN, unknown : BOOLEAN]

WriteRecords ==
  [at : {"before", "old", "write", "check", "undo", "after", "leave", "answered"},
   opts : Options, old : Values \cup {NoValue}, issued : BOOLEAN,
   main : ErrorRecords, check : ErrorRecords, undo : ErrorRecords,
   error : ErrorRecords, restored : BOOLEAN, was : Values, hit : BOOLEAN]

SequenceRecords ==
  [at : {"idle", "check", "wait", "writing", "cleanup", "undoing", "done"},
   done : 0 .. MaxSteps, planned : BOOLEAN, active : BOOLEAN,
   possibly : SUBSET Spellings, state : States, issued : BOOLEAN,
   unknown : BOOLEAN, cleaned : 0 .. MaxCleanup, ref : Spellings \cup {"none"},
   declared : SUBSET Spellings, last : BOOLEAN, hit : SUBSET Spellings]

-----------------------------------------------------------------------------
(* The write.  An error that was not raised says nothing.                  *)
Quiet(e) == ~e.raised => ~e.issued /\ ~e.unknown

WriteType == /\ value \in Values
             /\ w = Idle \/ w \in WriteRecords

Under(phases) == w.at \in phases

(* Until the write step nothing was sent, and nothing has failed.          *)
EarlyInv ==
  Under({"before", "old", "write"}) =>
    /\ value = w.was /\ ~w.hit /\ ~w.issued /\ ~w.restored
    /\ ~w.main.raised /\ ~w.check.raised /\ ~w.undo.raised

(* An old value that was captured is the one before the write, and a       *)
(* session has captured it before it writes.                               *)
OldInv ==
  w.at # "idle" =>
    /\ Valid(w.opts) /\ w.old \in {w.was, NoValue}
    /\ /\ w.opts.way = "session" /\ w.opts.capture
       /\ w.at \in {"write", "check", "undo"}
       => w.old = w.was

(* A write that reached the target counts as issued, one that does not     *)
(* has failed and changed nothing; and what failed after a write that was  *)
(* issued says so.                                                         *)
IssuedInv ==
  Under({"check", "undo", "after"}) =>
    /\ w.hit => w.issued
    /\ ~w.issued => value = w.was /\ w.main.raised
    /\ w.issued /\ w.main.raised => w.main.issued
    /\ w.check.raised => w.check.issued
    /\ w.undo.raised => w.undo.issued
    /\ w.at # "after" => ~w.undo.raised
    /\ w.at = "check" => ~w.check.raised

(* What was verified holds unless it is to be undone.                      *)
VerifiedInv ==
  /\ Under({"check"}) /\ w.restored => w.opts.restore
  /\ Under({"undo", "after"}) /\ ~w.main.raised /\ ~w.check.raised
       /\ w.opts.verify /\ ~w.opts.restore
     => value = w.opts.requested

(* A restoration that was read back has put back the old value.            *)
RestoredInv ==
  Under({"after"}) =>
    /\ w.restored => value = w.was
    /\ w.opts.restore /\ w.issued /\ ~w.undo.raised => value = w.was

(* What the answer will say.                                               *)
EndInv ==
  Under({"leave", "answered"}) =>
    /\ w.error.raised /\ ~w.error.issued => ~w.hit /\ value = w.was
    /\ ~w.error.raised => IF w.opts.restore THEN value = w.was
                          ELSE w.opts.verify => value = w.opts.requested
    /\ w.restored => value = w.was

QuietInv ==
  w.at # "idle" => Quiet(w.main) /\ Quiet(w.check) /\ Quiet(w.undo) /\ Quiet(w.error)

WriteInv == /\ WriteType /\ QuietInv /\ EarlyInv /\ OldInv /\ IssuedInv
            /\ VerifiedInv /\ RestoredInv /\ EndInv

USE DEF ErrorRecords

LEMMA ErrIsRecord ==
  ASSUME NEW i \in BOOLEAN, NEW u \in BOOLEAN
  PROVE  /\ Err(i, u) \in ErrorRecords /\ Quiet(Err(i, u))
         /\ Err(i, u).raised /\ Err(i, u).issued = i /\ Err(i, u).unknown = u
BY DEF Err, Quiet

LEMMA NoErrorIsRecord ==
  NoError \in ErrorRecords /\ ~NoError.raised /\ Quiet(NoError)
BY DEF NoError, Quiet

LEMMA BusyIsRecord ==
  ASSUME WriteType, w.at # "idle"
  PROVE  w \in WriteRecords
BY DEF WriteType, Idle

LEMMA BusyIsNotIdle ==
  ASSUME w \in WriteRecords
  PROVE  w.at # "idle"
BY DEF WriteRecords

(* What a step of a write does to its record, field by field.              *)
Fixed == w'.opts = w.opts /\ w'.was = w.was

LEMMA BeginEffect ==
  ASSUME WriteType, NEW opts \in Options, Begin(opts)
  PROVE  /\ w' \in WriteRecords /\ value' = value /\ Valid(opts) /\ w.at = "idle"
         /\ w'.at = "before" /\ w'.opts = opts /\ w'.old = NoValue /\ w'.was = value
         /\ w'.issued = FALSE /\ w'.restored = FALSE /\ w'.hit = FALSE
         /\ w'.main = NoError /\ w'.check = NoError /\ w'.undo = NoError
         /\ w'.error = NoError
BY NoErrorIsRecord DEF WriteType, Begin, WriteRecords

LEMMA FailsEffect ==
  ASSUME w \in WriteRecords, NEW e \in ErrorRecords, Fails(e)
  PROVE  /\ w' \in WriteRecords /\ Fixed /\ w'.at = "leave" /\ w'.error = e
         /\ w'.old = w.old /\ w'.issued = w.issued /\ w'.restored = w.restored
         /\ w'.hit = w.hit /\ w'.main = w.main /\ w'.check = w.check
         /\ w'.undo = w.undo
BY ZenonT(60) DEF Fails, WriteRecords, Fixed

LEMMA WroteEffect ==
  ASSUME w \in WriteRecords, NEW old \in Values \cup {NoValue},
         NEW issued \in BOOLEAN, NEW e \in ErrorRecords, Wrote(old, issued, e)
  PROVE  /\ w' \in WriteRecords /\ Fixed /\ w'.at = "check" /\ w'.error = w.error
         /\ w'.old = old /\ w'.issued = issued /\ w'.restored = w.restored
         /\ w'.hit = issued /\ w'.main = e /\ w'.check = w.check
         /\ w'.undo = w.undo
BY ZenonT(60) DEF Wrote, WriteRecords, Fixed

LEMMA TransactedEffect ==
  ASSUME w \in WriteRecords, NEW old \in Values \cup {NoValue},
         NEW restored, NEW issued, NEW hit, {restored, issued, hit} \subseteq BOOLEAN,
         NEW e \in ErrorRecords, Transacted(old, restored, issued, e, hit)
  PROVE  /\ w' \in WriteRecords /\ Fixed /\ w'.at = "check" /\ w'.error = w.error
         /\ w'.old = old /\ w'.issued = issued /\ w'.restored = restored
         /\ w'.hit = hit /\ w'.main = e /\ w'.check = w.check
         /\ w'.undo = w.undo
BY ZenonT(60) DEF Transacted, WriteRecords, Fixed

LEMMA UndoneEffect ==
  ASSUME w \in WriteRecords, NEW e \in ErrorRecords, Undone(e)
  PROVE  /\ w' \in WriteRecords /\ Fixed /\ w'.at = "after" /\ w'.error = w.error
         /\ w'.old = w.old /\ w'.issued = w.issued /\ w'.restored = ~e.raised
         /\ w'.hit = w.hit /\ w'.main = w.main /\ w'.check = w.check
         /\ w'.undo = e
BY ZenonT(60) DEF Undone, WriteRecords, Fixed

USE DEF Under

LEMMA BeginKeeps ==
  ASSUME WriteInv, NEW opts \in Options, Begin(opts)
  PROVE  WriteInv' /\ w'.at # "idle" /\ w'.opts = opts /\ value' = value
<1>1. WriteType /\ value \in Values
  BY DEF WriteInv, WriteType
<1> HIDE DEF Begin
<1> QED
  BY <1>1, BeginEffect, NoErrorIsRecord, ValuesOK
     DEF WriteInv, WriteType, QuietInv, EarlyInv, OldInv, IssuedInv, VerifiedInv,
         RestoredInv, EndInv, WriteRecords

(* A write that ends with an error that says what is so.                   *)
LEMMA FailsKeeps ==
  ASSUME WriteInv, w \in WriteRecords, NEW e \in ErrorRecords, Quiet(e), Fails(e),
         value' = value, w.restored => value = w.was,
         e.raised /\ ~e.issued => ~w.hit /\ value = w.was,
         ~e.raised => IF w.opts.restore THEN value = w.was
                      ELSE w.opts.verify => value = w.opts.requested
  PROVE  WriteInv' /\ Fixed /\ w'.at = "leave"
<1>1. /\ w' \in WriteRecords /\ Fixed /\ w'.at = "leave" /\ w'.error = e
      /\ w'.old = w.old /\ w'.issued = w.issued /\ w'.restored = w.restored
      /\ w'.hit = w.hit /\ w'.main = w.main /\ w'.check = w.check
      /\ w'.undo = w.undo
  BY FailsEffect
<1>2. WriteType' /\ QuietInv'
  BY <1>1, BusyIsNotIdle DEF WriteInv, WriteType, QuietInv
<1>3. EndInv'
  BY <1>1 DEF EndInv, Fixed
<1>4. OldInv'
  BY <1>1, BusyIsNotIdle DEF WriteInv, OldInv, Fixed
<1>5. EarlyInv' /\ IssuedInv' /\ VerifiedInv' /\ RestoredInv'
  BY <1>1 DEF EarlyInv, IssuedInv, VerifiedInv, RestoredInv
<1> QED
  BY <1>1, <1>2, <1>3, <1>4, <1>5 DEF WriteInv

LEMMA BeforeKeeps == ASSUME WriteInv, Before PROVE WriteInv' /\ Fixed /\ w'.at # "idle"
<1>1. /\ w \in WriteRecords /\ w.at = "before" /\ value' = value
      /\ value = w.was /\ ~w.hit /\ ~w.restored
  BY BusyIsRecord DEF WriteInv, EarlyInv, Before
<1>2. CASE \E u \in BOOLEAN : Fails(Err(FALSE, u))
  BY <1>1, <1>2, ErrIsRecord, FailsKeeps
<1>3. CASE w' = [w EXCEPT !.at = IF w.opts.way = "session" /\ w.opts.capture
                              THEN "old" ELSE "write"]
  <2>1. /\ w' \in WriteRecords /\ Fixed /\ w'.at \in {"old", "write"}
        /\ w'.old = w.old /\ w'.issued = w.issued /\ w'.restored = w.restored
        /\ w'.hit = w.hit /\ w'.main = w.main /\ w'.check = w.check
        /\ w'.undo = w.undo /\ w'.error = w.error
        /\ w'.at = "write" => ~(w.opts.way = "session" /\ w.opts.capture)
    BY <1>1, <1>3 DEF WriteRecords, Fixed
  <2> QED
    BY <1>1, <2>1
       DEF WriteInv, WriteType, QuietInv, EarlyInv, OldInv, IssuedInv, VerifiedInv,
           RestoredInv, EndInv, Fixed
<1> QED
  BY <1>2, <1>3 DEF Before

LEMMA ReadOldKeeps == ASSUME WriteInv, ReadOld PROVE WriteInv' /\ Fixed /\ w'.at # "idle"
<1>1. /\ w \in WriteRecords /\ w.at = "old" /\ value' = value
      /\ value = w.was /\ ~w.hit /\ ~w.restored
  BY BusyIsRecord DEF WriteInv, EarlyInv, ReadOld
<1>2. CASE \E u \in BOOLEAN : Fails(Err(FALSE, u))
  BY <1>1, <1>2, ErrIsRecord, FailsKeeps
<1>3. CASE w' = [w EXCEPT !.at = "write", !.old = value]
  <2>1. /\ w' \in WriteRecords /\ Fixed /\ w'.at = "write"
        /\ w'.old = value /\ w'.issued = w.issued /\ w'.restored = w.restored
        /\ w'.hit = w.hit /\ w'.main = w.main /\ w'.check = w.check
        /\ w'.undo = w.undo /\ w'.error = w.error
    BY <1>1, <1>3 DEF WriteInv, WriteType, WriteRecords, Fixed
  <2> QED
    BY <1>1, <2>1
       DEF WriteInv, WriteType, QuietInv, EarlyInv, OldInv, IssuedInv, VerifiedInv,
           RestoredInv, EndInv, Fixed
<1> QED
  BY <1>2, <1>3 DEF ReadOld

(* A value that was written is one of the values.                          *)
LEMMA LandsInValues ==
  ASSUME WriteInv, w \in WriteRecords, NEW v \in Values, Lands(v) \/ Breaks(v)
  PROVE  value' \in Values
BY ValuesOK DEF WriteInv, WriteType, Lands, Breaks

LEMMA OptionsTyped ==
  ASSUME w \in WriteRecords
  PROVE  /\ w.opts \in Options /\ w.opts.requested \in Values
         /\ w.opts.way \in {"session", "helper"}
         /\ w.opts.restore \in BOOLEAN /\ w.opts.capture \in BOOLEAN
BY DEF WriteRecords, Options

(* A write step that hands over to the check what it has to know.          *)
LEMMA HandedOverKeeps ==
  ASSUME WriteInv, w \in WriteRecords, w.at = "write",
         w' \in WriteRecords, Fixed, w'.at = "check", value' \in Values,
         w'.check = w.check, w'.undo = w.undo, w'.error = w.error,
         Quiet(w'.main), w'.old \in {w.was, NoValue},
         w.opts.way = "session" => w'.old = w.old,
         w'.restored => w.opts.restore, w'.hit => w'.issued,
         ~w'.issued => value' = w.was /\ w'.main.raised,
         w'.issued /\ w'.main.raised => w'.main.issued
  PROVE  WriteInv'
<1>1. WriteType' /\ QuietInv'
  BY BusyIsNotIdle DEF WriteInv, WriteType, QuietInv
<1>2. OldInv'
  BY BusyIsNotIdle DEF WriteInv, OldInv, Fixed
<1>3. IssuedInv' /\ EarlyInv'
  BY DEF WriteInv, IssuedInv, EarlyInv, Fixed
<1>4. VerifiedInv' /\ RestoredInv' /\ EndInv'
  BY DEF VerifiedInv, RestoredInv, EndInv, Fixed
<1> QED
  BY <1>1, <1>2, <1>3, <1>4 DEF WriteInv

LEMMA SessionWritesKeeps ==
  ASSUME WriteInv, SessionWrites PROVE WriteInv' /\ Fixed /\ w'.at # "idle"
<1>1. /\ w \in WriteRecords /\ w.at = "write" /\ w.opts.way = "session"
      /\ w.old \in Values \cup {NoValue} /\ w.opts.requested \in Values
  BY BusyIsRecord, OptionsTyped DEF WriteInv, SessionWrites, WriteRecords
<1>2. /\ value \in Values /\ value = w.was /\ ~w.restored /\ w.old \in {w.was, NoValue}
  BY <1>1 DEF WriteInv, WriteType, EarlyInv, OldInv
<1>3. CASE Lands(w.opts.requested) /\ Wrote(w.old, TRUE, NoError)
  <2>1. value' \in Values
    BY <1>1, <1>3, LandsInValues
  <2> QED
    BY <1>1, <1>2, <1>3, <2>1, WroteEffect, NoErrorIsRecord, HandedOverKeeps
<1>4. CASE Breaks(w.opts.requested) /\ Wrote(w.old, TRUE, Err(TRUE, TRUE))
  <2>1. value' \in Values
    BY <1>1, <1>4, LandsInValues
  <2>2. /\ Err(TRUE, TRUE) \in ErrorRecords /\ Quiet(Err(TRUE, TRUE))
        /\ Err(TRUE, TRUE).raised /\ Err(TRUE, TRUE).issued = TRUE
    BY ErrIsRecord, TRUE \in BOOLEAN, Zenon
  <2>3. /\ w' \in WriteRecords /\ Fixed /\ w'.at = "check" /\ w'.error = w.error
        /\ w'.old = w.old /\ w'.issued = TRUE /\ w'.restored = w.restored
        /\ w'.hit = TRUE /\ w'.main = Err(TRUE, TRUE) /\ w'.check = w.check
        /\ w'.undo = w.undo
    BY <1>1, <1>4, <2>2, WroteEffect, TRUE \in BOOLEAN, ZenonT(60) DEF WriteRecords
  <2> QED
    BY <1>1, <1>2, <2>1, <2>2, <2>3, HandedOverKeeps
<1>5. CASE \E u \in BOOLEAN : Wrote(w.old, FALSE, Err(FALSE, u)) /\ UNCHANGED value
  <2> PICK u \in BOOLEAN : Wrote(w.old, FALSE, Err(FALSE, u)) /\ UNCHANGED value
    BY <1>5
  <2>1. /\ Err(FALSE, u) \in ErrorRecords /\ Quiet(Err(FALSE, u))
        /\ Err(FALSE, u).raised /\ Err(FALSE, u).issued = FALSE
    BY ErrIsRecord
  <2>2. /\ w' \in WriteRecords /\ Fixed /\ w'.at = "check" /\ w'.error = w.error
        /\ w'.old = w.old /\ w'.issued = FALSE /\ w'.restored = w.restored
        /\ w'.hit = FALSE /\ w'.main = Err(FALSE, u) /\ w'.check = w.check
        /\ w'.undo = w.undo
    BY <1>1, <2>1, WroteEffect
  <2> QED
    BY <1>1, <1>2, <2>1, <2>2, HandedOverKeeps
<1> QED
  BY <1>3, <1>4, <1>5 DEF SessionWrites

(* The steps of a helper of its own hand over what TransactedEffect says.  *)
LEMMA TransactedKeeps ==
  ASSUME WriteInv, w.at = "write", w.opts.way = "helper", value' \in Values,
         NEW old, NEW restored, NEW issued, NEW hit, NEW e \in ErrorRecords,
         old \in {w.was, NoValue}, {restored, issued, hit} \subseteq BOOLEAN,
         Quiet(e), restored => w.opts.restore, hit => issued,
         ~issued => value' = w.was /\ e.raised, issued /\ e.raised => e.issued,
         Transacted(old, restored, issued, e, hit)
  PROVE  WriteInv' /\ Fixed /\ w'.at # "idle"
<1>1. w \in WriteRecords /\ old \in Values \cup {NoValue}
  BY BusyIsRecord DEF WriteInv, WriteRecords
<1> QED
  BY <1>1, TransactedEffect, HandedOverKeeps

LEMMA HelperFacts ==
  ASSUME WriteInv, w.at = "write", w.opts.way = "helper"
  PROVE  /\ w \in WriteRecords /\ value \in Values /\ value = w.was
         /\ OldOf \in {w.was, NoValue} /\ w.opts.requested \in Values
         /\ Restores \in BOOLEAN /\ (Restores => w.opts.restore)
<1>1. w \in WriteRecords
  BY BusyIsRecord DEF WriteInv
<1> QED
  BY <1>1, OptionsTyped DEF WriteInv, WriteType, EarlyInv, OldOf, Restores

LEMMA HelperRefusesKeeps ==
  ASSUME WriteInv, HelperRefuses PROVE WriteInv' /\ Fixed /\ w'.at # "idle"
<1> PICK u \in BOOLEAN : Transacted(NoValue, FALSE, FALSE, Err(FALSE, u), FALSE)
  BY DEF HelperRefuses
<1>1. w.at = "write" /\ w.opts.way = "helper" /\ value' = value
  BY DEF HelperRefuses
<1> QED
  BY <1>1, HelperFacts, ErrIsRecord, TransactedKeeps

LEMMA HelperFailsKeeps ==
  ASSUME WriteInv, HelperFails PROVE WriteInv' /\ Fixed /\ w'.at # "idle"
<1>1. w.at = "write" /\ w.opts.way = "helper"
  BY DEF HelperFails
<1>2. CASE /\ Transacted(OldOf, Restores, TRUE, Err(TRUE, TRUE), TRUE)
           /\ Breaks(w.opts.requested)
  <2>1. value' \in Values
    BY <1>1, <1>2, HelperFacts, LandsInValues
  <2> QED
    BY <1>1, <1>2, <2>1, HelperFacts, ErrIsRecord, TransactedKeeps
<1>3. CASE /\ Transacted(OldOf, Restores, TRUE, Err(TRUE, FALSE), TRUE)
           /\ IF Restores THEN UNCHANGED value ELSE Lands(w.opts.requested)
  <2>1. value' \in Values
    BY <1>1, <1>3, HelperFacts, LandsInValues
  <2> QED
    BY <1>1, <1>3, <2>1, HelperFacts, ErrIsRecord, TransactedKeeps
<1> QED
  BY <1>2, <1>3 DEF HelperFails

LEMMA HelperSucceedsKeeps ==
  ASSUME WriteInv, HelperSucceeds PROVE WriteInv' /\ Fixed /\ w'.at # "idle"
<1>1. /\ w.at = "write" /\ w.opts.way = "helper"
      /\ Transacted(OldOf, Restores, TRUE, NoError, TRUE)
  BY DEF HelperSucceeds
<1>2. value' \in Values
  BY <1>1, HelperFacts, LandsInValues DEF HelperSucceeds
<1> QED
  BY <1>1, <1>2, HelperFacts, NoErrorIsRecord, TransactedKeeps

LEMMA HelperLostKeeps ==
  ASSUME WriteInv, HelperLost PROVE WriteInv' /\ Fixed /\ w'.at # "idle"
<1>1. w.at = "write" /\ w.opts.way = "helper"
  BY DEF HelperLost
<1>2. /\ Unread \in ErrorRecords /\ Quiet(Unread) /\ Unread.raised /\ Unread.issued = TRUE
  BY ErrIsRecord DEF Unread
<1>3. CASE Transacted(NoValue, FALSE, Unread.issued, Unread, FALSE) /\ UNCHANGED value
  BY <1>1, <1>2, <1>3, HelperFacts, TransactedKeeps
<1>4. CASE /\ \/ Transacted(NoValue, FALSE, Unread.issued, Unread, TRUE)
              \/ Transacted(OldOf, Restores, Unread.issued, Unread, TRUE)
           /\ Breaks(w.opts.requested)
  <2>1. value' \in Values
    BY <1>1, <1>4, HelperFacts, LandsInValues
  <2> QED
    BY <1>1, <1>2, <1>4, <2>1, HelperFacts, TransactedKeeps
<1> QED
  BY <1>3, <1>4 DEF HelperLost

LEMMA CheckKeeps == ASSUME WriteInv, Check PROVE WriteInv' /\ Fixed /\ w'.at # "idle"
<1>1. w \in WriteRecords /\ w.at = "check" /\ value' = value
  BY BusyIsRecord DEF WriteInv, Check
<1>2. PICK err \in ErrorRecords :
        /\ w' = [w EXCEPT !.at = "undo", !.check = err]
        /\ Quiet(err) /\ (err.raised => err.issued)
        /\ ~w.main.raised /\ w.opts.verify /\ ~w.restored /\ ~err.raised
           => value = w.opts.requested
  <2>1. PICK err \in IF Unchecked THEN {NoError}
                     ELSE IF w.restored THEN {NoError, Err(TRUE, TRUE), Err(TRUE, FALSE)}
                     ELSE {Mismatch, Err(TRUE, TRUE)} :
          w' = [w EXCEPT !.at = "undo", !.check = err]
    BY DEF Check
  <2>2. CASE err = NoError
    BY <2>1, <2>2, NoErrorIsRecord, ErrIsRecord DEF Unchecked, Mismatch
  <2>3. CASE err # NoError
    BY <2>1, <2>3, ErrIsRecord DEF Mismatch
  <2> QED
    BY <2>2, <2>3
<1>3. /\ w' \in WriteRecords /\ Fixed /\ w'.at = "undo" /\ w'.error = w.error
      /\ w'.old = w.old /\ w'.issued = w.issued /\ w'.restored = w.restored
      /\ w'.hit = w.hit /\ w'.main = w.main /\ w'.check = err
      /\ w'.undo = w.undo
  BY <1>1, <1>2 DEF WriteRecords, Fixed
<1>4. WriteType' /\ QuietInv' /\ OldInv'
  BY <1>1, <1>2, <1>3, BusyIsNotIdle DEF WriteInv, WriteType, QuietInv, OldInv, Fixed
<1>5. VerifiedInv'
  BY <1>1, <1>2, <1>3 DEF WriteInv, VerifiedInv, Fixed
<1>6. IssuedInv'
  BY <1>1, <1>2, <1>3 DEF WriteInv, IssuedInv, Fixed
<1>7. EarlyInv' /\ RestoredInv' /\ EndInv'
  BY <1>3 DEF EarlyInv, RestoredInv, EndInv
<1> QED
  BY <1>3, <1>4, <1>5, <1>6, <1>7 DEF WriteInv

(* The restoration, or its being left out, hands over to the last look.    *)
LEMMA UndoKeeps == ASSUME WriteInv, Undo PROVE WriteInv' /\ Fixed /\ w'.at # "idle"
<1>1. /\ w \in WriteRecords /\ w.at = "undo" /\ value \in Values
      /\ w.old \in {w.was, NoValue} /\ w.was \in Values
  BY BusyIsRecord DEF WriteInv, WriteType, OldInv, Undo, WriteRecords
<1>2. /\ w' \in WriteRecords /\ Fixed /\ w'.at = "after" /\ w'.error = w.error
      /\ w'.old = w.old /\ w'.issued = w.issued /\ w'.hit = w.hit
      /\ w'.main = w.main /\ w'.check = w.check /\ value' \in Values
      /\ Quiet(w'.undo) /\ (w'.undo.raised => w'.undo.issued)
      /\ w'.restored => value' = w.was
      /\ w.opts.restore /\ w.issued /\ ~w'.undo.raised => value' = w.was
      /\ ~(w.opts.restore /\ w.issued) => value' = value
  <2>1. CASE /\ ~w.opts.restore \/ ~w.issued
             /\ w' = [w EXCEPT !.at = "after", !.restored = FALSE]
             /\ UNCHANGED value
    <3>1. /\ w' \in WriteRecords /\ Fixed /\ w'.at = "after" /\ w'.error = w.error
          /\ w'.old = w.old /\ w'.issued = w.issued /\ w'.restored = FALSE
          /\ w'.hit = w.hit /\ w'.main = w.main /\ w'.check = w.check
          /\ w'.undo = w.undo
      BY <1>1, <2>1 DEF WriteRecords, Fixed
    <3> QED
      BY <1>1, <2>1, <3>1, BusyIsNotIdle DEF WriteInv, QuietInv, IssuedInv
  <2>2. CASE w.opts.restore /\ w.issued /\ Undone(NoError) /\ value' = w.was
    BY <1>1, <2>2, UndoneEffect, NoErrorIsRecord
  <2>3. CASE w.opts.restore /\ w.issued /\ Uncertain /\ value' \in Values
    BY <1>1, <2>3, UndoneEffect, ErrIsRecord, ZenonT(60) DEF Uncertain
  <2>4. CASE /\ w.opts.restore /\ w.issued /\ w.opts.way = "session"
             /\ \/ Lands(w.old) /\ ReadsBack(value')
                \/ Breaks(w.old) /\ Uncertain
    <3>1. w.old = w.was
      BY <1>1, <2>4, BusyIsNotIdle DEF WriteInv, OldInv, Valid
    <3> QED
      BY <1>1, <2>2, <2>3, <2>4, <3>1, ValuesOK DEF Lands, Breaks, ReadsBack
  <2>5. CASE /\ w.opts.restore /\ w.issued /\ w.opts.way = "helper"
             /\ \/ w.restored /\ w.old # NoValue /\ ReadsBack(value)
                \/ Uncertain
             /\ UNCHANGED value
    BY <1>1, <2>2, <2>3, <2>5 DEF ReadsBack
  <2> QED
    BY <2>1, <2>4, <2>5 DEF Undo
<1>3. WriteType' /\ QuietInv' /\ OldInv'
  BY <1>1, <1>2, BusyIsNotIdle DEF WriteInv, WriteType, QuietInv, OldInv, Fixed
<1>4. VerifiedInv'
  BY <1>1, <1>2 DEF WriteInv, VerifiedInv, Fixed
<1>5. IssuedInv' /\ RestoredInv'
  BY <1>1, <1>2 DEF WriteInv, IssuedInv, RestoredInv, Fixed
<1>6. EarlyInv' /\ EndInv'
  BY <1>2 DEF EarlyInv, EndInv
<1> QED
  BY <1>2, <1>3, <1>4, <1>5, <1>6 DEF WriteInv

LEMMA AfterKeeps == ASSUME WriteInv, After PROVE WriteInv' /\ Fixed /\ w'.at # "idle"
<1>1. /\ w \in WriteRecords /\ w.at = "after" /\ value' = value
      /\ w.issued \in BOOLEAN
  BY BusyIsRecord DEF WriteInv, After, WriteRecords
<1>2. /\ w.restored => value = w.was
      /\ ~w.issued => ~w.hit /\ value = w.was
  BY <1>1 DEF WriteInv, RestoredInv, IssuedInv
<1>3. CASE Fails(FirstError)
  <2>1. FirstError \in ErrorRecords /\ Quiet(FirstError)
    BY <1>1, BusyIsNotIdle DEF FirstError, WriteRecords, WriteInv, QuietInv
  <2>2. FirstError.raised /\ ~FirstError.issued => ~w.issued
    BY <1>1 DEF WriteInv, IssuedInv, FirstError
  <2>3. ~FirstError.raised => IF w.opts.restore THEN value = w.was
                              ELSE w.opts.verify => value = w.opts.requested
    BY <1>1 DEF WriteInv, IssuedInv, VerifiedInv, RestoredInv, FirstError
  <2> QED
    BY <1>1, <1>2, <1>3, <2>1, <2>2, <2>3, FailsKeeps
<1>4. ASSUME NEW e \in ErrorRecords, e.raised, Quiet(e), e.issued = w.issued \/ e.issued,
             Fails(e)
      PROVE  WriteInv' /\ Fixed /\ w'.at # "idle"
  BY <1>1, <1>2, <1>4, FailsKeeps
<1>5. CASE Fails(Err(w.issued, w.undo.unknown \/ w.main.unknown))
  <2>1. (w.undo.unknown \/ w.main.unknown) \in BOOLEAN
    OBVIOUS
  <2> QED
    BY <1>1, <1>4, <1>5, <2>1, ErrIsRecord
<1>6. CASE Fails(Err(w.issued, w.opts.way = "session" \/ w.issued))
  <2>1. (w.opts.way = "session" \/ w.issued) \in BOOLEAN
    OBVIOUS
  <2> QED
    BY <1>1, <1>4, <1>6, <2>1, ErrIsRecord
<1>7. CASE \E u \in {w.issued, TRUE} : Fails(Err(TRUE, u))
  BY <1>1, <1>4, <1>7, ErrIsRecord, ZenonT(60)
<1> QED
  BY <1>3, <1>5, <1>6, <1>7 DEF After

LEMMA LeaveKeeps == ASSUME WriteInv, Leave PROVE WriteInv' /\ Fixed /\ w'.at # "idle"
<1>1. w \in WriteRecords /\ w.at = "leave" /\ value' = value
  BY BusyIsRecord DEF WriteInv, Leave
<1>2. PICK u \in IF w.error.raised /\ w.opts.way = "session"
                 THEN {w.error.unknown, TRUE} ELSE {w.error.unknown} :
        w' = [w EXCEPT !.at = "answered", !.error.unknown = u]
  BY DEF Leave
<1>3. w.error \in ErrorRecords
  BY <1>1 DEF WriteRecords
<1>4. /\ w' \in WriteRecords /\ Fixed /\ w'.at = "answered"
      /\ w'.error.raised = w.error.raised /\ w'.error.issued = w.error.issued
      /\ w'.error.unknown = u
      /\ w'.old = w.old /\ w'.issued = w.issued /\ w'.restored = w.restored
      /\ w'.hit = w.hit /\ w'.main = w.main /\ w'.check = w.check
      /\ w'.undo = w.undo
  BY <1>1, <1>2, <1>3, ZenonT(60) DEF WriteRecords, Fixed
<1>5. WriteType' /\ QuietInv' /\ OldInv'
  BY <1>1, <1>2, <1>4, BusyIsNotIdle, ZenonT(60) DEF WriteInv, WriteType, QuietInv, Quiet, OldInv, Fixed
<1>6. EndInv'
  BY <1>1, <1>4 DEF WriteInv, EndInv, Fixed
<1>7. EarlyInv' /\ IssuedInv' /\ VerifiedInv' /\ RestoredInv'
  BY <1>4 DEF EarlyInv, IssuedInv, VerifiedInv, RestoredInv
<1> QED
  BY <1>4, <1>5, <1>6, <1>7 DEF WriteInv

(* So every step of a write keeps the invariant, its options and the value *)
(* there was before it.                                                    *)
LEMMA WriteKeeps == ASSUME WriteInv, Write PROVE WriteInv' /\ Fixed /\ w'.at # "idle"
BY BeforeKeeps, ReadOldKeeps, SessionWritesKeeps, HelperRefusesKeeps, HelperFailsKeeps,
   HelperSucceedsKeeps, HelperLostKeeps, CheckKeeps, UndoKeeps, AfterKeeps, LeaveKeeps
   DEF Write

-----------------------------------------------------------------------------
(* The sequence.                                                           *)
SequenceType == /\ seq \in SequenceRecords
                /\ capture \in {"none", "capturing", "told"}
                /\ cancelled \in BOOLEAN /\ expired \in BOOLEAN

In(phases) == seq.at \in phases

(* A step that is waited for is one the plan has room for.                 *)
RoomInv == In({"wait", "writing"}) => seq.done < MaxSteps

(* A write is under way in the phases of the sequence that wait for one.   *)
WritingInv ==
  /\ In({"check", "wait", "cleanup", "done"}) => w = Idle
  /\ In({"writing", "undoing"}) => w.at # "idle"
  /\ In({"writing"}) => seq.ref \in Spellings
  /\ In({"undoing"}) => w.opts = UndoOptions

(* What reached the target is said to be issued, and will be put back.     *)
HitInv == (seq.hit # {} => seq.issued) /\ seq.hit \subseteq seq.possibly

(* Only a cleanup declares restorations, and only a failure cleans up.     *)
UncleanedInv ==
  In({"idle", "check", "wait", "writing"}) => seq.declared = {} /\ seq.state = "completed"

(* What was written and declared is back, or the state is unknown.         *)
PutBackInv ==
  In({"cleanup", "done"}) /\ seq.hit \cap seq.declared # {}
    => value = Declared \/ seq.unknown

(* A capture that goes on under a sequence is its own, until it could not  *)
(* be stopped.                                                             *)
OwnCaptureInv ==
  /\ ~In({"idle", "done"}) /\ capture = "capturing" => seq.active
  /\ In({"done"}) /\ seq.state # "completed" /\ capture = "capturing" => seq.unknown

Inv == /\ WriteInv /\ SequenceType /\ RoomInv /\ WritingInv /\ HitInv
       /\ UncleanedInv /\ PutBackInv /\ OwnCaptureInv

USE DEF In

LEMMA NoSequenceIsRecord ==
  /\ NoSequence \in SequenceRecords /\ NoSequence.at = "idle"
  /\ NoSequence.hit = {} /\ NoSequence.declared = {} /\ NoSequence.state = "completed"
  /\ NoSequence.possibly = {}
BY SequenceOK DEF NoSequence, SequenceRecords, States

LEMMA InitInv == ASSUME Init PROVE Inv
<1>1. seq \in SequenceRecords
  BY NoSequenceIsRecord DEF Init
<1>2. WriteInv
  BY DEF Init, WriteInit, WriteInv, WriteType, QuietInv, EarlyInv, OldInv, IssuedInv,
         VerifiedInv, RestoredInv, EndInv, Idle
<1> QED
  BY <1>1, <1>2 DEF Init, Inv, NoSequence, SequenceType, RoomInv, WritingInv, HitInv,
     UncleanedInv, PutBackInv, OwnCaptureInv

LEMMA StillKeepsWrite == ASSUME WriteInv, UNCHANGED still PROVE WriteInv'
BY DEF still, WriteInv, WriteType, QuietInv, EarlyInv, OldInv, IssuedInv, VerifiedInv,
   RestoredInv, EndInv

LEMMA IdleKeepsWrite == ASSUME value' \in Values, w' = Idle PROVE WriteInv'
BY DEF WriteInv, WriteType, QuietInv, EarlyInv, OldInv, IssuedInv, VerifiedInv,
   RestoredInv, EndInv, Idle

LEMMA IdleIsIdle == Idle.at = "idle"
BY DEF Idle

(* What the steps do to the record of the sequence.                        *)
LEMMA StepResultEffect ==
  ASSUME seq \in SequenceRecords, seq.done < MaxSteps,
         NEW ok \in BOOLEAN, NEW issued \in BOOLEAN, NEW unknown \in BOOLEAN,
         NEW s, s = StepResult(seq, ok, issued, unknown)
  PROVE  /\ s \in SequenceRecords /\ s.at = IF ok THEN "check" ELSE "cleanup"
         /\ (ok => s.state = seq.state) /\ s.active = seq.active
         /\ s.possibly = seq.possibly /\ s.hit = seq.hit
         /\ s.declared = seq.declared /\ (seq.issued \/ (~ok /\ issued) => s.issued)
<1>1. CASE ok
  <2>1. s = [seq EXCEPT !.at = "check", !.done = seq.done + 1]
    BY <1>1 DEF StepResult, SequenceRecords
  <2>2. seq.done + 1 \in 0 .. MaxSteps
    BY SequenceOK DEF SequenceRecords
  <2> QED
    BY <1>1, <2>1, <2>2 DEF SequenceRecords
<1>2. CASE ~ok
  BY <1>2, SequenceOK DEF StepResult, SequenceRecords, States
<1> QED
  BY <1>1, <1>2

(* The result of a step that has nothing to issue.                         *)
LEMMA QuietResultEffect ==
  ASSUME seq \in SequenceRecords, seq.done < MaxSteps,
         NEW ok, NEW unknown, {ok, unknown} \subseteq BOOLEAN,
         NEW s, s = StepResult(seq, ok, FALSE, unknown)
  PROVE  /\ s \in SequenceRecords /\ s.at = IF ok THEN "check" ELSE "cleanup"
         /\ (ok => s.state = seq.state) /\ s.active = seq.active
         /\ s.possibly = seq.possibly /\ s.hit = seq.hit
         /\ s.declared = seq.declared /\ (seq.issued => s.issued)
<1>1. CASE ok
  <2>1. s = [seq EXCEPT !.at = "check", !.done = seq.done + 1]
    BY <1>1 DEF StepResult, SequenceRecords
  <2>2. seq.done + 1 \in 0 .. MaxSteps
    BY SequenceOK DEF SequenceRecords
  <2> QED
    BY <1>1, <2>1, <2>2 DEF SequenceRecords
<1>2. CASE ~ok
  BY <1>2, SequenceOK, ZenonT(60) DEF StepResult, SequenceRecords, States
<1> QED
  BY <1>1, <1>2

LEMMA WriteResultEffect ==
  ASSUME seq \in SequenceRecords, seq.done < MaxSteps, NEW ref \in Spellings,
         NEW ok \in BOOLEAN, NEW issued \in BOOLEAN, NEW unknown \in BOOLEAN,
         NEW hit \in BOOLEAN, WriteResult(ref, ok, issued, unknown, hit)
  PROVE  /\ seq' \in SequenceRecords /\ seq'.at = IF ok THEN "check" ELSE "cleanup"
         /\ (ok => seq'.state = seq.state) /\ seq'.active = seq.active
         /\ seq'.declared = seq.declared /\ seq.possibly \subseteq seq'.possibly
         /\ seq'.hit = IF hit THEN seq.hit \cup {ref} ELSE seq.hit
         /\ (ok \/ issued \/ unknown => ref \in seq'.possibly)
         /\ (seq.issued \/ ok \/ issued => seq'.issued)
<1> DEFINE s == StepResult(seq, ok, issued, unknown)
<1>1. /\ s \in SequenceRecords /\ s.at = IF ok THEN "check" ELSE "cleanup"
      /\ (ok => s.state = seq.state) /\ s.active = seq.active
      /\ s.possibly = seq.possibly /\ s.hit = seq.hit
      /\ s.declared = seq.declared /\ (seq.issued \/ (~ok /\ issued) => s.issued)
  BY StepResultEffect
<1>2. seq' = [s EXCEPT !.issued = @ \/ ok,
                   !.possibly = IF PossiblyWritten(ok, issued, unknown)
                                THEN @ \cup {ref} ELSE @,
                   !.hit = IF hit THEN @ \cup {ref} ELSE @]
  BY DEF WriteResult
<1> HIDE DEF s
<1>3. PossiblyWritten(ok, issued, unknown) <=> ok \/ issued \/ unknown
  BY DEF PossiblyWritten
<1>4. seq' \in SequenceRecords
  BY <1>1, <1>2, ZenonT(60) DEF SequenceRecords
<1>5. /\ seq'.at = s.at /\ seq'.state = s.state /\ seq'.active = s.active
      /\ seq'.declared = s.declared /\ (s.issued \/ ok => seq'.issued)
  BY <1>1, <1>2 DEF SequenceRecords
<1>6. /\ seq'.possibly = IF PossiblyWritten(ok, issued, unknown)
                         THEN s.possibly \cup {ref} ELSE s.possibly
      /\ seq'.hit = IF hit THEN s.hit \cup {ref} ELSE s.hit
  BY <1>1, <1>2 DEF SequenceRecords
<1> QED
  BY <1>1, <1>3, <1>4, <1>5, <1>6

LEMMA ClientWritesKeeps == ASSUME Inv, ClientWrites PROVE Inv'
<1> PICK opts \in Options : Begin(opts)
  BY DEF ClientWrites
<1>1. /\ seq.at = "idle" /\ seq' = seq /\ capture' = capture
      /\ cancelled' = cancelled /\ expired' = expired
  BY DEF ClientWrites, outside
<1>2. WriteInv'
  BY BeginKeeps DEF Inv
<1> QED
  BY <1>1, <1>2 DEF Inv, SequenceType, RoomInv, WritingInv, HitInv, UncleanedInv,
     PutBackInv, OwnCaptureInv

LEMMA ClientAnsweredKeeps == ASSUME Inv, ClientAnswered PROVE Inv'
<1>1. /\ seq.at = "idle" /\ seq' = seq /\ capture' = capture
      /\ cancelled' = cancelled /\ expired' = expired /\ w' = Idle /\ value' = value
  BY DEF ClientAnswered, outside
<1>2. WriteInv'
  BY <1>1, IdleKeepsWrite DEF Inv, WriteInv, WriteType
<1> QED
  BY <1>1, <1>2 DEF Inv, SequenceType, RoomInv, WritingInv, HitInv, UncleanedInv,
     PutBackInv, OwnCaptureInv

LEMMA WriteGoesOnKeeps == ASSUME Inv, WriteGoesOn PROVE Inv'
<1>1. /\ Write /\ seq' = seq /\ capture' = capture
      /\ cancelled' = cancelled /\ expired' = expired
  BY DEF WriteGoesOn, outside
<1>2. WriteInv' /\ Fixed /\ w'.at # "idle"
  BY <1>1, WriteKeeps DEF Inv
<1>3. w.at # "idle"
  BY <1>1 DEF Write, Before, ReadOld, SessionWrites, HelperRefuses, HelperFails,
     HelperSucceeds, HelperLost, Check, Undo, After, Leave
<1>4. seq.at \in {"idle", "writing", "undoing"}
  BY <1>3, IdleIsIdle DEF Inv, WritingInv, SequenceType, SequenceRecords
<1>5. SequenceType' /\ RoomInv' /\ HitInv' /\ UncleanedInv' /\ OwnCaptureInv'
  BY <1>1 DEF Inv, SequenceType, RoomInv, HitInv, UncleanedInv, OwnCaptureInv
<1>6. WritingInv' /\ PutBackInv'
  BY <1>1, <1>2, <1>4 DEF Inv, WritingInv, PutBackInv, Fixed
<1> QED
  BY <1>2, <1>5, <1>6 DEF Inv

LEMMA StartKeeps == ASSUME Inv, Start PROVE Inv'
<1>1. /\ UNCHANGED still /\ w.at = "idle" /\ capture = "none" /\ capture' = capture
      /\ cancelled' = FALSE /\ expired' = FALSE
  BY DEF Start
<1>2. /\ seq' \in SequenceRecords /\ seq'.at = "check" /\ seq'.hit = {}
      /\ seq'.possibly = {} /\ seq'.declared = {} /\ seq'.state = "completed"
  BY NoSequenceIsRecord DEF Start, SequenceRecords
<1>3. WriteInv' /\ w' = Idle
  BY <1>1, StillKeepsWrite, BusyIsNotIdle DEF Inv, WriteInv, WriteType, still
<1> QED
  BY <1>1, <1>2, <1>3 DEF Inv, SequenceType, RoomInv, WritingInv, HitInv, UncleanedInv,
     PutBackInv, OwnCaptureInv

LEMMA HaltsKeeps == ASSUME Inv, Halts PROVE Inv'
<1>1. /\ UNCHANGED still /\ capture' = capture /\ cancelled' = cancelled
      /\ expired' = expired /\ seq.at \in {"check", "wait"}
  BY DEF Halts, outside
<1>2. PICK state \in States : FailsAs(state)
  BY DEF Halts, States
<1>3. /\ seq' \in SequenceRecords /\ seq'.at = "cleanup" /\ seq'.hit = seq.hit
      /\ seq'.possibly = seq.possibly /\ seq'.declared = seq.declared
      /\ seq'.issued = seq.issued /\ seq'.active = seq.active
  BY <1>2 DEF FailsAs, SequenceRecords, Inv, SequenceType
<1>4. WriteInv' /\ w' = Idle /\ seq.declared = {}
  BY <1>1, StillKeepsWrite DEF Inv, WritingInv, UncleanedInv, still
<1> QED
  BY <1>1, <1>3, <1>4 DEF Inv, SequenceType, RoomInv, WritingInv, HitInv, UncleanedInv,
     PutBackInv, OwnCaptureInv

LEMMA WaitsKeeps == ASSUME Inv, Waits PROVE Inv'
<1>1. /\ UNCHANGED still /\ capture' = capture /\ cancelled' = cancelled
      /\ expired' = expired /\ seq.at = "check" /\ seq.done < MaxSteps
  BY DEF Waits, outside
<1>2. /\ seq' \in SequenceRecords /\ seq'.at = "wait" /\ seq'.hit = seq.hit
      /\ seq'.possibly = seq.possibly /\ seq'.declared = seq.declared
      /\ seq'.issued = seq.issued /\ seq'.active = seq.active
      /\ seq'.state = seq.state /\ seq'.done = seq.done
  BY DEF Waits, SequenceRecords, Inv, SequenceType
<1>3. WriteInv' /\ w' = Idle
  BY <1>1, StillKeepsWrite DEF Inv, WritingInv, still
<1> QED
  BY <1>1, <1>2, <1>3 DEF Inv, SequenceType, RoomInv, WritingInv, HitInv, UncleanedInv,
     PutBackInv, OwnCaptureInv

LEMMA CompletesKeeps == ASSUME Inv, Completes PROVE Inv'
<1>1. /\ UNCHANGED still /\ capture' = capture /\ cancelled' = cancelled
      /\ expired' = expired /\ seq.at = "check"
  BY DEF Completes, outside
<1>2. /\ seq' \in SequenceRecords /\ seq'.at = "done" /\ seq'.hit = seq.hit
      /\ seq'.possibly = seq.possibly /\ seq'.declared = seq.declared
      /\ seq'.issued = seq.issued /\ seq'.state = seq.state
  BY DEF Completes, SequenceRecords, Inv, SequenceType
<1>3. WriteInv' /\ w' = Idle /\ seq.declared = {} /\ seq.state = "completed"
  BY <1>1, StillKeepsWrite DEF Inv, WritingInv, UncleanedInv, still
<1> QED
  BY <1>1, <1>2, <1>3 DEF Inv, SequenceType, RoomInv, WritingInv, HitInv, UncleanedInv,
     PutBackInv, OwnCaptureInv

LEMMA WriteStepKeeps == ASSUME Inv, NEW ref \in Spellings, WriteStep(ref) PROVE Inv'
<1> PICK opts \in StepOptions : Begin(opts)
  BY DEF WriteStep
<1>1. /\ seq.at = "wait" /\ capture = "none" /\ capture' = capture
      /\ cancelled' = cancelled /\ expired' = expired
  BY DEF WriteStep, Ready, outside
<1>2. /\ seq' \in SequenceRecords /\ seq'.at = "writing" /\ seq'.hit = seq.hit
      /\ seq'.possibly = seq.possibly /\ seq'.declared = seq.declared
      /\ seq'.issued = seq.issued /\ seq'.active = seq.active
      /\ seq'.state = seq.state /\ seq'.done = seq.done /\ seq'.ref = ref
  BY DEF WriteStep, SequenceRecords, Inv, SequenceType
<1>3. WriteInv' /\ w'.at # "idle"
  BY BeginKeeps DEF Inv, StepOptions
<1> QED
  BY <1>1, <1>2, <1>3 DEF Inv, SequenceType, RoomInv, WritingInv, HitInv, UncleanedInv,
     PutBackInv, OwnCaptureInv

(* The result of a write is taken down as it was.                          *)
LEMMA ResultKeeps ==
  ASSUME Inv, NEW ref \in Spellings, NEW ok \in BOOLEAN, NEW issued \in BOOLEAN,
         NEW unknown \in BOOLEAN, NEW hit \in BOOLEAN, seq.at \in {"wait", "writing"},
         WriteResult(ref, ok, issued, unknown, hit), hit => ok \/ issued,
         WriteInv', w' = Idle, UNCHANGED outside
  PROVE  Inv'
<1>1. /\ seq' \in SequenceRecords /\ seq'.at = IF ok THEN "check" ELSE "cleanup"
      /\ (ok => seq'.state = seq.state) /\ seq'.active = seq.active
      /\ seq'.declared = seq.declared /\ seq.possibly \subseteq seq'.possibly
      /\ seq'.hit = IF hit THEN seq.hit \cup {ref} ELSE seq.hit
      /\ (ok \/ issued \/ unknown => ref \in seq'.possibly)
      /\ (seq.issued \/ ok \/ issued => seq'.issued)
  BY WriteResultEffect DEF Inv, SequenceType, RoomInv
<1>2. seq.declared = {} /\ seq.state = "completed" /\ seq'.at \in {"check", "cleanup"}
  BY <1>1 DEF Inv, UncleanedInv
<1>3. HitInv'
  BY <1>1 DEF Inv, HitInv
<1>4. SequenceType' /\ RoomInv' /\ WritingInv' /\ UncleanedInv' /\ PutBackInv'
  BY <1>1, <1>2 DEF Inv, SequenceType, RoomInv, WritingInv, UncleanedInv, PutBackInv, outside
<1>5. OwnCaptureInv'
  BY <1>1, <1>2 DEF Inv, OwnCaptureInv, outside
<1> QED
  BY <1>3, <1>4, <1>5 DEF Inv

LEMMA WriteStepReturnsKeeps == ASSUME Inv, WriteStepReturns PROVE Inv'
<1>1. /\ seq.at = "writing" /\ w.at = "answered" /\ w' = Idle /\ value' = value
      /\ UNCHANGED outside
      /\ WriteResult(seq.ref, ~w.error.raised, w.error.issued, w.error.unknown, w.hit)
  BY DEF WriteStepReturns, Answered
<1>2. w \in WriteRecords /\ seq.ref \in Spellings
  BY <1>1, BusyIsRecord DEF Inv, WriteInv, WritingInv
<1>3. /\ (~w.error.raised) \in BOOLEAN /\ w.error.issued \in BOOLEAN
      /\ w.error.unknown \in BOOLEAN /\ w.hit \in BOOLEAN
  BY <1>2 DEF WriteRecords
<1>4. w.hit => ~w.error.raised \/ w.error.issued
  BY <1>1 DEF Inv, WriteInv, EndInv
<1>5. WriteInv'
  BY <1>1, IdleKeepsWrite DEF Inv, WriteInv, WriteType
<1> QED
  BY <1>1, <1>2, <1>3, <1>4, <1>5, ResultKeeps

(* A write through the capture says what is so, too.                       *)
LEMMA ThroughCaptureSays ==
  ASSUME Inv, NEW opts \in Options, NEW ok \in BOOLEAN, NEW issued \in BOOLEAN,
         NEW unknown \in BOOLEAN, NEW hit \in BOOLEAN,
         ThroughCapture(opts, ok, issued, unknown, hit)
  PROVE  /\ value' \in Values /\ (hit => ok \/ issued)
         /\ ok /\ opts.verify /\ ~opts.restore => value' = opts.requested
BY ValuesOK DEF ThroughCapture, Inv, WriteInv, WriteType, Lands, Breaks, Options

LEMMA WriteStepThroughCaptureKeeps ==
  ASSUME Inv, NEW ref \in Spellings, WriteStepThroughCapture(ref) PROVE Inv'
<1>1. PICK opts \in StepOptions, ok, issued, unknown, hit \in BOOLEAN :
        /\ ThroughCapture(opts, ok, issued, unknown, hit)
        /\ WriteResult(ref, ok, issued, unknown, hit)
  BY DEF WriteStepThroughCapture
<1>2. /\ seq.at = "wait" /\ w' = w /\ UNCHANGED outside
  BY DEF WriteStepThroughCapture, Ready
<1>3. value' \in Values /\ (hit => ok \/ issued)
  BY <1>1, ThroughCaptureSays DEF StepOptions
<1>4. WriteInv' /\ w' = Idle
  BY <1>2, <1>3, IdleKeepsWrite DEF Inv, WritingInv
<1> QED
  BY <1>1, <1>2, <1>3, <1>4, ResultKeeps

(* A step that is not a write leaves the variable alone.                   *)
LEMMA StepKeeps ==
  ASSUME Inv, seq.at = "wait", UNCHANGED still, NEW ok \in BOOLEAN,
         seq' \in SequenceRecords, seq'.at = IF ok THEN "check" ELSE "cleanup",
         ok => seq'.state = seq.state, seq'.hit = seq.hit,
         seq'.possibly = seq.possibly, seq'.declared = seq.declared,
         seq.issued => seq'.issued, SequenceType',
         capture' = "capturing" => seq'.active
  PROVE  Inv'
<1>1. WriteInv' /\ w' = Idle
  BY StillKeepsWrite DEF Inv, WritingInv, still
<1>2. seq'.at \in {"check", "cleanup"} /\ seq.declared = {} /\ seq.state = "completed"
  BY DEF Inv, UncleanedInv
<1>3. HitInv'
  BY DEF Inv, HitInv
<1> QED
  BY <1>1, <1>2, <1>3 DEF Inv, RoomInv, WritingInv, UncleanedInv, PutBackInv, OwnCaptureInv

LEMMA OtherStepKeeps == ASSUME Inv, OtherStep PROVE Inv'
<1>1. /\ seq.at = "wait" /\ UNCHANGED still /\ capture' = capture
      /\ cancelled' = cancelled /\ expired' = expired
  BY DEF OtherStep, Ready, outside
<1>2. PICK ok, issued, unknown \in BOOLEAN : seq' = StepResult(seq, ok, issued, unknown)
  BY DEF OtherStep
<1>3. seq \in SequenceRecords /\ seq.done < MaxSteps
  BY <1>1 DEF Inv, SequenceType, RoomInv
<1>4. /\ seq' \in SequenceRecords /\ seq'.at = IF ok THEN "check" ELSE "cleanup"
      /\ (ok => seq'.state = seq.state) /\ seq'.active = seq.active
      /\ seq'.possibly = seq.possibly /\ seq'.hit = seq.hit
      /\ seq'.declared = seq.declared /\ (seq.issued => seq'.issued)
  BY <1>2, <1>3, StepResultEffect
<1>5. SequenceType' /\ (capture' = "capturing" => seq'.active)
  BY <1>1, <1>4 DEF Inv, SequenceType, OwnCaptureInv
<1> QED
  BY <1>1, <1>4, <1>5, StepKeeps

LEMMA HssStartKeeps == ASSUME Inv, HssStart PROVE Inv'
<1>1. /\ seq.at = "wait" /\ UNCHANGED still /\ cancelled' = cancelled
      /\ expired' = expired
  BY DEF HssStart, Ready
<1>2. seq \in SequenceRecords /\ seq.done < MaxSteps
  BY <1>1 DEF Inv, SequenceType, RoomInv
<1>3. CASE /\ capture' = "capturing"
           /\ seq' = [StepResult(seq, TRUE, FALSE, FALSE) EXCEPT
                        !.planned = TRUE, !.active = TRUE]
  <2> PICK s : s = StepResult(seq, TRUE, FALSE, FALSE)
    OBVIOUS
  <2>1. /\ s \in SequenceRecords /\ s.at = "check" /\ s.state = seq.state
        /\ s.possibly = seq.possibly /\ s.hit = seq.hit
        /\ s.declared = seq.declared /\ (seq.issued => s.issued)
    BY <1>2, StepResultEffect
  <2>2. /\ seq' \in SequenceRecords /\ seq'.at = s.at /\ seq'.state = s.state
        /\ seq'.possibly = s.possibly /\ seq'.hit = s.hit /\ seq'.declared = s.declared
        /\ seq'.issued = s.issued /\ seq'.active
    BY <1>3, <2>1 DEF SequenceRecords
  <2>3. SequenceType'
    BY <1>1, <1>3, <2>2 DEF Inv, SequenceType
  <2> QED
    BY <1>1, <2>1, <2>2, <2>3, StepKeeps
<1>4. CASE /\ capture' \in {"none", "told"}
           /\ \E named, unknown \in BOOLEAN :
                seq' = [StepResult(seq, FALSE, FALSE, unknown) EXCEPT !.active = named]
  <2> PICK named, unknown \in BOOLEAN :
             seq' = [StepResult(seq, FALSE, FALSE, unknown) EXCEPT !.active = named]
    BY <1>4
  <2> PICK s : s = StepResult(seq, FALSE, FALSE, unknown)
    OBVIOUS
  <2>1. /\ s \in SequenceRecords /\ s.at = IF FALSE THEN "check" ELSE "cleanup"
        /\ (FALSE => s.state = seq.state) /\ s.active = seq.active
        /\ s.possibly = seq.possibly /\ s.hit = seq.hit
        /\ s.declared = seq.declared /\ (seq.issued \/ (~FALSE /\ FALSE) => s.issued)
    BY <1>2, QuietResultEffect, ZenonT(60)
  <2>2. /\ seq' \in SequenceRecords /\ seq'.at = s.at
        /\ seq'.possibly = s.possibly /\ seq'.hit = s.hit /\ seq'.declared = s.declared
        /\ seq'.issued = s.issued
    BY <2>1 DEF SequenceRecords
  <2>3. SequenceType'
    BY <1>1, <1>4, <2>2 DEF Inv, SequenceType
  <2> QED
    BY <1>1, <1>4, <2>1, <2>2, <2>3, StepKeeps
<1> QED
  BY <1>3, <1>4 DEF HssStart

(* A capture that was not stopped goes on, or was told to stop.            *)
LEMMA StopCaptureEffect ==
  ASSUME SequenceType, NEW ok \in BOOLEAN, StopCapture(ok)
  PROVE  /\ capture' \in {"none", "capturing", "told"}
         /\ ok => capture' = "none"
         /\ capture' = "capturing" => capture = "capturing"
BY DEF StopCapture, SequenceType

LEMMA HssStopKeeps == ASSUME Inv, HssStop PROVE Inv'
<1>1. /\ seq.at = "wait" /\ UNCHANGED still /\ cancelled' = cancelled
      /\ expired' = expired
  BY DEF HssStop, Ready
<1>2. seq \in SequenceRecords /\ seq.done < MaxSteps
  BY <1>1 DEF Inv, SequenceType, RoomInv
<1>3. PICK ok, unknown \in BOOLEAN :
        /\ StopCapture(ok)
        /\ seq' = [StepResult(seq, ok, FALSE, unknown) EXCEPT !.active = ~ok, !.last = TRUE]
  BY DEF HssStop
<1> PICK s : s = StepResult(seq, ok, FALSE, unknown)
  OBVIOUS
<1>4. /\ s \in SequenceRecords /\ s.at = IF ok THEN "check" ELSE "cleanup"
      /\ (ok => s.state = seq.state) /\ s.active = seq.active
      /\ s.possibly = seq.possibly /\ s.hit = seq.hit
      /\ s.declared = seq.declared /\ (seq.issued => s.issued)
  BY <1>2, QuietResultEffect, ZenonT(60)
<1>5. /\ seq' \in SequenceRecords /\ seq'.at = s.at /\ seq'.state = s.state
      /\ seq'.possibly = s.possibly /\ seq'.hit = s.hit /\ seq'.declared = s.declared
      /\ seq'.issued = s.issued /\ (~ok => seq'.active)
  BY <1>3, <1>4, ZenonT(60) DEF SequenceRecords
<1>6. /\ capture' \in {"none", "capturing", "told"} /\ (ok => capture' = "none")
  BY <1>3, StopCaptureEffect DEF Inv
<1>7. SequenceType' /\ (capture' = "capturing" => seq'.active)
  BY <1>1, <1>5, <1>6 DEF Inv, SequenceType
<1> QED
  BY <1>1, <1>4, <1>5, <1>7, StepKeeps

-----------------------------------------------------------------------------
(* The cleanup.                                                            *)
LEMMA CleanedEffect ==
  ASSUME NEW s \in SequenceRecords, NEW ok \in BOOLEAN, NEW r, r = Cleaned(s, ok)
  PROVE  /\ r \in SequenceRecords /\ r.at = "cleanup" /\ r.hit = s.hit
         /\ r.possibly = s.possibly /\ r.declared = s.declared /\ r.issued = s.issued
         /\ r.active = s.active /\ r.state = s.state
         /\ (s.unknown => r.unknown) /\ (~ok => r.unknown)
BY DEF Cleaned, SequenceRecords

LEMMA CleanupBeginsEffect ==
  ASSUME seq \in SequenceRecords, seq.cleaned < MaxCleanup, NEW ref \in Spellings,
         NEW r, r = CleanupBegins(ref)
  PROVE  /\ r \in SequenceRecords /\ r.at = seq.at /\ r.hit = seq.hit
         /\ r.possibly = seq.possibly /\ r.declared = seq.declared \cup {ref}
         /\ r.issued = seq.issued /\ r.active = seq.active /\ r.state = seq.state
         /\ r.unknown = seq.unknown
<1>1. seq.cleaned + 1 \in 0 .. MaxCleanup
  BY SequenceOK DEF SequenceRecords
<1> QED
  BY <1>1 DEF CleanupBegins, SequenceRecords

LEMMA SkipRestoreKeeps == ASSUME Inv, NEW ref \in Spellings, SkipRestore(ref) PROVE Inv'
<1>1. /\ UNCHANGED still /\ capture' = capture /\ cancelled' = cancelled
      /\ expired' = expired /\ seq.at = "cleanup" /\ seq.cleaned < MaxCleanup
      /\ ref \notin seq.possibly /\ seq' = CleanupBegins(ref)
  BY DEF SkipRestore, Declares, outside
<1>2. seq \in SequenceRecords
  BY DEF Inv, SequenceType
<1>3. /\ seq' \in SequenceRecords /\ seq'.at = seq.at /\ seq'.hit = seq.hit
      /\ seq'.possibly = seq.possibly /\ seq'.declared = seq.declared \cup {ref}
      /\ seq'.issued = seq.issued /\ seq'.active = seq.active /\ seq'.state = seq.state
      /\ seq'.unknown = seq.unknown
  BY <1>1, <1>2, CleanupBeginsEffect
<1>4. WriteInv' /\ w' = Idle /\ value' = value
  BY <1>1, StillKeepsWrite DEF Inv, WritingInv, still
<1>5. seq'.hit \cap seq'.declared = seq.hit \cap seq.declared
  BY <1>1, <1>3 DEF Inv, HitInv
<1> QED
  BY <1>1, <1>3, <1>4, <1>5 DEF Inv, SequenceType, RoomInv, WritingInv, HitInv, UncleanedInv,
     PutBackInv, OwnCaptureInv

LEMMA UndoOptionsTyped ==
  /\ UndoOptions \in Options /\ UndoOptions.requested = Declared
  /\ UndoOptions.verify /\ ~UndoOptions.restore
BY SequenceOK DEF UndoOptions, Options

LEMMA RestoreKeeps == ASSUME Inv, NEW ref \in Spellings, Restore(ref) PROVE Inv'
<1>1. /\ seq.at = "cleanup" /\ seq.cleaned < MaxCleanup /\ Begin(UndoOptions)
      /\ seq' = [CleanupBegins(ref) EXCEPT !.at = "undoing"] /\ capture' = capture
      /\ cancelled' = cancelled /\ expired' = expired
  BY DEF Restore, Declares, outside
<1>2. seq \in SequenceRecords
  BY DEF Inv, SequenceType
<1> PICK r : r = CleanupBegins(ref)
  OBVIOUS
<1>3. /\ r \in SequenceRecords /\ r.hit = seq.hit /\ r.possibly = seq.possibly
      /\ r.issued = seq.issued /\ r.active = seq.active
  BY <1>1, <1>2, CleanupBeginsEffect
<1>4. /\ seq' \in SequenceRecords /\ seq'.at = "undoing" /\ seq'.hit = r.hit
      /\ seq'.possibly = r.possibly /\ seq'.issued = r.issued /\ seq'.active = r.active
  BY <1>1, <1>3 DEF SequenceRecords
<1>5. WriteInv' /\ w'.at # "idle" /\ w'.opts = UndoOptions
  BY <1>1, BeginKeeps, UndoOptionsTyped DEF Inv
<1> QED
  BY <1>1, <1>3, <1>4, <1>5 DEF Inv, SequenceType, RoomInv, WritingInv, HitInv, UncleanedInv,
     PutBackInv, OwnCaptureInv

(* After a cleanup action the variable holds what was declared for it, or  *)
(* the state is unknown.                                                   *)
LEMMA CleanedKeeps ==
  ASSUME Inv, seq.at \in {"cleanup", "undoing"},
         NEW s \in SequenceRecords, NEW ok \in BOOLEAN, seq' = Cleaned(s, ok),
         s.hit = seq.hit, s.possibly = seq.possibly, s.issued = seq.issued,
         s.active = seq.active, ok => value' = Declared, UNCHANGED outside,
         value' \in Values, w' = Idle
  PROVE  Inv'
<1>1. /\ seq' \in SequenceRecords /\ seq'.at = "cleanup" /\ seq'.hit = s.hit
      /\ seq'.possibly = s.possibly /\ seq'.declared = s.declared
      /\ seq'.issued = s.issued /\ seq'.active = s.active
      /\ (s.unknown => seq'.unknown) /\ (~ok => seq'.unknown)
  BY CleanedEffect
<1>2. WriteInv'
  BY IdleKeepsWrite
<1>3. PutBackInv'
  BY <1>1 DEF PutBackInv
<1>4. SequenceType' /\ RoomInv' /\ WritingInv' /\ HitInv' /\ UncleanedInv' /\ OwnCaptureInv'
  BY <1>1 DEF Inv, SequenceType, RoomInv, WritingInv, HitInv, UncleanedInv,
     OwnCaptureInv, outside
<1> QED
  BY <1>2, <1>3, <1>4 DEF Inv

LEMMA RestoreReturnsKeeps == ASSUME Inv, RestoreReturns PROVE Inv'
<1>1. /\ seq.at = "undoing" /\ w.at = "answered" /\ seq' = Cleaned(seq, ~w.error.raised)
      /\ w' = Idle /\ value' = value /\ UNCHANGED outside
  BY DEF RestoreReturns, Answered
<1>2. /\ w.opts = UndoOptions /\ value \in Values /\ seq \in SequenceRecords
      /\ (~w.error.raised) \in BOOLEAN
  BY <1>1 DEF Inv, WriteInv, WriteType, WritingInv, SequenceType
<1>3. ~w.error.raised => value' = Declared
  BY <1>1, <1>2, UndoOptionsTyped DEF Inv, WriteInv, EndInv
<1> QED
  BY <1>1, <1>2, <1>3, CleanedKeeps

LEMMA RestoreThroughCaptureKeeps ==
  ASSUME Inv, NEW ref \in Spellings, RestoreThroughCapture(ref) PROVE Inv'
<1>1. /\ seq.at = "cleanup" /\ seq.cleaned < MaxCleanup /\ w' = w /\ UNCHANGED outside
  BY DEF RestoreThroughCapture, Declares
<1>2. PICK ok, issued, unknown, hit \in BOOLEAN :
        /\ ThroughCapture(UndoOptions, ok, issued, unknown, hit)
        /\ seq' = Cleaned(CleanupBegins(ref), ok)
  BY DEF RestoreThroughCapture
<1>3. seq \in SequenceRecords /\ w' = Idle
  BY <1>1 DEF Inv, SequenceType, WritingInv
<1> PICK r : r = CleanupBegins(ref)
  OBVIOUS
<1>4. /\ r \in SequenceRecords /\ r.hit = seq.hit /\ r.possibly = seq.possibly
      /\ r.issued = seq.issued /\ r.active = seq.active
  BY <1>1, <1>3, CleanupBeginsEffect
<1>5. value' \in Values /\ (ok => value' = Declared)
  BY <1>2, ThroughCaptureSays, UndoOptionsTyped
<1> QED
  BY <1>1, <1>2, <1>3, <1>4, <1>5, CleanedKeeps

LEMMA DeclaredStopKeeps == ASSUME Inv, DeclaredStop PROVE Inv'
<1> DEFINE s == [seq EXCEPT !.cleaned = @ + 1]
<1>1. /\ UNCHANGED still /\ cancelled' = cancelled /\ expired' = expired
      /\ seq.at = "cleanup" /\ seq.cleaned < MaxCleanup /\ StopOwn(s)
  BY DEF DeclaredStop, Declares
<1>2. seq \in SequenceRecords
  BY DEF Inv, SequenceType
<1>3. /\ s \in SequenceRecords /\ s.hit = seq.hit /\ s.possibly = seq.possibly
      /\ s.issued = seq.issued /\ s.active = seq.active /\ s.declared = seq.declared
      /\ s.unknown = seq.unknown
  <2>1. seq.cleaned + 1 \in 0 .. MaxCleanup
    BY <1>1, <1>2, SequenceOK DEF SequenceRecords
  <2> QED
    BY <1>2, <2>1 DEF SequenceRecords
<1>4. WriteInv' /\ w' = Idle /\ value' = value
  BY <1>1, StillKeepsWrite DEF Inv, WritingInv, still
<1> HIDE DEF s
<1>5. /\ seq' \in SequenceRecords /\ seq'.at = "cleanup" /\ seq'.hit = s.hit
      /\ seq'.possibly = s.possibly /\ seq'.declared = s.declared
      /\ seq'.issued = s.issued /\ (s.unknown => seq'.unknown)
      /\ capture' \in {"none", "capturing", "told"}
      /\ capture' = "capturing" => seq'.active
  <2>1. CASE seq.active
    <3> PICK ok \in BOOLEAN : /\ StopCapture(ok)
                              /\ seq' = [Cleaned(s, ok) EXCEPT !.active = ~ok]
      BY <1>1, <1>3, <2>1 DEF StopOwn
    <3> PICK r : r = Cleaned(s, ok)
      OBVIOUS
    <3>1. /\ r \in SequenceRecords /\ r.at = "cleanup" /\ r.hit = s.hit
          /\ r.possibly = s.possibly /\ r.declared = s.declared /\ r.issued = s.issued
          /\ (s.unknown => r.unknown)
      BY <1>3, CleanedEffect
    <3>2. /\ seq' \in SequenceRecords /\ seq'.at = r.at /\ seq'.hit = r.hit
          /\ seq'.possibly = r.possibly /\ seq'.declared = r.declared
          /\ seq'.issued = r.issued /\ seq'.unknown = r.unknown
          /\ (~ok => seq'.active)
      BY <3>1, ZenonT(60) DEF SequenceRecords
    <3>3. capture' \in {"none", "capturing", "told"} /\ (ok => capture' = "none")
      BY StopCaptureEffect DEF Inv
    <3> QED
      BY <3>1, <3>2, <3>3
  <2>2. CASE ~seq.active
    <3>1. seq' = Cleaned(s, TRUE) /\ capture' = capture
      BY <1>1, <1>3, <2>2 DEF StopOwn
    <3>2. /\ seq' \in SequenceRecords /\ seq'.at = "cleanup" /\ seq'.hit = s.hit
          /\ seq'.possibly = s.possibly /\ seq'.declared = s.declared
          /\ seq'.issued = s.issued /\ (s.unknown => seq'.unknown)
      BY <1>3, <3>1, CleanedEffect, ZenonT(60)
    <3> QED
      BY <1>1, <2>2, <3>1, <3>2 DEF Inv, SequenceType, OwnCaptureInv
  <2> QED
    BY <2>1, <2>2
<1> QED
  BY <1>1, <1>3, <1>4, <1>5 DEF Inv, SequenceType, RoomInv, WritingInv, HitInv, UncleanedInv,
     PutBackInv, OwnCaptureInv

LEMMA EndsCleanupKeeps == ASSUME Inv, EndsCleanup PROVE Inv'
<1>1. /\ UNCHANGED still /\ cancelled' = cancelled /\ expired' = expired
      /\ seq.at = "cleanup"
  BY DEF EndsCleanup
<1>2. seq \in SequenceRecords
  BY DEF Inv, SequenceType
<1>3. WriteInv' /\ w' = Idle /\ value' = value
  BY <1>1, StillKeepsWrite DEF Inv, WritingInv, still
<1>4. /\ seq' \in SequenceRecords /\ seq'.at = "done" /\ seq'.hit = seq.hit
      /\ seq'.possibly = seq.possibly /\ seq'.declared = seq.declared
      /\ seq'.issued = seq.issued /\ (seq.unknown => seq'.unknown)
      /\ capture' \in {"none", "capturing", "told"}
      /\ capture' = "capturing" => seq'.unknown
  <2>1. CASE seq.active
    <3> PICK ok \in BOOLEAN : /\ StopCapture(ok)
                              /\ seq' = [seq EXCEPT !.at = "done", !.active = ~ok,
                                                    !.unknown = @ \/ ~ok]
      BY <2>1 DEF EndsCleanup, Automatic
    <3>1. capture' \in {"none", "capturing", "told"} /\ (ok => capture' = "none")
      BY StopCaptureEffect DEF Inv
    <3>2. /\ seq' \in SequenceRecords /\ seq'.at = "done" /\ seq'.hit = seq.hit
          /\ seq'.possibly = seq.possibly /\ seq'.declared = seq.declared
          /\ seq'.issued = seq.issued /\ (seq.unknown \/ ~ok => seq'.unknown)
      BY <1>2 DEF SequenceRecords
    <3> QED
      BY <3>1, <3>2
  <2>2. CASE ~seq.active
    <3>1. seq' = [seq EXCEPT !.at = "done"] /\ capture' = capture
      BY <2>2 DEF EndsCleanup, Automatic
    <3>2. /\ seq' \in SequenceRecords /\ seq'.at = "done" /\ seq'.hit = seq.hit
          /\ seq'.possibly = seq.possibly /\ seq'.declared = seq.declared
          /\ seq'.issued = seq.issued /\ seq'.unknown = seq.unknown
      BY <1>2, <3>1 DEF SequenceRecords
    <3> QED
      BY <1>1, <2>2, <3>1, <3>2 DEF Inv, SequenceType, OwnCaptureInv
  <2> QED
    BY <2>1, <2>2
<1> QED
  BY <1>1, <1>3, <1>4 DEF Inv, SequenceType, RoomInv, WritingInv, HitInv, UncleanedInv,
     PutBackInv, OwnCaptureInv

LEMMA ReturnKeeps == ASSUME Inv, Return PROVE Inv'
<1>1. /\ UNCHANGED still /\ capture' = capture /\ cancelled' = cancelled
      /\ expired' = expired /\ seq.at = "done" /\ seq' = NoSequence
  BY DEF Return, outside
<1>2. WriteInv'
  BY <1>1, StillKeepsWrite DEF Inv
<1> QED
  BY <1>1, <1>2, NoSequenceIsRecord DEF Inv, SequenceType, RoomInv, WritingInv, HitInv, UncleanedInv,
     PutBackInv, OwnCaptureInv

(* What the world does keeps the sequence's own invariants.                *)
LEMMA WorldKeeps ==
  ASSUME Inv, ClientCancels \/ DeadlinePasses \/ CaptureEnds PROVE Inv'
<1>1. UNCHANGED still /\ seq' = seq /\ capture' \in {capture, "none"}
  BY DEF ClientCancels, DeadlinePasses, CaptureEnds
<1>2. cancelled' \in BOOLEAN /\ expired' \in BOOLEAN
  BY DEF ClientCancels, DeadlinePasses, CaptureEnds, Inv, SequenceType
<1>3. WriteInv' /\ w' = w /\ value' = value
  BY <1>1, StillKeepsWrite DEF Inv, still
<1> QED
  BY <1>1, <1>2, <1>3 DEF Inv, SequenceType, RoomInv, WritingInv, HitInv, UncleanedInv,
     PutBackInv, OwnCaptureInv

LEMMA NextKeeps == ASSUME Inv, [Next]_vars PROVE Inv'
<1>1. CASE Next
  <2>1. CASE Step
    BY <2>1, WriteStepKeeps, WriteStepThroughCaptureKeeps, WriteStepReturnsKeeps,
       OtherStepKeeps, HssStartKeeps, HssStopKeeps DEF Step
  <2>2. CASE Cleanup
    BY <2>2, SkipRestoreKeeps, RestoreKeeps, RestoreThroughCaptureKeeps,
       RestoreReturnsKeeps, DeclaredStopKeeps, EndsCleanupKeeps DEF Cleanup
  <2> QED
    BY <1>1, <2>1, <2>2, ClientWritesKeeps, ClientAnsweredKeeps, WriteGoesOnKeeps,
       StartKeeps, HaltsKeeps, WaitsKeeps, CompletesKeeps, ReturnKeeps, WorldKeeps DEF Next
<1>2. CASE UNCHANGED vars
  <2>1. /\ UNCHANGED still /\ seq' = seq /\ capture' = capture
        /\ cancelled' = cancelled /\ expired' = expired /\ w' = w /\ value' = value
    BY <1>2 DEF vars, still
  <2>2. WriteInv'
    BY <2>1, StillKeepsWrite DEF Inv
  <2> QED
    BY <2>1, <2>2 DEF Inv, SequenceType, RoomInv, WritingInv, HitInv, UncleanedInv,
     PutBackInv, OwnCaptureInv
<1> QED
  BY <1>1, <1>2

(* In every state of a write and of a sequence, alone or one inside the    *)
(* other, what was done to the target and what is recorded of it agree.    *)
THEOREM Invariance == Spec => []Inv
<1>1. Init => Inv
  BY InitInv
<1>2. Inv /\ [Next]_vars => Inv'
  BY NextKeeps
<1> QED
  BY <1>1, <1>2, PTL DEF Spec

-----------------------------------------------------------------------------
LEMMA ErrorsAreErrors ==
  ASSUME NEW e \in ErrorRecords, Quiet(e) PROVE e \in Errors
<1>1. CASE e.raised
  <2>1. e = Err(e.issued, e.unknown)
    BY <1>1 DEF Err
  <2> QED
    BY <2>1 DEF Errors
<1>2. CASE ~e.raised
  <2>1. e = NoError
    BY <1>2 DEF Quiet, NoError
  <2> QED
    BY <2>1 DEF Errors
<1> QED
  BY <1>1, <1>2

(* The types of a write and of a sequence.                                 *)
LEMMA Types == ASSUME Inv PROVE TypeOK
<1>1. WriteTypeOK
  <2>1. CASE w = Idle
    BY <2>1 DEF Inv, WriteInv, WriteType, WriteTypeOK, Idle
  <2>2. CASE w # Idle
    <3>1. w \in WriteRecords
      BY <2>2 DEF Inv, WriteInv, WriteType
    <3>2. {w.main, w.check, w.undo, w.error} \subseteq Errors
      BY <3>1, BusyIsNotIdle, ErrorsAreErrors DEF Inv, WriteInv, QuietInv, WriteRecords
    <3> QED
      BY <3>1, <3>2 DEF Inv, WriteInv, WriteType, WriteTypeOK, WriteRecords
  <2> QED
    BY <2>1, <2>2
<1> QED
  BY <1>1 DEF Inv, SequenceType, SequenceRecords, TypeOK

(* An answer that says neither that a write was issued nor that the state  *)
(* is unknown has left the variable untouched (debug-sequence.ts,          *)
(* direct-operations.ts, jlink.ts): whichever way failed at whichever step.*)
THEOREM SilenceIsTrue == Spec => []SilenceMeansUntouched
<1>1. Inv => SilenceMeansUntouched
  <2> SUFFICES ASSUME Inv PROVE SilenceMeansUntouched
    OBVIOUS
  <2>1. SilentAnswerTouchedNothing
    <3>1. Err(FALSE, FALSE).raised /\ ~Err(FALSE, FALSE).issued
      BY DEF Err
    <3> QED
      BY <3>1 DEF Inv, WriteInv, EndInv, SilentAnswerTouchedNothing, Answered
  <2>2. Failed /\ ~seq.issued /\ ~seq.unknown => seq.hit = {}
    BY DEF Inv, HitInv
  <2> QED
    BY <2>1, <2>2 DEF SilenceMeansUntouched
<1> QED
  BY <1>1, Invariance, PTL

(* A verified write holds what was asked for, and a restoration that       *)
(* succeeded the old value.                                                *)
THEOREM ClaimsHold == Spec => []ClaimedValueHolds
<1>1. Inv => ClaimedValueHolds
  BY DEF Inv, WriteInv, EndInv, ClaimedValueHolds, Answered
<1> QED
  BY <1>1, Invariance, PTL

(* A sequence that does not complete has put back every variable it wrote  *)
(* and declared a restoration for, and told its capture to stop, or says   *)
(* that the state is unknown.                                              *)
THEOREM CleansUp == Spec => []CleanedOrUnknown
<1>1. Inv => CleanedOrUnknown
  <2> SUFFICES ASSUME Inv PROVE CleanedOrUnknown
    OBVIOUS
  <2>1. TypeOK
    BY Types
  <2>2. RestoredOrUnknown
    BY DEF Inv, PutBackInv, RestoredOrUnknown, Failed
  <2>3. StoppedOrUnknown
    BY DEF Inv, SequenceType, OwnCaptureInv, StoppedOrUnknown, Failed
  <2> QED
    BY <2>1, <2>2, <2>3 DEF CleanedOrUnknown
<1> QED
  BY <1>1, Invariance, PTL

-----------------------------------------------------------------------------
(***************************************************************************)
(* The polling capture (PollingCapture): its record says what was written  *)
(* and seen, and it leaves the target as it found it, for any number of    *)
(* calls, askers, samples and faults.                                      *)
(***************************************************************************)
Sampling == {"poll", "again", "read", "pause"}
Closed == {"finalize", "seal", "publish"}
AnyJob == [at : {"start", "drain", "close", "observe", "release", "gone"} \cup Sampling \cup Closed,
           stop : BOOLEAN, accepting : BOOLEAN, error : Failures, pauses : BOOLEAN,
           owns : BOOLEAN, closed : Installations \cup {None},
           expected : CpuStates \cup {None}, ends : Terminal \cup {None}]
AnyCall == [at : {"idle", "begun", "runs", "done", "told"}, issued : BOOLEAN, lost : BOOLEAN]
AnyAsker == [at : {"idle", "seals", "done"}, early : BOOLEAN]
AnyRecord == [state : Terminal \cup {"none", "capturing", "stopping"}, error : Failures]
AnyStaged == [samples : 0 .. MaxSamples, last : Terminal \cup {"active", "finalizing"},
              meta : Terminal \cup {"active"}, sound : BOOLEAN, writes : SUBSET Calls,
              staged : BOOLEAN]

TargetTypes ==
  /\ probe \in Calls \cup {None, "job"}
  /\ owner \in Installations \cup {None}
  /\ disturbs \in SUBSET Installations
  /\ target \in CpuStates
  /\ wanted \in SUBSET CpuStates
  /\ unsaid \in BOOLEAN

PollingTypes ==
  /\ job \in AnyJob
  /\ call \in [Calls -> AnyCall]
  /\ asker \in [Askers -> AnyAsker]
  /\ TargetTypes
  /\ session \in AnyRecord
  /\ raw \in AnyStaged
  /\ file \in FinalFile \cup {None}
  /\ faults \in 0 .. MaxFaults

(* The queue is the job's while it touches the target; there is room for   *)
(* the sample it is taking; a job that samples has seen no error yet, and  *)
(* one that seals has its outcome.                                         *)
JobInv ==
  /\ probe = "job" <=> job.at \in {"read", "pause", "observe", "release"}
  /\ job.at \in {"read", "pause"} => raw.samples < MaxSamples
  /\ job.at \in Sampling \cup {"start"} => job.error = None
  /\ job.accepting => job.at \in Sampling
  /\ job.at \in {"seal", "publish"} => job.ends \in Terminal

(* Calls are inside only while the job samples or drains; one that has     *)
(* been answered is in the journal, unless that had been ended.            *)
CallInv ==
  \A c \in Calls :
    /\ probe = c <=> call[c].at = "runs"
    /\ call[c].at \in {"begun", "runs", "done"} => job.at \in Sampling \cup {"drain"}
    /\ call[c].at = "idle" => ~call[c].issued
    /\ call[c].at = "told" => ~call[c].issued \/ call[c].lost \/ c \in raw.writes \/ Taken

(* The job has no doubt about the target; and has none to have.            *)
Sure == job.error \in {None, "known"}
AsLeft(s) == s \in wanted \/ unsaid

(* What the job knows of the target it will say is as it was found.        *)
TargetInv ==
  /\ job.at \in {"start", "poll", "again", "read", "drain", "close"} /\ Sure /\ owner # None =>
       AsLeft(target)
  /\ job.at = "pause" => AsLeft("running")
  /\ job.at = "observe" /\ Sure =>
       /\ AsLeft(job.expected) /\ job.closed \in Installations
       /\ target = IF job.closed \in disturbs THEN Other(job.expected) ELSE job.expected
  /\ job.at = "release" /\ Sure =>
       AsLeft(target) /\ target = job.expected /\ job.closed \notin disturbs
  /\ job.at \in Closed /\ Sure => AsLeft(target)

RecordInv ==
  session.state \in Terminal /\ session.error \in {None, "known"} =>
    AsLeft(target) /\ job.at = "gone"

(* Who asks while the job lives does so early, and there is one end of a   *)
(* journal that an asker wrote.                                            *)
AskersInv ==
  \A a \in Askers :
    /\ asker[a].at = "idle" => ~asker[a].early
    /\ asker[a].at # "idle" => asker[a].early \/ job.at = "gone"
    /\ asker[a].at = "seals" => raw.last = "interrupted"

(* The end of the journal is an asker's, who came early, or the job's; the *)
(* metadata agree with it, and so does the outcome of a job that seals.    *)
JournalInv ==
  /\ raw.meta \in {"active", raw.last}
  /\ Ended /\ job.at \notin {"seal", "publish", "gone"} => Taken /\ raw.last = "interrupted"
  /\ job.at \in {"seal", "publish"} => job.ends \in {raw.last, "interrupted", "failed"}
  /\ job.at = "seal" /\ raw.meta # "active" => job.ends \in {raw.last, "failed"}

(* What a final file holds is what is staged.                              *)
FileInv ==
  file # None =>
    /\ file.state = raw.last
    /\ file.by = "job" =>
         /\ file.writes = raw.writes /\ file.samples = raw.samples
         /\ job.at \in {"publish", "gone"}
    /\ file.by = "asker" =>
         /\ raw.last = "interrupted"
         /\ Taken \/ (job.at = "gone" /\ file.samples = raw.samples)

(* What the record says; a job that lives finds it ended by an asker only. *)
PollEndInv ==
  /\ job.at = "start" => session.state = "none" /\ \A a \in Askers : asker[a].at = "idle"
  /\ job.at # "gone" /\ session.state \in Terminal =>
       session.state = "failed" \/ (session.state = "interrupted" /\ ~raw.staged)
  /\ job.at = "publish" =>
       IF file = None THEN job.ends \notin {"completed", "stopped"}
       ELSE job.ends \in {raw.last, "failed"}
  /\ session.state \in {"completed", "stopped"} => file # None
  /\ session.state \in Terminal /\ file # None => session.state \in {file.state, "failed"}

PollingInv == PollingTypes /\ JobInv /\ CallInv /\ TargetInv /\ RecordInv
              /\ AskersInv /\ JournalInv /\ FileInv /\ PollEndInv

LEMMA ProbeFor ==
  ASSUME PollingTypes, NEW s \in Sessions
  PROVE  s.owner \in Installations \cup {None} /\ s.owns \in BOOLEAN /\ s.target \in CpuStates
<1> USE DEF PollingTypes, TargetTypes, AnyJob
<1>1. CASE s = [owner |-> owner, owns |-> job.owns, target |-> target]
  BY <1>1
<1>2. ASSUME NEW i \in Installations, s = [owner |-> i, owns |-> FALSE, target |-> Release(target)]
      PROVE  s.owner \in Installations \cup {None} /\ s.owns \in BOOLEAN /\ s.target \in CpuStates
  BY <1>2 DEF Release, Other, CpuStates
<1> QED BY <1>1, <1>2, Zenon DEF Sessions

(* Who came early stays early.                                             *)
LEMMA TakenForGood ==
  ASSUME PollingTypes, AskersInv, PollingNext, Taken
  PROVE  Taken'
<1>1. PICK b \in Askers : asker[b].early
  BY DEF Taken
<1>2. asker[b].at # "idle"
  BY <1>1 DEF AskersInv
<1>3. asker'[b].early
  <2>1. CASE \E a \in Askers : Reconcile(a)
    <3>1. PICK a \in Askers : Reconcile(a)
      BY <2>1
    <3>2. a # b
      BY <1>2, <3>1, Zenon DEF Reconcile
    <3>3. PICK at \in {"seals", "done"} : Asks(a, at)
      BY <3>1, Zenon DEF Reconcile
    <3> QED BY <1>1, <3>2, <3>3 DEF Asks, PollingTypes, AnyAsker
  <2>2. CASE \E a \in Askers : Reconciled(a)
    <3>1. PICK a \in Askers : asker' = [asker EXCEPT ![a].at = "done"]
      BY <2>2, Zenon DEF Reconciled
    <3> QED BY <1>1, <3>1 DEF PollingTypes, AnyAsker
  <2>3. CASE UNCHANGED asker
    BY <1>1, <2>3
  <2>4. CASE \E c \in Calls : CallBegins(c) \/ CallSteps(c)
    <3>1. UNCHANGED asker
      BY <2>4, Zenon DEF CallSteps, CallBegins, CallRefused, WriteRuns, WriteEnds, Resumes, Record, RecordFails
    <3> QED BY <2>3, <3>1
  <2>5. CASE JobSteps
    <3>1. UNCHANGED asker
      BY <2>5, Zenon DEF JobSteps, JobStarts, StartFails, LoopEnds, LoopFails, SampleBegins, SampleBeginsUnqueued,
         OwnerLost, ReadEnds, PauseEnds, Drains, CloseUnobserved, Close, Observe, ReleaseObserver, Finalize,
         FinalizeFails, Seal, SealFails, Publish, disk
    <3> QED BY <2>3, <3>1
  <2>6. CASE Stop \/ ServerDies \/ SessionGoes \/ Reopens \/ Syncs
    <3>1. UNCHANGED asker
      BY <2>6, Zenon DEF Stop, ServerDies, SessionGoes, Reopens, Syncs
    <3> QED BY <2>3, <3>1
  <2> QED BY <2>1, <2>2, <2>4, <2>5, <2>6, Zenon DEF PollingNext, AskerSteps
<1> QED BY <1>3 DEF Taken

LEMMA JobTyped ==
  ASSUME PollingTypes, JobInv, PollingNext
  PROVE  (job \in AnyJob)'
<1> USE PollingCaptureConstantsOK DEF PollingTypes, TargetTypes, disk, cpu, JobInv, AnyJob, CpuStates, Installations, Failures, Sampling, Closed, Terminal
<1>1. CASE JobStarts
    BY <1>1 DEF JobStarts
<1>2. CASE StartFails
    BY <1>2 DEF StartFails, Fault, NoJob, Release
<1>3. CASE LoopEnds
    BY <1>3 DEF LoopEnds, Ends
<1>4. CASE LoopFails
    BY <1>4 DEF LoopFails, FileFault, Fault, Ends
<1>5. CASE SampleBegins
  <2>1. PICK s \in Sessions :
          /\ owner' = s.owner /\ Unseen(s.target)
          /\ IF job.pauses /\ s.target = "running"
             THEN job' = [job EXCEPT !.at = "pause", !.owns = s.owns] /\ target' \in CpuStates
             ELSE job' = [job EXCEPT !.at = "read", !.owns = s.owns] /\ target' = s.target
    BY <1>5, Zenon DEF SampleBegins, SampleBeginsUnqueued
  <2>2. s.owner \in Installations \cup {None} /\ s.owns \in BOOLEAN /\ s.target \in CpuStates
    BY ProbeFor, Zenon DEF PollingTypes
  <2>3. /\ job.at \in {"poll", "again"} /\ raw.samples < MaxSamples /\ probe = None /\ probe' = "job"
        /\ UNCHANGED <<call, asker, wanted, disturbs, session, raw, file, faults>>
    BY <1>5, Zenon DEF SampleBegins, SampleBeginsUnqueued, disk
  <2>4. CASE job' = [job EXCEPT !.at = "pause", !.owns = s.owns] /\ s.target = "running" /\ target' \in CpuStates
    BY <2>1, <2>2, <2>3, <2>4 DEF Unseen
  <2>5. CASE job' = [job EXCEPT !.at = "read", !.owns = s.owns] /\ target' = s.target
    BY <2>1, <2>2, <2>3, <2>5 DEF Unseen
  <2> QED BY <2>1, <2>4, <2>5, Zenon
<1>6. CASE OwnerLost
    BY <1>6 DEF OwnerLost, Ends
<1>7. CASE ReadEnds
  <2>1. CASE Took /\ Goto("poll") /\ UNCHANGED faults
    BY <1>7, <2>1 DEF ReadEnds, Took, Goto
  <2>2. CASE /\ UNCHANGED <<raw, faults>>
             /\ job' = IF job.pauses THEN [job EXCEPT !.at = "poll"]
                       ELSE [job EXCEPT !.at = "again", !.pauses = TRUE]
    BY <1>7, <2>2 DEF ReadEnds
  <2>3. CASE Fault /\ TornEvent /\ job' = [job EXCEPT !.at = "poll", !.pauses = TRUE]
    BY <1>7, <2>3 DEF ReadEnds, Fault, TornEvent
  <2>4. CASE UNCHANGED <<raw, faults>> /\ job' = Ends(job, "unknown")
    BY <1>7, <2>4 DEF ReadEnds, Ends
  <2> QED BY <1>7, <2>1, <2>2, <2>3, <2>4, Zenon DEF ReadEnds
<1>8. CASE PauseEnds
  <2>1. CASE target' = "running" /\ Took /\ Goto("poll") /\ UNCHANGED <<unsaid, faults>>
    BY <1>8, <2>1 DEF PauseEnds, Took, Goto
  <2>2. CASE target' = "running" /\ Goto("poll") /\ UNCHANGED <<raw, unsaid, faults>>
    BY <1>8, <2>2 DEF PauseEnds, Goto
  <2>3. CASE target' \in CpuStates /\ job' = Ends(job, "unknown") /\ UNCHANGED <<raw, unsaid, faults>>
    BY <1>8, <2>3 DEF PauseEnds, Ends
  <2>4. CASE target' \in CpuStates /\ Goto("poll") /\ Fault /\ TornEvent /\ Unseen(target')
    BY <1>8, <2>4 DEF PauseEnds, Goto, Fault, TornEvent, Unseen
  <2> QED BY <1>8, <2>1, <2>2, <2>3, <2>4, Zenon DEF PauseEnds
<1>9. CASE Drains
    BY <1>9 DEF Drains, Operations, Goto
<1>10. CASE CloseUnobserved
    BY <1>10 DEF CloseUnobserved, Doubt
<1>11. CASE Close
  <2>1. CASE /\ job' = [job EXCEPT !.closed = owner, !.expected = target, !.at = "observe"]
             /\ probe' = "job"
    BY <1>11, <2>1 DEF Close, Release
  <2>2. CASE Doubt /\ UNCHANGED probe
    BY <1>11, <2>2 DEF Close, Release, Doubt
  <2> QED BY <1>11, <2>1, <2>2, Zenon DEF Close
<1>12. CASE Observe
  <2>1. CASE /\ owner' \in Installations /\ Goto("release") /\ target = job.expected
             /\ UNCHANGED <<target, probe>>
    BY <1>12, <2>1 DEF Observe, Goto
  <2>2. CASE owner' \in Installations /\ Unhealthy /\ target' \in CpuStates /\ UNCHANGED probe
    BY <1>12, <2>2 DEF Observe, Unhealthy
  <2>3. CASE Doubt /\ probe' = None /\ UNCHANGED <<owner, target>>
    BY <1>12, <2>3 DEF Observe, Doubt
  <2> QED BY <1>12, <2>1, <2>2, <2>3, Zenon DEF Observe, PollingTypes
<1>13. CASE ReleaseObserver
  <2>1. CASE owner = job.closed /\ target = job.expected /\ Goto("finalize")
    BY <1>13, <2>1 DEF ReleaseObserver, Release, Goto
  <2>2. CASE Doubt
    BY <1>13, <2>2 DEF ReleaseObserver, Release, Doubt
  <2> QED BY <1>13, <2>1, <2>2, Zenon DEF ReleaseObserver
<1>14. CASE Finalize
    BY <1>14 DEF Finalize, Outcome, Broken
<1>15. CASE FinalizeFails
    BY <1>15 DEF FinalizeFails, Fault, Outcome, Broken, Ended
<1>16. CASE Seal
    BY <1>16 DEF Seal, Sealable, Goto, Contents
<1>17. CASE SealFails
    BY <1>17 DEF SealFails, Fault, Broken
<1>18. CASE Publish
    BY <1>18 DEF Publish, NoJob
<1>19. CASE SessionGoes
    BY <1>19 DEF SessionGoes, Between, Release
<1>20. CASE Reopens
    BY <1>20 DEF Reopens, Between, Unseen
<1>21. CASE Syncs
    BY <1>21 DEF Syncs
<1>22. CASE Stop
    BY <1>22 DEF Stop, Active, SessionActive
<1>23. CASE ServerDies
    BY <1>23 DEF ServerDies, Active, Fault, NoJob, Release, Operations
<1>24. ASSUME NEW a \in Askers, Reconcile(a) PROVE (job \in AnyJob)'
    BY <1>24 DEF Reconcile, SessionActive, Active, Asks, Lost
<1>25. ASSUME NEW a \in Askers, Reconciled(a) PROVE (job \in AnyJob)'
    BY <1>25 DEF Reconciled, Sealable, Contents, Lost, Fault
<1>26. ASSUME NEW c \in Calls, CallBegins(c) PROVE (job \in AnyJob)'
    BY <1>26 DEF CallBegins
<1>27. ASSUME NEW c \in Calls, CallRefused(c) PROVE (job \in AnyJob)'
    BY <1>27 DEF CallRefused
<1>28. ASSUME NEW c \in Calls, WriteRuns(c) PROVE (job \in AnyJob)'
  <2>1. PICK s \in Sessions :
          owner' = s.owner /\ target' = s.target /\ Unseen(s.target) /\ job' = [job EXCEPT !.owns = s.owns]
    BY <1>28, Zenon DEF WriteRuns
  <2>2. s.owner \in Installations \cup {None} /\ s.owns \in BOOLEAN /\ s.target \in CpuStates
    BY ProbeFor, Zenon DEF PollingTypes
  <2>3. PICK i \in BOOLEAN : call' = [call EXCEPT ![c].at = "runs", ![c].issued = i]
    BY <1>28, Zenon DEF WriteRuns
  <2>4. /\ call[c].at = "begun" /\ probe = None /\ probe' = c
        /\ UNCHANGED <<asker, wanted, disturbs, session, raw, file, faults>>
    BY <1>28, Zenon DEF WriteRuns, disk
  <2> QED BY <2>1, <2>2, <2>3, <2>4 DEF Unseen
<1>29. ASSUME NEW c \in Calls, WriteEnds(c) PROVE (job \in AnyJob)'
    BY <1>29 DEF WriteEnds, Release
<1>30. ASSUME NEW c \in Calls, Resumes(c) PROVE (job \in AnyJob)'
  <2>1. PICK s \in Sessions : owner' = s.owner /\ job' = [job EXCEPT !.owns = s.owns]
    BY <1>30, Zenon DEF Resumes
  <2>2. s.owner \in Installations \cup {None} /\ s.owns \in BOOLEAN
    BY ProbeFor, Zenon DEF PollingTypes
  <2>3. /\ call[c].at = "begun" /\ probe = None
        /\ call' = [call EXCEPT ![c].at = "done", ![c].issued = TRUE]
        /\ UNCHANGED <<asker, probe, disturbs, session, raw, file, faults>>
    BY <1>30, Zenon DEF Resumes, disk
  <2>4. target' \in wanted' /\ wanted' \in SUBSET CpuStates /\ unsaid' = FALSE
    BY <1>30 DEF Resumes, CpuStates
  <2> QED BY <2>1, <2>2, <2>3, <2>4
<1>31. ASSUME NEW c \in Calls, Record(c) PROVE (job \in AnyJob)'
    BY <1>31 DEF Record, Active, Ended
<1>32. ASSUME NEW c \in Calls, RecordFails(c) PROVE (job \in AnyJob)'
    BY <1>32 DEF RecordFails, FileFault, Fault, TornEvent
<1> QED BY <1>1, <1>2, <1>3, <1>4, <1>5, <1>6, <1>7, <1>8, <1>9, <1>10, <1>11, <1>12, <1>13, <1>14, <1>15, <1>16, <1>17, <1>18, <1>19, <1>20, <1>21, <1>22, <1>23, <1>24, <1>25, <1>26, <1>27, <1>28, <1>29, <1>30, <1>31, <1>32
    DEF PollingNext, JobSteps, AskerSteps, CallSteps

LEMMA CallsTyped ==
  ASSUME PollingTypes, JobInv, PollingNext
  PROVE  (call \in [Calls -> AnyCall] /\ asker \in [Askers -> AnyAsker])'
<1> USE DEF PollingTypes, disk, cpu, AnyCall, AnyAsker
<1>1. CASE JobStarts
    BY <1>1 DEF JobStarts
<1>2. CASE StartFails
    BY <1>2 DEF StartFails, Fault, NoJob, Release
<1>3. CASE LoopEnds
    BY <1>3 DEF LoopEnds, Ends
<1>4. CASE LoopFails
    BY <1>4 DEF LoopFails, FileFault, Fault, Ends
<1>5. CASE SampleBegins
    BY <1>5 DEF SampleBegins, SampleBeginsUnqueued
<1>6. CASE OwnerLost
    BY <1>6 DEF OwnerLost, Ends
<1>7. CASE ReadEnds
    BY <1>7 DEF ReadEnds, Took, Goto, Ends, Fault, TornEvent
<1>8. CASE PauseEnds
    BY <1>8 DEF PauseEnds, Took, Goto, Ends, Fault, TornEvent, Unseen
<1>9. CASE Drains
    BY <1>9 DEF Drains, Operations, Goto
<1>10. CASE CloseUnobserved
    BY <1>10 DEF CloseUnobserved, Doubt
<1>11. CASE Close
    BY <1>11 DEF Close, Release, Doubt
<1>12. CASE Observe
    BY <1>12 DEF Observe, Goto, Unhealthy, Doubt
<1>13. CASE ReleaseObserver
    BY <1>13 DEF ReleaseObserver, Release, Goto, Doubt
<1>14. CASE Finalize
    BY <1>14 DEF Finalize, Outcome, Broken
<1>15. CASE FinalizeFails
    BY <1>15 DEF FinalizeFails, Fault, Outcome, Broken, Ended
<1>16. CASE Seal
    BY <1>16 DEF Seal, Sealable, Goto, Contents
<1>17. CASE SealFails
    BY <1>17 DEF SealFails, Fault, Broken
<1>18. CASE Publish
    BY <1>18 DEF Publish, NoJob
<1>19. CASE SessionGoes
    BY <1>19 DEF SessionGoes, Between, Release
<1>20. CASE Reopens
    BY <1>20 DEF Reopens, Between, Unseen
<1>21. CASE Syncs
    BY <1>21 DEF Syncs
<1>22. CASE Stop
    BY <1>22 DEF Stop, Active, SessionActive
<1>23. CASE ServerDies
    BY <1>23 DEF ServerDies, Active, Fault, NoJob, Release, Operations
<1>24. ASSUME NEW a \in Askers, Reconcile(a) PROVE (call \in [Calls -> AnyCall] /\ asker \in [Askers -> AnyAsker])'
  <2>1. asker[a].at = "idle" /\ SessionActive /\ UNCHANGED <<job, call, probe, owner, cpu, file, faults>>
    BY <1>24, Zenon DEF Reconcile
  <2>2. CASE Asks(a, "done") /\ Lost /\ UNCHANGED raw
    BY <2>1, <2>2 DEF SessionActive, Active, Asks, Lost
  <2>3. CASE /\ raw.meta = "active" /\ raw.last \in {"active", "finalizing"}
             /\ raw' = [raw EXCEPT !.last = "interrupted", !.meta = "interrupted",
                                   !.sound = raw.samples = 0]
             /\ \/ Asks(a, "seals") /\ UNCHANGED session
                \/ Asks(a, "done") /\ Lost
    <3>1. PICK s \in BOOLEAN : s = (raw.samples = 0)
      OBVIOUS
    <3>2. raw' = [raw EXCEPT !.last = "interrupted", !.meta = "interrupted", !.sound = s]
      BY <2>3, <3>1, Zenon
    <3>3. CASE Asks(a, "seals") /\ UNCHANGED session
      BY <2>1, <2>3, <3>2, <3>3 DEF SessionActive, Active, Asks
    <3>4. CASE Asks(a, "done") /\ Lost
      BY <2>1, <2>3, <3>2, <3>4 DEF SessionActive, Active, Asks, Lost
    <3> QED BY <2>3, <3>3, <3>4, Zenon
  <2> QED BY <1>24, <2>2, <2>3, Zenon DEF Reconcile
<1>25. ASSUME NEW a \in Askers, Reconciled(a) PROVE (call \in [Calls -> AnyCall] /\ asker \in [Askers -> AnyAsker])'
    BY <1>25 DEF Reconciled, Sealable, Contents, Lost, Fault
<1>26. ASSUME NEW c \in Calls, CallBegins(c) PROVE (call \in [Calls -> AnyCall] /\ asker \in [Askers -> AnyAsker])'
    BY <1>26 DEF CallBegins
<1>27. ASSUME NEW c \in Calls, CallRefused(c) PROVE (call \in [Calls -> AnyCall] /\ asker \in [Askers -> AnyAsker])'
    BY <1>27 DEF CallRefused
<1>28. ASSUME NEW c \in Calls, WriteRuns(c) PROVE (call \in [Calls -> AnyCall] /\ asker \in [Askers -> AnyAsker])'
  <2>1. PICK s \in Sessions :
          owner' = s.owner /\ target' = s.target /\ Unseen(s.target) /\ job' = [job EXCEPT !.owns = s.owns]
    BY <1>28, Zenon DEF WriteRuns
  <2>2. s.owner \in Installations \cup {None} /\ s.owns \in BOOLEAN /\ s.target \in CpuStates
    BY ProbeFor, Zenon DEF PollingTypes
  <2>3. PICK i \in BOOLEAN : call' = [call EXCEPT ![c].at = "runs", ![c].issued = i]
    BY <1>28, Zenon DEF WriteRuns
  <2>4. /\ call[c].at = "begun" /\ probe = None /\ probe' = c
        /\ UNCHANGED <<asker, wanted, disturbs, session, raw, file, faults>>
    BY <1>28, Zenon DEF WriteRuns, disk
  <2> QED BY <2>1, <2>2, <2>3, <2>4 DEF Unseen
<1>29. ASSUME NEW c \in Calls, WriteEnds(c) PROVE (call \in [Calls -> AnyCall] /\ asker \in [Askers -> AnyAsker])'
    BY <1>29 DEF WriteEnds, Release
<1>30. ASSUME NEW c \in Calls, Resumes(c) PROVE (call \in [Calls -> AnyCall] /\ asker \in [Askers -> AnyAsker])'
    BY <1>30 DEF Resumes
<1>31. ASSUME NEW c \in Calls, Record(c) PROVE (call \in [Calls -> AnyCall] /\ asker \in [Askers -> AnyAsker])'
    BY <1>31 DEF Record, Active, Ended
<1>32. ASSUME NEW c \in Calls, RecordFails(c) PROVE (call \in [Calls -> AnyCall] /\ asker \in [Askers -> AnyAsker])'
    BY <1>32 DEF RecordFails, FileFault, Fault, TornEvent
<1> QED BY <1>1, <1>2, <1>3, <1>4, <1>5, <1>6, <1>7, <1>8, <1>9, <1>10, <1>11, <1>12, <1>13, <1>14, <1>15, <1>16, <1>17, <1>18, <1>19, <1>20, <1>21, <1>22, <1>23, <1>24, <1>25, <1>26, <1>27, <1>28, <1>29, <1>30, <1>31, <1>32
    DEF PollingNext, JobSteps, AskerSteps, CallSteps

LEMMA TargetTyped ==
  ASSUME PollingTypes, JobInv, PollingNext
  PROVE  TargetTypes'
<1> USE PollingCaptureConstantsOK DEF PollingTypes, TargetTypes, disk, cpu, JobInv, Other, AnyJob, CpuStates, Installations
<1>1. CASE JobStarts
    BY <1>1 DEF JobStarts
<1>2. CASE StartFails
    BY <1>2 DEF StartFails, Fault, NoJob, Release
<1>3. CASE LoopEnds
    BY <1>3 DEF LoopEnds, Ends
<1>4. CASE LoopFails
    BY <1>4 DEF LoopFails, FileFault, Fault, Ends
<1>5. CASE SampleBegins
  <2>1. PICK s \in Sessions :
          /\ owner' = s.owner /\ Unseen(s.target)
          /\ IF job.pauses /\ s.target = "running"
             THEN job' = [job EXCEPT !.at = "pause", !.owns = s.owns] /\ target' \in CpuStates
             ELSE job' = [job EXCEPT !.at = "read", !.owns = s.owns] /\ target' = s.target
    BY <1>5, Zenon DEF SampleBegins, SampleBeginsUnqueued
  <2>2. s.owner \in Installations \cup {None} /\ s.owns \in BOOLEAN /\ s.target \in CpuStates
    BY ProbeFor, Zenon DEF PollingTypes
  <2>3. /\ job.at \in {"poll", "again"} /\ raw.samples < MaxSamples /\ probe = None /\ probe' = "job"
        /\ UNCHANGED <<call, asker, wanted, disturbs, session, raw, file, faults>>
    BY <1>5, Zenon DEF SampleBegins, SampleBeginsUnqueued, disk
  <2>4. CASE job' = [job EXCEPT !.at = "pause", !.owns = s.owns] /\ s.target = "running" /\ target' \in CpuStates
    BY <2>1, <2>2, <2>3, <2>4 DEF Unseen
  <2>5. CASE job' = [job EXCEPT !.at = "read", !.owns = s.owns] /\ target' = s.target
    BY <2>1, <2>2, <2>3, <2>5 DEF Unseen
  <2> QED BY <2>1, <2>4, <2>5, Zenon
<1>6. CASE OwnerLost
    BY <1>6 DEF OwnerLost, Ends
<1>7. CASE ReadEnds
    BY <1>7 DEF ReadEnds, Took, Goto, Ends, Fault, TornEvent
<1>8. CASE PauseEnds
    BY <1>8 DEF PauseEnds, Took, Goto, Ends, Fault, TornEvent, Unseen
<1>9. CASE Drains
    BY <1>9 DEF Drains, Operations, Goto
<1>10. CASE CloseUnobserved
    BY <1>10 DEF CloseUnobserved, Doubt
<1>11. CASE Close
    BY <1>11 DEF Close, Release, Doubt
<1>12. CASE Observe
    BY <1>12 DEF Observe, Goto, Unhealthy, Doubt
<1>13. CASE ReleaseObserver
    BY <1>13 DEF ReleaseObserver, Release, Goto, Doubt
<1>14. CASE Finalize
    BY <1>14 DEF Finalize, Outcome, Broken
<1>15. CASE FinalizeFails
    BY <1>15 DEF FinalizeFails, Fault, Outcome, Broken, Ended
<1>16. CASE Seal
    BY <1>16 DEF Seal, Sealable, Goto, Contents
<1>17. CASE SealFails
    BY <1>17 DEF SealFails, Fault, Broken
<1>18. CASE Publish
    BY <1>18 DEF Publish, NoJob
<1>19. CASE SessionGoes
    BY <1>19 DEF SessionGoes, Between, Release
<1>20. CASE Reopens
    BY <1>20 DEF Reopens, Between, Unseen
<1>21. CASE Syncs
    BY <1>21 DEF Syncs
<1>22. CASE Stop
    BY <1>22 DEF Stop, Active, SessionActive
<1>23. CASE ServerDies
    BY <1>23 DEF ServerDies, Active, Fault, NoJob, Release, Operations
<1>24. ASSUME NEW a \in Askers, Reconcile(a) PROVE TargetTypes'
    BY <1>24 DEF Reconcile, SessionActive, Active, Asks, Lost
<1>25. ASSUME NEW a \in Askers, Reconciled(a) PROVE TargetTypes'
    BY <1>25 DEF Reconciled, Sealable, Contents, Lost, Fault
<1>26. ASSUME NEW c \in Calls, CallBegins(c) PROVE TargetTypes'
    BY <1>26 DEF CallBegins
<1>27. ASSUME NEW c \in Calls, CallRefused(c) PROVE TargetTypes'
    BY <1>27 DEF CallRefused
<1>28. ASSUME NEW c \in Calls, WriteRuns(c) PROVE TargetTypes'
  <2>1. PICK s \in Sessions :
          owner' = s.owner /\ target' = s.target /\ Unseen(s.target) /\ job' = [job EXCEPT !.owns = s.owns]
    BY <1>28, Zenon DEF WriteRuns
  <2>2. s.owner \in Installations \cup {None} /\ s.owns \in BOOLEAN /\ s.target \in CpuStates
    BY ProbeFor, Zenon DEF PollingTypes
  <2>3. PICK i \in BOOLEAN : call' = [call EXCEPT ![c].at = "runs", ![c].issued = i]
    BY <1>28, Zenon DEF WriteRuns
  <2>4. /\ call[c].at = "begun" /\ probe = None /\ probe' = c
        /\ UNCHANGED <<asker, wanted, disturbs, session, raw, file, faults>>
    BY <1>28, Zenon DEF WriteRuns, disk
  <2> QED BY <2>1, <2>2, <2>3, <2>4 DEF Unseen
<1>29. ASSUME NEW c \in Calls, WriteEnds(c) PROVE TargetTypes'
    BY <1>29 DEF WriteEnds, Release
<1>30. ASSUME NEW c \in Calls, Resumes(c) PROVE TargetTypes'
  <2>1. PICK s \in Sessions : owner' = s.owner /\ job' = [job EXCEPT !.owns = s.owns]
    BY <1>30, Zenon DEF Resumes
  <2>2. s.owner \in Installations \cup {None} /\ s.owns \in BOOLEAN
    BY ProbeFor, Zenon DEF PollingTypes
  <2>3. /\ call[c].at = "begun" /\ probe = None
        /\ call' = [call EXCEPT ![c].at = "done", ![c].issued = TRUE]
        /\ UNCHANGED <<asker, probe, disturbs, session, raw, file, faults>>
    BY <1>30, Zenon DEF Resumes, disk
  <2>4. target' \in wanted' /\ wanted' \in SUBSET CpuStates /\ unsaid' = FALSE
    BY <1>30 DEF Resumes, CpuStates
  <2> QED BY <2>1, <2>2, <2>3, <2>4
<1>31. ASSUME NEW c \in Calls, Record(c) PROVE TargetTypes'
    BY <1>31 DEF Record, Active, Ended
<1>32. ASSUME NEW c \in Calls, RecordFails(c) PROVE TargetTypes'
    BY <1>32 DEF RecordFails, FileFault, Fault, TornEvent
<1> QED BY <1>1, <1>2, <1>3, <1>4, <1>5, <1>6, <1>7, <1>8, <1>9, <1>10, <1>11, <1>12, <1>13, <1>14, <1>15, <1>16, <1>17, <1>18, <1>19, <1>20, <1>21, <1>22, <1>23, <1>24, <1>25, <1>26, <1>27, <1>28, <1>29, <1>30, <1>31, <1>32
    DEF PollingNext, JobSteps, AskerSteps, CallSteps

LEMMA RecordTyped ==
  ASSUME PollingTypes, JobInv, PollingNext
  PROVE  (session \in AnyRecord /\ faults \in 0 .. MaxFaults)'
<1> USE PollingCaptureConstantsOK DEF PollingTypes, TargetTypes, disk, cpu, JobInv, AnyJob, AnyRecord, CpuStates, Installations, Failures, Sampling, Closed, Terminal
<1>1. CASE JobStarts
    BY <1>1 DEF JobStarts
<1>2. CASE StartFails
    BY <1>2 DEF StartFails, Fault, NoJob, Release
<1>3. CASE LoopEnds
    BY <1>3 DEF LoopEnds, Ends
<1>4. CASE LoopFails
    BY <1>4 DEF LoopFails, FileFault, Fault, Ends
<1>5. CASE SampleBegins
    BY <1>5 DEF SampleBegins, SampleBeginsUnqueued
<1>6. CASE OwnerLost
    BY <1>6 DEF OwnerLost, Ends
<1>7. CASE ReadEnds
    BY <1>7 DEF ReadEnds, Took, Goto, Ends, Fault, TornEvent
<1>8. CASE PauseEnds
    BY <1>8 DEF PauseEnds, Took, Goto, Ends, Fault, TornEvent, Unseen
<1>9. CASE Drains
    BY <1>9 DEF Drains, Operations, Goto
<1>10. CASE CloseUnobserved
    BY <1>10 DEF CloseUnobserved, Doubt
<1>11. CASE Close
    BY <1>11 DEF Close, Release, Doubt
<1>12. CASE Observe
    BY <1>12 DEF Observe, Goto, Unhealthy, Doubt
<1>13. CASE ReleaseObserver
    BY <1>13 DEF ReleaseObserver, Release, Goto, Doubt
<1>14. CASE Finalize
    BY <1>14 DEF Finalize, Outcome, Broken
<1>15. CASE FinalizeFails
    BY <1>15 DEF FinalizeFails, Fault, Outcome, Broken, Ended
<1>16. CASE Seal
    BY <1>16 DEF Seal, Sealable, Goto, Contents
<1>17. CASE SealFails
    BY <1>17 DEF SealFails, Fault, Broken
<1>18. CASE Publish
    BY <1>18 DEF Publish, NoJob
<1>19. CASE SessionGoes
    BY <1>19 DEF SessionGoes, Between, Release
<1>20. CASE Reopens
    BY <1>20 DEF Reopens, Between, Unseen
<1>21. CASE Syncs
    BY <1>21 DEF Syncs
<1>22. CASE Stop
    BY <1>22 DEF Stop, Active, SessionActive
<1>23. CASE ServerDies
  <2>1. UNCHANGED session /\ Fault
    BY <1>23, Zenon DEF ServerDies, disk
  <2> QED BY <2>1 DEF Fault
<1>24. ASSUME NEW a \in Askers, Reconcile(a) PROVE (session \in AnyRecord /\ faults \in 0 .. MaxFaults)'
    BY <1>24 DEF Reconcile, SessionActive, Active, Asks, Lost
<1>25. ASSUME NEW a \in Askers, Reconciled(a) PROVE (session \in AnyRecord /\ faults \in 0 .. MaxFaults)'
    BY <1>25 DEF Reconciled, Sealable, Contents, Lost, Fault
<1>26. ASSUME NEW c \in Calls, CallBegins(c) PROVE (session \in AnyRecord /\ faults \in 0 .. MaxFaults)'
    BY <1>26 DEF CallBegins
<1>27. ASSUME NEW c \in Calls, CallRefused(c) PROVE (session \in AnyRecord /\ faults \in 0 .. MaxFaults)'
    BY <1>27 DEF CallRefused
<1>28. ASSUME NEW c \in Calls, WriteRuns(c) PROVE (session \in AnyRecord /\ faults \in 0 .. MaxFaults)'
    BY <1>28 DEF WriteRuns, Unseen
<1>29. ASSUME NEW c \in Calls, WriteEnds(c) PROVE (session \in AnyRecord /\ faults \in 0 .. MaxFaults)'
    BY <1>29 DEF WriteEnds, Release
<1>30. ASSUME NEW c \in Calls, Resumes(c) PROVE (session \in AnyRecord /\ faults \in 0 .. MaxFaults)'
    BY <1>30 DEF Resumes
<1>31. ASSUME NEW c \in Calls, Record(c) PROVE (session \in AnyRecord /\ faults \in 0 .. MaxFaults)'
    BY <1>31 DEF Record, Active, Ended
<1>32. ASSUME NEW c \in Calls, RecordFails(c) PROVE (session \in AnyRecord /\ faults \in 0 .. MaxFaults)'
    BY <1>32 DEF RecordFails, FileFault, Fault, TornEvent
<1> QED BY <1>1, <1>2, <1>3, <1>4, <1>5, <1>6, <1>7, <1>8, <1>9, <1>10, <1>11, <1>12, <1>13, <1>14, <1>15, <1>16, <1>17, <1>18, <1>19, <1>20, <1>21, <1>22, <1>23, <1>24, <1>25, <1>26, <1>27, <1>28, <1>29, <1>30, <1>31, <1>32
    DEF PollingNext, JobSteps, AskerSteps, CallSteps

LEMMA StagedTyped ==
  ASSUME PollingTypes, JobInv, PollingNext
  PROVE  (raw \in AnyStaged)'
<1> USE PollingCaptureConstantsOK DEF PollingTypes, TargetTypes, disk, cpu, JobInv, AnyJob, AnyStaged, CpuStates, Installations, Failures, Sampling, Closed, Terminal
<1>1. CASE JobStarts
    BY <1>1 DEF JobStarts
<1>2. CASE StartFails
    BY <1>2 DEF StartFails, Fault, NoJob, Release
<1>3. CASE LoopEnds
    BY <1>3 DEF LoopEnds, Ends
<1>4. CASE LoopFails
    BY <1>4 DEF LoopFails, FileFault, Fault, Ends
<1>5. CASE SampleBegins
    BY <1>5 DEF SampleBegins, SampleBeginsUnqueued
<1>6. CASE OwnerLost
    BY <1>6 DEF OwnerLost, Ends
<1>7. CASE ReadEnds
  <2>1. CASE Took /\ Goto("poll") /\ UNCHANGED faults
    BY <1>7, <2>1 DEF ReadEnds, Took, Goto
  <2>2. CASE /\ UNCHANGED <<raw, faults>>
             /\ job' = IF job.pauses THEN [job EXCEPT !.at = "poll"]
                       ELSE [job EXCEPT !.at = "again", !.pauses = TRUE]
    BY <1>7, <2>2 DEF ReadEnds
  <2>3. CASE Fault /\ TornEvent /\ job' = [job EXCEPT !.at = "poll", !.pauses = TRUE]
    BY <1>7, <2>3 DEF ReadEnds, Fault, TornEvent
  <2>4. CASE UNCHANGED <<raw, faults>> /\ job' = Ends(job, "unknown")
    BY <1>7, <2>4 DEF ReadEnds, Ends
  <2> QED BY <1>7, <2>1, <2>2, <2>3, <2>4, Zenon DEF ReadEnds
<1>8. CASE PauseEnds
  <2>1. CASE target' = "running" /\ Took /\ Goto("poll") /\ UNCHANGED <<unsaid, faults>>
    BY <1>8, <2>1 DEF PauseEnds, Took, Goto
  <2>2. CASE target' = "running" /\ Goto("poll") /\ UNCHANGED <<raw, unsaid, faults>>
    BY <1>8, <2>2 DEF PauseEnds, Goto
  <2>3. CASE target' \in CpuStates /\ job' = Ends(job, "unknown") /\ UNCHANGED <<raw, unsaid, faults>>
    BY <1>8, <2>3 DEF PauseEnds, Ends
  <2>4. CASE target' \in CpuStates /\ Goto("poll") /\ Fault /\ TornEvent /\ Unseen(target')
    BY <1>8, <2>4 DEF PauseEnds, Goto, Fault, TornEvent, Unseen
  <2> QED BY <1>8, <2>1, <2>2, <2>3, <2>4, Zenon DEF PauseEnds
<1>9. CASE Drains
    BY <1>9 DEF Drains, Operations, Goto
<1>10. CASE CloseUnobserved
    BY <1>10 DEF CloseUnobserved, Doubt
<1>11. CASE Close
    BY <1>11 DEF Close, Release, Doubt
<1>12. CASE Observe
    BY <1>12 DEF Observe, Goto, Unhealthy, Doubt
<1>13. CASE ReleaseObserver
    BY <1>13 DEF ReleaseObserver, Release, Goto, Doubt
<1>14. CASE Finalize
  <2>1. PICK same \in BOOLEAN :
          raw' = [raw EXCEPT !.last = Outcome, !.meta = Outcome, !.sound = same]
    BY <1>14, Zenon DEF Finalize
  <2>2. Outcome \in Terminal
    BY DEF Outcome, Broken, Terminal
  <2> QED BY <1>14, <2>1, <2>2 DEF Finalize, JournalAgrees, Ended
<1>15. CASE FinalizeFails
    BY <1>15 DEF FinalizeFails, Fault, Outcome, Broken, Ended
<1>16. CASE Seal
    BY <1>16 DEF Seal, Sealable, Goto, Contents
<1>17. CASE SealFails
    BY <1>17 DEF SealFails, Fault, Broken
<1>18. CASE Publish
    BY <1>18 DEF Publish, NoJob
<1>19. CASE SessionGoes
    BY <1>19 DEF SessionGoes, Between, Release
<1>20. CASE Reopens
    BY <1>20 DEF Reopens, Between, Unseen
<1>21. CASE Syncs
    BY <1>21 DEF Syncs
<1>22. CASE Stop
    BY <1>22 DEF Stop, Active, SessionActive
<1>23. CASE ServerDies
    BY <1>23 DEF ServerDies, Active, Fault, NoJob, Release, Operations
<1>24. ASSUME NEW a \in Askers, Reconcile(a) PROVE (raw \in AnyStaged)'
  <2>1. asker[a].at = "idle" /\ SessionActive /\ UNCHANGED <<job, call, probe, owner, cpu, file, faults>>
    BY <1>24, Zenon DEF Reconcile
  <2>2. CASE Asks(a, "done") /\ Lost /\ UNCHANGED raw
    BY <2>1, <2>2 DEF SessionActive, Active, Asks, Lost
  <2>3. CASE /\ raw.meta = "active" /\ raw.last \in {"active", "finalizing"}
             /\ raw' = [raw EXCEPT !.last = "interrupted", !.meta = "interrupted",
                                   !.sound = raw.samples = 0]
             /\ \/ Asks(a, "seals") /\ UNCHANGED session
                \/ Asks(a, "done") /\ Lost
    <3>1. PICK s \in BOOLEAN : s = (raw.samples = 0)
      OBVIOUS
    <3>2. raw' = [raw EXCEPT !.last = "interrupted", !.meta = "interrupted", !.sound = s]
      BY <2>3, <3>1, Zenon
    <3>3. CASE Asks(a, "seals") /\ UNCHANGED session
      BY <2>1, <2>3, <3>2, <3>3 DEF SessionActive, Active, Asks
    <3>4. CASE Asks(a, "done") /\ Lost
      BY <2>1, <2>3, <3>2, <3>4 DEF SessionActive, Active, Asks, Lost
    <3> QED BY <2>3, <3>3, <3>4, Zenon
  <2> QED BY <1>24, <2>2, <2>3, Zenon DEF Reconcile
<1>25. ASSUME NEW a \in Askers, Reconciled(a) PROVE (raw \in AnyStaged)'
    BY <1>25 DEF Reconciled, Sealable, Contents, Lost, Fault
<1>26. ASSUME NEW c \in Calls, CallBegins(c) PROVE (raw \in AnyStaged)'
    BY <1>26 DEF CallBegins
<1>27. ASSUME NEW c \in Calls, CallRefused(c) PROVE (raw \in AnyStaged)'
    BY <1>27 DEF CallRefused
<1>28. ASSUME NEW c \in Calls, WriteRuns(c) PROVE (raw \in AnyStaged)'
    BY <1>28 DEF WriteRuns, Unseen
<1>29. ASSUME NEW c \in Calls, WriteEnds(c) PROVE (raw \in AnyStaged)'
    BY <1>29 DEF WriteEnds, Release
<1>30. ASSUME NEW c \in Calls, Resumes(c) PROVE (raw \in AnyStaged)'
    BY <1>30 DEF Resumes
<1>31. ASSUME NEW c \in Calls, Record(c) PROVE (raw \in AnyStaged)'
    BY <1>31 DEF Record, Active, Ended
<1>32. ASSUME NEW c \in Calls, RecordFails(c) PROVE (raw \in AnyStaged)'
    BY <1>32 DEF RecordFails, FileFault, Fault, TornEvent
<1> QED BY <1>1, <1>2, <1>3, <1>4, <1>5, <1>6, <1>7, <1>8, <1>9, <1>10, <1>11, <1>12, <1>13, <1>14, <1>15, <1>16, <1>17, <1>18, <1>19, <1>20, <1>21, <1>22, <1>23, <1>24, <1>25, <1>26, <1>27, <1>28, <1>29, <1>30, <1>31, <1>32
    DEF PollingNext, JobSteps, AskerSteps, CallSteps

LEMMA FileTyped ==
  ASSUME PollingTypes, PollingNext
  PROVE  (file \in FinalFile \cup {None})'
<1> USE PollingCaptureConstantsOK DEF PollingTypes, TargetTypes, disk, cpu, FinalFile, AnyStaged, Terminal
<1>1. CASE JobStarts
    BY <1>1 DEF JobStarts
<1>2. CASE StartFails
    BY <1>2 DEF StartFails, Fault, NoJob, Release
<1>3. CASE LoopEnds
    BY <1>3 DEF LoopEnds, Ends
<1>4. CASE LoopFails
    BY <1>4 DEF LoopFails, FileFault, Fault, Ends
<1>5. CASE SampleBegins
    BY <1>5 DEF SampleBegins, SampleBeginsUnqueued
<1>6. CASE OwnerLost
    BY <1>6 DEF OwnerLost, Ends
<1>7. CASE ReadEnds
    BY <1>7 DEF ReadEnds, Took, Goto, Ends, Fault, TornEvent
<1>8. CASE PauseEnds
    BY <1>8 DEF PauseEnds, Took, Goto, Ends, Fault, TornEvent, Unseen
<1>9. CASE Drains
    BY <1>9 DEF Drains, Operations, Goto
<1>10. CASE CloseUnobserved
    BY <1>10 DEF CloseUnobserved, Doubt
<1>11. CASE Close
    BY <1>11 DEF Close, Release, Doubt
<1>12. CASE Observe
    BY <1>12 DEF Observe, Goto, Unhealthy, Doubt
<1>13. CASE ReleaseObserver
    BY <1>13 DEF ReleaseObserver, Release, Goto, Doubt
<1>14. CASE Finalize
    BY <1>14 DEF Finalize, Outcome, Broken
<1>15. CASE FinalizeFails
    BY <1>15 DEF FinalizeFails, Fault, Outcome, Broken, Ended
<1>16. CASE Seal
    BY <1>16 DEF Seal, Sealable, Goto, Contents
<1>17. CASE SealFails
    BY <1>17 DEF SealFails, Fault, Broken
<1>18. CASE Publish
    BY <1>18 DEF Publish, NoJob
<1>19. CASE SessionGoes
    BY <1>19 DEF SessionGoes, Between, Release
<1>20. CASE Reopens
    BY <1>20 DEF Reopens, Between, Unseen
<1>21. CASE Syncs
    BY <1>21 DEF Syncs
<1>22. CASE Stop
    BY <1>22 DEF Stop, Active, SessionActive
<1>23. CASE ServerDies
    BY <1>23 DEF ServerDies, Active, Fault, NoJob, Release, Operations
<1>24. ASSUME NEW a \in Askers, Reconcile(a) PROVE (file \in FinalFile \cup {None})'
    BY <1>24 DEF Reconcile, SessionActive, Active, Asks, Lost
<1>25. ASSUME NEW a \in Askers, Reconciled(a) PROVE (file \in FinalFile \cup {None})'
    BY <1>25 DEF Reconciled, Sealable, Contents, Lost, Fault
<1>26. ASSUME NEW c \in Calls, CallBegins(c) PROVE (file \in FinalFile \cup {None})'
    BY <1>26 DEF CallBegins
<1>27. ASSUME NEW c \in Calls, CallRefused(c) PROVE (file \in FinalFile \cup {None})'
    BY <1>27 DEF CallRefused
<1>28. ASSUME NEW c \in Calls, WriteRuns(c) PROVE (file \in FinalFile \cup {None})'
    BY <1>28 DEF WriteRuns, Unseen
<1>29. ASSUME NEW c \in Calls, WriteEnds(c) PROVE (file \in FinalFile \cup {None})'
    BY <1>29 DEF WriteEnds, Release
<1>30. ASSUME NEW c \in Calls, Resumes(c) PROVE (file \in FinalFile \cup {None})'
    BY <1>30 DEF Resumes
<1>31. ASSUME NEW c \in Calls, Record(c) PROVE (file \in FinalFile \cup {None})'
    BY <1>31 DEF Record, Active, Ended
<1>32. ASSUME NEW c \in Calls, RecordFails(c) PROVE (file \in FinalFile \cup {None})'
    BY <1>32 DEF RecordFails, FileFault, Fault, TornEvent
<1> QED BY <1>1, <1>2, <1>3, <1>4, <1>5, <1>6, <1>7, <1>8, <1>9, <1>10, <1>11, <1>12, <1>13, <1>14, <1>15, <1>16, <1>17, <1>18, <1>19, <1>20, <1>21, <1>22, <1>23, <1>24, <1>25, <1>26, <1>27, <1>28, <1>29, <1>30, <1>31, <1>32
    DEF PollingNext, JobSteps, AskerSteps, CallSteps

LEMMA JobKept ==
  ASSUME PollingTypes, JobInv, CallInv, PollingNext
  PROVE  JobInv'
<1> USE PollingCaptureConstantsOK DEF PollingTypes, TargetTypes, disk, cpu, JobInv, CallInv, AnyJob, AnyCall, AnyAsker, AnyRecord, AnyStaged, CpuStates, Installations, Failures, Sampling, Closed, Terminal
<1>1. CASE JobStarts
    BY <1>1 DEF JobStarts
<1>2. CASE StartFails
    BY <1>2 DEF StartFails, Fault, NoJob, Release
<1>3. CASE LoopEnds
    BY <1>3 DEF LoopEnds, Ends
<1>4. CASE LoopFails
    BY <1>4 DEF LoopFails, FileFault, Fault, Ends
<1>5. CASE SampleBegins
  <2>1. PICK s \in Sessions :
          /\ owner' = s.owner /\ Unseen(s.target)
          /\ IF job.pauses /\ s.target = "running"
             THEN job' = [job EXCEPT !.at = "pause", !.owns = s.owns] /\ target' \in CpuStates
             ELSE job' = [job EXCEPT !.at = "read", !.owns = s.owns] /\ target' = s.target
    BY <1>5, Zenon DEF SampleBegins, SampleBeginsUnqueued
  <2>2. s.owner \in Installations \cup {None} /\ s.owns \in BOOLEAN /\ s.target \in CpuStates
    BY ProbeFor, Zenon DEF PollingTypes
  <2>3. /\ job.at \in {"poll", "again"} /\ raw.samples < MaxSamples /\ probe = None /\ probe' = "job"
        /\ UNCHANGED <<call, asker, wanted, disturbs, session, raw, file, faults>>
    BY <1>5, Zenon DEF SampleBegins, SampleBeginsUnqueued, disk
  <2>4. CASE job' = [job EXCEPT !.at = "pause", !.owns = s.owns] /\ s.target = "running" /\ target' \in CpuStates
    BY <2>1, <2>2, <2>3, <2>4 DEF Unseen
  <2>5. CASE job' = [job EXCEPT !.at = "read", !.owns = s.owns] /\ target' = s.target
    BY <2>1, <2>2, <2>3, <2>5 DEF Unseen
  <2> QED BY <2>1, <2>4, <2>5, Zenon
<1>6. CASE OwnerLost
    BY <1>6 DEF OwnerLost, Ends
<1>7. CASE ReadEnds
  <2>1. CASE Took /\ Goto("poll") /\ UNCHANGED faults
    BY <1>7, <2>1 DEF ReadEnds, Took, Goto
  <2>2. CASE /\ UNCHANGED <<raw, faults>>
             /\ job' = IF job.pauses THEN [job EXCEPT !.at = "poll"]
                       ELSE [job EXCEPT !.at = "again", !.pauses = TRUE]
    BY <1>7, <2>2 DEF ReadEnds
  <2>3. CASE Fault /\ TornEvent /\ job' = [job EXCEPT !.at = "poll", !.pauses = TRUE]
    BY <1>7, <2>3 DEF ReadEnds, Fault, TornEvent
  <2>4. CASE UNCHANGED <<raw, faults>> /\ job' = Ends(job, "unknown")
    BY <1>7, <2>4 DEF ReadEnds, Ends
  <2> QED BY <1>7, <2>1, <2>2, <2>3, <2>4, Zenon DEF ReadEnds
<1>8. CASE PauseEnds
  <2>1. CASE target' = "running" /\ Took /\ Goto("poll") /\ UNCHANGED <<unsaid, faults>>
    BY <1>8, <2>1 DEF PauseEnds, Took, Goto
  <2>2. CASE target' = "running" /\ Goto("poll") /\ UNCHANGED <<raw, unsaid, faults>>
    BY <1>8, <2>2 DEF PauseEnds, Goto
  <2>3. CASE target' \in CpuStates /\ job' = Ends(job, "unknown") /\ UNCHANGED <<raw, unsaid, faults>>
    BY <1>8, <2>3 DEF PauseEnds, Ends
  <2>4. CASE target' \in CpuStates /\ Goto("poll") /\ Fault /\ TornEvent /\ Unseen(target')
    BY <1>8, <2>4 DEF PauseEnds, Goto, Fault, TornEvent, Unseen
  <2> QED BY <1>8, <2>1, <2>2, <2>3, <2>4, Zenon DEF PauseEnds
<1>9. CASE Drains
    BY <1>9 DEF Drains, Operations, Goto
<1>10. CASE CloseUnobserved
    BY <1>10 DEF CloseUnobserved, Doubt
<1>11. CASE Close
  <2>1. CASE /\ job' = [job EXCEPT !.closed = owner, !.expected = target, !.at = "observe"]
             /\ probe' = "job"
    BY <1>11, <2>1 DEF Close, Release
  <2>2. CASE Doubt /\ UNCHANGED probe
    BY <1>11, <2>2 DEF Close, Release, Doubt
  <2> QED BY <1>11, <2>1, <2>2, Zenon DEF Close
<1>12. CASE Observe
  <2>1. CASE /\ owner' \in Installations /\ Goto("release") /\ target = job.expected
             /\ UNCHANGED <<target, probe>>
    BY <1>12, <2>1 DEF Observe, Goto
  <2>2. CASE owner' \in Installations /\ Unhealthy /\ target' \in CpuStates /\ UNCHANGED probe
    BY <1>12, <2>2 DEF Observe, Unhealthy
  <2>3. CASE Doubt /\ probe' = None /\ UNCHANGED <<owner, target>>
    BY <1>12, <2>3 DEF Observe, Doubt
  <2> QED BY <1>12, <2>1, <2>2, <2>3, Zenon DEF Observe, PollingTypes
<1>13. CASE ReleaseObserver
  <2>1. CASE owner = job.closed /\ target = job.expected /\ Goto("finalize")
    BY <1>13, <2>1 DEF ReleaseObserver, Release, Goto
  <2>2. CASE Doubt
    BY <1>13, <2>2 DEF ReleaseObserver, Release, Doubt
  <2> QED BY <1>13, <2>1, <2>2, Zenon DEF ReleaseObserver
<1>14. CASE Finalize
    BY <1>14 DEF Finalize, Outcome, Broken
<1>15. CASE FinalizeFails
    BY <1>15 DEF FinalizeFails, Fault, Outcome, Broken, Ended
<1>16. CASE Seal
    BY <1>16 DEF Seal, Sealable, Goto, Contents
<1>17. CASE SealFails
    BY <1>17 DEF SealFails, Fault, Broken
<1>18. CASE Publish
    BY <1>18 DEF Publish, NoJob
<1>19. CASE SessionGoes
    BY <1>19 DEF SessionGoes, Between, Release
<1>20. CASE Reopens
    BY <1>20 DEF Reopens, Between, Unseen
<1>21. CASE Syncs
    BY <1>21 DEF Syncs
<1>22. CASE Stop
    BY <1>22 DEF Stop, Active, SessionActive
<1>23. CASE ServerDies
    BY <1>23 DEF ServerDies, Active, Fault, NoJob, Release, Operations
<1>24. ASSUME NEW a \in Askers, Reconcile(a) PROVE JobInv'
    BY <1>24 DEF Reconcile, SessionActive, Active, Asks, Lost
<1>25. ASSUME NEW a \in Askers, Reconciled(a) PROVE JobInv'
    BY <1>25 DEF Reconciled, Sealable, Contents, Lost, Fault
<1>26. ASSUME NEW c \in Calls, CallBegins(c) PROVE JobInv'
    BY <1>26 DEF CallBegins
<1>27. ASSUME NEW c \in Calls, CallRefused(c) PROVE JobInv'
    BY <1>27 DEF CallRefused
<1>28. ASSUME NEW c \in Calls, WriteRuns(c) PROVE JobInv'
    BY <1>28 DEF WriteRuns, Unseen
<1>29. ASSUME NEW c \in Calls, WriteEnds(c) PROVE JobInv'
    BY <1>29 DEF WriteEnds, Release
<1>30. ASSUME NEW c \in Calls, Resumes(c) PROVE JobInv'
    BY <1>30 DEF Resumes
<1>31. ASSUME NEW c \in Calls, Record(c) PROVE JobInv'
    BY <1>31 DEF Record, Active, Ended
<1>32. ASSUME NEW c \in Calls, RecordFails(c) PROVE JobInv'
    BY <1>32 DEF RecordFails, FileFault, Fault, TornEvent
<1> QED BY <1>1, <1>2, <1>3, <1>4, <1>5, <1>6, <1>7, <1>8, <1>9, <1>10, <1>11, <1>12, <1>13, <1>14, <1>15, <1>16, <1>17, <1>18, <1>19, <1>20, <1>21, <1>22, <1>23, <1>24, <1>25, <1>26, <1>27, <1>28, <1>29, <1>30, <1>31, <1>32
    DEF PollingNext, JobSteps, AskerSteps, CallSteps

LEMMA CallsKept ==
  ASSUME PollingTypes, JobInv, CallInv, AskersInv, JournalInv, PollingNext
  PROVE  CallInv'
<1> USE PollingCaptureConstantsOK DEF PollingTypes, TargetTypes, disk, cpu, JobInv, CallInv, AnyJob, AnyCall, AnyAsker, AnyRecord, AnyStaged, CpuStates, Installations, Failures, Sampling, Closed, Terminal
<1>0. Taken => Taken'
  BY TakenForGood, Zenon
<1> USE <1>0
<1>1. CASE JobStarts
    BY <1>1 DEF JobStarts
<1>2. CASE StartFails
    BY <1>2 DEF StartFails, Fault, NoJob, Release
<1>3. CASE LoopEnds
    BY <1>3 DEF LoopEnds, Ends
<1>4. CASE LoopFails
    BY <1>4 DEF LoopFails, FileFault, Fault, Ends
<1>5. CASE SampleBegins
  <2>1. PICK s \in Sessions :
          /\ owner' = s.owner /\ Unseen(s.target)
          /\ IF job.pauses /\ s.target = "running"
             THEN job' = [job EXCEPT !.at = "pause", !.owns = s.owns] /\ target' \in CpuStates
             ELSE job' = [job EXCEPT !.at = "read", !.owns = s.owns] /\ target' = s.target
    BY <1>5, Zenon DEF SampleBegins, SampleBeginsUnqueued
  <2>2. s.owner \in Installations \cup {None} /\ s.owns \in BOOLEAN /\ s.target \in CpuStates
    BY ProbeFor, Zenon DEF PollingTypes
  <2>3. /\ job.at \in {"poll", "again"} /\ raw.samples < MaxSamples /\ probe = None /\ probe' = "job"
        /\ UNCHANGED <<call, asker, wanted, disturbs, session, raw, file, faults>>
    BY <1>5, Zenon DEF SampleBegins, SampleBeginsUnqueued, disk
  <2>4. CASE job' = [job EXCEPT !.at = "pause", !.owns = s.owns] /\ s.target = "running" /\ target' \in CpuStates
    BY <2>1, <2>2, <2>3, <2>4 DEF Unseen
  <2>5. CASE job' = [job EXCEPT !.at = "read", !.owns = s.owns] /\ target' = s.target
    BY <2>1, <2>2, <2>3, <2>5 DEF Unseen
  <2> QED BY <2>1, <2>4, <2>5, Zenon
<1>6. CASE OwnerLost
    BY <1>6 DEF OwnerLost, Ends
<1>7. CASE ReadEnds
  <2>1. CASE Took /\ Goto("poll") /\ UNCHANGED faults
    BY <1>7, <2>1 DEF ReadEnds, Took, Goto
  <2>2. CASE /\ UNCHANGED <<raw, faults>>
             /\ job' = IF job.pauses THEN [job EXCEPT !.at = "poll"]
                       ELSE [job EXCEPT !.at = "again", !.pauses = TRUE]
    BY <1>7, <2>2 DEF ReadEnds
  <2>3. CASE Fault /\ TornEvent /\ job' = [job EXCEPT !.at = "poll", !.pauses = TRUE]
    BY <1>7, <2>3 DEF ReadEnds, Fault, TornEvent
  <2>4. CASE UNCHANGED <<raw, faults>> /\ job' = Ends(job, "unknown")
    BY <1>7, <2>4 DEF ReadEnds, Ends
  <2> QED BY <1>7, <2>1, <2>2, <2>3, <2>4, Zenon DEF ReadEnds
<1>8. CASE PauseEnds
  <2>1. CASE target' = "running" /\ Took /\ Goto("poll") /\ UNCHANGED <<unsaid, faults>>
    BY <1>8, <2>1 DEF PauseEnds, Took, Goto
  <2>2. CASE target' = "running" /\ Goto("poll") /\ UNCHANGED <<raw, unsaid, faults>>
    BY <1>8, <2>2 DEF PauseEnds, Goto
  <2>3. CASE target' \in CpuStates /\ job' = Ends(job, "unknown") /\ UNCHANGED <<raw, unsaid, faults>>
    BY <1>8, <2>3 DEF PauseEnds, Ends
  <2>4. CASE target' \in CpuStates /\ Goto("poll") /\ Fault /\ TornEvent /\ Unseen(target')
    BY <1>8, <2>4 DEF PauseEnds, Goto, Fault, TornEvent, Unseen
  <2> QED BY <1>8, <2>1, <2>2, <2>3, <2>4, Zenon DEF PauseEnds
<1>9. CASE Drains
    BY <1>9 DEF Drains, Operations, Goto
<1>10. CASE CloseUnobserved
    BY <1>10 DEF CloseUnobserved, Doubt
<1>11. CASE Close
    BY <1>11 DEF Close, Release, Doubt
<1>12. CASE Observe
    BY <1>12 DEF Observe, Goto, Unhealthy, Doubt
<1>13. CASE ReleaseObserver
    BY <1>13 DEF ReleaseObserver, Release, Goto, Doubt
<1>14. CASE Finalize
    BY <1>14 DEF Finalize, Outcome, Broken
<1>15. CASE FinalizeFails
    BY <1>15 DEF FinalizeFails, Fault, Outcome, Broken, Ended
<1>16. CASE Seal
    BY <1>16 DEF Seal, Sealable, Goto, Contents
<1>17. CASE SealFails
    BY <1>17 DEF SealFails, Fault, Broken
<1>18. CASE Publish
    BY <1>18 DEF Publish, NoJob
<1>19. CASE SessionGoes
    BY <1>19 DEF SessionGoes, Between, Release
<1>20. CASE Reopens
    BY <1>20 DEF Reopens, Between, Unseen
<1>21. CASE Syncs
    BY <1>21 DEF Syncs
<1>22. CASE Stop
    BY <1>22 DEF Stop, Active, SessionActive
<1>23. CASE ServerDies
  <2>1. job'.at = "gone" /\ probe' = None /\ UNCHANGED raw
    BY <1>23 DEF ServerDies, NoJob
  <2>2. ASSUME NEW c \in Calls
        PROVE  /\ call'[c].at \notin {"begun", "runs", "done"}
               /\ call'[c].at = "idle" => ~call'[c].issued
               /\ call'[c].at = "told" => ~call'[c].issued \/ call'[c].lost \/ c \in raw.writes \/ Taken
    <3>1. CASE c \in Operations
      <4>1. call'[c] = [call[c] EXCEPT !.at = "told", !.lost = TRUE]
        BY <1>23, <3>1, Zenon DEF ServerDies
      <4> QED BY <4>1
    <3>2. CASE c \notin Operations
      <4>1. call'[c] = call[c]
        BY <1>23, <3>2, Zenon DEF ServerDies
      <4> QED BY <3>2, <4>1 DEF Operations
    <3> QED BY <3>1, <3>2
  <2> QED BY <2>1, <2>2
<1>24. ASSUME NEW a \in Askers, Reconcile(a) PROVE CallInv'
    BY <1>24 DEF Reconcile, SessionActive, Active, Asks, Lost
<1>25. ASSUME NEW a \in Askers, Reconciled(a) PROVE CallInv'
    BY <1>25 DEF Reconciled, Sealable, Contents, Lost, Fault
<1>26. ASSUME NEW c \in Calls, CallBegins(c) PROVE CallInv'
    BY <1>26 DEF CallBegins
<1>27. ASSUME NEW c \in Calls, CallRefused(c) PROVE CallInv'
    BY <1>27 DEF CallRefused
<1>28. ASSUME NEW c \in Calls, WriteRuns(c) PROVE CallInv'
    BY <1>28 DEF WriteRuns, Unseen
<1>29. ASSUME NEW c \in Calls, WriteEnds(c) PROVE CallInv'
    BY <1>29 DEF WriteEnds, Release
<1>30. ASSUME NEW c \in Calls, Resumes(c) PROVE CallInv'
    BY <1>30 DEF Resumes
<1>31. ASSUME NEW c \in Calls, Record(c) PROVE CallInv'
  <2>1. Ended => Taken
    BY <1>31 DEF Record, JournalInv
  <2>2. /\ call' = [call EXCEPT ![c].at = "told"] /\ call[c].at = "done" /\ UNCHANGED <<job, probe>>
        /\ raw'.writes = IF Ended THEN raw.writes ELSE raw.writes \cup {c}
    BY <1>31 DEF Record
  <2> QED BY <2>1, <2>2
<1>32. ASSUME NEW c \in Calls, RecordFails(c) PROVE CallInv'
    BY <1>32 DEF RecordFails, FileFault, Fault, TornEvent
<1> QED BY <1>1, <1>2, <1>3, <1>4, <1>5, <1>6, <1>7, <1>8, <1>9, <1>10, <1>11, <1>12, <1>13, <1>14, <1>15, <1>16, <1>17, <1>18, <1>19, <1>20, <1>21, <1>22, <1>23, <1>24, <1>25, <1>26, <1>27, <1>28, <1>29, <1>30, <1>31, <1>32
    DEF PollingNext, JobSteps, AskerSteps, CallSteps

LEMMA TargetKept ==
  ASSUME PollingTypes, JobInv, CallInv, TargetInv, PollingNext
  PROVE  TargetInv'
<1> USE PollingCaptureConstantsOK DEF PollingTypes, TargetTypes, disk, cpu, JobInv, CallInv, TargetInv, Sure, AsLeft, Other, AnyJob, AnyCall, CpuStates, Installations, Failures, Sampling, Closed, Terminal
<1>1. CASE JobStarts
    BY <1>1 DEF JobStarts
<1>2. CASE StartFails
    BY <1>2 DEF StartFails, Fault, NoJob, Release
<1>3. CASE LoopEnds
    BY <1>3 DEF LoopEnds, Ends
<1>4. CASE LoopFails
    BY <1>4 DEF LoopFails, FileFault, Fault, Ends
<1>5. CASE SampleBegins
  <2>1. PICK s \in Sessions :
          /\ owner' = s.owner /\ Unseen(s.target)
          /\ IF job.pauses /\ s.target = "running"
             THEN job' = [job EXCEPT !.at = "pause", !.owns = s.owns] /\ target' \in CpuStates
             ELSE job' = [job EXCEPT !.at = "read", !.owns = s.owns] /\ target' = s.target
    BY <1>5, Zenon DEF SampleBegins, SampleBeginsUnqueued
  <2>2. s.owner \in Installations \cup {None} /\ s.owns \in BOOLEAN /\ s.target \in CpuStates
    BY ProbeFor, Zenon DEF PollingTypes
  <2>3. /\ job.at \in {"poll", "again"} /\ raw.samples < MaxSamples /\ probe = None /\ probe' = "job"
        /\ UNCHANGED <<call, asker, wanted, disturbs, session, raw, file, faults>>
    BY <1>5, Zenon DEF SampleBegins, SampleBeginsUnqueued, disk
  <2>4. CASE job' = [job EXCEPT !.at = "pause", !.owns = s.owns] /\ s.target = "running" /\ target' \in CpuStates
    BY <2>1, <2>2, <2>3, <2>4 DEF Unseen
  <2>5. CASE job' = [job EXCEPT !.at = "read", !.owns = s.owns] /\ target' = s.target
    BY <2>1, <2>2, <2>3, <2>5 DEF Unseen
  <2> QED BY <2>1, <2>4, <2>5, Zenon
<1>6. CASE OwnerLost
    BY <1>6 DEF OwnerLost, Ends
<1>7. CASE ReadEnds
  <2>1. CASE Took /\ Goto("poll") /\ UNCHANGED faults
    BY <1>7, <2>1 DEF ReadEnds, Took, Goto
  <2>2. CASE /\ UNCHANGED <<raw, faults>>
             /\ job' = IF job.pauses THEN [job EXCEPT !.at = "poll"]
                       ELSE [job EXCEPT !.at = "again", !.pauses = TRUE]
    BY <1>7, <2>2 DEF ReadEnds
  <2>3. CASE Fault /\ TornEvent /\ job' = [job EXCEPT !.at = "poll", !.pauses = TRUE]
    BY <1>7, <2>3 DEF ReadEnds, Fault, TornEvent
  <2>4. CASE UNCHANGED <<raw, faults>> /\ job' = Ends(job, "unknown")
    BY <1>7, <2>4 DEF ReadEnds, Ends
  <2> QED BY <1>7, <2>1, <2>2, <2>3, <2>4, Zenon DEF ReadEnds
<1>8. CASE PauseEnds
    BY <1>8 DEF PauseEnds, Took, Goto, Ends, Fault, TornEvent, Unseen
<1>9. CASE Drains
    BY <1>9 DEF Drains, Operations, Goto
<1>10. CASE CloseUnobserved
    BY <1>10 DEF CloseUnobserved, Doubt
<1>11. CASE Close
  <2>1. CASE /\ job' = [job EXCEPT !.closed = owner, !.expected = target, !.at = "observe"]
             /\ probe' = "job"
    BY <1>11, <2>1 DEF Close, Release
  <2>2. CASE Doubt /\ UNCHANGED probe
    BY <1>11, <2>2 DEF Close, Release, Doubt
  <2> QED BY <1>11, <2>1, <2>2, Zenon DEF Close
<1>12. CASE Observe
  <2>1. CASE /\ owner' \in Installations /\ Goto("release") /\ target = job.expected
             /\ UNCHANGED <<target, probe>>
    BY <1>12, <2>1 DEF Observe, Goto
  <2>2. CASE owner' \in Installations /\ Unhealthy /\ target' \in CpuStates /\ UNCHANGED probe
    BY <1>12, <2>2 DEF Observe, Unhealthy
  <2>3. CASE Doubt /\ probe' = None /\ UNCHANGED <<owner, target>>
    BY <1>12, <2>3 DEF Observe, Doubt
  <2> QED BY <1>12, <2>1, <2>2, <2>3, Zenon DEF Observe, PollingTypes
<1>13. CASE ReleaseObserver
  <2>1. CASE owner = job.closed /\ target = job.expected /\ Goto("finalize")
    BY <1>13, <2>1 DEF ReleaseObserver, Release, Goto
  <2>2. CASE Doubt
    BY <1>13, <2>2 DEF ReleaseObserver, Release, Doubt
  <2> QED BY <1>13, <2>1, <2>2, Zenon DEF ReleaseObserver
<1>14. CASE Finalize
    BY <1>14 DEF Finalize, Outcome, Broken
<1>15. CASE FinalizeFails
    BY <1>15 DEF FinalizeFails, Fault, Outcome, Broken, Ended
<1>16. CASE Seal
    BY <1>16 DEF Seal, Sealable, Goto, Contents
<1>17. CASE SealFails
    BY <1>17 DEF SealFails, Fault, Broken
<1>18. CASE Publish
    BY <1>18 DEF Publish, NoJob
<1>19. CASE SessionGoes
    BY <1>19 DEF SessionGoes, Between, Release
<1>20. CASE Reopens
    BY <1>20 DEF Reopens, Between, Unseen
<1>21. CASE Syncs
    BY <1>21 DEF Syncs
<1>22. CASE Stop
    BY <1>22 DEF Stop, Active, SessionActive
<1>23. CASE ServerDies
    BY <1>23 DEF ServerDies, Active, Fault, NoJob, Release, Operations
<1>24. ASSUME NEW a \in Askers, Reconcile(a) PROVE TargetInv'
    BY <1>24 DEF Reconcile, SessionActive, Active, Asks, Lost
<1>25. ASSUME NEW a \in Askers, Reconciled(a) PROVE TargetInv'
    BY <1>25 DEF Reconciled, Sealable, Contents, Lost, Fault
<1>26. ASSUME NEW c \in Calls, CallBegins(c) PROVE TargetInv'
    BY <1>26 DEF CallBegins
<1>27. ASSUME NEW c \in Calls, CallRefused(c) PROVE TargetInv'
    BY <1>27 DEF CallRefused
<1>28. ASSUME NEW c \in Calls, WriteRuns(c) PROVE TargetInv'
    BY <1>28 DEF WriteRuns, Unseen
<1>29. ASSUME NEW c \in Calls, WriteEnds(c) PROVE TargetInv'
    BY <1>29 DEF WriteEnds, Release
<1>30. ASSUME NEW c \in Calls, Resumes(c) PROVE TargetInv'
    BY <1>30 DEF Resumes
<1>31. ASSUME NEW c \in Calls, Record(c) PROVE TargetInv'
    BY <1>31 DEF Record, Active, Ended
<1>32. ASSUME NEW c \in Calls, RecordFails(c) PROVE TargetInv'
    BY <1>32 DEF RecordFails, FileFault, Fault, TornEvent
<1> QED BY <1>1, <1>2, <1>3, <1>4, <1>5, <1>6, <1>7, <1>8, <1>9, <1>10, <1>11, <1>12, <1>13, <1>14, <1>15, <1>16, <1>17, <1>18, <1>19, <1>20, <1>21, <1>22, <1>23, <1>24, <1>25, <1>26, <1>27, <1>28, <1>29, <1>30, <1>31, <1>32
    DEF PollingNext, JobSteps, AskerSteps, CallSteps

LEMMA RecordKept ==
  ASSUME PollingTypes, JobInv, CallInv, TargetInv, RecordInv, PollingNext
  PROVE  RecordInv'
<1> USE PollingCaptureConstantsOK DEF PollingTypes, TargetTypes, disk, cpu, JobInv, CallInv, TargetInv, Sure, AsLeft, RecordInv, AnyJob, AnyCall, AnyRecord, CpuStates, Installations, Failures, Sampling, Closed, Terminal
<1>1. CASE JobStarts
    BY <1>1 DEF JobStarts
<1>2. CASE StartFails
    BY <1>2 DEF StartFails, Fault, NoJob, Release
<1>3. CASE LoopEnds
    BY <1>3 DEF LoopEnds, Ends
<1>4. CASE LoopFails
    BY <1>4 DEF LoopFails, FileFault, Fault, Ends
<1>5. CASE SampleBegins
    BY <1>5 DEF SampleBegins, SampleBeginsUnqueued
<1>6. CASE OwnerLost
    BY <1>6 DEF OwnerLost, Ends
<1>7. CASE ReadEnds
    BY <1>7 DEF ReadEnds, Took, Goto, Ends, Fault, TornEvent
<1>8. CASE PauseEnds
    BY <1>8 DEF PauseEnds, Took, Goto, Ends, Fault, TornEvent, Unseen
<1>9. CASE Drains
    BY <1>9 DEF Drains, Operations, Goto
<1>10. CASE CloseUnobserved
    BY <1>10 DEF CloseUnobserved, Doubt
<1>11. CASE Close
    BY <1>11 DEF Close, Release, Doubt
<1>12. CASE Observe
    BY <1>12 DEF Observe, Goto, Unhealthy, Doubt
<1>13. CASE ReleaseObserver
    BY <1>13 DEF ReleaseObserver, Release, Goto, Doubt
<1>14. CASE Finalize
    BY <1>14 DEF Finalize, Outcome, Broken
<1>15. CASE FinalizeFails
    BY <1>15 DEF FinalizeFails, Fault, Outcome, Broken, Ended
<1>16. CASE Seal
    BY <1>16 DEF Seal, Sealable, Goto, Contents
<1>17. CASE SealFails
    BY <1>17 DEF SealFails, Fault, Broken
<1>18. CASE Publish
    BY <1>18 DEF Publish, NoJob
<1>19. CASE SessionGoes
    BY <1>19 DEF SessionGoes, Between, Release
<1>20. CASE Reopens
    BY <1>20 DEF Reopens, Between, Unseen
<1>21. CASE Syncs
    BY <1>21 DEF Syncs
<1>22. CASE Stop
    BY <1>22 DEF Stop, Active, SessionActive
<1>23. CASE ServerDies
    BY <1>23 DEF ServerDies, Active, Fault, NoJob, Release, Operations
<1>24. ASSUME NEW a \in Askers, Reconcile(a) PROVE RecordInv'
    BY <1>24 DEF Reconcile, SessionActive, Active, Asks, Lost
<1>25. ASSUME NEW a \in Askers, Reconciled(a) PROVE RecordInv'
    BY <1>25 DEF Reconciled, Sealable, Contents, Lost, Fault
<1>26. ASSUME NEW c \in Calls, CallBegins(c) PROVE RecordInv'
    BY <1>26 DEF CallBegins
<1>27. ASSUME NEW c \in Calls, CallRefused(c) PROVE RecordInv'
    BY <1>27 DEF CallRefused
<1>28. ASSUME NEW c \in Calls, WriteRuns(c) PROVE RecordInv'
    BY <1>28 DEF WriteRuns, Unseen
<1>29. ASSUME NEW c \in Calls, WriteEnds(c) PROVE RecordInv'
    BY <1>29 DEF WriteEnds, Release
<1>30. ASSUME NEW c \in Calls, Resumes(c) PROVE RecordInv'
    BY <1>30 DEF Resumes
<1>31. ASSUME NEW c \in Calls, Record(c) PROVE RecordInv'
    BY <1>31 DEF Record, Active, Ended
<1>32. ASSUME NEW c \in Calls, RecordFails(c) PROVE RecordInv'
    BY <1>32 DEF RecordFails, FileFault, Fault, TornEvent
<1> QED BY <1>1, <1>2, <1>3, <1>4, <1>5, <1>6, <1>7, <1>8, <1>9, <1>10, <1>11, <1>12, <1>13, <1>14, <1>15, <1>16, <1>17, <1>18, <1>19, <1>20, <1>21, <1>22, <1>23, <1>24, <1>25, <1>26, <1>27, <1>28, <1>29, <1>30, <1>31, <1>32
    DEF PollingNext, JobSteps, AskerSteps, CallSteps

LEMMA AskersKept ==
  ASSUME PollingTypes, JobInv, AskersInv, JournalInv, PollingNext
  PROVE  AskersInv'
<1> USE PollingCaptureConstantsOK DEF PollingTypes, TargetTypes, disk, cpu, JobInv, AskersInv, JournalInv, Ended, AnyJob, AnyAsker, AnyStaged, Terminal
<1>1. CASE JobStarts
    BY <1>1 DEF JobStarts
<1>2. CASE StartFails
    BY <1>2 DEF StartFails, Fault, NoJob, Release
<1>3. CASE LoopEnds
    BY <1>3 DEF LoopEnds, Ends
<1>4. CASE LoopFails
    BY <1>4 DEF LoopFails, FileFault, Fault, Ends
<1>5. CASE SampleBegins
    BY <1>5 DEF SampleBegins, SampleBeginsUnqueued
<1>6. CASE OwnerLost
    BY <1>6 DEF OwnerLost, Ends
<1>7. CASE ReadEnds
    BY <1>7 DEF ReadEnds, Took, Goto, Ends, Fault, TornEvent
<1>8. CASE PauseEnds
    BY <1>8 DEF PauseEnds, Took, Goto, Ends, Fault, TornEvent, Unseen
<1>9. CASE Drains
    BY <1>9 DEF Drains, Operations, Goto
<1>10. CASE CloseUnobserved
    BY <1>10 DEF CloseUnobserved, Doubt
<1>11. CASE Close
    BY <1>11 DEF Close, Release, Doubt
<1>12. CASE Observe
    BY <1>12 DEF Observe, Goto, Unhealthy, Doubt
<1>13. CASE ReleaseObserver
    BY <1>13 DEF ReleaseObserver, Release, Goto, Doubt
<1>14. CASE Finalize
  <2>1. PICK same \in BOOLEAN :
          raw' = [raw EXCEPT !.last = Outcome, !.meta = Outcome, !.sound = same]
    BY <1>14, Zenon DEF Finalize
  <2>2. Outcome \in Terminal
    BY DEF Outcome, Broken, Terminal
  <2> QED BY <1>14, <2>1, <2>2 DEF Finalize, JournalAgrees, Ended
<1>15. CASE FinalizeFails
    BY <1>15 DEF FinalizeFails, Fault, Outcome, Broken, Ended
<1>16. CASE Seal
    BY <1>16 DEF Seal, Sealable, Goto, Contents
<1>17. CASE SealFails
    BY <1>17 DEF SealFails, Fault, Broken
<1>18. CASE Publish
    BY <1>18 DEF Publish, NoJob
<1>19. CASE SessionGoes
    BY <1>19 DEF SessionGoes, Between, Release
<1>20. CASE Reopens
    BY <1>20 DEF Reopens, Between, Unseen
<1>21. CASE Syncs
    BY <1>21 DEF Syncs
<1>22. CASE Stop
    BY <1>22 DEF Stop, Active, SessionActive
<1>23. CASE ServerDies
    BY <1>23 DEF ServerDies, Active, Fault, NoJob, Release, Operations
<1>24. ASSUME NEW a \in Askers, Reconcile(a) PROVE AskersInv'
  <2>1. asker[a].at = "idle" /\ SessionActive /\ UNCHANGED <<job, call, probe, owner, cpu, file, faults>>
    BY <1>24, Zenon DEF Reconcile
  <2>2. CASE Asks(a, "done") /\ Lost /\ UNCHANGED raw
    BY <2>1, <2>2 DEF SessionActive, Active, Asks, Lost
  <2>3. CASE /\ raw.meta = "active" /\ raw.last \in {"active", "finalizing"}
             /\ raw' = [raw EXCEPT !.last = "interrupted", !.meta = "interrupted",
                                   !.sound = raw.samples = 0]
             /\ \/ Asks(a, "seals") /\ UNCHANGED session
                \/ Asks(a, "done") /\ Lost
    <3>1. PICK s \in BOOLEAN : s = (raw.samples = 0)
      OBVIOUS
    <3>2. raw' = [raw EXCEPT !.last = "interrupted", !.meta = "interrupted", !.sound = s]
      BY <2>3, <3>1, Zenon
    <3>3. CASE Asks(a, "seals") /\ UNCHANGED session
      BY <2>1, <2>3, <3>2, <3>3 DEF SessionActive, Active, Asks
    <3>4. CASE Asks(a, "done") /\ Lost
      BY <2>1, <2>3, <3>2, <3>4 DEF SessionActive, Active, Asks, Lost
    <3> QED BY <2>3, <3>3, <3>4, Zenon
  <2> QED BY <1>24, <2>2, <2>3, Zenon DEF Reconcile
<1>25. ASSUME NEW a \in Askers, Reconciled(a) PROVE AskersInv'
    BY <1>25 DEF Reconciled, Sealable, Contents, Lost, Fault
<1>26. ASSUME NEW c \in Calls, CallBegins(c) PROVE AskersInv'
    BY <1>26 DEF CallBegins
<1>27. ASSUME NEW c \in Calls, CallRefused(c) PROVE AskersInv'
    BY <1>27 DEF CallRefused
<1>28. ASSUME NEW c \in Calls, WriteRuns(c) PROVE AskersInv'
    BY <1>28 DEF WriteRuns, Unseen
<1>29. ASSUME NEW c \in Calls, WriteEnds(c) PROVE AskersInv'
    BY <1>29 DEF WriteEnds, Release
<1>30. ASSUME NEW c \in Calls, Resumes(c) PROVE AskersInv'
    BY <1>30 DEF Resumes
<1>31. ASSUME NEW c \in Calls, Record(c) PROVE AskersInv'
    BY <1>31 DEF Record, Active, Ended
<1>32. ASSUME NEW c \in Calls, RecordFails(c) PROVE AskersInv'
    BY <1>32 DEF RecordFails, FileFault, Fault, TornEvent
<1> QED BY <1>1, <1>2, <1>3, <1>4, <1>5, <1>6, <1>7, <1>8, <1>9, <1>10, <1>11, <1>12, <1>13, <1>14, <1>15, <1>16, <1>17, <1>18, <1>19, <1>20, <1>21, <1>22, <1>23, <1>24, <1>25, <1>26, <1>27, <1>28, <1>29, <1>30, <1>31, <1>32
    DEF PollingNext, JobSteps, AskerSteps, CallSteps

LEMMA JournalKept ==
  ASSUME PollingTypes, JobInv, AskersInv, JournalInv, CallInv, PollingNext
  PROVE  JournalInv'
<1> USE PollingCaptureConstantsOK DEF PollingTypes, TargetTypes, disk, cpu, JobInv, JournalInv, CallInv, Ended, AnyJob, AnyCall, AnyStaged, CpuStates, Installations, Failures, Sampling, Closed, Terminal
<1>0. Taken => Taken'
  BY TakenForGood, Zenon
<1> USE <1>0
<1>1. CASE JobStarts
    BY <1>1 DEF JobStarts
<1>2. CASE StartFails
    BY <1>2 DEF StartFails, Fault, NoJob, Release
<1>3. CASE LoopEnds
    BY <1>3 DEF LoopEnds, Ends
<1>4. CASE LoopFails
    BY <1>4 DEF LoopFails, FileFault, Fault, Ends
<1>5. CASE SampleBegins
  <2>1. PICK s \in Sessions :
          /\ owner' = s.owner /\ Unseen(s.target)
          /\ IF job.pauses /\ s.target = "running"
             THEN job' = [job EXCEPT !.at = "pause", !.owns = s.owns] /\ target' \in CpuStates
             ELSE job' = [job EXCEPT !.at = "read", !.owns = s.owns] /\ target' = s.target
    BY <1>5, Zenon DEF SampleBegins, SampleBeginsUnqueued
  <2>2. s.owner \in Installations \cup {None} /\ s.owns \in BOOLEAN /\ s.target \in CpuStates
    BY ProbeFor, Zenon DEF PollingTypes
  <2>3. /\ job.at \in {"poll", "again"} /\ raw.samples < MaxSamples /\ probe = None /\ probe' = "job"
        /\ UNCHANGED <<call, asker, wanted, disturbs, session, raw, file, faults>>
    BY <1>5, Zenon DEF SampleBegins, SampleBeginsUnqueued, disk
  <2>4. CASE job' = [job EXCEPT !.at = "pause", !.owns = s.owns] /\ s.target = "running" /\ target' \in CpuStates
    BY <2>1, <2>2, <2>3, <2>4 DEF Unseen
  <2>5. CASE job' = [job EXCEPT !.at = "read", !.owns = s.owns] /\ target' = s.target
    BY <2>1, <2>2, <2>3, <2>5 DEF Unseen
  <2> QED BY <2>1, <2>4, <2>5, Zenon
<1>6. CASE OwnerLost
    BY <1>6 DEF OwnerLost, Ends
<1>7. CASE ReadEnds
  <2>1. CASE Took /\ Goto("poll") /\ UNCHANGED faults
    BY <1>7, <2>1 DEF ReadEnds, Took, Goto
  <2>2. CASE /\ UNCHANGED <<raw, faults>>
             /\ job' = IF job.pauses THEN [job EXCEPT !.at = "poll"]
                       ELSE [job EXCEPT !.at = "again", !.pauses = TRUE]
    BY <1>7, <2>2 DEF ReadEnds
  <2>3. CASE Fault /\ TornEvent /\ job' = [job EXCEPT !.at = "poll", !.pauses = TRUE]
    BY <1>7, <2>3 DEF ReadEnds, Fault, TornEvent
  <2>4. CASE UNCHANGED <<raw, faults>> /\ job' = Ends(job, "unknown")
    BY <1>7, <2>4 DEF ReadEnds, Ends
  <2> QED BY <1>7, <2>1, <2>2, <2>3, <2>4, Zenon DEF ReadEnds
<1>8. CASE PauseEnds
  <2>1. CASE target' = "running" /\ Took /\ Goto("poll") /\ UNCHANGED <<unsaid, faults>>
    BY <1>8, <2>1 DEF PauseEnds, Took, Goto
  <2>2. CASE target' = "running" /\ Goto("poll") /\ UNCHANGED <<raw, unsaid, faults>>
    BY <1>8, <2>2 DEF PauseEnds, Goto
  <2>3. CASE target' \in CpuStates /\ job' = Ends(job, "unknown") /\ UNCHANGED <<raw, unsaid, faults>>
    BY <1>8, <2>3 DEF PauseEnds, Ends
  <2>4. CASE target' \in CpuStates /\ Goto("poll") /\ Fault /\ TornEvent /\ Unseen(target')
    BY <1>8, <2>4 DEF PauseEnds, Goto, Fault, TornEvent, Unseen
  <2> QED BY <1>8, <2>1, <2>2, <2>3, <2>4, Zenon DEF PauseEnds
<1>9. CASE Drains
    BY <1>9 DEF Drains, Operations, Goto
<1>10. CASE CloseUnobserved
    BY <1>10 DEF CloseUnobserved, Doubt
<1>11. CASE Close
  <2>1. CASE /\ job' = [job EXCEPT !.closed = owner, !.expected = target, !.at = "observe"]
             /\ probe' = "job"
    BY <1>11, <2>1 DEF Close, Release
  <2>2. CASE Doubt /\ UNCHANGED probe
    BY <1>11, <2>2 DEF Close, Release, Doubt
  <2> QED BY <1>11, <2>1, <2>2, Zenon DEF Close
<1>12. CASE Observe
    BY <1>12 DEF Observe, Goto, Unhealthy, Doubt
<1>13. CASE ReleaseObserver
    BY <1>13 DEF ReleaseObserver, Release, Goto, Doubt
<1>14. CASE Finalize
    BY <1>14 DEF Finalize, Outcome, Broken
<1>15. CASE FinalizeFails
    BY <1>15 DEF FinalizeFails, Fault, Outcome, Broken, Ended
<1>16. CASE Seal
    BY <1>16 DEF Seal, Sealable, Goto, Contents
<1>17. CASE SealFails
    BY <1>17 DEF SealFails, Fault, Broken
<1>18. CASE Publish
    BY <1>18 DEF Publish, NoJob
<1>19. CASE SessionGoes
    BY <1>19 DEF SessionGoes, Between, Release
<1>20. CASE Reopens
    BY <1>20 DEF Reopens, Between, Unseen
<1>21. CASE Syncs
    BY <1>21 DEF Syncs
<1>22. CASE Stop
    BY <1>22 DEF Stop, Active, SessionActive
<1>23. CASE ServerDies
    BY <1>23 DEF ServerDies, Active, Fault, NoJob, Release, Operations
<1>24. ASSUME NEW a \in Askers, Reconcile(a) PROVE JournalInv'
  <2>1. asker[a].at = "idle" /\ SessionActive /\ UNCHANGED <<job, call, probe, owner, cpu, file, faults>>
    BY <1>24, Zenon DEF Reconcile
  <2>2. CASE UNCHANGED raw
    BY <2>1, <2>2
  <2>3. CASE /\ raw.meta = "active" /\ raw.last \in {"active", "finalizing"}
             /\ raw' = [raw EXCEPT !.last = "interrupted", !.meta = "interrupted",
                                   !.sound = raw.samples = 0]
             /\ \E at \in {"seals", "done"} : Asks(a, at)
    <3>1. job.at # "gone" => Taken'
      <4>1. PICK at \in {"seals", "done"} : Asks(a, at)
        BY <2>3
      <4>2. asker'[a].early = Active
        BY <4>1 DEF Asks
      <4> QED BY <4>2 DEF Active, Taken
    <3>2. raw'.last = "interrupted" /\ raw'.meta = "interrupted"
      BY <2>3
    <3>3. job.at \in {"seal", "publish"} => job.ends \in {"interrupted", "failed"}
      BY <2>3
    <3> QED BY <2>1, <3>1, <3>2, <3>3
  <2> QED BY <1>24, <2>2, <2>3, Zenon DEF Reconcile
<1>25. ASSUME NEW a \in Askers, Reconciled(a) PROVE JournalInv'
    BY <1>25 DEF Reconciled, Sealable, Contents, Lost, Fault
<1>26. ASSUME NEW c \in Calls, CallBegins(c) PROVE JournalInv'
    BY <1>26 DEF CallBegins
<1>27. ASSUME NEW c \in Calls, CallRefused(c) PROVE JournalInv'
    BY <1>27 DEF CallRefused
<1>28. ASSUME NEW c \in Calls, WriteRuns(c) PROVE JournalInv'
    BY <1>28 DEF WriteRuns, Unseen
<1>29. ASSUME NEW c \in Calls, WriteEnds(c) PROVE JournalInv'
    BY <1>29 DEF WriteEnds, Release
<1>30. ASSUME NEW c \in Calls, Resumes(c) PROVE JournalInv'
    BY <1>30 DEF Resumes
<1>31. ASSUME NEW c \in Calls, Record(c) PROVE JournalInv'
    BY <1>31 DEF Record, Active, Ended
<1>32. ASSUME NEW c \in Calls, RecordFails(c) PROVE JournalInv'
    BY <1>32 DEF RecordFails, FileFault, Fault, TornEvent
<1> QED BY <1>1, <1>2, <1>3, <1>4, <1>5, <1>6, <1>7, <1>8, <1>9, <1>10, <1>11, <1>12, <1>13, <1>14, <1>15, <1>16, <1>17, <1>18, <1>19, <1>20, <1>21, <1>22, <1>23, <1>24, <1>25, <1>26, <1>27, <1>28, <1>29, <1>30, <1>31, <1>32
    DEF PollingNext, JobSteps, AskerSteps, CallSteps

LEMMA FileKept ==
  ASSUME PollingTypes, JobInv, CallInv, AskersInv, JournalInv, FileInv, PollingNext
  PROVE  FileInv'
<1> USE PollingCaptureConstantsOK DEF PollingTypes, TargetTypes, disk, cpu, FinalFile, JobInv, CallInv, JournalInv, FileInv, Ended, AnyJob, AnyCall, AnyStaged, CpuStates, Installations, Failures, Sampling, Closed, Terminal
<1>0. Taken => Taken'
  BY TakenForGood, Zenon
<1> USE <1>0
<1>1. CASE JobStarts
    BY <1>1 DEF JobStarts
<1>2. CASE StartFails
    BY <1>2 DEF StartFails, Fault, NoJob, Release
<1>3. CASE LoopEnds
    BY <1>3 DEF LoopEnds, Ends
<1>4. CASE LoopFails
    BY <1>4 DEF LoopFails, FileFault, Fault, Ends
<1>5. CASE SampleBegins
    BY <1>5 DEF SampleBegins, SampleBeginsUnqueued
<1>6. CASE OwnerLost
    BY <1>6 DEF OwnerLost, Ends
<1>7. CASE ReadEnds
    BY <1>7 DEF ReadEnds, Took, Goto, Ends, Fault, TornEvent
<1>8. CASE PauseEnds
    BY <1>8 DEF PauseEnds, Took, Goto, Ends, Fault, TornEvent, Unseen
<1>9. CASE Drains
    BY <1>9 DEF Drains, Operations, Goto
<1>10. CASE CloseUnobserved
    BY <1>10 DEF CloseUnobserved, Doubt
<1>11. CASE Close
    BY <1>11 DEF Close, Release, Doubt
<1>12. CASE Observe
    BY <1>12 DEF Observe, Goto, Unhealthy, Doubt
<1>13. CASE ReleaseObserver
    BY <1>13 DEF ReleaseObserver, Release, Goto, Doubt
<1>14. CASE Finalize
  <2>1. PICK same \in BOOLEAN :
          raw' = [raw EXCEPT !.last = Outcome, !.meta = Outcome, !.sound = same]
    BY <1>14, Zenon DEF Finalize
  <2>2. Outcome \in Terminal
    BY DEF Outcome, Broken, Terminal
  <2> QED BY <1>14, <2>1, <2>2 DEF Finalize, JournalAgrees, Ended
<1>15. CASE FinalizeFails
    BY <1>15 DEF FinalizeFails, Fault, Outcome, Broken, Ended
<1>16. CASE Seal
    BY <1>16 DEF Seal, Sealable, Goto, Contents
<1>17. CASE SealFails
    BY <1>17 DEF SealFails, Fault, Broken
<1>18. CASE Publish
    BY <1>18 DEF Publish, NoJob
<1>19. CASE SessionGoes
    BY <1>19 DEF SessionGoes, Between, Release
<1>20. CASE Reopens
    BY <1>20 DEF Reopens, Between, Unseen
<1>21. CASE Syncs
    BY <1>21 DEF Syncs
<1>22. CASE Stop
    BY <1>22 DEF Stop, Active, SessionActive
<1>23. CASE ServerDies
    BY <1>23 DEF ServerDies, Active, Fault, NoJob, Release, Operations
<1>24. ASSUME NEW a \in Askers, Reconcile(a) PROVE FileInv'
    BY <1>24 DEF Reconcile, SessionActive, Active, Asks, Lost
<1>25. ASSUME NEW a \in Askers, Reconciled(a) PROVE FileInv'
  <2>1. asker[a].at = "seals" /\ raw.last = "interrupted"
    BY <1>25, Zenon DEF Reconciled, AskersInv
  <2>2. Taken \/ job.at = "gone"
    <3>1. asker[a].early \/ job.at = "gone"
      BY <2>1, Zenon DEF AskersInv
    <3> QED BY <3>1 DEF Taken
  <2>3. CASE Sealable /\ file' = Contents("asker") /\ raw' = [raw EXCEPT !.staged = FALSE]
    <3>1. file'.state = raw.last /\ file'.by = "asker" /\ file'.samples = raw.samples
      BY <2>3 DEF Sealable, Contents
    <3> QED BY <1>25, <2>1, <2>2, <2>3, <3>1 DEF Reconciled
  <2>4. CASE Lost /\ UNCHANGED <<raw, file>>
    BY <1>25, <2>4 DEF Reconciled
  <2> QED BY <1>25, <2>3, <2>4, Zenon DEF Reconciled
<1>26. ASSUME NEW c \in Calls, CallBegins(c) PROVE FileInv'
    BY <1>26 DEF CallBegins
<1>27. ASSUME NEW c \in Calls, CallRefused(c) PROVE FileInv'
    BY <1>27 DEF CallRefused
<1>28. ASSUME NEW c \in Calls, WriteRuns(c) PROVE FileInv'
    BY <1>28 DEF WriteRuns, Unseen
<1>29. ASSUME NEW c \in Calls, WriteEnds(c) PROVE FileInv'
    BY <1>29 DEF WriteEnds, Release
<1>30. ASSUME NEW c \in Calls, Resumes(c) PROVE FileInv'
    BY <1>30 DEF Resumes
<1>31. ASSUME NEW c \in Calls, Record(c) PROVE FileInv'
    BY <1>31 DEF Record, Active, Ended
<1>32. ASSUME NEW c \in Calls, RecordFails(c) PROVE FileInv'
    BY <1>32 DEF RecordFails, FileFault, Fault, TornEvent
<1> QED BY <1>1, <1>2, <1>3, <1>4, <1>5, <1>6, <1>7, <1>8, <1>9, <1>10, <1>11, <1>12, <1>13, <1>14, <1>15, <1>16, <1>17, <1>18, <1>19, <1>20, <1>21, <1>22, <1>23, <1>24, <1>25, <1>26, <1>27, <1>28, <1>29, <1>30, <1>31, <1>32
    DEF PollingNext, JobSteps, AskerSteps, CallSteps

LEMMA EndKept ==
  ASSUME PollingTypes, JobInv, AskersInv, JournalInv, FileInv, PollEndInv, PollingNext
  PROVE  PollEndInv'
<1> USE PollingCaptureConstantsOK DEF PollingTypes, TargetTypes, disk, cpu, FinalFile, JobInv, AskersInv, JournalInv, FileInv, PollEndInv, Ended, AnyJob, AnyAsker, AnyRecord, AnyStaged, CpuStates, Installations, Failures, Sampling, Closed, Terminal
<1>1. CASE JobStarts
    BY <1>1 DEF JobStarts
<1>2. CASE StartFails
    BY <1>2 DEF StartFails, Fault, NoJob, Release
<1>3. CASE LoopEnds
    BY <1>3 DEF LoopEnds, Ends
<1>4. CASE LoopFails
    BY <1>4 DEF LoopFails, FileFault, Fault, Ends
<1>5. CASE SampleBegins
  <2>1. PICK s \in Sessions :
          /\ owner' = s.owner /\ Unseen(s.target)
          /\ IF job.pauses /\ s.target = "running"
             THEN job' = [job EXCEPT !.at = "pause", !.owns = s.owns] /\ target' \in CpuStates
             ELSE job' = [job EXCEPT !.at = "read", !.owns = s.owns] /\ target' = s.target
    BY <1>5, Zenon DEF SampleBegins, SampleBeginsUnqueued
  <2>2. s.owner \in Installations \cup {None} /\ s.owns \in BOOLEAN /\ s.target \in CpuStates
    BY ProbeFor, Zenon DEF PollingTypes
  <2>3. /\ job.at \in {"poll", "again"} /\ raw.samples < MaxSamples /\ probe = None /\ probe' = "job"
        /\ UNCHANGED <<call, asker, wanted, disturbs, session, raw, file, faults>>
    BY <1>5, Zenon DEF SampleBegins, SampleBeginsUnqueued, disk
  <2>4. CASE job' = [job EXCEPT !.at = "pause", !.owns = s.owns] /\ s.target = "running" /\ target' \in CpuStates
    BY <2>1, <2>2, <2>3, <2>4 DEF Unseen
  <2>5. CASE job' = [job EXCEPT !.at = "read", !.owns = s.owns] /\ target' = s.target
    BY <2>1, <2>2, <2>3, <2>5 DEF Unseen
  <2> QED BY <2>1, <2>4, <2>5, Zenon
<1>6. CASE OwnerLost
    BY <1>6 DEF OwnerLost, Ends
<1>7. CASE ReadEnds
  <2>1. CASE Took /\ Goto("poll") /\ UNCHANGED faults
    BY <1>7, <2>1 DEF ReadEnds, Took, Goto
  <2>2. CASE /\ UNCHANGED <<raw, faults>>
             /\ job' = IF job.pauses THEN [job EXCEPT !.at = "poll"]
                       ELSE [job EXCEPT !.at = "again", !.pauses = TRUE]
    BY <1>7, <2>2 DEF ReadEnds
  <2>3. CASE Fault /\ TornEvent /\ job' = [job EXCEPT !.at = "poll", !.pauses = TRUE]
    BY <1>7, <2>3 DEF ReadEnds, Fault, TornEvent
  <2>4. CASE UNCHANGED <<raw, faults>> /\ job' = Ends(job, "unknown")
    BY <1>7, <2>4 DEF ReadEnds, Ends
  <2> QED BY <1>7, <2>1, <2>2, <2>3, <2>4, Zenon DEF ReadEnds
<1>8. CASE PauseEnds
  <2>1. CASE target' = "running" /\ Took /\ Goto("poll") /\ UNCHANGED <<unsaid, faults>>
    BY <1>8, <2>1 DEF PauseEnds, Took, Goto
  <2>2. CASE target' = "running" /\ Goto("poll") /\ UNCHANGED <<raw, unsaid, faults>>
    BY <1>8, <2>2 DEF PauseEnds, Goto
  <2>3. CASE target' \in CpuStates /\ job' = Ends(job, "unknown") /\ UNCHANGED <<raw, unsaid, faults>>
    BY <1>8, <2>3 DEF PauseEnds, Ends
  <2>4. CASE target' \in CpuStates /\ Goto("poll") /\ Fault /\ TornEvent /\ Unseen(target')
    BY <1>8, <2>4 DEF PauseEnds, Goto, Fault, TornEvent, Unseen
  <2> QED BY <1>8, <2>1, <2>2, <2>3, <2>4, Zenon DEF PauseEnds
<1>9. CASE Drains
    BY <1>9 DEF Drains, Operations, Goto
<1>10. CASE CloseUnobserved
    BY <1>10 DEF CloseUnobserved, Doubt
<1>11. CASE Close
    BY <1>11 DEF Close, Release, Doubt
<1>12. CASE Observe
  <2>1. CASE /\ owner' \in Installations /\ Goto("release") /\ target = job.expected
             /\ UNCHANGED <<target, probe>>
    BY <1>12, <2>1 DEF Observe, Goto
  <2>2. CASE owner' \in Installations /\ Unhealthy /\ target' \in CpuStates /\ UNCHANGED probe
    BY <1>12, <2>2 DEF Observe, Unhealthy
  <2>3. CASE Doubt /\ probe' = None /\ UNCHANGED <<owner, target>>
    BY <1>12, <2>3 DEF Observe, Doubt
  <2> QED BY <1>12, <2>1, <2>2, <2>3, Zenon DEF Observe, PollingTypes
<1>13. CASE ReleaseObserver
  <2>1. CASE owner = job.closed /\ target = job.expected /\ Goto("finalize")
    BY <1>13, <2>1 DEF ReleaseObserver, Release, Goto
  <2>2. CASE Doubt
    BY <1>13, <2>2 DEF ReleaseObserver, Release, Doubt
  <2> QED BY <1>13, <2>1, <2>2, Zenon DEF ReleaseObserver
<1>14. CASE Finalize
    BY <1>14 DEF Finalize, Outcome, Broken
<1>15. CASE FinalizeFails
    BY <1>15 DEF FinalizeFails, Fault, Outcome, Broken, Ended
<1>16. CASE Seal
    BY <1>16 DEF Seal, Sealable, Goto, Contents
<1>17. CASE SealFails
    BY <1>17 DEF SealFails, Fault, Broken
<1>18. CASE Publish
    BY <1>18 DEF Publish, NoJob
<1>19. CASE SessionGoes
    BY <1>19 DEF SessionGoes, Between, Release
<1>20. CASE Reopens
    BY <1>20 DEF Reopens, Between, Unseen
<1>21. CASE Syncs
    BY <1>21 DEF Syncs
<1>22. CASE Stop
    BY <1>22 DEF Stop, Active, SessionActive
<1>23. CASE ServerDies
    BY <1>23 DEF ServerDies, Active, Fault, NoJob, Release, Operations
<1>24. ASSUME NEW a \in Askers, Reconcile(a) PROVE PollEndInv'
    BY <1>24 DEF Reconcile, SessionActive, Active, Asks, Lost
<1>25. ASSUME NEW a \in Askers, Reconciled(a) PROVE PollEndInv'
  <2>1. asker[a].at = "seals" /\ raw.last = "interrupted" /\ UNCHANGED job
    BY <1>25, Zenon DEF Reconciled, AskersInv
  <2>2. CASE /\ Sealable /\ file' = Contents("asker") /\ raw' = [raw EXCEPT !.staged = FALSE]
             /\ session' = [state |-> "interrupted", error |-> "unknown"]
    <3>1. file'.state = "interrupted" /\ raw'.last = raw.last /\ ~raw'.staged
      BY <2>1, <2>2 DEF Sealable, Contents
    <3>2. file' # None
      <4>1. Contents("asker") \in FinalFile
        BY <2>2 DEF Sealable, Contents, FinalFile
      <4> QED BY <2>2, <4>1, PollingCaptureConstantsOK
    <3>3. session'.state = "interrupted" /\ job' = job
      BY <2>1, <2>2
    <3>4. job.at # "start"
      BY <2>1
    <3>5. job.at = "publish" => job.ends \in {raw.last, "failed"}
      BY <2>1, <2>2 DEF Sealable
    <3> QED BY <3>1, <3>2, <3>3, <3>4, <3>5
  <2>3. CASE Lost /\ UNCHANGED <<raw, file>>
    <3>1. session'.state = "failed"
      BY <2>3 DEF Lost
    <3>2. job.at # "start"
      BY <2>1
    <3> QED BY <2>1, <2>3, <3>1, <3>2
  <2> QED BY <1>25, <2>2, <2>3, Zenon DEF Reconciled
<1>26. ASSUME NEW c \in Calls, CallBegins(c) PROVE PollEndInv'
    BY <1>26 DEF CallBegins
<1>27. ASSUME NEW c \in Calls, CallRefused(c) PROVE PollEndInv'
    BY <1>27 DEF CallRefused
<1>28. ASSUME NEW c \in Calls, WriteRuns(c) PROVE PollEndInv'
    BY <1>28 DEF WriteRuns, Unseen
<1>29. ASSUME NEW c \in Calls, WriteEnds(c) PROVE PollEndInv'
    BY <1>29 DEF WriteEnds, Release
<1>30. ASSUME NEW c \in Calls, Resumes(c) PROVE PollEndInv'
    BY <1>30 DEF Resumes
<1>31. ASSUME NEW c \in Calls, Record(c) PROVE PollEndInv'
    BY <1>31 DEF Record, Active, Ended
<1>32. ASSUME NEW c \in Calls, RecordFails(c) PROVE PollEndInv'
    BY <1>32 DEF RecordFails, FileFault, Fault, TornEvent
<1> QED BY <1>1, <1>2, <1>3, <1>4, <1>5, <1>6, <1>7, <1>8, <1>9, <1>10, <1>11, <1>12, <1>13, <1>14, <1>15, <1>16, <1>17, <1>18, <1>19, <1>20, <1>21, <1>22, <1>23, <1>24, <1>25, <1>26, <1>27, <1>28, <1>29, <1>30, <1>31, <1>32
    DEF PollingNext, JobSteps, AskerSteps, CallSteps

LEMMA AtFirst ==
  ASSUME PollingInit
  PROVE  PollingInv
<1> USE PollingCaptureConstantsOK DEF PollingInit, NoJob, NoCall
<1>1. PollingTypes
  <2>1. job \in AnyJob
    BY DEF AnyJob, CpuStates, Failures, Sampling, Closed
  <2>2. call \in [Calls -> AnyCall] /\ asker \in [Askers -> AnyAsker]
    BY DEF AnyCall, AnyAsker
  <2>3. session \in AnyRecord /\ raw \in AnyStaged
    BY DEF AnyRecord, AnyStaged, Failures
  <2>4. TargetTypes
    BY DEF TargetTypes, CpuStates, Installations
  <2> QED BY <2>1, <2>2, <2>3, <2>4 DEF PollingTypes
<1>2. JobInv /\ CallInv
  BY DEF JobInv, CallInv, Sampling
<1>3. TargetInv /\ RecordInv
  BY DEF TargetInv, AsLeft, RecordInv, Terminal, Closed
<1>4. AskersInv /\ JournalInv /\ FileInv /\ PollEndInv
  BY DEF AskersInv, JournalInv, FileInv, PollEndInv, Ended, Terminal
<1> QED BY <1>1, <1>2, <1>3, <1>4 DEF PollingInv

LEMMA PollingSteps ==
  ASSUME PollingInv, [PollingNext]_pollingVars
  PROVE  PollingInv'
<1>1. CASE PollingNext
  <2>1. PollingTypes'
    BY <1>1, JobTyped, CallsTyped, TargetTyped, RecordTyped, StagedTyped, FileTyped, Zenon
    DEF PollingInv, PollingTypes
  <2>2. JobInv' /\ CallInv' /\ TargetInv' /\ RecordInv'
    BY <1>1, JobKept, CallsKept, TargetKept, RecordKept, Zenon DEF PollingInv
  <2>3. AskersInv' /\ JournalInv' /\ FileInv' /\ PollEndInv'
    BY <1>1, AskersKept, JournalKept, FileKept, EndKept, Zenon DEF PollingInv
  <2> QED BY <2>1, <2>2, <2>3, Zenon DEF PollingInv
<1>2. CASE UNCHANGED pollingVars
  <2> USE <1>2 DEF pollingVars, cpu, disk
  <2>1. PollingTypes' /\ JobInv'
    BY Zenon DEF PollingInv, PollingTypes, TargetTypes, JobInv
  <2>2. CallInv' /\ AskersInv'
    BY Zenon DEF PollingInv, CallInv, AskersInv, Taken
  <2>3. TargetInv' /\ RecordInv'
    BY Zenon DEF PollingInv, TargetInv, Sure, AsLeft, RecordInv
  <2>4. JournalInv' /\ FileInv' /\ PollEndInv'
    BY Zenon DEF PollingInv, JournalInv, FileInv, PollEndInv, Ended, Taken
  <2> QED BY <2>1, <2>2, <2>3, <2>4, Zenon DEF PollingInv
<1> QED BY <1>1, <1>2

(* The invariant of a polling capture: the job, the calls from outside,    *)
(* the target and what is on disk.                                         *)
THEOREM PollingInvariance == PollingSpec => []PollingInv
<1>1. PollingInit => PollingInv
  BY AtFirst
<1>2. PollingInv /\ [PollingNext]_pollingVars => PollingInv'
  BY PollingSteps
<1> QED BY <1>1, <1>2, PTL DEF PollingSpec

(* Whatever fails or dies, and whoever asks for the capture meanwhile, a   *)
(* record that does not say that the state of the target is unknown means  *)
(* that it is as it was found, or as a caller resumed it; unless a pause   *)
(* whose event could not be written, or the end of a session that was      *)
(* replaced before the job could miss it, left it otherwise (run,          *)
(* stopPollSample, closeAndReconcileTarget).                               *)
THEOREM PollingLeavesAsFound == PollingSpec => []LeftAsFound
<1>1. PollingInv => LeftAsFound
  BY DEF PollingInv, RecordInv, AsLeft, LeftAsFound
<1> QED BY <1>1, PollingInvariance, PTL

(* Whoever asks for the capture, and whenever: its record and its final    *)
(* file give the same outcome; and every write, and every sample, is there *)
(* unless an asker without the job ended the journal under the job         *)
(* (finalize, reconcileOrphan, recordExternalWrite).                       *)
THEOREM PollingRecordIsSound == PollingSpec => []RecordSound
<1>1. PollingInv => RecordSound
  <2> SUFFICES ASSUME PollingInv PROVE RecordSound
    OBVIOUS
  <2>1. PollingTypeOK
    BY DEF PollingInv, PollingTypes, TargetTypes, JobInv, CallInv, AnyJob, AnyRecord, AnyStaged, PollingTypeOK
  <2>2. SealedAsReported
    BY DEF PollingInv, FileInv, PollEndInv, SealedAsReported
  <2>3. ASSUME ~Taken
        PROVE  WholeRecord
    <3>1. IssuedIsRecorded
      BY PollingCaptureConstantsOK, <2>3
      DEF PollingInv, PollingTypes, FileInv, CallInv, AnyCall, Sampling, IssuedIsRecorded
    <3>2. file # None => file.samples = raw.samples
      BY <2>3 DEF PollingInv, PollingTypes, FileInv, FinalFile
    <3> QED BY <3>1, <3>2 DEF WholeRecord
  <2> QED BY <2>1, <2>2, <2>3 DEF RecordSound
<1> QED BY <1>1, PollingInvariance, PTL

=============================================================================
