---------------------------- MODULE DebugSequence ----------------------------
(***************************************************************************)
(* A timed debug sequence (debug-sequence.ts): steps at given times, and   *)
(* what is done when one fails, is late or is cancelled: the declared      *)
(* restorations and stops in their order, then the stop of the capture     *)
(* the sequence started.  Its writes are structured writes                 *)
(* (StructuredWrite), taken apart step by step; while a capture runs they  *)
(* go through its helper and answer as CaptureMemory says.  A client that  *)
(* writes without a sequence does so with all options.                     *)
(*                                                                         *)
(* The plan is drawn up as it is carried out: every step is one the        *)
(* preflight allows after the steps before it.  One variable is written,   *)
(* which a plan may spell in two ways (refKey compares spellings).         *)
(***************************************************************************)
EXTENDS Naturals, StructuredWrite

CONSTANTS Spellings,  (* of the variable                                     *)
          Declared,   (* the value a declared restoration writes             *)
          MaxSteps,   (* bound on the steps of a plan, 32 in the code        *)
          MaxCleanup  (* bound on its declared cleanup, 4 in the code        *)

ASSUME SequenceOK == /\ Declared \in Values \ {Torn}
                     /\ MaxSteps \in Nat \ {0, 1} /\ MaxCleanup \in Nat

VARIABLES seq,        (* the sequence under way                              *)
          capture,    (* the capture on the probe: "none", "capturing", or   *)
                      (* "told" to stop                                      *)
          cancelled,  (* the client's signal                                 *)
          expired     (* has the deadline passed?                            *)

vars == <<value, w, seq, capture, cancelled, expired>>

(* The sequence: its position, the steps done, whether a capture is planned*)
(* (preflight), activeId, the spellings that were possibly written, why it *)
(* failed, what its answer says, and of its cleanup the number of actions  *)
(* and the spellings for which a restoration was declared.  ref is the     *)
(* spelling of the write under way, hit what is true: the spellings whose  *)
(* write reached the target.                                               *)
NoSequence ==
  [at |-> "idle", done |-> 0, planned |-> FALSE, active |-> FALSE,
   possibly |-> {}, state |-> "completed", issued |-> FALSE,
   unknown |-> FALSE, cleaned |-> 0, ref |-> "none", declared |-> {},
   last |-> FALSE, hit |-> {}]

States == {"completed", "failed", "timed_out", "cancelled"}

TypeOK ==
  /\ WriteTypeOK
  /\ seq.at \in {"idle", "check", "wait", "writing", "cleanup", "undoing", "done"}
  /\ seq.done \in 0 .. MaxSteps /\ seq.cleaned \in 0 .. MaxCleanup
  /\ seq.possibly \cup seq.hit \cup seq.declared \subseteq Spellings
  /\ seq.ref \in Spellings \cup {"none"}
  /\ seq.state \in States
  /\ {seq.planned, seq.active, seq.issued, seq.unknown, seq.last} \subseteq BOOLEAN
  /\ capture \in {"none", "capturing", "told"}
  /\ {cancelled, expired} \subseteq BOOLEAN

Init == /\ WriteInit
        /\ seq = NoSequence /\ capture = "none"
        /\ cancelled = FALSE /\ expired = FALSE

still == <<value, w>>
outside == <<capture, cancelled, expired>>

-----------------------------------------------------------------------------
(* A client that writes without a sequence; the capture it would have to   *)
(* go through is CaptureMemory's.                                          *)
ClientWrites ==
  /\ seq.at = "idle" /\ capture = "none"
  /\ \E opts \in Options : Begin(opts)
  /\ UNCHANGED <<seq, outside>>

ClientAnswered ==
  /\ seq.at = "idle" /\ Answered
  /\ w' = Idle
  /\ UNCHANGED <<value, seq, outside>>

WriteGoesOn == Write /\ UNCHANGED <<seq, outside>>

-----------------------------------------------------------------------------
(* The sequence.                                                           *)
Start ==
  /\ seq.at = "idle" /\ w.at = "idle" /\ capture = "none"
  /\ seq' = [NoSequence EXCEPT !.at = "check"]
  /\ cancelled' = FALSE /\ expired' = FALSE
  /\ UNCHANGED <<still, capture>>

(* assertCanContinue, before the wait, after it and after every step.      *)
CanContinue == ~cancelled /\ ~expired

FailsAs(state) == seq' = [seq EXCEPT !.at = "cleanup", !.state = state]

(* The check fails; or the step's time is after the deadline, or already   *)
(* past because the step before took too long; or the wait is aborted,     *)
(* which is not told from a failure.                                       *)
Halts ==
  /\ seq.at \in {"check", "wait"}
  /\ \/ cancelled /\ FailsAs("cancelled")
     \/ ~cancelled /\ expired /\ FailsAs("timed_out")
     \/ CanContinue /\ seq.at = "check" /\ FailsAs("timed_out")
     \/ CanContinue /\ seq.at = "check" /\ seq.done > 0 /\ FailsAs("failed")
     \/ cancelled /\ seq.at = "wait" /\ FailsAs("failed")
  /\ UNCHANGED <<still, outside>>

Waits ==
  /\ seq.at = "check" /\ CanContinue
  /\ ~seq.last /\ seq.done < MaxSteps
  /\ seq' = [seq EXCEPT !.at = "wait"]
  /\ UNCHANGED <<still, outside>>

(* A plan has at least two steps; a stop is its last.                      *)
Completes ==
  /\ seq.at = "check" /\ CanContinue /\ seq.done >= 2
  /\ seq' = [seq EXCEPT !.at = "done"]
  /\ UNCHANGED <<still, outside>>

Ready == seq.at = "wait" /\ CanContinue

(* The write of a step: a variable whose write was, or may have been,      *)
(* issued is possibly written.  Variant: only if the step succeeded.       *)
WrittenIfOk(ok, issued, unknown) == ok
PossiblyWritten(ok, issued, unknown) == ok \/ issued \/ unknown

(* The result of a step.                                                   *)
StepResult(s, ok, issued, unknown) ==
  IF ok THEN [s EXCEPT !.at = "check", !.done = @ + 1]
  ELSE [s EXCEPT !.at = "cleanup", !.state = "failed", !.unknown = unknown,
                 !.issued = @ \/ issued]

WriteResult(ref, ok, issued, unknown, hit) ==
  seq' = LET s == StepResult(seq, ok, issued, unknown) IN
         [s EXCEPT !.issued = @ \/ ok,
                   !.possibly = IF PossiblyWritten(ok, issued, unknown)
                                THEN @ \cup {ref} ELSE @,
                   !.hit = IF hit THEN @ \cup {ref} ELSE @]

(* The options of a write of a sequence: over the session, the verification*)
(* being the plan's choice in a step and always on in a restoration.       *)
StepOptions ==
  {o \in Options : o.way = "session" /\ ~o.independent /\ Valid(o)}

UndoOptions == [way |-> "session", requested |-> Declared, capture |-> FALSE,
                verify |-> TRUE, restore |-> FALSE, independent |-> FALSE]

(* A write through the helper of the capture: what CaptureMemory shows of  *)
(* its answers (ReportedValueHolds, UnissuedStaysUnissued).  A capture that*)
(* is ending takes none, and still owns the probe.                         *)
ThroughCapture(opts, ok, issued, unknown, hit) ==
  \/ /\ capture = "capturing"
     /\ \/ /\ ok /\ issued /\ ~unknown /\ hit
           /\ IF opts.restore THEN UNCHANGED value
              ELSE IF opts.verify THEN value' = opts.requested
              ELSE Lands(opts.requested)
        \/ ~ok /\ issued /\ hit /\ Breaks(opts.requested)
        \/ ~ok /\ ~issued /\ ~hit /\ UNCHANGED value
  \/ /\ capture = "told"
     /\ ~ok /\ ~issued /\ ~unknown /\ ~hit /\ UNCHANGED value

WriteStep(ref) ==
  /\ Ready
  /\ capture = "none"
  /\ \E opts \in StepOptions : Begin(opts)
  /\ seq' = [seq EXCEPT !.at = "writing", !.ref = ref]
  /\ UNCHANGED outside

WriteStepReturns ==
  /\ seq.at = "writing" /\ Answered
  /\ WriteResult(seq.ref, ~w.error.raised, w.error.issued, w.error.unknown,
                 w.hit)
  /\ w' = Idle
  /\ UNCHANGED <<value, outside>>

WriteStepThroughCapture(ref) ==
  /\ Ready
  /\ \E opts \in StepOptions, ok, issued, unknown, hit \in BOOLEAN :
       /\ ThroughCapture(opts, ok, issued, unknown, hit)
       /\ WriteResult(ref, ok, issued, unknown, hit)
  /\ UNCHANGED <<w, outside>>

(* A read, or a resume of the target, which needs the capture.             *)
OtherStep ==
  /\ Ready
  /\ \E ok, issued, unknown \in BOOLEAN :
       /\ issued => seq.planned
       /\ ok => ~issued /\ ~unknown
       /\ seq' = StepResult(seq, ok, issued, unknown)
  /\ UNCHANGED <<still, outside>>

(* hss_start.  A start that fails may have created a capture all the same, *)
(* which it has then stopped or told to stop; if the answer names it the   *)
(* sequence takes it for its own.                                          *)
HssStart ==
  /\ Ready /\ ~seq.planned /\ capture = "none"
  /\ \/ /\ capture' = "capturing"
        /\ seq' = [StepResult(seq, TRUE, FALSE, FALSE) EXCEPT
                     !.planned = TRUE, !.active = TRUE]
     \/ /\ capture' \in {"none", "told"}
        /\ \E named, unknown \in BOOLEAN :
             seq' = [StepResult(seq, FALSE, FALSE, unknown) EXCEPT
                       !.active = named]
  /\ UNCHANGED <<still, cancelled, expired>>

(* hss_stop: the capture is sealed; or it was told to stop, or it was not, *)
(* or it had failed by itself.                                             *)
StopCapture(ok) == IF ok THEN capture' = "none"
                   ELSE capture' \in {capture} \cup
                          (IF capture = "none" THEN {} ELSE {"told"})

HssStop ==
  /\ Ready /\ seq.planned
  /\ \E ok, unknown \in BOOLEAN :
       /\ ok => ~unknown
       /\ StopCapture(ok)
       /\ seq' = [StepResult(seq, ok, FALSE, unknown) EXCEPT
                    !.active = ~ok, !.last = TRUE]
  /\ UNCHANGED <<still, cancelled, expired>>

-----------------------------------------------------------------------------
(* The cleanup: what the plan declares, in its order, whatever becomes of  *)
(* it; at the end the capture that is still the sequence's.                *)
Cleaned(s, ok) == [s EXCEPT !.at = "cleanup", !.unknown = @ \/ ~ok]

Declares == seq.at = "cleanup" /\ seq.cleaned < MaxCleanup

CleanupBegins(ref) ==
  [seq EXCEPT !.cleaned = @ + 1, !.declared = @ \cup {ref}]

SkipRestore(ref) ==
  /\ Declares /\ ref \notin seq.possibly
  /\ seq' = CleanupBegins(ref)
  /\ UNCHANGED <<still, outside>>

Restore(ref) ==
  /\ Declares /\ ref \in seq.possibly /\ capture = "none"
  /\ Begin(UndoOptions)
  /\ seq' = [CleanupBegins(ref) EXCEPT !.at = "undoing"]
  /\ UNCHANGED outside

RestoreReturns ==
  /\ seq.at = "undoing" /\ Answered
  /\ seq' = Cleaned(seq, ~w.error.raised)
  /\ w' = Idle
  /\ UNCHANGED <<value, outside>>

RestoreThroughCapture(ref) ==
  /\ Declares /\ ref \in seq.possibly
  /\ \E ok, issued, unknown, hit \in BOOLEAN :
       /\ ThroughCapture(UndoOptions, ok, issued, unknown, hit)
       /\ seq' = Cleaned(CleanupBegins(ref), ok)
  /\ UNCHANGED <<w, outside>>

StopOwn(s) ==
  IF seq.active
  THEN \E ok \in BOOLEAN : /\ StopCapture(ok)
                           /\ seq' = [Cleaned(s, ok) EXCEPT !.active = ~ok]
  ELSE seq' = Cleaned(s, TRUE) /\ UNCHANGED capture

DeclaredStop ==
  /\ Declares
  /\ StopOwn([seq EXCEPT !.cleaned = @ + 1])
  /\ UNCHANGED <<still, cancelled, expired>>

(* Variant: only a step that failed stops the capture.                     *)
AutomaticAfterFailure == seq.active /\ seq.state = "failed"
Automatic == seq.active

EndsCleanup ==
  /\ seq.at = "cleanup"
  /\ IF Automatic
     THEN \E ok \in BOOLEAN :
            /\ StopCapture(ok)
            /\ seq' = [seq EXCEPT !.at = "done", !.active = ~ok,
                                  !.unknown = @ \/ ~ok]
     ELSE seq' = [seq EXCEPT !.at = "done"] /\ UNCHANGED capture
  /\ UNCHANGED <<still, cancelled, expired>>

Return ==
  /\ seq.at = "done"
  /\ seq' = NoSequence
  /\ UNCHANGED <<still, outside>>

-----------------------------------------------------------------------------
(* The world: the client cancels, time passes, a capture ends by itself.   *)
Running == seq.at \notin {"idle", "done"}

ClientCancels == /\ Running /\ ~cancelled /\ cancelled' = TRUE
                 /\ UNCHANGED <<still, seq, capture, expired>>

DeadlinePasses == /\ Running /\ ~expired /\ expired' = TRUE
                  /\ UNCHANGED <<still, seq, capture, cancelled>>

CaptureEnds == /\ capture # "none" /\ capture' = "none"
               /\ UNCHANGED <<still, seq, cancelled, expired>>

Step == \/ \E ref \in Spellings : WriteStep(ref) \/ WriteStepThroughCapture(ref)
        \/ WriteStepReturns \/ OtherStep \/ HssStart \/ HssStop

Cleanup == \/ \E ref \in Spellings : \/ SkipRestore(ref) \/ Restore(ref)
                                      \/ RestoreThroughCapture(ref)
           \/ RestoreReturns \/ DeclaredStop \/ EndsCleanup

Next == \/ ClientWrites \/ ClientAnswered \/ WriteGoesOn
        \/ Start \/ Halts \/ Waits \/ Completes \/ Step \/ Cleanup \/ Return
        \/ ClientCancels \/ DeadlinePasses \/ CaptureEnds

Spec == Init /\ [][Next]_vars

-----------------------------------------------------------------------------
Failed == seq.at = "done" /\ seq.state # "completed"

(* An answer, of a write or of a whole sequence, that says neither that a  *)
(* write was issued nor that the state is unknown has left the variable    *)
(* untouched, whichever way failed at whichever step.                      *)
SilenceMeansUntouched ==
  /\ SilentAnswerTouchedNothing
  /\ Failed /\ ~seq.issued /\ ~seq.unknown => seq.hit = {}

(* A sequence that failed, was cancelled or came too late has put back     *)
(* every variable it wrote and declared a restoration for, under the same  *)
(* spelling, or it says that the state is unknown.                         *)
RestoredOrUnknown ==
  Failed /\ seq.hit \cap seq.declared # {}
    => value = Declared \/ seq.unknown

(* And no capture of its goes on that nobody told to stop.                 *)
StoppedOrUnknown == Failed => capture # "capturing" \/ seq.unknown

(* A sequence that does not complete cleans up after itself or says so.    *)
CleanedOrUnknown == TypeOK /\ RestoredOrUnknown /\ StoppedOrUnknown
=============================================================================
