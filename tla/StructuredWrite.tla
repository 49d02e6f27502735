--------------------------- MODULE StructuredWrite ---------------------------
(***************************************************************************)
(* The write of a typed variable (structuredWrite in direct-operations.ts),*)
(* from the turn in the Probe's queue to the answer: old value, write,     *)
(* verification, restoration, last look at the target, and what the answer *)
(* says was issued and is unknown.  The write goes one of two ways: one    *)
(* request after the other through the persistent memory session, or all   *)
(* of it in one native process (accessMemoryNonIntrusive in jlink.ts,      *)
(* ram_probe_access in hss_helper.cpp).  Anything may fail at every step,  *)
(* and a write that failed may have reached the target all the same.       *)
(*                                                                         *)
(* The firmware itself leaves the variable alone, and the comparator is    *)
(* the exact one: nothing else could be said of the value.                 *)
(***************************************************************************)

CONSTANTS Values,     (* what the variable may hold                          *)
          Torn,       (* the value a write leaves that failed half way       *)
          NoValue     (* no old value was captured                           *)

ASSUME ValuesOK == Torn \in Values /\ NoValue \notin Values

VARIABLES value,      (* of the variable, on the target                      *)
          w           (* the write under way, or answered                    *)

(* OperationExecutionError: was a write issued, is the state unknown?      *)
Err(issued, unknown) ==
  [raised |-> TRUE, issued |-> issued, unknown |-> unknown]
NoError == [raised |-> FALSE, issued |-> FALSE, unknown |-> FALSE]

(* The write: its options, the old value, writeIssued, the errors of its   *)
(* parts and the one it is answered with.  undone is the status "verified" *)
(* of the restoration.  was and hit are what is true: the value before the *)
(* write, and whether it reached the target.                               *)
Options == [way : {"session", "helper"}, requested : Values \ {Torn},
            capture : BOOLEAN, verify : BOOLEAN, restore : BOOLEAN,
            independent : BOOLEAN]

Idle == [at |-> "idle"]

Errors == {NoError} \cup {Err(i, u) : i, u \in BOOLEAN}

WriteTypeOK ==
  /\ value \in Values
  /\ w.at \in {"idle", "before", "old", "write", "check", "undo", "after",
               "leave", "answered"}
  /\ w.at # "idle" => /\ w.opts \in Options
                      /\ w.old \in Values \cup {NoValue}
                      /\ w.was \in Values
                      /\ {w.main, w.check, w.undo, w.error} \subseteq Errors
                      /\ {w.issued, w.restored, w.hit} \subseteq BOOLEAN

WriteInit == value \in Values \ {Torn} /\ w = Idle

(* The validation of the request, and captureOld that restore implies.     *)
Valid(opts) ==
  /\ opts.restore => opts.capture
  /\ opts.independent => opts.verify /\ ~opts.restore

Begin(opts) ==
  /\ w.at = "idle" /\ Valid(opts)
  /\ w' = [at |-> "before", opts |-> opts, old |-> NoValue, issued |-> FALSE,
           main |-> NoError, check |-> NoError, undo |-> NoError,
           error |-> NoError, restored |-> FALSE, was |-> value, hit |-> FALSE]
  /\ UNCHANGED value

Fails(err) == w' = [w EXCEPT !.at = "leave", !.error = err]

(* The queue, the store, the session or the region refuse, or the target   *)
(* cannot be observed: nothing has been sent.                              *)
Before ==
  /\ w.at = "before"
  /\ \/ \E u \in BOOLEAN : Fails(Err(FALSE, u))
     \/ w' = [w EXCEPT !.at = IF w.opts.way = "session" /\ w.opts.capture
                              THEN "old" ELSE "write"]
  /\ UNCHANGED value

-----------------------------------------------------------------------------
(* Through the session.                                                    *)
ReadOld ==
  /\ w.at = "old"
  /\ \/ \E u \in BOOLEAN : Fails(Err(FALSE, u))
     \/ w' = [w EXCEPT !.at = "write", !.old = value]
  /\ UNCHANGED value

(* A write of v that is said to have succeeded may still have been lost;   *)
(* one that failed has left anything.                                      *)
Lands(v) == value' \in {v, value}
Breaks(v) == value' \in {v, value, Torn}

Wrote(old, issued, err) ==
  w' = [w EXCEPT !.at = "check", !.old = old, !.issued = issued, !.main = err,
                 !.hit = issued]

(* A request that was handed to the pipe counts as issued, whatever became *)
(* of its answer; what the helper refused, or never got, does not.         *)
SessionWrites ==
  /\ w.at = "write" /\ w.opts.way = "session"
  /\ \/ Lands(w.opts.requested) /\ Wrote(w.old, TRUE, NoError)
     \/ Breaks(w.opts.requested) /\ Wrote(w.old, TRUE, Err(TRUE, TRUE))
     \/ \E u \in BOOLEAN : Wrote(w.old, FALSE, Err(FALSE, u))
                           /\ UNCHANGED value

-----------------------------------------------------------------------------
(* Through a helper of its own: old value, write, readbacks and            *)
(* restoration happen before the server hears anything.  tx is what was    *)
(* done: the helper's response, if it can be read, says exactly that.      *)
OldOf == IF w.opts.capture THEN value ELSE NoValue

(* should_attempt_memory_restore.                                          *)
Restores == w.opts.restore

Transacted(old, restored, issued, err, hit) ==
  w' = [w EXCEPT !.at = "check", !.old = old, !.restored = restored,
                 !.issued = issued, !.main = err, !.hit = hit]

(* The helper is not started, does not connect, finds the target in        *)
(* another state or cannot read the old value.                             *)
HelperRefuses ==
  /\ w.at = "write" /\ w.opts.way = "helper"
  /\ \E u \in BOOLEAN : Transacted(NoValue, FALSE, FALSE, Err(FALSE, u), FALSE)
  /\ UNCHANGED value

(* A call of the DLL fails after the first element, or the state cannot be *)
(* observed at the end; the restoration is tried even then.  Or all went   *)
(* well, but the state is another one than at the start.                   *)
HelperFails ==
  /\ w.at = "write" /\ w.opts.way = "helper"
  /\ \/ /\ Transacted(OldOf, Restores, TRUE, Err(TRUE, TRUE), TRUE)
        /\ Breaks(w.opts.requested)
     \/ /\ Transacted(OldOf, Restores, TRUE, Err(TRUE, FALSE), TRUE)
        /\ IF Restores THEN UNCHANGED value ELSE Lands(w.opts.requested)

HelperSucceeds ==
  /\ w.at = "write" /\ w.opts.way = "helper"
  /\ Transacted(OldOf, Restores, TRUE, NoError, TRUE)
  /\ IF Restores THEN UNCHANGED value ELSE Lands(w.opts.requested)

(* The helper was killed after its time, exited with an error or answered  *)
(* what cannot be read.  Variant: as after a helper that was not started.  *)
UnreadAsUnstarted == Err(FALSE, FALSE)
Unread == Err(TRUE, TRUE)

HelperLost ==
  /\ w.at = "write" /\ w.opts.way = "helper"
  /\ \/ /\ Transacted(NoValue, FALSE, Unread.issued, Unread, FALSE)
        /\ UNCHANGED value
     \/ /\ \/ Transacted(NoValue, FALSE, Unread.issued, Unread, TRUE)
           \/ Transacted(OldOf, Restores, Unread.issued, Unread, TRUE)
        /\ Breaks(w.opts.requested)

-----------------------------------------------------------------------------
(* Verification.  Over the session or by a connection of its own the value *)
(* is read again; a transaction that restored has only its own readbacks,  *)
(* taken before the restoration.                                           *)
Unchecked == w.main.raised \/ ~w.opts.verify

Mismatch == IF value = w.opts.requested THEN NoError ELSE Err(TRUE, FALSE)

Check ==
  /\ w.at = "check"
  /\ \E err \in IF Unchecked THEN {NoError}
                ELSE IF w.restored THEN {NoError, Err(TRUE, TRUE), Err(TRUE, FALSE)}
                ELSE {Mismatch, Err(TRUE, TRUE)} :
       w' = [w EXCEPT !.at = "undo", !.check = err]
  /\ UNCHANGED value

(* The restoration: written and read back over the session, or what the    *)
(* transaction restored read back by a connection of its own.              *)
Undone(err) == w' = [w EXCEPT !.at = "after", !.restored = ~err.raised,
                              !.undo = err]

Uncertain == Undone(Err(TRUE, TRUE))

ReadsBack(v) == IF v = w.old THEN Undone(NoError) ELSE Uncertain

Undo ==
  /\ w.at = "undo"
  /\ \/ /\ ~w.opts.restore \/ ~w.issued
        /\ w' = [w EXCEPT !.at = "after", !.restored = FALSE]
        /\ UNCHANGED value
     \/ /\ w.opts.restore /\ w.issued /\ w.opts.way = "session"
        /\ \/ Lands(w.old) /\ ReadsBack(value')
           \/ Breaks(w.old) /\ Uncertain
     \/ /\ w.opts.restore /\ w.issued /\ w.opts.way = "helper"
        /\ \/ w.restored /\ w.old # NoValue /\ ReadsBack(value)
           \/ Uncertain
        /\ UNCHANGED value

(* The error the operation ends with, when the target is found as before.  *)
(* Variant: that of the restoration is not looked at.                      *)
FirstErrorOfWrite == IF w.main.raised THEN w.main ELSE w.check
FirstError == IF w.undo.raised THEN w.undo
              ELSE IF w.main.raised THEN w.main ELSE w.check

(* The last look at the target.                                            *)
After ==
  /\ w.at = "after"
  /\ \/ Fails(FirstError)                                       \* as before
     \/ Fails(Err(w.issued, w.undo.unknown \/ w.main.unknown))  \* changed
     \/ Fails(Err(w.issued, w.opts.way = "session" \/ w.issued))  \* unknown
     \/ /\ w.opts.way = "helper"                                \* rejected
        /\ \E u \in {w.issued, TRUE} : Fails(Err(TRUE, u))
  /\ UNCHANGED value

(* The end of queuedWithTarget: a session that is not usable any more is   *)
(* retired, and if that cannot be confirmed the state is unknown.          *)
Leave ==
  /\ w.at = "leave"
  /\ \E u \in IF w.error.raised /\ w.opts.way = "session"
              THEN {w.error.unknown, TRUE} ELSE {w.error.unknown} :
       w' = [w EXCEPT !.at = "answered", !.error.unknown = u]
  /\ UNCHANGED value

Write == \/ Before \/ ReadOld \/ SessionWrites
         \/ HelperRefuses \/ HelperFails \/ HelperSucceeds \/ HelperLost
         \/ Check \/ Undo \/ After \/ Leave

-----------------------------------------------------------------------------
Answered == w.at = "answered"

(* An answer that says neither that a write was issued nor that the state  *)
(* is unknown: the target has not been touched.                            *)
SilentAnswerTouchedNothing ==
  Answered /\ w.error = Err(FALSE, FALSE) => ~w.hit /\ value = w.was

(* What an answer claims of the value is so: a verified write holds the    *)
(* requested value, a restoration that succeeded or is called verified the *)
(* old one, whatever else failed.                                          *)
ClaimedValueHolds ==
  /\ Answered /\ ~w.error.raised =>
       IF w.opts.restore THEN value = w.was
       ELSE w.opts.verify => value = w.opts.requested
  /\ Answered /\ w.restored => value = w.was
=============================================================================
