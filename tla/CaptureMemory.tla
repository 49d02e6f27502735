--------------------------- MODULE CaptureMemory ---------------------------
(***************************************************************************)
(* Variables read and written, and the target resumed, through the helper  *)
(* of a running capture (hss-operations.ts, hss-helper-adapter.ts, and the *)
(* other side of the exchange in native/hss-helper/hss_helper.cpp).        *)
(*                                                                         *)
(* A request is published as a file, claimed by the helper by a rename,    *)
(* answered by another file.  A server persists a receipt of an answered   *)
(* write or resume before it removes the files, and removes the receipt    *)
(* when the event is in the journal of the capture.  Servers and helper    *)
(* die anywhere in between, and a server waits ten seconds and no longer.  *)
(*                                                                         *)
(* The lease of the capture lets one call in at a time, of whichever       *)
(* server: "call" is that one.                                             *)
(***************************************************************************)
EXTENDS Naturals, FiniteSets

CONSTANTS None,       (* no file, no call, no value                        *)
          MaxEffects, (* bound on the writes and resumes published         *)
          MaxFaults   (* bound on deaths and failed writes of files        *)

Request == [id : Nat, op : {"read", "write", "resume"}, value : Nat \cup {None}]
Reply == [id : Nat, ok : BOOLEAN, issued : BOOLEAN, unknown : BOOLEAN, read : Nat]

ASSUME CaptureMemoryConstantsOK ==
  /\ MaxEffects \in Nat \ {0} /\ MaxFaults \in Nat
  /\ None \notin Request \cup Reply \cup Nat

VARIABLES
  request, claim, response, (* the three files                             *)
  receipts, (* answered effects whose event is not known to be durable     *)
  events,   (* how often an effect is in the journal of the capture        *)
  effects,  (* what the helper has done to the target                      *)
  value,    (* the variable on the target                                  *)
  helper,   (* what the helper is doing                                    *)
  call,     (* the call inside the lease                                   *)
  ids,      (* how many effects were requested                             *)
  settled,  (* has the capture been settled?                               *)
  denied,   (* effects a caller was told were not issued                   *)
  promise,  (* what the last caller was told the variable holds            *)
  faults

files == <<request, claim, response>>
journal == <<receipts, events>>
target == <<effects, value>>
said == <<denied, promise>>
vars == <<files, journal, target, helper, call, ids, settled, said, faults>>

Ids == 1 .. MaxEffects

Polls == [at |-> "polls", answer |-> None]
Gone == [at |-> "gone", answer |-> None]
NoCall == [op |-> None, at |-> "idle", step |-> None, restore |-> FALSE, old |-> None,
           reply |-> None, mine |-> {}, answered |-> {}, issued |-> FALSE,
           unknown |-> FALSE, failed |-> FALSE, late |-> FALSE, holds |-> None]

Init == /\ request = None /\ claim = None /\ response = None
        /\ receipts = {} /\ events = [i \in Ids |-> 0]
        /\ effects = {} /\ value = 0
        /\ helper = Polls /\ call = NoCall /\ ids = 0 /\ settled = FALSE
        /\ denied = {} /\ promise = None /\ faults = 0

Fault == faults < MaxFaults /\ faults' = faults + 1
HelperRuns == helper.at # "gone"
Changes(r) == r.op \in {"write", "resume"}

-----------------------------------------------------------------------------
(* The helper, between two samples: a request is claimed while neither a   *)
(* claim nor a response of an earlier one is left.                         *)
HelperClaims ==
  /\ helper.at = "polls" /\ claim = None /\ response = None /\ request # None
  /\ claim' = request /\ request' = None /\ helper' = [at |-> "works", answer |-> None]
  /\ UNCHANGED <<response, journal, target, call, ids, settled, said, faults>>

OutcomesUnissued(r) ==
  {o \in [ok : BOOLEAN, issued : BOOLEAN, unknown : BOOLEAN, done : BOOLEAN] :
    /\ o.done \/ o.unknown => o.issued
    /\ o.issued => Changes(r) /\ (o.done \/ o.unknown)
    /\ o.unknown => ~o.ok}

(* It reads, or writes or resumes; it refuses; the library raises an       *)
(* exception before the effect or after it; or the clock cannot be read    *)
(* after the effect.  A write that is "ok" was issued; one that was issued *)
(* was done, unless its outcome is unknown.                                *)
Outcomes(r) ==
  {o \in [ok : BOOLEAN, issued : BOOLEAN, unknown : BOOLEAN, done : BOOLEAN] :
    /\ o.done \/ o.unknown => o.issued
    /\ o.issued => Changes(r) /\ (o.done \/ o.unknown)
    /\ o.unknown => ~o.ok
    /\ o.ok /\ r.op = "write" => o.issued}

HelperWorks ==
  /\ helper.at = "works"
  /\ \E o \in Outcomes(claim) :
       /\ effects' = IF o.done THEN effects \cup {claim.id} ELSE effects
       /\ value' = IF o.done /\ claim.op = "write" THEN claim.value ELSE value
       /\ helper' = [at |-> "answers",
                     answer |-> [id |-> claim.id, ok |-> o.ok, issued |-> o.issued,
                                 unknown |-> o.unknown, read |-> value]]
  /\ UNCHANGED <<files, journal, call, ids, settled, said, faults>>

HelperAnswers ==
  /\ helper.at = "answers" /\ response' = helper.answer /\ helper' = Polls
  /\ UNCHANGED <<request, claim, journal, target, call, ids, settled, said, faults>>

(* The capture is over, or stopped: no request is looked for any more.     *)
HelperEnds == /\ helper.at = "polls" /\ helper' = Gone
              /\ UNCHANGED <<files, journal, target, call, ids, settled, said, faults>>

(* It dies, or ends because the response could not be written.             *)
HelperDies == /\ HelperRuns /\ Fault /\ helper' = Gone
              /\ UNCHANGED <<files, journal, target, call, ids, settled, said>>

-----------------------------------------------------------------------------
(* The call.  "recover" stands for the status of a running capture and for *)
(* hss_stop, "settle" for settling one whose helper is gone.               *)
At(at) == call.at = at
Goto(at) == call' = [call EXCEPT !.at = at]
Try(c, step) == call' = [c EXCEPT !.step = step, !.at = "look", !.reply = None]
World == <<target, helper>>

Begin ==
  /\ At("idle") /\ ~settled
  /\ \E op \in {"read", "write", "resume", "recover", "settle"}, restore \in BOOLEAN :
       /\ op = "settle" <=> ~HelperRuns
       /\ op \in {"write", "resume"} => ids < MaxEffects
       /\ restore => op = "write"
       /\ IF op = "read" THEN Try([NoCall EXCEPT !.op = op], op)
          ELSE call' = [NoCall EXCEPT !.op = op, !.restore = restore, !.step = "recover", !.at = "look"]
  /\ UNCHANGED <<files, journal, World, ids, settled, said, faults>>

(* What the caller is told: what was not issued, what the variable holds.  *)
Report(c) ==
  /\ call' = NoCall
  /\ denied' = IF c.issued \/ c.unknown THEN denied ELSE denied \cup c.mine
  /\ promise' = IF c.failed \/ c.op # "write" THEN promise ELSE c.holds

(* The restoration is tried whenever the write was, or may have been,      *)
(* issued; then the event; a read has none.                                *)
Fails(c) ==
  LET lost == [c EXCEPT !.failed = TRUE]
  IN CASE c.step \in {"recover", "read"} -> Report(lost)
       [] c.step \in {"write", "verify"} /\ c.old # None /\ c.issued ->
            Try(lost, "restore") /\ UNCHANGED said
       [] OTHER -> call' = [lost EXCEPT !.at = "event"] /\ UNCHANGED said

Change == {"write", "restore", "resume"}

-----------------------------------------------------------------------------
(* reconcileMemoryTransaction, which every exchange begins with.           *)
Unresolved ==
  /\ At("look")
  /\ \/ claim # None /\ response = None
     \/ claim = None /\ response = None /\ request # None
     \/ claim = None /\ response # None
  /\ Fails(call)
  /\ UNCHANGED <<files, journal, World, ids, settled, faults>>

NothingLeft ==
  /\ At("look") /\ claim = None /\ response = None /\ request = None
  /\ Goto(IF call.step = "recover" THEN "record" ELSE "publish")
  /\ UNCHANGED <<files, journal, World, ids, settled, said, faults>>

Late == /\ At("look") /\ claim # None /\ response # None
        /\ call' = [call EXCEPT !.late = TRUE, !.at = "bank"]
        /\ UNCHANGED <<files, journal, World, ids, settled, said, faults>>

(* The helper is looked at inside the queue, before the first request.     *)
HelperLost ==
  /\ At("look") /\ call.step \in {"read", "old", "write", "resume"} /\ ~HelperRuns
  /\ Fails(call)
  /\ UNCHANGED <<files, journal, World, ids, settled, faults>>

-----------------------------------------------------------------------------
(* requestMemory.                                                          *)
Foreign == receipts \ call.mine

Publish ==
  /\ At("publish") /\ request = None /\ claim = None /\ response = None /\ Foreign = {}
  /\ IF call.step \in Change
     THEN /\ ids < MaxEffects /\ ids' = ids + 1
          /\ request' = [id |-> ids + 1, op |-> IF call.step = "resume" THEN "resume" ELSE "write",
                         value |-> IF call.step = "restore" THEN call.old ELSE ids + 1]
          /\ call' = [call EXCEPT !.at = "wait", !.mine = @ \cup {ids + 1},
                                  !.holds = IF call.step = "write" THEN ids + 1 ELSE @]
          /\ promise' = IF call.step = "resume" THEN promise ELSE None
     ELSE /\ request' = [id |-> 0, op |-> "read", value |-> None]
          /\ Goto("wait") /\ UNCHANGED <<ids, promise>>
  /\ UNCHANGED <<claim, response, journal, World, settled, denied, faults>>

(* A receipt of another call; a request that could not be written; or      *)
(* MaxEffects, in the place of one that could not be written.              *)
PublishRefused ==
  /\ At("publish")
  /\ IF Foreign # {} \/ (call.step \in Change /\ ids = MaxEffects) THEN UNCHANGED faults ELSE Fault
  /\ Fails(call)
  /\ UNCHANGED <<files, journal, World, ids, settled>>

(* The response of the request that was claimed, and that is this one.     *)
Receive ==
  /\ At("wait") /\ response # None
  /\ IF claim # None /\ response.id = claim.id /\ response.id = (IF call.step \in Change THEN ids ELSE 0)
     THEN call' = [call EXCEPT !.at = "bank", !.reply = response] /\ UNCHANGED said
     ELSE Fails([call EXCEPT !.issued = TRUE, !.unknown = TRUE])
  /\ UNCHANGED <<files, journal, World, ids, settled, faults>>

TimesOutSilently ==
  /\ At("wait") /\ Fails(call)
  /\ UNCHANGED <<files, journal, World, ids, settled, faults>>

TimesOutAndCleans ==
  /\ At("wait") /\ request' = None /\ claim' = None
  /\ Fails([call EXCEPT !.issued = TRUE, !.unknown = TRUE])
  /\ UNCHANGED <<response, journal, World, ids, settled, faults>>

(* Ten seconds, whether or not the request was claimed.                    *)
TimesOut ==
  /\ At("wait")
  /\ Fails(IF call.step \in Change THEN [call EXCEPT !.issued = TRUE, !.unknown = TRUE] ELSE call)
  /\ UNCHANGED <<files, journal, World, ids, settled, faults>>

(* The receipt, then the removals, the response first.                     *)
Bank ==
  /\ At("bank") /\ Goto("drop")
  /\ receipts' = IF Changes(claim) THEN receipts \cup {claim.id} ELSE receipts
  /\ UNCHANGED <<files, events, World, ids, settled, said, faults>>

BankFails ==
  /\ At("bank") /\ Changes(claim) /\ Fault
  /\ Fails([call EXCEPT !.unknown = @ \/ call.step \in Change])
  /\ UNCHANGED <<files, journal, World, ids, settled>>

Drop == /\ At("drop") /\ response' = None /\ Goto("unclaim")
        /\ UNCHANGED <<request, claim, journal, World, ids, settled, said, faults>>

(* A late answer was recovered, but the request of the call not issued.    *)
Unclaim ==
  /\ At("unclaim") /\ claim' = None
  /\ IF call.late
     THEN IF call.step = "recover" THEN Goto("record") /\ UNCHANGED said
          ELSE Fails([call EXCEPT !.late = FALSE])
     ELSE Goto("answered") /\ UNCHANGED said
  /\ UNCHANGED <<request, response, journal, World, ids, settled, faults>>

-----------------------------------------------------------------------------
(* What follows an answered request.                                       *)
Resumed ==
  /\ At("answered") /\ call.step = "resume"
  /\ call' = [call EXCEPT !.answered = @ \cup {call.reply.id}, !.issued = call.reply.issued,
                          !.unknown = call.reply.unknown, !.failed = ~call.reply.ok, !.at = "event"]
  /\ UNCHANGED <<files, journal, World, ids, settled, said, faults>>

Answered ==
  /\ At("answered") /\ call.step # "resume"
  /\ LET reply == call.reply
         c == IF call.step \notin Change THEN call
              ELSE [call EXCEPT !.answered = @ \cup {reply.id}, !.issued = @ \/ reply.issued,
                                !.unknown = @ \/ reply.unknown]
         last == [c EXCEPT !.at = "event"]
     IN CASE call.step = "read" -> Report(c)
          [] call.step = "old" /\ reply.ok -> Try([c EXCEPT !.old = reply.read], "write") /\ UNCHANGED said
          [] call.step = "write" /\ reply.ok -> 
               \/ Try(c, "verify") /\ UNCHANGED said
               \/ /\ IF c.old # None THEN Try(c, "restore") ELSE call' = last
                  /\ UNCHANGED said
          [] call.step = "verify" /\ reply.ok /\ reply.read = c.holds ->
               (IF c.old # None THEN Try(c, "restore") ELSE call' = last) /\ UNCHANGED said
          [] call.step = "restore" /\ reply.ok -> Try(c, "readback") /\ UNCHANGED said
          [] call.step = "readback" /\ reply.ok /\ reply.read = c.old ->
               call' = [last EXCEPT !.holds = c.old] /\ UNCHANGED said
          [] OTHER -> Fails(c)
  /\ UNCHANGED <<files, journal, World, ids, settled, faults>>

(* The event names the requests that were answered, and no others.         *)
AppendEvent ==
  /\ At("event") /\ Goto("acknowledge")
  /\ events' = [i \in Ids |-> IF i \in call.answered THEN events[i] + 1 ELSE events[i]]
  /\ UNCHANGED <<files, receipts, World, ids, settled, said, faults>>

AppendFails ==
  /\ At("event") /\ Fault /\ Report([call EXCEPT !.failed = TRUE])
  /\ UNCHANGED <<files, journal, World, ids, settled>>

Acknowledge ==
  /\ At("acknowledge") /\ Report(call) /\ receipts' = receipts \ call.answered
  /\ UNCHANGED <<files, events, World, ids, settled, faults>>

-----------------------------------------------------------------------------
(* recoverDurableMemoryTransactions: the receipts, oldest first; one that  *)
(* is in the journal already is only removed.                              *)
Oldest == CHOOSE i \in receipts : \A j \in receipts : i <= j

RecordAgain ==
  /\ At("record") /\ receipts # {} /\ Goto("forget")
  /\ events' = [events EXCEPT ![Oldest] = @ + 1]
  /\ UNCHANGED <<files, receipts, World, ids, settled, said, faults>>

Record ==
  /\ At("record") /\ receipts # {} /\ Goto("forget")
  /\ events' = [events EXCEPT ![Oldest] = IF @ = 0 THEN 1 ELSE @]
  /\ UNCHANGED <<files, receipts, World, ids, settled, said, faults>>

RecordFails ==
  /\ At("record") /\ receipts # {} /\ Fault /\ Fails(call)
  /\ UNCHANGED <<files, journal, World, ids, settled>>

ForgetNothing ==
  /\ At("forget") /\ call' = [call EXCEPT !.at = "record", !.late = TRUE]
  /\ UNCHANGED <<files, journal, World, ids, settled, said, faults>>

Forget == /\ At("forget") /\ receipts' = receipts \ {Oldest}
          /\ call' = [call EXCEPT !.at = "record", !.late = TRUE]
          /\ UNCHANGED <<files, events, World, ids, settled, said, faults>>

(* A write or resume that recovered another is not issued itself.          *)
Recovered ==
  /\ At("record") /\ receipts = {}
  /\ \/ call.op = "settle" /\ settled' = TRUE /\ Report(call)
     \/ /\ call.op # "settle" /\ (call.op = "recover" \/ call.late)
        /\ Report([call EXCEPT !.failed = TRUE]) /\ UNCHANGED settled
     \/ /\ call.op \notin {"settle", "recover"} /\ ~call.late
        /\ Try(call, IF call.restore THEN "old" ELSE call.op) /\ UNCHANGED <<settled, said>>
  /\ UNCHANGED <<files, journal, World, ids, faults>>

(* The server of the call dies; the lease falls to whoever asks next.      *)
ServerDies == /\ ~At("idle") /\ Fault /\ call' = NoCall
              /\ UNCHANGED <<files, journal, World, ids, settled, said>>

-----------------------------------------------------------------------------
HelperSteps == HelperClaims \/ HelperWorks \/ HelperAnswers
CallSteps ==
  \/ Unresolved \/ NothingLeft \/ Late \/ HelperLost \/ Publish \/ PublishRefused
  \/ Receive \/ TimesOut \/ Bank \/ Drop \/ Unclaim \/ Answered \/ Resumed \/ AppendEvent
  \/ Acknowledge \/ Record \/ Forget \/ Recovered
Next == \/ HelperSteps \/ HelperEnds \/ HelperDies
        \/ Begin \/ CallSteps \/ BankFails \/ AppendFails \/ RecordFails \/ ServerDies

(* A call that was begun goes on, and somebody asks again for the capture: *)
(* Begin of a settlement, the only call once the helper is gone.           *)
Fairness == WF_vars(HelperSteps) /\ WF_vars(CallSteps) /\ WF_vars(Begin /\ ~HelperRuns)

Spec == Init /\ [][Next]_vars /\ Fairness

-----------------------------------------------------------------------------
(* Types; and a helper at work has its claim on disk.                      *)
TypeOK ==
  /\ request = None \/ request.id \in 0 .. ids
  /\ receipts \subseteq 1 .. ids /\ effects \subseteq 1 .. ids /\ value \in 0 .. ids
  /\ DOMAIN events = Ids
  /\ call.mine \subseteq 1 .. ids /\ call.answered \subseteq call.mine
  /\ helper.at \in {"works", "answers"} => claim # None
  /\ faults \in 0 .. MaxFaults

(* Whatever dies in between, what was done to the target is in the journal *)
(* once, or its receipt or claim is still on disk for the next call to     *)
(* record; and in a settled capture it is in the journal, once.            *)
EffectsRecordedOnce ==
  /\ \A i \in Ids : events[i] \in {0, 1}
  /\ \A i \in effects : events[i] = 1 \/ i \in receipts \/ (claim # None /\ claim.id = i)
  /\ settled => \A i \in effects : events[i] = 1

(* What a caller was told was not issued is never done to the target,      *)
(* however late the helper comes to it.                                    *)
UnissuedStaysUnissued == denied \cap effects = {}

(* The journal and the callers are told of a request exactly what came of  *)
(* it.                                                                     *)
RequestsSound == TypeOK /\ EffectsRecordedOnce /\ UnissuedStaysUnissued

(* A variable reported written, or restored, holds that value until the    *)
(* next write is requested: no earlier request takes effect behind it.     *)
ReportedValueHolds == promise # None => value = promise

(* A capture whose helper is gone is settled, unless the helper, or a      *)
(* server between two removals, left a request that nothing will answer.   *)
Stuck == response = None /\ (request # None \/ claim # None)
ClosesUnlessStuck == ~HelperRuns ~> (settled \/ Stuck)
=============================================================================
