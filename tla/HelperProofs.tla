--------------------------- MODULE HelperProofs -----------------------------
(***************************************************************************)
(* What the native helper does and answers: the memory requests it serves  *)
(* during a capture (CaptureMemory), and its one-shot commands             *)
(* (HelperCommands).                                                       *)
(***************************************************************************)
EXTENDS CaptureMemory, HelperCommands, TLAPS, WellFoundedInduction

(***************************************************************************)
(* For any number of requests, deaths and failed writes of files: what the *)
(* helper did to the target is in the journal of the capture once, or its  *)
(* receipt or claim is on disk; what a caller was told was not issued is   *)
(* never done; and a variable reported written holds that value.           *)
(***************************************************************************)

Ops == {"read", "write", "resume", "recover", "settle"}
Steps == {"recover", "read", "old", "write", "verify", "restore", "readback", "resume"}
Places == {"idle", "look", "publish", "wait", "bank", "drop", "unclaim", "answered",
           "event", "acknowledge", "record", "forget"}
Calls == [op : Ops \cup {None}, at : Places, step : Steps \cup {None}, restore : BOOLEAN,
          old : Nat \cup {None}, reply : Reply \cup {None}, mine : SUBSET Nat,
          answered : SUBSET Nat, issued : BOOLEAN, unknown : BOOLEAN, failed : BOOLEAN,
          late : BOOLEAN, holds : Nat \cup {None}]
Helpers == [at : {"polls", "works", "answers", "gone"}, answer : Reply \cup {None}]

Typed ==
  /\ request \in Request \cup {None} /\ claim \in Request \cup {None}
  /\ response \in Reply \cup {None} /\ helper \in Helpers /\ call \in Calls
  /\ ids \in 0 .. MaxEffects /\ value \in 0 .. ids /\ promise \in 0 .. ids \cup {None}
  /\ receipts \subseteq 1 .. ids /\ effects \subseteq 1 .. ids /\ denied \subseteq 1 .. ids
  /\ events \in [Ids -> {0, 1}] /\ faults \in 0 .. MaxFaults
  /\ call.mine \subseteq 1 .. ids /\ call.answered \subseteq call.mine
  /\ settled \in BOOLEAN

-----------------------------------------------------------------------------
(* The files: one request at a time, in one of its forms.                  *)
Sensible(r) == /\ r.id \in 0 .. ids /\ (r.op = "read" <=> r.id = 0)
               /\ r.op = "write" => r.value \in 0 .. ids

(* An answer says what was done: not issued, not done; a write that is ok  *)
(* is the value the target has.                                            *)
Truthful(a) ==
  /\ a \in Reply /\ a.id = claim.id /\ a.read <= ids
  /\ ~a.issued => a.id \notin effects
  /\ a.ok /\ claim.op = "write" => value = claim.value

FilesInv ==
  /\ request # None =>
       claim = None /\ response = None /\ Sensible(request) /\ request.id \notin effects
  /\ claim # None => Sensible(claim)
  /\ response # None =>
       claim # None /\ helper.at \in {"polls", "gone"} /\ Truthful(response)
  /\ helper.at \in {"works", "answers"} => claim # None /\ response = None
  /\ helper.at = "works" => claim.id \notin effects
  /\ helper.at = "answers" => Truthful(helper.answer)

(* Nothing is left that could still carry the effect out.                  *)
Quiet(i) == /\ i \notin effects
            /\ request # None => request.id # i
            /\ claim # None => claim.id # i
DeniedInv == \A i \in denied : Quiet(i)

(* No write is on its way to the target.                                   *)
NoWrite == /\ request # None => request.op # "write"
           /\ helper.at = "works" => claim.op # "write"
PromiseInv == promise # None => value = promise /\ NoWrite

(* The journal, with what is yet to be requested.                          *)
JournalInv ==
  /\ EffectsRecordedOnce
  /\ \A i \in Ids : i > ids => events[i] = 0
  /\ settled => call.at = "idle" /\ helper.at = "gone"

-----------------------------------------------------------------------------
(* The call: which steps an operation has, and what it has in hand.        *)
CallInv == call.at # "idle" =>
  /\ call.op \in Ops /\ call.step \in Steps
  /\ call.old # None => call.old <= ids
  /\ call.step = "recover" => call.mine = {}
  /\ call.step \in {"old", "write", "verify", "restore", "readback"} => call.op = "write"
  /\ call.step \in {"restore", "readback"} => call.old # None
  /\ call.step = "resume" =>
       /\ call.op = "resume" /\ call.mine \subseteq {ids}
       /\ call.at \in {"look", "publish"} => call.mine = {}
  /\ call.op = "read" <=> call.step = "read"
  /\ call.restore => call.op = "write"
  /\ call.op = "settle" => call.step = "recover" /\ helper.at = "gone"
  /\ call.at \in {"record", "forget"} =>
       call.step = "recover" /\ request = None /\ claim = None
  /\ call.at = "forget" /\ Oldest \in receipts => events[Oldest] = 1
  /\ call.at = "acknowledge" => \A i \in call.answered : events[i] = 1
  /\ call.at # "acknowledge" => \A i \in call.mine : events[i] = 0
  /\ call.late => \/ call.at \notin {"look", "publish", "wait", "answered"}
                  \/ call.at = "look" /\ claim # None /\ response # None

Awaited == IF call.step \in Change THEN ids ELSE 0
Wanted == IF call.step = "restore" THEN call.old ELSE call.holds
Own(r) ==
  /\ r.id = Awaited
  /\ call.step \in {"write", "restore"} => r.op = "write" /\ r.value = Wanted
  /\ call.step \notin {"write", "restore"} => r.op # "write"

(* What the call waits for is its own; what it was answered is true of it. *)
ExchangeInv ==
  /\ call.at = "wait" =>
       (request # None /\ Own(request)) \/ (claim # None /\ Own(claim))
  /\ call.at \in {"bank", "drop", "unclaim"} =>
       claim # None /\ helper.at \in {"polls", "gone"}
  /\ call.at \in {"bank", "drop"} => response # None
  /\ call.at = "unclaim" => response = None
  /\ call.at \in {"drop", "unclaim"} /\ Changes(claim) => claim.id \in receipts
  /\ call.at = "answered" => request = None /\ claim = None
  /\ call.at \in {"wait", "bank", "drop", "unclaim", "answered"} /\ ~call.late
       /\ call.step \in Change => ids \in call.mine
  /\ call.at \in {"bank", "drop", "unclaim", "answered"} /\ ~call.late =>
       /\ call.reply \in Reply /\ call.reply.id = Awaited /\ call.reply.read <= ids
       /\ call.step \in Change /\ ~call.reply.issued => ids \notin effects
       /\ call.step \in {"write", "restore"} /\ call.reply.ok => value = Wanted /\ NoWrite
  /\ call.at \in {"bank", "drop", "unclaim"} /\ ~call.late => claim.id = call.reply.id

(* Of a call that reports nothing issued, nothing was or will be.          *)
Pending(i) == /\ i = ids /\ call.step \in Change /\ ~call.late
              /\ call.at \in {"wait", "bank", "drop", "unclaim", "answered"}
UnissuedInv ==
  call.at # "idle" /\ ~call.issued /\ ~call.unknown => \A i \in call.mine : Pending(i) \/ Quiet(i)

(* A write that goes well leaves the target with what it will report.      *)
WrittenInv ==
  call.at # "idle" /\ call.op = "write" /\ ~call.failed =>
    /\ call.step = "verify" => value = call.holds /\ NoWrite
    /\ call.step = "readback" => value = call.old /\ NoWrite
    /\ call.at \in {"event", "acknowledge"} => value = call.holds /\ NoWrite

IInv == /\ Typed /\ FilesInv /\ DeniedInv /\ PromiseInv /\ JournalInv
        /\ CallInv /\ ExchangeInv /\ UnissuedInv /\ WrittenInv
-----------------------------------------------------------------------------
(* The records the steps build: what a field becomes, and that the others  *)
(* stay.                                                                   *)
Fields == {"op", "at", "step", "restore", "old", "reply", "mine", "answered", "issued",
           "unknown", "failed", "late", "holds"}
Agree(c, d, F) == \A f \in Fields \ F : d[f] = c[f]

LEMMA SetOp ==
  ASSUME NEW c \in Calls, NEW x \in Ops, NEW d, d = [c EXCEPT !.op = x]
  PROVE  d \in Calls /\ Agree(c, d, {"op"}) /\ d.op = x
BY SMT DEF Agree, Fields, Calls

LEMMA SetRestore ==
  ASSUME NEW c \in Calls, NEW x \in BOOLEAN, NEW d, d = [c EXCEPT !.restore = x]
  PROVE  d \in Calls /\ Agree(c, d, {"restore"}) /\ d.restore = x
BY SMT DEF Agree, Fields, Calls

LEMMA SetAt ==
  ASSUME NEW c \in Calls, NEW x \in Places, NEW d, d = [c EXCEPT !.at = x]
  PROVE  d \in Calls /\ Agree(c, d, {"at"}) /\ d.at = x
BY SMT DEF Agree, Fields, Calls

LEMMA SetStep ==
  ASSUME NEW c \in Calls, NEW x \in Steps, NEW d, d = [c EXCEPT !.step = x]
  PROVE  d \in Calls /\ Agree(c, d, {"step"}) /\ d.step = x
BY SMT DEF Agree, Fields, Calls

LEMMA SetReply ==
  ASSUME NEW c \in Calls, NEW x \in Reply \cup {None}, NEW d, d = [c EXCEPT !.reply = x]
  PROVE  d \in Calls /\ Agree(c, d, {"reply"}) /\ d.reply = x
BY SMT DEF Agree, Fields, Calls

LEMMA SetLate ==
  ASSUME NEW c \in Calls, NEW x \in BOOLEAN, NEW d, d = [c EXCEPT !.late = x]
  PROVE  d \in Calls /\ Agree(c, d, {"late"}) /\ d.late = x
BY SMT DEF Agree, Fields, Calls

LEMMA SetFailed ==
  ASSUME NEW c \in Calls, NEW x \in BOOLEAN, NEW d, d = [c EXCEPT !.failed = x]
  PROVE  d \in Calls /\ Agree(c, d, {"failed"}) /\ d.failed = x
BY SMT DEF Agree, Fields, Calls

LEMMA SetIssued ==
  ASSUME NEW c \in Calls, NEW x \in BOOLEAN, NEW d, d = [c EXCEPT !.issued = x]
  PROVE  d \in Calls /\ Agree(c, d, {"issued"}) /\ d.issued = x
BY SMT DEF Agree, Fields, Calls

LEMMA SetUnknown ==
  ASSUME NEW c \in Calls, NEW x \in BOOLEAN, NEW d, d = [c EXCEPT !.unknown = x]
  PROVE  d \in Calls /\ Agree(c, d, {"unknown"}) /\ d.unknown = x
BY SMT DEF Agree, Fields, Calls

LEMMA SetMine ==
  ASSUME NEW c \in Calls, NEW x \in SUBSET Nat, NEW d, d = [c EXCEPT !.mine = x]
  PROVE  d \in Calls /\ Agree(c, d, {"mine"}) /\ d.mine = x
BY SMT DEF Agree, Fields, Calls

LEMMA SetAnswered ==
  ASSUME NEW c \in Calls, NEW x \in SUBSET Nat, NEW d, d = [c EXCEPT !.answered = x]
  PROVE  d \in Calls /\ Agree(c, d, {"answered"}) /\ d.answered = x
BY SMT DEF Agree, Fields, Calls

LEMMA SetHolds ==
  ASSUME NEW c \in Calls, NEW x \in Nat \cup {None}, NEW d, d = [c EXCEPT !.holds = x]
  PROVE  d \in Calls /\ Agree(c, d, {"holds"}) /\ d.holds = x
BY SMT DEF Agree, Fields, Calls

LEMMA SetOld ==
  ASSUME NEW c \in Calls, NEW x \in Nat \cup {None}, NEW d, d = [c EXCEPT !.old = x]
  PROVE  d \in Calls /\ Agree(c, d, {"old"}) /\ d.old = x
BY SMT DEF Agree, Fields, Calls

(* The fields that matter of records that agree.                           *)
Data(c, d) == /\ d.op = c.op /\ d.restore = c.restore /\ d.old = c.old /\ d.mine = c.mine
              /\ d.answered = c.answered /\ d.holds = c.holds
Outcome(c, d) == d.issued = c.issued /\ d.unknown = c.unknown /\ d.failed = c.failed

LEMMA TryEffect ==
  ASSUME NEW c \in Calls, NEW step \in Steps, Try(c, step)
  PROVE  /\ call' \in Calls /\ Data(c, call') /\ Outcome(c, call') /\ call'.late = c.late
         /\ call'.at = "look" /\ call'.step = step
<1>1. PICK a : a = [c EXCEPT !.step = step]
  OBVIOUS
<1>2. PICK b : b = [a EXCEPT !.at = "look"]
  OBVIOUS
<1>3. call' = [b EXCEPT !.reply = None]
  BY <1>1, <1>2, Zenon DEF Try
<1>4. a \in Calls /\ Agree(c, a, {"step"}) /\ a.step = step
  BY <1>1, SetStep
<1>5. b \in Calls /\ Agree(a, b, {"at"}) /\ b.at = "look"
  BY <1>2, <1>4, SetAt DEF Places
<1>6. call' \in Calls /\ Agree(b, call', {"reply"})
  BY <1>3, <1>5, SetReply
<1>. QED
  BY <1>4, <1>5, <1>6 DEF Agree, Fields, Data, Outcome

LEMMA GotoEffect ==
  ASSUME NEW at \in Places, call \in Calls, Goto(at)
  PROVE  /\ call' \in Calls /\ Data(call, call') /\ Outcome(call, call')
         /\ call'.late = call.late /\ call'.at = at /\ call'.step = call.step
         /\ call'.reply = call.reply
BY SetAt DEF Goto, Agree, Fields, Data, Outcome

(* Whoever gives up waiting says that its request may have been issued.    *)
LEMMA UncertainFields ==
  ASSUME NEW c \in Calls, NEW d, d = [c EXCEPT !.issued = TRUE, !.unknown = TRUE]
  PROVE  d \in Calls /\ Agree(c, d, {"issued", "unknown"}) /\ d.issued
<1>1. PICK yes \in BOOLEAN : yes = TRUE
  OBVIOUS
<1>2. PICK a : a = [c EXCEPT !.issued = yes]
  OBVIOUS
<1>3. d = [a EXCEPT !.unknown = yes]
  BY <1>1, <1>2, Zenon
<1>4. a \in Calls /\ Agree(c, a, {"issued"}) /\ a.issued = yes
  BY <1>2, SetIssued
<1>5. d \in Calls /\ Agree(a, d, {"unknown"}) /\ d.unknown = yes
  BY <1>3, <1>4, SetUnknown
<1>. QED
  BY <1>1, <1>4, <1>5 DEF Agree, Fields

LEMMA NoCallTyped ==
  /\ NoCall \in Calls /\ NoCall.at = "idle" /\ NoCall.mine = {} /\ NoCall.answered = {}
  /\ NoCall.old = None /\ ~NoCall.late /\ ~NoCall.restore
BY DEF NoCall, Calls, Places

(* A step that fails: the call is over, or goes on to its restoration or   *)
(* its event, as one that failed.                                          *)
LEMMA FailsEffect ==
  ASSUME NEW c \in Calls, c.step \in Steps, Fails(c)
  PROVE  \/ /\ call' = NoCall /\ promise' = promise
            /\ denied' = IF c.issued \/ c.unknown THEN denied ELSE denied \cup c.mine
         \/ /\ UNCHANGED said /\ call' \in Calls /\ Data(c, call')
            /\ call'.issued = c.issued /\ call'.unknown = c.unknown /\ call'.failed
            /\ call'.late = c.late /\ c.step \notin {"recover", "read"}
            /\ \/ /\ call'.at = "look" /\ call'.step = "restore"
                  /\ c.step \in {"write", "verify"} /\ c.old # None
               \/ call'.at = "event" /\ call'.step = c.step
<1>1. PICK lost : lost = [c EXCEPT !.failed = TRUE]
  OBVIOUS
<1>2. PICK yes \in BOOLEAN : yes = TRUE
  OBVIOUS
<1>3. lost \in Calls /\ Agree(c, lost, {"failed"}) /\ lost.failed
  BY <1>1, <1>2, SetFailed
<1>4. /\ Data(c, lost) /\ lost.issued = c.issued /\ lost.unknown = c.unknown
      /\ lost.late = c.late /\ lost.step = c.step
  BY <1>3 DEF Agree, Fields, Data
<1>5. CASE c.step \in {"recover", "read"}
  <2>1. Report(lost)
    BY <1>1, <1>5, Zenon DEF Fails
  <2>. QED
    BY <1>3, <1>4, <2>1 DEF Report, Data
<1>6. CASE c.step \in {"write", "verify"} /\ c.old # None /\ c.issued
  <2>1. c.step \notin {"recover", "read"}
    BY <1>6
  <2>2. Try(lost, "restore") /\ UNCHANGED said
    BY <1>1, <1>6, <2>1 DEF Fails
  <2>. QED
    BY <1>3, <1>4, <1>6, <2>1, <2>2, TryEffect DEF Data, Outcome, Steps
<1>7. CASE /\ c.step \notin {"recover", "read"}
           /\ ~(c.step \in {"write", "verify"} /\ c.old # None /\ c.issued)
  <2>1. call' = [lost EXCEPT !.at = "event"] /\ UNCHANGED said
    BY <1>1, <1>7 DEF Fails
  <2>2. call' \in Calls /\ Agree(lost, call', {"at"}) /\ call'.at = "event"
    BY <1>3, <2>1, SetAt DEF Places
  <2>. QED
    BY <1>3, <1>4, <1>7, <2>1, <2>2 DEF Agree, Fields, Data
<1>. QED
  BY <1>5, <1>6, <1>7

-----------------------------------------------------------------------------
(* What of the invariant is about the files, the target and the journal,   *)
(* and what about the call.                                                *)
WorldInv == FilesInv /\ DeniedInv /\ PromiseInv /\ JournalInv
HandInv == CallInv /\ ExchangeInv /\ UnissuedInv /\ WrittenInv

LEMMA NoneIsNoData ==
  /\ None \notin Request /\ None \notin Reply /\ None \notin Nat
  /\ MaxEffects \in Nat \ {0} /\ MaxFaults \in Nat
BY CaptureMemoryConstantsOK

LEMMA InitIInv == Init => IInv
<1>. SUFFICES ASSUME Init PROVE IInv
  OBVIOUS
<1>. USE NoneIsNoData
<1>1. Typed
  <2>1. /\ request = None /\ claim = None /\ response = None /\ promise = None
        /\ receipts = {} /\ effects = {} /\ denied = {} /\ value = 0 /\ ids = 0
        /\ faults = 0
    BY DEF Init
  <2>2. helper \in Helpers
    BY DEF Init, Helpers, Polls
  <2>3. call \in Calls /\ call.mine = {} /\ call.answered = {}
    BY NoCallTyped DEF Init
  <2>4. events \in [Ids -> {0, 1}]
    BY DEF Init
  <2>5. settled \in BOOLEAN
    BY DEF Init
  <2>6. /\ ids \in 0 .. MaxEffects /\ value \in 0 .. ids /\ faults \in 0 .. MaxFaults
        /\ promise \in 0 .. ids \cup {None}
    BY <2>1
  <2>. QED
    BY <2>1, <2>2, <2>3, <2>4, <2>5, <2>6 DEF Typed
<1>2. WorldInv
  BY NoCallTyped DEF Init, WorldInv, FilesInv, DeniedInv, PromiseInv, JournalInv,
                     EffectsRecordedOnce, Polls, Ids
<1>3. HandInv
  BY NoCallTyped DEF Init, HandInv, CallInv, ExchangeInv, UnissuedInv, WrittenInv
<1>. QED
  BY <1>1, <1>2, <1>3 DEF IInv, WorldInv, HandInv

(* A call that is over has nothing in hand.                                *)
LEMMA NothingInHand ==
  ASSUME call' = NoCall
  PROVE  HandInv' /\ call' \in Calls /\ call'.mine = {} /\ call'.answered = {}
BY NoCallTyped DEF HandInv, CallInv, ExchangeInv, UnissuedInv, WrittenInv

(* Steps of the call that leave the files and the target alone, and tell   *)
(* nobody anything.                                                        *)
LEMMA WorldKept ==
  ASSUME Typed, WorldInv, ~settled,
         UNCHANGED <<files, journal, World, ids, settled, said>>,
         call' \in Calls, call'.mine \subseteq 1 .. ids, call'.answered \subseteq call'.mine,
         faults' \in 0 .. MaxFaults
  PROVE  Typed' /\ WorldInv'
<1>1. Typed'
  BY DEF Typed, files, journal, World, target, said
<1>2. FilesInv'
  BY DEF WorldInv, FilesInv, Sensible, Truthful, files, World, target
<1>3. DeniedInv' /\ PromiseInv'
  BY DEF WorldInv, DeniedInv, Quiet, PromiseInv, NoWrite, files, World, target, said
<1>4. JournalInv'
  BY DEF WorldInv, JournalInv, EffectsRecordedOnce, files, journal, World, target
<1>. QED
  BY <1>1, <1>2, <1>3, <1>4 DEF WorldInv

-----------------------------------------------------------------------------
(* A call that fails keeps the invariant if what it holds to be unissued   *)
(* really is left behind.                                                  *)
LEMMA FailsHand ==
  ASSUME Typed, CallInv, NEW c \in Calls, Fails(c),
         UNCHANGED <<ids, events, helper>>, value' = value,
         call.at \notin {"idle", "event", "acknowledge"},
         c.op = call.op, c.step = call.step, c.restore = call.restore, c.old = call.old,
         c.mine = call.mine, c.answered \subseteq c.mine,
         c.issued \/ c.unknown \/ \A i \in c.mine : Quiet(i)',
         c.late /\ c.step # "recover" => claim' # None /\ response' # None
  PROVE  /\ HandInv' /\ call' \in Calls
         /\ call'.mine \subseteq 1 .. ids /\ call'.answered \subseteq call'.mine
         /\ promise' = promise /\ denied' \subseteq denied \cup call.mine
         /\ \A i \in denied' : i \in denied \/ Quiet(i)'
<1>1. c.step \in Steps
  BY DEF CallInv
<1>2. CASE /\ call' = NoCall /\ promise' = promise
           /\ denied' = IF c.issued \/ c.unknown THEN denied ELSE denied \cup c.mine
  BY <1>2, NothingInHand
<1>3. CASE /\ UNCHANGED said /\ call' \in Calls /\ Data(c, call')
           /\ call'.issued = c.issued /\ call'.unknown = c.unknown /\ call'.failed
           /\ call'.late = c.late /\ c.step \notin {"recover", "read"}
           /\ \/ /\ call'.at = "look" /\ call'.step = "restore"
                 /\ c.step \in {"write", "verify"} /\ c.old # None
              \/ call'.at = "event" /\ call'.step = c.step
  <2>1. CallInv'
    BY <1>1, <1>3 DEF CallInv, Typed, Data, Steps
  <2>2. ExchangeInv'
    BY <1>3 DEF ExchangeInv
  <2>3. UnissuedInv'
    BY <1>3 DEF UnissuedInv, Data
  <2>4. WrittenInv'
    BY <1>3 DEF WrittenInv
  <2>. QED
    BY <1>3, <2>1, <2>2, <2>3, <2>4 DEF HandInv, Data, said, Typed
<1>. QED
  BY <1>1, <1>2, <1>3, FailsEffect

(* The same, of a step that leaves the files and the target alone.         *)
LEMMA FailsKeeps ==
  ASSUME IInv, NEW c \in Calls, Fails(c),
         UNCHANGED <<files, journal, World, ids, settled>>, faults' \in 0 .. MaxFaults,
         call.at \notin {"idle", "event", "acknowledge"},
         c.op = call.op, c.step = call.step, c.restore = call.restore, c.old = call.old,
         c.mine = call.mine, c.answered \subseteq c.mine,
         c.issued \/ c.unknown \/ \A i \in c.mine : Quiet(i),
         c.late /\ c.step # "recover" => claim # None /\ response # None
  PROVE  IInv'
<1>1. UNCHANGED <<request, claim, response, receipts, events, effects, value, helper, ids, settled>>
  BY DEF files, journal, World, target
<1>2. \A i : Quiet(i)' <=> Quiet(i)
  BY <1>1 DEF Quiet
<1>3. /\ HandInv' /\ call' \in Calls
      /\ call'.mine \subseteq 1 .. ids /\ call'.answered \subseteq call'.mine
      /\ promise' = promise /\ denied' \subseteq denied \cup call.mine
      /\ \A i \in denied' : i \in denied \/ Quiet(i)'
  BY <1>1, <1>2, FailsHand DEF IInv
<1>4. Typed'
  BY <1>1, <1>3 DEF IInv, Typed
<1>5. FilesInv'
  BY <1>1 DEF IInv, FilesInv, Sensible, Truthful
<1>6. DeniedInv' /\ PromiseInv'
  BY <1>1, <1>2, <1>3 DEF IInv, DeniedInv, PromiseInv, NoWrite
<1>7. JournalInv'
  BY <1>1 DEF IInv, JournalInv, EffectsRecordedOnce
<1>. QED
  BY <1>3, <1>4, <1>5, <1>6, <1>7 DEF IInv, HandInv

-----------------------------------------------------------------------------
(* The helper.                                                             *)
LEMMA HelperClaimsKeeps == IInv /\ HelperClaims => IInv'
<1>. SUFFICES ASSUME IInv, HelperClaims PROVE IInv'
  OBVIOUS
<1>. USE NoneIsNoData
<1>1. /\ helper.at = "polls" /\ claim = None /\ response = None /\ request # None
      /\ claim' = request /\ request' = None /\ helper' = [at |-> "works", answer |-> None]
      /\ UNCHANGED <<response, receipts, events, effects, value, call, ids, settled, denied,
                     promise, faults>>
  BY DEF HelperClaims, journal, target, said
<1>2. Typed'
  BY <1>1 DEF IInv, Typed, Helpers
<1>3. FilesInv'
  BY <1>1 DEF IInv, FilesInv, Sensible, Truthful
<1>4. \A i : Quiet(i)' <=> Quiet(i)
  BY <1>1 DEF Quiet
<1>5. NoWrite' <=> NoWrite
  BY <1>1 DEF NoWrite
<1>6. DeniedInv' /\ PromiseInv'
  BY <1>1, <1>4, <1>5 DEF IInv, DeniedInv, PromiseInv
<1>7. JournalInv'
  BY <1>1 DEF IInv, JournalInv, EffectsRecordedOnce
<1>8. CallInv'
  BY <1>1 DEF IInv, CallInv, Oldest
<1>9. ExchangeInv'
  BY <1>1, <1>5 DEF IInv, ExchangeInv, Own, Awaited, Wanted, Changes
<1>10. UnissuedInv' /\ WrittenInv'
  BY <1>1, <1>4, <1>5 DEF IInv, UnissuedInv, Pending, WrittenInv
<1>. QED
  BY <1>2, <1>3, <1>6, <1>7, <1>8, <1>9, <1>10 DEF IInv

LEMMA HelperWorksKeeps == IInv /\ HelperWorks => IInv'
<1>. SUFFICES ASSUME IInv, HelperWorks PROVE IInv'
  OBVIOUS
<1>. USE NoneIsNoData
<1>1. PICK o \in Outcomes(claim) :
        /\ effects' = IF o.done THEN effects \cup {claim.id} ELSE effects
        /\ value' = IF o.done /\ claim.op = "write" THEN claim.value ELSE value
        /\ helper' = [at |-> "answers",
                      answer |-> [id |-> claim.id, ok |-> o.ok, issued |-> o.issued,
                                  unknown |-> o.unknown, read |-> value]]
  BY DEF HelperWorks
<1>2. /\ helper.at = "works"
      /\ UNCHANGED <<request, claim, response, receipts, events, call, ids, settled, denied,
                     promise, faults>>
  BY DEF HelperWorks, files, journal, said
<1>3. /\ claim # None /\ claim \in Request /\ Sensible(claim) /\ request = None
      /\ response = None /\ claim.id \notin effects
  BY <1>2 DEF IInv, Typed, FilesInv
<1>4. /\ o.done => o.issued /\ Changes(claim)
      /\ o.ok \in BOOLEAN /\ o.issued \in BOOLEAN /\ o.unknown \in BOOLEAN
      /\ o.ok /\ claim.op = "write" => o.done
  BY DEF Outcomes
<1>5. /\ claim.id \in 0 .. ids /\ (Changes(claim) => claim.id \in 1 .. ids)
      /\ value \in 0 .. ids /\ ids \in Nat
  BY <1>3 DEF Sensible, Changes, IInv, Typed
<1>6. /\ helper'.at = "answers" /\ helper'.answer \in Reply
      /\ helper'.answer.id = claim.id /\ helper'.answer.read = value
      /\ (helper'.answer.ok <=> o.ok) /\ (helper'.answer.issued <=> o.issued)
  BY <1>1, <1>4, <1>5 DEF Reply
<1>7. Typed'
  <2>1. value' \in 0 .. ids /\ effects' \subseteq 1 .. ids
    BY <1>1, <1>3, <1>4, <1>5 DEF Sensible, IInv, Typed
  <2>2. helper' \in Helpers
    BY <1>1, <1>6 DEF Helpers
  <2>. QED
    BY <1>2, <2>1, <2>2 DEF IInv, Typed
<1>8. FilesInv'
  <2>1. Truthful(helper.answer)'
    BY <1>1, <1>2, <1>3, <1>4, <1>5, <1>6 DEF Truthful
  <2>. QED
    BY <1>2, <1>3, <1>6, <2>1 DEF FilesInv, Sensible
<1>9. \A i : i # claim.id => (Quiet(i)' <=> Quiet(i))
  BY <1>1, <1>2, <1>3 DEF Quiet
<1>10. NoWrite => NoWrite' /\ value' = value
  BY <1>1, <1>2, <1>3, <1>6 DEF NoWrite
<1>11. DeniedInv' /\ PromiseInv'
  BY <1>2, <1>3, <1>9, <1>10 DEF IInv, DeniedInv, PromiseInv, Quiet
<1>12. JournalInv'
  BY <1>1, <1>2, <1>3 DEF IInv, JournalInv, EffectsRecordedOnce
<1>13. CallInv'
  BY <1>1, <1>2 DEF IInv, CallInv, Oldest
<1>14. ExchangeInv'
  BY <1>2, <1>3 DEF IInv, ExchangeInv, Own, Awaited, Wanted, Changes
<1>15. UnissuedInv'
  <2>1. SUFFICES ASSUME call.at # "idle", ~call.issued, ~call.unknown, NEW i \in call.mine,
                        ~Pending(i)
                 PROVE  Quiet(i)'
    BY <1>2 DEF UnissuedInv, Pending
  <2>2. Quiet(i)
    BY <2>1 DEF IInv, UnissuedInv
  <2>. QED
    BY <1>3, <1>9, <2>2 DEF Quiet
<1>16. WrittenInv'
  BY <1>2, <1>10 DEF IInv, WrittenInv
<1>. QED
  BY <1>7, <1>8, <1>11, <1>12, <1>13, <1>14, <1>15, <1>16 DEF IInv

LEMMA HelperAnswersKeeps == IInv /\ HelperAnswers => IInv'
<1>. SUFFICES ASSUME IInv, HelperAnswers PROVE IInv'
  OBVIOUS
<1>. USE NoneIsNoData
<1>1. /\ helper.at = "answers" /\ response' = helper.answer
      /\ helper' = [at |-> "polls", answer |-> None]
      /\ UNCHANGED <<request, claim, receipts, events, effects, value, call, ids, settled,
                     denied, promise, faults>>
  BY DEF HelperAnswers, journal, target, said, Polls
<1>2. claim # None /\ response = None /\ request = None /\ Truthful(response)'
  BY <1>1 DEF IInv, FilesInv, Truthful
<1>3. response' # None /\ response' \in Reply
  BY <1>2 DEF Truthful
<1>4. Typed'
  BY <1>1, <1>3 DEF IInv, Typed, Helpers
<1>5. FilesInv'
  BY <1>1, <1>2, <1>3 DEF IInv, FilesInv, Sensible
<1>6. \A i : Quiet(i)' <=> Quiet(i)
  BY <1>1 DEF Quiet
<1>7. NoWrite' <=> NoWrite
  BY <1>1 DEF NoWrite
<1>8. DeniedInv' /\ PromiseInv'
  BY <1>1, <1>6, <1>7 DEF IInv, DeniedInv, PromiseInv
<1>9. JournalInv'
  BY <1>1 DEF IInv, JournalInv, EffectsRecordedOnce
<1>10. CallInv'
  BY <1>1, <1>3 DEF IInv, CallInv, Oldest
<1>11. ExchangeInv'
  BY <1>1, <1>3, <1>7 DEF IInv, ExchangeInv, Own, Awaited, Wanted, Changes
<1>12. UnissuedInv' /\ WrittenInv'
  BY <1>1, <1>6, <1>7 DEF IInv, UnissuedInv, Pending, WrittenInv
<1>. QED
  BY <1>4, <1>5, <1>8, <1>9, <1>10, <1>11, <1>12 DEF IInv

LEMMA HelperLeavesKeeps == IInv /\ (HelperEnds \/ HelperDies) => IInv'
<1>. SUFFICES ASSUME IInv, HelperEnds \/ HelperDies PROVE IInv'
  OBVIOUS
<1>. USE NoneIsNoData
<1>1. /\ helper' = [at |-> "gone", answer |-> None]
      /\ UNCHANGED <<request, claim, response, receipts, events, effects, value, call, ids,
                     settled, denied, promise>>
      /\ faults' \in 0 .. MaxFaults
  BY DEF HelperEnds, HelperDies, Gone, Fault, files, journal, target, said, IInv, Typed
<1>2. Typed'
  BY <1>1 DEF IInv, Typed, Helpers
<1>3. FilesInv'
  BY <1>1 DEF IInv, FilesInv, Sensible, Truthful
<1>4. \A i : Quiet(i)' <=> Quiet(i)
  BY <1>1 DEF Quiet
<1>5. NoWrite => NoWrite'
  BY <1>1 DEF NoWrite
<1>6. DeniedInv' /\ PromiseInv'
  BY <1>1, <1>4, <1>5 DEF IInv, DeniedInv, PromiseInv
<1>7. JournalInv'
  BY <1>1 DEF IInv, JournalInv, EffectsRecordedOnce
<1>8. CallInv'
  BY <1>1 DEF IInv, CallInv, Oldest
<1>9. ExchangeInv'
  BY <1>1, <1>5 DEF IInv, ExchangeInv, Own, Awaited, Wanted, Changes
<1>10. UnissuedInv' /\ WrittenInv'
  BY <1>1, <1>4, <1>5 DEF IInv, UnissuedInv, Pending, WrittenInv
<1>. QED
  BY <1>2, <1>3, <1>6, <1>7, <1>8, <1>9, <1>10 DEF IInv

-----------------------------------------------------------------------------
(* The call, before its request is out.                                    *)
LEMMA BeginKeeps == IInv /\ Begin => IInv'
<1>. SUFFICES ASSUME IInv, Begin PROVE IInv'
  OBVIOUS
<1>. USE NoneIsNoData
<1>1. /\ call.at = "idle" /\ ~settled
      /\ UNCHANGED <<files, journal, World, ids, settled, said>> /\ UNCHANGED faults
  BY DEF Begin, At
<1>2. PICK op \in Ops, restore \in BOOLEAN :
        /\ op = "settle" <=> ~HelperRuns
        /\ restore => op = "write"
        /\ IF op = "read" THEN Try([NoCall EXCEPT !.op = op], op)
           ELSE call' = [NoCall EXCEPT !.op = op, !.restore = restore, !.step = "recover",
                                       !.at = "look"]
  BY DEF Begin, Ops
<1>3. /\ call' \in Calls /\ call'.op = op /\ call'.at = "look" /\ call'.mine = {}
      /\ call'.answered = {} /\ call'.old = None /\ ~call'.late
      /\ call'.step = (IF op = "read" THEN "read" ELSE "recover")
      /\ (call'.restore => op = "write")
  <2>1. PICK a : a = [NoCall EXCEPT !.op = op]
    OBVIOUS
  <2>2. a \in Calls /\ Agree(NoCall, a, {"op"}) /\ a.op = op
    BY <2>1, SetOp, NoCallTyped
  <2>3. CASE op = "read"
    <3>1. Try(a, op)
      BY <1>2, <2>1, <2>3, Zenon
    <3>. QED
      BY <2>2, <2>3, <3>1, TryEffect, NoCallTyped DEF Steps, Agree, Fields, Data
  <2>4. CASE op # "read"
    <3>1. PICK b : b = [a EXCEPT !.restore = restore]
      OBVIOUS
    <3>2. PICK c : c = [b EXCEPT !.step = "recover"]
      OBVIOUS
    <3>3. call' = [c EXCEPT !.at = "look"]
      BY <1>2, <2>1, <2>4, <3>1, <3>2, Zenon
    <3>4. b \in Calls /\ Agree(a, b, {"restore"}) /\ b.restore = restore
      BY <2>2, <3>1, SetRestore
    <3>5. c \in Calls /\ Agree(b, c, {"step"}) /\ c.step = "recover"
      BY <3>2, <3>4, SetStep DEF Steps
    <3>6. call' \in Calls /\ Agree(c, call', {"at"}) /\ call'.at = "look"
      BY <3>3, <3>5, SetAt DEF Places
    <3>. QED
      BY <1>2, <2>2, <2>4, <3>4, <3>5, <3>6, NoCallTyped DEF Agree, Fields
  <2>. QED
    BY <2>3, <2>4
<1>4. Typed' /\ WorldInv'
  BY <1>1, <1>3, WorldKept DEF IInv, Typed, WorldInv
<1>5. CallInv'
  BY <1>1, <1>2, <1>3 DEF CallInv, Steps, HelperRuns, World
<1>6. ExchangeInv' /\ UnissuedInv' /\ WrittenInv'
  BY <1>3 DEF ExchangeInv, UnissuedInv, WrittenInv
<1>. QED
  BY <1>4, <1>5, <1>6 DEF IInv, WorldInv

(* Whoever is not waiting has left no effect of its own behind, unless it  *)
(* says it may have been issued.                                           *)
LEMMA NotPending ==
  ASSUME IInv, call.at \in {"look", "publish", "event", "acknowledge", "record", "forget"}
  PROVE  call.issued \/ call.unknown \/ \A i \in call.mine : Quiet(i)
BY DEF IInv, UnissuedInv, Pending

LEMMA LookFailsKeeps ==
  IInv /\ (Unresolved \/ HelperLost \/ PublishRefused \/ RecordFails) => IInv'
<1>. SUFFICES ASSUME IInv, Unresolved \/ HelperLost \/ PublishRefused \/ RecordFails
              PROVE  IInv'
  OBVIOUS
<1>1. /\ Fails(call) /\ UNCHANGED <<files, journal, World, ids, settled>>
      /\ call.at \in {"look", "publish", "record"} /\ (Fault \/ UNCHANGED faults)
  BY DEF Unresolved, HelperLost, PublishRefused, RecordFails, At
<1>2. faults' \in 0 .. MaxFaults
  BY <1>1, NoneIsNoData DEF Fault, IInv, Typed
<1>3. call \in Calls /\ call.answered \subseteq call.mine
  BY DEF IInv, Typed
<1>4. call.late /\ call.step # "recover" => claim # None /\ response # None
  BY <1>1 DEF IInv, CallInv
<1>. QED
  BY <1>1, <1>2, <1>3, <1>4, NotPending, FailsKeeps

LEMMA NothingLeftKeeps == IInv /\ NothingLeft => IInv'
<1>. SUFFICES ASSUME IInv, NothingLeft PROVE IInv'
  OBVIOUS
<1>1. /\ call.at = "look" /\ claim = None /\ response = None /\ request = None
      /\ Goto(IF call.step = "recover" THEN "record" ELSE "publish")
      /\ UNCHANGED <<files, journal, World, ids, settled, said>> /\ UNCHANGED faults
  BY DEF NothingLeft, At
<1>2. /\ call' \in Calls /\ Data(call, call') /\ Outcome(call, call')
      /\ call'.late = call.late /\ call'.step = call.step
      /\ call'.at = IF call.step = "recover" THEN "record" ELSE "publish"
  BY <1>1, GotoEffect DEF IInv, Typed, Places
<1>3. Typed' /\ WorldInv'
  BY <1>1, <1>2, WorldKept DEF IInv, Typed, WorldInv, JournalInv, Data
<1>4. CallInv'
  BY <1>1, <1>2 DEF IInv, CallInv, Data, files, journal, World
<1>5. ExchangeInv'
  BY <1>2 DEF ExchangeInv
<1>6. UnissuedInv'
  BY <1>1, <1>2, NotPending DEF UnissuedInv, Data, Outcome, Quiet, files, World, target
<1>7. WrittenInv'
  BY <1>1, <1>2 DEF IInv, WrittenInv, Data, Outcome, NoWrite, files, World, target
<1>. QED
  BY <1>3, <1>4, <1>5, <1>6, <1>7 DEF IInv, WorldInv

LEMMA LateKeeps == IInv /\ Late => IInv'
<1>. SUFFICES ASSUME IInv, Late PROVE IInv'
  OBVIOUS
<1>. USE NoneIsNoData
<1>1. /\ call.at = "look" /\ claim # None /\ response # None
      /\ call' = [call EXCEPT !.late = TRUE, !.at = "bank"]
      /\ UNCHANGED <<files, journal, World, ids, settled, said>> /\ UNCHANGED faults
  BY DEF Late, At
<1>2. /\ call' \in Calls /\ Data(call, call') /\ Outcome(call, call')
      /\ call'.late /\ call'.step = call.step /\ call'.at = "bank"
  <2>1. PICK yes \in BOOLEAN : yes = TRUE
    OBVIOUS
  <2>2. PICK a : a = [call EXCEPT !.late = yes]
    OBVIOUS
  <2>3. call' = [a EXCEPT !.at = "bank"]
    BY <1>1, <2>1, <2>2, Zenon
  <2>4. a \in Calls /\ Agree(call, a, {"late"}) /\ a.late = yes
    BY <2>2, SetLate DEF IInv, Typed
  <2>5. call' \in Calls /\ Agree(a, call', {"at"}) /\ call'.at = "bank"
    BY <2>3, <2>4, SetAt DEF Places
  <2>. QED
    BY <2>1, <2>4, <2>5 DEF Agree, Fields, Data, Outcome
<1>3. Typed' /\ WorldInv'
  BY <1>1, <1>2, WorldKept DEF IInv, Typed, WorldInv, JournalInv, Data
<1>4. CallInv'
  BY <1>1, <1>2 DEF IInv, CallInv, Data, files, journal, World
<1>5. ExchangeInv'
  BY <1>1, <1>2 DEF IInv, FilesInv, ExchangeInv, files, World
<1>6. UnissuedInv'
  BY <1>1, <1>2, NotPending DEF UnissuedInv, Data, Outcome, Quiet, files, World, target
<1>7. WrittenInv'
  BY <1>1, <1>2 DEF IInv, WrittenInv, Data, Outcome, NoWrite, files, World, target
<1>. QED
  BY <1>3, <1>4, <1>5, <1>6, <1>7 DEF IInv, WorldInv

-----------------------------------------------------------------------------
(* requestMemory.                                                          *)
LEMMA PublishReadKeeps == IInv /\ Publish /\ call.step \notin Change => IInv'
<1>. SUFFICES ASSUME IInv, Publish, call.step \notin Change PROVE IInv'
  OBVIOUS
<1>. USE NoneIsNoData
<1>1. /\ call.at = "publish" /\ request = None /\ claim = None /\ response = None
      /\ request' = [id |-> 0, op |-> "read", value |-> None] /\ Goto("wait")
      /\ UNCHANGED <<claim, response, receipts, events, effects, value, helper, ids, promise,
                     settled, denied, faults>>
  BY DEF Publish, At, journal, World, target
<1>2. /\ call' \in Calls /\ Data(call, call') /\ Outcome(call, call')
      /\ call'.late = call.late /\ call'.step = call.step /\ call'.at = "wait"
  BY <1>1, GotoEffect DEF IInv, Typed, Places
<1>3. /\ request' \in Request /\ request' # None /\ request'.id = 0 /\ request'.op = "read"
  BY <1>1 DEF Request
<1>4. Typed'
  BY <1>1, <1>2, <1>3 DEF IInv, Typed, Data
<1>5. helper.at \in {"polls", "gone"}
  BY <1>1 DEF IInv, FilesInv, Typed, Helpers
<1>6. 0 \notin effects /\ ids \in Nat
  BY DEF IInv, Typed
<1>7. FilesInv'
  BY <1>1, <1>3, <1>5, <1>6 DEF FilesInv, Sensible
<1>8. \A i : i # 0 => (Quiet(i)' <=> Quiet(i))
  BY <1>1, <1>3 DEF Quiet
<1>9. NoWrite' /\ NoWrite
  BY <1>1, <1>3, <1>5 DEF NoWrite
<1>10. DeniedInv' /\ PromiseInv'
  <2>1. \A i \in denied : i # 0
    BY <1>6 DEF IInv, Typed
  <2>. QED
    BY <1>1, <1>8, <1>9, <2>1 DEF IInv, DeniedInv, PromiseInv
<1>11. JournalInv'
  BY <1>1 DEF IInv, JournalInv, EffectsRecordedOnce
<1>12. ~call.late /\ call.step \in Steps
  BY <1>1 DEF IInv, CallInv
<1>13. CallInv'
  BY <1>1, <1>2, <1>12 DEF IInv, CallInv, Data, Change
<1>14. ExchangeInv'
  BY <1>2, <1>3 DEF ExchangeInv, Own, Awaited, Change
<1>15. UnissuedInv'
  <2>1. \A i \in call.mine : i # 0
    BY <1>6 DEF IInv, Typed
  <2>. QED
    BY <1>1, <1>2, <1>8, <2>1, NotPending DEF UnissuedInv, Data, Outcome
<1>16. WrittenInv'
  BY <1>1, <1>2, <1>9 DEF IInv, WrittenInv, Data, Outcome
<1>. QED
  BY <1>4, <1>7, <1>10, <1>11, <1>13, <1>14, <1>15, <1>16 DEF IInv

LEMMA PublishChangeKeeps == IInv /\ Publish /\ call.step \in Change => IInv'
<1>. SUFFICES ASSUME IInv, Publish, call.step \in Change PROVE IInv'
  OBVIOUS
<1>. USE NoneIsNoData
<1>1. /\ call.at = "publish" /\ request = None /\ claim = None /\ response = None
      /\ ids < MaxEffects /\ ids' = ids + 1
      /\ request' = [id |-> ids + 1, op |-> IF call.step = "resume" THEN "resume" ELSE "write",
                     value |-> IF call.step = "restore" THEN call.old ELSE ids + 1]
      /\ call' = [call EXCEPT !.at = "wait", !.mine = @ \cup {ids + 1},
                              !.holds = IF call.step = "write" THEN ids + 1 ELSE @]
      /\ promise' = IF call.step = "resume" THEN promise ELSE None
      /\ UNCHANGED <<claim, response, receipts, events, effects, value, helper, settled, denied,
                     faults>>
  BY DEF Publish, At, journal, World, target
<1>2. /\ call \in Calls /\ ids \in Nat /\ ids + 1 \in Nat /\ ids + 1 \in Ids
      /\ call.mine \subseteq 1 .. ids /\ call.answered \subseteq call.mine /\ ~call.late
      /\ call.step \in Steps
  BY <1>1 DEF IInv, Typed, CallInv, Ids
<1>3. /\ call' \in Calls /\ call'.at = "wait" /\ call'.mine = call.mine \cup {ids + 1}
      /\ call'.holds = (IF call.step = "write" THEN ids + 1 ELSE call.holds)
      /\ call'.op = call.op /\ call'.step = call.step /\ call'.restore = call.restore
      /\ call'.old = call.old /\ call'.answered = call.answered /\ Outcome(call, call')
      /\ call'.late = call.late
  <2>1. PICK a : a = [call EXCEPT !.at = "wait"]
    OBVIOUS
  <2>2. a \in Calls /\ Agree(call, a, {"at"}) /\ a.at = "wait"
    BY <1>2, <2>1, SetAt DEF Places
  <2>3. a.mine = call.mine /\ a.holds = call.holds
    BY <2>2 DEF Agree, Fields
  <2>4. PICK mine \in SUBSET Nat : mine = call.mine \cup {ids + 1}
    <3>1. call.mine \cup {ids + 1} \in SUBSET Nat
      BY <1>2
    <3>. QED
      BY <3>1, Zenon
  <2>5. PICK b : b = [a EXCEPT !.mine = mine]
    OBVIOUS
  <2>6. b \in Calls /\ Agree(a, b, {"mine"}) /\ b.mine = mine
    BY <2>2, <2>5, SetMine
  <2>7. PICK holds \in Nat \cup {None} :
          holds = IF call.step = "write" THEN ids + 1 ELSE call.holds
    BY <1>2 DEF Calls
  <2>8. call' = [b EXCEPT !.holds = holds]
    <3>1. call' = [call EXCEPT !.at = "wait", !.mine = mine, !.holds = holds]
      <4>1. call' = [call EXCEPT !.at = "wait", !.mine = call.mine \cup {ids + 1},
                         !.holds = IF call.step = "write" THEN ids + 1 ELSE call.holds]
        BY <1>1, Zenon
      <4>. QED
        BY <2>4, <2>7, <4>1, Zenon
    <3>. QED
      BY <2>1, <2>5, <3>1, Zenon
  <2>9. call' \in Calls /\ Agree(b, call', {"holds"}) /\ call'.holds = holds
    BY <2>6, <2>8, SetHolds
  <2>. QED
    BY <2>2, <2>4, <2>6, <2>7, <2>9 DEF Agree, Fields, Outcome
<1>4. call.step = "restore" => call.old \in 0 .. ids
  BY <1>1, <1>2 DEF IInv, CallInv, Calls
<1>5. /\ request' \in Request /\ request' # None /\ request'.id = ids + 1
      /\ request'.op = (IF call.step = "resume" THEN "resume" ELSE "write")
      /\ request'.value = (IF call.step = "restore" THEN call.old ELSE ids + 1)
  BY <1>1, <1>2, <1>4 DEF Request
<1>6. Typed'
  <2>1. ids' \in 0 .. MaxEffects /\ 0 .. ids \subseteq 0 .. ids' /\ 1 .. ids \subseteq 1 .. ids'
    BY <1>1, <1>2
  <2>2. promise' \in 0 .. ids \cup {None}
    BY <1>1 DEF IInv, Typed
  <2>3. call'.mine \subseteq 1 .. ids' /\ call'.answered \subseteq call'.mine
    BY <1>1, <1>2, <1>3
  <2>. QED
    BY <1>1, <1>3, <1>5, <2>1, <2>2, <2>3 DEF IInv, Typed
<1>7. helper.at \in {"polls", "gone"}
  BY <1>1 DEF IInv, FilesInv, Typed, Helpers
<1>8. effects \subseteq 1 .. ids /\ denied \subseteq 1 .. ids
  BY DEF IInv, Typed
<1>9. FilesInv'
  <2>1. Sensible(request)'
    BY <1>1, <1>2, <1>4, <1>5 DEF Sensible
  <2>2. request'.id \notin effects
    BY <1>2, <1>5, <1>8
  <2>. QED
    BY <1>1, <1>5, <1>7, <2>1, <2>2 DEF FilesInv
<1>10. \A i \in 1 .. ids : Quiet(i)' <=> Quiet(i)
  BY <1>1, <1>2, <1>5 DEF Quiet
<1>11. DeniedInv'
  BY <1>1, <1>8, <1>10 DEF IInv, DeniedInv
<1>12. PromiseInv'
  BY <1>1, <1>5, <1>7 DEF IInv, PromiseInv, NoWrite
<1>13. JournalInv'
  <2>1. EffectsRecordedOnce'
    BY <1>1 DEF IInv, JournalInv, EffectsRecordedOnce
  <2>2. \A i \in Ids : i > ids' => i > ids
    BY <1>1, <1>2 DEF Ids
  <2>. QED
    BY <1>1, <2>1, <2>2 DEF IInv, JournalInv
<1>14. events[ids + 1] = 0
  BY <1>2 DEF IInv, JournalInv
<1>15. CallInv'
  <2>1. call.step = "resume" => call'.mine \subseteq {ids'}
    BY <1>1, <1>2, <1>3 DEF IInv, CallInv
  <2>2. call'.old # None => call'.old <= ids'
    BY <1>1, <1>2, <1>3 DEF IInv, CallInv, Calls
  <2>3. \A i \in call'.mine : events'[i] = 0
    BY <1>1, <1>3, <1>14 DEF IInv, CallInv
  <2>. QED
    BY <1>1, <1>2, <1>3, <2>1, <2>2, <2>3 DEF IInv, CallInv, Change
<1>16. ExchangeInv'
  BY <1>1, <1>2, <1>3, <1>5 DEF ExchangeInv, Own, Awaited, Wanted, Change
<1>17. UnissuedInv'
  <2>1. SUFFICES ASSUME ~call.issued, ~call.unknown, NEW i \in call'.mine
                 PROVE  Pending(i)' \/ Quiet(i)'
    BY <1>3 DEF UnissuedInv, Outcome
  <2>2. CASE i = ids + 1
    BY <1>1, <1>2, <1>3, <2>2 DEF Pending, Change
  <2>3. CASE i \in call.mine
    BY <1>1, <1>2, <1>10, <2>1, <2>3, NotPending
  <2>. QED
    BY <1>3, <2>2, <2>3
<1>18. WrittenInv'
  BY <1>3 DEF WrittenInv, Change
<1>. QED
  BY <1>6, <1>9, <1>11, <1>12, <1>13, <1>15, <1>16, <1>17, <1>18 DEF IInv

(* Ten seconds: what was requested may yet be done.                        *)
LEMMA TimesOutKeeps == IInv /\ TimesOut => IInv'
<1>. SUFFICES ASSUME IInv, TimesOut PROVE IInv'
  OBVIOUS
<1>1. /\ call.at = "wait" /\ UNCHANGED <<files, journal, World, ids, settled>>
      /\ UNCHANGED faults
      /\ Fails(IF call.step \in Change THEN [call EXCEPT !.issued = TRUE, !.unknown = TRUE]
               ELSE call)
  BY DEF TimesOut, At
<1>2. call \in Calls /\ call.answered \subseteq call.mine /\ ~call.late
      /\ faults' \in 0 .. MaxFaults
  BY <1>1 DEF IInv, Typed, CallInv
<1>3. CASE call.step \in Change
  <2>1. PICK c : c = [call EXCEPT !.issued = TRUE, !.unknown = TRUE]
    OBVIOUS
  <2>2. c \in Calls /\ Agree(call, c, {"issued", "unknown"}) /\ c.issued
    BY <1>2, <2>1, UncertainFields
  <2>3. Fails(c)
    BY <1>1, <1>3, <2>1
  <2>. QED
    BY <1>1, <1>2, <2>2, <2>3, FailsKeeps DEF Agree, Fields
<1>4. CASE call.step \notin Change
  <2>1. call.issued \/ call.unknown \/ \A i \in call.mine : Quiet(i)
    BY <1>1, <1>4 DEF IInv, UnissuedInv, Pending
  <2>. QED
    BY <1>1, <1>2, <1>4, <2>1, FailsKeeps
<1>. QED
  BY <1>3, <1>4

LEMMA ReceiveKeeps == IInv /\ Receive => IInv'
<1>. SUFFICES ASSUME IInv, Receive PROVE IInv'
  OBVIOUS
<1>. USE NoneIsNoData
<1>1. /\ call.at = "wait" /\ response # None
      /\ UNCHANGED <<files, journal, World, ids, settled>> /\ UNCHANGED faults
      /\ \/ /\ response.id = claim.id /\ response.id = Awaited
            /\ call' = [call EXCEPT !.at = "bank", !.reply = response] /\ UNCHANGED said
         \/ Fails([call EXCEPT !.issued = TRUE, !.unknown = TRUE])
  BY DEF Receive, At, Awaited
<1>2. call \in Calls /\ call.answered \subseteq call.mine /\ ~call.late
      /\ faults' \in 0 .. MaxFaults /\ ~settled
  BY <1>1 DEF IInv, Typed, CallInv, JournalInv
<1>3. CASE Fails([call EXCEPT !.issued = TRUE, !.unknown = TRUE])
  <2>1. PICK c : c = [call EXCEPT !.issued = TRUE, !.unknown = TRUE]
    OBVIOUS
  <2>2. c \in Calls /\ Agree(call, c, {"issued", "unknown"}) /\ c.issued
    BY <1>2, <2>1, UncertainFields
  <2>3. Fails(c)
    BY <1>3, <2>1
  <2>. QED
    BY <1>1, <1>2, <2>2, <2>3, FailsKeeps DEF Agree, Fields
<1>4. CASE /\ response.id = claim.id /\ response.id = Awaited
           /\ call' = [call EXCEPT !.at = "bank", !.reply = response] /\ UNCHANGED said
  <2>1. /\ claim # None /\ helper.at \in {"polls", "gone"} /\ Truthful(response)
        /\ request = None
    BY <1>1 DEF IInv, FilesInv
  <2>2. /\ call' \in Calls /\ Data(call, call') /\ Outcome(call, call')
        /\ call'.late = call.late /\ call'.step = call.step /\ call'.at = "bank"
        /\ call'.reply = response
    <3>1. PICK a : a = [call EXCEPT !.at = "bank"]
      OBVIOUS
    <3>2. a \in Calls /\ Agree(call, a, {"at"}) /\ a.at = "bank"
      BY <1>2, <3>1, SetAt DEF Places
    <3>3. call' = [a EXCEPT !.reply = response]
      BY <1>4, <3>1, Zenon
    <3>4. response \in Reply \cup {None}
      BY DEF IInv, Typed
    <3>5. call' \in Calls /\ Agree(a, call', {"reply"}) /\ call'.reply = response
      BY <3>2, <3>3, <3>4, SetReply
    <3>. QED
      BY <3>2, <3>5 DEF Agree, Fields, Data, Outcome
  <2>3. Typed' /\ WorldInv'
    BY <1>1, <1>2, <1>4, <2>2, WorldKept DEF IInv, Typed, WorldInv, Data
  <2>4. CallInv'
    BY <1>1, <1>2, <2>2 DEF IInv, CallInv, Data, files, journal, World
  <2>5. Own(claim) /\ (call.step \in Change => ids \in call.mine)
    BY <1>1, <1>2, <2>1 DEF IInv, ExchangeInv
  <2>6. ExchangeInv'
    <3>1. /\ response \in Reply /\ response.read <= ids
          /\ call.step \in Change /\ ~response.issued => ids \notin effects
      BY <1>4, <2>1 DEF Truthful, Awaited
    <3>2. call.step \in {"write", "restore"} /\ response.ok => value = Wanted /\ NoWrite
      BY <2>1, <2>5 DEF Truthful, Own, NoWrite
    <3>3. UNCHANGED <<request, claim, response, receipts, value, helper, effects, ids>>
      BY <1>1 DEF files, journal, World, target
    <3>4. NoWrite' <=> NoWrite
      BY <3>3 DEF NoWrite
    <3>5. Wanted' = Wanted /\ Awaited' = Awaited
      BY <2>2, <3>3 DEF Wanted, Awaited, Data
    <3>. QED
      BY <1>1, <1>4, <2>1, <2>2, <2>5, <3>1, <3>2, <3>3, <3>4, <3>5 DEF ExchangeInv, Data
  <2>7. UnissuedInv'
    BY <1>1, <1>2, <2>2
       DEF IInv, UnissuedInv, Pending, Data, Outcome, Quiet, files, World, target
  <2>8. WrittenInv'
    BY <1>1, <2>2 DEF IInv, WrittenInv, Data, Outcome, NoWrite, files, World, target
  <2>. QED
    BY <2>3, <2>4, <2>6, <2>7, <2>8 DEF IInv, WorldInv
<1>. QED
  BY <1>1, <1>3, <1>4

-----------------------------------------------------------------------------
(* The receipt, the removals and the answer.                               *)
LEMMA BankKeeps == IInv /\ Bank => IInv'
<1>. SUFFICES ASSUME IInv, Bank PROVE IInv'
  OBVIOUS
<1>. USE NoneIsNoData
<1>1. /\ call.at = "bank" /\ Goto("drop")
      /\ receipts' = IF Changes(claim) THEN receipts \cup {claim.id} ELSE receipts
      /\ UNCHANGED <<request, claim, response, events, effects, value, helper, ids, settled,
                     denied, promise, faults>>
  BY DEF Bank, At, files, World, target, said
<1>2. /\ call' \in Calls /\ Data(call, call') /\ Outcome(call, call')
      /\ call'.late = call.late /\ call'.step = call.step /\ call'.at = "drop"
      /\ call'.reply = call.reply
  BY <1>1, GotoEffect DEF IInv, Typed, Places
<1>3. claim # None /\ claim \in Request /\ Sensible(claim)
  BY <1>1 DEF IInv, ExchangeInv, FilesInv, Typed
<1>4. receipts \subseteq receipts' /\ receipts' \subseteq 1 .. ids
  <2>1. receipts \subseteq 1 .. ids /\ ids \in Nat
    BY DEF IInv, Typed
  <2>2. Changes(claim) => claim.id \in 1 .. ids
    BY <1>3, <2>1 DEF Sensible, Changes
  <2>. QED
    BY <1>1, <2>1, <2>2
<1>5. Typed'
  BY <1>1, <1>2, <1>4 DEF IInv, Typed, Data
<1>6. FilesInv'
  BY <1>1 DEF IInv, FilesInv, Sensible, Truthful
<1>7. \A i : Quiet(i)' <=> Quiet(i)
  BY <1>1 DEF Quiet
<1>8. NoWrite' <=> NoWrite
  BY <1>1 DEF NoWrite
<1>9. DeniedInv' /\ PromiseInv'
  BY <1>1, <1>7, <1>8 DEF IInv, DeniedInv, PromiseInv
<1>10. JournalInv'
  BY <1>1, <1>4 DEF IInv, JournalInv, EffectsRecordedOnce
<1>11. CallInv'
  BY <1>1, <1>2 DEF IInv, CallInv, Data
<1>12. ExchangeInv'
  BY <1>1, <1>2, <1>8 DEF IInv, ExchangeInv, Awaited, Wanted, Data, Changes
<1>13. UnissuedInv'
  BY <1>1, <1>2, <1>7 DEF IInv, UnissuedInv, Pending, Data, Outcome
<1>14. WrittenInv'
  BY <1>1, <1>2, <1>8 DEF IInv, WrittenInv, Data, Outcome
<1>. QED
  BY <1>5, <1>6, <1>9, <1>10, <1>11, <1>12, <1>13, <1>14 DEF IInv

LEMMA BankFailsKeeps == IInv /\ BankFails => IInv'
<1>. SUFFICES ASSUME IInv, BankFails PROVE IInv'
  OBVIOUS
<1>. USE NoneIsNoData
<1>1. /\ call.at = "bank" /\ Fault /\ UNCHANGED <<files, journal, World, ids, settled>>
      /\ Fails([call EXCEPT !.unknown = @ \/ call.step \in Change])
  BY DEF BankFails, At
<1>2. call \in Calls /\ call.answered \subseteq call.mine /\ faults' \in 0 .. MaxFaults
      /\ claim # None /\ response # None
  BY <1>1 DEF IInv, Typed, ExchangeInv, Fault
<1>3. PICK u \in BOOLEAN : u = (call.unknown \/ call.step \in Change)
  OBVIOUS
<1>4. PICK c : c = [call EXCEPT !.unknown = u]
  OBVIOUS
<1>5. c \in Calls /\ Agree(call, c, {"unknown"}) /\ c.unknown = u
  BY <1>2, <1>4, SetUnknown
<1>6. Fails(c)
  <2>1. Fails([call EXCEPT !.unknown = call.unknown \/ call.step \in Change])
    BY <1>1, Zenon
  <2>. QED
    BY <1>3, <1>4, <2>1, Zenon
<1>7. c.issued \/ c.unknown \/ \A i \in c.mine : Quiet(i)
  BY <1>1, <1>3, <1>5 DEF IInv, UnissuedInv, Pending, Agree, Fields
<1>. QED
  BY <1>1, <1>2, <1>5, <1>6, <1>7, FailsKeeps DEF Agree, Fields

LEMMA DropKeeps == IInv /\ Drop => IInv'
<1>. SUFFICES ASSUME IInv, Drop PROVE IInv'
  OBVIOUS
<1>. USE NoneIsNoData
<1>1. /\ call.at = "drop" /\ Goto("unclaim") /\ response' = None
      /\ UNCHANGED <<request, claim, receipts, events, effects, value, helper, ids, settled,
                     denied, promise, faults>>
  BY DEF Drop, At, journal, World, target, said
<1>2. /\ call' \in Calls /\ Data(call, call') /\ Outcome(call, call')
      /\ call'.late = call.late /\ call'.step = call.step /\ call'.at = "unclaim"
      /\ call'.reply = call.reply
  BY <1>1, GotoEffect DEF IInv, Typed, Places
<1>3. claim # None /\ helper.at \in {"polls", "gone"}
  BY <1>1 DEF IInv, ExchangeInv
<1>4. Typed'
  BY <1>1, <1>2 DEF IInv, Typed, Data
<1>5. FilesInv'
  BY <1>1, <1>3 DEF IInv, FilesInv, Sensible
<1>6. \A i : Quiet(i)' <=> Quiet(i)
  BY <1>1 DEF Quiet
<1>7. NoWrite' <=> NoWrite
  BY <1>1 DEF NoWrite
<1>8. DeniedInv' /\ PromiseInv'
  BY <1>1, <1>6, <1>7 DEF IInv, DeniedInv, PromiseInv
<1>9. JournalInv'
  BY <1>1 DEF IInv, JournalInv, EffectsRecordedOnce
<1>10. CallInv'
  BY <1>1, <1>2 DEF IInv, CallInv, Data
<1>11. ExchangeInv'
  BY <1>1, <1>2, <1>7 DEF IInv, ExchangeInv, Awaited, Wanted, Data, Changes
<1>12. UnissuedInv'
  BY <1>1, <1>2, <1>6 DEF IInv, UnissuedInv, Pending, Data, Outcome
<1>13. WrittenInv'
  BY <1>1, <1>2, <1>7 DEF IInv, WrittenInv, Data, Outcome
<1>. QED
  BY <1>4, <1>5, <1>8, <1>9, <1>10, <1>11, <1>12, <1>13 DEF IInv

(* Once the claim is gone, its receipt stands for it.                      *)
LEMMA UnclaimKeeps == IInv /\ Unclaim => IInv'
<1>. SUFFICES ASSUME IInv, Unclaim PROVE IInv'
  OBVIOUS
<1>. USE NoneIsNoData
<1>1. /\ call.at = "unclaim" /\ claim' = None
      /\ UNCHANGED <<request, response, receipts, events, effects, value, helper, ids, settled,
                     faults>>
  BY DEF Unclaim, At, journal, World, target
<1>2. /\ claim # None /\ claim \in Request /\ Sensible(claim) /\ request = None
      /\ helper.at \in {"polls", "gone"} /\ (Changes(claim) => claim.id \in receipts)
  BY <1>1 DEF IInv, ExchangeInv, FilesInv, Typed
<1>3. FilesInv'
  <2>1. response = None
    BY <1>1 DEF IInv, ExchangeInv
  <2>. QED
    BY <1>1, <1>2, <2>1 DEF FilesInv
<1>4. \A i : Quiet(i) => Quiet(i)'
  BY <1>1 DEF Quiet
<1>5. NoWrite /\ NoWrite'
  BY <1>1, <1>2 DEF NoWrite
<1>6. EffectsRecordedOnce'
  <2>1. \A i \in effects : claim.id = i => i \in receipts
    BY <1>2 DEF Sensible, Changes, IInv, Typed, Request
  <2>. QED
    BY <1>1, <2>1 DEF IInv, JournalInv, EffectsRecordedOnce
<1>7. ~settled /\ call \in Calls /\ call.answered \subseteq call.mine
  BY <1>1 DEF IInv, JournalInv, Typed
<1>8. JournalInv'
  BY <1>1, <1>6, <1>7 DEF IInv, JournalInv
<1>9. CASE Goto(IF call.late THEN "record" ELSE "answered") /\ UNCHANGED said
           /\ (call.late => call.step = "recover")
  <2>1. /\ call' \in Calls /\ Data(call, call') /\ Outcome(call, call')
        /\ call'.late = call.late /\ call'.step = call.step /\ call'.reply = call.reply
        /\ call'.at = (IF call.late THEN "record" ELSE "answered")
    BY <1>9, GotoEffect DEF IInv, Typed, Places
  <2>2. Typed'
    BY <1>1, <1>9, <2>1 DEF IInv, Typed, Data, said
  <2>3. DeniedInv' /\ PromiseInv'
    BY <1>1, <1>4, <1>5, <1>9 DEF IInv, DeniedInv, PromiseInv, said
  <2>4. CallInv'
    BY <1>1, <1>2, <1>9, <2>1 DEF IInv, CallInv, Data
  <2>5. ExchangeInv'
    BY <1>1, <1>2, <1>5, <2>1 DEF IInv, ExchangeInv, Awaited, Wanted, Data
  <2>6. UnissuedInv'
    BY <1>1, <1>4, <2>1 DEF IInv, UnissuedInv, Pending, Data, Outcome
  <2>7. WrittenInv'
    BY <1>1, <1>5, <2>1 DEF IInv, WrittenInv, Data, Outcome
  <2>. QED
    BY <1>3, <1>8, <2>2, <2>3, <2>4, <2>5, <2>6, <2>7 DEF IInv
<1>10. CASE call.late /\ call.step # "recover" /\ Fails([call EXCEPT !.late = FALSE])
  <2>1. PICK no \in BOOLEAN : no = FALSE
    OBVIOUS
  <2>2. PICK c : c = [call EXCEPT !.late = no]
    OBVIOUS
  <2>3. c \in Calls /\ Agree(call, c, {"late"}) /\ c.late = no
    BY <1>7, <2>2, SetLate
  <2>4. Fails(c)
    BY <1>10, <2>1, <2>2
  <2>5. c.issued \/ c.unknown \/ \A i \in c.mine : Quiet(i)'
    BY <1>1, <1>4, <1>10, <2>3 DEF IInv, UnissuedInv, Pending, Agree, Fields
  <2>6. /\ HandInv' /\ call' \in Calls
        /\ call'.mine \subseteq 1 .. ids /\ call'.answered \subseteq call'.mine
        /\ promise' = promise /\ denied' \subseteq denied \cup call.mine
        /\ \A i \in denied' : i \in denied \/ Quiet(i)'
    BY <1>1, <1>7, <2>1, <2>3, <2>4, <2>5, FailsHand DEF IInv, Agree, Fields
  <2>7. Typed'
    BY <1>1, <2>6 DEF IInv, Typed
  <2>8. DeniedInv' /\ PromiseInv'
    BY <1>1, <1>4, <1>5, <2>6 DEF IInv, DeniedInv, PromiseInv
  <2>. QED
    BY <1>3, <1>8, <2>6, <2>7, <2>8 DEF IInv, HandInv
<1>. QED
  BY <1>9, <1>10 DEF Unclaim

-----------------------------------------------------------------------------
(* What follows an answer: the call goes on with the next exchange or with *)
(* its event, as long as the target has what the next step relies on.      *)
LEMMA GoesOn ==
  ASSUME IInv, call.at = "answered", call.op = "write", call.step # "resume",
         UNCHANGED <<files, journal, World, ids, settled, said, faults>>,
         NEW c \in Calls, c.answered \subseteq call.mine, ~c.late,
         c.issued \/ c.unknown \/ \A i \in call.mine : Quiet(i),
         call' \in Calls, call'.op = "write", call'.restore = c.restore,
         call'.mine = call.mine, call'.answered = c.answered,
         call'.issued = c.issued, call'.unknown = c.unknown, call'.late = c.late,
         call'.at \in {"look", "event"},
         call'.step \in {"write", "verify", "restore", "readback"},
         call'.old # None => call'.old <= ids,
         call'.step \in {"restore", "readback"} => call'.old # None,
         ~call'.failed =>
           /\ call'.step = "verify" => value = call'.holds
           /\ call'.step = "readback" => value = call'.old
           /\ call'.at = "event" => value = call'.holds
  PROVE  IInv'
<1>1. /\ UNCHANGED <<request, claim, response, receipts, events, effects, value, helper, ids,
                     settled, denied, promise>>
  BY DEF files, journal, World, target, said
<1>2. ~settled /\ request = None /\ claim = None /\ faults \in 0 .. MaxFaults
      /\ call.mine \subseteq 1 .. ids
  BY DEF IInv, JournalInv, ExchangeInv, Typed
<1>3. Typed' /\ WorldInv'
  BY <1>2, WorldKept DEF IInv, WorldInv
<1>4. NoWrite'
  BY <1>1, <1>2 DEF IInv, FilesInv, NoWrite
<1>5. CallInv'
  BY <1>1 DEF IInv, CallInv, Ops, Steps
<1>6. ExchangeInv'
  BY DEF ExchangeInv
<1>7. UnissuedInv'
  BY <1>1 DEF UnissuedInv, Quiet
<1>8. WrittenInv'
  BY <1>1, <1>4 DEF WrittenInv
<1>. QED
  BY <1>3, <1>5, <1>6, <1>7, <1>8 DEF IInv, WorldInv

(* The call as it stands once its answer is counted.                       *)
Counted == IF call.step \notin Change THEN call
           ELSE [call EXCEPT !.answered = @ \cup {call.reply.id},
                             !.issued = @ \/ call.reply.issued,
                             !.unknown = @ \/ call.reply.unknown]

LEMMA CountedFields ==
  ASSUME IInv, call.at = "answered", call.step # "resume"
  PROVE  /\ Counted \in Calls /\ Agree(call, Counted, {"answered", "issued", "unknown"})
         /\ Counted.answered \subseteq call.mine
         /\ Counted.issued \/ Counted.unknown \/ \A i \in call.mine : Quiet(i)
<1>. USE NoneIsNoData
<1>1. /\ call \in Calls /\ call.answered \subseteq call.mine /\ call.mine \subseteq Nat
      /\ ~call.late /\ request = None /\ claim = None
      /\ call.reply \in Reply /\ call.reply.id = Awaited
      /\ call.step \in Change => ids \in call.mine
      /\ call.step \in Change /\ ~call.reply.issued => ids \notin effects
  BY DEF IInv, Typed, CallInv, ExchangeInv, Calls
<1>2. CASE call.step \notin Change
  BY <1>1, <1>2 DEF Counted, Agree, IInv, UnissuedInv, Pending
<1>3. CASE call.step \in Change
  <2>1. PICK ans \in SUBSET Nat : ans = call.answered \cup {call.reply.id}
    <3>1. call.answered \cup {call.reply.id} \in SUBSET Nat
      BY <1>1, <1>3 DEF Awaited
    <3>. QED
      BY <3>1, Zenon
  <2>2. PICK i1 \in BOOLEAN : i1 = (call.issued \/ call.reply.issued)
    OBVIOUS
  <2>3. PICK u1 \in BOOLEAN : u1 = (call.unknown \/ call.reply.unknown)
    OBVIOUS
  <2>4. PICK a : a = [call EXCEPT !.answered = ans]
    OBVIOUS
  <2>5. PICK b : b = [a EXCEPT !.issued = i1]
    OBVIOUS
  <2>6. PICK c : c = [b EXCEPT !.unknown = u1]
    OBVIOUS
  <2>7. c = Counted
    <3>1. Counted = [call EXCEPT !.answered = call.answered \cup {call.reply.id},
                                 !.issued = call.issued \/ call.reply.issued,
                                 !.unknown = call.unknown \/ call.reply.unknown]
      BY <1>3, Zenon DEF Counted
    <3>2. c = [call EXCEPT !.answered = ans, !.issued = i1, !.unknown = u1]
      BY <2>4, <2>5, <2>6, Zenon
    <3>. QED
      BY <2>1, <2>2, <2>3, <3>1, <3>2, Zenon
  <2>8. a \in Calls /\ Agree(call, a, {"answered"}) /\ a.answered = ans
    BY <1>1, <2>4, SetAnswered
  <2>9. b \in Calls /\ Agree(a, b, {"issued"}) /\ b.issued = i1
    BY <2>5, <2>8, SetIssued
  <2>10. c \in Calls /\ Agree(b, c, {"unknown"}) /\ c.unknown = u1
    BY <2>6, <2>9, SetUnknown
  <2>11. /\ Agree(call, c, {"answered", "issued", "unknown"}) /\ c.answered = ans
         /\ c.issued = i1 /\ c.unknown = u1
    BY <2>8, <2>9, <2>10 DEF Agree, Fields
  <2>12. c.answered \subseteq call.mine
    BY <1>1, <1>3, <2>1, <2>11 DEF Awaited
  <2>13. ASSUME ~i1, ~u1, NEW i \in call.mine PROVE Quiet(i)
    <3>1. ~call.issued /\ ~call.unknown /\ ~call.reply.issued
      BY <2>2, <2>3, <2>13
    <3>2. CASE i = ids
      BY <1>1, <1>3, <3>1, <3>2 DEF Quiet
    <3>3. CASE i # ids
      BY <3>1, <3>3 DEF IInv, UnissuedInv, Pending
    <3>. QED
      BY <3>2, <3>3
  <2>. QED
    BY <2>7, <2>10, <2>11, <2>12, <2>13
<1>. QED
  BY <1>2, <1>3

LEMMA AnsweredKeeps == IInv /\ Answered => IInv'
<1>. SUFFICES ASSUME IInv, Answered PROVE IInv'
  OBVIOUS
<1>. USE NoneIsNoData
<1>1. /\ call.at = "answered" /\ call.step # "resume"
      /\ UNCHANGED <<files, journal, World, ids, settled>> /\ UNCHANGED faults
  BY DEF Answered, At
<1>2. PICK c : c = Counted
  OBVIOUS
<1>3. /\ c \in Calls /\ Agree(call, c, {"answered", "issued", "unknown"})
      /\ c.answered \subseteq call.mine
      /\ c.issued \/ c.unknown \/ \A i \in call.mine : Quiet(i)
  BY <1>1, <1>2, CountedFields
<1>4. /\ c.op = call.op /\ c.restore = call.restore /\ c.old = call.old /\ c.mine = call.mine
      /\ c.holds = call.holds /\ c.step = call.step /\ c.late = call.late
      /\ c.failed = call.failed
  BY <1>3 DEF Agree, Fields
<1>5. CASE call.step = "read" \/ Fails(c)
  <2>1. /\ ~call.late /\ faults \in 0 .. MaxFaults /\ c.step \in Steps
    BY <1>1, <1>4 DEF IInv, CallInv, Typed
  <2>2. CASE Fails(c)
    BY <1>1, <1>3, <1>4, <2>1, <2>2, FailsKeeps
  <2>3. CASE call.step = "read"
    <3>1. Report(c) /\ c.op # "write"
      BY <1>1, <1>2, <1>4, <2>3 DEF Answered, Counted, IInv, CallInv, Change
    <3>2. /\ call' = NoCall /\ promise' = promise
          /\ denied' = IF c.issued \/ c.unknown THEN denied ELSE denied \cup c.mine
      BY <3>1 DEF Report
    <3>3. HandInv' /\ call' \in Calls /\ call'.mine = {} /\ call'.answered = {}
      BY <3>2, NothingInHand
    <3>4. UNCHANGED <<request, claim, response, receipts, events, effects, value, helper, ids,
                      settled>>
      BY <1>1 DEF files, journal, World, target
    <3>5. Typed'
      BY <1>1, <1>4, <3>2, <3>3, <3>4 DEF IInv, Typed
    <3>6. FilesInv'
      BY <3>4 DEF IInv, FilesInv, Sensible, Truthful
    <3>7. DeniedInv' /\ PromiseInv'
      BY <1>3, <1>4, <3>2, <3>4 DEF IInv, DeniedInv, Quiet, PromiseInv, NoWrite
    <3>8. JournalInv'
      BY <1>1, <3>4 DEF IInv, JournalInv, EffectsRecordedOnce
    <3>. QED
      BY <3>3, <3>5, <3>6, <3>7, <3>8 DEF IInv, HandInv
  <2>. QED
    BY <1>5, <2>2, <2>3
<1>6. CASE /\ call.step \in {"old", "write", "verify", "restore", "readback"} /\ call.reply.ok
           /\ UNCHANGED said
  <2>1. /\ call.op = "write" /\ ~call.late /\ call.reply \in Reply /\ call.reply.read <= ids
        /\ call.old # None => call.old <= ids
        /\ call.step \in {"restore", "readback"} => call.old # None
        /\ call.step \in {"write", "restore"} => value = Wanted
        /\ ~call.failed => /\ call.step = "verify" => value = call.holds
                           /\ call.step = "readback" => value = call.old
    BY <1>1, <1>6 DEF IInv, CallInv, ExchangeInv, WrittenInv
  <2>2. CASE call.step = "old" /\ Try([c EXCEPT !.old = call.reply.read], "write")
    <3>1. PICK r \in Nat \cup {None} : r = call.reply.read
      BY <2>1 DEF Reply
    <3>2. PICK d : d = [c EXCEPT !.old = r]
      OBVIOUS
    <3>3. d \in Calls /\ Agree(c, d, {"old"}) /\ d.old = r
      BY <1>3, <3>2, SetOld
    <3>4. Try(d, "write")
      BY <2>2, <3>1, <3>2
    <3>5. /\ call' \in Calls /\ Data(d, call') /\ Outcome(d, call') /\ call'.late = d.late
          /\ call'.at = "look" /\ call'.step = "write"
      BY <3>3, <3>4, TryEffect DEF Steps
    <3>. QED
      BY <1>1, <1>3, <1>4, <1>6, <2>1, <3>1, <3>3, <3>5, GoesOn
         DEF Agree, Fields, Data, Outcome
  <2>3. CASE call.step = "write" /\ Try(c, "verify")
    <3>1. /\ call' \in Calls /\ Data(c, call') /\ Outcome(c, call') /\ call'.late = c.late
          /\ call'.at = "look" /\ call'.step = "verify"
      BY <1>3, <2>3, TryEffect DEF Steps
    <3>. QED
      BY <1>1, <1>3, <1>4, <1>6, <2>1, <2>3, <3>1, GoesOn DEF Data, Outcome, Wanted
  <2>4. CASE c.old # None /\ Try(c, "restore")
    <3>1. /\ call' \in Calls /\ Data(c, call') /\ Outcome(c, call') /\ call'.late = c.late
          /\ call'.at = "look" /\ call'.step = "restore"
      BY <1>3, <2>4, TryEffect DEF Steps
    <3>. QED
      BY <1>1, <1>3, <1>4, <1>6, <2>1, <2>4, <3>1, GoesOn DEF Data, Outcome
  <2>5. CASE call.step = "restore" /\ Try(c, "readback")
    <3>1. /\ call' \in Calls /\ Data(c, call') /\ Outcome(c, call') /\ call'.late = c.late
          /\ call'.at = "look" /\ call'.step = "readback"
      BY <1>3, <2>5, TryEffect DEF Steps
    <3>. QED
      BY <1>1, <1>3, <1>4, <1>6, <2>1, <2>5, <3>1, GoesOn DEF Data, Outcome, Wanted
  <2>6. CASE /\ call.step \in {"write", "verify"}
             /\ call' = [c EXCEPT !.at = "event"]
    <3>1. call' \in Calls /\ Agree(c, call', {"at"}) /\ call'.at = "event"
      BY <1>3, <2>6, SetAt DEF Places
    <3>2. /\ Data(c, call') /\ Outcome(c, call') /\ call'.late = c.late
          /\ call'.step = c.step
      BY <3>1 DEF Agree, Fields, Data, Outcome
    <3>. QED
      BY <1>1, <1>3, <1>4, <1>6, <2>1, <2>6, <3>1, <3>2, GoesOn DEF Data, Outcome, Wanted
  <2>7. CASE call.step = "readback" /\ call' = [c EXCEPT !.at = "event", !.holds = c.old]
    <3>1. PICK a : a = [c EXCEPT !.at = "event"]
      OBVIOUS
    <3>2. a \in Calls /\ Agree(c, a, {"at"}) /\ a.at = "event"
      BY <1>3, <3>1, SetAt DEF Places
    <3>3. PICK h \in Nat \cup {None} : h = c.old
      BY <1>3 DEF Calls
    <3>4. call' = [a EXCEPT !.holds = h]
      BY <2>7, <3>1, <3>3, Zenon
    <3>5. call' \in Calls /\ Agree(a, call', {"holds"}) /\ call'.holds = h
      BY <3>2, <3>4, SetHolds
    <3>6. /\ call'.op = c.op /\ call'.restore = c.restore /\ call'.old = c.old
          /\ call'.mine = c.mine /\ call'.answered = c.answered /\ Outcome(c, call')
          /\ call'.late = c.late /\ call'.step = c.step /\ call'.at = "event"
      BY <3>2, <3>5 DEF Agree, Fields, Outcome
    <3>. QED
      BY <1>1, <1>3, <1>4, <1>6, <2>1, <2>7, <3>3, <3>5, <3>6, GoesOn DEF Outcome
  <2>8. \/ call.step = "old" /\ Try([c EXCEPT !.old = call.reply.read], "write")
        \/ call.step = "write" /\ Try(c, "verify")
        \/ c.old # None /\ Try(c, "restore")
        \/ call.step = "restore" /\ Try(c, "readback")
        \/ call.step \in {"write", "verify"} /\ call' = [c EXCEPT !.at = "event"]
        \/ call.step = "readback" /\ call' = [c EXCEPT !.at = "event", !.holds = c.old]
        \/ Fails(c)
    BY <1>2, <1>6 DEF Answered, Counted
  <2>. QED
    BY <1>5, <2>2, <2>3, <2>4, <2>5, <2>6, <2>7, <2>8
<1>7. \/ call.step = "read" \/ Fails(c)
      \/ /\ call.step \in {"old", "write", "verify", "restore", "readback"} /\ call.reply.ok
         /\ UNCHANGED said
  BY <1>2 DEF Answered, Counted
<1>. QED
  BY <1>5, <1>6, <1>7

LEMMA ResumedKeeps == IInv /\ Resumed => IInv'
<1>. SUFFICES ASSUME IInv, Resumed PROVE IInv'
  OBVIOUS
<1>. USE NoneIsNoData
<1>1. /\ call.at = "answered" /\ call.step = "resume"
      /\ call' = [call EXCEPT !.answered = @ \cup {call.reply.id}, !.issued = call.reply.issued,
                              !.unknown = call.reply.unknown, !.failed = ~call.reply.ok,
                              !.at = "event"]
      /\ UNCHANGED <<files, journal, World, ids, settled, said>> /\ UNCHANGED faults
  BY DEF Resumed, At
<1>2. /\ call \in Calls /\ call.answered \subseteq call.mine /\ call.mine \subseteq {ids}
      /\ call.mine \subseteq Nat /\ ids \in call.mine /\ call.op = "resume" /\ ~call.late
      /\ request = None /\ claim = None /\ call.reply \in Reply /\ call.reply.id = ids
      /\ ~call.reply.issued => ids \notin effects
  BY <1>1 DEF IInv, Typed, CallInv, ExchangeInv, Calls, Change, Awaited
<1>3. /\ call' \in Calls /\ Agree(call, call', {"answered", "issued", "unknown", "failed", "at"})
      /\ call'.answered \subseteq call.mine /\ call'.at = "event"
      /\ call'.issued = call.reply.issued
  <2>1. PICK ans \in SUBSET Nat : ans = call.answered \cup {call.reply.id}
    <3>1. call.answered \cup {call.reply.id} \in SUBSET Nat
      BY <1>2
    <3>. QED
      BY <3>1, Zenon
  <2>2. PICK f \in BOOLEAN : f = (~call.reply.ok)
    OBVIOUS
  <2>3. call.reply.issued \in BOOLEAN /\ call.reply.unknown \in BOOLEAN
    BY <1>2 DEF Reply
  <2>4. PICK a : a = [call EXCEPT !.answered = ans]
    OBVIOUS
  <2>5. PICK b : b = [a EXCEPT !.issued = call.reply.issued]
    OBVIOUS
  <2>6. PICK c : c = [b EXCEPT !.unknown = call.reply.unknown]
    OBVIOUS
  <2>7. PICK d : d = [c EXCEPT !.failed = f]
    OBVIOUS
  <2>8. call' = [d EXCEPT !.at = "event"]
    <3>1. call' = [call EXCEPT !.answered = call.answered \cup {call.reply.id},
                               !.issued = call.reply.issued, !.unknown = call.reply.unknown,
                               !.failed = ~call.reply.ok, !.at = "event"]
      BY <1>1, Zenon
    <3>. QED
      BY <2>1, <2>2, <2>4, <2>5, <2>6, <2>7, <3>1, Zenon
  <2>9. a \in Calls /\ Agree(call, a, {"answered"}) /\ a.answered = ans
    BY <1>2, <2>4, SetAnswered
  <2>10. b \in Calls /\ Agree(a, b, {"issued"}) /\ b.issued = call.reply.issued
    BY <2>3, <2>5, <2>9, SetIssued
  <2>11. c \in Calls /\ Agree(b, c, {"unknown"})
    BY <2>3, <2>6, <2>10, SetUnknown
  <2>12. d \in Calls /\ Agree(c, d, {"failed"})
    BY <2>2, <2>7, <2>11, SetFailed
  <2>13. call' \in Calls /\ Agree(d, call', {"at"}) /\ call'.at = "event"
    BY <2>8, <2>12, SetAt DEF Places
  <2>14. /\ Agree(call, call', {"answered", "issued", "unknown", "failed", "at"})
         /\ call'.answered = ans /\ call'.issued = call.reply.issued
    BY <2>9, <2>10, <2>11, <2>12, <2>13 DEF Agree, Fields
  <2>. QED
    BY <1>2, <2>1, <2>13, <2>14
<1>4. /\ call'.op = call.op /\ call'.restore = call.restore /\ call'.old = call.old
      /\ call'.mine = call.mine /\ call'.step = call.step /\ call'.late = call.late
  BY <1>3 DEF Agree, Fields
<1>5. Typed' /\ WorldInv'
  BY <1>1, <1>2, <1>3, <1>4, WorldKept DEF IInv, Typed, WorldInv, JournalInv
<1>6. CallInv'
  BY <1>1, <1>2, <1>3, <1>4 DEF IInv, CallInv, journal
<1>7. ExchangeInv'
  BY <1>3 DEF ExchangeInv
<1>8. UnissuedInv'
  BY <1>1, <1>2, <1>3, <1>4 DEF UnissuedInv, Quiet, files, World, target
<1>9. WrittenInv'
  BY <1>2, <1>4 DEF WrittenInv
<1>. QED
  BY <1>5, <1>6, <1>7, <1>8, <1>9 DEF IInv, WorldInv

-----------------------------------------------------------------------------
(* The journal.                                                            *)
LEMMA AppendEventKeeps == IInv /\ AppendEvent => IInv'
<1>. SUFFICES ASSUME IInv, AppendEvent PROVE IInv'
  OBVIOUS
<1>1. /\ call.at = "event" /\ Goto("acknowledge")
      /\ events' = [i \in Ids |-> IF i \in call.answered THEN events[i] + 1 ELSE events[i]]
      /\ UNCHANGED <<request, claim, response, receipts, effects, value, helper, ids, settled,
                     denied, promise, faults>>
  BY DEF AppendEvent, At, files, World, target, said
<1>2. /\ call' \in Calls /\ Data(call, call') /\ Outcome(call, call')
      /\ call'.late = call.late /\ call'.step = call.step /\ call'.at = "acknowledge"
  BY <1>1, GotoEffect DEF IInv, Typed, Places
<1>3. /\ events \in [Ids -> {0, 1}] /\ call.answered \subseteq 1 .. ids
      /\ call.answered \subseteq Ids /\ ~settled
      /\ \A i \in call.answered : events[i] = 0
  BY <1>1, NoneIsNoData DEF IInv, Typed, CallInv, JournalInv, Ids
<1>4. /\ \A i \in Ids : events'[i] = IF i \in call.answered THEN 1 ELSE events[i]
      /\ events' \in [Ids -> {0, 1}]
  BY <1>1, <1>3
<1>5. Typed'
  BY <1>1, <1>2, <1>4 DEF IInv, Typed, Data
<1>6. FilesInv'
  BY <1>1 DEF IInv, FilesInv, Sensible, Truthful
<1>7. \A i : Quiet(i)' <=> Quiet(i)
  BY <1>1 DEF Quiet
<1>8. NoWrite' <=> NoWrite
  BY <1>1 DEF NoWrite
<1>9. DeniedInv' /\ PromiseInv'
  BY <1>1, <1>7, <1>8 DEF IInv, DeniedInv, PromiseInv
<1>10. JournalInv'
  <2>1. EffectsRecordedOnce'
    <3>1. \A i \in effects : i \in Ids
      BY NoneIsNoData DEF IInv, Typed, Ids
    <3>. QED
      BY <1>1, <1>3, <1>4, <3>1 DEF IInv, JournalInv, EffectsRecordedOnce
  <2>2. \A i \in Ids : i > ids => events'[i] = 0
    BY <1>3, <1>4, NoneIsNoData DEF IInv, JournalInv, Typed, Ids
  <2>. QED
    BY <1>1, <1>3, <2>1, <2>2 DEF JournalInv
<1>11. CallInv'
  BY <1>1, <1>2, <1>3, <1>4 DEF IInv, CallInv, Data
<1>12. ExchangeInv'
  BY <1>2 DEF ExchangeInv
<1>13. UnissuedInv'
  BY <1>1, <1>2, <1>7, NotPending DEF UnissuedInv, Data, Outcome
<1>14. WrittenInv'
  BY <1>1, <1>2, <1>8 DEF IInv, WrittenInv, Data, Outcome
<1>. QED
  BY <1>5, <1>6, <1>9, <1>10, <1>11, <1>12, <1>13, <1>14 DEF IInv

(* A call that is over: what it reports, and what it leaves in the journal.*)
LEMMA EndKeeps ==
  ASSUME IInv, call.at # "idle", call' = NoCall,
         UNCHANGED <<request, claim, response, events, effects, value, helper, ids>>,
         receipts' \subseteq receipts, \A i \in receipts \ receipts' : events[i] = 1,
         denied' \subseteq denied \cup {i \in call.mine : Quiet(i)},
         promise' \in {promise, call.holds},
         promise' # promise => value = call.holds /\ NoWrite,
         settled' \in BOOLEAN,
         settled' => helper.at = "gone" /\ receipts = {} /\ claim = None,
         faults' \in 0 .. MaxFaults
  PROVE  IInv'
<1>. USE NoneIsNoData
<1>1. HandInv' /\ call' \in Calls /\ call'.mine = {} /\ call'.answered = {}
  BY NothingInHand
<1>2. Typed'
  <2>1. denied' \subseteq 1 .. ids /\ promise' \in 0 .. ids \cup {None}
    BY DEF IInv, Typed
  <2>. QED
    BY <1>1, <2>1 DEF IInv, Typed
<1>3. FilesInv'
  BY DEF IInv, FilesInv, Sensible, Truthful
<1>4. DeniedInv'
  BY DEF IInv, DeniedInv, Quiet
<1>5. PromiseInv'
  BY DEF IInv, PromiseInv, NoWrite
<1>6. JournalInv'
  <2>1. EffectsRecordedOnce'
    BY DEF IInv, JournalInv, EffectsRecordedOnce
  <2>2. call'.at = "idle"
    BY NoCallTyped
  <2>. QED
    BY <2>1, <2>2 DEF IInv, JournalInv
<1>. QED
  BY <1>1, <1>2, <1>3, <1>4, <1>5, <1>6 DEF IInv, HandInv

LEMMA AcknowledgeKeeps == IInv /\ Acknowledge => IInv'
<1>. SUFFICES ASSUME IInv, Acknowledge PROVE IInv'
  OBVIOUS
<1>1. /\ call.at = "acknowledge" /\ Report(call) /\ receipts' = receipts \ call.answered
      /\ UNCHANGED <<request, claim, response, events, effects, value, helper, ids, settled,
                     faults>>
  BY DEF Acknowledge, At, files, World, target
<1>2. /\ call' = NoCall
      /\ denied' = IF call.issued \/ call.unknown THEN denied ELSE denied \cup call.mine
      /\ promise' = IF call.failed \/ call.op # "write" THEN promise ELSE call.holds
  BY <1>1 DEF Report
<1>3. \A i \in receipts \ receipts' : events[i] = 1
  BY <1>1 DEF IInv, CallInv
<1>4. ~settled /\ settled \in BOOLEAN /\ faults \in 0 .. MaxFaults
  BY <1>1 DEF IInv, JournalInv, Typed
<1>5. promise' # promise => value = call.holds /\ NoWrite
  BY <1>1, <1>2 DEF IInv, WrittenInv
<1>6. denied' \subseteq denied \cup {i \in call.mine : Quiet(i)}
  BY <1>1, <1>2, NotPending
<1>. QED
  BY <1>1, <1>2, <1>3, <1>4, <1>5, <1>6, EndKeeps

LEMMA AppendFailsKeeps == IInv /\ AppendFails => IInv'
<1>. SUFFICES ASSUME IInv, AppendFails PROVE IInv'
  OBVIOUS
<1>1. /\ call.at = "event" /\ Fault /\ Report([call EXCEPT !.failed = TRUE])
      /\ UNCHANGED <<request, claim, response, receipts, events, effects, value, helper, ids,
                     settled>>
  BY DEF AppendFails, At, files, journal, World, target
<1>2. PICK yes \in BOOLEAN : yes = TRUE
  OBVIOUS
<1>3. PICK lost : lost = [call EXCEPT !.failed = yes]
  OBVIOUS
<1>4. lost \in Calls /\ Agree(call, lost, {"failed"}) /\ lost.failed = yes
  BY <1>3, SetFailed DEF IInv, Typed
<1>5. Report(lost)
  BY <1>1, <1>2, <1>3
<1>6. /\ call' = NoCall /\ promise' = promise
      /\ denied' = IF call.issued \/ call.unknown THEN denied ELSE denied \cup call.mine
  BY <1>2, <1>4, <1>5 DEF Report, Agree, Fields
<1>7. ~settled /\ settled \in BOOLEAN
  BY <1>1 DEF IInv, JournalInv, Typed
<1>8. faults' \in 0 .. MaxFaults
  BY <1>1, NoneIsNoData DEF Fault, IInv, Typed
<1>9. denied' \subseteq denied \cup {i \in call.mine : Quiet(i)}
  BY <1>1, <1>6, NotPending
<1>. QED
  BY <1>1, <1>6, <1>7, <1>8, <1>9, EndKeeps

LEMMA ServerDiesKeeps == IInv /\ ServerDies => IInv'
<1>. SUFFICES ASSUME IInv, ServerDies PROVE IInv'
  OBVIOUS
<1>1. /\ call.at # "idle" /\ Fault /\ call' = NoCall
      /\ UNCHANGED <<request, claim, response, receipts, events, effects, value, helper, ids,
                     settled, denied, promise>>
  BY DEF ServerDies, At, files, journal, World, target, said
<1>2. ~settled /\ settled \in BOOLEAN
  BY <1>1 DEF IInv, JournalInv, Typed
<1>3. faults' \in 0 .. MaxFaults
  BY <1>1, NoneIsNoData DEF Fault, IInv, Typed
<1>. QED
  BY <1>1, <1>2, <1>3, EndKeeps

-----------------------------------------------------------------------------
(* The recovery.  Receipts that are there have an oldest one: the natural  *)
(* numbers are well ordered.                                               *)
Less == {p \in Nat \X Nat : p[1] < p[2]}

LEMMA OldestIsReceipt ==
  ASSUME receipts \subseteq Nat, receipts # {}
  PROVE  Oldest \in receipts
<1>1. IsWellFoundedOn(Less, Nat)
  BY NatLessThanWellFounded, Zenon DEF OpToRel, Less
<1>2. PICK i \in receipts : \A j \in receipts : ~(<<j, i>> \in Less)
  BY <1>1, WFMin, Zenon
<1>3. \A j \in receipts : i <= j
  <2>1. SUFFICES ASSUME NEW j \in receipts PROVE i <= j
    OBVIOUS
  <2>2. ~(<<j, i>> \in Less)
    BY <1>2, Zenon
  <2>3. ~(j < i)
    BY <2>2 DEF Less
  <2>. QED
    BY <2>3
<1>. QED
  BY <1>3, Zenon DEF Oldest

LEMMA RecordKeeps == IInv /\ Record => IInv'
<1>. SUFFICES ASSUME IInv, Record PROVE IInv'
  OBVIOUS
<1>1. /\ call.at = "record" /\ receipts # {} /\ Goto("forget")
      /\ events' = [events EXCEPT ![Oldest] = IF @ = 0 THEN 1 ELSE @]
      /\ UNCHANGED <<request, claim, response, receipts, effects, value, helper, ids, settled,
                     denied, promise, faults>>
  BY DEF Record, At, files, World, target, said
<1>2. /\ call' \in Calls /\ Data(call, call') /\ Outcome(call, call')
      /\ call'.late = call.late /\ call'.step = call.step /\ call'.at = "forget"
  BY <1>1, GotoEffect DEF IInv, Typed, Places
<1>3. /\ receipts \subseteq 1 .. ids /\ ids \in 0 .. MaxEffects /\ effects \subseteq 1 .. ids
      /\ events \in [Ids -> {0, 1}] /\ ~settled
      /\ call.mine = {} /\ call.step = "recover"
  BY <1>1 DEF IInv, Typed, JournalInv, CallInv
<1>4. Oldest \in 1 .. ids /\ Oldest \in Ids /\ Oldest \in receipts
  BY <1>1, <1>3, OldestIsReceipt, NoneIsNoData DEF Ids
<1>5. /\ events' \in [Ids -> {0, 1}] /\ events'[Oldest] = 1
      /\ \A i \in Ids : i # Oldest => events'[i] = events[i]
  BY <1>1, <1>3, <1>4
<1>6. Oldest' = Oldest
  BY <1>1 DEF Oldest
<1>7. Typed'
  BY <1>1, <1>2, <1>5 DEF IInv, Typed, Data
<1>8. FilesInv'
  BY <1>1 DEF IInv, FilesInv, Sensible, Truthful
<1>9. \A i : Quiet(i)' <=> Quiet(i)
  BY <1>1 DEF Quiet
<1>10. NoWrite' <=> NoWrite
  BY <1>1 DEF NoWrite
<1>11. DeniedInv' /\ PromiseInv'
  BY <1>1, <1>9, <1>10 DEF IInv, DeniedInv, PromiseInv
<1>12. JournalInv'
  <2>1. EffectsRecordedOnce'
    <3>1. \A i \in Ids : events'[i] \in {0, 1}
      BY <1>5
    <3>2. \A i \in effects : i \in Ids /\ (events[i] = 1 => events'[i] = 1)
      BY <1>3, <1>5, NoneIsNoData DEF Ids
    <3>. QED
      BY <1>1, <1>3, <3>1, <3>2 DEF IInv, JournalInv, EffectsRecordedOnce
  <2>2. \A i \in Ids : i > ids => events'[i] = 0
    <3>1. SUFFICES ASSUME NEW i \in Ids, i > ids PROVE i # Oldest
      BY <1>5 DEF IInv, JournalInv
    <3>. QED
      BY <1>3, <1>4, <3>1, NoneIsNoData DEF Ids
  <2>. QED
    BY <1>1, <1>3, <2>1, <2>2 DEF JournalInv
<1>13. CallInv'
  BY <1>1, <1>2, <1>3, <1>5, <1>6 DEF IInv, CallInv, Data
<1>14. ExchangeInv'
  BY <1>2 DEF ExchangeInv
<1>15. UnissuedInv' /\ WrittenInv'
  BY <1>2, <1>3 DEF UnissuedInv, WrittenInv, Data
<1>. QED
  BY <1>7, <1>8, <1>11, <1>12, <1>13, <1>14, <1>15 DEF IInv

LEMMA ForgetKeeps == IInv /\ Forget => IInv'
<1>. SUFFICES ASSUME IInv, Forget PROVE IInv'
  OBVIOUS
<1>1. /\ call.at = "forget" /\ receipts' = receipts \ {Oldest}
      /\ call' = [call EXCEPT !.at = "record", !.late = TRUE]
      /\ UNCHANGED <<request, claim, response, events, effects, value, helper, ids, settled,
                     denied, promise, faults>>
  BY DEF Forget, At, files, World, target, said
<1>2. /\ call' \in Calls /\ Data(call, call') /\ call'.step = call.step /\ call'.at = "record"
  <2>1. PICK yes \in BOOLEAN : yes = TRUE
    OBVIOUS
  <2>2. PICK a : a = [call EXCEPT !.at = "record"]
    OBVIOUS
  <2>3. call' = [a EXCEPT !.late = yes]
    BY <1>1, <2>1, <2>2, Zenon
  <2>4. a \in Calls /\ Agree(call, a, {"at"}) /\ a.at = "record"
    BY <2>2, SetAt DEF IInv, Typed, Places
  <2>5. call' \in Calls /\ Agree(a, call', {"late"})
    BY <2>3, <2>4, SetLate
  <2>. QED
    BY <2>4, <2>5 DEF Agree, Fields, Data
<1>3. /\ call.mine = {} /\ call.step = "recover" /\ ~settled
      /\ Oldest \in receipts => events[Oldest] = 1
  BY <1>1 DEF IInv, CallInv, JournalInv
<1>4. Typed'
  BY <1>1, <1>2 DEF IInv, Typed, Data
<1>5. FilesInv'
  BY <1>1 DEF IInv, FilesInv, Sensible, Truthful
<1>6. \A i : Quiet(i)' <=> Quiet(i)
  BY <1>1 DEF Quiet
<1>7. NoWrite' <=> NoWrite
  BY <1>1 DEF NoWrite
<1>8. DeniedInv' /\ PromiseInv'
  BY <1>1, <1>6, <1>7 DEF IInv, DeniedInv, PromiseInv
<1>9. JournalInv'
  BY <1>1, <1>3 DEF IInv, JournalInv, EffectsRecordedOnce
<1>10. CallInv'
  BY <1>1, <1>2, <1>3 DEF IInv, CallInv, Data
<1>11. ExchangeInv'
  BY <1>2 DEF ExchangeInv
<1>12. UnissuedInv' /\ WrittenInv'
  BY <1>2, <1>3 DEF UnissuedInv, WrittenInv, Data
<1>. QED
  BY <1>4, <1>5, <1>8, <1>9, <1>10, <1>11, <1>12 DEF IInv

LEMMA RecoveredKeeps == IInv /\ Recovered => IInv'
<1>. SUFFICES ASSUME IInv, Recovered PROVE IInv'
  OBVIOUS
<1>1. /\ call.at = "record" /\ receipts = {}
      /\ UNCHANGED <<request, claim, response, receipts, events, effects, value, helper, ids,
                     faults>>
  BY DEF Recovered, At, files, journal, World, target
<1>2. /\ call \in Calls /\ call.op \in Ops /\ call.mine = {} /\ call.step = "recover"
      /\ call.op # "read" /\ (call.restore => call.op = "write") /\ claim = None
      /\ (call.op = "settle" => helper.at = "gone")
      /\ ~settled /\ settled \in BOOLEAN /\ faults \in 0 .. MaxFaults
      /\ call.answered = {}
  BY <1>1 DEF IInv, Typed, CallInv, JournalInv
<1>3. CASE call.op = "settle"
  <2>1. settled' = TRUE /\ Report(call)
    BY <1>3 DEF Recovered
  <2>2. call' = NoCall /\ promise' = promise /\ denied' \subseteq denied
    BY <1>2, <1>3, <2>1 DEF Report
  <2>3. settled' \in BOOLEAN
    BY <2>1
  <2>. QED
    BY <1>1, <1>2, <1>3, <2>2, <2>3, EndKeeps
<1>4. CASE call.op # "settle" /\ (call.op = "recover" \/ call.late)
  <2>1. Report([call EXCEPT !.failed = TRUE]) /\ UNCHANGED settled
    BY <1>4 DEF Recovered
  <2>2. PICK yes \in BOOLEAN : yes = TRUE
    OBVIOUS
  <2>3. PICK lost : lost = [call EXCEPT !.failed = yes]
    OBVIOUS
  <2>4. lost \in Calls /\ Agree(call, lost, {"failed"}) /\ lost.failed = yes
    BY <1>2, <2>3, SetFailed
  <2>5. Report(lost)
    BY <2>1, <2>2, <2>3
  <2>6. call' = NoCall /\ promise' = promise /\ denied' \subseteq denied
    BY <1>2, <2>2, <2>4, <2>5 DEF Report, Agree, Fields
  <2>. QED
    BY <1>1, <1>2, <2>1, <2>6, EndKeeps
<1>5. CASE call.op \in {"write", "resume"} /\ ~call.late
  <2>1. PICK step \in {"old", "write", "resume"} :
          /\ step = IF call.restore THEN "old" ELSE call.op
          /\ Try(call, step) /\ UNCHANGED <<settled, said>>
    BY <1>2, <1>5 DEF Recovered
  <2>2. /\ call' \in Calls /\ Data(call, call') /\ Outcome(call, call')
        /\ call'.late = call.late /\ call'.at = "look" /\ call'.step = step
    BY <1>2, <2>1, TryEffect DEF Steps
  <2>3. Typed' /\ WorldInv'
    BY <1>1, <1>2, <2>1, <2>2, WorldKept
       DEF IInv, WorldInv, Data, files, journal, World, target
  <2>4. CallInv'
    BY <1>1, <1>2, <1>5, <2>1, <2>2 DEF IInv, CallInv, Data, Steps
  <2>5. ExchangeInv' /\ UnissuedInv' /\ WrittenInv'
    BY <1>2, <2>1, <2>2 DEF ExchangeInv, UnissuedInv, WrittenInv, Data
  <2>. QED
    BY <2>3, <2>4, <2>5 DEF IInv, WorldInv
<1>. QED
  BY <1>2, <1>3, <1>4, <1>5 DEF Ops

-----------------------------------------------------------------------------
LEMMA Invariance == Spec => []IInv
<1>1. IInv /\ [Next]_vars => IInv'
  <2>1. SUFFICES ASSUME IInv, [Next]_vars PROVE IInv'
    OBVIOUS
  <2>2. ASSUME HelperSteps \/ HelperEnds \/ HelperDies PROVE IInv'
    BY <2>1, <2>2, HelperClaimsKeeps, HelperWorksKeeps, HelperAnswersKeeps,
       HelperLeavesKeeps DEF HelperSteps
  <2>3. ASSUME CallSteps PROVE IInv'
    BY <2>1, <2>3, LookFailsKeeps, NothingLeftKeeps, LateKeeps, PublishReadKeeps,
       PublishChangeKeeps, ReceiveKeeps, TimesOutKeeps, BankKeeps, DropKeeps, UnclaimKeeps,
       AnsweredKeeps, ResumedKeeps, AppendEventKeeps, AcknowledgeKeeps, RecordKeeps,
       ForgetKeeps, RecoveredKeeps DEF CallSteps
  <2>4. ASSUME Begin \/ BankFails \/ AppendFails \/ RecordFails \/ ServerDies PROVE IInv'
    BY <2>1, <2>4, BeginKeeps, BankFailsKeeps, AppendFailsKeeps, LookFailsKeeps,
       ServerDiesKeeps
  <2>5. ASSUME UNCHANGED vars PROVE IInv'
    BY <2>1, <2>5 DEF vars, files, journal, target, said, IInv, Typed, FilesInv, Sensible,
         Truthful, DeniedInv, Quiet, PromiseInv, NoWrite, JournalInv, EffectsRecordedOnce,
         CallInv, Oldest, ExchangeInv, Own, Awaited, Wanted, Changes, UnissuedInv, Pending,
         WrittenInv
  <2>. QED
    BY <2>1, <2>2, <2>3, <2>4, <2>5 DEF Next
<1>. QED
  BY <1>1, InitIInv, PTL DEF Spec

(* Every effect is in the journal once, or can still be put there; and     *)
(* what was denied is never done (hss-operations.ts,                       *)
(* recoverDurableMemoryTransactions, requestMemory).                       *)
THEOREM RequestsAreSound == Spec => []RequestsSound
<1>1. IInv => RequestsSound
  <2>1. SUFFICES ASSUME IInv PROVE RequestsSound
    OBVIOUS
  <2>2. TypeOK
    BY <2>1, NoneIsNoData DEF IInv, Typed, FilesInv, Sensible, TypeOK
  <2>3. EffectsRecordedOnce
    BY <2>1 DEF IInv, JournalInv
  <2>4. UnissuedStaysUnissued
    BY <2>1 DEF IInv, DeniedInv, Quiet, UnissuedStaysUnissued
  <2>. QED
    BY <2>2, <2>3, <2>4 DEF RequestsSound
<1>. QED
  BY <1>1, Invariance, PTL

(* A variable reported written holds that value until the next request to  *)
(* write one (writeMemoryThroughHelper and its restoration).               *)
THEOREM ReportedValuesHold == Spec => []ReportedValueHolds
<1>1. IInv => ReportedValueHolds
  BY DEF IInv, PromiseInv, ReportedValueHolds
<1>. QED
  BY <1>1, Invariance, PTL

-----------------------------------------------------------------------------
(***************************************************************************)
(* The one-shot commands of the native helper (HelperCommands), for every  *)
(* rate, number of samples and choice of timestamps, whatever call of the  *)
(* DLL fails or raises: its answer says what it did, and what it took it   *)
(* has given back.                                                         *)
(***************************************************************************)
FileOpen == {"start", "start guard", "ready", "drain", "sample", "record", "tail"}
Underway == FileOpen \cup {"entered", "stable", "match", "raw"}
Serving == {"sample", "record", "tail"}
WaysIn == {"plan", "trust", "manifest", "load", "select", "open", "policy", "gui", "attach",
           "device", "script", "link", "connect"}
Untouched == WaysIn \cup {"guard", "caps", "caps guard", "caps close", "observe", "before",
                          "act", "enter"}

AnyLoop == [attempt : 0 .. Requested, left : 0 .. BatchBound, decoded : Nat, crashed : BOOLEAN,
            readError : BOOLEAN, stopped : BOOLEAN, budget : BOOLEAN, rawFailed : BOOLEAN,
            ipcFailed : BOOLEAN, readyFailed : BOOLEAN, memory : {"none", "wrote", "unknown"}, resumed : BOOLEAN]

CommandTypes ==
  /\ CommandTypeOK
  /\ phase \in Untouched \cup Underway \cup {"after", "done"}
  /\ loop \in AnyLoop

(* What has been done to the target, and what is held, by the phase.       *)
PhaseInv ==
  /\ phase \in Underway \cup {"enter"} => Capture
  /\ phase \in {"caps", "caps guard", "caps close"} => job.op = "getcaps"
  /\ phase = "guard" => job.op \in {"capture", "getcaps"}
  /\ phase = "observe" => job.op = "preflight"
  /\ phase \in {"before", "act", "after"} => job.op = "control"
  /\ phase \in Untouched => did = {}
  /\ phase \in Underway \ Serving => did = IF job.state = "halted" THEN {"resume"} ELSE {}
  /\ phase \in Untouched \cup (Underway \ Serving) => ~loop.resumed
  /\ phase \in Serving =>
       did = IF job.state = "halted" \/ loop.resumed THEN {"resume"} ELSE {}
  /\ phase = "after" => did = Controls[job.act]
  /\ phase = "caps close" => core = job.state
  /\ phase \notin FileOpen => held.raw # "open"
  /\ phase \notin FileOpen \ {"start"} => held.hss # "on"
  /\ phase = "record" => loop.attempt < Requested

(* The counters, and the file they speak of.                               *)
CountInv ==
  /\ SamplesAccounted
  /\ ~seq.has => seq.dup = 0 /\ seq.gaps = 0 /\ seq.gapSlots = 0
  /\ seq.has => seq.first = written[1] /\ seq.lastSlot = written[Len(written)]
  /\ \A i \in 2 .. Len(written) : written[i - 1] <= written[i]
  /\ seq.dup = 0 /\ seq.gaps = 0 =>
       \A i \in 1 .. Len(written) : written[i] = written[1] + i - 1

(* AnswerTruthful of an answer a, the controls d, the state t, and r: a    *)
(* memory request resumed the target.                                      *)
TrueOf(a, d, t, r) ==
  /\ a.halt = ("halt" \in d)
  /\ a.reset = ("reset" \in d)
  /\ a.resume = "no" /\ "resume" \in d => a.unknown \/ r
  /\ a.resume = "yes" => "resume" \in d
  /\ a.restored => t = IF a.halt THEN "halted" ELSE "running"
  /\ a.after \in States => t = a.after

DoneInv ==
  phase = "done" =>
    /\ ~held.lib /\ ~held.session
    /\ TrueOf(answer, did, core, loop.resumed)
    /\ FileMatchesAnswer

CommandInv == CommandTypes /\ PhaseInv /\ CountInv /\ DoneInv

(* A record in the slot of the last one, or after a gap of g slots.        *)
LEMMA SlotsAddUp ==
  ASSUME /\ seq.first \in Nat /\ seq.lastSlot \in Nat /\ seq.emitted \in Nat
         /\ seq.dup \in Nat /\ seq.gaps \in Nat /\ seq.gapSlots \in Nat,
         seq.lastSlot - seq.first + 1 = seq.emitted - seq.dup + seq.gapSlots,
         NEW g \in Nat
  PROVE  /\ seq.lastSlot - seq.first + 1
              = (seq.emitted + 1) - (seq.dup + 1) + (seq.gapSlots + 0)
         /\ (seq.lastSlot + 1 + g) - seq.first + 1
              = (seq.emitted + 1) - seq.dup + (seq.gapSlots + g)
OBVIOUS

LEMMA NextOrFurther ==
  ASSUME NEW a \in Nat, NEW b \in Nat, b >= a, b # a
  PROVE  b > a + 1 \/ (~(b > a + 1) /\ b - a - 1 = 0)
OBVIOUS

LEMMA SlotIsNat ==
  ASSUME NEW t \in Times
  PROVE  Slot(t) \in Nat
<1>1. t \in Nat /\ Rate \in Nat
  BY TimesAssumption, RateAssumption
<1>2. t * Rate \in Nat
  BY <1>1
<1>3. \A x \in Nat : (x + 500) \div 1000 \in Nat
  OBVIOUS
<1> QED BY <1>2, <1>3 DEF Slot

(* One record more, counted and appended.                                  *)
LEMMA RecordCounted ==
  ASSUME CommandTypeOK, CountInv, NEW t \in Times, ~Backwards(seq, t), seq.emitted < Requested,
         seq' = CountRecord(seq, t), written' = Append(written, Slot(t))
  PROVE  SequenceOK' /\ seq'.emitted <= Requested /\ written' \in Seq(Nat) /\ CountInv'
<1> USE RequestedAssumption
<1>1. PICK n \in Nat : n = Slot(t)
  BY SlotIsNat
<1> DEFINE l == Len(written)
<1>2. /\ written \in Seq(Nat) /\ written' \in Seq(Nat) /\ l \in Nat /\ Len(written') = l + 1
      /\ \A i \in 1 .. l : written[i] \in Nat /\ written'[i] = written[i]
      /\ written'[l + 1] = n
  BY <1>1 DEF CommandTypeOK
<1>3. SequenceOK /\ (seq.has => n >= seq.lastSlot) /\ t \in Nat
  BY <1>1, TimesAssumption DEF CommandTypeOK, SequenceOK, Backwards
<1>4. /\ seq.emitted = l
      /\ seq.has <=> seq.emitted > 0
      /\ seq.has => seq.lastSlot - seq.first + 1 = seq.emitted - seq.dup + seq.gapSlots
      /\ ~seq.has => seq.dup = 0 /\ seq.gaps = 0 /\ seq.gapSlots = 0
      /\ seq.has => seq.first = written[1] /\ seq.lastSlot = written[l]
      /\ \A i \in 2 .. l : written[i - 1] <= written[i]
      /\ seq.dup = 0 /\ seq.gaps = 0 => \A i \in 1 .. l : written[i] = written[1] + i - 1
  BY DEF CountInv, SamplesAccounted
<1> HIDE DEF l
<1>5. PICK g \in Nat : g = IF seq.has /\ Slot(t) > seq.lastSlot + 1
                           THEN Slot(t) - seq.lastSlot - 1 ELSE 0
  BY <1>1, <1>3 DEF SequenceOK
<1>6. seq' = [has |-> TRUE, invalid |-> seq.invalid, last |-> t,
              first |-> IF seq.has THEN seq.first ELSE Slot(t), lastSlot |-> Slot(t),
              emitted |-> seq.emitted + 1,
              dup |-> IF seq.has /\ Slot(t) = seq.lastSlot THEN seq.dup + 1 ELSE seq.dup,
              gaps |-> IF g > 0 THEN seq.gaps + 1 ELSE seq.gaps,
              gapSlots |-> seq.gapSlots + g]
  BY <1>5, Zenon DEF CountRecord
<1>7. PICK v \in BOOLEAN, f \in Nat, d \in Nat, q \in Nat, e \in Nat, z \in Nat :
        /\ v = seq.invalid
        /\ f = IF seq.has THEN seq.first ELSE Slot(t)
        /\ d = IF seq.has /\ Slot(t) = seq.lastSlot THEN seq.dup + 1 ELSE seq.dup
        /\ q = IF g > 0 THEN seq.gaps + 1 ELSE seq.gaps
        /\ e = seq.emitted + 1
        /\ z = seq.gapSlots + g
  <2>1. seq.invalid \in BOOLEAN
    BY <1>3, Zenon DEF SequenceOK
  <2>2. (IF seq.has THEN seq.first ELSE Slot(t)) \in Nat
    BY <1>1, <1>3 DEF SequenceOK
  <2>3. (IF seq.has /\ Slot(t) = seq.lastSlot THEN seq.dup + 1 ELSE seq.dup) \in Nat
    BY <1>1, <1>3 DEF SequenceOK
  <2>4. (IF g > 0 THEN seq.gaps + 1 ELSE seq.gaps) \in Nat
    BY <1>3 DEF SequenceOK
  <2>5. seq.emitted + 1 \in Nat /\ seq.gapSlots + g \in Nat
    BY <1>3 DEF SequenceOK
  <2> QED BY <2>1, <2>2, <2>3, <2>4, <2>5, Zenon
<1>8. seq' = [has |-> TRUE, invalid |-> v, last |-> t, first |-> f, lastSlot |-> n,
              emitted |-> e, dup |-> d, gaps |-> q, gapSlots |-> z]
  BY <1>1, <1>6, <1>7, Zenon
<1>9. SequenceOK' /\ seq'.emitted <= Requested
  <2>1. SequenceOK'
    BY <1>3, <1>8 DEF SequenceOK
  <2>2. e <= Requested
    BY <1>3, <1>7 DEF SequenceOK
  <2> QED BY <1>8, <2>1, <2>2
<1>10. /\ seq'.has /\ seq'.first = f /\ seq'.lastSlot = n /\ seq'.emitted = e
       /\ seq'.dup = d /\ seq'.gaps = q /\ seq'.gapSlots = z
  BY <1>8
<1>11. /\ seq.first \in Nat /\ seq.lastSlot \in Nat /\ seq.emitted \in Nat
       /\ seq.dup \in Nat /\ seq.gaps \in Nat /\ seq.gapSlots \in Nat
  BY <1>3, Zenon DEF SequenceOK
<1>12. ASSUME ~seq.has PROVE CountInv'
  <2>1. seq.emitted = 0 /\ l = 0
    BY <1>4, <1>11, <1>12
  <2>2. e = 1 /\ f = n /\ d = 0 /\ z = 0
    <3>1. d = seq.dup /\ f = n /\ g = 0 /\ e = seq.emitted + 1 /\ z = seq.gapSlots + g
      BY <1>1, <1>5, <1>7, <1>12, Zenon
    <3> QED BY <1>4, <1>12, <2>1, <3>1
  <2>3. Len(written') = 1 /\ written'[1] = n
    BY <1>2, <2>1
  <2>4. SamplesAccounted'
    BY <1>10, <2>2, <2>3 DEF SamplesAccounted
  <2> QED BY <1>10, <2>2, <2>3, <2>4 DEF CountInv
<1>13. ASSUME seq.has PROVE CountInv'
  <2>1. /\ l > 0 /\ e = l + 1 /\ f = seq.first /\ n >= seq.lastSlot
        /\ seq.lastSlot - seq.first + 1 = seq.emitted - seq.dup + seq.gapSlots
    BY <1>2, <1>3, <1>4, <1>7, <1>11, <1>13
  <2>2. z = seq.gapSlots + g /\ e = seq.emitted + 1
    BY <1>7
  <2> DEFINE Counts == /\ n - f + 1 = e - d + z
                       /\ d = 0 /\ q = 0 => /\ seq.dup = 0 /\ seq.gaps = 0
                                            /\ n = seq.lastSlot + 1
  <2>3. ASSUME n = seq.lastSlot PROVE Counts
    <3>1. d = seq.dup + 1
      BY <1>1, <1>7, <1>13, <2>3, Zenon
    <3>2. ~(n > seq.lastSlot + 1)
      BY <1>11, <2>3
    <3>3. g = 0
      BY <1>1, <1>5, <3>2, Zenon
    <3>4. n - f + 1 = (seq.emitted + 1) - (seq.dup + 1) + (seq.gapSlots + 0)
      BY <1>11, <2>1, <2>3, SlotsAddUp, Zenon
    <3>5. n - f + 1 = e - d + z
      BY <2>2, <3>1, <3>3, <3>4, Zenon
    <3>6. d # 0
      BY <1>11, <3>1
    <3> QED BY <3>5, <3>6
  <2>4. ASSUME n # seq.lastSlot PROVE Counts
    <3>1. d = seq.dup
      BY <1>1, <1>7, <2>4, Zenon
    <3>2. g = n - seq.lastSlot - 1
      <4>1. n > seq.lastSlot + 1 \/ (~(n > seq.lastSlot + 1) /\ n - seq.lastSlot - 1 = 0)
        BY <1>1, <1>11, <2>1, <2>4, NextOrFurther, Zenon
      <4>2. CASE n > seq.lastSlot + 1
        BY <1>1, <1>5, <1>13, <4>2, Zenon
      <4>3. CASE ~(n > seq.lastSlot + 1) /\ n - seq.lastSlot - 1 = 0
        BY <1>1, <1>5, <4>3, Zenon
      <4> QED BY <4>1, <4>2, <4>3, Zenon
    <3>3. q = 0 => seq.gaps = 0 /\ g = 0
      BY <1>7, <1>11
    <3>6. n = seq.lastSlot + 1 + g
      BY <1>11, <3>2
    <3>7. (seq.lastSlot + 1 + g) - seq.first + 1 = (seq.emitted + 1) - seq.dup + (seq.gapSlots + g)
      BY <1>11, <2>1, SlotsAddUp, Zenon
    <3>4. n - f + 1 = e - d + z
      BY <2>1, <2>2, <3>1, <3>6, <3>7, Zenon
    <3>5. d = 0 /\ q = 0 => seq.dup = 0 /\ seq.gaps = 0 /\ n = seq.lastSlot + 1
      BY <1>11, <3>1, <3>2, <3>3
    <3> QED BY <3>4, <3>5
  <2>5. n - f + 1 = e - d + z
    BY <2>3, <2>4
  <2>6. d = 0 /\ q = 0 => seq.dup = 0 /\ seq.gaps = 0 /\ n = seq.lastSlot + 1
    BY <2>3, <2>4
  <2>7. SamplesAccounted'
    BY <1>2, <1>10, <2>1, <2>5 DEF SamplesAccounted
  <2>8. seq'.first = written'[1] /\ seq'.lastSlot = written'[Len(written')]
    BY <1>2, <1>4, <1>10, <1>13, <2>1
  <2>9. ASSUME NEW i \in 2 .. l + 1 PROVE written'[i - 1] <= written'[i]
    <3>1. CASE i = l + 1
      BY <1>2, <1>4, <1>13, <2>1, <3>1
    <3>2. CASE i # l + 1
      BY <1>2, <1>4, <3>2
    <3> QED BY <3>1, <3>2
  <2>10. ASSUME d = 0, q = 0, NEW i \in 1 .. l + 1 PROVE written'[i] = written'[1] + i - 1
    <3>1. /\ \A j \in 1 .. l : written[j] = written[1] + j - 1
          /\ n = written[l] + 1
      BY <1>4, <1>13, <2>6, <2>10
    <3>2. 1 \in 1 .. l
      BY <1>2, <2>1
    <3>3. written'[1] = written[1] /\ written[1] \in Nat
      BY <1>2, <3>2
    <3>4. CASE i = l + 1
      BY <1>2, <2>1, <3>1, <3>3, <3>4
    <3>5. CASE i # l + 1
      BY <1>2, <3>1, <3>3, <3>5
    <3> QED BY <3>4, <3>5
  <2> QED BY <1>2, <1>10, <1>13, <2>7, <2>8, <2>9, <2>10 DEF CountInv
<1> QED BY <1>2, <1>9, <1>12, <1>13

(* Nothing else touches the file, and the counters only to call them       *)
(* invalid.                                                                *)
LEMMA RestCounted ==
  ASSUME CommandTypeOK, CountInv, UNCHANGED written, seq' \in {seq, [seq EXCEPT !.invalid = TRUE]}
  PROVE  SequenceOK' /\ seq'.emitted <= Requested /\ written' \in Seq(Nat) /\ CountInv'
<1>1. SequenceOK /\ written' \in Seq(Nat)
  BY DEF CommandTypeOK
<1>2. /\ seq' \in [has : BOOLEAN, invalid : BOOLEAN, last : Nat, first : Nat, lastSlot : Nat,
                   emitted : Nat, dup : Nat, gaps : Nat, gapSlots : Nat]
      /\ (seq'.has <=> seq.has) /\ seq'.first = seq.first /\ seq'.lastSlot = seq.lastSlot
      /\ seq'.emitted = seq.emitted /\ seq'.dup = seq.dup /\ seq'.gaps = seq.gaps
      /\ seq'.gapSlots = seq.gapSlots
  BY <1>1 DEF SequenceOK
<1> QED BY <1>1, <1>2 DEF CommandTypeOK, SequenceOK, CountInv, SamplesAccounted

LEMMA SequenceKept ==
  ASSUME CommandTypes, CountInv, CommandNext
  PROVE  SequenceOK' /\ seq'.emitted <= Requested /\ written' \in Seq(Nat) /\ CountInv'
<1> USE RestCounted DEF CommandTypes
<1>1. CASE ReadPlan
    BY <1>1 DEF ReadPlan, Still, Quit, Go
<1>2. CASE TrustScript
    BY <1>2 DEF TrustScript, Still, Quit, Go
<1>3. CASE LoadManifest
    BY <1>3 DEF LoadManifest, Still, Quit, Go
<1>4. CASE Load
    BY <1>4 DEF Load, Still, Quit, Go
<1>5. CASE Select
    BY <1>5 DEF Select, Still, Quit, Go
<1>6. CASE Open
    BY <1>6 DEF Open, Still, Quit, Go
<1>7. CASE Setting
    BY <1>7 DEF Setting, Still, Quit, Go, NextSetting
<1>8. CASE Connect
    BY <1>8 DEF Connect, Quit, Go
<1>9. CASE Before
    BY <1>9 DEF Before, Guarded, Quit, Go
<1>10. CASE Caps
    BY <1>10 DEF Caps, Quit, Go
<1>11. CASE AfterCaps
    BY <1>11 DEF AfterCaps, Guarded, Quit, Go
<1>12. CASE CapsAnswer
    BY <1>12 DEF CapsAnswer, Still, Quit, Go
<1>13. CASE Observe
    BY <1>13 DEF Observe, Still, Quit, Go
<1>14. CASE LookBefore
    BY <1>14 DEF LookBefore, Still, Quit, Go
<1>15. CASE Act
    BY <1>15 DEF Act, Quit, Go
<1>16. CASE LookAfter
    BY <1>16 DEF LookAfter, Still, Quit, Go
<1>17. CASE Enter
    BY <1>17 DEF Enter, Guarded, Quit, Go
<1>18. CASE Entered
    BY <1>18 DEF Entered, Guarded, Quit, Go
<1>19. CASE Stable
    BY <1>19 DEF Stable, Still, Quit, Go
<1>20. CASE Match
    BY <1>20 DEF Match, Still, Quit, Go
<1>21. CASE OpenRaw
    BY <1>21 DEF OpenRaw, Still, Quit, Go
<1>22. CASE Start
    BY <1>22 DEF Start, QuitStarted, Go
<1>23. CASE StartGuard
    BY <1>23 DEF StartGuard, QuitStarted, Go
<1>24. CASE Ready
    BY <1>24 DEF Ready, Still, QuitStarted, Go
<1>25. CASE Drain
    BY <1>25 DEF Drain, LoopOnly
<1>26. CASE DrainFails
    BY <1>26 DEF DrainFails, LoopOnly
<1>27. CASE SampleStops
    BY <1>27 DEF SampleStops, LoopOnly
<1>28. CASE Sample
    BY <1>28 DEF Sample, LoopOnly, ServeOnly, ResumesServed
<1>29. CASE SampleEnds
    BY <1>29 DEF SampleEnds, LoopOnly
<1>30. CASE NotFirst
    BY <1>30 DEF NotFirst, RecordOnly
<1>31. CASE TakeRecord
    BY <1>31, RecordCounted DEF TakeRecord, InBatch
<1>32. CASE RecordBack
    BY <1>32 DEF RecordBack, RecordOnly
<1>33. CASE RecordLost
    BY <1>33 DEF RecordLost, RecordOnly
<1>34. CASE BatchEnds
    BY <1>34 DEF BatchEnds, LoopOnly
<1>35. CASE WaitOut
    BY <1>35 DEF WaitOut, LoopOnly, ServeOnly, ResumesServed
<1>36. CASE Finish
    BY <1>36 DEF Finish, QuitStarted
<1>37. CASE AskStop
    BY <1>37 DEF AskStop
<1>38. CASE TimePasses
    BY <1>38 DEF TimePasses
<1>39. CASE Settled
    BY <1>39 DEF Settled, commandVars
<1> QED BY <1>1, <1>2, <1>3, <1>4, <1>5, <1>6, <1>7, <1>8, <1>9, <1>10, <1>11, <1>12, <1>13, <1>14, <1>15, <1>16, <1>17, <1>18, <1>19, <1>20, <1>21, <1>22, <1>23, <1>24, <1>25, <1>26, <1>27, <1>28, <1>29, <1>30, <1>31, <1>32, <1>33, <1>34, <1>35, <1>36, <1>37, <1>38, <1>39
    DEF CommandNext, Helper, WayIn, Asked, Starting, Sampling, Recording


LEMMA JobFacts ==
  ASSUME job \in JobType
  PROVE  /\ job.op \in {"capture", "getcaps", "preflight", "control"}
         /\ job.op \in {"capture", "getcaps"} => job.state \in States
         /\ job.op = "control" => job.act \in {"look", "halt", "resume", "reset halt", "reset go"}
BY DEF JobType

(* A guard that passes has done nothing and found the state it expects; one *)
(* that does not is blind, or has tried to restore the state, or could not. *)
LEMMA GuardFinds ==
  ASSUME NEW s \in States, core \in States, NEW g \in Guard(s)
  PROVE  /\ g.target \in States /\ g.did \subseteq {"halt", "resume"}
         /\ g.pass => g.did = {} /\ g.target = s
         /\ ~g.pass =>
              \/ g.did = {} /\ ~g.restored /\ g.unknown
              \/ g.did = {} /\ ~g.restored /\ Capture /\ job.state = s /\ s = "running"
              \/ g.did = {Restorer(s)} /\ (g.restored => g.target = s)
<1> USE DEF Evidence
<1>1. CASE g = Blind
  BY <1>1 DEF Blind
<1>2. CASE g \in NoExport(s)
  BY <1>2 DEF NoExport
<1>3. CASE g \in Restores(s)
  <2>1. Restorer(s) \in {"halt", "resume"}
    BY DEF Restorer
  <2> QED BY <1>3, <2>1 DEF Restores
<1>4. CASE core = s /\ g = Evidence(TRUE, FALSE, FALSE, {}, core)
  BY <1>4
<1> QED BY <1>1, <1>2, <1>3, <1>4 DEF Guard

LEMMA GuardedGoesOn ==
  ASSUME NEW s \in States, core \in States, NEW next, Guarded(s, next)
  PROVE  /\ core' \in States
         /\ \/ phase' = next /\ UNCHANGED <<held, did, answer>> /\ core' = s
            \/ /\ \E g \in Guard(s), crashed \in BOOLEAN :
                    /\ ~g.pass /\ Quit(GuardError(g, crashed))
                    /\ core' = g.target /\ did' = did \cup g.did
               /\ phase' = "done" /\ held' = [held EXCEPT !.lib = FALSE, !.session = FALSE]
               /\ did' \subseteq did \cup {"halt", "resume"}
<1>1. PICK g \in Guard(s) :
        /\ core' = g.target
        /\ did' = did \cup g.did
        /\ IF g.pass THEN Go(next) /\ UNCHANGED held
           ELSE \E crashed \in BOOLEAN : Quit(GuardError(g, crashed))
  BY DEF Guarded
<1>2. g.target \in States /\ g.did \subseteq {"halt", "resume"} /\ (g.pass => g.did = {} /\ g.target = s)
  BY GuardFinds
<1>3. CASE g.pass
  BY <1>1, <1>2, <1>3 DEF Go
<1>4. CASE ~g.pass
  <2>1. PICK crashed \in BOOLEAN : Quit(GuardError(g, crashed))
    BY <1>1, <1>4
  <2>2. phase' = "done" /\ held' = [held EXCEPT !.lib = FALSE, !.session = FALSE]
    BY <2>1, Zenon DEF Quit
  <2>3. did' \subseteq did \cup {"halt", "resume"} /\ core' \in States
    BY <1>1, <1>2
  <2> QED BY <1>1, <1>4, <2>1, <2>2, <2>3, Zenon
<1> QED BY <1>3, <1>4

LEMMA GuardedMoves ==
  ASSUME NEW s \in States, core \in States, NEW next, Guarded(s, next)
  PROVE  /\ core' \in States
         /\ \/ phase' = next /\ UNCHANGED <<held, did>> /\ core' = s
            \/ /\ phase' = "done" /\ held' = [held EXCEPT !.lib = FALSE, !.session = FALSE]
               /\ did' \subseteq did \cup {"halt", "resume"}
BY GuardedGoesOn, Zenon

(* The guard after the start of HSS, of which the start is undone.         *)
LEMMA StartGuardMoves ==
  ASSUME core \in States, StartGuard
  PROVE  /\ core' \in States
         /\ \/ phase' = "ready" /\ UNCHANGED <<held, did, answer>>
            \/ /\ \E g \in Guard("running"), s \in Stopped, unclean \in BOOLEAN :
                    /\ ~g.pass /\ QuitStarted(GuardError(g, unclean \/ s = "lost"), s)
                    /\ core' = g.target /\ did' = did \cup g.did
               /\ phase' = "done" /\ held'.raw = "closed" /\ held'.hss \in Stopped
               /\ held' \in [lib : {FALSE}, session : {FALSE}, hss : {"off", "on", "lost"},
                             raw : {"none", "open", "closed"}]
               /\ did' \subseteq did \cup {"halt", "resume"}
<1>1. PICK g \in Guard("running") :
        /\ core' = g.target
        /\ did' = did \cup g.did
        /\ IF g.pass THEN Go("ready") /\ UNCHANGED held
           ELSE \E s \in Stopped, unclean \in BOOLEAN :
                    QuitStarted(GuardError(g, unclean \/ s = "lost"), s)
  BY DEF StartGuard
<1>2. /\ g.target \in States /\ g.did \subseteq {"halt", "resume"}
      /\ g.pass => g.did = {}
  BY GuardFinds DEF States
<1>3. CASE g.pass
  BY <1>1, <1>2, <1>3 DEF Go
<1>4. CASE ~g.pass
  <2>1. PICK s \in Stopped, unclean \in BOOLEAN :
          QuitStarted(GuardError(g, unclean \/ s = "lost"), s)
    BY <1>1, <1>4
  <2>2. phase' = "done" /\ held' = [Nothing EXCEPT !.raw = "closed", !.hss = s]
    BY <2>1, Zenon DEF QuitStarted
  <2>3. did' \subseteq did \cup {"halt", "resume"} /\ core' \in States
    BY <1>1, <1>2
  <2>4. /\ held'.raw = "closed" /\ held'.hss \in Stopped
        /\ held' \in [lib : {FALSE}, session : {FALSE}, hss : {"off", "on", "lost"},
                      raw : {"none", "open", "closed"}]
    BY <2>2 DEF Nothing, Stopped
  <2> QED BY <1>1, <1>4, <2>1, <2>2, <2>3, <2>4, Zenon
<1> QED BY <1>3, <1>4

LEMMA ControlsTyped ==
  ASSUME NEW a \in {"look", "halt", "resume", "reset halt", "reset go"}
  PROVE  Controls[a] \subseteq {"halt", "resume", "reset"}
BY DEF Controls


LEMMA TargetTyped ==
  ASSUME CommandTypes, PhaseInv, CommandNext
  PROVE  /\ UNCHANGED job
         /\ held' \in [lib : BOOLEAN, session : BOOLEAN, hss : {"off", "on", "lost"}, raw : {"none", "open", "closed"}]
         /\ core' \in States /\ did' \subseteq {"halt", "resume", "reset"}
         /\ stop' \in BOOLEAN /\ expired' \in BOOLEAN
         /\ phase' \in Untouched \cup Underway \cup {"after", "done"}
<1> USE JobFacts DEF CommandTypes, CommandTypeOK, PhaseInv, Capture, WaysIn, Untouched, Underway, FileOpen, Nothing, Stopped, States, Controls
<1>1. CASE ReadPlan
    BY <1>1 DEF ReadPlan, Still, Quit, Go
<1>2. CASE TrustScript
    BY <1>2 DEF TrustScript, Still, Quit, Go
<1>3. CASE LoadManifest
    BY <1>3 DEF LoadManifest, Still, Quit, Go
<1>4. CASE Load
    BY <1>4 DEF Load, Still, Quit, Go
<1>5. CASE Select
    BY <1>5 DEF Select, Still, Quit, Go
<1>6. CASE Open
    BY <1>6 DEF Open, Still, Quit, Go
<1>7. CASE Setting
    BY <1>7 DEF Setting, Still, Quit, Go, NextSetting
<1>8. CASE Connect
    BY <1>8 DEF Connect, Quit, Go
<1>9. CASE Before
    <2>1. job.state \in States /\ core \in States
      BY <1>9, JobFacts DEF Before
    <2>2. CASE phase' = "done" /\ held' = [held EXCEPT !.lib = FALSE, !.session = FALSE]
      <3>1. core' \in States /\ did' \subseteq did \cup {"halt", "resume"}
        BY <1>9, <2>1, GuardedMoves DEF Before
      <3> QED BY <1>9, <2>2, <3>1 DEF Before
    <2>3. CASE phase' = (IF Capture THEN "enter" ELSE "caps") /\ UNCHANGED <<held, did>> /\ core' = job.state
      BY <1>9, <2>1, <2>3 DEF Before
    <2> QED BY <1>9, <2>1, <2>2, <2>3, GuardedMoves, Zenon DEF Before
<1>10. CASE Caps
    BY <1>10 DEF Caps, Quit, Go
<1>11. CASE AfterCaps
    <2>1. job.state \in States /\ core \in States
      BY <1>11, JobFacts DEF AfterCaps
    <2>2. CASE phase' = "done" /\ held' = [held EXCEPT !.lib = FALSE, !.session = FALSE]
      <3>1. core' \in States /\ did' \subseteq did \cup {"halt", "resume"}
        BY <1>11, <2>1, GuardedMoves DEF AfterCaps
      <3> QED BY <1>11, <2>2, <3>1 DEF AfterCaps
    <2>3. CASE phase' = ("caps close") /\ UNCHANGED <<held, did>> /\ core' = job.state
      BY <1>11, <2>1, <2>3 DEF AfterCaps
    <2> QED BY <1>11, <2>1, <2>2, <2>3, GuardedMoves, Zenon DEF AfterCaps
<1>12. CASE CapsAnswer
    BY <1>12 DEF CapsAnswer, Still, Quit, Go
<1>13. CASE Observe
    BY <1>13 DEF Observe, Still, Quit, Go
<1>14. CASE LookBefore
    BY <1>14 DEF LookBefore, Still, Quit, Go
<1>15. CASE Act
    <2>1. Controls[job.act] \subseteq {"halt", "resume", "reset"}
      BY <1>15, JobFacts, ControlsTyped DEF Act
    <2> HIDE DEF Controls
    <2>2. CASE /\ did' = Controls[job.act]
               /\ core' \in IF did' = {} THEN {core} ELSE States
               /\ Go("after") /\ UNCHANGED held
      BY <1>15, <2>1, <2>2, ZenonT(40) DEF Act, Go
    <2>3. CASE phase' = "done" /\ held' = [held EXCEPT !.lib = FALSE, !.session = FALSE]
      <3>1. core' \in States
        BY <1>15 DEF Act
      <3>2. \/ did' = Controls[job.act] \/ did' = did
            \/ did' = Controls[job.act] \cap {"reset"}
        BY <1>15 DEF Act
      <3>3. did' \subseteq {"halt", "resume", "reset"}
        BY <2>1, <3>2
      <3> QED BY <1>15, <2>3, <3>1, <3>3 DEF Act
    <2> QED BY <1>15, <2>2, <2>3 DEF Act, Quit
<1>16. CASE LookAfter
    BY <1>16 DEF LookAfter, Still, Quit, Go
<1>17. CASE Enter
    <2>1. CASE \E crashed \in BOOLEAN : Quit(GuardError(Blind, crashed)) /\ UNCHANGED <<did, core>>
      BY <1>17, <2>1 DEF Enter, Quit
    <2>2. CASE job.state = "running" /\ Guarded("running", "stable")
      <3>1. "running" \in States /\ core \in States
        BY DEF States
      <3>2. CASE phase' = "stable" /\ UNCHANGED <<held, did>> /\ core' = "running"
        BY <1>17, <2>2, <3>2 DEF Enter
      <3>3. CASE phase' = "done" /\ held' = [held EXCEPT !.lib = FALSE, !.session = FALSE]
        <4>1. core' \in States /\ did' \subseteq did \cup {"halt", "resume"}
          BY <2>2, <3>1, GuardedMoves
        <4> QED BY <1>17, <3>3, <4>1 DEF Enter
      <3> QED BY <2>2, <3>1, <3>2, <3>3, GuardedMoves, Zenon
    <2>3. CASE Quit(Error(FALSE)) /\ UNCHANGED <<did, core>>
      BY <1>17, <2>3 DEF Enter, Quit
    <2>4. CASE job.state = "halted" /\ did' = did \cup {"resume"} /\ core' \in States /\ Quit(Error(FALSE))
      BY <1>17, <2>4 DEF Enter, Quit
    <2>5. CASE job.state = "halted" /\ did' = did \cup {"resume"} /\ core' \in States /\ Go("entered") /\ UNCHANGED held
      BY <1>17, <2>5 DEF Enter, Go
    <2> QED BY <1>17, <2>1, <2>2, <2>3, <2>4, <2>5 DEF Enter
<1>18. CASE Entered
    <2>1. CASE Guarded("running", "stable")
      <3>1. "running" \in States /\ core \in States
        BY DEF States
      <3>2. CASE phase' = "stable" /\ UNCHANGED <<held, did>> /\ core' = "running"
        BY <1>18, <2>1, <3>2 DEF Entered
      <3>3. CASE phase' = "done" /\ held' = [held EXCEPT !.lib = FALSE, !.session = FALSE]
        <4>1. core' \in States /\ did' \subseteq did \cup {"halt", "resume"}
          BY <2>1, <3>1, GuardedMoves
        <4> QED BY <1>18, <3>3, <4>1 DEF Entered
      <3> QED BY <2>1, <3>1, <3>2, <3>3, GuardedMoves, Zenon
    <2>2. CASE \E crashed \in BOOLEAN : Quit(GuardError(Blind, crashed)) /\ UNCHANGED <<did, core>>
      BY <1>18, <2>2 DEF Entered, Quit
    <2> QED BY <1>18, <2>1, <2>2 DEF Entered
<1>19. CASE Stable
    BY <1>19 DEF Stable, Still, Quit, Go
<1>20. CASE Match
    BY <1>20 DEF Match, Still, Quit, Go
<1>21. CASE OpenRaw
    BY <1>21 DEF OpenRaw, Still, Quit, Go
<1>22. CASE Start
    BY <1>22 DEF Start, QuitStarted, Go
<1>23. CASE StartGuard
    BY <1>23, StartGuardMoves DEF StartGuard
<1>24. CASE Ready
    BY <1>24 DEF Ready, Still, QuitStarted, Go
<1>25. CASE Drain
    BY <1>25, ZenonT(40) DEF Drain, LoopOnly
<1>26. CASE DrainFails
    BY <1>26 DEF DrainFails, LoopOnly
<1>27. CASE SampleStops
    BY <1>27 DEF SampleStops, LoopOnly
<1>28. CASE Sample
    BY <1>28 DEF Sample, LoopOnly, ServeOnly, ResumesServed
<1>29. CASE SampleEnds
    BY <1>29 DEF SampleEnds, LoopOnly
<1>30. CASE NotFirst
    <2> HIDE DEF Untouched, Underway, WaysIn, FileOpen
    <2>1. UNCHANGED <<job, phase, held, core, did>>
      BY <1>30 DEF NotFirst, RecordOnly
    <2>2. stop' \in BOOLEAN /\ expired' \in BOOLEAN
      BY <1>30, Zenon DEF NotFirst, RecordOnly
    <2> QED BY <2>1, <2>2
<1>31. CASE TakeRecord
    <2> HIDE DEF Untouched, Underway, WaysIn, FileOpen
    <2>1. UNCHANGED <<job, phase, held, core, did>>
      BY <1>31 DEF TakeRecord, RecordOnly
    <2>2. stop' \in BOOLEAN /\ expired' \in BOOLEAN
      BY <1>31, Zenon DEF TakeRecord, RecordOnly
    <2> QED BY <2>1, <2>2
<1>32. CASE RecordBack
    <2> HIDE DEF Untouched, Underway, WaysIn, FileOpen
    <2>1. UNCHANGED <<job, phase, held, core, did>>
      BY <1>32 DEF RecordBack, RecordOnly
    <2>2. stop' \in BOOLEAN /\ expired' \in BOOLEAN
      BY <1>32, Zenon DEF RecordBack, RecordOnly
    <2> QED BY <2>1, <2>2
<1>33. CASE RecordLost
    <2> HIDE DEF Untouched, Underway, WaysIn, FileOpen
    <2>1. UNCHANGED <<job, phase, held, core, did>>
      BY <1>33 DEF RecordLost, RecordOnly
    <2>2. stop' \in BOOLEAN /\ expired' \in BOOLEAN
      BY <1>33, Zenon DEF RecordLost, RecordOnly
    <2> QED BY <2>1, <2>2
<1>34. CASE BatchEnds
    BY <1>34, ZenonT(40) DEF BatchEnds, LoopOnly
<1>35. CASE WaitOut
    BY <1>35 DEF WaitOut, LoopOnly, ServeOnly, ResumesServed
<1>36. CASE Finish
    BY <1>36 DEF Finish, QuitStarted
<1>37. CASE AskStop
    <2> HIDE DEF Untouched, Underway, WaysIn, FileOpen
    <2>1. UNCHANGED <<job, phase, held, core, did>>
      BY <1>37 DEF AskStop
    <2>2. stop' \in BOOLEAN /\ expired' \in BOOLEAN
      BY <1>37, Zenon DEF AskStop
    <2> QED BY <2>1, <2>2
<1>38. CASE TimePasses
    <2> HIDE DEF Untouched, Underway, WaysIn, FileOpen
    <2>1. UNCHANGED <<job, phase, held, core, did>>
      BY <1>38 DEF TimePasses
    <2>2. stop' \in BOOLEAN /\ expired' \in BOOLEAN
      BY <1>38, Zenon DEF TimePasses
    <2> QED BY <2>1, <2>2
<1>39. CASE Settled
    <2> HIDE DEF Untouched, Underway, WaysIn, FileOpen
    <2>1. UNCHANGED <<job, phase, held, core, did>>
      BY <1>39 DEF Settled, commandVars
    <2>2. stop' \in BOOLEAN /\ expired' \in BOOLEAN
      BY <1>39, Zenon DEF Settled, commandVars
    <2> QED BY <2>1, <2>2
<1> QED BY <1>1, <1>2, <1>3, <1>4, <1>5, <1>6, <1>7, <1>8, <1>9, <1>10, <1>11, <1>12, <1>13, <1>14, <1>15, <1>16, <1>17, <1>18, <1>19, <1>20, <1>21, <1>22, <1>23, <1>24, <1>25, <1>26, <1>27, <1>28, <1>29, <1>30, <1>31, <1>32, <1>33, <1>34, <1>35, <1>36, <1>37, <1>38, <1>39
    DEF CommandNext, Helper, WayIn, Asked, Starting, Sampling, Recording


LEMMA MemoryPicks ==
  ASSUME NEW l, NEW r, r \in Memory(l)
  PROVE  \E m \in {l.memory, "wrote", "unknown"}, f \in BOOLEAN, d \in {l.resumed, TRUE} :
           r = Handled(l, m, f, d)
<1> DEFINE Writes == {l.memory, "wrote", "unknown"}
           Flags == {l.resumed, TRUE}
<1>1. Memory(l) = {Handled(l, m, f, d) : m \in Writes, f \in BOOLEAN, d \in Flags}
  BY DEF Memory
<1> HIDE DEF Writes, Flags
<1>2. \E m \in Writes, f \in BOOLEAN, d \in Flags : r = Handled(l, m, f, d)
  BY <1>1
<1> QED BY <1>2 DEF Writes, Flags

(* What the loop, a request or a read makes of the counters and flags.     *)
LEMMA LoopUpdates ==
  ASSUME NEW l \in AnyLoop
  PROVE  /\ [l EXCEPT !.readyFailed = TRUE] \in AnyLoop
         /\ [l EXCEPT !.stopped = TRUE] \in AnyLoop
         /\ Serves(l) \subseteq AnyLoop /\ Read(l) \subseteq AnyLoop
         /\ [l EXCEPT !.left = 0] \in AnyLoop
         /\ [l EXCEPT !.left = 0, !.budget = TRUE] \in AnyLoop
         /\ [l EXCEPT !.left = 0, !.rawFailed = TRUE] \in AnyLoop
         /\ [l EXCEPT !.left = 0, !.decoded = @ + 1] \in AnyLoop
         /\ l.left > 0 => [l EXCEPT !.left = @ - 1, !.decoded = @ + 1] \in AnyLoop
         /\ l.attempt < Requested => [l EXCEPT !.left = 0, !.attempt = @ + 1] \in AnyLoop
<1> USE RequestedAssumption DEF AnyLoop, BatchBound
<1>1. ASSUME NEW m \in AnyLoop, NEW b \in BOOLEAN
      PROVE  /\ [m EXCEPT !.readyFailed = b] \in AnyLoop /\ [m EXCEPT !.stopped = b] \in AnyLoop
             /\ [m EXCEPT !.budget = b] \in AnyLoop /\ [m EXCEPT !.rawFailed = b] \in AnyLoop
             /\ [m EXCEPT !.readError = b] \in AnyLoop /\ [m EXCEPT !.crashed = b] \in AnyLoop
             /\ [m EXCEPT !.ipcFailed = b] \in AnyLoop /\ [m EXCEPT !.resumed = b] \in AnyLoop
  OBVIOUS
<1>2. ASSUME NEW m \in AnyLoop, NEW n \in 0 .. BatchBound
      PROVE  [m EXCEPT !.left = n] \in AnyLoop /\ [m EXCEPT !.left = n].decoded = m.decoded
             /\ [m EXCEPT !.left = n].attempt = m.attempt
  OBVIOUS
<1>3. ASSUME NEW m \in AnyLoop, NEW w \in {"none", "wrote", "unknown"}
      PROVE  [m EXCEPT !.memory = w] \in AnyLoop
  OBVIOUS
<1>4. ASSUME NEW m \in AnyLoop
      PROVE  /\ [m EXCEPT !.decoded = m.decoded + 1] \in AnyLoop
             /\ m.attempt < Requested => [m EXCEPT !.attempt = m.attempt + 1] \in AnyLoop
  OBVIOUS
<1>7. TRUE \in BOOLEAN /\ 0 \in 0 .. BatchBound /\ l.memory \in {"none", "wrote", "unknown"}
  OBVIOUS
<1>14. l.left > 0 => l.left - 1 \in 0 .. BatchBound
  OBVIOUS
<1> HIDE DEF AnyLoop, BatchBound
<1>5. PICK e \in AnyLoop :
        e = [l EXCEPT !.left = 0] /\ e.decoded = l.decoded /\ e.attempt = l.attempt
  BY <1>2, <1>7, Zenon
<1>6. /\ [l EXCEPT !.left = 0, !.budget = TRUE] = [e EXCEPT !.budget = TRUE]
      /\ [l EXCEPT !.left = 0, !.rawFailed = TRUE] = [e EXCEPT !.rawFailed = TRUE]
      /\ [l EXCEPT !.left = 0, !.decoded = @ + 1] = [e EXCEPT !.decoded = e.decoded + 1]
      /\ [l EXCEPT !.left = 0, !.attempt = @ + 1] = [e EXCEPT !.attempt = e.attempt + 1]
  BY <1>5 DEF AnyLoop
<1>8. Serves(l) \subseteq AnyLoop
  <2>2. ASSUME NEW m \in {l.memory, "wrote", "unknown"}, NEW f \in BOOLEAN, NEW d \in {l.resumed, TRUE}
        PROVE  [l EXCEPT !.memory = m, !.ipcFailed = f, !.resumed = d] \in AnyLoop
    <3>1. [l EXCEPT !.memory = m] \in AnyLoop
      BY <1>3, <1>7, Zenon
    <3>2. [[l EXCEPT !.memory = m] EXCEPT !.ipcFailed = f] \in AnyLoop
      BY <1>1, <3>1, Zenon
    <3>3. d \in BOOLEAN
      BY DEF AnyLoop
    <3>4. [[[l EXCEPT !.memory = m] EXCEPT !.ipcFailed = f] EXCEPT !.resumed = d] \in AnyLoop
      BY <1>1, <3>2, <3>3, Zenon
    <3> QED BY <3>4
  <2>4. ASSUME NEW r \in Memory(l) PROVE r \in AnyLoop
    <3>1. PICK m \in {l.memory, "wrote", "unknown"}, f \in BOOLEAN, d \in {l.resumed, TRUE} :
            r = Handled(l, m, f, d)
      BY MemoryPicks
    <3> QED BY <2>2, <3>1, Zenon DEF Handled
  <2> QED BY <2>4, Zenon DEF Serves
<1>9. Read(l) \subseteq AnyLoop
  <2>1. [l EXCEPT !.readError = TRUE] \in AnyLoop
    BY <1>1, <1>7, Zenon
  <2>2. [[l EXCEPT !.readError = TRUE] EXCEPT !.crashed = TRUE] \in AnyLoop
    BY <1>1, <1>7, <2>1, Zenon
  <2>3. [l EXCEPT !.readError = TRUE, !.crashed = TRUE] \in AnyLoop
    BY <2>2
  <2>4. \A n \in 0 .. BatchBound : [l EXCEPT !.left = n] \in AnyLoop
    BY <1>2, Zenon
  <2> QED BY <2>1, <2>3, <2>4 DEF Read
<1>10. l.left > 0 => [l EXCEPT !.left = @ - 1, !.decoded = @ + 1] \in AnyLoop
  <2> SUFFICES ASSUME l.left > 0 PROVE [l EXCEPT !.left = @ - 1, !.decoded = @ + 1] \in AnyLoop
    OBVIOUS
  <2>1. PICK n \in 0 .. BatchBound : n = l.left - 1
    BY <1>14, Zenon
  <2> DEFINE Fewer == [l EXCEPT !.left = n]
  <2>2. Fewer \in AnyLoop /\ Fewer.decoded = l.decoded
    BY <1>2, Zenon
  <2>3. [l EXCEPT !.left = @ - 1, !.decoded = @ + 1] = [Fewer EXCEPT !.decoded = Fewer.decoded + 1]
    BY <2>1, <2>2
  <2> QED BY <1>4, <2>2, <2>3, Zenon
<1>11. /\ [l EXCEPT !.readyFailed = TRUE] \in AnyLoop /\ [l EXCEPT !.stopped = TRUE] \in AnyLoop
       /\ [e EXCEPT !.budget = TRUE] \in AnyLoop
       /\ [e EXCEPT !.rawFailed = TRUE] \in AnyLoop
  BY <1>1, <1>5, <1>7, Zenon
<1>12. /\ [e EXCEPT !.decoded = e.decoded + 1] \in AnyLoop
       /\ l.attempt < Requested => [e EXCEPT !.attempt = e.attempt + 1] \in AnyLoop
  BY <1>4, <1>5, Zenon
<1> QED BY <1>5, <1>6, <1>8, <1>9, <1>10, <1>11, <1>12, Zenon

LEMMA BeatsTyped ==
  ASSUME NEW ls, ls \subseteq AnyLoop
  PROVE  Beats(ls) \subseteq AnyLoop
BY LoopUpdates, Zenon DEF Beats

LEMMA AttemptKept ==
  ASSUME NEW l \in AnyLoop
  PROVE  /\ \A m \in Read(l) : m.attempt = l.attempt /\ m.resumed = l.resumed
         /\ \A m \in Beats(Serves(l)) : m.attempt = l.attempt /\ (l.resumed => m.resumed)
<1>1. \A n : [l EXCEPT !.left = n].attempt = l.attempt /\ [l EXCEPT !.left = n].resumed = l.resumed
  BY DEF AnyLoop
<1>2. [l EXCEPT !.readError = TRUE].attempt = l.attempt /\ [l EXCEPT !.readError = TRUE].resumed = l.resumed
  BY DEF AnyLoop
<1>3. /\ [l EXCEPT !.readError = TRUE, !.crashed = TRUE].attempt = l.attempt
      /\ [l EXCEPT !.readError = TRUE, !.crashed = TRUE].resumed = l.resumed
  BY DEF AnyLoop
<1>4. \A m \in Read(l) : m.attempt = l.attempt /\ m.resumed = l.resumed
  BY <1>1, <1>2, <1>3 DEF Read
<1>5. ASSUME NEW m \in Serves(l) PROVE m.attempt = l.attempt /\ (l.resumed => m.resumed)
  <2>1. PICK w \in {l.memory, "wrote", "unknown"}, f \in BOOLEAN, d \in {l.resumed, TRUE} :
          m = Handled(l, w, f, d)
    BY MemoryPicks, Zenon DEF Serves
  <2> QED BY <2>1 DEF AnyLoop, Handled
<1>6. ASSUME NEW m \in AnyLoop
      PROVE  /\ [m EXCEPT !.readyFailed = TRUE].attempt = m.attempt
             /\ [m EXCEPT !.readyFailed = TRUE].resumed = m.resumed
  BY DEF AnyLoop
<1> QED BY <1>4, <1>5, <1>6, LoopUpdates, Zenon DEF Beats

(* An end to the loop, and a pass more, are no requests.                   *)
LEMMA ResumedKept ==
  ASSUME loop \in AnyLoop, Drain \/ SampleStops \/ BatchEnds
  PROVE  loop'.resumed = loop.resumed
<1>1. CASE Drain
  <2>1. \/ loop' = loop \/ loop' = [loop EXCEPT !.stopped = TRUE]
        \/ loop' = [loop EXCEPT !.readyFailed = TRUE]
    BY <1>1, Zenon DEF Drain, Beats
  <2> QED BY <2>1 DEF AnyLoop
<1>2. CASE SampleStops
  <2>1. loop' = [loop EXCEPT !.stopped = TRUE]
    BY <1>2, Zenon DEF SampleStops
  <2> QED BY <2>1 DEF AnyLoop
<1>3. CASE BatchEnds
  <2>1. \/ loop' = [loop EXCEPT !.left = 0]
        \/ loop' = [loop EXCEPT !.left = 0, !.attempt = @ + 1]
    BY <1>3, Zenon DEF BatchEnds
  <2> QED BY <2>1 DEF AnyLoop
<1> QED BY <1>1, <1>2, <1>3

LEMMA LoopTyped ==
  ASSUME CommandTypes, PhaseInv, CommandNext
  PROVE  loop' \in AnyLoop
<1> USE DEF CommandTypes
<1>1. CASE ReadPlan
    BY <1>1 DEF ReadPlan, Still, Quit, Go
<1>2. CASE TrustScript
    BY <1>2 DEF TrustScript, Still, Quit, Go
<1>3. CASE LoadManifest
    BY <1>3 DEF LoadManifest, Still, Quit, Go
<1>4. CASE Load
    BY <1>4 DEF Load, Still, Quit, Go
<1>5. CASE Select
    BY <1>5 DEF Select, Still, Quit, Go
<1>6. CASE Open
    BY <1>6 DEF Open, Still, Quit, Go
<1>7. CASE Setting
    BY <1>7 DEF Setting, Still, Quit, Go, NextSetting
<1>8. CASE Connect
    BY <1>8 DEF Connect, Quit, Go
<1>9. CASE Before
    BY <1>9 DEF Before, Guarded, Quit, Go
<1>10. CASE Caps
    BY <1>10 DEF Caps, Quit, Go
<1>11. CASE AfterCaps
    BY <1>11 DEF AfterCaps, Guarded, Quit, Go
<1>12. CASE CapsAnswer
    BY <1>12 DEF CapsAnswer, Still, Quit, Go
<1>13. CASE Observe
    BY <1>13 DEF Observe, Still, Quit, Go
<1>14. CASE LookBefore
    BY <1>14 DEF LookBefore, Still, Quit, Go
<1>15. CASE Act
    BY <1>15 DEF Act, Quit, Go
<1>16. CASE LookAfter
    BY <1>16 DEF LookAfter, Still, Quit, Go
<1>17. CASE Enter
    BY <1>17 DEF Enter, Guarded, Quit, Go
<1>18. CASE Entered
    BY <1>18 DEF Entered, Guarded, Quit, Go
<1>19. CASE Stable
    BY <1>19 DEF Stable, Still, Quit, Go
<1>20. CASE Match
    BY <1>20 DEF Match, Still, Quit, Go
<1>21. CASE OpenRaw
    BY <1>21 DEF OpenRaw, Still, Quit, Go
<1>22. CASE Start
    BY <1>22 DEF Start, QuitStarted, Go
<1>23. CASE StartGuard
    BY <1>23 DEF StartGuard, QuitStarted, Go
<1>24. CASE Ready
    BY <1>24 DEF Ready, Still, QuitStarted, Go
<1>25. CASE Drain
    <2>1. Beats({loop}) \subseteq AnyLoop
      BY BeatsTyped
    <2> QED BY <1>25, <2>1, LoopUpdates, Zenon DEF Drain
<1>26. CASE DrainFails
    BY <1>26 DEF DrainFails, LoopOnly
<1>27. CASE SampleStops
    BY <1>27, LoopUpdates, Zenon DEF SampleStops
<1>28. CASE Sample
    <2>1. Beats(Serves(loop)) \subseteq AnyLoop
      BY BeatsTyped, LoopUpdates, Zenon
    <2> QED BY <1>28, <2>1, LoopUpdates, Zenon DEF Sample
<1>29. CASE SampleEnds
    BY <1>29 DEF SampleEnds, LoopOnly
<1>30. CASE NotFirst
    BY <1>30, LoopUpdates, Zenon DEF NotFirst
<1>31. CASE TakeRecord
    BY <1>31, LoopUpdates, Zenon DEF TakeRecord, InBatch
<1>32. CASE RecordBack
    BY <1>32, LoopUpdates, Zenon DEF RecordBack
<1>33. CASE RecordLost
    BY <1>33, LoopUpdates, Zenon DEF RecordLost
<1>34. CASE BatchEnds
    BY <1>34, LoopUpdates, Zenon DEF BatchEnds, PhaseInv
<1>35. CASE WaitOut
    <2>1. Beats(Serves(loop)) \subseteq AnyLoop
      BY BeatsTyped, LoopUpdates
    <2> QED BY <1>35, <2>1, LoopUpdates, Zenon DEF WaitOut
<1>36. CASE Finish
    BY <1>36 DEF Finish, QuitStarted
<1>37. CASE AskStop
    BY <1>37 DEF AskStop
<1>38. CASE TimePasses
    BY <1>38 DEF TimePasses
<1>39. CASE Settled
    BY <1>39 DEF Settled, commandVars
<1> QED BY <1>1, <1>2, <1>3, <1>4, <1>5, <1>6, <1>7, <1>8, <1>9, <1>10, <1>11, <1>12, <1>13, <1>14, <1>15, <1>16, <1>17, <1>18, <1>19, <1>20, <1>21, <1>22, <1>23, <1>24, <1>25, <1>26, <1>27, <1>28, <1>29, <1>30, <1>31, <1>32, <1>33, <1>34, <1>35, <1>36, <1>37, <1>38, <1>39
    DEF CommandNext, Helper, WayIn, Asked, Starting, Sampling, Recording


LEMMA PhaseKept ==
  ASSUME CommandTypes, PhaseInv, CommandNext
  PROVE  PhaseInv'
<1> USE JobFacts DEF CommandTypes, CommandTypeOK, PhaseInv, Capture, WaysIn, Untouched, Underway, Serving, FileOpen, Nothing, Stopped, States
<1>1. CASE ReadPlan
    BY <1>1 DEF ReadPlan, Still, Quit, Go
<1>2. CASE TrustScript
    BY <1>2 DEF TrustScript, Still, Quit, Go
<1>3. CASE LoadManifest
    BY <1>3 DEF LoadManifest, Still, Quit, Go
<1>4. CASE Load
    BY <1>4 DEF Load, Still, Quit, Go
<1>5. CASE Select
    BY <1>5 DEF Select, Still, Quit, Go
<1>6. CASE Open
    BY <1>6 DEF Open, Still, Quit, Go
<1>7. CASE Setting
    BY <1>7, ZenonT(40) DEF Setting, Still, Quit, Go, NextSetting
<1>8. CASE Connect
    BY <1>8 DEF Connect, Quit, Go
<1>9. CASE Before
    <2>1. job.state \in States /\ core \in States
      BY <1>9, JobFacts DEF Before
    <2>2. CASE phase' = "done" /\ held' = [held EXCEPT !.lib = FALSE, !.session = FALSE]
      <3>1. core' \in States /\ did' \subseteq did \cup {"halt", "resume"}
        BY <1>9, <2>1, GuardedMoves DEF Before
      <3> QED BY <1>9, <2>2, <3>1 DEF Before
    <2>3. CASE phase' = (IF Capture THEN "enter" ELSE "caps") /\ UNCHANGED <<held, did>> /\ core' = job.state
      BY <1>9, <2>1, <2>3 DEF Before
    <2> QED BY <1>9, <2>1, <2>2, <2>3, GuardedMoves, ZenonT(40) DEF Before
<1>10. CASE Caps
    BY <1>10 DEF Caps, Quit, Go
<1>11. CASE AfterCaps
    <2>1. job.state \in States /\ core \in States
      BY <1>11, JobFacts DEF AfterCaps
    <2>2. CASE phase' = "done" /\ held' = [held EXCEPT !.lib = FALSE, !.session = FALSE]
      <3>1. core' \in States /\ did' \subseteq did \cup {"halt", "resume"}
        BY <1>11, <2>1, GuardedMoves DEF AfterCaps
      <3> QED BY <1>11, <2>2, <3>1 DEF AfterCaps
    <2>3. CASE phase' = ("caps close") /\ UNCHANGED <<held, did>> /\ core' = job.state
      BY <1>11, <2>1, <2>3 DEF AfterCaps
    <2> QED BY <1>11, <2>1, <2>2, <2>3, GuardedMoves, Zenon DEF AfterCaps
<1>12. CASE CapsAnswer
    BY <1>12 DEF CapsAnswer, Still, Quit, Go
<1>13. CASE Observe
    BY <1>13 DEF Observe, Still, Quit, Go
<1>14. CASE LookBefore
    BY <1>14 DEF LookBefore, Still, Quit, Go
<1>15. CASE Act
    <2>1. Controls[job.act] \subseteq {"halt", "resume", "reset"}
      BY <1>15, JobFacts, ControlsTyped DEF Act
    <2> HIDE DEF Controls
    <2>2. CASE /\ did' = Controls[job.act]
               /\ core' \in IF did' = {} THEN {core} ELSE States
               /\ Go("after") /\ UNCHANGED held
      BY <1>15, <2>1, <2>2 DEF Act, Go
    <2>3. CASE phase' = "done" /\ held' = [held EXCEPT !.lib = FALSE, !.session = FALSE]
      <3>1. core' \in States
        BY <1>15 DEF Act
      <3>2. \/ did' = Controls[job.act] \/ did' = did
            \/ did' = Controls[job.act] \cap {"reset"}
        BY <1>15 DEF Act
      <3>3. did' \subseteq {"halt", "resume", "reset"}
        BY <2>1, <3>2
      <3> QED BY <1>15, <2>3, <3>1, <3>3 DEF Act
    <2> QED BY <1>15, <2>2, <2>3 DEF Act, Quit
<1>16. CASE LookAfter
    BY <1>16 DEF LookAfter, Still, Quit, Go
<1>17. CASE Enter
    <2>1. CASE \E crashed \in BOOLEAN : Quit(GuardError(Blind, crashed)) /\ UNCHANGED <<did, core>>
      BY <1>17, <2>1 DEF Enter, Quit
    <2>2. CASE job.state = "running" /\ Guarded("running", "stable")
      <3>1. "running" \in States /\ core \in States
        BY DEF States
      <3>2. CASE phase' = "stable" /\ UNCHANGED <<held, did>> /\ core' = "running"
        BY <1>17, <2>2, <3>2 DEF Enter
      <3>3. CASE phase' = "done" /\ held' = [held EXCEPT !.lib = FALSE, !.session = FALSE]
        <4>1. core' \in States /\ did' \subseteq did \cup {"halt", "resume"}
          BY <2>2, <3>1, GuardedMoves
        <4> QED BY <1>17, <3>3, <4>1 DEF Enter
      <3> QED BY <2>2, <3>1, <3>2, <3>3, GuardedMoves, Zenon
    <2>3. CASE Quit(Error(FALSE)) /\ UNCHANGED <<did, core>>
      BY <1>17, <2>3 DEF Enter, Quit
    <2>4. CASE job.state = "halted" /\ did' = did \cup {"resume"} /\ core' \in States /\ Quit(Error(FALSE))
      BY <1>17, <2>4 DEF Enter, Quit
    <2>5. CASE job.state = "halted" /\ did' = did \cup {"resume"} /\ core' \in States /\ Go("entered") /\ UNCHANGED held
      BY <1>17, <2>5 DEF Enter, Go
    <2> QED BY <1>17, <2>1, <2>2, <2>3, <2>4, <2>5 DEF Enter
<1>18. CASE Entered
    <2>1. CASE Guarded("running", "stable")
      <3>1. "running" \in States /\ core \in States
        BY DEF States
      <3>2. CASE phase' = "stable" /\ UNCHANGED <<held, did>> /\ core' = "running"
        BY <1>18, <2>1, <3>2 DEF Entered
      <3>3. CASE phase' = "done" /\ held' = [held EXCEPT !.lib = FALSE, !.session = FALSE]
        <4>1. core' \in States /\ did' \subseteq did \cup {"halt", "resume"}
          BY <2>1, <3>1, GuardedMoves
        <4> QED BY <1>18, <3>3, <4>1 DEF Entered
      <3> QED BY <2>1, <3>1, <3>2, <3>3, GuardedMoves, Zenon
    <2>2. CASE \E crashed \in BOOLEAN : Quit(GuardError(Blind, crashed)) /\ UNCHANGED <<did, core>>
      BY <1>18, <2>2 DEF Entered, Quit
    <2> QED BY <1>18, <2>1, <2>2 DEF Entered
<1>19. CASE Stable
    BY <1>19 DEF Stable, Still, Quit, Go
<1>20. CASE Match
    BY <1>20 DEF Match, Still, Quit, Go
<1>21. CASE OpenRaw
    BY <1>21 DEF OpenRaw, Still, Quit, Go
<1>22. CASE Start
    BY <1>22 DEF Start, QuitStarted, Go
<1>23. CASE StartGuard
    BY <1>23, StartGuardMoves DEF StartGuard
<1>24. CASE Ready
    BY <1>24 DEF Ready, Still, QuitStarted, Go
<1>25. CASE Drain
    BY <1>25, ResumedKept DEF Drain, LoopOnly
<1>26. CASE DrainFails
    BY <1>26 DEF DrainFails, LoopOnly
<1>27. CASE SampleStops
    BY <1>27, ResumedKept DEF SampleStops, LoopOnly
<1>28. CASE Sample
    <2>1. loop.attempt < Requested /\ loop'.attempt = loop.attempt /\ (loop.resumed => loop'.resumed)
      <3>1. \A l \in Beats(Serves(loop)) : l \in AnyLoop
        BY LoopUpdates, BeatsTyped, Zenon
      <3>2. PICK l \in Beats(Serves(loop)) : loop' \in Read(l)
        BY <1>28 DEF Sample
      <3>3. /\ l.attempt = loop.attempt /\ loop'.attempt = l.attempt
            /\ (loop.resumed => l.resumed) /\ loop'.resumed = l.resumed
        BY <3>1, <3>2, AttemptKept, Zenon
      <3> QED BY <1>28, <3>3 DEF Sample, InTime
    <2> QED BY <1>28, <2>1 DEF Sample, ServeOnly, ResumesServed
<1>29. CASE SampleEnds
    BY <1>29 DEF SampleEnds, LoopOnly
<1>30. CASE NotFirst
    <2>1. RecordOnly /\ loop'.attempt = loop.attempt /\ loop'.resumed = loop.resumed
      BY <1>30 DEF NotFirst, AnyLoop
    <2> QED BY <2>1 DEF RecordOnly
<1>31. CASE TakeRecord
    <2>1. RecordOnly /\ loop'.attempt = loop.attempt /\ loop'.resumed = loop.resumed
      BY <1>31 DEF TakeRecord, AnyLoop
    <2> QED BY <2>1 DEF RecordOnly
<1>32. CASE RecordBack
    <2>1. RecordOnly /\ loop'.attempt = loop.attempt /\ loop'.resumed = loop.resumed
      BY <1>32 DEF RecordBack, AnyLoop
    <2> QED BY <2>1 DEF RecordOnly
<1>33. CASE RecordLost
    <2>1. RecordOnly /\ loop'.attempt = loop.attempt /\ loop'.resumed = loop.resumed
      BY <1>33 DEF RecordLost, AnyLoop
    <2> QED BY <2>1 DEF RecordOnly
<1>34. CASE BatchEnds
    BY <1>34, ResumedKept DEF BatchEnds, LoopOnly
<1>35. CASE WaitOut
    <2>1. CASE loop' = [loop EXCEPT !.stopped = TRUE] /\ LoopOnly
      <3>1. loop'.resumed = loop.resumed
        BY <2>1 DEF AnyLoop
      <3> QED BY <1>35, <2>1, <3>1 DEF WaitOut, LoopOnly
    <2>2. CASE loop' \in Beats(Serves(loop)) /\ ServeOnly
      <3>1. loop.resumed => loop'.resumed
        BY <2>2, AttemptKept, Zenon
      <3> QED BY <1>35, <2>2, <3>1 DEF WaitOut, ServeOnly, ResumesServed
    <2> QED BY <1>35, <2>1, <2>2, Zenon DEF WaitOut
<1>36. CASE Finish
    BY <1>36 DEF Finish, QuitStarted
<1>37. CASE AskStop
    BY <1>37 DEF AskStop
<1>38. CASE TimePasses
    BY <1>38 DEF TimePasses
<1>39. CASE Settled
    BY <1>39 DEF Settled, commandVars
<1> QED BY <1>1, <1>2, <1>3, <1>4, <1>5, <1>6, <1>7, <1>8, <1>9, <1>10, <1>11, <1>12, <1>13, <1>14, <1>15, <1>16, <1>17, <1>18, <1>19, <1>20, <1>21, <1>22, <1>23, <1>24, <1>25, <1>26, <1>27, <1>28, <1>29, <1>30, <1>31, <1>32, <1>33, <1>34, <1>35, <1>36, <1>37, <1>38, <1>39
    DEF CommandNext, Helper, WayIn, Asked, Starting, Sampling, Recording


(* An answer that says nothing of the samples.                             *)
Sober(a) == a.quality = FALSE /\ (a.kind \in {"ok", "stopped"} => ~Capture)

LEMMA AnswerGiven ==
  ASSUME CommandTypes, NEW a, Quit(a) \/ (\E s \in Stopped : QuitStarted(a, s)),
         TrueOf(a, did', core', loop'.resumed), Sober(a), UNCHANGED job
  PROVE  DoneInv'
<1>1. answer' = a
  BY Zenon DEF Quit, QuitStarted
<1>2. ~held'.lib /\ ~held'.session
  <2>1. held \in [lib : BOOLEAN, session : BOOLEAN, hss : {"off", "on", "lost"},
                  raw : {"none", "open", "closed"}]
    BY DEF CommandTypes, CommandTypeOK
  <2>2. CASE Quit(a)
    BY <2>1, <2>2 DEF Quit
  <2>3. ASSUME NEW s \in Stopped, QuitStarted(a, s) PROVE ~held'.lib /\ ~held'.session
    BY <2>3 DEF QuitStarted, Nothing
  <2> QED BY <2>2, <2>3, Zenon
<1>3. FileMatchesAnswer'
  <2>1. answer'.quality = FALSE /\ (answer'.kind \in {"ok", "stopped"} => ~Capture')
    BY <1>1, Zenon DEF Sober, Capture
  <2> QED BY <2>1, Zenon DEF FileMatchesAnswer
<1> QED BY <1>1, <1>2, <1>3, Zenon DEF DoneInv, TrueOf

(* A membership as a Boolean value.                                         *)
LEMMA MemberIs ==
  ASSUME NEW x, NEW D, NEW E
  PROVE  /\ x \notin D => (x \in D) = FALSE
         /\ (x \in D <=> x \in E) => (x \in E) = (x \in D)
<1>1. x \notin D => (x \in D) = FALSE
  <2>1. CASE x \in D
    BY <2>1, Zenon
  <2>2. CASE ~(x \in D)
    BY <2>2, SMT
  <2> QED BY <2>1, <2>2, Zenon
<1>2. (x \in D <=> x \in E) => (x \in E) = (x \in D)
  BY SMT
<1> QED BY <1>1, <1>2

LEMMA ErrorIs ==
  ASSUME NEW u
  PROVE  /\ Error(u).halt = FALSE /\ Error(u).reset = FALSE /\ Error(u).resume = "unsaid"
         /\ Error(u).restored = FALSE /\ Error(u).after = "unsaid"
         /\ Error(u).quality = FALSE /\ Error(u).kind = "error"
BY Zenon DEF Error

LEMMA ErrorAnswered ==
  ASSUME CommandTypes, NEW u, Quit(Error(u)) \/ (\E s \in Stopped : QuitStarted(Error(u), s)),
         "halt" \notin did', "reset" \notin did', UNCHANGED job
  PROVE  DoneInv'
<1>1. "unsaid" # "no" /\ "unsaid" # "yes" /\ "unsaid" \notin States /\ "error" \notin {"ok", "stopped"}
  BY DEF States
<1>2. ("halt" \in did') = FALSE /\ ("reset" \in did') = FALSE
  BY MemberIs
<1>3. TrueOf(Error(u), did', core', loop'.resumed) /\ Sober(Error(u))
  BY <1>1, <1>2, ErrorIs, Zenon DEF TrueOf, Sober
<1> QED BY <1>3, AnswerGiven

LEMMA StartErrorAnswered ==
  ASSUME CommandTypes, NEW u, NEW s \in Stopped, QuitStarted(StartError(u), s),
         did' = IF job.state = "halted" THEN {"resume"} ELSE {}, UNCHANGED job
  PROVE  DoneInv'
<1> DEFINE a == StartError(u)
<1>1. /\ a.halt = FALSE /\ a.reset = FALSE /\ a.restored = FALSE /\ a.after = "unsaid"
      /\ a.quality = FALSE /\ a.kind = "error"
      /\ a.resume = IF job.state = "halted" THEN "yes" ELSE "no"
  BY DEF StartError, Error
<1>2. "halt" \notin did' /\ "reset" \notin did' /\ (a.resume = "yes" <=> "resume" \in did')
  BY <1>1
<1>3. "unsaid" \notin States /\ "error" \notin {"ok", "stopped"} /\ "yes" # "no"
  BY DEF States
<1>4. a.resume \in {"yes", "no"}
  BY <1>1
<1> HIDE DEF a
<1>5. a.resume = "no" => "resume" \notin did'
  BY <1>2, <1>3, Zenon
<1>6. ("halt" \in did') = FALSE /\ ("reset" \in did') = FALSE
  BY <1>2, MemberIs
<1>7. TrueOf(a, did', core', loop'.resumed) /\ Sober(a)
  BY <1>1, <1>2, <1>3, <1>5, <1>6, Zenon DEF TrueOf, Sober
<1> QED BY <1>7, AnswerGiven DEF a

LEMMA GuardAnswered ==
  ASSUME CommandTypes, NEW s \in States, NEW g \in Guard(s), NEW c,
         Quit(GuardError(g, c)) \/ (\E h \in Stopped : QuitStarted(GuardError(g, c), h)),
         ~g.pass, core' = g.target, did' = did \cup g.did, UNCHANGED job,
         "halt" \notin did, "reset" \notin did,
         "resume" \in did => s = "running" /\ ~(Capture /\ job.state = "running")
  PROVE  DoneInv'
<1> DEFINE a == GuardError(g, c)
<1>1. /\ a.halt = ("halt" \in g.did) /\ a.reset = FALSE /\ a.restored = g.restored
      /\ a.after = "unsaid" /\ a.quality = FALSE /\ a.kind = "guard"
      /\ a.unknown = (g.unknown \/ c)
      /\ a.resume = IF "resume" \in g.did THEN "yes" ELSE "no"
  BY Zenon DEF GuardError
<1>2. /\ \/ g.did = {} /\ ~g.restored /\ g.unknown
         \/ g.did = {} /\ ~g.restored /\ Capture /\ job.state = "running"
         \/ g.did = {Restorer(s)} /\ (g.restored => g.target = s)
      /\ g.did \subseteq {"halt", "resume"}
  BY GuardFinds DEF CommandTypes, CommandTypeOK
<1>3. "unsaid" \notin States /\ "guard" \notin {"ok", "stopped"} /\ "yes" # "no"
  BY DEF States
<1>4. "halt" \in did' <=> "halt" \in g.did
  OBVIOUS
<1>5. "reset" \notin did'
  BY <1>2
<1>6. "resume" \in g.did => "resume" \in did'
  OBVIOUS
<1>7. "resume" \notin g.did /\ "resume" \in did' => g.unknown
  <2>1. SUFFICES ASSUME "resume" \notin g.did, "resume" \in did, ~g.unknown PROVE FALSE
    OBVIOUS
  <2>2. g.did = {Restorer(s)} /\ s = "running"
    BY <1>2, <2>1
  <2> QED BY <2>1, <2>2 DEF Restorer
<1>8. g.restored => g.target = IF "halt" \in g.did THEN "halted" ELSE "running"
  BY <1>2 DEF Restorer, States
<1> HIDE DEF a
<1>9. a.resume = "no" /\ "resume" \in did' => a.unknown
  BY <1>1, <1>3, <1>7, Zenon
<1>10. a.resume = "yes" => "resume" \in did'
  BY <1>1, <1>3, <1>6, Zenon
<1>11. a.halt = ("halt" \in did') /\ a.reset = ("reset" \in did')
  <2>1. ("reset" \in did') = FALSE
    BY <1>5, MemberIs
  <2>2. ("halt" \in did') = ("halt" \in g.did)
    BY <1>4, MemberIs
  <2> QED BY <1>1, <2>1, <2>2, Zenon
<1>12. a.restored => core' = IF a.halt THEN "halted" ELSE "running"
  BY <1>1, <1>8, Zenon
<1>13. TrueOf(a, did', core', loop'.resumed) /\ Sober(a)
  BY <1>1, <1>3, <1>9, <1>10, <1>11, <1>12, Zenon DEF TrueOf, Sober
<1> QED BY <1>13, AnswerGiven DEF a

LEMMA OkAnswered ==
  ASSUME CommandTypes, NEW t, Quit(Ok(t)), did' = {}, t \in States => core' = t,
         ~Capture, UNCHANGED job
  PROVE  DoneInv'
<1> DEFINE a == Ok(t)
<1>1. /\ a.halt = FALSE /\ a.reset = FALSE /\ a.restored = FALSE /\ a.after = t
      /\ a.quality = FALSE /\ a.resume = "unsaid"
  BY DEF Ok, Error
<1>2. /\ "unsaid" # "yes" /\ "unsaid" # "no"
      /\ ("halt" \in did') = FALSE /\ ("reset" \in did') = FALSE
  BY MemberIs
<1> HIDE DEF a
<1>3. TrueOf(a, did', core', loop'.resumed) /\ Sober(a)
  BY <1>1, <1>2, Zenon DEF TrueOf, Sober
<1> QED BY <1>3, AnswerGiven DEF a

LEMMA ControlAnswered ==
  ASSUME CommandTypes, NEW k, NEW u, NEW t, Quit(ControlAnswer(k, u, did', t)),
         t \in States => core' = t, ~Capture, UNCHANGED job
  PROVE  DoneInv'
<1> DEFINE a == ControlAnswer(k, u, did', t)
<1>1. /\ a.halt = ("halt" \in did') /\ a.reset = ("reset" \in did') /\ a.restored = FALSE
      /\ a.after = t /\ a.quality = FALSE
      /\ a.resume = IF "resume" \in did' THEN "yes" ELSE "no"
  BY Zenon DEF ControlAnswer
<1>2. "yes" # "no"
  OBVIOUS
<1> HIDE DEF a
<1>3. (a.resume = "no" /\ "resume" \in did' => a.unknown) /\ (a.resume = "yes" => "resume" \in did')
  BY <1>1, <1>2, Zenon
<1>4. (a.restored => core' = IF a.halt THEN "halted" ELSE "running") /\ (a.after \in States => core' = a.after)
  BY <1>1, Zenon
<1>5. TrueOf(a, did', core', loop'.resumed)
  BY <1>1, <1>3, <1>4, Zenon DEF TrueOf
<1>6. Sober(a)
  BY <1>1, Zenon DEF Sober
<1> QED BY <1>5, <1>6, AnswerGiven DEF a


(* The verdict on a capture, and why its file is what it says.             *)
LEMMA VerdictIs ==
  ASSUME NEW c
  PROVE  /\ Verdict(c).halt = FALSE /\ Verdict(c).reset = FALSE /\ Verdict(c).restored = FALSE
         /\ Verdict(c).after = "unsaid" /\ Verdict(c).quality = Reportable(seq)
         /\ Verdict(c).kind = IF Failed(c) THEN "error"
                              ELSE IF loop.stopped \/ loop.budget THEN "stopped" ELSE "ok"
         /\ Verdict(c).resume = IF job.state = "halted" THEN "yes" ELSE "no"
BY Zenon DEF Verdict, StartError, Error

LEMMA ReportableIsWhole ==
  ASSUME CommandTypes, CountInv, Reportable(seq)
  PROVE  Len(written) = Requested /\ \A i \in 1 .. Requested : written[i] = written[1] + i - 1
<1>1. seq.emitted >= Requested /\ seq.dup = 0 /\ seq.gaps = 0
  BY Zenon DEF Reportable
<1>2. seq.emitted <= Requested /\ seq.emitted \in Nat
  BY DEF CommandTypes, CommandTypeOK, SequenceOK
<1>3. seq.emitted = Requested
  BY <1>1, <1>2, RequestedAssumption
<1>4. Len(written) = Requested
  BY <1>3, Zenon DEF CountInv, SamplesAccounted
<1>5. \A i \in 1 .. Len(written) : written[i] = written[1] + i - 1
  BY <1>1, Zenon DEF CountInv
<1> QED BY <1>4, <1>5, Zenon

LEMMA PassedIsComplete ==
  ASSUME CommandTypes, CountInv, NEW c, ~Failed(c)
  PROVE  ~seq.invalid /\ ~loop.rawFailed /\ loop.decoded = Len(written)
<1>1. ~loop.rawFailed /\ Judged(seq)
  BY Zenon DEF Failed
<1>2. ~seq.invalid /\ loop.decoded = seq.emitted
  <2>1. CASE seq.emitted = 0
    BY <1>1, <2>1, Zenon DEF Judged
  <2>2. CASE seq.emitted # 0
    BY <1>1, <2>2, Zenon DEF Judged
  <2> QED BY <2>1, <2>2, Zenon
<1>3. seq.emitted = Len(written)
  BY Zenon DEF CountInv, SamplesAccounted
<1> QED BY <1>1, <1>2, <1>3, Zenon

LEMMA FinishAnswers ==
  ASSUME CommandTypes, PhaseInv, CountInv, Finish
  PROVE  DoneInv'
<1>1. PICK s \in Stopped, c \in BOOLEAN : QuitStarted(Verdict(c), s)
  BY Zenon DEF Finish
<1>2. UNCHANGED <<job, core, did, stop, expired, seq, loop, written>> /\ phase = "tail"
  BY Zenon DEF Finish
<1> DEFINE a == Verdict(c)
<1>3. /\ a.halt = FALSE /\ a.reset = FALSE /\ a.restored = FALSE
      /\ a.after = "unsaid" /\ a.quality = Reportable(seq)
      /\ a.kind = IF Failed(c) THEN "error"
                  ELSE IF loop.stopped \/ loop.budget THEN "stopped" ELSE "ok"
      /\ a.resume = IF job.state = "halted" THEN "yes" ELSE "no"
  BY VerdictIs, Zenon
<1> HIDE DEF a
<1>4. answer' = a /\ ~held'.lib /\ ~held'.session
  <2>1. answer' = a
    BY <1>1, Zenon DEF QuitStarted, a
  <2>2. ~held'.lib /\ ~held'.session
    BY <1>1 DEF QuitStarted, Nothing
  <2> QED BY <2>1, <2>2
<1>5. did' = IF job.state = "halted" \/ loop'.resumed THEN {"resume"} ELSE {}
  BY <1>2 DEF PhaseInv, Serving
<1>6. /\ "halt" \notin did' /\ "reset" \notin did'
      /\ "resume" \in did' <=> a.resume = "yes" \/ loop'.resumed
  BY <1>3, <1>5
<1>7. "unsaid" \notin States /\ "error" \notin {"ok", "stopped"} /\ "yes" # "no"
  BY DEF States
<1>8. a.resume \in {"yes", "no"}
  BY <1>3
<1>9. a.resume = "no" /\ "resume" \in did' => loop'.resumed
  BY <1>6, <1>7, Zenon
<1>10. ("halt" \in did') = FALSE /\ ("reset" \in did') = FALSE
  BY <1>6, MemberIs
<1>11. TrueOf(a, did', core', loop'.resumed)
  BY <1>3, <1>6, <1>7, <1>9, <1>10, Zenon DEF TrueOf
<1>12. a.quality => Len(written) = Requested /\ \A i \in 1 .. Requested : written[i] = written[1] + i - 1
  BY <1>3, ReportableIsWhole, Zenon
<1>13. a.kind \in {"ok", "stopped"} =>
         /\ ~seq.invalid /\ ~loop.rawFailed /\ loop.decoded = Len(written)
         /\ \A i \in 2 .. Len(written) : written[i - 1] <= written[i]
  <2>1. SUFFICES ASSUME a.kind \in {"ok", "stopped"}
                 PROVE  /\ ~seq.invalid /\ ~loop.rawFailed /\ loop.decoded = Len(written)
                        /\ \A i \in 2 .. Len(written) : written[i - 1] <= written[i]
    BY Zenon
  <2>2. ~Failed(c)
    BY <1>3, <1>7, <2>1, Zenon
  <2>3. \A i \in 2 .. Len(written) : written[i - 1] <= written[i]
    BY Zenon DEF CountInv
  <2> QED BY <2>2, <2>3, PassedIsComplete, Zenon
<1>14. FileMatchesAnswer'
  BY <1>2, <1>4, <1>12, <1>13, Zenon DEF FileMatchesAnswer
<1> QED BY <1>4, <1>11, <1>14, Zenon DEF DoneInv


LEMMA EndsQuietly ==
  ASSUME CommandTypes, NEW u, Quit(Error(u)), did = {}, UNCHANGED <<job, did>>
  PROVE  DoneInv'
<1>1. "halt" \notin did' /\ "reset" \notin did' /\ UNCHANGED job
  BY SMT
<1> QED BY <1>1, ErrorAnswered

(* A guard in an answering phase: on what it finds, and on what was done.  *)
LEMMA GuardEnds ==
  ASSUME CommandTypes, NEW s \in States, NEW next, next # "done", Guarded(s, next), UNCHANGED job,
         "halt" \notin did, "reset" \notin did,
         "resume" \in did => s = "running" /\ ~(Capture /\ job.state = "running")
  PROVE  DoneInv'
<1>1. core \in States
  BY DEF CommandTypes, CommandTypeOK
<1>2. CASE phase' = next /\ UNCHANGED <<held, did, answer>> /\ core' = s
  BY <1>2, Zenon DEF DoneInv
<1>3. ASSUME NEW g \in Guard(s), NEW crashed \in BOOLEAN,
             ~g.pass, Quit(GuardError(g, crashed)), core' = g.target, did' = did \cup g.did
      PROVE  DoneInv'
  BY <1>3, GuardAnswered, SMT
<1> QED BY <1>1, <1>2, <1>3, GuardedGoesOn, Zenon

(* The state could not be read at all.                                     *)
LEMMA BlindEnds ==
  ASSUME CommandTypes, NEW s \in States, NEW c \in BOOLEAN, Quit(GuardError(Blind, c)),
         UNCHANGED <<job, did, core>>, "halt" \notin did, "reset" \notin did,
         "resume" \in did => s = "running" /\ ~(Capture /\ job.state = "running")
  PROVE  DoneInv'
<1>1. Blind \in Guard(s)
  BY Zenon DEF Guard
<1>2. ~Blind.pass /\ core' = Blind.target /\ did' = did \cup Blind.did
  BY DEF Blind, Evidence
<1> QED BY <1>1, <1>2, GuardAnswered

LEMMA DoneKept ==
  ASSUME CommandTypes, PhaseInv, CountInv, DoneInv, CommandNext
  PROVE  DoneInv'
<1> USE JobFacts
<1>0. /\ phase \in Untouched => did = {}
      /\ phase \in Underway /\ phase \notin {"sample", "record", "tail"} =>
           did = IF job.state = "halted" THEN {"resume"} ELSE {}
      /\ phase = "after" => did = Controls[job.act]
      /\ job \in JobType /\ core \in States
  BY Zenon DEF PhaseInv, CommandTypes, CommandTypeOK, Serving
<1>1. CASE ReadPlan
  <2>1. did = {} /\ UNCHANGED <<job, did>>
    BY <1>1, <1>0 DEF ReadPlan, Still, Untouched, WaysIn
  <2>2. phase' # "done" \/ (\E u : Quit(Error(u)))
    BY <1>1 DEF ReadPlan, Go
  <2> QED BY <2>1, <2>2, EndsQuietly, Zenon DEF DoneInv
<1>2. CASE TrustScript
  <2>1. did = {} /\ UNCHANGED <<job, did>>
    BY <1>2, <1>0 DEF TrustScript, Still, Untouched, WaysIn
  <2>2. phase' # "done" \/ (\E u : Quit(Error(u)))
    BY <1>2 DEF TrustScript, Go
  <2> QED BY <2>1, <2>2, EndsQuietly, Zenon DEF DoneInv
<1>3. CASE LoadManifest
  <2>1. did = {} /\ UNCHANGED <<job, did>>
    BY <1>3, <1>0 DEF LoadManifest, Still, Untouched, WaysIn
  <2>2. phase' # "done" \/ (\E u : Quit(Error(u)))
    BY <1>3 DEF LoadManifest, Go
  <2> QED BY <2>1, <2>2, EndsQuietly, Zenon DEF DoneInv
<1>4. CASE Load
  <2>1. did = {} /\ UNCHANGED <<job, did>>
    BY <1>4, <1>0 DEF Load, Still, Untouched, WaysIn
  <2>2. phase' # "done" \/ (\E u : Quit(Error(u)))
    BY <1>4 DEF Load, Go
  <2> QED BY <2>1, <2>2, EndsQuietly, Zenon DEF DoneInv
<1>5. CASE Select
  <2>1. did = {} /\ UNCHANGED <<job, did>>
    BY <1>5, <1>0 DEF Select, Still, Untouched, WaysIn
  <2>2. phase' # "done" \/ (\E u : Quit(Error(u)))
    BY <1>5 DEF Select, Go
  <2> QED BY <2>1, <2>2, EndsQuietly, Zenon DEF DoneInv
<1>6. CASE Open
  <2>1. did = {} /\ UNCHANGED <<job, did>>
    BY <1>6, <1>0 DEF Open, Still, Untouched, WaysIn
  <2>2. phase' # "done" \/ (\E u : Quit(Error(u)))
    BY <1>6 DEF Open, Go
  <2> QED BY <2>1, <2>2, EndsQuietly, Zenon DEF DoneInv
<1>7. CASE Setting
  <2>1. did = {} /\ UNCHANGED <<job, did>>
    BY <1>7, <1>0 DEF Setting, Still, Untouched, WaysIn
  <2>2. phase' # "done" \/ (\E u : Quit(Error(u)))
    BY <1>7 DEF Setting, Go, NextSetting
  <2> QED BY <2>1, <2>2, EndsQuietly, Zenon DEF DoneInv
<1>8. CASE Connect
  <2>1. did = {} /\ UNCHANGED <<job, did>>
    BY <1>8, <1>0 DEF Connect, Untouched, WaysIn
  <2>2. CASE \E u \in BOOLEAN : Quit(Error(u))
    BY <2>1, <2>2, EndsQuietly, Zenon
  <2>3. CASE Go(CASE job.op \in {"capture", "getcaps"} -> "guard"
                  [] job.op = "preflight" -> "observe"
                  [] job.op = "control" -> "before")
    <3>1. job.op \in {"capture", "getcaps", "preflight", "control"}
      BY <1>0, JobFacts, Zenon
    <3>2. phase' # "done"
      BY <2>3, <3>1 DEF Go
    <3> QED BY <3>2, Zenon DEF DoneInv
  <2> QED BY <1>8, <2>2, <2>3, Zenon DEF Connect
<1>9. CASE Before
  <2>1. /\ job.state \in States /\ did = {} /\ UNCHANGED job
        /\ Guarded(job.state, IF Capture THEN "enter" ELSE "caps")
    BY <1>9, <1>0 DEF Before, Untouched, PhaseInv
  <2>2. (IF Capture THEN "enter" ELSE "caps") # "done"
    OBVIOUS
  <2> QED BY <2>1, <2>2, GuardEnds
<1>10. CASE Caps
  <2>1. did = {} /\ UNCHANGED <<job, did>>
    BY <1>10, <1>0 DEF Caps, Still, Untouched, WaysIn
  <2>2. phase' # "done" \/ (\E u : Quit(Error(u)))
    BY <1>10 DEF Caps, Go
  <2> QED BY <2>1, <2>2, EndsQuietly, Zenon DEF DoneInv
<1>11. CASE AfterCaps
  <2>1. /\ job.state \in States /\ did = {} /\ UNCHANGED job
        /\ Guarded(job.state, "caps close")
    BY <1>11, <1>0 DEF AfterCaps, Untouched, PhaseInv
  <2> QED BY <2>1, GuardEnds
<1>12. CASE CapsAnswer
  <2>1. did = {} /\ UNCHANGED <<job, did, core>> /\ core = job.state /\ ~Capture
    BY <1>12, <1>0 DEF CapsAnswer, Still, Untouched, PhaseInv, Capture
  <2>2. CASE Quit(Ok(job.state))
    BY <2>1, <2>2, OkAnswered
  <2> QED BY <1>12, <2>1, <2>2, EndsQuietly, Zenon DEF CapsAnswer
<1>13. CASE Observe
  <2>1. did = {} /\ UNCHANGED <<job, did, core>> /\ ~Capture /\ "unsaid" \notin States
    BY <1>13, <1>0 DEF Observe, Still, Untouched, PhaseInv, Capture, States
  <2>2. Quit(Error(TRUE)) \/ Quit(Ok(core)) \/ Quit(Ok("unsaid"))
    BY <1>13, Zenon DEF Observe
  <2>3. CASE Quit(Error(TRUE))
    BY <2>1, <2>3, EndsQuietly
  <2>4. CASE Quit(Ok(core))
    BY <2>1, <2>4, OkAnswered
  <2>5. CASE Quit(Ok("unsaid"))
    BY <2>1, <2>5, OkAnswered
  <2> QED BY <2>2, <2>3, <2>4, <2>5
<1>14. CASE LookBefore
  <2>1. did = {} /\ UNCHANGED <<job, did>>
    BY <1>14, <1>0 DEF LookBefore, Still, Untouched, WaysIn
  <2>2. phase' # "done" \/ (\E u : Quit(Error(u)))
    BY <1>14 DEF LookBefore, Go
  <2> QED BY <2>1, <2>2, EndsQuietly, Zenon DEF DoneInv
<1>15. CASE Act
  <2>1. did = {} /\ UNCHANGED job /\ ~Capture /\ "unsaid" \notin States
    BY <1>15, <1>0 DEF Act, Untouched, PhaseInv, Capture, States
  <2>2. CASE phase' = "after"
    BY <2>2, Zenon DEF DoneInv
  <2>3. CASE Quit(Error(FALSE)) /\ UNCHANGED <<did, core>>
    BY <2>1, <2>3, EndsQuietly
  <2>4. ASSUME NEW d, did' = d, Quit(ControlAnswer("error", TRUE, d, "unsaid")) PROVE DoneInv'
    <3>1. Quit(ControlAnswer("error", TRUE, did', "unsaid"))
      BY <2>4, Zenon
    <3> QED BY <2>1, <3>1, ControlAnswered
  <2> QED BY <1>15, <2>2, <2>3, <2>4, Zenon DEF Act, Go
<1>16. CASE LookAfter
  <2>1. UNCHANGED <<job, did, core>> /\ ~Capture /\ "unsaid" \notin States
    BY <1>16 DEF LookAfter, Still, PhaseInv, Capture, States
  <2>2. Quit(ControlAnswer("error", TRUE, did, "unsaid")) \/ Quit(ControlAnswer("ok", FALSE, did, core))
    BY <1>16, Zenon DEF LookAfter
  <2>3. did' = did
    BY <2>1
  <2>4. CASE Quit(ControlAnswer("error", TRUE, did, "unsaid"))
    <3>1. Quit(ControlAnswer("error", TRUE, did', "unsaid"))
      BY <2>3, <2>4, Zenon
    <3> QED BY <2>1, <3>1, ControlAnswered
  <2>5. CASE Quit(ControlAnswer("ok", FALSE, did, core))
    <3>1. Quit(ControlAnswer("ok", FALSE, did', core))
      BY <2>3, <2>5, Zenon
    <3> QED BY <2>1, <3>1, ControlAnswered
  <2> QED BY <2>2, <2>4, <2>5
<1>17. CASE Enter
  <2>1. did = {} /\ UNCHANGED job /\ "running" \in States /\ phase = "enter"
    BY <1>17, <1>0 DEF Enter, Untouched, States
  <2>2. ASSUME NEW c \in BOOLEAN, Quit(GuardError(Blind, c)), UNCHANGED <<did, core>> PROVE DoneInv'
    BY <2>1, <2>2, BlindEnds
  <2>3. CASE Guarded("running", "stable")
    BY <2>1, <2>3, GuardEnds
  <2>4. CASE Quit(Error(FALSE)) /\ UNCHANGED <<did, core>>
    BY <2>1, <2>4, EndsQuietly
  <2>5. CASE did' = did \cup {"resume"} /\ Quit(Error(FALSE))
    <3>1. "halt" \notin did' /\ "reset" \notin did'
      BY <2>1, <2>5
    <3> QED BY <2>1, <2>5, <3>1, ErrorAnswered
  <2>6. CASE phase' = "entered"
    BY <2>6, Zenon DEF DoneInv
  <2> QED BY <1>17, <2>2, <2>3, <2>4, <2>5, <2>6, Zenon DEF Enter, Go
<1>18. CASE Entered
  <2>1. did = (IF job.state = "halted" THEN {"resume"} ELSE {}) /\ UNCHANGED job /\ "running" \in States
    BY <1>18, <1>0 DEF Entered, Underway, FileOpen, States
  <2>2. /\ "halt" \notin did /\ "reset" \notin did
        /\ "resume" \in did => "running" = "running" /\ ~(Capture /\ job.state = "running")
    BY <2>1
  <2>3. ASSUME NEW c \in BOOLEAN, Quit(GuardError(Blind, c)), UNCHANGED <<did, core>> PROVE DoneInv'
    BY <2>1, <2>2, <2>3, BlindEnds
  <2>4. CASE Guarded("running", "stable")
    BY <2>1, <2>2, <2>4, GuardEnds
  <2> QED BY <1>18, <2>3, <2>4, Zenon DEF Entered
<1>19. CASE Stable
  <2>1. did = (IF job.state = "halted" THEN {"resume"} ELSE {}) /\ UNCHANGED job /\ "running" \in States
    BY <1>19, <1>0 DEF Stable, Underway, FileOpen, States, Still
  <2>2. /\ "halt" \notin did /\ "reset" \notin did
        /\ "resume" \in did => "running" = "running" /\ ~(Capture /\ job.state = "running")
    BY <2>1
  <2>3. UNCHANGED did /\ (phase' # "done" \/ Quit(Error(FALSE)))
    BY <1>19 DEF Stable, Go, Still
  <2>4. "halt" \notin did' /\ "reset" \notin did'
    BY <2>2, <2>3
  <2> QED BY <2>1, <2>3, <2>4, ErrorAnswered, Zenon DEF DoneInv
<1>20. CASE Match
  <2>1. did = (IF job.state = "halted" THEN {"resume"} ELSE {}) /\ UNCHANGED job /\ "running" \in States
    BY <1>20, <1>0 DEF Match, Underway, FileOpen, States, Still
  <2>2. /\ "halt" \notin did /\ "reset" \notin did
        /\ "resume" \in did => "running" = "running" /\ ~(Capture /\ job.state = "running")
    BY <2>1
  <2>3. UNCHANGED did /\ (phase' # "done" \/ Quit(Error(FALSE)))
    BY <1>20 DEF Match, Go, Still
  <2>4. "halt" \notin did' /\ "reset" \notin did'
    BY <2>2, <2>3
  <2> QED BY <2>1, <2>3, <2>4, ErrorAnswered, Zenon DEF DoneInv
<1>21. CASE OpenRaw
  <2>1. did = (IF job.state = "halted" THEN {"resume"} ELSE {}) /\ UNCHANGED job /\ "running" \in States
    BY <1>21, <1>0 DEF OpenRaw, Underway, FileOpen, States, Still
  <2>2. /\ "halt" \notin did /\ "reset" \notin did
        /\ "resume" \in did => "running" = "running" /\ ~(Capture /\ job.state = "running")
    BY <2>1
  <2>3. UNCHANGED did /\ (phase' # "done" \/ Quit(Error(FALSE)))
    BY <1>21 DEF OpenRaw, Go, Still
  <2>4. "halt" \notin did' /\ "reset" \notin did'
    BY <2>2, <2>3
  <2> QED BY <2>1, <2>3, <2>4, ErrorAnswered, Zenon DEF DoneInv
<1>22. CASE Start
  <2>1. did = (IF job.state = "halted" THEN {"resume"} ELSE {}) /\ UNCHANGED job /\ "running" \in States
    BY <1>22, <1>0 DEF Start, Underway, FileOpen, States
  <2>2. /\ "halt" \notin did /\ "reset" \notin did
        /\ "resume" \in did => "running" = "running" /\ ~(Capture /\ job.state = "running")
    BY <2>1
  <2>3. did' = did /\ (phase' # "done" \/ (\E s \in Stopped : \E u : QuitStarted(StartError(u), s)))
    BY <1>22 DEF Start, Go, Stopped
  <2>4. did' = IF job.state = "halted" THEN {"resume"} ELSE {}
    BY <2>1, <2>3
  <2> QED BY <2>1, <2>3, <2>4, StartErrorAnswered, Zenon DEF DoneInv
<1>23. CASE StartGuard
  <2>1. did = (IF job.state = "halted" THEN {"resume"} ELSE {}) /\ UNCHANGED job /\ "running" \in States
    BY <1>23, <1>0 DEF StartGuard, Underway, FileOpen, States
  <2>2. /\ "halt" \notin did /\ "reset" \notin did
        /\ "resume" \in did => "running" = "running" /\ ~(Capture /\ job.state = "running")
    BY <2>1
  <2>3. ASSUME NEW g \in Guard("running"), NEW s \in Stopped, NEW unclean \in BOOLEAN,
               ~g.pass, QuitStarted(GuardError(g, unclean \/ s = "lost"), s),
               core' = g.target, did' = did \cup g.did
        PROVE  DoneInv'
    BY <2>1, <2>2, <2>3, GuardAnswered
  <2>4. CASE phase' = "ready"
    BY <2>4, Zenon DEF DoneInv
  <2> QED BY <1>23, <1>0, <2>3, <2>4, StartGuardMoves, Zenon
<1>24. CASE Ready
  <2>1. did = (IF job.state = "halted" THEN {"resume"} ELSE {}) /\ UNCHANGED job /\ "running" \in States
    BY <1>24, <1>0 DEF Ready, Underway, FileOpen, States, Still
  <2>2. /\ "halt" \notin did /\ "reset" \notin did
        /\ "resume" \in did => "running" = "running" /\ ~(Capture /\ job.state = "running")
    BY <2>1
  <2>3. did' = did
    BY <1>24 DEF Ready, Still
  <2>4. CASE phase' # "done"
    BY <2>4, Zenon DEF DoneInv
  <2>5. ASSUME NEW s \in Stopped, QuitStarted(Error(FALSE), s) PROVE DoneInv'
    <3>1. "halt" \notin did' /\ "reset" \notin did'
      BY <2>2, <2>3
    <3> QED BY <2>1, <2>5, <3>1, ErrorAnswered
  <2>6. ASSUME NEW s \in Stopped, NEW u, QuitStarted(StartError(u), s) PROVE DoneInv'
    <3>1. did' = IF job.state = "halted" THEN {"resume"} ELSE {}
      BY <2>1, <2>3
    <3> QED BY <2>1, <2>6, <3>1, StartErrorAnswered
  <2>7. CASE Go(IF job.drain THEN "drain" ELSE "sample")
    <3>1. phase' # "done"
      BY <2>7 DEF Go
    <3> QED BY <2>4, <3>1
  <2> QED BY <1>24, <2>5, <2>6, <2>7, Zenon DEF Ready
<1>25. CASE Drain
  <2>1. phase' # "done"
    BY <1>25 DEF Drain, LoopOnly
  <2> QED BY <2>1, Zenon DEF DoneInv
<1>26. CASE DrainFails
  <2>1. phase' # "done"
    BY <1>26 DEF DrainFails, LoopOnly
  <2> QED BY <2>1, Zenon DEF DoneInv
<1>27. CASE SampleStops
  <2>1. phase' # "done"
    BY <1>27 DEF SampleStops, LoopOnly
  <2> QED BY <2>1, Zenon DEF DoneInv
<1>28. CASE Sample
  <2>1. phase' # "done"
    BY <1>28 DEF Sample, LoopOnly, ServeOnly, ResumesServed
  <2> QED BY <2>1, Zenon DEF DoneInv
<1>29. CASE SampleEnds
  <2>1. phase' # "done"
    BY <1>29 DEF SampleEnds, LoopOnly
  <2> QED BY <2>1, Zenon DEF DoneInv
<1>30. CASE NotFirst
  <2>1. phase' # "done"
    BY <1>30 DEF NotFirst, InBatch, RecordOnly
  <2> QED BY <2>1, Zenon DEF DoneInv
<1>31. CASE TakeRecord
  <2>1. phase' # "done"
    BY <1>31 DEF TakeRecord, InBatch, RecordOnly
  <2> QED BY <2>1, Zenon DEF DoneInv
<1>32. CASE RecordBack
  <2>1. phase' # "done"
    BY <1>32 DEF RecordBack, InBatch, RecordOnly
  <2> QED BY <2>1, Zenon DEF DoneInv
<1>33. CASE RecordLost
  <2>1. phase' # "done"
    BY <1>33 DEF RecordLost, InBatch, RecordOnly
  <2> QED BY <2>1, Zenon DEF DoneInv
<1>34. CASE BatchEnds
  <2>1. phase' # "done"
    BY <1>34 DEF BatchEnds, LoopOnly
  <2> QED BY <2>1, Zenon DEF DoneInv
<1>35. CASE WaitOut
  <2>1. phase' # "done"
    BY <1>35 DEF WaitOut, LoopOnly, ServeOnly, ResumesServed
  <2> QED BY <2>1, Zenon DEF DoneInv
<1>36. CASE Finish
  BY <1>36, FinishAnswers, Zenon
<1>37. CASE AskStop
  <2>1. phase' # "done"
    BY <1>37 DEF AskStop, Capture
  <2> QED BY <2>1, Zenon DEF DoneInv
<1>38. CASE TimePasses
  <2>1. phase' # "done"
    BY <1>38 DEF TimePasses
  <2> QED BY <2>1, Zenon DEF DoneInv
<1>39. CASE Settled
  BY <1>39, Zenon DEF Settled, commandVars, DoneInv, TrueOf, FileMatchesAnswer, Capture
<1> QED BY <1>1, <1>2, <1>3, <1>4, <1>5, <1>6, <1>7, <1>8, <1>9, <1>10, <1>11, <1>12, <1>13, <1>14, <1>15, <1>16, <1>17, <1>18, <1>19, <1>20, <1>21, <1>22, <1>23, <1>24, <1>25, <1>26, <1>27, <1>28, <1>29, <1>30, <1>31, <1>32, <1>33, <1>34, <1>35, <1>36, <1>37, <1>38, <1>39, Zenon
     DEF CommandNext, Helper, WayIn, Asked, Starting, Sampling, Recording


LEMMA CommandStarts == CommandInit => CommandInv
<1>1. SUFFICES ASSUME CommandInit PROVE CommandInv
  OBVIOUS
<1>2. /\ job \in JobType /\ core \in States /\ did = {} /\ phase = "plan" /\ held = Nothing
      /\ stop = FALSE /\ expired = FALSE /\ seq = NoRecord /\ loop = NoLoop /\ written = <<>>
  BY <1>1 DEF CommandInit
<1>3. CommandTypes
  <2>1. SequenceOK /\ seq.emitted <= Requested
    BY <1>2, RequestedAssumption DEF SequenceOK, NoRecord
  <2>2. loop \in AnyLoop /\ loop.attempt <= Requested /\ loop.left \in 0 .. BatchBound
    BY <1>2, RequestedAssumption DEF NoLoop, AnyLoop, BatchBound
  <2>3. held \in [lib : BOOLEAN, session : BOOLEAN, hss : {"off", "on", "lost"},
                  raw : {"none", "open", "closed"}]
    BY <1>2 DEF Nothing
  <2>4. phase \in Untouched
    BY <1>2 DEF Untouched, WaysIn
  <2>5. written \in Seq(Nat)
    BY <1>2
  <2> QED BY <1>2, <2>1, <2>2, <2>3, <2>4, <2>5 DEF CommandTypes, CommandTypeOK
<1>4. PhaseInv
  BY <1>2 DEF PhaseInv, Untouched, Underway, Serving, FileOpen, WaysIn, Nothing, NoLoop
<1>5. CountInv
  BY <1>2 DEF CountInv, SamplesAccounted, NoRecord
<1>6. DoneInv
  BY <1>2 DEF DoneInv
<1> QED BY <1>3, <1>4, <1>5, <1>6 DEF CommandInv

LEMMA CommandGoesOn == CommandInv /\ [CommandNext]_commandVars => CommandInv'
<1>1. ASSUME CommandInv, CommandNext PROVE CommandInv'
  <2>1. CommandTypes /\ PhaseInv /\ CountInv /\ DoneInv /\ CommandNext
    BY <1>1 DEF CommandInv
  <2>2. PhaseInv' /\ DoneInv'
    BY <2>1, PhaseKept, DoneKept
  <2>3. SequenceOK' /\ seq'.emitted <= Requested /\ written' \in Seq(Nat) /\ CountInv'
    BY <2>1, SequenceKept
  <2>4. loop' \in AnyLoop
    BY <2>1, LoopTyped
  <2>5. loop'.attempt <= Requested /\ loop'.left \in 0 .. BatchBound
    BY <2>4, RequestedAssumption DEF AnyLoop
  <2>6. /\ UNCHANGED job
        /\ held' \in [lib : BOOLEAN, session : BOOLEAN, hss : {"off", "on", "lost"},
                      raw : {"none", "open", "closed"}]
        /\ core' \in States /\ did' \subseteq {"halt", "resume", "reset"}
        /\ stop' \in BOOLEAN /\ expired' \in BOOLEAN
        /\ phase' \in Untouched \cup Underway \cup {"after", "done"}
    BY <2>1, TargetTyped
  <2>7. job' \in JobType
    BY <2>1, <2>6 DEF CommandTypes, CommandTypeOK
  <2>8. CommandTypeOK'
    BY <2>3, <2>5, <2>6, <2>7 DEF CommandTypeOK
  <2>9. CommandTypes'
    BY <2>4, <2>6, <2>8, Zenon DEF CommandTypes
  <2> QED BY <2>2, <2>3, <2>9, Zenon DEF CommandInv
<1>2. ASSUME CommandInv, UNCHANGED commandVars PROVE CommandInv'
  <2>1. UNCHANGED <<job, phase, held, core, did, stop, expired, seq, loop, written, answer>>
    BY <1>2 DEF commandVars
  <2>2. CommandTypes'
    BY <1>2, <2>1, ZenonT(40) DEF CommandInv, CommandTypes, CommandTypeOK, SequenceOK
  <2>3. PhaseInv'
    BY <1>2, <2>1, Zenon DEF CommandInv, PhaseInv, Capture
  <2>4. CountInv'
    BY <1>2, <2>1, Zenon DEF CommandInv, CountInv, SamplesAccounted
  <2>5. DoneInv'
    BY <1>2, <2>1, Zenon DEF CommandInv, DoneInv, TrueOf, FileMatchesAnswer, Capture
  <2> QED BY <2>2, <2>3, <2>4, <2>5, Zenon DEF CommandInv
<1> QED BY <1>1, <1>2, Zenon

(* CommandInv holds throughout a command of the helper (hss_helper.cpp,    *)
(* hss_capture, getcaps, connect_preflight, cpu_control).                  *)
THEOREM CommandInvariance == CommandSpec => []CommandInv
<1>1. CommandInit => CommandInv
  BY CommandStarts
<1>2. CommandInv /\ [CommandNext]_commandVars => CommandInv'
  BY CommandGoesOn
<1> QED BY <1>1, <1>2, PTL DEF CommandSpec

(* Whatever timestamps the DLL delivers, and for every rate and number of  *)
(* samples, the counters of a capture account for every slot between its   *)
(* first and its last record (observe_hss_sample).                         *)
THEOREM EverySlotIsAccounted == CommandSpec => []SamplesAccounted
<1>1. CommandInv => SamplesAccounted
  BY DEF CommandInv, CountInv
<1> QED BY <1>1, CommandInvariance, PTL

(* The one line the helper prints can be relied on, whatever call of the   *)
(* DLL fails or raises: nothing is left open, the controls the command     *)
(* itself issued and the state it observed are told, and a capture of      *)
(* reported quality has a whole file. It leaves out the resumes memory     *)
(* requests ask for, of which the answer keeps nothing (the returns of     *)
(* hss_capture, getcaps, connect_preflight and cpu_control).               *)
THEOREM AnswersAreSound == CommandSpec => []AnswerSound
<1>1. CommandInv => AnswerSound
  <2>1. SUFFICES ASSUME CommandInv PROVE AnswerSound
    OBVIOUS
  <2>2. CommandTypeOK /\ DoneInv /\ PhaseInv
    BY <2>1 DEF CommandInv, CommandTypes
  <2>3. "done" \notin FileOpen
    BY DEF FileOpen
  <2>4. NothingLeftOpen
    BY <2>2, <2>3 DEF NothingLeftOpen, PhaseInv, DoneInv
  <2>5. AnswerTruthful
    BY <2>2, Zenon DEF AnswerTruthful, DoneInv, TrueOf
  <2>6. FileMatchesAnswer
    <3>1. CASE phase = "done"
      BY <2>2, <3>1, Zenon DEF DoneInv
    <3>2. CASE phase # "done"
      BY <3>2, Zenon DEF FileMatchesAnswer
    <3> QED BY <3>1, <3>2
  <2> QED BY <2>2, <2>4, <2>5, <2>6, Zenon DEF AnswerSound
<1> QED BY <1>1, CommandInvariance, PTL

=============================================================================
