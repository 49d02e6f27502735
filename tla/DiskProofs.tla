---------------------------- MODULE DiskProofs ------------------------------
(***************************************************************************)
(* What processes keep on disk without a server between them: the          *)
(* directory lock they take (DirectoryLock) and the package of a capture   *)
(* they finalize, repair and read (JcapPackage).                           *)
(***************************************************************************)
EXTENDS DirectoryLock, JcapPackage, TLAPS

(***************************************************************************)
(* Proofs about the directory lock for any number of processes, crashes,   *)
(* failures and published locks.  The invariant that carries them says:    *)
(* a token names one directory (so a guard found under it belongs to the   *)
(* record the remover judged), a record judged stale never becomes live    *)
(* again (instances only go forward), and one process at a time stands     *)
(* between the two renames that retire a directory.                        *)
(***************************************************************************)

Stale(r) == ~alive[r.pid] \/ inc[r.pid] # r.inc

(* Only a running process has a program counter.                           *)
RunningInv == \A p \in Procs : pc[p] # "idle" => alive[p]

(* A process past its read, or inside, has a record in mind.               *)
HasRecordInv ==
  \A p \in Procs : pc[p] \in Holding \cup {"judge", "claim", "retire"}
                     => record[p] \in LockRecord

(* Records bear tokens and instance numbers that have been given out.      *)
IssuedInv ==
  /\ lock # NoLock => lock.token <= published /\ lock.inc <= inc[lock.pid]
  /\ \A p \in Procs : record[p] # NoLock =>
       /\ record[p].token <= published
       /\ record[p].inc <= inc[record[p].pid]

(* A token names one directory.                                            *)
TokenInv == \A p \in Procs : /\ lock # NoLock
                             /\ record[p] # NoLock
                             /\ record[p].token = lock.token
                             => record[p] = lock

(* The holder's record is its own and is on disk.                          *)
HolderInv == \A p \in Procs : pc[p] \in Holding =>
               /\ lock = record[p]
               /\ lock.pid = p
               /\ lock.inc = inc[p]

(* What is being recovered is stale, for good.                             *)
StaleInv == \A p \in Procs : pc[p] \in {"claim", "retire"} => Stale(record[p])

(* Between the two renames the directory stands without its guard.         *)
RemovingInv ==
  /\ \A p \in Procs : pc[p] \in Removing => lock = record[p] /\ ~guarded
  /\ \A p, q \in Procs : pc[p] \in Removing /\ pc[q] \in Removing => p = q

IInv == /\ TypeOK
        /\ RunningInv
        /\ HasRecordInv
        /\ IssuedInv
        /\ TokenInv
        /\ HolderInv
        /\ StaleInv
        /\ RemovingInv

-----------------------------------------------------------------------------

(* The steps that move a process on, or make it forget the record, without *)
(* touching the lock.                                                      *)
LEMMA ControlStep ==
  ASSUME IInv, NEW p \in Procs,
         \/ Start(p) \/ Probe(p) \/ Missing(p)
         \/ Retry(p) \/ Leave(p) \/ ReportInvalid(p)
  PROVE  IInv'
<1> USE DEF IInv, TypeOK, PCs, RunningInv, HasRecordInv, IssuedInv, TokenInv,
            HolderInv, StaleInv, Stale, RemovingInv,
            At, Goto, Forget, Environment, Holding, Removing
<1>1. CASE Start(p)  BY <1>1 DEF Start
<1>2. CASE Probe(p)  BY <1>2 DEF Probe
<1>3. CASE Missing(p)  BY <1>3 DEF Missing
<1>4. CASE Retry(p)  BY <1>4 DEF Retry
<1>5. CASE Leave(p)  BY <1>5 DEF Leave
<1>6. CASE ReportInvalid(p)  BY <1>6 DEF ReportInvalid
<1> QED BY <1>1, <1>2, <1>3, <1>4, <1>5, <1>6

LEMMA CreateStep == ASSUME IInv, NEW p \in Procs, Create(p) PROVE IInv'
<1> USE DEF IInv, Create, NewRecord, At, Goto, Forget, Environment, Holding, Removing
<1>1. TypeOK'
  <2>1. published' \in 0 .. MaxTokens
    BY ConstantsOK DEF TypeOK
  <2>2. lock' \in LockRecord \cup {NoLock}
    BY DEF TypeOK, LockRecord
  <2>3. record' \in [Procs -> LockRecord \cup {NoLock}]
    BY <2>2 DEF TypeOK
  <2>4. pc' \in [Procs -> PCs]
    BY DEF TypeOK, PCs
  <2> QED BY <2>1, <2>2, <2>3, <2>4 DEF TypeOK
<1>2. RunningInv' /\ HasRecordInv'
  BY DEF RunningInv, HasRecordInv, TypeOK, LockRecord
<1>3. IssuedInv' /\ TokenInv'
  BY DEF IssuedInv, TokenInv, TypeOK, LockRecord
<1>4. HolderInv'
  BY ConstantsOK DEF HolderInv, TypeOK, HasRecordInv
<1>5. StaleInv'
  BY DEF StaleInv, Stale, TypeOK
<1>6. RemovingInv'
  BY ConstantsOK DEF RemovingInv, TypeOK, HasRecordInv
<1> QED BY <1>1, <1>2, <1>3, <1>4, <1>5, <1>6

LEMMA ReadStep == ASSUME IInv, NEW p \in Procs, Read(p) PROVE IInv'
<1> USE DEF IInv, Read, At, Goto, Forget, Environment, Holding, Removing
<1>1. TypeOK'
  BY DEF TypeOK, PCs
<1>2. RunningInv' /\ HasRecordInv'
  BY DEF RunningInv, HasRecordInv, TypeOK
<1>3. IssuedInv' /\ TokenInv'
  BY DEF IssuedInv, TokenInv
<1>4. HolderInv'
  BY DEF HolderInv
<1>5. StaleInv'
  BY DEF StaleInv, Stale
<1>6. RemovingInv'
  BY DEF RemovingInv
<1> QED BY <1>1, <1>2, <1>3, <1>4, <1>5, <1>6

LEMMA JudgeStep == ASSUME IInv, NEW p \in Procs, Judge(p) PROVE IInv'
<1> USE DEF IInv, Judge, At, Goto, Forget, Environment, Holding, Removing,
            LooksLive
<1>1. TypeOK'
  BY DEF TypeOK, PCs
<1>2. RunningInv' /\ HasRecordInv'
  BY DEF RunningInv, HasRecordInv
<1>3. IssuedInv' /\ TokenInv'
  BY DEF IssuedInv, TokenInv
<1>4. HolderInv'
  BY DEF HolderInv
<1>5. StaleInv'
  BY DEF StaleInv, Stale
<1>6. RemovingInv'
  BY DEF RemovingInv
<1> QED BY <1>1, <1>2, <1>3, <1>4, <1>5, <1>6

LEMMA ClaimGuardStep == ASSUME IInv, NEW p \in Procs, ClaimGuard(p) PROVE IInv'
<1> USE DEF IInv, ClaimGuard, At, Goto, Forget, Environment, Holding,
            Removing, GuardPresent, AfterRemoval
<1>1. TypeOK'
  <2>1. failures' \in 0 .. MaxFailures
    BY ConstantsOK DEF TypeOK
  <2>2. pc' \in [Procs -> PCs]
    BY DEF TypeOK, PCs
  <2>3. record' \in [Procs -> LockRecord \cup {NoLock}]
    BY DEF TypeOK
  <2>4. lock' = lock /\ guarded' \in BOOLEAN
    BY DEF TypeOK
  <2> QED BY <2>1, <2>2, <2>3, <2>4 DEF TypeOK
<1>2. RunningInv' /\ HasRecordInv'
  BY DEF RunningInv, HasRecordInv, TypeOK
<1>3. IssuedInv' /\ TokenInv'
  BY DEF IssuedInv, TokenInv, TypeOK
<1>4. HolderInv'
  BY DEF HolderInv, TypeOK
<1>5. StaleInv'
  BY DEF StaleInv, Stale, TypeOK
<1>6. RemovingInv'
  BY ConstantsOK DEF RemovingInv, TypeOK, HasRecordInv, TokenInv
<1> QED BY <1>1, <1>2, <1>3, <1>4, <1>5, <1>6

LEMMA RetireStep == ASSUME IInv, NEW p \in Procs, Retire(p) PROVE IInv'
<1> USE DEF IInv, Retire, At, Goto, Forget, Environment, Holding, Removing,
            AfterRemoval
<1>1. TypeOK'
  BY DEF TypeOK, PCs
<1>2. RunningInv' /\ HasRecordInv'
  BY DEF RunningInv, HasRecordInv, TypeOK
<1>3. IssuedInv' /\ TokenInv'
  BY DEF IssuedInv, TokenInv
<1>4. HolderInv'
  BY DEF HolderInv, TypeOK, RunningInv, StaleInv, Stale, RemovingInv
<1>5. StaleInv'
  BY DEF StaleInv, Stale, TypeOK
<1>6. RemovingInv'
  BY DEF RemovingInv, TypeOK
<1> QED BY <1>1, <1>2, <1>3, <1>4, <1>5, <1>6

LEMMA RetireFailsStep == ASSUME IInv, NEW p \in Procs, RetireFails(p) PROVE IInv'
<1> USE DEF IInv, RetireFails, At, Goto, Forget, Environment, Holding,
            Removing, AfterRemoval
<1>1. TypeOK'
  <2>1. failures' \in 0 .. MaxFailures
    BY ConstantsOK DEF TypeOK
  <2>2. pc' \in [Procs -> PCs]
    BY DEF TypeOK, PCs
  <2>3. record' \in [Procs -> LockRecord \cup {NoLock}]
    BY DEF TypeOK
  <2>4. lock' = lock /\ guarded' \in BOOLEAN
    BY DEF TypeOK
  <2> QED BY <2>1, <2>2, <2>3, <2>4 DEF TypeOK
<1>2. RunningInv' /\ HasRecordInv'
  BY DEF RunningInv, HasRecordInv, TypeOK
<1>3. IssuedInv' /\ TokenInv'
  BY DEF IssuedInv, TokenInv
<1>4. HolderInv'
  BY DEF HolderInv, TypeOK
<1>5. StaleInv'
  BY DEF StaleInv, Stale, TypeOK
<1>6. RemovingInv'
  BY DEF RemovingInv, TypeOK
<1> QED BY <1>1, <1>2, <1>3, <1>4, <1>5, <1>6

LEMMA CrashStep == ASSUME IInv, NEW p \in Procs, Crash(p) PROVE IInv'
<1> USE DEF IInv, Crash, At, Goto, Forget, Environment, Holding, Removing
<1>1. TypeOK'
  BY ConstantsOK DEF TypeOK, PCs
<1>2. RunningInv' /\ HasRecordInv'
  BY DEF RunningInv, HasRecordInv, TypeOK
<1>3. IssuedInv' /\ TokenInv'
  BY DEF IssuedInv, TokenInv
<1>4. HolderInv'
  BY DEF HolderInv, TypeOK
<1>5. StaleInv'
  BY DEF StaleInv, Stale, TypeOK
<1>6. RemovingInv'
  BY DEF RemovingInv, TypeOK
<1> QED BY <1>1, <1>2, <1>3, <1>4, <1>5, <1>6

LEMMA RestartStep == ASSUME IInv, NEW p \in Procs, Restart(p) PROVE IInv'
<1> USE DEF IInv, Restart, At, Goto, Forget, Environment, Holding, Removing
<1>1. TypeOK'
  BY DEF TypeOK
<1>2. RunningInv' /\ HasRecordInv'
  BY DEF RunningInv, HasRecordInv
<1>3. IssuedInv' /\ TokenInv'
  BY DEF IssuedInv, TokenInv, TypeOK, LockRecord
<1>4. HolderInv'
  BY DEF HolderInv, RunningInv, TypeOK
<1>5. StaleInv'
  BY ConstantsOK DEF StaleInv, Stale, TypeOK, HasRecordInv, LockRecord, IssuedInv
<1>6. RemovingInv'
  BY DEF RemovingInv, TypeOK
<1> QED BY <1>1, <1>2, <1>3, <1>4, <1>5, <1>6

LEMMA InitHolds == Init => IInv
<1> SUFFICES ASSUME Init PROVE IInv
  OBVIOUS
<1>1. TypeOK
  <2>1. 0 \in 0 .. MaxTokens /\ 0 \in 0 .. MaxCrashes /\ 0 \in 0 .. MaxFailures
    BY ConstantsOK
  <2> QED BY <2>1 DEF Init, TypeOK, PCs
<1>2. RunningInv /\ HasRecordInv /\ IssuedInv /\ TokenInv
  BY DEF Init, RunningInv, HasRecordInv, IssuedInv, TokenInv, Holding
<1>3. HolderInv /\ StaleInv /\ RemovingInv
  BY DEF Init, HolderInv, StaleInv, RemovingInv, Holding, Removing
<1> QED BY <1>1, <1>2, <1>3 DEF IInv

LEMMA Inductive == IInv /\ [Next]_vars => IInv'
<1> SUFFICES ASSUME IInv, [Next]_vars PROVE IInv'
  OBVIOUS
<1>1. CASE UNCHANGED vars
  BY <1>1 DEF vars, IInv, TypeOK, RunningInv, HasRecordInv, IssuedInv,
     TokenInv, HolderInv, StaleInv, Stale, RemovingInv
<1>2. ASSUME NEW p \in Procs,
             Step(p) \/ Start(p) \/ RetireFails(p) \/ Crash(p) \/ Restart(p)
      PROVE  IInv'
  BY <1>2, ControlStep, CreateStep, ReadStep, JudgeStep, ClaimGuardStep,
     RetireStep, RetireFailsStep, CrashStep, RestartStep DEF Step
<1> QED BY <1>1, <1>2 DEF Next

(* The inductive invariant holds throughout every behaviour.               *)
THEOREM Invariance == Spec => []IInv
<1> QED BY InitHolds, Inductive, PTL DEF Spec

-----------------------------------------------------------------------------
(* Every variable of the lock keeps its type.                              *)
THEOREM TypeCorrect == Spec => []TypeOK
<1>1. IInv => TypeOK  BY DEF IInv
<1> QED BY <1>1, Invariance, PTL

(* The processes that were told they have the lock are at most one, however *)
(* many of them race to recover a dead one, die between two file calls, or  *)
(* see their renames fail.                                                  *)
THEOREM Exclusion == Spec => []MutualExclusion
<1>1. IInv => MutualExclusion
  BY DEF IInv, HolderInv, MutualExclusion
<1> QED BY <1>1, Invariance, PTL

(* A remover that claimed a guard still faces the directory it judged.     *)
THEOREM RetiresWhatItJudged == Spec => []NoReplacementRetired
<1>1. IInv => NoReplacementRetired
  BY ConstantsOK DEF IInv, RemovingInv, HasRecordInv, NoReplacementRetired,
     Removing, Holding
<1> QED BY <1>1, Invariance, PTL

(* The holder's directory stays on disk until the holder retires it.       *)
THEOREM HolderKeepsPath == Spec => []HolderOwnsPath
<1>1. IInv => HolderOwnsPath  BY DEF IInv, HolderInv, HolderOwnsPath
<1> QED BY <1>1, Invariance, PTL

-----------------------------------------------------------------------------
LEMMA RefinesInit == Init => Abstract!Init
BY DEF Init, Abstract!Init, Nobody, Holding

(* Who is inside follows the program counter.                              *)
LEMMA InsideStep ==
  ASSUME TypeOK, NEW p \in Procs, NEW l, Goto(p, l)
  PROVE  {q \in Procs : pc[q] \in Holding}'
           = IF l \in Holding THEN {q \in Procs : pc[q] \in Holding} \cup {p}
                              ELSE {q \in Procs : pc[q] \in Holding} \ {p}
<1>1. \A q \in Procs : pc'[q] = IF q = p THEN l ELSE pc[q]
  BY DEF TypeOK, Goto
<1> QED BY <1>1

LEMMA RefinesStep == IInv /\ [Next]_vars => [Abstract!Next]_Abstract!vars
<1> SUFFICES ASSUME IInv, [Next]_vars PROVE [Abstract!Next]_Abstract!vars
  OBVIOUS
<1> DEFINE owner == IF lock = NoLock THEN NoLock
                    ELSE [pid |-> lock.pid, inc |-> lock.inc]
           in == {q \in Procs : pc[q] \in Holding}
<1> USE DEF Abstract!vars, At, Environment
<1>t. TypeOK  BY DEF IInv
<1>0. ASSUME NEW p \in Procs, pc[p] \in Holding, alive[p]
      PROVE  p \in in /\ owner = Abstract!Instance(p)
  BY <1>0, ConstantsOK DEF IInv, HolderInv, HasRecordInv, Abstract!Instance
<1>1. CASE UNCHANGED vars
  BY <1>1 DEF vars
<1>2. ASSUME NEW p \in Procs, Create(p)
      PROVE  Abstract!Take(p) \/ UNCHANGED Abstract!vars
  <2>1. CASE lock = NoLock
    <3>1. in' = in \cup {p}
      BY <1>2, <2>1, <1>t, InsideStep DEF Create, Holding
    <3> QED BY <1>2, <2>1, <3>1, ConstantsOK DEF Create, NewRecord, Abstract!Take,
            Abstract!Instance, Nobody, IInv, TypeOK, LockRecord
  <2>2. CASE lock # NoLock
    <3>1. in' = in \ {p}
      BY <1>2, <2>2, <1>t, InsideStep DEF Create, Holding
    <3> QED BY <1>2, <2>2, <3>1 DEF Create, Holding
  <2> QED BY <2>1, <2>2
<1>3. ASSUME NEW p \in Procs, Retire(p)
      PROVE  Abstract!GiveBack(p) \/ Abstract!Reclaim
  <2> USE DEF IInv, TypeOK, LockRecord, Removing
  <2>1. owner' = NoLock /\ UNCHANGED <<alive, inc>>
    BY <1>3 DEF Retire
  <2>2. in' = in \ {p}
    BY <1>3, <1>t, InsideStep DEF Retire, AfterRemoval, Holding
  <2>3. CASE pc[p] = "unlink"
    BY <1>3, <2>1, <2>2, <2>3, <1>0 DEF Retire, Holding, Abstract!GiveBack, Nobody
  <2>4. CASE pc[p] = "retire"
    <3>1. lock \in LockRecord /\ lock = record[p] /\ Stale(lock)
      BY <2>4 DEF RemovingInv, HasRecordInv, StaleInv, Stale
    <3>2. owner # NoLock /\ owner.pid = lock.pid /\ owner.inc = lock.inc
      BY <3>1, ConstantsOK DEF ProcessInstance
    <3>3. UNCHANGED in
      BY <2>2, <2>4 DEF Holding
    <3> QED BY <2>1, <3>1, <3>2, <3>3 DEF Abstract!Reclaim, Abstract!Dead, Stale,
            Nobody
  <2> QED BY <1>3, <2>3, <2>4 DEF Retire
<1>4. ASSUME NEW p \in Procs, Crash(p)  PROVE Abstract!Die(p)
  <2>1. in' = in \ {p}
    BY <1>4, <1>t, InsideStep DEF Crash, Holding
  <2> QED BY <1>4, <2>1 DEF Crash, Abstract!Die
<1>5. ASSUME NEW p \in Procs, Restart(p)  PROVE Abstract!Revive(p)
  BY <1>5 DEF Restart, Abstract!Revive
<1>6. ASSUME NEW p \in Procs, ClaimGuard(p) \/ RetireFails(p)
      PROVE  Abstract!GiveBack(p) \/ UNCHANGED Abstract!vars
  <2>1. alive[p] /\ UNCHANGED <<owner, alive, inc>>
    BY <1>6 DEF ClaimGuard, RetireFails
  <2>2. PICK l : Goto(p, l) /\ (pc[p] \notin Holding => l \notin Holding)
    BY <1>6 DEF ClaimGuard, RetireFails, AfterRemoval, Holding
  <2>3. in' = IF l \in Holding THEN in \cup {p} ELSE in \ {p}
    BY <2>2, <1>t, InsideStep
  <2>4. CASE pc[p] \in Holding /\ l \notin Holding
    BY <2>1, <2>3, <2>4, <1>0 DEF Abstract!GiveBack, Nobody
  <2>5. CASE pc[p] \notin Holding \/ l \in Holding
    BY <2>1, <2>2, <2>3, <2>5
  <2> QED BY <2>4, <2>5
<1>7. ASSUME NEW p \in Procs,
             \/ Start(p) \/ Probe(p) \/ Read(p) \/ Missing(p) \/ Judge(p)
             \/ Retry(p) \/ Leave(p) \/ ReportInvalid(p)
      PROVE  UNCHANGED Abstract!vars
  <2>1. UNCHANGED <<owner, alive, inc>>
    BY <1>7 DEF Start, Probe, Read, Missing, Judge, Retry, Leave, ReportInvalid
  <2>2. PICK l : Goto(p, l) /\ (pc[p] \in Holding <=> l \in Holding)
    BY <1>7 DEF Start, Probe, Read, Missing, Judge, Retry, Leave,
       ReportInvalid, Holding
  <2>3. in' = IF l \in Holding THEN in \cup {p} ELSE in \ {p}
    BY <2>2, <1>t, InsideStep
  <2> QED BY <2>1, <2>2, <2>3
<1> QED BY <1>1, <1>2, <1>3, <1>4, <1>5, <1>6, <1>7
    DEF Next, Step, Abstract!Next

(* Seen through owner.json, the protocol is the abstract lock: no instance  *)
(* loses the lock while it lives except by giving it back.                  *)
THEOREM Refinement == Spec => ImplementsMutex
<1> QED BY RefinesInit, RefinesStep, Invariance, PTL
    DEF Spec, ImplementsMutex, Abstract!Spec

-----------------------------------------------------------------------------
(***************************************************************************)
(* A capture's package on disk (JcapPackage), for any number of readers,   *)
(* faults and records, clients that die included. The package of a capture *)
(* that ended is never touched again but by who holds its lease, and what  *)
(* a reader builds, restores or serves it builds from what it verified.    *)
(***************************************************************************)
AnyRaw == [samples : AnySamples, events : AnyEvents]
AnyMeta == [state : Open \cup Terminal \cup {"none"},
            index : {"absent", "building", "ready", "rebuild_required", "failed"},
            claim : AnyClaim, raw : AnyRaw]
AnyWriter == [at : {"none", "open", "closed"}, life : Open \cup Terminal \cup {"none"}]
AnyClient == [at : {"idle", "quality", "finalizing", "terminal", "close", "metadata",
                    "seal", "publish", "done", "gaveup"},
              state : Terminal \cup {"none"}, claim : AnyClaim, counted : AnyClaim,
              raw : AnyRaw]
AnyReader == [at : {"idle", "verify", "rebuild", "build", "ready", "restore", "serve",
                    "export"},
              restore : AnyMeta, raw : AnyRaw, got : IndexOf]

Types == /\ samples \in AnySamples
         /\ events \in AnyEvents
         /\ meta \in AnyMeta
         /\ db \in IndexOf
         /\ file \in IndexOf
         /\ csv \in {"none", "partial", "whole"}
         /\ writer \in AnyWriter
         /\ helper \in {"none", "off", "running", "exited"}
         /\ client \in AnyClient
         /\ lease \in Readers \cup {Free}
         /\ reader \in [Readers -> AnyReader]
         /\ faults \in 0 .. MaxFaults
         /\ rotten \in BOOLEAN

Appending == {"quality", "finalizing", "terminal", "close"}
Ending == Appending \cup {"metadata", "seal", "publish"}
Over == {"done", "gaveup"}

(* What HSS calls the end of a damaged capture.                            *)
Verdict == IF samples.tail = "corrupt" \/ events.tail = "corrupt"
           THEN "failed" ELSE "interrupted"

(* Who ends the capture is alone with the journals by then.                *)
ProducersInv ==
  /\ writer.at = "none" => meta.state = "none" /\ client.at = "idle"
  /\ helper = "running" => client.at = "idle" /\ writer.at = "closed"
  /\ client.at # "idle" /\ helper # "off" => writer.at = "closed"
  /\ client.at \in {"metadata", "seal", "publish"} => writer.at = "closed"

ClientInv ==
  /\ client.at \in Ending => client.state \in Terminal /\ samples.made
  /\ helper # "off" /\ events.tail # "clean" =>
       /\ client.at \notin Appending
       /\ client.at = "metadata" => client.state = Verdict
  /\ client.at = "publish" => meta.state \in Terminal

(* The journals are closed once capture.json says that it is over.         *)
ClosedInv ==
  meta.state \in Terminal =>
    /\ writer.at = "closed" /\ helper # "running" /\ samples.made
    /\ meta.raw \in HeldRaw

(* Nobody else ends it again, or the end would be the same.                *)
EndedInv ==
  meta.state \in Terminal =>
    /\ client.at \notin {"terminal", "close"}
    /\ client.at \notin Over => meta.raw = Raw
    /\ client.at = "publish" => client.raw = meta.raw
    /\ client.at = "metadata" => helper # "off" /\ events.tail # "clean"
    /\ helper # "off" /\ events.tail # "clean" /\ client.at \notin Over =>
         /\ client.state = meta.state
         /\ client.counted = meta.claim
         /\ meta.state = Verdict

AsFinal(copy) == /\ meta.state \in Terminal
                 /\ copy.state = meta.state
                 /\ copy.claim = meta.claim
                 /\ copy.raw = meta.raw

(* What CompletedIsAccounted says of the index, of what it is built from.  *)
Accounted(state, claim, raw) ==
  state = "completed" =>
    /\ raw.events.claim.said => raw.events.claim.validated
    /\ raw.samples.gaps <= claim.missing
    /\ MaxSamples - raw.samples.count <= claim.missing

FileInv == file # NoIndex => file.whole /\ AsFinal(file)

ReaderSound(v) ==
  /\ v.at \in {"build", "ready", "restore"} =>
       /\ AsFinal(v.restore)
       /\ v.raw = meta.raw
       /\ Accounted(v.restore.state, v.restore.claim, v.raw)
  /\ v.at \in {"serve", "export"} => v.got.whole /\ AsFinal(v.got)

ReaderInv == \A r \in Readers : ReaderSound(reader[r])

IndexInv == Accounted(db.state, db.claim, db.raw)

PackageInv == /\ Types
              /\ ProducersInv
              /\ ClientInv
              /\ ClosedInv
              /\ EndedInv
              /\ EndedAsRecorded
              /\ FileInv
              /\ ReaderInv
              /\ IndexInv

-----------------------------------------------------------------------------
(* What the operators on a journal return.                                 *)
LEMMA PushedSamples ==
  ASSUME NEW s \in AnySamples, s.count < MaxSamples, NEW gap \in 0 .. 1,
         s.gaps + gap <= 1
  PROVE  /\ Push(s, [s EXCEPT !.made = TRUE, !.count = @ + 1, !.gaps = @ + gap])
              \in AnySamples
         /\ Push(s, [s EXCEPT !.made = TRUE, !.count = @ + 1, !.gaps = @ + gap]).tail
              = IF s.tail = "clean" THEN "clean" ELSE "corrupt"
<1>1. s.count + 1 \in 0 .. MaxSamples /\ s.gaps + gap \in 0 .. 1
  BY PackageBoundsOK DEF AnySamples
<1> QED BY <1>1 DEF Push, AnySamples, Tails

LEMMA TornSamples ==
  ASSUME NEW s \in AnySamples
  PROVE  Tear(s) \in AnySamples
BY DEF Tear, AnySamples, Tails

LEMMA MadeSamples ==
  ASSUME NEW s \in AnySamples
  PROVE  /\ [s EXCEPT !.made = TRUE] \in AnySamples
         /\ [s EXCEPT !.made = TRUE].made
         /\ [s EXCEPT !.made = TRUE].tail = s.tail
         /\ s.made => [s EXCEPT !.made = TRUE] = s
BY DEF AnySamples

LEMMA TornEvents ==
  ASSUME NEW e \in AnyEvents
  PROVE  Tear(e) \in AnyEvents
BY DEF Tear, AnyEvents, Tails

LEMMA ExtendedEvents ==
  ASSUME NEW e \in AnyEvents, NEW claim \in AnyClaim,
         NEW event \in {"quality", "active", "finalizing"} \cup Terminal
  PROVE  /\ Extended(e, event, claim) \in AnyEvents
         /\ e.tail = "clean" => Extended(e, event, claim).tail = "clean"
<1>1. CASE event = "quality"
  BY <1>1 DEF Extended, Push, AnyEvents, Tails
<1>2. CASE event # "quality"
  <2>1. event \in Open \cup Terminal
    BY <1>2 DEF Open
  <2>2. Extended(e, event, claim) = Push(e, [e EXCEPT !.life = event])
    BY <1>2 DEF Extended
  <2> QED BY <2>1, <2>2 DEF Push, AnyEvents, Tails
<1> QED BY <1>1, <1>2

LEMMA BlankTypes ==
  /\ Unsaid \in AnyClaim
  /\ NoSamples \in AnySamples
  /\ NoSamples \in HeldSamples
  /\ NoEvents \in AnyEvents
  /\ NoRaw \in AnyRaw
  /\ NoRaw \in HeldRaw
  /\ NoMeta \in AnyMeta
  /\ NoIndex \in IndexOf
  /\ NoClient \in AnyClient
  /\ NoReader \in AnyReader
  /\ Closed \in AnyWriter
<1>1. Unsaid \in AnyClaim
  BY DEF AnyClaim
<1>2. NoSamples \in AnySamples /\ NoSamples \in HeldSamples
  BY PackageBoundsOK DEF NoSamples, AnySamples, HeldSamples, Tails
<1>3. NoEvents \in AnyEvents
  BY <1>1 DEF NoEvents, AnyEvents, Tails
<1>4. NoRaw \in AnyRaw /\ NoRaw \in HeldRaw
  BY <1>2, <1>3 DEF NoRaw, AnyRaw, HeldRaw
<1>5. NoMeta \in AnyMeta
  BY <1>1, <1>4 DEF NoMeta, AnyMeta
<1>6. NoIndex \in IndexOf
  BY <1>1, <1>4 DEF NoIndex, IndexOf
<1>7. NoClient \in AnyClient
  BY <1>1, <1>4 DEF NoClient, AnyClient
<1>8. NoReader \in AnyReader
  BY <1>4, <1>5, <1>6 DEF NoReader, AnyReader
<1>9. Closed \in AnyWriter
  BY DEF Closed, AnyWriter
<1> QED BY <1>1, <1>2, <1>3, <1>4, <1>5, <1>6, <1>7, <1>8, <1>9

LEMMA RawTypes ==
  ASSUME NEW s \in AnySamples, NEW e \in AnyEvents
  PROVE  /\ [samples |-> s, events |-> e] \in AnyRaw
         /\ s.made => [samples |-> s, events |-> e] \in HeldRaw
BY DEF AnyRaw, HeldRaw, HeldSamples

(* The constants of a record's fields, of which the sets above consist.    *)
LEMMA HeldIsAny == HeldRaw \subseteq AnyRaw
<1>1. HeldSamples \subseteq AnySamples
  BY BlankTypes DEF HeldSamples
<1> QED BY <1>1 DEF HeldRaw, AnyRaw

-----------------------------------------------------------------------------
(* The types, action by action.                                            *)
LEMMA FaultTypes == ASSUME Types, Fault PROVE faults' \in 0 .. MaxFaults
BY PackageBoundsOK DEF Types, Fault

LEMMA InitTypes == PackageInit => Types
<1> SUFFICES ASSUME PackageInit PROVE Types
  OBVIOUS
<1>1. writer \in AnyWriter
  BY BlankTypes DEF PackageInit, AnyWriter, Closed
<1>2. reader \in [Readers -> AnyReader]
  BY BlankTypes DEF PackageInit
<1>3. 0 \in 0 .. MaxFaults
  BY PackageBoundsOK
<1> QED BY <1>1, <1>2, <1>3, BlankTypes DEF PackageInit, Types

LEMMA CreateTypes == ASSUME Types, CreatePackage PROVE Types'
<1>1. writer' \in AnyWriter
  BY DEF CreatePackage, AnyWriter
<1>2. samples' \in AnySamples
  BY DEF CreatePackage, AnySamples, Types, External
<1>3. meta' \in AnyMeta
  BY BlankTypes DEF CreatePackage, AnyMeta, NoMeta, Open
<1> QED BY <1>1, <1>2, <1>3 DEF CreatePackage, Types, querying, harm

LEMMA WriterEventTypes ==
  ASSUME Types, NEW event \in {"quality", "active", "finalizing"} \cup Terminal,
         NEW claim \in AnyClaim, WriterEvent(event, claim)
  PROVE  /\ events' \in AnyEvents
         /\ writer' \in AnyWriter
         /\ writer'.at = writer.at
         /\ events.tail = "clean" => events'.tail = "clean"
         /\ writer.at = "open"
<1>1. events' = Extended(events, event, claim) /\ writer.at = "open"
  BY DEF WriterEvent
<1>2. writer' \in AnyWriter /\ writer'.at = writer.at
  <2>1. CASE event = "quality"
    BY <2>1 DEF WriterEvent, Types
  <2>2. CASE event # "quality"
    <3>1. writer' = [writer EXCEPT !.life = event]
      BY <2>2 DEF WriterEvent
    <3>2. event \in Open \cup Terminal
      BY <2>2 DEF Open
    <3> QED BY <3>1, <3>2 DEF Types, AnyWriter
  <2> QED BY <2>1, <2>2
<1> QED BY <1>1, <1>2, ExtendedEvents DEF Types

LEMMA RecordTypes == ASSUME Types, Record PROVE Types'
<1>1. WriterEvent("active", Unsaid)
  BY DEF Record
<1>2. events' \in AnyEvents /\ writer' \in AnyWriter
  BY <1>1, BlankTypes, WriterEventTypes
<1> QED BY <1>2 DEF Record, Types, querying, harm

LEMMA NextSampleTypes ==
  ASSUME Types, NEW gap \in 0 .. 1, samples.gaps + gap <= 1, NextSample(gap)
  PROVE  samples' \in AnySamples
BY PushedSamples DEF Types, NextSample

LEMMA AppendSampleTypes == ASSUME Types, AppendSample PROVE Types'
<1>1. samples' \in AnySamples
  BY NextSampleTypes DEF AppendSample
<1> QED BY <1>1 DEF AppendSample, Types, ending, querying, harm

LEMMA HandOverTypes == ASSUME Types, HandOver PROVE Types'
BY BlankTypes DEF HandOver, Types, journals, querying, harm

LEMMA HelperSampleTypes == ASSUME Types, HelperSample PROVE Types'
<1>1. samples' \in AnySamples
  BY NextSampleTypes DEF HelperSample
<1> QED BY <1>1 DEF HelperSample, Types, ending, querying, harm

LEMMA HelperExitsTypes == ASSUME Types, HelperExits PROVE Types'
<1>1. samples' \in AnySamples /\ faults' \in 0 .. MaxFaults
  <2>1. CASE Healthy /\ UNCHANGED samples
    BY <2>1 DEF Types, Healthy
  <2>2. CASE Fault /\ samples' = Tear([samples EXCEPT !.made = TRUE])
    <3>1. [samples EXCEPT !.made = TRUE] \in AnySamples
      BY MadeSamples DEF Types
    <3> QED BY <2>2, <3>1, TornSamples, FaultTypes
  <2> QED BY <2>1, <2>2 DEF HelperExits
<1> QED BY <1>1 DEF HelperExits, Types, querying

LEMMA WriterDiesTypes == ASSUME Types, WriterDies PROVE Types'
<1>1. samples' \in AnySamples /\ events' \in AnyEvents
  BY TornSamples, TornEvents DEF WriterDies, Types, journals
<1>2. faults' \in 0 .. MaxFaults
  BY FaultTypes DEF WriterDies
<1> QED BY <1>1, <1>2, BlankTypes DEF WriterDies, Types, querying

LEMMA BeginEndTypes ==
  ASSUME Types, NEW said \in Terminal, NEW claim \in AnyClaim, NEW counted \in AnyClaim,
         BeginEnd(said, claim, counted)
  PROVE  Types' /\ client'.state = EndState(said) /\ client'.counted = counted
         /\ client'.at = (IF External /\ events.tail # "clean" THEN "metadata"
                          ELSE IF claim.said THEN "quality" ELSE "finalizing")
<1>1. EndState(said) \in Terminal
  BY DEF EndState, Terminal
<1>2. PICK at \in {"metadata", "quality", "finalizing"} :
        at = (IF External /\ events.tail # "clean" THEN "metadata"
              ELSE IF claim.said THEN "quality" ELSE "finalizing")
  OBVIOUS
<1>3. client' = [at |-> at, state |-> EndState(said), claim |-> claim,
                 counted |-> counted, raw |-> NoRaw]
  BY <1>2, Zenon DEF BeginEnd
<1>4. client' \in AnyClient
  BY <1>1, <1>3, BlankTypes DEF AnyClient
<1>5. samples' \in AnySamples
  BY MadeSamples DEF BeginEnd, Types
<1> QED BY <1>2, <1>3, <1>4, <1>5 DEF BeginEnd, Types, querying, harm

LEMMA GotoTypes ==
  ASSUME client \in AnyClient, NEW next, ClientGoto(next),
         next \in Ending \cup Over
  PROVE  /\ client' \in AnyClient
         /\ client'.at = next
         /\ client'.state = client.state
         /\ client'.counted = client.counted
         /\ client'.raw = client.raw
BY DEF ClientGoto, AnyClient, Ending, Over, Appending

LEMMA LeavesTypes ==
  ASSUME NEW next \in Over, ClientLeaves(next)
  PROVE  client' \in AnyClient /\ client'.at = next
BY BlankTypes DEF ClientLeaves, AnyClient, NoClient, Over

(* An event that ends the capture is appended by its writer, or, while     *)
(* capture.json calls it open, by another process to a whole journal.      *)
LEMMA EndEventTypes ==
  ASSUME Types, NEW event \in {"quality", "active", "finalizing"} \cup Terminal,
         EndEvent(event)
  PROVE  /\ events' \in AnyEvents
         /\ writer' \in AnyWriter
         /\ writer'.at = writer.at
         /\ events.tail = "clean" => events'.tail = "clean"
         /\ \/ writer.at = "open"
            \/ meta.state \in Open /\ events.tail = "clean"
<1>1. client.claim \in AnyClaim
  BY DEF Types, AnyClient
<1>2. CASE WriterEvent(event, client.claim)
  BY <1>1, <1>2, WriterEventTypes
<1>3. CASE ForeignEvent(event, client.claim)
  <2>1. /\ events' = Extended(events, event, client.claim)
        /\ writer' = writer
        /\ meta.state \in Open /\ events.tail = "clean"
    BY <1>3 DEF ForeignEvent
  <2> QED BY <1>1, <2>1, ExtendedEvents DEF Types
<1> QED BY <1>2, <1>3 DEF EndEvent

LEMMA EventStepTypes ==
  ASSUME Types, NEW step, NEW next \in Ending,
         NEW event \in {"quality", "active", "finalizing"} \cup Terminal,
         EventStep(step, event, next)
  PROVE  Types'
<1>1. client' \in AnyClient
  BY GotoTypes DEF EventStep, Types
<1>2. events' \in AnyEvents /\ writer' \in AnyWriter
  BY EndEventTypes DEF EventStep
<1> QED BY <1>1, <1>2 DEF EventStep, Types, querying, harm

LEMMA EndRefusedTypes == ASSUME Types, EndRefused PROVE Types'
<1>1. client' \in AnyClient
  BY LeavesTypes DEF EndRefused, Over
<1> QED BY <1>1 DEF EndRefused, Types, querying, harm, journals

LEMMA CloseTypes == ASSUME Types, Close PROVE Types'
<1>1. client' \in AnyClient
  BY GotoTypes DEF Close, Types, Ending
<1>2. writer' \in AnyWriter
  BY BlankTypes DEF Close, Types
<1> QED BY <1>1, <1>2 DEF Close, Types, querying, harm, journals

(* A query step or a second end: capture.json may change, how the capture  *)
(* ended may not.                                                          *)
SameEnd == /\ meta'.state = meta.state
           /\ meta'.claim = meta.claim
           /\ meta'.raw = meta.raw

LEMMA RawIsTyped == ASSUME Types PROVE Raw \in AnyRaw /\ (samples.made => Raw \in HeldRaw)
BY RawTypes DEF Types, Raw

LEMMA FinalizeTypes ==
  ASSUME Types, ClientInv, Finalize
  PROVE  /\ Types'
         /\ client'.at = "seal"
         /\ client'.state = client.state
         /\ client'.counted = client.counted
         /\ \/ meta' = meta
            \/ /\ Readable /\ MatchesRaw(Raw, client.state)
               /\ meta'.state = client.state
               /\ meta'.claim = client.counted
               /\ meta'.raw = Raw
<1>1. ClientGoto("seal") /\ client \in AnyClient
  BY DEF Finalize, Types
<1>2. /\ client' \in AnyClient /\ client'.at = "seal"
      /\ client'.state = client.state /\ client'.counted = client.counted
  BY <1>1, GotoTypes DEF Ending
<1>3. client.state \in Terminal /\ client.counted \in AnyClaim
  BY <1>1 DEF ClientInv, Finalize, ClientAt, Ending, AnyClient
<1>4. CASE Readable /\ MatchesRaw(Raw, client.state)
  <2>1. meta' = FinalMeta(client.state, client.counted)
    BY <1>4 DEF Finalize
  <2>2. PICK index \in {"failed", "rebuild_required"} :
          index = IF client.state = "failed" THEN "failed" ELSE "rebuild_required"
    OBVIOUS
  <2>3. meta' = [state |-> client.state, index |-> index, claim |-> client.counted,
                 raw |-> Raw]
    BY <2>1, <2>2, Zenon DEF FinalMeta
  <2>4. meta' \in AnyMeta
    BY <2>2, <2>3, <1>3, RawIsTyped DEF AnyMeta
  <2> QED BY <1>2, <1>4, <2>3, <2>4 DEF Finalize, Types, querying, harm, journals
<1>5. CASE ~(Readable /\ MatchesRaw(Raw, client.state))
  <2>1. meta' = meta
    BY <1>5 DEF Finalize
  <2> QED BY <1>2, <2>1 DEF Finalize, Types, querying, harm, journals
<1> QED BY <1>4, <1>5

LEMMA SealTypes ==
  ASSUME Types, Seal
  PROVE  /\ Types'
         /\ \/ /\ client'.at = "publish" /\ client'.raw = Raw
               /\ client'.state = client.state /\ client'.counted = client.counted
               /\ Readable /\ meta.state \in Terminal
            \/ client'.at = "gaveup"
<1>1. CASE Readable /\ meta.state \in Terminal
  <2>1. client' = [client EXCEPT !.at = "publish", !.raw = Raw]
    BY <1>1 DEF Seal
  <2>2. PICK raw \in AnyRaw : raw = Raw
    BY RawIsTyped
  <2>3. client' = [client EXCEPT !.at = "publish", !.raw = raw]
    BY <2>1, <2>2, Zenon
  <2>4. /\ client' \in AnyClient /\ client'.at = "publish" /\ client'.raw = raw
        /\ client'.state = client.state /\ client'.counted = client.counted
    BY <2>3, <2>2 DEF Types, AnyClient
  <2> QED BY <1>1, <2>2, <2>4 DEF Seal, Types, querying, harm, journals
<1>2. CASE ~(Readable /\ meta.state \in Terminal)
  <2>1. client' \in AnyClient /\ client'.at = "gaveup"
    BY <1>2, LeavesTypes DEF Seal, Over
  <2> QED BY <2>1 DEF Seal, Types, querying, harm, journals
<1> QED BY <1>1, <1>2

LEMMA PublishTypes ==
  ASSUME Types, ClientInv, ClosedInv, EndedInv, Publish
  PROVE  /\ Types' /\ client'.at = "done"
         /\ file'.whole /\ AsFinal(file')
<1>1. /\ meta.state \in Terminal /\ client.raw = meta.raw /\ meta.raw \in HeldRaw
      /\ meta.claim \in AnyClaim
  BY DEF ClientInv, ClosedInv, EndedInv, Publish, ClientAt, Types, AnyMeta
<1>2. file' = [whole |-> TRUE, state |-> meta.state, claim |-> meta.claim,
               raw |-> meta.raw]
  BY <1>1 DEF Publish
<1>3. file' \in IndexOf
  BY <1>1, <1>2 DEF IndexOf
<1>4. client' \in AnyClient /\ client'.at = "done"
  BY LeavesTypes DEF Publish, Over
<1>5. file'.whole /\ AsFinal(file')
  BY <1>1, <1>2 DEF AsFinal
<1> QED BY <1>3, <1>4, <1>5 DEF Publish, Types, querying, harm, journals

LEMMA ClientDiesTypes ==
  ASSUME Types, ClientDies
  PROVE  /\ Types' /\ client'.at = "idle"
         /\ External => client'.state = client.state /\ client'.counted = client.counted
<1>1. /\ client' \in AnyClient /\ client'.at = "idle"
      /\ External => client'.state = client.state /\ client'.counted = client.counted
  <2>1. CASE External
    <3>1. client' = [client EXCEPT !.at = "idle", !.raw = NoRaw]
      BY <2>1 DEF ClientDies
    <3> QED BY <3>1, BlankTypes DEF Types, AnyClient
  <2>2. CASE ~External
    <3>1. client' = NoClient
      BY <2>2 DEF ClientDies
    <3> QED BY <2>2, <3>1, BlankTypes DEF NoClient
  <2> QED BY <2>1, <2>2
<1>2. events' \in AnyEvents
  BY TornEvents DEF ClientDies, Types
<1>3. faults' \in 0 .. MaxFaults
  BY FaultTypes DEF ClientDies
<1> QED BY <1>1, <1>2, <1>3 DEF ClientDies, Types, querying

LEMMA SamplesRotTypes ==
  ASSUME Types, SamplesRot
  PROVE  Types' /\ samples'.made = samples.made
<1>1. samples.count - 1 \in 0 .. MaxSamples
  BY PackageBoundsOK DEF SamplesRot, Types, AnySamples
<1>2. PICK n \in 0 .. MaxSamples : n = samples.count - 1
  BY <1>1
<1>3. samples' = [samples EXCEPT !.count = n, !.tail = "corrupt"]
  BY <1>2 DEF SamplesRot
<1>4. samples' \in AnySamples /\ samples'.made = samples.made
  BY <1>3 DEF Types, AnySamples, Tails
<1>5. faults' \in 0 .. MaxFaults
  BY FaultTypes DEF SamplesRot
<1> QED BY <1>4, <1>5 DEF SamplesRot, Types, ending, querying

LEMMA IndexRotsTypes ==
  ASSUME Types, IndexRots
  PROVE  /\ Types'
         /\ db'.state = db.state /\ db'.claim = db.claim /\ db'.raw = db.raw
<1>1. /\ db' \in IndexOf
      /\ db'.state = db.state /\ db'.claim = db.claim /\ db'.raw = db.raw
  BY DEF IndexRots, Types, IndexOf
<1>2. faults' \in 0 .. MaxFaults
  BY FaultTypes DEF IndexRots
<1> QED BY <1>1, <1>2 DEF IndexRots, Types, ending, querying, journals

-----------------------------------------------------------------------------
(* The steps of a reader: what became of it, and that nothing else did.    *)
LEMMA ReaderUpdated ==
  ASSUME reader \in [Readers -> AnyReader], NEW r \in Readers, NEW v \in AnyReader,
         reader' = [reader EXCEPT ![r] = v]
  PROVE  /\ reader' \in [Readers -> AnyReader]
         /\ reader'[r] = v
         /\ \A q \in Readers \ {r} : reader'[q] = reader[q]
OBVIOUS

LEMMA ReaderMoved ==
  ASSUME reader \in [Readers -> AnyReader], NEW r \in Readers, NEW step, Move(r, step),
         step \in {"rebuild", "ready", "restore", "verify", "export"}
  PROVE  \E v \in AnyReader :
           /\ reader' = [reader EXCEPT ![r] = v]
           /\ v.at = step /\ v.restore = reader[r].restore /\ v.raw = reader[r].raw
           /\ v.got = reader[r].got
<1> DEFINE v == [reader[r] EXCEPT !.at = step]
<1>1. /\ v \in AnyReader
      /\ v.at = step /\ v.restore = reader[r].restore /\ v.raw = reader[r].raw
      /\ v.got = reader[r].got
  BY DEF AnyReader
<1>2. reader' = [reader EXCEPT ![r] = v]
  BY DEF Move
<1> QED BY <1>1, <1>2, Zenon

LEMMA ReaderReturned ==
  ASSUME reader \in [Readers -> AnyReader], NEW r \in Readers, Return(r),
         lease \in Readers \cup {Free}
  PROVE  /\ reader' = [reader EXCEPT ![r] = NoReader]
         /\ NoReader \in AnyReader /\ NoReader.at = "idle"
         /\ lease' \in Readers \cup {Free}
<1>1. lease' \in Readers \cup {Free}
  BY DEF Return, Release
<1> QED BY <1>1, BlankTypes DEF Return, NoReader

LEMMA ReaderServes ==
  ASSUME reader \in [Readers -> AnyReader], NEW r \in Readers, NEW copy \in IndexOf,
         reader' = [reader EXCEPT ![r].at = "serve", ![r].got = copy]
  PROVE  \E v \in AnyReader :
           reader' = [reader EXCEPT ![r] = v] /\ v.at = "serve" /\ v.got = copy
<1> DEFINE v == [reader[r] EXCEPT !.at = "serve", !.got = copy]
<1>1. v \in AnyReader /\ v.at = "serve" /\ v.got = copy
  BY DEF AnyReader
<1>2. reader' = [reader EXCEPT ![r] = v]
  OBVIOUS
<1> QED BY <1>1, <1>2, Zenon

(* Where a reader stands that has nothing in its hands.                    *)
LEMMA EmptyHanded ==
  ASSUME NEW v, v.at \in {"idle", "verify", "rebuild"}
  PROVE  ReaderSound(v)
BY DEF ReaderSound

(* What a step of a reader, or a damage to the index, leaves as it is.     *)
QueryFrame(r) ==
  /\ UNCHANGED <<samples, events, file, writer, helper, client, rotten>>
  /\ SameEnd
  /\ meta' \in AnyMeta /\ db' \in IndexOf
  /\ db' = db \/ Accounted(db'.state, db'.claim, db'.raw)
  /\ csv' \in {"none", "partial", "whole"} /\ lease' \in Readers \cup {Free}
  /\ faults' \in 0 .. MaxFaults
  /\ \E v \in AnyReader : reader' = [reader EXCEPT ![r] = v] /\ ReaderSound(v)

LEMMA AskEffect ==
  ASSUME Types, FileInv, NEW r \in Readers, Ask(r)
  PROVE  QueryFrame(r)
<1>1. \E v \in AnyReader : reader' = [reader EXCEPT ![r] = v] /\ ReaderSound(v)
  <2>1. CASE file # NoIndex
    <3>1. PICK v \in AnyReader :
            reader' = [reader EXCEPT ![r] = v] /\ v.at = "serve" /\ v.got = file
      BY <2>1, ReaderServes DEF Ask, Types
    <3>2. ReaderSound(v)
      BY <2>1, <3>1 DEF FileInv, ReaderSound
    <3> QED BY <3>1, <3>2
  <2>2. CASE file = NoIndex
    <3> DEFINE v == [NoReader EXCEPT !.at = "verify"]
    <3>1. v \in AnyReader /\ v.at = "verify"
      BY BlankTypes DEF AnyReader
    <3>2. reader' = [reader EXCEPT ![r] = v]
      BY <2>2 DEF Ask
    <3> HIDE DEF v
    <3>3. ReaderSound(v)
      BY <3>1, EmptyHanded
    <3> QED BY <3>1, <3>2, <3>3
  <2> QED BY <2>1, <2>2
<1>2. lease' \in Readers \cup {Free}
  BY DEF Ask, Types
<1> QED BY <1>1, <1>2
      DEF Ask, QueryFrame, Types, SameEnd, storage, journals, ending, harm

LEMMA VerifyEffect ==
  ASSUME Types, NEW r \in Readers, Verify(r)
  PROVE  QueryFrame(r)
<1>1. /\ \E v \in AnyReader : reader' = [reader EXCEPT ![r] = v] /\ ReaderSound(v)
      /\ lease' \in Readers \cup {Free}
  <2>1. CASE VerifyIndex = "ready"
    <3>1. /\ db.whole /\ db.state = meta.state /\ db.claim = meta.claim
          /\ db.raw = Raw /\ FinalIdentities(meta, db.raw, FALSE)
      BY <2>1 DEF VerifyIndex
    <3>2. AsFinal(db)
      BY <3>1 DEF AsFinal, FinalIdentities
    <3>3. /\ reader' = [reader EXCEPT ![r].at = "serve", ![r].got = db]
          /\ lease' = lease
      BY <2>1 DEF Verify
    <3>4. PICK v \in AnyReader :
            reader' = [reader EXCEPT ![r] = v] /\ v.at = "serve" /\ v.got = db
      BY <3>3, ReaderServes DEF Types
    <3>5. ReaderSound(v)
      BY <3>1, <3>2, <3>4 DEF ReaderSound
    <3> QED BY <3>3, <3>4, <3>5 DEF Types
  <2>2. CASE VerifyIndex # "ready"
    <3>1. (Move(r, "rebuild") /\ lease' = lease) \/ Return(r)
      BY <2>2 DEF Verify
    <3>2. CASE Move(r, "rebuild") /\ lease' = lease
      <4>1. PICK v \in AnyReader : reader' = [reader EXCEPT ![r] = v] /\ v.at = "rebuild"
        BY <3>2, ReaderMoved DEF Types
      <4>2. ReaderSound(v)
        BY <4>1, EmptyHanded
      <4> QED BY <3>2, <4>1, <4>2 DEF Types
    <3>3. CASE Return(r)
      BY <3>3, ReaderReturned, EmptyHanded DEF Types
    <3> QED BY <3>1, <3>2, <3>3
  <2> QED BY <2>1, <2>2
<1> QED BY <1>1
      DEF Verify, QueryFrame, Types, SameEnd, storage, journals, ending, harm

(* What rebuildJcapV1IndexWithinLease has checked before it builds.        *)
LEMMA RebuildableFacts ==
  ASSUME Types, Rebuildable
  PROVE  /\ meta.state \in Terminal
         /\ meta.raw = Raw
         /\ Raw \in HeldRaw
         /\ Accounted(meta.state, meta.claim, Raw)
<1>1. /\ meta.state \in Terminal /\ meta.raw = Raw /\ samples.made
      /\ QualityFacts(meta, events) /\ LossFacts(meta, Raw)
  BY DEF Rebuildable, FinalIdentities, Readable
<1>2. Raw \in HeldRaw
  BY <1>1, RawIsTyped
<1>3. Raw.samples = samples /\ Raw.events = events
  BY DEF Raw
<1>4. samples.count \in 0 .. MaxSamples /\ samples.gaps \in 0 .. 1
  BY DEF Types, AnySamples
<1>5. meta.claim.missing \in 0 .. MaxMissing
  <2>1. MaxMissing \in Nat
    BY PackageBoundsOK
  <2>2. meta.claim \in Claims \/ meta.claim = Unsaid
    BY DEF Types, AnyMeta, AnyClaim
  <2>3. CASE meta.claim \in Claims
    BY <2>3 DEF Claims
  <2>4. CASE meta.claim = Unsaid
    BY <2>1, <2>4 DEF Unsaid
  <2> QED BY <2>2, <2>3, <2>4
<1>6. ASSUME meta.state = "completed"
      PROVE  /\ events.claim.said => events.claim.validated
             /\ samples.gaps <= meta.claim.missing
             /\ MaxSamples - samples.count <= meta.claim.missing
  <2>1. events.claim.said => events.claim.validated
    BY <1>1, <1>6 DEF QualityFacts
  <2>2. samples.gaps <= meta.claim.missing
    BY <1>1, <1>3 DEF LossFacts
  <2>3. samples.count < MaxSamples => meta.claim.missing >= MaxSamples - samples.count
    BY <1>1, <1>3, <1>6 DEF LossFacts
  <2>4. MaxSamples \in Nat /\ MaxMissing \in Nat
    BY PackageBoundsOK
  <2> QED BY <2>1, <2>2, <2>3, <2>4, <1>4, <1>5
<1>7. Accounted(meta.state, meta.claim, Raw)
  BY <1>6, <1>3 DEF Accounted
<1> QED BY <1>1, <1>2, <1>7

LEMMA RebuildEffect ==
  ASSUME Types, NEW r \in Readers, Rebuild(r)
  PROVE  QueryFrame(r)
<1>1. CASE Rebuildable
  <2>1. /\ meta.state \in Terminal /\ meta.raw = Raw /\ Raw \in AnyRaw
        /\ Accounted(meta.state, meta.claim, Raw)
    BY <1>1, RebuildableFacts, RawIsTyped
  <2>2. meta' = [meta EXCEPT !.index = "building"]
    BY <1>1 DEF Rebuild
  <2>3. meta' \in AnyMeta /\ SameEnd
    BY <2>2 DEF Types, AnyMeta, SameEnd
  <2> DEFINE index == IF meta.index = "building" THEN "rebuild_required" ELSE meta.index
  <2>4. index \in {"absent", "building", "ready", "rebuild_required", "failed"}
    BY DEF Types, AnyMeta
  <2>5. PICK restore \in AnyMeta :
          /\ restore = [meta EXCEPT !.index = index]
          /\ restore.state = meta.state /\ restore.claim = meta.claim
          /\ restore.raw = meta.raw
    <3> HIDE DEF index
    <3> DEFINE restore == [meta EXCEPT !.index = index]
    <3>1. /\ restore \in AnyMeta /\ restore.state = meta.state
          /\ restore.claim = meta.claim /\ restore.raw = meta.raw
      BY <2>4 DEF Types, AnyMeta
    <3> QED BY <3>1, Zenon
  <2>6. reader' = [reader EXCEPT ![r].at = "build", ![r].raw = Raw,
                                 ![r].restore = restore]
    <3>1. restore = [meta EXCEPT !.index = IF @ = "building" THEN "rebuild_required" ELSE @]
      BY <2>5
    <3>2. reader' = [reader EXCEPT ![r].at = "build", ![r].raw = Raw,
                       ![r].restore = [meta EXCEPT !.index =
                         IF @ = "building" THEN "rebuild_required" ELSE @]]
      BY <1>1, Zenon DEF Rebuild
    <3> QED BY <3>1, <3>2, Zenon
  <2>7. PICK raw \in AnyRaw : raw = Raw
    BY <2>1
  <2> DEFINE v == [reader[r] EXCEPT !.at = "build", !.raw = raw, !.restore = restore]
  <2>8. v \in AnyReader /\ v.at = "build" /\ v.raw = raw /\ v.restore = restore
    BY <2>5, <2>7 DEF AnyReader, Types
  <2>9. reader' = [reader EXCEPT ![r] = v]
    <3>1. reader' = [reader EXCEPT ![r].at = "build", ![r].raw = raw,
                                   ![r].restore = restore]
      BY <2>6, <2>7, Zenon
    <3> QED BY <3>1
  <2> HIDE DEF v
  <2>10. ReaderSound(v)
    <3>1. AsFinal(v.restore) /\ v.raw = meta.raw
      BY <2>1, <2>5, <2>7, <2>8 DEF AsFinal
    <3>2. Accounted(v.restore.state, v.restore.claim, v.raw)
      BY <2>1, <2>5, <2>7, <2>8
    <3> QED BY <2>8, <3>1, <3>2 DEF ReaderSound
  <2> QED BY <1>1, <2>3, <2>8, <2>9, <2>10
          DEF Rebuild, QueryFrame, Types, journals, ending, harm
<1>2. CASE ~Rebuildable
  <2>1. Return(r) /\ meta' = meta
    BY <1>2 DEF Rebuild
  <2>2. /\ reader' = [reader EXCEPT ![r] = NoReader] /\ NoReader \in AnyReader
        /\ ReaderSound(NoReader) /\ lease' \in Readers \cup {Free}
    BY <2>1, ReaderReturned, EmptyHanded DEF Types
  <2> QED BY <2>1, <2>2
          DEF Rebuild, QueryFrame, Types, SameEnd, journals, ending, harm
<1> QED BY <1>1, <1>2

LEMMA BuiltEffect ==
  ASSUME Types, ClosedInv, ReaderInv, NEW r \in Readers, Built(r)
  PROVE  QueryFrame(r)
<1>1. /\ ReaderSound(reader[r]) /\ reader[r].at = "build" /\ reader[r] \in AnyReader
  BY DEF ReaderInv, Built, On, Types
<1>2. /\ AsFinal(reader[r].restore) /\ reader[r].raw = meta.raw
      /\ Accounted(reader[r].restore.state, reader[r].restore.claim, reader[r].raw)
  BY <1>1 DEF ReaderSound
<1>3. ASSUME NEW step \in {"ready", "restore"}, Move(r, step)
      PROVE  \E v \in AnyReader : reader' = [reader EXCEPT ![r] = v] /\ ReaderSound(v)
  <2>1. PICK v \in AnyReader :
          /\ reader' = [reader EXCEPT ![r] = v]
          /\ v.at = step /\ v.restore = reader[r].restore /\ v.raw = reader[r].raw
    BY <1>3, ReaderMoved DEF Types
  <2>2. ReaderSound(v)
    BY <1>2, <2>1 DEF ReaderSound
  <2> QED BY <2>1, <2>2
<1>4. CASE Raw = reader[r].raw /\ FinalIdentities(meta, reader[r].raw, TRUE)
  <2>1. /\ Move(r, "ready")
        /\ db' = [whole |-> TRUE, state |-> reader[r].restore.state,
                  claim |-> reader[r].restore.claim, raw |-> reader[r].raw]
    BY <1>4 DEF Built
  <2>2. /\ reader[r].restore.state \in Terminal /\ reader[r].restore.claim \in AnyClaim
        /\ reader[r].raw \in HeldRaw
    BY <1>1, <1>2 DEF AsFinal, ClosedInv, AnyReader, AnyMeta
  <2>3. /\ db' \in IndexOf /\ db'.state = reader[r].restore.state
        /\ db'.claim = reader[r].restore.claim /\ db'.raw = reader[r].raw
    BY <2>1, <2>2 DEF IndexOf
  <2>4. Accounted(db'.state, db'.claim, db'.raw)
    BY <1>2, <2>3
  <2>5. \E v \in AnyReader : reader' = [reader EXCEPT ![r] = v] /\ ReaderSound(v)
    BY <1>3, <2>1
  <2> QED BY <2>3, <2>4, <2>5
          DEF Built, QueryFrame, Types, SameEnd, journals, ending, harm
<1>5. CASE ~(Raw = reader[r].raw /\ FinalIdentities(meta, reader[r].raw, TRUE))
  <2>1. Move(r, "restore") /\ db' = db
    BY <1>5 DEF Built
  <2>2. \E v \in AnyReader : reader' = [reader EXCEPT ![r] = v] /\ ReaderSound(v)
    BY <1>3, <2>1
  <2> QED BY <2>1, <2>2
          DEF Built, QueryFrame, Types, SameEnd, journals, ending, harm
<1> QED BY <1>4, <1>5

LEMMA ReadyEffect ==
  ASSUME Types, ReaderInv, NEW r \in Readers, Ready(r)
  PROVE  QueryFrame(r)
<1>1. /\ ReaderSound(reader[r]) /\ reader[r].at = "ready" /\ reader[r] \in AnyReader
  BY DEF ReaderInv, Ready, On, Types
<1>2. AsFinal(reader[r].restore) /\ reader[r].raw = meta.raw
  BY <1>1 DEF ReaderSound
<1>3. PICK restore \in AnyMeta, raw \in AnyRaw : restore = reader[r].restore /\ raw = reader[r].raw
  BY <1>1 DEF AnyReader
<1>4. meta' = [restore EXCEPT !.index = "ready", !.raw = raw]
  BY <1>3, Zenon DEF Ready
<1>5. meta' \in AnyMeta /\ meta'.state = restore.state /\ meta'.claim = restore.claim
      /\ meta'.raw = raw
  BY <1>3, <1>4 DEF AnyMeta
<1>6. SameEnd
  BY <1>2, <1>3, <1>5 DEF SameEnd, AsFinal
<1>7. PICK v \in AnyReader : reader' = [reader EXCEPT ![r] = v] /\ v.at = "verify"
  BY ReaderMoved DEF Ready, Types
<1>8. ReaderSound(v)
  BY <1>7, EmptyHanded
<1> QED BY <1>5, <1>6, <1>7, <1>8 DEF Ready, QueryFrame, Types, journals, ending, harm

LEMMA StepFailsEffect ==
  ASSUME Types, ReaderInv, NEW r \in Readers, StepFails(r)
  PROVE  QueryFrame(r)
<1>1. /\ ReaderSound(reader[r]) /\ reader[r].at \in {"build", "ready"}
  BY DEF ReaderInv, StepFails
<1>2. PICK v \in AnyReader :
        /\ reader' = [reader EXCEPT ![r] = v]
        /\ v.at = "restore" /\ v.restore = reader[r].restore /\ v.raw = reader[r].raw
  BY ReaderMoved DEF StepFails, Types
<1>3. ReaderSound(v)
  BY <1>1, <1>2 DEF ReaderSound
<1>4. faults' \in 0 .. MaxFaults
  BY FaultTypes DEF StepFails
<1> QED BY <1>2, <1>3, <1>4
        DEF StepFails, QueryFrame, Types, SameEnd, storage, journals, ending

LEMMA ReturnEffect ==
  ASSUME Types, NEW r \in Readers, Return(r)
  PROVE  /\ \E v \in AnyReader : reader' = [reader EXCEPT ![r] = v] /\ ReaderSound(v)
         /\ lease' \in Readers \cup {Free}
BY ReaderReturned, EmptyHanded DEF Types

LEMMA RestoreEffect ==
  ASSUME Types, ReaderInv, NEW r \in Readers, Restore(r)
  PROVE  QueryFrame(r)
<1>1. /\ ReaderSound(reader[r]) /\ reader[r].at = "restore" /\ reader[r] \in AnyReader
  BY DEF ReaderInv, Restore, On, Types
<1>2. AsFinal(reader[r].restore) /\ reader[r].restore \in AnyMeta
  BY <1>1 DEF ReaderSound, AnyReader
<1>3. meta' \in AnyMeta /\ SameEnd
  BY <1>2 DEF Restore, AsFinal, SameEnd, Types
<1>4. faults' \in 0 .. MaxFaults
  BY FaultTypes DEF Restore, Healthy, Types
<1>5. /\ \E v \in AnyReader : reader' = [reader EXCEPT ![r] = v] /\ ReaderSound(v)
      /\ lease' \in Readers \cup {Free}
  BY ReturnEffect DEF Restore
<1> QED BY <1>3, <1>4, <1>5 DEF Restore, QueryFrame, Types, journals, ending

LEMMA ServeEffect ==
  ASSUME Types, NEW r \in Readers, Serve(r)
  PROVE  QueryFrame(r)
<1>1. /\ \E v \in AnyReader : reader' = [reader EXCEPT ![r] = v] /\ ReaderSound(v)
      /\ lease' \in Readers \cup {Free}
  BY ReturnEffect DEF Serve
<1> QED BY <1>1 DEF Serve, QueryFrame, Types, SameEnd, storage, journals, ending, harm

LEMMA ExportEffect ==
  ASSUME Types, ReaderInv, NEW r \in Readers, Export(r)
  PROVE  QueryFrame(r)
<1>1. /\ \E v \in AnyReader : reader' = [reader EXCEPT ![r] = v] /\ ReaderSound(v)
      /\ lease' \in Readers \cup {Free}
      /\ csv' \in {"none", "partial", "whole"}
  <2>1. CASE csv = "none"
    <3>1. Move(r, "export") /\ lease' = lease /\ csv' = "partial"
      BY <2>1 DEF Export
    <3>2. ReaderSound(reader[r]) /\ reader[r].at = "serve"
      BY DEF ReaderInv, Export, On
    <3>3. PICK v \in AnyReader :
            /\ reader' = [reader EXCEPT ![r] = v]
            /\ v.at = "export" /\ v.got = reader[r].got
      BY <3>1, ReaderMoved DEF Types
    <3>4. ReaderSound(v)
      BY <3>2, <3>3 DEF ReaderSound
    <3> QED BY <3>1, <3>3, <3>4 DEF Types
  <2>2. CASE csv # "none"
    <3>1. Return(r) /\ csv' = csv
      BY <2>2 DEF Export
    <3> QED BY <3>1, ReturnEffect DEF Types
  <2> QED BY <2>1, <2>2
<1> QED BY <1>1 DEF Export, QueryFrame, Types, SameEnd, storage, journals, ending, harm

LEMMA ExportedEffect ==
  ASSUME Types, NEW r \in Readers, Exported(r)
  PROVE  QueryFrame(r)
<1>1. /\ \E v \in AnyReader : reader' = [reader EXCEPT ![r] = v] /\ ReaderSound(v)
      /\ lease' \in Readers \cup {Free}
  BY ReturnEffect DEF Exported
<1>2. faults' \in 0 .. MaxFaults /\ csv' \in {"none", "partial", "whole"}
  BY FaultTypes DEF Exported, Healthy, Types
<1> QED BY <1>1, <1>2
        DEF Exported, QueryFrame, Types, SameEnd, storage, journals, ending

LEMMA ReaderDiesEffect ==
  ASSUME Types, NEW r \in Readers, ReaderDies(r)
  PROVE  QueryFrame(r)
<1>1. /\ \E v \in AnyReader : reader' = [reader EXCEPT ![r] = v] /\ ReaderSound(v)
      /\ lease' \in Readers \cup {Free}
  BY ReturnEffect DEF ReaderDies
<1>2. faults' \in 0 .. MaxFaults
  BY FaultTypes DEF ReaderDies
<1> QED BY <1>1, <1>2
        DEF ReaderDies, QueryFrame, Types, SameEnd, storage, journals, ending

(* One lemma for all of them.                                              *)
LEMMA QueryEffect ==
  ASSUME PackageInv, NEW r \in Readers,
         Query(r) \/ Export(r) \/ StepFails(r) \/ ReaderDies(r)
  PROVE  QueryFrame(r)
<1> USE DEF PackageInv
<1>1. CASE Ask(r)
  BY <1>1, AskEffect
<1>2. CASE Verify(r)
  BY <1>2, VerifyEffect
<1>3. CASE Rebuild(r)
  BY <1>3, RebuildEffect
<1>4. CASE Built(r)
  BY <1>4, BuiltEffect
<1>5. CASE Ready(r)
  BY <1>5, ReadyEffect
<1>6. CASE Restore(r)
  BY <1>6, RestoreEffect
<1>7. CASE Serve(r)
  BY <1>7, ServeEffect
<1>8. CASE Exported(r)
  BY <1>8, ExportedEffect
<1>9. CASE Export(r)
  BY <1>9, ExportEffect
<1>10. CASE StepFails(r)
  BY <1>10, StepFailsEffect
<1>11. CASE ReaderDies(r)
  BY <1>11, ReaderDiesEffect
<1> QED BY <1>1, <1>2, <1>3, <1>4, <1>5, <1>6, <1>7, <1>8, <1>9, <1>10, <1>11 DEF Query

-----------------------------------------------------------------------------
(* What keeps each part of the invariant.  First: the end of a capture     *)
(* stands, and so do its journals.                                         *)
EndKept == meta.state \in Terminal => SameEnd

JournalsKept == meta.state \in Terminal => rotten' \/ UNCHANGED journals

EndInv == ProducersInv /\ ClientInv /\ ClosedInv /\ EndedInv /\ EndedAsRecorded

LEMMA FileKept == ASSUME FileInv, EndKept, file' = file PROVE FileInv'
BY DEF FileInv, AsFinal, EndKept, SameEnd

LEMMA ReadersKept == ASSUME ReaderInv, EndKept, reader' = reader PROVE ReaderInv'
BY DEF ReaderInv, ReaderSound, AsFinal, EndKept, SameEnd

LEMMA ReaderStepKept ==
  ASSUME Types, ReaderInv, EndKept, NEW r \in Readers, QueryFrame(r)
  PROVE  ReaderInv' /\ reader' \in [Readers -> AnyReader]
<1>1. PICK v \in AnyReader : reader' = [reader EXCEPT ![r] = v] /\ ReaderSound(v)
  BY DEF QueryFrame
<1>2. /\ reader' \in [Readers -> AnyReader]
      /\ reader'[r] = v
      /\ \A q \in Readers \ {r} : reader'[q] = reader[q]
  BY <1>1, ReaderUpdated DEF Types
<1>3. ReaderSound(reader[r])' = ReaderSound(v)'
  BY <1>2 DEF ReaderSound, AsFinal
<1>4. ASSUME NEW u, ReaderSound(u)
      PROVE  ReaderSound(u)'
  BY <1>4 DEF ReaderSound, AsFinal, EndKept, SameEnd
<1>5. ASSUME NEW q \in Readers
      PROVE  ReaderSound(reader[q])'
  <2>1. CASE q = r
    BY <1>1, <1>2, <1>4, <2>1 DEF ReaderSound, AsFinal
  <2>2. CASE q # r
    <3>1. ReaderSound(reader[q]) /\ reader'[q] = reader[q]
      BY <2>2, <1>2 DEF ReaderInv
    <3> QED BY <3>1 DEF ReaderSound, AsFinal, EndKept, SameEnd
  <2> QED BY <2>1, <2>2
<1> QED BY <1>2, <1>5 DEF ReaderInv

(* Until capture.json says so, nothing is over.                            *)
LEMMA BeforeTheEnd ==
  ASSUME meta.state \notin Terminal, meta'.state \notin Terminal,
         ProducersInv', ClientInv'
  PROVE  EndKept /\ JournalsKept /\ EndInv'
BY DEF EndKept, JournalsKept, EndInv, ClosedInv, EndedInv, EndedAsRecorded

LEMMA CreateKeeps ==
  ASSUME PackageInv, CreatePackage
  PROVE  EndKept /\ JournalsKept /\ EndInv'
<1>1. /\ writer.at = "none" /\ writer'.at = "open"
      /\ UNCHANGED <<client, helper>>
      /\ meta'.state = "active"
  BY DEF CreatePackage, NoMeta
<1>2. meta.state = "none" /\ client.at = "idle" /\ helper # "running"
  BY <1>1 DEF PackageInv, ProducersInv
<1>3. ProducersInv'
  BY <1>1, <1>2 DEF ProducersInv
<1>4. ClientInv'
  BY <1>1, <1>2 DEF ClientInv, Ending, Appending
<1> QED BY <1>1, <1>2, <1>3, <1>4, BeforeTheEnd DEF Terminal

LEMMA RecordKeeps ==
  ASSUME PackageInv, Record
  PROVE  EndKept /\ JournalsKept /\ EndInv'
<1>1. /\ client.at = "idle" /\ writer.at = "open" /\ writer'.at = "open"
      /\ UNCHANGED <<client, helper, meta, samples>>
  BY WriterEventTypes, BlankTypes DEF Record, PackageInv
<1>2. meta.state \notin Terminal
  BY <1>1 DEF PackageInv, ClosedInv
<1>3. ProducersInv'
  BY <1>1 DEF PackageInv, ProducersInv
<1>4. ClientInv'
  BY <1>1 DEF ClientInv, Ending, Appending
<1> QED BY <1>1, <1>2, <1>3, <1>4, BeforeTheEnd

LEMMA AppendSampleKeeps ==
  ASSUME PackageInv, AppendSample
  PROVE  EndKept /\ JournalsKept /\ EndInv'
<1>1. /\ client.at = "idle" /\ writer.at = "open"
      /\ UNCHANGED <<client, helper, meta, writer>>
  BY DEF AppendSample, ending
<1>2. meta.state \notin Terminal
  BY <1>1 DEF PackageInv, ClosedInv
<1>3. ProducersInv'
  BY <1>1 DEF PackageInv, ProducersInv
<1>4. ClientInv'
  BY <1>1 DEF ClientInv, Ending, Appending
<1> QED BY <1>1, <1>2, <1>3, <1>4, BeforeTheEnd

LEMMA HandOverKeeps ==
  ASSUME PackageInv, HandOver
  PROVE  EndKept /\ JournalsKept /\ EndInv'
<1>1. /\ helper = "none" /\ writer.at = "open" /\ helper' = "running"
      /\ writer'.at = "closed"
      /\ UNCHANGED <<client, meta, samples>>
  BY DEF HandOver, Closed, journals
<1>2. meta.state \notin Terminal /\ client.at = "idle"
  BY <1>1 DEF PackageInv, ClosedInv, ProducersInv
<1>3. ProducersInv'
  BY <1>1, <1>2 DEF PackageInv, ProducersInv
<1>4. ClientInv'
  BY <1>1, <1>2 DEF ClientInv, Ending, Appending
<1> QED BY <1>1, <1>2, <1>3, <1>4, BeforeTheEnd

LEMMA HelperSampleKeeps ==
  ASSUME PackageInv, HelperSample
  PROVE  EndKept /\ JournalsKept /\ EndInv'
<1>1. helper = "running" /\ UNCHANGED <<client, helper, meta, writer>>
  BY DEF HelperSample, ending
<1>2. meta.state \notin Terminal /\ client.at = "idle"
  BY <1>1 DEF PackageInv, ClosedInv, ProducersInv
<1>3. ProducersInv'
  BY <1>1 DEF PackageInv, ProducersInv
<1>4. ClientInv'
  BY <1>1, <1>2 DEF ClientInv, Ending, Appending
<1> QED BY <1>1, <1>2, <1>3, <1>4, BeforeTheEnd

LEMMA HelperExitsKeeps ==
  ASSUME PackageInv, HelperExits
  PROVE  EndKept /\ JournalsKept /\ EndInv'
<1>1. helper = "running" /\ helper' = "exited" /\ UNCHANGED <<client, meta, writer>>
  BY DEF HelperExits
<1>2. meta.state \notin Terminal /\ client.at = "idle"
  BY <1>1 DEF PackageInv, ClosedInv, ProducersInv
<1>3. ProducersInv'
  BY <1>1, <1>2 DEF PackageInv, ProducersInv
<1>4. ClientInv'
  BY <1>1, <1>2 DEF ClientInv, Ending, Appending
<1> QED BY <1>1, <1>2, <1>3, <1>4, BeforeTheEnd

LEMMA WriterDiesKeeps ==
  ASSUME PackageInv, WriterDies
  PROVE  EndKept /\ JournalsKept /\ EndInv'
<1>1. /\ writer.at = "open" /\ writer'.at = "closed" /\ client'.at = "idle"
      /\ UNCHANGED <<helper, meta>>
  BY DEF WriterDies, Closed, NoClient
<1>2. meta.state \notin Terminal
  BY <1>1 DEF PackageInv, ClosedInv
<1>3. ProducersInv'
  BY <1>1 DEF PackageInv, ProducersInv
<1>4. ClientInv'
  BY <1>1 DEF ClientInv, Ending, Appending
<1> QED BY <1>1, <1>2, <1>3, <1>4, BeforeTheEnd

(* Who ends the capture, step by step.                                     *)
LEMMA EventStepKeeps ==
  ASSUME PackageInv, NEW step \in {"quality", "finalizing", "terminal"},
         NEW event \in {"quality", "active", "finalizing"} \cup Terminal,
         NEW next \in {"finalizing", "terminal", "close"},
         EventStep(step, event, next)
  PROVE  EndKept /\ JournalsKept /\ EndInv'
<1>1. /\ client.at = step /\ client'.at = next /\ client'.state = client.state
      /\ UNCHANGED <<samples, meta, helper>>
  BY GotoTypes DEF EventStep, ClientAt, PackageInv, Types, Ending, Appending
<1>2. /\ writer'.at = writer.at
      /\ events.tail = "clean" => events'.tail = "clean"
      /\ \/ writer.at = "open"
         \/ meta.state \in Open /\ events.tail = "clean"
  BY EndEventTypes DEF EventStep, PackageInv
<1>3. meta.state \notin Terminal
  BY <1>2 DEF PackageInv, ClosedInv, Open, Terminal
<1>4. ProducersInv'
  BY <1>1, <1>2 DEF PackageInv, ProducersInv
<1>5. ClientInv'
  <2>1. client.state \in Terminal /\ samples.made
    BY <1>1 DEF PackageInv, ClientInv, Ending, Appending
  <2>2. helper # "off" => writer.at = "closed"
    BY <1>1 DEF PackageInv, ProducersInv
  <2>3. helper # "off" => events'.tail = "clean"
    BY <1>2, <2>2
  <2> QED BY <1>1, <2>1, <2>3 DEF ClientInv
<1> QED BY <1>1, <1>3, <1>4, <1>5, BeforeTheEnd

LEMMA EndTerminalState ==
  ASSUME PackageInv, client.at \in Ending
  PROVE  client.state \in Terminal
BY DEF PackageInv, ClientInv

LEMMA BeginEndKeeps ==
  ASSUME PackageInv, NEW said \in Terminal, NEW claim \in AnyClaim, NEW counted \in AnyClaim,
         BeginEnd(said, claim, counted)
  PROVE  EndKept /\ JournalsKept /\ EndInv'
<1>1. /\ client.at = "idle" /\ meta.state # "none" /\ helper # "running"
      /\ writer.at = "open" => ~External
      /\ client.state # "none" => counted = client.counted
      /\ UNCHANGED <<events, meta, writer, helper>>
      /\ samples' = [samples EXCEPT !.made = TRUE]
  BY DEF BeginEnd, ClientAt
<1>2. /\ client'.state = EndState(said) /\ client'.counted = counted
      /\ client'.at \in {"metadata", "quality", "finalizing"}
      /\ client'.at = "metadata" <=> External /\ events.tail # "clean"
  BY BeginEndTypes DEF PackageInv
<1>3. /\ samples'.made /\ samples'.tail = samples.tail
      /\ samples.made => samples' = samples
  BY <1>1, MadeSamples DEF PackageInv, Types
<1>4. EndState(said) \in Terminal
  BY DEF EndState, Terminal
<1>5. writer.at # "none"
  BY <1>1 DEF PackageInv, ProducersInv
<1>6. External => writer.at = "closed"
  BY <1>1, <1>5 DEF PackageInv, Types, AnyWriter
<1>7. External /\ events.tail # "clean" => EndState(said) = Verdict
  BY <1>6 DEF EndState, Verdict, Corrupt, Damaged, Raw
<1>8. Verdict' = Verdict
  BY <1>1, <1>3 DEF Verdict
<1>9. ProducersInv'
  BY <1>1, <1>2, <1>5, <1>6 DEF ProducersInv, External
<1>10. ClientInv'
  BY <1>1, <1>2, <1>3, <1>4, <1>7, <1>8 DEF ClientInv, External, Appending
<1>11. CASE meta.state \notin Terminal
  BY <1>1, <1>9, <1>10, <1>11, BeforeTheEnd
<1>12. CASE meta.state \in Terminal
  <2>1. samples' = samples
    BY <1>3, <1>12 DEF PackageInv, ClosedInv
  <2>2. EndKept /\ JournalsKept
    BY <1>1, <2>1 DEF EndKept, SameEnd, JournalsKept, journals
  <2>3. ClosedInv'
    BY <1>1, <2>1 DEF PackageInv, ClosedInv
  <2>4. EndedAsRecorded'
    BY <1>1 DEF PackageInv, EndedAsRecorded, Damaged
  <2>5. meta.raw = Raw /\ Raw' = Raw
    BY <1>1, <1>12, <2>1 DEF PackageInv, EndedInv, Raw, Over
  <2>6. External /\ events.tail # "clean" =>
          /\ client.state = meta.state /\ client.counted = meta.claim
          /\ meta.state = Verdict
    BY <1>1, <1>12 DEF PackageInv, EndedInv, External, Over
  <2>7. External /\ events.tail # "clean" =>
          client'.state = meta.state /\ client'.counted = meta.claim
    BY <1>1, <1>2, <1>7, <1>12, <2>6 DEF Terminal
  <2>8. EndedInv'
    BY <1>1, <1>2, <1>8, <2>5, <2>6, <2>7 DEF EndedInv, External, Over
  <2> QED BY <1>9, <1>10, <2>2, <2>3, <2>4, <2>8 DEF EndInv
<1> QED BY <1>11, <1>12

LEMMA EndRefusedKeeps ==
  ASSUME PackageInv, EndRefused
  PROVE  EndKept /\ JournalsKept /\ EndInv'
<1>1. /\ client.at # "idle" /\ client'.at = "gaveup"
      /\ UNCHANGED <<samples, events, meta, writer, helper>>
  BY LeavesTypes DEF EndRefused, Over, ClientAt, journals
<1>2. EndKept /\ JournalsKept
  BY <1>1 DEF EndKept, SameEnd, JournalsKept, journals
<1>3. ProducersInv'
  BY <1>1 DEF PackageInv, ProducersInv
<1>4. ClientInv'
  BY <1>1 DEF ClientInv, Ending, Appending
<1>5. ClosedInv' /\ EndedAsRecorded'
  BY <1>1 DEF PackageInv, ClosedInv, EndedAsRecorded, Damaged
<1>6. EndedInv'
  BY <1>1 DEF EndedInv, Over
<1> QED BY <1>2, <1>3, <1>4, <1>5, <1>6 DEF EndInv

LEMMA CloseKeeps ==
  ASSUME PackageInv, Close
  PROVE  EndKept /\ JournalsKept /\ EndInv'
<1>1. /\ client.at = "close" /\ client'.at = "metadata" /\ client'.state = client.state
      /\ UNCHANGED <<samples, events, meta, helper>>
  BY GotoTypes DEF Close, ClientAt, PackageInv, Types, Ending, journals
<1>2. writer'.at = "closed"
  BY <1>1 DEF Close, Closed, PackageInv, Types, AnyWriter, ProducersInv
<1>3. meta.state \notin Terminal
  BY <1>1 DEF PackageInv, EndedInv
<1>4. ProducersInv'
  BY <1>1, <1>2 DEF PackageInv, ProducersInv
<1>5. ClientInv'
  BY <1>1 DEF PackageInv, ClientInv, Ending, Appending
<1> QED BY <1>1, <1>3, <1>4, <1>5, BeforeTheEnd

LEMMA FinalizeKeeps ==
  ASSUME PackageInv, Finalize
  PROVE  EndKept /\ JournalsKept /\ EndInv'
<1>1. /\ client.at = "metadata"
      /\ UNCHANGED <<samples, events, writer, helper>>
  BY DEF Finalize, ClientAt, journals
<1>2. /\ client'.at = "seal" /\ client'.state = client.state
      /\ client'.counted = client.counted
      /\ \/ meta' = meta
         \/ /\ Readable /\ MatchesRaw(Raw, client.state)
            /\ meta'.state = client.state
            /\ meta'.claim = client.counted
            /\ meta'.raw = Raw
  BY FinalizeTypes DEF PackageInv
<1>3. client.state \in Terminal /\ samples.made
  BY <1>1 DEF PackageInv, ClientInv, Ending
<1>4. writer.at = "closed" /\ helper # "running"
  BY <1>1 DEF PackageInv, ProducersInv
<1>5. ProducersInv'
  BY <1>1, <1>2, <1>4 DEF ProducersInv
<1>6. ClientInv'
  BY <1>1, <1>2, <1>3 DEF ClientInv, Appending
<1>7. Verdict' = Verdict /\ Raw' = Raw
  BY <1>1 DEF Verdict, Raw
<1>8. meta.state \in Terminal =>
        /\ meta.raw = Raw
        /\ External /\ events.tail # "clean"
        /\ client.state = meta.state /\ client.counted = meta.claim
  BY <1>1 DEF PackageInv, EndedInv, External, Over
<1>9. External /\ events.tail # "clean" => client.state = Verdict
  BY <1>1 DEF PackageInv, ClientInv, External
<1>10. EndKept
  BY <1>2, <1>8 DEF EndKept, SameEnd
<1>11. JournalsKept
  BY <1>1 DEF JournalsKept, journals
<1>12. CASE meta' = meta
  <2>1. ClosedInv'
    BY <1>1, <1>12 DEF PackageInv, ClosedInv
  <2>2. EndedAsRecorded'
    BY <1>1, <1>12 DEF PackageInv, EndedAsRecorded, Damaged
  <2>3. EndedInv'
    BY <1>1, <1>2, <1>7, <1>8, <1>9, <1>12 DEF EndedInv, External, Over
  <2> QED BY <1>5, <1>6, <1>10, <1>11, <2>1, <2>2, <2>3 DEF EndInv
<1>13. CASE /\ MatchesRaw(Raw, client.state)
            /\ meta'.state = client.state
            /\ meta'.claim = client.counted
            /\ meta'.raw = Raw
  <2>1. Raw \in HeldRaw
    BY <1>3, RawIsTyped DEF PackageInv
  <2>2. ClosedInv'
    BY <1>1, <1>3, <1>4, <1>13, <2>1 DEF ClosedInv
  <2>3. EndedAsRecorded'
    <3>1. Raw.events = events /\ Raw.samples = samples
      BY DEF Raw
    <3>2. \/ events.life = client.state
          \/ /\ events.life \in Open
             /\ client.state \in {"interrupted", "failed"}
             /\ Damaged(Raw)
      BY <1>13, <3>1 DEF MatchesRaw, Damaged, Corrupt
    <3>3. Damaged(meta'.raw) <=> Damaged(Raw)
      BY <1>13
    <3> QED BY <1>1, <1>13, <3>2, <3>3 DEF EndedAsRecorded, Damaged
  <2>4. EndedInv'
    BY <1>1, <1>2, <1>7, <1>9, <1>13 DEF EndedInv, External, Over
  <2> QED BY <1>5, <1>6, <1>10, <1>11, <2>2, <2>3, <2>4 DEF EndInv
<1> QED BY <1>2, <1>12, <1>13

LEMMA SealKeeps ==
  ASSUME PackageInv, Seal
  PROVE  EndKept /\ JournalsKept /\ EndInv'
<1>1. /\ client.at = "seal"
      /\ UNCHANGED <<samples, events, meta, writer, helper>>
  BY DEF Seal, ClientAt, journals
<1>2. \/ /\ client'.at = "publish" /\ client'.raw = Raw
         /\ client'.state = client.state /\ client'.counted = client.counted
         /\ meta.state \in Terminal
      \/ client'.at = "gaveup"
  BY SealTypes DEF PackageInv
<1>3. EndKept /\ JournalsKept
  BY <1>1 DEF EndKept, SameEnd, JournalsKept, journals
<1>4. ProducersInv'
  BY <1>1, <1>2 DEF PackageInv, ProducersInv
<1>5. ClientInv'
  BY <1>1, <1>2 DEF PackageInv, ClientInv, Ending, Appending
<1>6. ClosedInv' /\ EndedAsRecorded'
  BY <1>1 DEF PackageInv, ClosedInv, EndedAsRecorded, Damaged
<1>7. EndedInv'
  <2>1. meta.state \in Terminal => meta.raw = Raw
    BY <1>1 DEF PackageInv, EndedInv, Over
  <2>2. Raw' = Raw /\ Verdict' = Verdict
    BY <1>1 DEF Raw, Verdict
  <2> QED BY <1>1, <1>2, <2>1, <2>2 DEF PackageInv, EndedInv, Over
<1> QED BY <1>3, <1>4, <1>5, <1>6, <1>7 DEF EndInv

LEMMA PublishKeeps ==
  ASSUME PackageInv, Publish
  PROVE  EndKept /\ JournalsKept /\ EndInv' /\ FileInv'
<1>1. /\ client.at = "publish" /\ client'.at = "done"
      /\ UNCHANGED <<samples, events, meta, writer, helper>>
      /\ file'.whole /\ AsFinal(file')
  BY PublishTypes DEF Publish, ClientAt, PackageInv, journals
<1>2. EndKept /\ JournalsKept
  BY <1>1 DEF EndKept, SameEnd, JournalsKept, journals
<1>3. ProducersInv'
  BY <1>1 DEF PackageInv, ProducersInv
<1>4. ClientInv'
  BY <1>1 DEF ClientInv, Ending, Appending
<1>5. ClosedInv' /\ EndedAsRecorded'
  BY <1>1 DEF PackageInv, ClosedInv, EndedAsRecorded, Damaged
<1>6. EndedInv'
  BY <1>1 DEF EndedInv, Over
<1>7. FileInv'
  BY <1>1 DEF FileInv, AsFinal
<1> QED BY <1>2, <1>3, <1>4, <1>5, <1>6, <1>7 DEF EndInv

LEMMA ClientDiesKeeps ==
  ASSUME PackageInv, ClientDies
  PROVE  EndKept /\ JournalsKept /\ EndInv'
<1>1. /\ client.at \notin Over \cup {"idle"} /\ client'.at = "idle"
      /\ External => client'.state = client.state /\ client'.counted = client.counted
      /\ UNCHANGED <<samples, meta, writer, helper>>
      /\ events' = events \/ meta.state \in Open
  BY ClientDiesTypes DEF ClientDies, PackageInv, Over
<1>2. ProducersInv'
  BY <1>1 DEF PackageInv, ProducersInv
<1>3. ClientInv'
  BY <1>1 DEF ClientInv, Ending, Appending
<1>4. CASE meta.state \notin Terminal
  BY <1>1, <1>2, <1>3, <1>4, BeforeTheEnd
<1>5. CASE meta.state \in Terminal
  <2>1. events' = events
    BY <1>1, <1>5 DEF Open, Terminal
  <2>2. EndKept /\ JournalsKept
    BY <1>1, <2>1 DEF EndKept, SameEnd, JournalsKept, journals
  <2>3. ClosedInv' /\ EndedAsRecorded'
    BY <1>1, <2>1 DEF PackageInv, ClosedInv, EndedAsRecorded, Damaged
  <2>4. Raw' = Raw /\ Verdict' = Verdict
    BY <1>1, <2>1 DEF Raw, Verdict
  <2>5. EndedInv'
    BY <1>1, <2>1, <2>4 DEF PackageInv, EndedInv, External
  <2> QED BY <1>2, <1>3, <2>2, <2>3, <2>5 DEF EndInv
<1> QED BY <1>4, <1>5

LEMMA SamplesRotKeeps ==
  ASSUME PackageInv, SamplesRot
  PROVE  EndKept /\ JournalsKept /\ EndInv'
<1>1. /\ client.at \in Over /\ rotten' /\ samples'.made = samples.made
      /\ UNCHANGED <<events, meta, writer, helper, client>>
  BY SamplesRotTypes DEF SamplesRot, PackageInv, Over, ending
<1>2. EndKept /\ JournalsKept
  BY <1>1 DEF EndKept, SameEnd, JournalsKept
<1>3. ProducersInv'
  BY <1>1 DEF PackageInv, ProducersInv
<1>4. ClientInv'
  BY <1>1 DEF ClientInv, Ending, Appending, Over
<1>5. ClosedInv' /\ EndedAsRecorded'
  BY <1>1 DEF PackageInv, ClosedInv, EndedAsRecorded, Damaged
<1>6. EndedInv'
  BY <1>1 DEF EndedInv, Over
<1> QED BY <1>2, <1>3, <1>4, <1>5, <1>6 DEF EndInv

(* Reading changes nothing of this.                                        *)
LEMMA QueryKeeps ==
  ASSUME PackageInv, SameEnd,
         UNCHANGED <<samples, events, writer, helper, client>>
  PROVE  EndKept /\ JournalsKept /\ EndInv'
<1>1. EndKept /\ JournalsKept
  BY DEF EndKept, JournalsKept, journals
<1>2. Raw' = Raw /\ Verdict' = Verdict
  BY DEF Raw, Verdict
<1>3. ProducersInv'
  BY DEF PackageInv, ProducersInv, SameEnd
<1>4. ClientInv'
  BY <1>2 DEF PackageInv, ClientInv, SameEnd
<1>5. ClosedInv' /\ EndedAsRecorded'
  BY DEF PackageInv, ClosedInv, EndedAsRecorded, Damaged, SameEnd
<1>6. EndedInv'
  BY <1>2 DEF PackageInv, EndedInv, SameEnd
<1> QED BY <1>1, <1>3, <1>4, <1>5, <1>6 DEF EndInv

-----------------------------------------------------------------------------
(* The parts together, for the steps that no reader takes ...              *)
LEMMA KeptWithIndex ==
  ASSUME PackageInv, Types', EndKept, JournalsKept, EndInv', FileInv',
         reader' = reader, IndexInv'
  PROVE  PackageInv' /\ EndKept /\ JournalsKept
BY ReadersKept DEF PackageInv, EndInv

LEMMA KeptByOthers ==
  ASSUME PackageInv, Types', EndKept, JournalsKept, EndInv', file' = file,
         reader' = reader, db' = db
  PROVE  PackageInv' /\ EndKept /\ JournalsKept
<1>1. IndexInv'
  BY DEF PackageInv, IndexInv, Accounted
<1>2. FileInv'
  BY FileKept DEF PackageInv
<1> QED BY <1>1, <1>2, KeptWithIndex

(* ... for those that record, for those that end the capture ...           *)
LEMMA RecordingKeeps ==
  ASSUME PackageInv,
         \/ CreatePackage \/ Record \/ AppendSample \/ HandOver
         \/ HelperSample \/ HelperExits \/ WriterDies
  PROVE  PackageInv' /\ EndKept /\ JournalsKept
<1>1. Types
  BY DEF PackageInv
<1>2. CASE CreatePackage
  <2>1. UNCHANGED <<file, reader, db>>
    BY <1>2 DEF CreatePackage, querying
  <2> QED BY <1>1, <1>2, <2>1, CreateTypes, CreateKeeps, KeptByOthers
<1>3. CASE Record
  <2>1. UNCHANGED <<file, reader, db>>
    BY <1>3 DEF Record, querying
  <2> QED BY <1>1, <1>3, <2>1, RecordTypes, RecordKeeps, KeptByOthers
<1>4. CASE AppendSample
  <2>1. UNCHANGED <<file, reader, db>>
    BY <1>4 DEF AppendSample, querying
  <2> QED BY <1>1, <1>4, <2>1, AppendSampleTypes, AppendSampleKeeps, KeptByOthers
<1>5. CASE HandOver
  <2>1. UNCHANGED <<file, reader, db>>
    BY <1>5 DEF HandOver, querying
  <2> QED BY <1>1, <1>5, <2>1, HandOverTypes, HandOverKeeps, KeptByOthers
<1>6. CASE HelperSample
  <2>1. UNCHANGED <<file, reader, db>>
    BY <1>6 DEF HelperSample, querying
  <2> QED BY <1>1, <1>6, <2>1, HelperSampleTypes, HelperSampleKeeps, KeptByOthers
<1>7. CASE HelperExits
  <2>1. UNCHANGED <<file, reader, db>>
    BY <1>7 DEF HelperExits, querying
  <2> QED BY <1>1, <1>7, <2>1, HelperExitsTypes, HelperExitsKeeps, KeptByOthers
<1>8. CASE WriterDies
  <2>1. UNCHANGED <<file, reader, db>>
    BY <1>8 DEF WriterDies, querying
  <2> QED BY <1>1, <1>8, <2>1, WriterDiesTypes, WriterDiesKeeps, KeptByOthers
<1> QED BY <1>2, <1>3, <1>4, <1>5, <1>6, <1>7, <1>8

LEMMA EndEventKeeps ==
  ASSUME PackageInv, EndQuality \/ EndFinalizing \/ EndTerminal
  PROVE  PackageInv' /\ EndKept /\ JournalsKept
<1>1. PICK step \in {"quality", "finalizing", "terminal"},
           event \in {"quality", "active", "finalizing"} \cup Terminal,
           next \in {"finalizing", "terminal", "close"} : EventStep(step, event, next)
  <2>1. CASE EndQuality
    BY <2>1 DEF EndQuality
  <2>2. CASE EndFinalizing
    BY <2>2 DEF EndFinalizing
  <2>3. CASE EndTerminal
    <3>1. PICK step \in {"terminal", "finalizing"} : EventStep(step, client.state, "close")
      BY <2>3 DEF EndTerminal
    <3>2. client.at = step
      BY <3>1 DEF EventStep, ClientAt
    <3>3. client.state \in Terminal
      BY <3>2, EndTerminalState DEF Ending, Appending
    <3> QED BY <3>1, <3>3
  <2> QED BY <2>1, <2>2, <2>3
<1>2. UNCHANGED <<file, reader, db>>
  BY <1>1 DEF EventStep, querying
<1>3. Types' /\ EndKept /\ JournalsKept /\ EndInv'
  BY <1>1, EventStepTypes, EventStepKeeps DEF PackageInv, Ending, Appending
<1> QED BY <1>2, <1>3, KeptByOthers

LEMMA EndKeeps ==
  ASSUME PackageInv, End \/ ClientDies
  PROVE  PackageInv' /\ EndKept /\ JournalsKept
<1>1. Types
  BY DEF PackageInv
<1>2. ASSUME NEW said \in Terminal, NEW claim \in Claims \cup {Unsaid},
             NEW counted \in Claims \cup {Unsaid}, BeginEnd(said, claim, counted)
      PROVE  PackageInv' /\ EndKept /\ JournalsKept
  <2>1. UNCHANGED <<file, reader, db>>
    BY <1>2 DEF BeginEnd, querying
  <2>2. claim \in AnyClaim /\ counted \in AnyClaim
    BY DEF AnyClaim
  <2>3. Types' /\ EndKept /\ JournalsKept /\ EndInv'
    BY <1>1, <1>2, <2>2, BeginEndTypes, BeginEndKeeps
  <2> QED BY <2>1, <2>3, KeptByOthers
<1>3. CASE EndQuality \/ EndFinalizing \/ EndTerminal
  BY <1>3, EndEventKeeps
<1>4. CASE EndRefused
  <2>1. UNCHANGED <<file, reader, db>>
    BY <1>4 DEF EndRefused, querying
  <2> QED BY <1>1, <1>4, <2>1, EndRefusedTypes, EndRefusedKeeps, KeptByOthers
<1>5. CASE Close
  <2>1. UNCHANGED <<file, reader, db>>
    BY <1>5 DEF Close, querying
  <2> QED BY <1>1, <1>5, <2>1, CloseTypes, CloseKeeps, KeptByOthers
<1>6. CASE Finalize
  <2>1. UNCHANGED <<file, reader, db>> /\ ClientInv
    BY <1>6 DEF Finalize, querying, PackageInv
  <2> QED BY <1>1, <1>6, <2>1, FinalizeTypes, FinalizeKeeps, KeptByOthers
<1>7. CASE Seal
  <2>1. UNCHANGED <<file, reader, db>>
    BY <1>7 DEF Seal, querying
  <2> QED BY <1>1, <1>7, <2>1, SealTypes, SealKeeps, KeptByOthers
<1>8. CASE Publish
  <2>1. reader' = reader /\ IndexInv'
    BY <1>8 DEF Publish, querying, PackageInv, IndexInv, Accounted
  <2>2. Types'
    BY <1>8, PublishTypes DEF PackageInv
  <2> QED BY <1>8, <2>1, <2>2, PublishKeeps, KeptWithIndex
<1>9. CASE ClientDies
  <2>1. UNCHANGED <<file, reader, db>>
    BY <1>9 DEF ClientDies, querying
  <2> QED BY <1>1, <1>9, <2>1, ClientDiesTypes, ClientDiesKeeps, KeptByOthers
<1> QED BY <1>2, <1>3, <1>4, <1>5, <1>6, <1>7, <1>8, <1>9 DEF End

(* ... for the damages, and for the readers.                               *)
LEMMA RotKeeps ==
  ASSUME PackageInv, SamplesRot \/ IndexRots
  PROVE  PackageInv' /\ EndKept /\ JournalsKept
<1>1. CASE SamplesRot
  <2>1. UNCHANGED <<file, reader, db>>
    BY <1>1 DEF SamplesRot, querying
  <2>2. Types'
    BY <1>1, SamplesRotTypes DEF PackageInv
  <2> QED BY <1>1, <2>1, <2>2, SamplesRotKeeps, KeptByOthers
<1>2. CASE IndexRots
  <2>1. UNCHANGED <<samples, events, meta, file, reader, writer, helper, client>>
    BY <1>2 DEF IndexRots, journals, ending, querying
  <2>2. /\ Types'
        /\ db'.state = db.state /\ db'.claim = db.claim /\ db'.raw = db.raw
    BY <1>2, IndexRotsTypes DEF PackageInv
  <2>3. IndexInv'
    BY <2>2 DEF PackageInv, IndexInv, Accounted
  <2>4. SameEnd
    BY <2>1 DEF SameEnd
  <2>5. EndKept /\ JournalsKept /\ EndInv'
    BY <2>1, <2>4, QueryKeeps
  <2>6. FileInv'
    BY <2>1, <2>5, FileKept DEF PackageInv
  <2> QED BY <2>1, <2>2, <2>3, <2>5, <2>6, KeptWithIndex
<1> QED BY <1>1, <1>2

LEMMA ReadingKeeps ==
  ASSUME PackageInv, NEW r \in Readers,
         Query(r) \/ Export(r) \/ StepFails(r) \/ ReaderDies(r)
  PROVE  PackageInv' /\ EndKept /\ JournalsKept
<1>1. QueryFrame(r)
  BY QueryEffect
<1>2. EndKept /\ JournalsKept /\ EndInv'
  BY <1>1, QueryKeeps DEF QueryFrame
<1>3. ReaderInv' /\ reader' \in [Readers -> AnyReader]
  BY <1>1, <1>2, ReaderStepKept DEF PackageInv
<1>4. FileInv'
  BY <1>1, <1>2, FileKept DEF QueryFrame, PackageInv
<1>5. IndexInv'
  BY <1>1 DEF QueryFrame, PackageInv, IndexInv, Accounted
<1>6. Types'
  BY <1>1, <1>3 DEF QueryFrame, PackageInv, Types
<1> QED BY <1>2, <1>3, <1>4, <1>5, <1>6 DEF PackageInv, EndInv

LEMMA PackageStep ==
  ASSUME PackageInv, [PackageNext]_packageVars
  PROVE  PackageInv' /\ EndKept /\ JournalsKept
<1>1. CASE \/ CreatePackage \/ Record \/ AppendSample \/ HandOver
           \/ HelperSample \/ HelperExits \/ WriterDies
  BY <1>1, RecordingKeeps
<1>2. CASE End \/ ClientDies
  BY <1>2, EndKeeps
<1>3. ASSUME NEW r \in Readers,
             Query(r) \/ Export(r) \/ StepFails(r) \/ ReaderDies(r)
      PROVE  PackageInv' /\ EndKept /\ JournalsKept
  BY <1>3, ReadingKeeps
<1>4. CASE SamplesRot \/ IndexRots
  BY <1>4, RotKeeps
<1>5. CASE UNCHANGED packageVars
  <2>1. UNCHANGED <<samples, events, meta, db, file, csv, writer, helper, client, lease,
                    reader, faults, rotten>>
    BY <1>5 DEF packageVars, journals, ending, querying, harm
  <2>2. SameEnd
    BY <2>1 DEF SameEnd
  <2>3. EndKept /\ JournalsKept /\ EndInv'
    BY <2>1, <2>2, QueryKeeps
  <2>4. Types'
    BY <2>1 DEF PackageInv, Types
  <2> QED BY <2>1, <2>3, <2>4, KeptByOthers
<1> QED BY <1>1, <1>2, <1>3, <1>4, <1>5 DEF PackageNext

LEMMA PackageStart == PackageInit => PackageInv
<1> SUFFICES ASSUME PackageInit PROVE PackageInv
  OBVIOUS
<1>1. Types
  BY InitTypes
<1>2. /\ meta.state = "none" /\ client.at = "idle" /\ writer.at = "none"
      /\ helper # "running" /\ file = NoIndex
      /\ db.state = "none"
      /\ \A r \in Readers : reader[r].at = "idle"
  BY DEF PackageInit, NoMeta, NoClient, Closed, NoIndex, NoReader
<1>3. ProducersInv /\ ClientInv
  BY <1>2 DEF ProducersInv, ClientInv, Ending, Appending
<1>4. ClosedInv /\ EndedInv /\ EndedAsRecorded
  BY <1>2 DEF ClosedInv, EndedInv, EndedAsRecorded, Terminal
<1>5. FileInv /\ IndexInv
  BY <1>2 DEF FileInv, IndexInv, Accounted
<1>6. ReaderInv
  BY <1>2 DEF ReaderInv, ReaderSound
<1> QED BY <1>1, <1>3, <1>4, <1>5, <1>6 DEF PackageInv

-----------------------------------------------------------------------------
(* The invariant holds in every state a package can be in.                 *)
THEOREM PackageInvariance == PackageSpec => []PackageInv
<1>1. PackageInit => PackageInv
  BY PackageStart
<1>2. PackageInv /\ [PackageNext]_packageVars => PackageInv'
  BY PackageStep
<1> QED BY <1>1, <1>2, PTL DEF PackageSpec

(* However a recording, its ending and its readers interleave, and         *)
(* whatever dies or is damaged: a package ends as its journal says, or     *)
(* the journal is damaged and the state admits it, and an index of a       *)
(* completed capture accounts for every missing sample.                    *)
THEOREM PackageIsSound == PackageSpec => []PackageSound
<1>1. PackageInv => PackageSound
  BY DEF PackageInv, PackageSound, PackageTypeOK, Types, AnyMeta, IndexInv, Accounted,
         CompletedIsAccounted
<1> QED BY <1>1, PackageInvariance, PTL

(* Every query and every export, from the sealed file or from an index     *)
(* (jcapCaptureSummary, jcapCaptureExportCsv), answers with what the       *)
(* journals held when the capture ended.                                   *)
THEOREM QueriesServeTheEnd == PackageSpec => []ServedIsFinal
<1>1. PackageInv => ServedIsFinal
  BY DEF PackageInv, ReaderInv, ReaderSound, AsFinal, ServedIsFinal
<1> QED BY <1>1, PackageInvariance, PTL

(* A second end, a rebuild or its failure (finalizeJcapV1Metadata,         *)
(* rebuildJcapV1IndexWithinLease) never changes how a capture ended, and   *)
(* nothing is appended after that.                                         *)
THEOREM EndsForGood == PackageSpec => FinalForGood
<1>1. PackageInv /\ [PackageNext]_packageVars =>
        [meta.state \in Terminal =>
           /\ meta'.state = meta.state /\ meta'.raw = meta.raw /\ meta'.claim = meta.claim
           /\ rotten' \/ UNCHANGED journals]_packageVars
  BY PackageStep DEF EndKept, SameEnd, JournalsKept
<1> QED BY <1>1, PackageInvariance, PTL DEF PackageSpec, FinalForGood

=============================================================================
