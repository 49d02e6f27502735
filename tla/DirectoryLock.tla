--------------------------- MODULE DirectoryLock ---------------------------
(***************************************************************************)
(* The directory lock of the Probe queue (probe-queue.ts): lease.lock,     *)
(* metadata.lock and owner-update.lock are three instances of it.  A lock  *)
(* is a directory published by renaming a prepared one onto the lock's     *)
(* path; inside are owner.json (who holds it) and a guard file whose name  *)
(* is the hash of the holder's token.  It is retired in two renames:       *)
(* first the guard, addressed by the token the remover has in mind, then   *)
(* the directory.  One action is one file-system call, so processes        *)
(* interleave between any two of them and may die there.                   *)
(***************************************************************************)
EXTENDS Naturals

CONSTANTS Procs,       (* pid slots of the MCP processes                   *)
          NoLock,      (* the lock's path names nothing                    *)
          MaxTokens,   (* bound on the lock directories published          *)
          MaxCrashes,  (* bound on process deaths                          *)
          MaxFailures  (* bound on renames whose retries are exhausted     *)

LockRecord == [token : Nat, pid : Procs, inc : Nat]
ProcessInstance == [pid : Procs, inc : Nat]

ASSUME ConstantsOK ==
  /\ MaxTokens \in Nat /\ MaxCrashes \in Nat /\ MaxFailures \in Nat
  /\ NoLock \notin LockRecord \cup ProcessInstance

VARIABLES alive,      (* alive[p]: a process runs under pid p              *)
          inc,        (* inc[p]: processInstanceId, counted per pid slot   *)
          lock,       (* the record in the directory at the path           *)
          guarded,    (* the directory holds the guard of its token        *)
          pc,         (* the next file-system call of each process         *)
          record,     (* record[p]: the owner record p acts on, its own    *)
                      (* when it holds the lock, else the one it read      *)
          published,  (* lock directories published so far                 *)
          crashes, failures

vars == <<alive, inc, lock, guarded, pc, record, published, crashes, failures>>

(* Where a process can be.  "idle": outside; "create": about to publish;   *)
(* "probe", "read", "judge", "claim", "retire", "missing", "retry": inside *)
(* recoverStaleLease and the loop around it; "held": in the section the    *)
(* lock protects; "release", "unlink": giving it back; "invalid": threw    *)
(* QUEUE_STATE_INVALID.                                                    *)
PCs == {"idle", "create", "probe", "read", "judge", "claim", "retire",
        "missing", "retry", "held", "release", "unlink", "invalid"}

Holding == {"held", "release", "unlink"}
Removing == {"retire", "unlink"}

Init == /\ alive = [p \in Procs |-> TRUE]
        /\ inc = [p \in Procs |-> 0]
        /\ lock = NoLock
        /\ guarded = FALSE
        /\ pc = [p \in Procs |-> "idle"]
        /\ record = [p \in Procs |-> NoLock]
        /\ published = 0
        /\ crashes = 0
        /\ failures = 0

At(p, label) == alive[p] /\ pc[p] = label
Goto(p, label) == pc' = [pc EXCEPT ![p] = label]
Forget(p) == record' = [record EXCEPT ![p] = NoLock]
Environment == <<alive, inc, published, crashes, failures>>

(* Variants of LooksLive: a foreign record is always, or never, stale.     *)
ForeignNeverLive(p, r) == r.pid = p /\ r.inc = inc[p]
ForeignAlwaysLive(p, r) == r.pid = p => r.inc = inc[p]

(* identityRecordLive: a process judges a record that carries its own pid  *)
(* by the instance id, any other one by whether the pid exists at all.     *)
LooksLive(p, r) == IF r.pid = p THEN r.inc = inc[p] ELSE alive[r.pid]

-----------------------------------------------------------------------------
Start(p) == /\ At(p, "idle")
            /\ published < MaxTokens
            /\ Goto(p, "create")
            /\ UNCHANGED <<Environment, lock, guarded, record>>

(* Variant of NewRecord: the record does not say which instance wrote it.  *)
AnonymousRecord(p) == [token |-> published + 1, pid |-> p]

NewRecord(p) == [token |-> published + 1, pid |-> p, inc |-> inc[p]]

(* tryCreateLease: renameSync(prepared, lockPath) fails when the path is   *)
(* already a non-empty directory.                                          *)
Create(p) ==
  /\ At(p, "create")
  /\ \/ /\ lock = NoLock
        /\ published < MaxTokens
        /\ published' = published + 1
        /\ lock' = NewRecord(p)
        /\ guarded' = TRUE
        /\ record' = [record EXCEPT ![p] = lock']
        /\ Goto(p, "held")
        /\ UNCHANGED <<alive, inc, crashes, failures>>
     \/ /\ lock # NoLock
        /\ Goto(p, "probe")
        /\ UNCHANGED <<Environment, lock, guarded, record>>

(* recoverStaleLease: existsSync, readFileSync and the liveness check are  *)
(* three calls; the lock may change hands between any two of them.         *)
Probe(p) == /\ At(p, "probe")
            /\ Goto(p, IF lock = NoLock THEN "retry" ELSE "read")
            /\ UNCHANGED <<Environment, lock, guarded, record>>

Read(p) == /\ At(p, "read")
           /\ record' = [record EXCEPT ![p] = lock]
           /\ Goto(p, IF lock = NoLock THEN "missing" ELSE "judge")
           /\ UNCHANGED <<Environment, lock, guarded>>

(* ENOENT while reading: benign only when the path is still gone.          *)
Missing(p) == /\ At(p, "missing")
              /\ Goto(p, IF lock = NoLock THEN "retry" ELSE "invalid")
              /\ UNCHANGED <<Environment, lock, guarded, record>>

Judge(p) == /\ At(p, "judge")
            /\ Goto(p, IF LooksLive(p, record[p]) THEN "retry" ELSE "claim")
            /\ UNCHANGED <<Environment, lock, guarded, record>>

-----------------------------------------------------------------------------
(* A guard whose name does not depend on the token: the defect the hash in *)
(* the name is there to prevent.  A variant, used by no action.            *)
AnyGuardPresent(p) == lock # NoLock /\ guarded

(* removeDirectoryIfTokenMatches, first rename: the guard is found only    *)
(* under the name made of the token, in whatever directory is there now.   *)
GuardPresent(p) == lock # NoLock /\ guarded /\ lock.token = record[p].token

AfterRemoval(p) == IF pc[p] \in Holding THEN "idle" ELSE "retry"

ClaimGuard(p) ==
  /\ At(p, "claim") \/ At(p, "release")
  /\ \/ /\ GuardPresent(p)
        /\ guarded' = FALSE
        /\ Goto(p, IF pc[p] = "claim" THEN "retire" ELSE "unlink")
        /\ UNCHANGED <<record, failures>>
     \/ /\ ~GuardPresent(p)
        /\ Goto(p, AfterRemoval(p))
        /\ Forget(p)
        /\ UNCHANGED <<guarded, failures>>
     \/ /\ GuardPresent(p)
        /\ failures < MaxFailures
        /\ failures' = failures + 1
        /\ Goto(p, AfterRemoval(p))
        /\ Forget(p)
        /\ UNCHANGED guarded
  /\ UNCHANGED <<alive, inc, published, crashes, lock>>

(* Second rename: the directory itself, by path.                           *)
Retire(p) ==
  /\ At(p, "retire") \/ At(p, "unlink")
  /\ lock' = NoLock
  /\ guarded' = FALSE
  /\ Goto(p, AfterRemoval(p))
  /\ Forget(p)
  /\ UNCHANGED Environment

(* The directory rename fails for good: the guard is renamed back, and     *)
(* that rename, whose result is ignored, may fail too.                     *)
RetireFails(p) ==
  /\ At(p, "retire") \/ At(p, "unlink")
  /\ failures < MaxFailures
  /\ failures' = failures + 1
  /\ \/ guarded' = (lock = record[p])
     \/ UNCHANGED guarded
  /\ Goto(p, AfterRemoval(p))
  /\ Forget(p)
  /\ UNCHANGED <<alive, inc, published, crashes, lock>>

-----------------------------------------------------------------------------
(* acquireDirectoryLock: try again, or give up at the deadline; only a     *)
(* path that is still taken is compared with the deadline.                 *)
Retry(p) == /\ At(p, "retry")
            /\ \/ Goto(p, "create")
               \/ lock # NoLock /\ Goto(p, "idle")
            /\ Forget(p)
            /\ UNCHANGED <<Environment, lock, guarded>>

Leave(p) == /\ At(p, "held")
            /\ Goto(p, "release")
            /\ UNCHANGED <<Environment, lock, guarded, record>>

(* QUEUE_STATE_INVALID reaches the caller of the queue.                    *)
ReportInvalid(p) == /\ At(p, "invalid")
                    /\ Goto(p, "idle")
                    /\ Forget(p)
                    /\ UNCHANGED <<Environment, lock, guarded>>

Crash(p) == /\ alive[p]
            /\ crashes < MaxCrashes
            /\ crashes' = crashes + 1
            /\ alive' = [alive EXCEPT ![p] = FALSE]
            /\ Goto(p, "idle")
            /\ Forget(p)
            /\ UNCHANGED <<inc, lock, guarded, published, failures>>

(* A new process instance under the pid of a dead one.                     *)
Restart(p) == /\ ~alive[p]
              /\ alive' = [alive EXCEPT ![p] = TRUE]
              /\ inc' = [inc EXCEPT ![p] = @ + 1]
              /\ UNCHANGED <<lock, guarded, pc, record, published, crashes, failures>>

Step(p) == \/ Create(p) \/ Probe(p) \/ Read(p) \/ Missing(p) \/ Judge(p)
           \/ ClaimGuard(p) \/ Retire(p) \/ Retry(p) \/ Leave(p)
           \/ ReportInvalid(p)

Next == \E p \in Procs : \/ Step(p) \/ Start(p) \/ RetireFails(p)
                         \/ Crash(p) \/ Restart(p)

(* A process that has entered the code runs on: its calls return.  Nothing *)
(* obliges a process to ask for the lock, to die or to come back.          *)
Fairness == \A p \in Procs : WF_vars(Step(p))

Spec == Init /\ [][Next]_vars
FairSpec == Spec /\ Fairness

-----------------------------------------------------------------------------
TypeOK == /\ alive \in [Procs -> BOOLEAN]
          /\ inc \in [Procs -> Nat]
          /\ lock \in LockRecord \cup {NoLock}
          /\ guarded \in BOOLEAN
          /\ pc \in [Procs -> PCs]
          /\ record \in [Procs -> LockRecord \cup {NoLock}]
          /\ published \in 0 .. MaxTokens
          /\ crashes \in 0 .. MaxCrashes
          /\ failures \in 0 .. MaxFailures

(* No two processes are inside a section the lock protects at once.        *)
MutualExclusion ==
  \A p, q \in Procs : pc[p] \in Holding /\ pc[q] \in Holding => p = q

(* A process about to rename the lock directory away removes the one whose *)
(* guard it claimed, never a replacement published since it looked.        *)
NoReplacementRetired ==
  \A p \in Procs : pc[p] \in Removing => lock # NoLock /\ lock = record[p]

(* A process that was told it has the lock still has it on disk, so every  *)
(* other process keeps finding the path taken.                             *)
HolderOwnsPath == \A p \in Procs : pc[p] \in Holding => lock = record[p]

(* The lock refines the abstract lock, the holder being the instance in    *)
(* owner.json: it is taken from a live holder by no one.                   *)
Nobody == NoLock
Abstract == INSTANCE Mutex WITH
  holder <- IF lock = NoLock THEN NoLock
            ELSE [pid |-> lock.pid, inc |-> lock.inc],
  inside <- {p \in Procs : pc[p] \in Holding}
ImplementsMutex == Abstract!Spec

(* A lock left behind by a process that died is retired once some process  *)
(* tries to take it, unless that process dies, or a rename fails for good. *)
Gone(t) == lock = NoLock \/ lock.token # t
Recovered(p, t) == Gone(t) \/ alive[lock.pid] \/ ~alive[p] \/ failures > 0
Abandoned(t) == ~Gone(t) /\ ~alive[lock.pid]
AbandonedLockRecovered ==
  \A t \in 1 .. MaxTokens, p \in Procs :
    (Abandoned(t) /\ At(p, "create")) ~> Recovered(p, t)

(* ... at least if the dead process was not between its two renames, after *)
(* which the directory stands without a guard and nobody is removing it.   *)
GuardLost == lock # NoLock /\ ~guarded /\ \A q \in Procs : pc[q] \notin Removing
GuardedLockRecovered ==
  \A t \in 1 .. MaxTokens, p \in Procs :
    (Abandoned(t) /\ At(p, "create")) ~> (Recovered(p, t) \/ GuardLost)

(* A malformed-state error is reported only for malformed state, and every *)
(* directory this code publishes is well formed.                           *)
InvalidOnlyIfMalformed == \A p \in Procs : pc[p] # "invalid"
=============================================================================
