--------------------------- MODULE DirectoryLease ---------------------------
(***************************************************************************)
(* withDirectoryLease (utils/directory-lease.ts): the lock that HSS session *)
(* records, acceptance evidence and JCAP packages are changed under.  Like  *)
(* the lock of the Probe queue it is a directory with an owner.json renamed *)
(* into place, but it is taken away in one rename, of whatever stands at    *)
(* the path by then.  One action is one file-system call.                   *)
(***************************************************************************)
EXTENDS Naturals

CONSTANTS Procs,        (* pid slots of the processes                      *)
          NoLease,      (* the path names nothing                          *)
          MaxTokens,    (* bound on the leases published                   *)
          MaxCrashes,   (* bound on process deaths                         *)
          MaxRestarts,  (* bound on pids taken again                       *)
          MaxFailures,  (* bound on retiring renames that fail             *)
          MaxStalls     (* bound on stops of five seconds between two      *)
                        (* calls of a process                              *)

LeaseRecord == [token : Nat, pid : Procs, inc : Nat]

ASSUME LeaseConstantsOK ==
  /\ {MaxTokens, MaxCrashes, MaxRestarts, MaxFailures, MaxStalls} \subseteq Nat
  /\ NoLease \notin LeaseRecord

VARIABLES alive, inc,   (* which pids run, and which instance of each      *)
          standing,     (* the record in the directory at the path         *)
          pc,           (* the next call of each process                   *)
          record,       (* record[p]: its own lease, or the one it read    *)
          published, crashes, restarts, failures, stalls

budgets == <<published, crashes, restarts, failures, stalls>>
leaseVars == <<alive, inc, standing, pc, record, budgets>>

PCs == {"idle", "create", "read", "stat", "judge", "retire", "pause",
        "held", "release", "unlink"}

Holding == {"held", "release", "unlink"}

LeaseInit == /\ alive = [p \in Procs |-> TRUE]
             /\ inc = [p \in Procs |-> 0]
             /\ standing = NoLease
             /\ pc = [p \in Procs |-> "idle"]
             /\ record = [p \in Procs |-> NoLease]
             /\ published = 0 /\ crashes = 0 /\ restarts = 0
             /\ failures = 0 /\ stalls = 0

LeaseAt(p, label) == alive[p] /\ pc[p] = label
Goto(p, label) == pc' = [pc EXCEPT ![p] = label]
Forget(p) == record' = [record EXCEPT ![p] = NoLease]
Environment == <<alive, inc, published, crashes, restarts, stalls>>

(* Variants of RecordLive: the instance of one's own pid is not compared;  *)
(* another process is never, or always, live.                              *)
AnyInstanceLive(p, r) == alive[r.pid]
ForeignNeverLive(p, r) == r.pid = p /\ r.inc = inc[p]
ForeignAlwaysLive(p, r) == r.pid = p => r.inc = inc[p]

(* recordLive: one's own pid is told apart by the instance, others are     *)
(* only asked whether they exist.                                          *)
RecordLive(p, r) == IF r.pid = p THEN r.inc = inc[p] ELSE alive[r.pid]

-----------------------------------------------------------------------------
Ask(p) == /\ LeaseAt(p, "idle")
          /\ published < MaxTokens
          /\ Goto(p, "create")
          /\ UNCHANGED <<Environment, standing, record, failures>>

(* Variant of NewRecord: the record does not say which instance wrote it.  *)
AnonymousRecord(p) == [token |-> published + 1, pid |-> p]

NewRecord(p) == [token |-> published + 1, pid |-> p, inc |-> inc[p]]

(* tryCreate: rename the prepared directory onto a path that names nothing. *)
CreateLease(p) ==
  /\ LeaseAt(p, "create")
  /\ \/ /\ standing = NoLease
        /\ published < MaxTokens
        /\ published' = published + 1
        /\ standing' = NewRecord(p)
        /\ record' = [record EXCEPT ![p] = standing']
        /\ Goto(p, "held")
        /\ UNCHANGED <<alive, inc, crashes, restarts, stalls>>
     \/ /\ standing # NoLease
        /\ Goto(p, "read")
        /\ UNCHANGED <<Environment, standing, record>>
  /\ UNCHANGED failures

(* recoverStale: existsSync and readRecord.  A path gone by the first call *)
(* ends it; one gone by the second leads to the age check.                 *)
Read(p) == /\ LeaseAt(p, "read")
           /\ record' = [record EXCEPT ![p] = standing]
           /\ \/ standing # NoLease /\ Goto(p, "judge")
              \/ standing = NoLease /\ Goto(p, "pause")
              \/ standing = NoLease /\ Goto(p, "stat")
           /\ UNCHANGED <<Environment, standing, failures>>

(* statSync: a directory that has appeared since is taken for malformed    *)
(* once it is five seconds old.                                            *)
Stat(p) == /\ LeaseAt(p, "stat")
           /\ \/ Goto(p, "pause") /\ UNCHANGED stalls
              \/ /\ standing # NoLease
                 /\ stalls < MaxStalls
                 /\ stalls' = stalls + 1
                 /\ Goto(p, "retire")
           /\ UNCHANGED <<alive, inc, published, crashes, restarts, standing, record, failures>>

Judge(p) == /\ LeaseAt(p, "judge")
            /\ Goto(p, IF RecordLive(p, record[p]) THEN "pause" ELSE "retire")
            /\ UNCHANGED <<Environment, standing, record, failures>>

(* moveAndRemove: the rename takes the path away, whoever is behind it;    *)
(* its failure is swallowed.                                               *)
Retire(p) ==
  /\ LeaseAt(p, "retire") \/ LeaseAt(p, "unlink")
  /\ \/ /\ standing' = NoLease
        /\ UNCHANGED failures
     \/ /\ failures < MaxFailures
        /\ failures' = failures + 1
        /\ UNCHANGED standing
  /\ Goto(p, IF pc[p] = "retire" THEN "pause" ELSE "idle")
  /\ Forget(p)
  /\ UNCHANGED Environment

(* acquire: at the deadline FILE_LEASE_BUSY, otherwise another attempt.    *)
Pause(p) == /\ LeaseAt(p, "pause")
            /\ Goto(p, "create") \/ Goto(p, "idle")
            /\ Forget(p)
            /\ UNCHANGED <<Environment, standing, failures>>

LeaveLease(p) == /\ LeaseAt(p, "held")
                 /\ Goto(p, "release")
                 /\ UNCHANGED <<Environment, standing, record, failures>>

(* release: only a lease that still is its own is retired.                 *)
Release(p) == /\ LeaseAt(p, "release")
              /\ IF standing = record[p]
                 THEN Goto(p, "unlink") /\ UNCHANGED record
                 ELSE Goto(p, "idle") /\ Forget(p)
              /\ UNCHANGED <<Environment, standing, failures>>

Crash(p) == /\ alive[p]
            /\ crashes < MaxCrashes
            /\ crashes' = crashes + 1
            /\ alive' = [alive EXCEPT ![p] = FALSE]
            /\ Goto(p, "idle")
            /\ Forget(p)
            /\ UNCHANGED <<inc, standing, published, restarts, failures, stalls>>

ComeBack(p) == /\ ~alive[p]
               /\ restarts < MaxRestarts
               /\ restarts' = restarts + 1
               /\ alive' = [alive EXCEPT ![p] = TRUE]
               /\ inc' = [inc EXCEPT ![p] = @ + 1]
               /\ UNCHANGED <<standing, pc, record, published, crashes, failures, stalls>>

Step(p) == \/ CreateLease(p) \/ Read(p) \/ Stat(p) \/ Judge(p) \/ Retire(p)
           \/ Pause(p) \/ LeaveLease(p) \/ Release(p)

LeaseNext == \E p \in Procs : Step(p) \/ Ask(p) \/ Crash(p) \/ ComeBack(p)

(* A process inside the code runs on; asking, dying and returning are free. *)
LeaseFairness == \A p \in Procs : WF_leaseVars(Step(p))

LeaseSpec == LeaseInit /\ [][LeaseNext]_leaseVars
LeaseFairSpec == LeaseSpec /\ LeaseFairness

-----------------------------------------------------------------------------
LeaseTypeOK == /\ alive \in [Procs -> BOOLEAN]
               /\ inc \in [Procs -> Nat]
               /\ standing \in LeaseRecord \cup {NoLease}
               /\ pc \in [Procs -> PCs]
               /\ record \in [Procs -> LeaseRecord \cup {NoLease}]
               /\ published \in 0 .. MaxTokens
               /\ crashes \in 0 .. MaxCrashes
               /\ restarts \in 0 .. MaxRestarts
               /\ failures \in 0 .. MaxFailures
               /\ stalls \in 0 .. MaxStalls

(* Two operations under the same lease never overlap: session records and  *)
(* packages are read, changed and replaced inside it.                      *)
MutualExclusion ==
  \A p, q \in Procs : pc[p] \in Holding /\ pc[q] \in Holding => p = q

(* ... at least as long as no process has died and none has stalled.       *)
ExclusiveUndisturbed == crashes = 0 /\ stalls = 0 => MutualExclusion

(* A lease left by a process that died is gone, or replaced, once another  *)
(* has tried to take it, unless the trier dies, the dead pid comes back or *)
(* a rename fails.                                                         *)
LeaseGone(t) == standing = NoLease \/ standing.token # t
Abandoned(t) == ~LeaseGone(t) /\ ~alive[standing.pid]
AbandonedLeaseRecovered ==
  \A t \in 1 .. MaxTokens, p \in Procs :
    (Abandoned(t) /\ LeaseAt(p, "create"))
      ~> (LeaseGone(t) \/ alive[standing.pid] \/ ~alive[p] \/ failures > 0)

(* A process restarted under the pid it had does not wait for itself: its  *)
(* dead predecessor's lease goes once it asks.                             *)
Inherited(p, t) == ~LeaseGone(t) /\ standing.pid = p /\ alive[p] /\ standing.inc # inc[p]
InheritedLeaseRecovered ==
  \A t \in 1 .. MaxTokens, p \in Procs :
    (Inherited(p, t) /\ LeaseAt(p, "create")) ~> (LeaseGone(t) \/ ~alive[p] \/ failures > 0)

(* No lease outlives its holder for those who ask for it, whichever way    *)
(* the holder went.                                                        *)
LeaseRecovered == AbandonedLeaseRecovered /\ InheritedLeaseRecovered
=============================================================================
