----------------------------- MODULE ProbeQueue -----------------------------
(***************************************************************************)
(* The cross-process queue of one debug Probe (probe-queue.ts).  A request *)
(* draws a ticket, waits until it is the first one alive, takes the lease, *)
(* is admitted or refused against the long-lived owner of the Probe, runs, *)
(* and gives lease and ticket back.  The owner (a GDB session, a capture)  *)
(* outlives the request that claimed it; a resource process (GDB Server,   *)
(* capture helper) keeps it in force after its controller has died, until  *)
(* a new controller adopts it.                                             *)
(*                                                                         *)
(* lease.lock and metadata.lock are directory locks: DirectoryLock shows   *)
(* that they refine Mutex, so here taking, giving back and recovering one  *)
(* is a single step.  What happens under owner-update.lock changes         *)
(* owner.json by one replacement or removal, and is a single step too.     *)
(* A process runs one request at a time (enqueueInProcess).                *)
(***************************************************************************)
EXTENDS Integers, FiniteSets

CONSTANTS Procs,        (* pid slots of the MCP processes                  *)
          Kinds,        (* kinds of long-lived owner                       *)
          Targets,      (* pairs of project and target generation          *)
          Resources,    (* pid slots of GDB Servers and helpers            *)
          None,         (* no lock holder, owner, resource, requirement    *)
          MaxSequence,  (* bound on the tickets drawn                      *)
          MaxOwners,    (* bound on the owner tokens made                  *)
          MaxCrashes,   (* bound on deaths of MCP processes                *)
          MaxRestarts,  (* bound on pids taken again                       *)
          MaxFailures   (* bound on removals that fail for good            *)

Identity == [pid : Procs, inc : Nat]
Ticket == [seq : Nat, pid : Procs, inc : Nat]
Owner == [token : Nat, pid : Procs, inc : Nat, kind : Kinds, target : Targets,
          resource : Resources \cup {None}]
Request == [kinds : SUBSET Kinds, target : Targets, required : Nat]

ASSUME QueueConstantsOK ==
  /\ {MaxSequence, MaxOwners, MaxCrashes, MaxRestarts, MaxFailures}
       \subseteq Nat
  /\ None \notin Identity \cup Ticket \cup Owner \cup Request \cup Resources

VARIABLES
  alive, inc,   (* which pids run, and which instance of each              *)
  sequence,     (* sequence.json                                           *)
  metadata,     (* holder of metadata.lock, or None                        *)
  tickets,      (* the ticket files                                        *)
  lease,        (* the ticket in lease.lock, or None                       *)
  owner,        (* owner.json, or None                                     *)
  tokens,       (* owner tokens made so far                                *)
  running,      (* resource pids that run                                  *)
  pc,           (* where each process is in runCrossProcess                *)
  ticket,       (* the ticket each process drew, or None                   *)
  request,      (* the QueueRunOptions of its request, or None             *)
  control,      (* control[p]: token of the owner p controls, 0 if none    *)
  before,       (* history: tokens made when p's operation was admitted    *)
  crashes, restarts, failures

queue == <<sequence, metadata, tickets, lease>>
ownership == <<owner, tokens, running, control>>
processes == <<alive, inc>>
local == <<pc, ticket, request, before>>
bounds == <<crashes, restarts, failures>>
vars == <<processes, queue, ownership, local, bounds>>

Waiting == {"wait", "head", "recover", "publish", "pause"}
PCs == {"idle", "draw", "ticket", "check", "run", "unlease", "unticket"}
         \cup Waiting

Init == /\ alive = [p \in Procs |-> TRUE]
        /\ inc = [p \in Procs |-> 0]
        /\ sequence = 0
        /\ metadata = None
        /\ tickets = {}
        /\ lease = None
        /\ owner = None
        /\ tokens = 0
        /\ running = {}
        /\ pc = [p \in Procs |-> "idle"]
        /\ ticket = [p \in Procs |-> None]
        /\ request = [p \in Procs |-> None]
        /\ control = [p \in Procs |-> 0]
        /\ before = [p \in Procs |-> 0]
        /\ crashes = 0 /\ restarts = 0 /\ failures = 0

At(p, label) == alive[p] /\ pc[p] = label
Goto(p, label) == pc' = [pc EXCEPT ![p] = label]
Self(p) == [pid |-> p, inc |-> inc[p]]

(* Variant of LooksLive: no other process counts as live.                  *)
ForeignNeverLive(p, r) == r.pid = p /\ r.inc = inc[p]

(* identityRecordLive: one's own pid by instance, others by existence.     *)
LooksLive(p, r) == IF r.pid = p THEN r.inc = inc[p] ELSE alive[r.pid]

(* Variant of OwnerLooksLive: only the controller counts.                  *)
ControllerLooksLive(p, o) == LooksLive(p, o)

(* ownerRecordLive: a surviving resource keeps the owner in force.         *)
OwnerLooksLive(p, o) == LooksLive(p, o) \/ o.resource \in running

(* readLiveOwnerLocked, on behalf of p: a dead owner reads as none.        *)
LiveOwner(p) ==
  IF owner # None /\ OwnerLooksLive(p, owner) THEN owner ELSE None

Mine(p) == owner # None /\ owner.token = control[p]
             /\ owner.pid = p /\ owner.inc = inc[p]

-----------------------------------------------------------------------------
(* runExclusive, once earlier requests of the process are done.  A request *)
(* tolerates no owner, or one kind; one that must meet a certain owner     *)
(* names the one visible now, which may change while the request waits.    *)
Ask(p) ==
  /\ At(p, "idle")
  /\ sequence < MaxSequence
  /\ \E kinds \in {{}} \cup {{k} : k \in Kinds}, t \in Targets :
       \E required \in {0} \cup {o.token : o \in {LiveOwner(p)} \ {None}} :
         /\ required # 0 => kinds = {owner.kind} /\ t = owner.target
         /\ request' = [request EXCEPT ![p] = [kinds |-> kinds, target |-> t,
                                              required |-> required]]
  /\ Goto(p, "draw")
  /\ UNCHANGED <<before, processes, queue, ownership, ticket, bounds>>

(* Variant of NewTicket: the ticket does not say which instance drew it.   *)
AnonymousTicket(p) == [seq |-> sequence + 1, pid |-> p]

NewTicket(p) == [seq |-> sequence + 1, pid |-> p, inc |-> inc[p]]

Draw(p) ==
  /\ At(p, "draw")
  /\ sequence < MaxSequence
  /\ sequence' = sequence + 1
  /\ ticket' = [ticket EXCEPT ![p] = NewTicket(p)]
  /\ Goto(p, "ticket")
  /\ UNCHANGED <<before, processes, tickets, lease, ownership, request,
                 bounds>>

(* Variant of WriteSequence: the sequence is not kept under the lock.      *)
WriteSequenceUnlocked(p) == Draw(p) /\ UNCHANGED metadata

(* allocateTicket, up to the replacement of sequence.json: metadata.lock   *)
(* is taken, from a dead holder if need be.                                *)
WriteSequence(p) == /\ metadata # None => ~LooksLive(p, metadata)
                    /\ metadata' = Self(p)
                    /\ Draw(p)

WriteTicket(p) ==
  /\ At(p, "ticket")
  /\ tickets' = tickets \cup {ticket[p]}
  /\ metadata' = IF metadata = Self(p) THEN None ELSE metadata
  /\ Goto(p, "wait")
  /\ UNCHANGED <<before, processes, sequence, lease, ownership, ticket,
                 request, bounds>>

(* QUEUE_METADATA_BUSY or a misread lock: the request fails ticketless.    *)
DrawFails(p) ==
  /\ At(p, "draw")
  /\ metadata # None
  /\ Goto(p, "idle")
  /\ request' = [request EXCEPT ![p] = None]
  /\ UNCHANGED <<before, processes, queue, ownership, ticket, bounds>>

-----------------------------------------------------------------------------
(* Variant of LiveTickets: tickets of dead processes stay.                 *)
AllTickets(p) == tickets

LiveTickets(p) == {t \in tickets : LooksLive(p, t)}

(* cleanStaleTickets.                                                      *)
Sweep(p) ==
  /\ At(p, "wait")
  /\ tickets' = LiveTickets(p)
  /\ Goto(p, "head")
  /\ UNCHANGED <<before, processes, sequence, metadata, lease, ownership,
                 ticket, request, bounds>>

(* readTickets: only the first ticket goes on to the lease.                *)
First(t) == t \in tickets /\ \A u \in tickets : t.seq <= u.seq

HeadOfQueue(p) ==
  /\ At(p, "head")
  /\ Goto(p, IF First(ticket[p]) THEN "recover" ELSE "pause")
  /\ UNCHANGED <<before, processes, queue, ownership, ticket, request,
                 bounds>>

(* recoverStaleLease.                                                      *)
Recover(p) ==
  /\ At(p, "recover")
  /\ lease' = IF lease # None /\ ~LooksLive(p, lease) THEN None ELSE lease
  /\ Goto(p, "publish")
  /\ UNCHANGED <<before, processes, sequence, metadata, tickets, ownership,
                 ticket, request, bounds>>

(* tryCreateLease.                                                         *)
Publish(p) ==
  /\ At(p, "publish")
  /\ IF lease = None
     THEN lease' = ticket[p] /\ Goto(p, "check")
     ELSE UNCHANGED lease /\ Goto(p, "pause")
  /\ UNCHANGED <<before, processes, sequence, metadata, tickets, ownership,
                 ticket, request, bounds>>

Pause(p) ==
  /\ At(p, "pause")
  /\ Goto(p, "wait")
  /\ UNCHANGED <<before, processes, queue, ownership, ticket, request,
                 bounds>>

(* QUEUE_TIMEOUT, looked at only after a failed attempt.                   *)
Timeout(p) ==
  /\ At(p, "pause")
  /\ Goto(p, "unticket")
  /\ UNCHANGED <<before, processes, queue, ownership, ticket, request,
                 bounds>>

-----------------------------------------------------------------------------
RequirementMet(p, o) == request[p].required # 0 =>
                          o # None /\ o.token = request[p].required

(* Variant of Admitted: an owner of the right kind but of another target.  *)
AdmittedByKind(p) ==
  LET o == LiveOwner(p) IN
    /\ lease = ticket[p]
    /\ RequirementMet(p, o)
    /\ o # None => o.kind \in request[p].kinds

(* The tests between the lease and the operation.                          *)
Admitted(p) ==
  LET o == LiveOwner(p) IN
    /\ lease = ticket[p]
    /\ RequirementMet(p, o)
    /\ o # None => o.kind \in request[p].kinds /\ o.target = request[p].target

(* readLiveOwnerForExecution removes a dead owner; the request is admitted *)
(* or refused with OWNER_CHANGED or the error that names the owner.        *)
Check(p) ==
  /\ At(p, "check")
  /\ owner' = LiveOwner(p)
  /\ Goto(p, IF Admitted(p) THEN "run" ELSE "unlease")
  /\ before' = [before EXCEPT ![p] = tokens]
  /\ UNCHANGED <<processes, queue, tokens, running, control, ticket, request,
                 bounds>>

(* The operation returns or throws.                                        *)
Finish(p) ==
  /\ At(p, "run")
  /\ Goto(p, "unlease")
  /\ UNCHANGED <<before, processes, queue, ownership, ticket, request,
                 bounds>>

MayFail == /\ failures < MaxFailures
           /\ failures' = failures + 1
           /\ UNCHANGED <<crashes, restarts>>

(* finally: the lease, then the ticket; a removal that fails is ignored.   *)
Unlease(p) ==
  /\ At(p, "unlease")
  /\ \/ /\ lease' = IF lease = ticket[p] THEN None ELSE lease
        /\ UNCHANGED bounds
     \/ MayFail /\ UNCHANGED lease
  /\ Goto(p, "unticket")
  /\ UNCHANGED <<before, processes, sequence, metadata, tickets, ownership,
                 ticket, request>>

Unticket(p) ==
  /\ At(p, "unticket")
  /\ \/ tickets' = tickets \ {ticket[p]} /\ UNCHANGED bounds
     \/ MayFail /\ UNCHANGED tickets
  /\ Goto(p, "idle")
  /\ ticket' = [ticket EXCEPT ![p] = None]
  /\ request' = [request EXCEPT ![p] = None]
  /\ UNCHANGED <<before, processes, sequence, metadata, lease, ownership>>

-----------------------------------------------------------------------------
(* A resource process starts on a pid that is free, or there is none.      *)
Starts(r) == r \notin running /\ running' = running \cup ({r} \ {None})

(* claimOwner: only with the lease, and only if no live owner is there.    *)
Claim(p) ==
  /\ At(p, "run")
  /\ lease = ticket[p]
  /\ LiveOwner(p) = None
  /\ tokens < MaxOwners
  /\ tokens' = tokens + 1
  /\ \E k \in Kinds, r \in Resources \cup {None} :
       /\ Starts(r)
       /\ owner' = [token |-> tokens + 1, pid |-> p, inc |-> inc[p], kind |-> k,
                    target |-> request[p].target, resource |-> r]
  /\ control' = [control EXCEPT ![p] = tokens + 1]
  /\ UNCHANGED <<processes, queue, local, bounds>>

(* updateOwnerResource.                                                    *)
Update(p) ==
  /\ alive[p]
  /\ Mine(p)
  /\ \E r \in Resources : Starts(r) /\ owner' = [owner EXCEPT !.resource = r]
  /\ UNCHANGED <<processes, queue, tokens, control, local, bounds>>

(* releaseOwner: by its controller, inside a request or not (exit handlers *)
(* and shutdown call it too); a file that cannot be removed stays.         *)
Release(p) ==
  /\ alive[p]
  /\ Mine(p)
  /\ \/ owner' = None /\ UNCHANGED bounds
     \/ MayFail /\ UNCHANGED owner
  /\ control' = [control EXCEPT ![p] = 0]
  /\ UNCHANGED <<processes, queue, tokens, running, local>>

(* Variant of Adoptable: the controller is not asked for.                  *)
AdoptableAnyway(p) == LiveOwner(p) # None /\ owner.resource \in running

(* adoptOwner: the resource runs on, its controller is gone.  It needs no  *)
(* lease; kind, target and resource must be those of the capture journal.  *)
Adoptable(p) == /\ LiveOwner(p) # None
                /\ owner.resource \in running
                /\ ~LooksLive(p, owner)

Adopt(p) ==
  /\ alive[p]
  /\ Adoptable(p)
  /\ tokens < MaxOwners
  /\ tokens' = tokens + 1
  /\ owner' = [owner EXCEPT !.token = tokens + 1, !.pid = p, !.inc = inc[p]]
  /\ control' = [control EXCEPT ![p] = tokens + 1]
  /\ UNCHANGED <<processes, queue, running, local, bounds>>

ResourceExit == \E r \in running :
  /\ running' = running \ {r}
  /\ UNCHANGED <<processes, queue, owner, tokens, control, local, bounds>>

-----------------------------------------------------------------------------
Crash(p) ==
  /\ alive[p]
  /\ crashes < MaxCrashes
  /\ crashes' = crashes + 1
  /\ alive' = [alive EXCEPT ![p] = FALSE]
  /\ Goto(p, "idle")
  /\ ticket' = [ticket EXCEPT ![p] = None]
  /\ request' = [request EXCEPT ![p] = None]
  /\ control' = [control EXCEPT ![p] = 0]
  /\ UNCHANGED <<before, inc, queue, owner, tokens, running, restarts,
                 failures>>

(* Another MCP process under a pid that has become free.                   *)
Restart(p) ==
  /\ ~alive[p]
  /\ restarts < MaxRestarts
  /\ restarts' = restarts + 1
  /\ alive' = [alive EXCEPT ![p] = TRUE]
  /\ inc' = [inc EXCEPT ![p] = @ + 1]
  /\ UNCHANGED <<queue, ownership, local, crashes, failures>>

Step(p) == \/ WriteSequence(p) \/ WriteTicket(p) \/ Sweep(p) \/ HeadOfQueue(p)
           \/ Recover(p) \/ Publish(p) \/ Pause(p) \/ Check(p)
           \/ Finish(p) \/ Unlease(p) \/ Unticket(p)

OwnerStep(p) == Claim(p) \/ Update(p) \/ Release(p) \/ Adopt(p)

Next == \/ \E p \in Procs : \/ Ask(p) \/ Step(p) \/ DrawFails(p) \/ Timeout(p)
                            \/ OwnerStep(p) \/ Crash(p) \/ Restart(p)
        \/ ResourceExit

(* A request in progress makes progress: file calls return, operations end *)
(* (each has its own timeout).  Giving up, dying, and everything about     *)
(* owners may happen and need not.                                         *)
Fairness == \A p \in Procs : WF_vars(Step(p))

Spec == Init /\ [][Next]_vars
FairSpec == Spec /\ Fairness

-----------------------------------------------------------------------------
TypeOK ==
  /\ alive \in [Procs -> BOOLEAN] /\ inc \in [Procs -> Nat]
  /\ sequence \in 0 .. MaxSequence
  /\ metadata \in Identity \cup {None}
  /\ tickets \subseteq Ticket
  /\ lease \in Ticket \cup {None}
  /\ owner \in Owner \cup {None}
  /\ tokens \in 0 .. MaxOwners
  /\ running \subseteq Resources
  /\ pc \in [Procs -> PCs]
  /\ ticket \in [Procs -> Ticket \cup {None}]
  /\ request \in [Procs -> Request \cup {None}]
  /\ control \in [Procs -> 0 .. MaxOwners]
  /\ before \in [Procs -> 0 .. MaxOwners]
  /\ crashes \in 0 .. MaxCrashes /\ restarts \in 0 .. MaxRestarts
  /\ failures \in 0 .. MaxFailures

(* One operation at a time touches the Probe.                              *)
ExclusiveExecution ==
  \A p, q \in Procs : pc[p] = "run" /\ pc[q] = "run" => p = q

(* Operations run in the order in which their tickets were drawn: nobody   *)
(* who drew earlier is still waiting.                                      *)
FirstComeFirstServed ==
  \A p, q \in Procs :
    pc[p] = "run" /\ pc[q] \in Waiting => ticket[p].seq < ticket[q].seq

(* The queue takes its turns one at a time and in order, whoever crashes   *)
(* or comes back under an old pid.                                         *)
TurnsInOrder == TypeOK /\ ExclusiveExecution /\ FirstComeFirstServed

(* What really is the case, whatever the pids look like.                   *)
InForce(o) == \/ alive[o.pid] /\ inc[o.pid] = o.inc
              \/ o.resource \in running

(* While an operation runs, an owner in force is one it claimed itself or  *)
(* one its request tolerates: none appears, or changes kind or target,     *)
(* behind its back, and a process's own session is no exception.           *)
ClaimedMeanwhile(p) == /\ owner.pid = p /\ owner.inc = inc[p]
                       /\ owner.token > before[p]
ExecutionAdmitted ==
  \A p \in Procs : pc[p] = "run" /\ owner # None /\ InForce(owner) =>
    \/ ClaimedMeanwhile(p)
    \/ owner.kind \in request[p].kinds /\ owner.target = request[p].target

(* A process that was told it controls the Probe, and has not given that   *)
(* up, still does: no recovery or adoption takes it from a live process.   *)
ControllerKeepsOwner ==
  \A p \in Procs : alive[p] /\ control[p] # 0 => Mine(p)

(* An owner in force gives way only to its controller, or, once that is    *)
(* dead, to an adopter who takes over the same resource.                   *)
SameResource(o, n) == n # None /\ n.kind = o.kind /\ n.target = o.target
                        /\ n.resource = o.resource
OwnerFailClosed ==
  [][owner # None /\ InForce(owner) /\ owner' # owner =>
       \/ Mine(owner.pid) /\ alive[owner.pid]
       \/ SameResource(owner, owner')]_vars

(* A request that waits is served, refused or dies: it is never left       *)
(* behind the tickets and leases of the dead.                              *)
WaiterServed ==
  \A p \in Procs : pc[p] \in Waiting ~> pc[p] \notin Waiting
=============================================================================
