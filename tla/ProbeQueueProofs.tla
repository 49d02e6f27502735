-------------------------- MODULE ProbeQueueProofs --------------------------
(***************************************************************************)
(* For any number of processes, requests, owners, resources and deaths:    *)
(* the queue takes its turns one at a time and in the order of the tickets *)
(* drawn, an operation meets no owner it does not tolerate, no process     *)
(* loses control of the Probe that it has not given up, and an owner in    *)
(* force gives way only to its controller or to an adopter.                *)
(***************************************************************************)
EXTENDS ProbeQueue, TLAPS

(* Whoever is at work has its request, and from the draw on its ticket.    *)
Drawn(p) == pc[p] \notin {"idle", "draw"}
Typed == /\ TypeOK
         /\ \A p \in Procs : /\ pc[p] # "idle" => request[p] \in Request
                             /\ Drawn(p) => ticket[p] \in Ticket

(* The dead have left; a ticket says who drew it, in which instance.       *)
Signed ==
  \A p \in Procs :
    /\ ~alive[p] => pc[p] = "idle"
    /\ Drawn(p) => ticket[p].pid = p /\ ticket[p].inc = inc[p]

(* No two tickets have one number, and the next number is a new one.       *)
Numbered ==
  /\ \A t \in tickets : t.seq <= sequence
  /\ \A p \in Procs : Drawn(p) => ticket[p].seq <= sequence
  /\ \A p, q \in Procs :
       Drawn(p) /\ Drawn(q) /\ ticket[p].seq = ticket[q].seq => p = q
  /\ \A p \in Procs : \A t \in tickets :
       Drawn(p) /\ t.seq = ticket[p].seq => t = ticket[p]

(* Between the number and the ticket file the metadata lock is held, and   *)
(* nobody draws.                                                           *)
Writing ==
  \A p \in Procs :
    pc[p] = "ticket" => metadata = Self(p) /\ ticket[p].seq = sequence

(* The ticket file is there from then on, and is the first one alive from  *)
(* the head of the queue to the end of the operation.                      *)
Turn == {"recover", "publish", "check", "run"}
Queued ==
  \A p \in Procs :
    /\ pc[p] \in Waiting \cup Turn => ticket[p] \in tickets
    /\ pc[p] \in Turn => First(ticket[p])

QueueInv == Signed /\ Numbered /\ Writing /\ Queued

(* The owner file has no instance of a pid that is yet to come, and no     *)
(* process was admitted after the owners there are.                        *)
OwnerDated ==
  /\ owner # None => owner.inc <= inc[owner.pid] /\ owner.token <= tokens
  /\ \A p \in Procs : before[p] <= tokens
DeadControlNothing == \A p \in Procs : ~alive[p] => control[p] = 0

OwnerInv == /\ OwnerDated /\ DeadControlNothing
            /\ ExecutionAdmitted /\ ControllerKeepsOwner

IInv == Typed /\ QueueInv /\ OwnerInv
-----------------------------------------------------------------------------
(* The records the actions build are records of their type.                *)
LEMMA IdentityTyped ==
  ASSUME inc \in [Procs -> Nat], NEW p \in Procs
  PROVE  Self(p) \in Identity
BY DEF Self, Identity

LEMMA NewTicketTyped ==
  ASSUME inc \in [Procs -> Nat], sequence \in Nat, NEW p \in Procs
  PROVE  NewTicket(p) \in Ticket
BY DEF NewTicket, Ticket

(* The owner file after updateOwnerResource, and after adoptOwner.         *)
LEMMA OwnerUpdated ==
  ASSUME NEW o \in Owner, NEW r \in Resources,
         NEW u, u = [o EXCEPT !.resource = r]
  PROVE  /\ u \in Owner /\ u.token = o.token /\ u.pid = o.pid /\ u.inc = o.inc
         /\ u.kind = o.kind /\ u.target = o.target /\ u.resource = r
BY DEF Owner

Adopted(o, n, p, i) == [o EXCEPT !.token = n, !.pid = p, !.inc = i]

LEMMA OwnerAdopted ==
  ASSUME NEW o \in Owner, NEW n \in Nat, NEW p \in Procs, NEW i \in Nat
  PROVE  LET a == Adopted(o, n, p, i)
         IN  /\ a \in Owner /\ a.token = n /\ a.pid = p /\ a.inc = i
             /\ a.kind = o.kind /\ a.target = o.target /\ a.resource = o.resource
<1>. DEFINE b == [token |-> n, pid |-> p, inc |-> i, kind |-> o.kind,
                  target |-> o.target, resource |-> o.resource]
<1>1. Adopted(o, n, p, i) = b
  <2>1. PICK a : a = [o EXCEPT !.token = n, !.pid = p, !.inc = i]
    OBVIOUS
  <2>2. a = b
    BY <2>1 DEF Owner
  <2>. QED
    BY <2>1, <2>2, Zenon DEF Adopted
<1>2. /\ b \in Owner /\ b.token = n /\ b.pid = p /\ b.inc = i
      /\ b.kind = o.kind /\ b.target = o.target /\ b.resource = o.resource
  BY DEF Owner
<1>. HIDE DEF b
<1>. QED
  BY <1>1, <1>2

LEMMA NoneIsNoRecord ==
  None \notin Owner /\ None \notin Ticket /\ None \notin Request /\ None \notin Identity
BY QueueConstantsOK

(* Types are kept, one step per action.                                    *)
LEMMA TypedInit == Init => Typed
BY QueueConstantsOK DEF Init, Typed, TypeOK, Drawn, PCs, Waiting

LEMMA TypedStep == Typed /\ [Next]_vars => Typed'
<1>. SUFFICES ASSUME Typed, [Next]_vars PROVE Typed'
  OBVIOUS
<1>. USE NoneIsNoRecord, QueueConstantsOK
<1>1. TypeOK
  BY DEF Typed
<1>2. ASSUME NEW p \in Procs, Ask(p) PROVE Typed'
  <2>1. PICK kinds \in {{}} \cup {{k} : k \in Kinds}, t \in Targets,
             required \in {0} \cup {o.token : o \in {LiveOwner(p)} \ {None}} :
               request' = [request EXCEPT ![p] = [kinds |-> kinds, target |-> t,
                                                  required |-> required]]
    BY <1>2 DEF Ask
  <2>2. required \in Nat
    BY <2>1, <1>1 DEF TypeOK, LiveOwner, Owner
  <2>3. [kinds |-> kinds, target |-> t, required |-> required] \in Request
    BY <2>2 DEF Request
  <2>4. pc' = [pc EXCEPT ![p] = "draw"]
        /\ UNCHANGED <<before, processes, queue, ownership, ticket, bounds>>
    BY <1>2 DEF Ask, Goto
  <2>. QED
    BY <2>1, <2>3, <2>4 DEF Typed, TypeOK, Drawn, PCs, processes, queue, ownership, bounds
<1>3. ASSUME NEW p \in Procs, WriteSequence(p) PROVE Typed'
  <2>1. Self(p) \in Identity /\ NewTicket(p) \in Ticket
    BY <1>1, IdentityTyped, NewTicketTyped DEF TypeOK
  <2>2. sequence' \in 0 .. MaxSequence
    BY <1>1, <1>3 DEF TypeOK, WriteSequence, Draw
  <2>. QED
    BY <1>3, <2>1, <2>2 DEF WriteSequence, Draw, At, Goto, Typed, TypeOK, Drawn, PCs,
                            Waiting, processes, ownership, bounds
<1>4. ASSUME NEW p \in Procs,
             WriteTicket(p) \/ Sweep(p) \/ HeadOfQueue(p) \/ Recover(p) \/ Publish(p)
               \/ Pause(p) \/ Timeout(p)
      PROVE Typed'
  <2>1. ticket[p] \in Ticket
    BY <1>4 DEF Typed, Drawn, At, WriteTicket, Sweep, HeadOfQueue, Recover, Publish,
                Pause, Timeout
  <2>2. LiveTickets(p) \subseteq tickets
    BY DEF LiveTickets
  <2>3. /\ tickets' \subseteq Ticket /\ lease' \in Ticket \cup {None}
        /\ metadata' \in Identity \cup {None}
    BY <1>1, <1>4, <2>1, <2>2
       DEF TypeOK, WriteTicket, Sweep, HeadOfQueue, Recover, Publish, Pause, Timeout, queue
  <2>4. /\ \E to \in Waiting \cup {"check", "unticket"} : pc' = [pc EXCEPT ![p] = to]
        /\ UNCHANGED <<before, processes, sequence, ownership, ticket, request, bounds>>
    BY <1>4 DEF WriteTicket, Sweep, HeadOfQueue, Recover, Publish, Pause, Timeout, Goto,
                Waiting, queue
  <2>5. pc[p] # "idle" /\ Drawn(p)
    BY <1>4 DEF Drawn, At, WriteTicket, Sweep, HeadOfQueue, Recover, Publish, Pause, Timeout
  <2>. QED
    BY <2>3, <2>4, <2>5 DEF Typed, TypeOK, Drawn, PCs, Waiting, processes, ownership, bounds
<1>5. ASSUME NEW p \in Procs, DrawFails(p) PROVE Typed'
  BY <1>5 DEF DrawFails, At, Goto, Typed, TypeOK, Drawn, PCs, processes, queue, ownership,
              bounds
<1>6. ASSUME NEW p \in Procs, Check(p) PROVE Typed'
  <2>1. LiveOwner(p) \in Owner \cup {None}
    BY <1>1 DEF LiveOwner, TypeOK
  <2>. QED
    BY <1>6, <2>1 DEF Check, At, Goto, Typed, TypeOK, Drawn, PCs, processes, queue, bounds
<1>7. ASSUME NEW p \in Procs, Finish(p) PROVE Typed'
  BY <1>7 DEF Finish, At, Goto, Typed, TypeOK, Drawn, PCs, processes, queue, ownership,
              bounds
<1>8. ASSUME NEW p \in Procs, Unlease(p) PROVE Typed'
  BY <1>8 DEF Unlease, MayFail, At, Goto, Typed, TypeOK, Drawn, PCs, processes, ownership,
              bounds
<1>9. ASSUME NEW p \in Procs, Unticket(p) PROVE Typed'
  BY <1>9 DEF Unticket, MayFail, At, Goto, Typed, TypeOK, Drawn, PCs, processes, ownership,
              bounds
<1>10. ASSUME NEW p \in Procs, Claim(p) PROVE Typed'
  <2>1. request[p] \in Request
    BY <1>10 DEF Claim, At, Typed
  <2>2. tokens' \in 0 .. MaxOwners /\ tokens' = tokens + 1 /\ tokens' \in Nat
    BY <1>10, <1>1 DEF Claim, TypeOK
  <2>3. owner' \in Owner /\ running' \subseteq Resources
    BY <1>10, <1>1, <2>1, <2>2 DEF Claim, Starts, TypeOK, Owner, Request
  <2>4. control' \in [Procs -> 0 .. MaxOwners]
    BY <1>10, <1>1, <2>2 DEF Claim, TypeOK
  <2>. QED
    BY <1>10, <2>2, <2>3, <2>4 DEF Claim, Typed, TypeOK, Drawn, processes, queue, local, bounds
<1>11. ASSUME NEW p \in Procs, Update(p) PROVE Typed'
  <2>1. owner \in Owner
    BY <1>11, <1>1 DEF Update, Mine, TypeOK
  <2>2. PICK r \in Resources : Starts(r) /\ owner' = [owner EXCEPT !.resource = r]
    BY <1>11 DEF Update
  <2>3. owner' \in Owner
    BY <2>1, <2>2, OwnerUpdated
  <2>4. running' \subseteq Resources
    BY <2>2, <1>1 DEF Starts, TypeOK
  <2>. QED
    BY <1>11, <2>3, <2>4 DEF Update, Typed, TypeOK, Drawn, processes, queue, local, bounds
<1>12. ASSUME NEW p \in Procs, Release(p) PROVE Typed'
  BY <1>12 DEF Release, MayFail, Typed, TypeOK, Drawn, processes, queue, local, bounds
<1>13. ASSUME NEW p \in Procs, Adopt(p) PROVE Typed'
  <2>1. owner \in Owner
    BY <1>13, <1>1 DEF Adopt, Adoptable, LiveOwner, TypeOK
  <2>2. tokens' \in 0 .. MaxOwners /\ tokens' = tokens + 1 /\ tokens' \in Nat
    BY <1>13, <1>1 DEF Adopt, TypeOK
  <2>3. owner' \in Owner
    <3>1. inc[p] \in Nat
      BY <1>1 DEF TypeOK
    <3>2. owner' = Adopted(owner, tokens + 1, p, inc[p])
      BY <1>13, Zenon DEF Adopt, Adopted
    <3>. QED
      BY <2>1, <2>2, <3>1, <3>2, OwnerAdopted
  <2>4. control' \in [Procs -> 0 .. MaxOwners]
    BY <1>13, <1>1, <2>2 DEF Adopt, TypeOK
  <2>. QED
    BY <1>13, <2>2, <2>3, <2>4 DEF Adopt, Typed, TypeOK, Drawn, processes, queue, local, bounds
<1>14. ASSUME NEW p \in Procs, Crash(p) PROVE Typed'
  BY <1>14 DEF Crash, Goto, Typed, TypeOK, Drawn, PCs, queue
<1>15. ASSUME NEW p \in Procs, Restart(p) PROVE Typed'
  BY <1>15 DEF Restart, Typed, TypeOK, Drawn, queue, ownership, local
<1>16. ASSUME ResourceExit PROVE Typed'
  BY <1>16 DEF ResourceExit, Typed, TypeOK, Drawn, processes, queue, local, bounds
<1>17. ASSUME UNCHANGED vars PROVE Typed'
  BY <1>17 DEF vars, Typed, TypeOK, Drawn, processes, queue, ownership, local, bounds
<1>. QED
  BY <1>2, <1>3, <1>4, <1>5, <1>6, <1>7, <1>8, <1>9, <1>10, <1>11, <1>12, <1>13, <1>14,
     <1>15, <1>16, <1>17 DEF Next, Step, OwnerStep
-----------------------------------------------------------------------------
(* The queue.  A step that leaves the files and the tickets alone moves    *)
(* one process at most, and to the lease only from the head.               *)
LEMMA MoveKeepsQueue ==
  ASSUME Typed, QueueInv, NEW p \in Procs, NEW to,
         alive[p], pc' = [pc EXCEPT ![p] = to],
         UNCHANGED <<alive, inc, sequence, metadata, tickets, ticket>>,
         to # "ticket", to \notin {"idle", "draw"} => Drawn(p),
         to \in Waiting \cup Turn => pc[p] \in Waiting \cup Turn,
         to \in Turn => First(ticket[p])
  PROVE  QueueInv'
<1>1. pc \in [Procs -> PCs]
  BY DEF Typed, TypeOK
<1>2. Signed'
  BY <1>1 DEF QueueInv, Signed, Drawn
<1>3. Numbered'
  BY <1>1 DEF QueueInv, Numbered, Drawn
<1>4. Writing'
  BY <1>1 DEF QueueInv, Writing, Self
<1>5. Queued'
  BY <1>1 DEF QueueInv, Queued, First
<1>. QED
  BY <1>2, <1>3, <1>4, <1>5 DEF QueueInv

LEMMA QuietKeepsQueue ==
  ASSUME QueueInv, UNCHANGED <<alive, inc, sequence, metadata, tickets, pc, ticket>>
  PROVE  QueueInv'
BY DEF QueueInv, Signed, Numbered, Writing, Queued, Drawn, Self, First

(* Whoever is alive and has a ticket looks live to all.                    *)
LEMMA DrawnLooksLive ==
  ASSUME QueueInv, NEW p \in Procs, NEW q \in Procs, Drawn(p)
  PROVE  LooksLive(q, ticket[p])
BY DEF QueueInv, Signed, Drawn, LooksLive

LEMMA QueueInit == Init => QueueInv
BY DEF Init, QueueInv, Signed, Numbered, Writing, Queued, Drawn, Waiting, Turn, First

LEMMA WriteSequenceKeepsQueue ==
  ASSUME Typed, QueueInv, NEW p \in Procs, WriteSequence(p)
  PROVE  QueueInv'
<1>1. /\ pc \in [Procs -> PCs] /\ ticket \in [Procs -> Ticket \cup {None}]
      /\ sequence \in Nat /\ tickets \subseteq Ticket
  BY QueueConstantsOK DEF Typed, TypeOK
<1>2. /\ alive[p] /\ pc[p] = "draw"
      /\ metadata # None => ~LooksLive(p, metadata)
      /\ metadata' = Self(p) /\ sequence' = sequence + 1
      /\ ticket' = [ticket EXCEPT ![p] = NewTicket(p)]
      /\ pc' = [pc EXCEPT ![p] = "ticket"]
      /\ UNCHANGED <<alive, inc, tickets>>
  BY DEF WriteSequence, Draw, At, Goto, processes
<1>3. /\ NewTicket(p).pid = p /\ NewTicket(p).inc = inc[p]
      /\ NewTicket(p).seq = sequence + 1
  BY DEF NewTicket
<1>4. \A q \in Procs : Drawn(q) => ticket[q].seq \in Nat
  BY DEF Typed, Ticket
<1>5. \A q \in Procs : pc[q] # "ticket"
  <2>1. SUFFICES ASSUME NEW q \in Procs, pc[q] = "ticket" PROVE FALSE
    OBVIOUS
  <2>2. q # p /\ alive[q] /\ metadata = Self(q)
    BY <1>2, <2>1 DEF QueueInv, Signed, Writing
  <2>3. metadata # None
    BY <2>2, NoneIsNoRecord, IdentityTyped DEF Typed, TypeOK
  <2>. QED
    BY <1>2, <2>2, <2>3 DEF LooksLive, Self
<1>6. Signed'
  BY <1>1, <1>2, <1>3 DEF QueueInv, Signed, Drawn
<1>7. Numbered'
  <2>1. \A q \in Procs : q # p => (Drawn(q)' <=> Drawn(q)) /\ ticket'[q] = ticket[q]
    BY <1>1, <1>2 DEF Drawn
  <2>2. ticket'[p].seq = sequence + 1
    BY <1>1, <1>2, <1>3
  <2>3. \A t \in tickets : t.seq \in Nat /\ t.seq <= sequence
    BY <1>1 DEF QueueInv, Numbered, Ticket
  <2>. QED
    BY <1>1, <1>2, <1>4, <2>1, <2>2, <2>3 DEF QueueInv, Numbered
<1>8. Writing'
  BY <1>1, <1>2, <1>3, <1>5 DEF Writing, Self
<1>9. Queued'
  BY <1>1, <1>2 DEF QueueInv, Queued, Waiting, Turn, First
<1>. QED
  BY <1>6, <1>7, <1>8, <1>9 DEF QueueInv

LEMMA WriteTicketKeepsQueue ==
  ASSUME Typed, QueueInv, NEW p \in Procs, WriteTicket(p)
  PROVE  QueueInv'
<1>1. pc \in [Procs -> PCs] /\ sequence \in Nat /\ tickets \subseteq Ticket
  BY QueueConstantsOK DEF Typed, TypeOK
<1>2. /\ alive[p] /\ pc[p] = "ticket" /\ Drawn(p)
      /\ tickets' = tickets \cup {ticket[p]}
      /\ metadata' = IF metadata = Self(p) THEN None ELSE metadata
      /\ pc' = [pc EXCEPT ![p] = "wait"]
      /\ UNCHANGED <<alive, inc, sequence, ticket>>
  BY DEF WriteTicket, At, Goto, processes, Drawn
<1>3. ticket[p].seq = sequence /\ metadata = Self(p)
  BY <1>2 DEF QueueInv, Writing
<1>4. \A q \in Procs : Drawn(q)' <=> Drawn(q)
  BY <1>1, <1>2 DEF Drawn
<1>5. Signed'
  BY <1>1, <1>2, <1>4 DEF QueueInv, Signed
<1>6. Numbered'
  BY <1>2, <1>3, <1>4 DEF QueueInv, Numbered
<1>7. Writing'
  BY <1>1, <1>2, <1>3 DEF QueueInv, Writing, Self
<1>8. Queued'
  <2>1. \A q \in Procs : pc'[q] \in Turn => Drawn(q) /\ ticket[q].seq <= ticket[p].seq
    BY <1>1, <1>2, <1>3 DEF QueueInv, Numbered, Drawn, Turn
  <2>. QED
    BY <1>1, <1>2, <2>1 DEF QueueInv, Queued, Waiting, Turn, First
<1>. QED
  BY <1>5, <1>6, <1>7, <1>8 DEF QueueInv

LEMMA SweepKeepsQueue ==
  ASSUME Typed, QueueInv, NEW p \in Procs, Sweep(p)
  PROVE  QueueInv'
<1>1. pc \in [Procs -> PCs]
  BY DEF Typed, TypeOK
<1>2. /\ alive[p] /\ pc[p] = "wait" /\ tickets' = LiveTickets(p)
      /\ pc' = [pc EXCEPT ![p] = "head"]
      /\ UNCHANGED <<alive, inc, sequence, metadata, ticket>>
  BY DEF Sweep, At, Goto, processes
<1>3. tickets' \subseteq tickets
  BY <1>2 DEF LiveTickets
<1>4. \A q \in Procs : Drawn(q) /\ ticket[q] \in tickets => ticket[q] \in tickets'
  BY <1>2, DrawnLooksLive DEF LiveTickets
<1>5. \A q \in Procs : Drawn(q)' <=> Drawn(q)
  BY <1>1, <1>2 DEF Drawn
<1>6. Signed'
  BY <1>1, <1>2, <1>5 DEF QueueInv, Signed
<1>7. Numbered'
  BY <1>2, <1>3, <1>5 DEF QueueInv, Numbered
<1>8. Writing'
  BY <1>1, <1>2 DEF QueueInv, Writing, Self
<1>9. Queued'
  BY <1>1, <1>2, <1>3, <1>4 DEF QueueInv, Queued, Drawn, Waiting, Turn, First
<1>. QED
  BY <1>6, <1>7, <1>8, <1>9 DEF QueueInv

LEMMA UnticketKeepsQueue ==
  ASSUME Typed, QueueInv, NEW p \in Procs, Unticket(p)
  PROVE  QueueInv'
<1>1. pc \in [Procs -> PCs] /\ ticket \in [Procs -> Ticket \cup {None}]
  BY DEF Typed, TypeOK
<1>2. /\ alive[p] /\ pc[p] = "unticket" /\ Drawn(p)
      /\ tickets' \in {tickets, tickets \ {ticket[p]}}
      /\ pc' = [pc EXCEPT ![p] = "idle"]
      /\ ticket' = [ticket EXCEPT ![p] = None]
      /\ UNCHANGED <<alive, inc, sequence, metadata>>
  BY DEF Unticket, At, Goto, processes, Drawn
<1>3. \A q \in Procs : Drawn(q)' => q # p /\ Drawn(q) /\ ticket'[q] = ticket[q]
  BY <1>1, <1>2 DEF Drawn
<1>4. \A q \in Procs : Drawn(q)' /\ ticket[q] \in tickets => ticket[q] \in tickets'
  BY <1>2, <1>3 DEF QueueInv, Numbered
<1>5. Signed'
  BY <1>1, <1>2, <1>3 DEF QueueInv, Signed
<1>6. Numbered'
  BY <1>2, <1>3 DEF QueueInv, Numbered
<1>7. Writing'
  BY <1>1, <1>2 DEF QueueInv, Writing, Self
<1>8. Queued'
  BY <1>1, <1>2, <1>3, <1>4 DEF QueueInv, Queued, Drawn, Waiting, Turn, First
<1>. QED
  BY <1>5, <1>6, <1>7, <1>8 DEF QueueInv

LEMMA CrashKeepsQueue ==
  ASSUME Typed, QueueInv, NEW p \in Procs, Crash(p)
  PROVE  QueueInv'
<1>1. pc \in [Procs -> PCs] /\ ticket \in [Procs -> Ticket \cup {None}]
      /\ alive \in [Procs -> BOOLEAN]
  BY DEF Typed, TypeOK
<1>2. /\ alive' = [alive EXCEPT ![p] = FALSE]
      /\ pc' = [pc EXCEPT ![p] = "idle"]
      /\ ticket' = [ticket EXCEPT ![p] = None]
      /\ UNCHANGED <<inc, sequence, metadata, tickets>>
  BY DEF Crash, Goto, queue
<1>3. \A q \in Procs : Drawn(q)' => q # p /\ Drawn(q) /\ ticket'[q] = ticket[q]
  BY <1>1, <1>2 DEF Drawn
<1>4. Signed'
  BY <1>1, <1>2, <1>3 DEF QueueInv, Signed
<1>5. Numbered'
  BY <1>2, <1>3 DEF QueueInv, Numbered
<1>6. Writing'
  BY <1>1, <1>2 DEF QueueInv, Writing, Self
<1>7. Queued'
  BY <1>1, <1>2, <1>3 DEF QueueInv, Queued, Waiting, Turn, First
<1>. QED
  BY <1>4, <1>5, <1>6, <1>7 DEF QueueInv

LEMMA RestartKeepsQueue ==
  ASSUME Typed, QueueInv, NEW p \in Procs, Restart(p)
  PROVE  QueueInv'
<1>1. alive \in [Procs -> BOOLEAN] /\ inc \in [Procs -> Nat]
  BY DEF Typed, TypeOK
<1>2. /\ pc[p] = "idle" /\ ~Drawn(p)
      /\ alive' = [alive EXCEPT ![p] = TRUE] /\ inc' = [inc EXCEPT ![p] = @ + 1]
      /\ UNCHANGED <<pc, ticket, sequence, metadata, tickets>>
  BY DEF Restart, queue, local, QueueInv, Signed, Drawn
<1>3. \A q \in Procs : Drawn(q)' <=> Drawn(q)
  BY <1>2 DEF Drawn
<1>4. Signed'
  BY <1>1, <1>2, <1>3 DEF QueueInv, Signed
<1>5. Numbered'
  BY <1>2, <1>3 DEF QueueInv, Numbered
<1>6. Writing'
  BY <1>1, <1>2 DEF QueueInv, Writing, Self
<1>7. Queued'
  BY <1>2 DEF QueueInv, Queued, First
<1>. QED
  BY <1>4, <1>5, <1>6, <1>7 DEF QueueInv

LEMMA QueueStep == Typed /\ QueueInv /\ [Next]_vars => QueueInv'
<1>. SUFFICES ASSUME Typed, QueueInv, [Next]_vars PROVE QueueInv'
  OBVIOUS
<1>1. ASSUME NEW p \in Procs, Ask(p) \/ DrawFails(p) PROVE QueueInv'
  <2>. PICK to \in {"idle", "draw"} :
         /\ alive[p] /\ pc' = [pc EXCEPT ![p] = to]
         /\ UNCHANGED <<alive, inc, sequence, metadata, tickets, ticket>>
    BY <1>1 DEF Ask, DrawFails, At, Goto, processes, queue
  <2>. QED
    BY MoveKeepsQueue DEF Waiting, Turn
<1>2. ASSUME NEW p \in Procs,
             Recover(p) \/ Publish(p) \/ Pause(p) \/ Timeout(p) \/ Check(p)
      PROVE  QueueInv'
  <2>1. PICK to \in {"wait", "pause", "unticket", "publish", "check", "run", "unlease"} :
         /\ alive[p] /\ pc' = [pc EXCEPT ![p] = to]
         /\ to \in Turn => pc[p] \in Turn
         /\ pc[p] \in Waiting \cup Turn
         /\ UNCHANGED <<alive, inc, sequence, metadata, tickets, ticket>>
    BY <1>2 DEF Recover, Publish, Pause, Timeout, Check, At, Goto, processes, queue,
                Waiting, Turn
  <2>2. Drawn(p) /\ (to \in Turn => First(ticket[p]))
    BY <2>1 DEF Drawn, Waiting, Turn, QueueInv, Queued
  <2>. QED
    BY <2>1, <2>2, MoveKeepsQueue
<1>3. ASSUME NEW p \in Procs, HeadOfQueue(p) PROVE QueueInv'
  <2>1. PICK to \in {"recover", "pause"} :
         /\ alive[p] /\ pc' = [pc EXCEPT ![p] = to] /\ pc[p] = "head"
         /\ to = "recover" => First(ticket[p])
         /\ UNCHANGED <<alive, inc, sequence, metadata, tickets, ticket>>
    BY <1>3 DEF HeadOfQueue, At, Goto, processes, queue
  <2>2. Drawn(p) /\ pc[p] \in Waiting
    BY <2>1 DEF Drawn, Waiting
  <2>3. to \in Turn => First(ticket[p])
    BY <2>1 DEF Turn
  <2>. QED
    BY <2>1, <2>2, <2>3, MoveKeepsQueue
<1>4. ASSUME NEW p \in Procs, Finish(p) \/ Unlease(p) PROVE QueueInv'
  <2>1. PICK to \in {"unlease", "unticket"} :
         /\ alive[p] /\ pc' = [pc EXCEPT ![p] = to] /\ pc[p] \in {"run", "unlease"}
         /\ UNCHANGED <<alive, inc, sequence, metadata, tickets, ticket>>
    BY <1>4 DEF Finish, Unlease, At, Goto, processes, queue
  <2>2. Drawn(p)
    BY <2>1 DEF Drawn
  <2>. QED
    BY <2>1, <2>2, MoveKeepsQueue DEF Waiting, Turn
<1>5. ASSUME NEW p \in Procs, OwnerStep(p) PROVE QueueInv'
  BY <1>5, QuietKeepsQueue
     DEF OwnerStep, Claim, Update, Release, Adopt, processes, queue, local
<1>6. ASSUME ResourceExit PROVE QueueInv'
  BY <1>6, QuietKeepsQueue DEF ResourceExit, processes, queue, local
<1>7. ASSUME UNCHANGED vars PROVE QueueInv'
  BY <1>7, QuietKeepsQueue DEF vars, processes, queue, local
<1>. QED
  BY <1>1, <1>2, <1>3, <1>4, <1>5, <1>6, <1>7, WriteSequenceKeepsQueue,
     WriteTicketKeepsQueue, SweepKeepsQueue, UnticketKeepsQueue, CrashKeepsQueue,
     RestartKeepsQueue DEF Next, Step
-----------------------------------------------------------------------------
(* The turns.  The first ticket is one ticket, so two operations at once   *)
(* would be one; and whoever waits has drawn a later one.                  *)
LEMMA QueueInvImpliesTurns == Typed /\ QueueInv => TurnsInOrder
<1>. SUFFICES ASSUME Typed, QueueInv PROVE TurnsInOrder
  OBVIOUS
<1>1. \A p \in Procs : Drawn(p) => ticket[p].seq \in Nat
  BY DEF Typed, Ticket
<1>2. \A p, q \in Procs :
        pc[p] = "run" /\ pc[q] \in Waiting \cup {"run"} => ticket[p].seq <= ticket[q].seq
  BY DEF QueueInv, Queued, Turn, First
<1>3. ExclusiveExecution
  <2>1. SUFFICES ASSUME NEW p \in Procs, NEW q \in Procs, pc[p] = "run", pc[q] = "run"
                 PROVE  p = q
    BY DEF ExclusiveExecution
  <2>2. ticket[p].seq <= ticket[q].seq /\ ticket[q].seq <= ticket[p].seq
    BY <1>2, <2>1
  <2>3. Drawn(p) /\ Drawn(q)
    BY <2>1 DEF Drawn
  <2>4. ticket[p].seq = ticket[q].seq
    BY <1>1, <2>2, <2>3
  <2>. QED
    BY <2>3, <2>4 DEF QueueInv, Numbered
<1>4. FirstComeFirstServed
  <2>1. SUFFICES ASSUME NEW p \in Procs, NEW q \in Procs, pc[p] = "run", pc[q] \in Waiting
                 PROVE  ticket[p].seq < ticket[q].seq
    BY DEF FirstComeFirstServed
  <2>2. Drawn(p) /\ Drawn(q) /\ p # q
    BY <2>1 DEF Drawn, Waiting
  <2>3. ticket[p].seq # ticket[q].seq
    BY <2>2 DEF QueueInv, Numbered
  <2>. QED
    BY <1>1, <1>2, <2>1, <2>2, <2>3
<1>. QED
  BY <1>3, <1>4 DEF TurnsInOrder, Typed

-----------------------------------------------------------------------------
(* The owner.  A record in force looks live to whoever asks.               *)
LEMMA InForceLooksLive ==
  ASSUME Typed, NEW p \in Procs, owner # None, InForce(owner)
  PROVE  OwnerLooksLive(p, owner) /\ LiveOwner(p) = owner
BY DEF InForce, OwnerLooksLive, LooksLive, LiveOwner

LEMMA ControlLooksLive ==
  ASSUME OwnerInv, NEW p \in Procs, NEW q \in Procs, alive[p], control[p] # 0
  PROVE  /\ owner # None /\ owner.token = control[p] /\ owner.pid = p /\ owner.inc = inc[p]
         /\ LooksLive(q, owner) /\ LiveOwner(q) # None
BY DEF OwnerInv, ControllerKeepsOwner, Mine, LooksLive, LiveOwner, OwnerLooksLive

LEMMA OwnerInit == Init => OwnerInv
BY DEF Init, OwnerInv, OwnerDated, DeadControlNothing, ExecutionAdmitted,
       ControllerKeepsOwner

(* Steps that touch neither the owner file nor the processes keep what is  *)
(* known of the owner, unless they begin an operation.                     *)
LEMMA QuietKeepsOwner ==
  ASSUME OwnerInv,
         UNCHANGED <<alive, inc, owner, tokens, control, before>>,
         running' \subseteq running,
         \A p \in Procs : pc'[p] = "run" => pc[p] = "run" /\ request'[p] = request[p]
  PROVE  OwnerInv'
BY DEF OwnerInv, OwnerDated, DeadControlNothing, ExecutionAdmitted, ControllerKeepsOwner,
       Mine, InForce, ClaimedMeanwhile

LEMMA CheckKeepsOwner ==
  ASSUME Typed, OwnerInv, NEW p \in Procs, Check(p)
  PROVE  OwnerInv'
<1>1. /\ pc \in [Procs -> PCs] /\ before \in [Procs -> 0 .. MaxOwners]
      /\ tokens \in Nat /\ inc \in [Procs -> Nat]
      /\ owner # None => owner \in Owner
  BY QueueConstantsOK DEF Typed, TypeOK
<1>2. /\ owner' = LiveOwner(p)
      /\ pc' = [pc EXCEPT ![p] = IF Admitted(p) THEN "run" ELSE "unlease"]
      /\ before' = [before EXCEPT ![p] = tokens]
      /\ UNCHANGED <<alive, inc, tokens, running, control, request>>
  BY DEF Check, Goto, processes
<1>3. owner' = None \/ owner' = owner
  BY <1>2 DEF LiveOwner
<1>4. OwnerDated'
  BY <1>1, <1>2, <1>3 DEF OwnerInv, OwnerDated
<1>5. DeadControlNothing'
  BY <1>2 DEF OwnerInv, DeadControlNothing
<1>6. ControllerKeepsOwner'
  <2>1. SUFFICES ASSUME NEW q \in Procs, alive[q], control[q] # 0 PROVE Mine(q)'
    BY <1>2 DEF ControllerKeepsOwner
  <2>2. owner' = owner
    BY <1>2, <1>3, <2>1, ControlLooksLive
  <2>. QED
    BY <1>2, <2>1, <2>2 DEF OwnerInv, ControllerKeepsOwner, Mine
<1>7. ExecutionAdmitted'
  <2>1. SUFFICES ASSUME NEW q \in Procs, pc'[q] = "run", owner' # None, InForce(owner)'
                 PROVE  \/ ClaimedMeanwhile(q)'
                        \/ owner'.kind \in request[q].kinds /\ owner'.target = request[q].target
    BY <1>2 DEF ExecutionAdmitted
  <2>2. owner' = owner /\ owner # None /\ InForce(owner)
    BY <1>2, <1>3, <2>1 DEF InForce
  <2>3. CASE q = p
    <3>1. Admitted(p)
      BY <1>1, <1>2, <2>1, <2>3
    <3>. QED
      BY <1>2, <2>2, <2>3, <3>1 DEF Admitted
  <2>4. CASE q # p
    BY <1>1, <1>2, <2>1, <2>2, <2>4 DEF OwnerInv, ExecutionAdmitted, ClaimedMeanwhile
  <2>. QED
    BY <2>3, <2>4
<1>. QED
  BY <1>4, <1>5, <1>6, <1>7 DEF OwnerInv

LEMMA ClaimKeepsOwner ==
  ASSUME Typed, QueueInv, OwnerInv, NEW p \in Procs, Claim(p)
  PROVE  OwnerInv'
<1>1. /\ control \in [Procs -> 0 .. MaxOwners] /\ before \in [Procs -> 0 .. MaxOwners]
      /\ tokens \in Nat /\ inc \in [Procs -> Nat] /\ MaxOwners \in Nat
  BY QueueConstantsOK DEF Typed, TypeOK
<1>2. /\ alive[p] /\ pc[p] = "run" /\ LiveOwner(p) = None
      /\ tokens' = tokens + 1
      /\ control' = [control EXCEPT ![p] = tokens + 1]
      /\ UNCHANGED <<alive, inc, pc, request, before>>
  BY DEF Claim, At, processes, local
<1>3. /\ owner' # None /\ owner'.token = tokens + 1
      /\ owner'.pid = p /\ owner'.inc = inc[p]
  <2>1. PICK k \in Kinds, r \in Resources \cup {None} :
          owner' = [token |-> tokens + 1, pid |-> p, inc |-> inc[p], kind |-> k,
                    target |-> request[p].target, resource |-> r]
    BY DEF Claim
  <2>2. owner' \in Owner
    <3>1. request[p].target \in Targets
      BY <1>2 DEF Typed, Request
    <3>. QED
      BY <1>1, <2>1, <3>1 DEF Owner
  <2>. QED
    BY <2>1, <2>2, NoneIsNoRecord
<1>4. OwnerDated'
  BY <1>1, <1>2, <1>3 DEF OwnerInv, OwnerDated
<1>5. DeadControlNothing'
  BY <1>1, <1>2 DEF OwnerInv, DeadControlNothing
<1>6. ControllerKeepsOwner'
  <2>1. SUFFICES ASSUME NEW q \in Procs, alive[q], control'[q] # 0 PROVE Mine(q)'
    BY <1>2 DEF ControllerKeepsOwner
  <2>2. q = p
    BY <1>1, <1>2, <2>1, ControlLooksLive
  <2>. QED
    BY <1>1, <1>2, <1>3, <2>2 DEF Mine
<1>7. ExecutionAdmitted'
  <2>1. SUFFICES ASSUME NEW q \in Procs, pc[q] = "run" PROVE ClaimedMeanwhile(q)'
    BY <1>2 DEF ExecutionAdmitted
  <2>2. q = p
    BY <1>2, <2>1, QueueInvImpliesTurns DEF TurnsInOrder, ExclusiveExecution
  <2>3. before[p] \in Nat /\ before[p] <= tokens
    BY <1>1 DEF OwnerInv, OwnerDated
  <2>. QED
    BY <1>1, <1>2, <1>3, <2>2, <2>3 DEF ClaimedMeanwhile
<1>. QED
  BY <1>4, <1>5, <1>6, <1>7 DEF OwnerInv

LEMMA UpdateKeepsOwner ==
  ASSUME Typed, OwnerInv, NEW p \in Procs, Update(p)
  PROVE  OwnerInv'
<1>1. /\ owner # None /\ owner \in Owner
      /\ alive[p] /\ owner.pid = p /\ owner.inc = inc[p]
      /\ UNCHANGED <<alive, inc, tokens, control, pc, request, before>>
  BY DEF Update, Mine, Typed, TypeOK, processes, local
<1>2. /\ owner' # None /\ owner'.token = owner.token /\ owner'.pid = owner.pid
      /\ owner'.inc = owner.inc /\ owner'.kind = owner.kind /\ owner'.target = owner.target
  <2>1. PICK r \in Resources : owner' = [owner EXCEPT !.resource = r]
    BY DEF Update
  <2>. QED
    BY <1>1, <2>1, OwnerUpdated, NoneIsNoRecord
<1>3. InForce(owner)
  BY <1>1 DEF InForce
<1>. QED
  BY <1>1, <1>2, <1>3 DEF OwnerInv, OwnerDated, DeadControlNothing, ExecutionAdmitted,
                          ControllerKeepsOwner, Mine, ClaimedMeanwhile

LEMMA ReleaseKeepsOwner ==
  ASSUME Typed, OwnerInv, NEW p \in Procs, Release(p)
  PROVE  OwnerInv'
<1>1. control \in [Procs -> 0 .. MaxOwners]
  BY DEF Typed, TypeOK
<1>2. /\ Mine(p) /\ owner' \in {None, owner}
      /\ control' = [control EXCEPT ![p] = 0]
      /\ UNCHANGED <<alive, inc, tokens, running, pc, request, before>>
  BY DEF Release, processes, local
<1>3. OwnerDated'
  BY <1>2 DEF OwnerInv, OwnerDated
<1>4. DeadControlNothing'
  BY <1>1, <1>2 DEF OwnerInv, DeadControlNothing
<1>5. ControllerKeepsOwner'
  <2>1. SUFFICES ASSUME NEW q \in Procs, alive[q], control'[q] # 0 PROVE FALSE
    BY <1>2 DEF ControllerKeepsOwner
  <2>2. q # p /\ control[q] # 0
    BY <1>1, <1>2, <2>1
  <2>. QED
    BY <1>2, <2>1, <2>2, ControlLooksLive DEF Mine
<1>6. ExecutionAdmitted'
  BY <1>2 DEF OwnerInv, ExecutionAdmitted, InForce, ClaimedMeanwhile
<1>. QED
  BY <1>3, <1>4, <1>5, <1>6 DEF OwnerInv

(* Nobody who is alive loses the owner to an adopter, and an operation     *)
(* that tolerated it tolerates it under its new controller.                *)
LEMMA AdoptKeepsOwner ==
  ASSUME Typed, QueueInv, OwnerInv, NEW p \in Procs, Adopt(p)
  PROVE  OwnerInv'
<1>1. /\ control \in [Procs -> 0 .. MaxOwners] /\ before \in [Procs -> 0 .. MaxOwners]
      /\ tokens \in Nat /\ inc \in [Procs -> Nat] /\ MaxOwners \in Nat
  BY QueueConstantsOK DEF Typed, TypeOK
<1>2. /\ alive[p] /\ owner # None /\ owner \in Owner /\ owner.resource \in running
      /\ ~LooksLive(p, owner)
      /\ tokens' = tokens + 1
      /\ control' = [control EXCEPT ![p] = tokens + 1]
      /\ UNCHANGED <<alive, inc, running, pc, request, before>>
  BY DEF Adopt, Adoptable, LiveOwner, Typed, TypeOK, processes, local
<1>3. /\ owner' # None /\ owner'.token = tokens + 1 /\ owner'.pid = p /\ owner'.inc = inc[p]
      /\ owner'.kind = owner.kind /\ owner'.target = owner.target
      /\ owner'.resource = owner.resource
  <2>1. owner' = Adopted(owner, tokens + 1, p, inc[p])
    BY Zenon DEF Adopt, Adopted
  <2>2. inc[p] \in Nat /\ tokens + 1 \in Nat
    BY <1>1
  <2>. QED
    BY <1>2, <2>1, <2>2, OwnerAdopted, NoneIsNoRecord
<1>4. OwnerDated'
  BY <1>1, <1>2, <1>3 DEF OwnerInv, OwnerDated
<1>5. DeadControlNothing'
  BY <1>1, <1>2 DEF OwnerInv, DeadControlNothing
<1>6. ControllerKeepsOwner'
  <2>1. SUFFICES ASSUME NEW q \in Procs, alive[q], control'[q] # 0 PROVE Mine(q)'
    BY <1>2 DEF ControllerKeepsOwner
  <2>2. q = p
    BY <1>1, <1>2, <2>1, ControlLooksLive
  <2>. QED
    BY <1>1, <1>2, <1>3, <2>2 DEF Mine
<1>7. ExecutionAdmitted'
  <2>1. SUFFICES ASSUME NEW q \in Procs, pc[q] = "run"
                 PROVE  owner.kind \in request[q].kinds /\ owner.target = request[q].target
    BY <1>2, <1>3 DEF ExecutionAdmitted
  <2>2. InForce(owner)
    BY <1>2 DEF InForce
  <2>3. CASE ClaimedMeanwhile(q)
    <3>1. alive[q]
      BY <2>1 DEF QueueInv, Signed
    <3>. QED
      BY <1>2, <2>3, <3>1 DEF ClaimedMeanwhile, LooksLive
  <2>. QED
    BY <1>2, <2>1, <2>2, <2>3 DEF OwnerInv, ExecutionAdmitted
<1>. QED
  BY <1>4, <1>5, <1>6, <1>7 DEF OwnerInv

LEMMA DeathsKeepOwner ==
  ASSUME Typed, QueueInv, OwnerInv, NEW p \in Procs, Crash(p) \/ Restart(p)
  PROVE  OwnerInv'
<1>1. /\ pc \in [Procs -> PCs] /\ control \in [Procs -> 0 .. MaxOwners]
      /\ alive \in [Procs -> BOOLEAN] /\ inc \in [Procs -> Nat]
      /\ owner # None => owner \in Owner
  BY DEF Typed, TypeOK
<1>2. ASSUME Crash(p) PROVE OwnerInv'
  <2>1. /\ alive' = [alive EXCEPT ![p] = FALSE]
        /\ pc' = [pc EXCEPT ![p] = "idle"] /\ control' = [control EXCEPT ![p] = 0]
        /\ request' = [request EXCEPT ![p] = None]
        /\ UNCHANGED <<before, inc, owner, tokens, running>>
    BY <1>2 DEF Crash, Goto
  <2>2. \A q \in Procs : pc'[q] = "run" =>
          q # p /\ pc[q] = "run" /\ request'[q] = request[q]
    BY <1>1, <2>1 DEF Typed, TypeOK
  <2>3. owner # None /\ InForce(owner)' => InForce(owner)
    BY <1>1, <2>1 DEF InForce, Owner
  <2>4. OwnerDated' /\ DeadControlNothing'
    BY <1>1, <2>1 DEF OwnerInv, OwnerDated, DeadControlNothing
  <2>5. ControllerKeepsOwner'
    BY <1>1, <2>1 DEF OwnerInv, ControllerKeepsOwner, Mine
  <2>6. ExecutionAdmitted'
    BY <2>1, <2>2, <2>3 DEF OwnerInv, ExecutionAdmitted, ClaimedMeanwhile
  <2>. QED
    BY <2>4, <2>5, <2>6 DEF OwnerInv
<1>3. ASSUME Restart(p) PROVE OwnerInv'
  <2>1. /\ ~alive[p] /\ alive' = [alive EXCEPT ![p] = TRUE]
        /\ inc' = [inc EXCEPT ![p] = @ + 1]
        /\ UNCHANGED <<before, owner, tokens, running, control, pc, request>>
    BY <1>3 DEF Restart, ownership, local
  <2>2. \A q \in Procs : alive'[q] /\ control[q] # 0 => q # p /\ alive[q]
    BY <1>1, <2>1 DEF OwnerInv, DeadControlNothing
  <2>3. owner # None /\ InForce(owner)' => InForce(owner)
    BY <1>1, <2>1 DEF InForce, Owner, OwnerInv, OwnerDated
  <2>4. OwnerDated'
    BY <1>1, <2>1 DEF OwnerInv, OwnerDated, Owner
  <2>5. DeadControlNothing'
    BY <1>1, <2>1 DEF OwnerInv, DeadControlNothing
  <2>6. ControllerKeepsOwner'
    BY <1>1, <2>1, <2>2 DEF OwnerInv, ControllerKeepsOwner, Mine
  <2>7. \A q \in Procs : pc[q] = "run" => q # p
    BY <2>1 DEF QueueInv, Signed
  <2>8. ExecutionAdmitted'
    BY <1>1, <2>1, <2>3, <2>7 DEF OwnerInv, ExecutionAdmitted, ClaimedMeanwhile
  <2>. QED
    BY <2>4, <2>5, <2>6, <2>8 DEF OwnerInv
<1>. QED
  BY <1>2, <1>3

LEMMA OwnerInvStep == Typed /\ QueueInv /\ OwnerInv /\ [Next]_vars => OwnerInv'
<1>. SUFFICES ASSUME Typed, QueueInv, OwnerInv, [Next]_vars PROVE OwnerInv'
  OBVIOUS
<1>1. ASSUME NEW p \in Procs,
             Ask(p) \/ DrawFails(p) \/ WriteSequence(p) \/ WriteTicket(p) \/ Sweep(p)
               \/ HeadOfQueue(p) \/ Recover(p) \/ Publish(p) \/ Pause(p) \/ Timeout(p)
               \/ Finish(p) \/ Unlease(p) \/ Unticket(p)
      PROVE  OwnerInv'
  <2>1. /\ pc \in [Procs -> PCs]
        /\ UNCHANGED <<alive, inc, owner, tokens, control, before, running>>
    BY <1>1 DEF Ask, DrawFails, WriteSequence, Draw, WriteTicket, Sweep, HeadOfQueue, Recover,
                Publish, Pause, Timeout, Finish, Unlease, Unticket, processes, ownership,
                Typed, TypeOK
  <2>2. /\ \E to \in PCs \ {"run"} : pc' = [pc EXCEPT ![p] = to]
        /\ \A q \in Procs : q # p => request'[q] = request[q]
    BY <1>1 DEF Ask, DrawFails, WriteSequence, Draw, WriteTicket, Sweep, HeadOfQueue, Recover,
                Publish, Pause, Timeout, Finish, Unlease, Unticket, Goto, PCs, Waiting,
                Typed, TypeOK
  <2>3. \A q \in Procs : pc'[q] = "run" => pc[q] = "run" /\ request'[q] = request[q]
    BY <2>1, <2>2
  <2>. QED
    BY <2>1, <2>3, QuietKeepsOwner
<1>2. ASSUME ResourceExit PROVE OwnerInv'
  BY <1>2, QuietKeepsOwner DEF ResourceExit, processes, queue, local
<1>3. ASSUME UNCHANGED vars PROVE OwnerInv'
  BY <1>3, QuietKeepsOwner DEF vars, processes, ownership, local
<1>. QED
  BY <1>1, <1>2, <1>3, CheckKeepsOwner, ClaimKeepsOwner, UpdateKeepsOwner,
     ReleaseKeepsOwner, AdoptKeepsOwner, DeathsKeepOwner DEF Next, Step, OwnerStep

(* What a single step does to the owner file: a step that finds it dead    *)
(* does not find it in force.                                              *)
LEMMA StepFailClosed ==
  ASSUME Typed, [Next]_vars, owner # None, InForce(owner), owner' # owner
  PROVE  (Mine(owner.pid) /\ alive[owner.pid]) \/ SameResource(owner, owner')
<1>1. owner \in Owner
  BY DEF Typed, TypeOK
<1>2. ASSUME NEW p \in Procs, Step(p) \/ Ask(p) \/ DrawFails(p) \/ Timeout(p)
      PROVE  FALSE
  <2>1. owner' \in {owner, LiveOwner(p)}
    BY <1>2 DEF Step, WriteSequence, Draw, WriteTicket, Sweep, HeadOfQueue, Recover, Publish,
                Pause, Check, Finish, Unlease, Unticket, Ask, DrawFails, Timeout, ownership
  <2>. QED
    BY <2>1, InForceLooksLive
<1>3. ASSUME NEW p \in Procs, Claim(p) PROVE FALSE
  BY <1>3, InForceLooksLive DEF Claim
<1>4. ASSUME NEW p \in Procs, Update(p) \/ Release(p)
      PROVE  Mine(owner.pid) /\ alive[owner.pid]
  BY <1>4 DEF Update, Release, Mine
<1>5. ASSUME NEW p \in Procs, Adopt(p) PROVE SameResource(owner, owner')
  <2>1. owner' = Adopted(owner, tokens + 1, p, inc[p])
    BY <1>5, Zenon DEF Adopt, Adopted
  <2>2. inc[p] \in Nat /\ tokens + 1 \in Nat
    BY QueueConstantsOK DEF Typed, TypeOK
  <2>. QED
    BY <1>1, <2>1, <2>2, OwnerAdopted, NoneIsNoRecord DEF SameResource
<1>6. ASSUME NEW p \in Procs, Crash(p) \/ Restart(p) PROVE FALSE
  BY <1>6 DEF Crash, Restart, ownership
<1>7. ASSUME ResourceExit \/ UNCHANGED vars PROVE FALSE
  BY <1>7 DEF ResourceExit, vars, ownership
<1>. QED
  BY <1>2, <1>3, <1>4, <1>5, <1>6, <1>7 DEF Next, OwnerStep

-----------------------------------------------------------------------------
(* The inductive invariant: begun with, and kept by every step.            *)
LEMMA Invariance == Spec => []IInv
<1>1. Init => IInv
  BY TypedInit, QueueInit, OwnerInit DEF IInv
<1>2. IInv /\ [Next]_vars => IInv'
  BY TypedStep, QueueStep, OwnerInvStep DEF IInv
<1>. QED
  BY <1>1, <1>2, PTL DEF Spec

(* One operation at a time, in the order of the tickets (runCrossProcess). *)
THEOREM TurnsAreInOrder == Spec => []TurnsInOrder
<1>1. IInv => TurnsInOrder
  BY QueueInvImpliesTurns DEF IInv
<1>. QED
  BY <1>1, Invariance, PTL

(* No operation runs against an owner in force that its request does not   *)
(* tolerate (readLiveOwnerForExecution, claimOwner, adoptOwner).           *)
THEOREM OperationsAreAdmitted == Spec => []ExecutionAdmitted
<1>1. IInv => ExecutionAdmitted
  BY DEF IInv, OwnerInv
<1>. QED
  BY <1>1, Invariance, PTL

(* A process that controls the Probe goes on controlling it until it       *)
(* releases it or dies (claimOwner, adoptOwner, releaseOwner).             *)
THEOREM ControlIsKept == Spec => []ControllerKeepsOwner
<1>1. IInv => ControllerKeepsOwner
  BY DEF IInv, OwnerInv
<1>. QED
  BY <1>1, Invariance, PTL

(* An owner in force is removed or replaced by its controller only, or     *)
(* adopted with its resource (readLiveOwnerLocked, adoptOwner).            *)
THEOREM OwnersFailClosed == Spec => OwnerFailClosed
<1>1. IInv /\ [Next]_vars =>
        [owner # None /\ InForce(owner) /\ owner' # owner =>
           \/ Mine(owner.pid) /\ alive[owner.pid]
           \/ SameResource(owner, owner')]_vars
  BY StepFailClosed DEF IInv
<1>. QED
  BY <1>1, Invariance, PTL DEF Spec, OwnerFailClosed
=============================================================================
