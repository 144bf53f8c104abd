------------------------- MODULE NetworkLeaseProofs -------------------------
(***************************************************************************)
(* Proofs about the activator's network leases, for any number of slots,   *)
(* tokens, gardens and concurrent requests.                                *)
(*                                                                         *)
(* A request changes only the lease whose execution lock it holds, and no  *)
(* other request at work has that lease (WorkersApart).  A step of such a  *)
(* request therefore has to be examined only at its own lease and slot     *)
(* (OwnStep); a step that changes nothing but a request only at that       *)
(* request (RequestOnly).                                                  *)
(***************************************************************************)
EXTENDS NetworkLease, TLAPS

\* The default records are well typed.
LEMMA LeaseDefaults == AnyLease \in Lease /\ IdleReq \in ReqRec
<1>1. /\ (CHOOSE e \in Execution : TRUE) \in Execution
      /\ (CHOOSE o \in Owner : TRUE) \in Owner
      /\ (CHOOSE i \in Instance : TRUE) \in Instance
  BY LeaseAssumption
<1>2. 0 \in Slot
  BY LeaseAssumption DEF Slot
<1> QED
  BY <1>1, <1>2 DEF AnyLease, Lease, IdleReq, ReqRec, Pc, Held

\* A save leaves the journal well typed and touches one lease.
LEMMA SaveType ==
  ASSUME LeaseTypeOK, NEW t \in Token, NEW ph \in Held, NEW ok \in BOOLEAN, Save(t, ph, ok)
  PROVE  /\ phase' \in [Token -> Phase]
         /\ \A u \in Token \ {t} : phase'[u] = phase[u]
         /\ phase'[t] \in {phase[t], ph}
         /\ ok => phase'[t] = ph
  BY DEF LeaseTypeOK, Save, Phase

-----------------------------------------------------------------------------
(* How the steps of a request change it *)

\* Request r goes to step p; only its memory and its flag may change as well.
Moves(r, p, m, k) ==
  /\ req' \in [Request -> ReqRec]
  /\ \A q \in Request \ {r} : req'[q] = req[q]
  /\ req'[r].pc = p /\ req'[r].mem = m /\ req'[r].ok = k
  /\ req'[r].op = req[r].op /\ req'[r].instance = req[r].instance
  /\ req'[r].owner = req[r].owner /\ req'[r].execution = req[r].execution
  /\ req'[r].token = req[r].token /\ req'[r].locked = req[r].locked
  /\ req'[r].todo = req[r].todo

\* Request r returns, or cleanup goes on to its next lease.
Ends(r) ==
  /\ req' \in [Request -> ReqRec]
  /\ \A q \in Request \ {r} : req'[q] = req[q]
  /\ req'[r].pc \in {"idle", "next"} /\ ~req'[r].locked
  /\ req'[r].pc = "next" => req'[r].op = "cleanup"
  /\ \A t \in req'[r].todo : t \in req[r].todo /\ req'[r].instance = req[r].instance

\* The forms that such a step takes in the specification.
LEMMA StepMoves ==
  ASSUME LeaseTypeOK, NEW r \in Request, NEW p \in Pc, NEW m \in Held, NEW k \in BOOLEAN
  PROVE  /\ Go(r, p) => Moves(r, p, req[r].mem, req[r].ok)
         /\ req' = [req EXCEPT ![r].pc = p, ![r].mem = m] => Moves(r, p, m, req[r].ok)
         /\ req' = [req EXCEPT ![r].pc = p, ![r].ok = k] => Moves(r, p, req[r].mem, k)
         /\ req' = [req EXCEPT ![r].pc = p, ![r].mem = m, ![r].ok = k] => Moves(r, p, m, k)
<1>1. req \in [Request -> ReqRec] /\ req[r] \in ReqRec
  BY DEF LeaseTypeOK
<1>2. req[r].mem \in Held /\ req[r].ok \in BOOLEAN
  BY <1>1 DEF ReqRec
<1>3. ASSUME NEW m1 \in Held, NEW k1 \in BOOLEAN,
             req' = [req EXCEPT ![r] = [req[r] EXCEPT !.pc = p, !.mem = m1, !.ok = k1]]
      PROVE  Moves(r, p, m1, k1)
  <2> DEFINE y == [req[r] EXCEPT !.pc = p, !.mem = m1, !.ok = k1]
  <2>1. /\ y \in ReqRec
        /\ y.pc = p /\ y.mem = m1 /\ y.ok = k1 /\ y.op = req[r].op
        /\ y.instance = req[r].instance /\ y.owner = req[r].owner
        /\ y.execution = req[r].execution
        /\ y.token = req[r].token /\ y.locked = req[r].locked /\ y.todo = req[r].todo
    BY <1>1 DEF ReqRec
  <2>2. req' = [req EXCEPT ![r] = y]
    BY <1>3
  <2> HIDE DEF y
  <2>3. req'[r] = y /\ req' \in [Request -> ReqRec] /\ \A q \in Request \ {r} : req'[q] = req[q]
    BY <1>1, <2>1, <2>2
  <2> QED
    BY <2>1, <2>3 DEF Moves
<1>4. [req[r] EXCEPT !.pc = p] = [req[r] EXCEPT !.pc = p, !.mem = req[r].mem, !.ok = req[r].ok]
  BY <1>1 DEF ReqRec
<1>5. [req[r] EXCEPT !.pc = p, !.mem = m] = [req[r] EXCEPT !.pc = p, !.mem = m, !.ok = req[r].ok]
  BY <1>1 DEF ReqRec
<1>6. [req[r] EXCEPT !.pc = p, !.ok = k] = [req[r] EXCEPT !.pc = p, !.mem = req[r].mem, !.ok = k]
  BY <1>1 DEF ReqRec
<1>7. Go(r, p) => Moves(r, p, req[r].mem, req[r].ok)
  BY <1>1, <1>2, <1>3, <1>4 DEF Go
<1>8. req' = [req EXCEPT ![r].pc = p, ![r].mem = m] => Moves(r, p, m, req[r].ok)
  <2> SUFFICES ASSUME req' = [req EXCEPT ![r].pc = p, ![r].mem = m] PROVE Moves(r, p, m, req[r].ok)
    OBVIOUS
  <2>1. req' = [req EXCEPT ![r] = [req[r] EXCEPT !.pc = p, !.mem = m]]
    BY <1>1
  <2> QED BY <1>2, <1>3, <1>5, <2>1
<1>9. req' = [req EXCEPT ![r].pc = p, ![r].ok = k] => Moves(r, p, req[r].mem, k)
  <2> SUFFICES ASSUME req' = [req EXCEPT ![r].pc = p, ![r].ok = k] PROVE Moves(r, p, req[r].mem, k)
    OBVIOUS
  <2>1. req' = [req EXCEPT ![r] = [req[r] EXCEPT !.pc = p, !.ok = k]]
    BY <1>1
  <2> QED BY <1>2, <1>3, <1>6, <2>1
<1>10. req' = [req EXCEPT ![r].pc = p, ![r].mem = m, ![r].ok = k] => Moves(r, p, m, k)
  <2> SUFFICES ASSUME req' = [req EXCEPT ![r].pc = p, ![r].mem = m, ![r].ok = k]
               PROVE  Moves(r, p, m, k)
    OBVIOUS
  <2>1. req' = [req EXCEPT ![r] = [req[r] EXCEPT !.pc = p, !.mem = m, !.ok = k]]
    BY <1>1
  <2> QED BY <1>3, <2>1
<1> QED BY <1>7, <1>8, <1>9, <1>10

\* Done ends a request, or its work on one lease.
LEMMA DoneEnds ==
  ASSUME LeaseTypeOK, NEW r \in Request, Done(r)
  PROVE  Ends(r)
<1>1. req \in [Request -> ReqRec] /\ req[r] \in ReqRec
  BY DEF LeaseTypeOK
<1> DEFINE y == IF req[r].op = "cleanup"
                THEN [req[r] EXCEPT !.pc = "next", !.locked = FALSE]
                ELSE IdleReq
<1>2. /\ y \in ReqRec /\ y.pc \in {"idle", "next"} /\ ~y.locked
      /\ y.pc = "next" => y.op = "cleanup"
      /\ \A t \in y.todo : t \in req[r].todo /\ y.instance = req[r].instance
  <2>1. CASE req[r].op = "cleanup"
    BY <1>1, <2>1 DEF ReqRec, Pc
  <2>2. CASE req[r].op # "cleanup"
    <3>1. IdleReq.pc = "idle" /\ ~IdleReq.locked /\ IdleReq.todo = {}
      BY DEF IdleReq
    <3> QED BY <2>2, <3>1, LeaseDefaults
  <2> QED BY <2>1, <2>2
<1>3. req' = [req EXCEPT ![r] = y]
  BY DEF Done
<1> HIDE DEF y
<1>4. req'[r] = y /\ req' \in [Request -> ReqRec] /\ \A q \in Request \ {r} : req'[q] = req[q]
  BY <1>1, <1>2, <1>3
<1> QED
  BY <1>2, <1>4 DEF Ends
-----------------------------------------------------------------------------
(* A step of a request at work, seen from its own lease *)

\* Two requests at work have different leases, in different slots: each holds
\* the lock of its lease's execution.
LEMMA WorkersApart ==
  ASSUME LeaseInv, NEW q \in Request, NEW r \in Request, q # r,
         req[q].pc \in Working, req[r].pc \in Working
  PROVE  /\ req[q].token # req[r].token
         /\ SlotOf(q) # SlotOf(r)
<1>1. /\ req[q].locked /\ req[r].locked
      /\ Bucket[req[q].execution] = Bucket[req[r].execution] => req[q].instance # req[r].instance
  BY DEF LeaseInv, Locks
<1>2. /\ req[q].token \in Token /\ Knows(q, req[q].token) /\ InJournal(req[q].token)
      /\ req[r].token \in Token /\ Knows(r, req[r].token) /\ InJournal(req[r].token)
  BY DEF LeaseInv, RequestsInv, ClaimsAt, JournalledAt
<1>3. req[q].token # req[r].token
  BY <1>1, <1>2 DEF Knows
<1> QED
  BY <1>2, <1>3 DEF LeaseInv, LeasesExclusive, SlotOf

\* Locks stay with their holders while these work, and are given up at the end.
LEMMA LocksKept ==
  ASSUME LeaseInv, NEW r \in Request,
         Ends(r) \/ \E p \in Working, m \in Held, k \in BOOLEAN :
                      Moves(r, p, m, k) /\ req[r].locked
  PROVE  Locks'
<1>1. CASE Ends(r)
  BY <1>1 DEF LeaseInv, Locks, Ends, Working, SettingUp, Revoking, Deleting
<1>2. ASSUME NEW p \in Working, NEW m \in Held, NEW k \in BOOLEAN,
             Moves(r, p, m, k), req[r].locked
      PROVE  Locks'
  <2>1. \A q \in Request : /\ req'[q].locked <=> req[q].locked
                           /\ req'[q].instance = req[q].instance
                           /\ req'[q].execution = req[q].execution
    BY <1>2 DEF Moves, LeaseInv, LeaseTypeOK, ReqRec
  <2>2. \A q \in Request : q # r => req'[q].pc = req[q].pc
    BY <1>2 DEF Moves
  <2> QED BY <1>2, <2>1, <2>2 DEF LeaseInv, Locks
<1> QED BY <1>1, <1>2

\* The step changes nothing but request r, its lease t and its slot s.
Own(r, t, s) ==
  /\ lease' = lease /\ alive' = alive
  /\ \A u \in Token \ {t} : /\ phase'[u] = phase[u] /\ guard'[u] = guard[u]
                            /\ u \in ingress' <=> u \in ingress
  /\ \A n \in Slot \ {s} : /\ tap'[n] = tap[n] /\ flows'[n] = flows[n]
                           /\ n \in up' <=> n \in up
  /\ phase'[t] \in Held \cup {"gone"}

\* Such a step preserves the invariant if it does so at r, t and s.
LEMMA OwnStep ==
  ASSUME LeaseInv, LeaseTypeOK', NEW r \in Request, NEW t \in Token, NEW s \in Slot,
         req[r].pc \in Working, t = req[r].token, s = lease[t].slot,
         Own(r, t, s),
         \/ Ends(r)
         \/ /\ JournalledAt(r)' /\ HostReadyAt(r)'
            /\ \E p \in Working, m \in Held, k \in BOOLEAN :
                 Moves(r, p, m, k) /\ (p \in SettingUp => req[r].pc \in SettingUp),
         TapHeldAt(s)', FlowsHeldAt(s)',
         guard'[t] = "open" => phase'[t] \in {"active", "revoked", "quarantined"}
  PROVE  LeaseInv'
<1>1. \A q \in Request \ {r} : req'[q] = req[q]
  BY DEF Ends, Moves
<1>2. Locks'
  <2>1. req[r].locked
    BY DEF LeaseInv, Locks
  <2> QED BY <2>1, LocksKept
<1>3. InJournal(t)
  BY DEF LeaseInv, RequestsInv, JournalledAt
<1>4. \A u \in Token : phase[u] # "unused" => phase'[u] # "unused"
  BY DEF Own, Held
<1>5. LeasesExclusive'
  BY <1>3 DEF LeaseInv, LeasesExclusive, Own, InJournal, InstanceOfLease
<1>6. OpenOnlyWhileHeld'
  BY DEF LeaseInv, OpenOnlyWhileHeld, Own
<1>7. ASSUME NEW q \in Request, q # r PROVE ClaimsAt(q)' /\ JournalledAt(q)' /\ HostReadyAt(q)'
  <2>1. req'[q] = req[q]
    BY <1>1, <1>7
  <2>2. ClaimsAt(q) /\ JournalledAt(q) /\ HostReadyAt(q)
    BY DEF LeaseInv, RequestsInv
  <2>3. ClaimsAt(q)'
    BY <1>4, <2>1, <2>2 DEF ClaimsAt, Knows, InstanceOfLease, Own, LeaseInv, LeaseTypeOK, ReqRec
  <2>4. CASE req[q].pc \notin Working
    BY <2>1, <2>3, <2>4 DEF JournalledAt, HostReadyAt, Working, SettingUp, Revoking, Deleting
  <2>5. CASE req[q].pc \in Working
    <3>1. req[q].token # t /\ lease[req[q].token].slot # s /\ req[q].token \in Token
      BY <1>7, <2>2, <2>5, WorkersApart DEF SlotOf, ClaimsAt
    <3>2. lease[req[q].token].slot \in Slot
      BY <3>1 DEF LeaseInv, LeaseTypeOK, Lease
    <3>3. JournalledAt(q)'
      BY <2>1, <2>2, <3>1 DEF JournalledAt, Own, InJournal
    <3>4. HostReadyAt(q)'
      BY <2>1, <2>2, <3>1, <3>2 DEF HostReadyAt, Own
    <3> QED BY <2>3, <3>3, <3>4
  <2> QED BY <2>3, <2>4, <2>5
<1>8. ClaimsAt(r)' /\ JournalledAt(r)' /\ HostReadyAt(r)'
  <2>1. ClaimsAt(r) /\ req[r] \in ReqRec
    BY DEF LeaseInv, RequestsInv, LeaseTypeOK
  <2>2. CASE Ends(r)
    <3>1. JournalledAt(r)' /\ HostReadyAt(r)'
      BY <2>2 DEF Ends, JournalledAt, HostReadyAt, Working, SettingUp, Revoking, Deleting
    <3>2. ClaimsAt(r)'
      BY <1>4, <2>1, <2>2 DEF Ends, ClaimsAt, Working, SettingUp, Revoking, Deleting, Own,
                              InstanceOfLease, ReqRec
    <3> QED BY <3>1, <3>2
  <2>3. ASSUME NEW p \in Working, NEW m \in Held, NEW k \in BOOLEAN,
               Moves(r, p, m, k), p \in SettingUp => req[r].pc \in SettingUp
        PROVE  ClaimsAt(r)'
    BY <1>4, <2>1, <2>3
    DEF ClaimsAt, Moves, Knows, Own, InstanceOfLease, ReqRec, Working, SettingUp, Revoking, Deleting
  <2> QED BY <2>2, <2>3
<1>9. ASSUME NEW n \in Slot, n # s PROVE TapHeldAt(n)' /\ FlowsHeldAt(n)'
  <2>1. TapHeldAt(n) /\ FlowsHeldAt(n)
    BY DEF LeaseInv, SlotsInv
  <2>2. tap'[n] = tap[n] /\ flows'[n] = flows[n] /\ (n \in up' <=> n \in up)
    BY <1>9 DEF Own
  <2>3. FlowsHeldAt(n)'
    BY <1>9, <2>1, <2>2 DEF FlowsHeldAt, Installed, InJournal, Own, LeaseInv, LeaseTypeOK
  <2>4. TapHeldAt(n)'
    <3>1. CASE tap[n] = NoTap
      BY <2>1, <2>2, <3>1, LeaseAssumption DEF TapHeldAt, NoTap, LeaseInv, LeaseTypeOK
    <3>2. CASE tap[n] # NoTap
      <4>1. PICK u \in Token : Installed(u) /\ lease[u].slot = n /\ guard[u] # "none"
                               /\ tap[n] \in {u, Unmarked}
        BY <2>1, <3>2 DEF TapHeldAt
      <4>2. u # t
        BY <1>9, <4>1
      <4>3. Installed(u)' /\ lease'[u].slot = n /\ guard'[u] # "none"
        BY <4>1, <4>2 DEF Installed, InJournal, Own
      <4>4. n \in up => tap[n] = u /\ u \in ingress
        BY <2>1, <4>1, LeaseAssumption DEF TapHeldAt, Unmarked, LeaseInv, LeaseTypeOK
      <4> QED BY <2>2, <4>1, <4>2, <4>3, <4>4 DEF TapHeldAt, Own
    <3> QED BY <3>1, <3>2
  <2> QED BY <2>3, <2>4
<1> QED
  BY <1>2, <1>5, <1>6, <1>7, <1>8, <1>9 DEF LeaseInv, RequestsInv, SlotsInv
\* What the invariant says of a request at work, its lease and its slot.
LEMMA AtWork ==
  ASSUME LeaseInv, NEW r \in Request, req[r].pc \in Working
  PROVE  /\ LeaseTypeOK /\ req[r] \in ReqRec /\ req[r].mem \in Held /\ req[r].ok \in BOOLEAN
         /\ ClaimsAt(r) /\ JournalledAt(r) /\ HostReadyAt(r)
         /\ \E t \in Token, s \in Slot :
              /\ t = req[r].token /\ s = lease[t].slot /\ InJournal(t)
              /\ TapHeldAt(s) /\ FlowsHeldAt(s)
<1>1. req[r].token \in Token
  BY DEF LeaseInv, RequestsInv, ClaimsAt
<1>2. lease[req[r].token].slot \in Slot
  BY <1>1 DEF LeaseInv, LeaseTypeOK, Lease
<1>3. req[r] \in ReqRec /\ req[r].mem \in Held /\ req[r].ok \in BOOLEAN
  BY DEF LeaseInv, LeaseTypeOK, ReqRec
<1>4. InJournal(req[r].token)
  BY DEF LeaseInv, RequestsInv, JournalledAt
<1> QED BY <1>1, <1>2, <1>3, <1>4 DEF LeaseInv, RequestsInv, SlotsInv

\* A step that changes one request and nothing the invariant says of the host
\* preserves it if it does so at that request.
LEMMA RequestOnly ==
  ASSUME LeaseInv, LeaseTypeOK', Locks', NEW r \in Request,
         UNCHANGED <<phase, lease, tap, up, guard, ingress, flows, alive>>,
         \A q \in Request \ {r} : req'[q] = req[q],
         ClaimsAt(r)', JournalledAt(r)', HostReadyAt(r)'
  PROVE  LeaseInv'
<1>1. ASSUME NEW q \in Request, q # r PROVE ClaimsAt(q)' /\ JournalledAt(q)' /\ HostReadyAt(q)'
  <2>1. req'[q] = req[q]
    BY <1>1
  <2>2. ClaimsAt(q) /\ JournalledAt(q) /\ HostReadyAt(q)
    BY DEF LeaseInv, RequestsInv
  <2>3. ClaimsAt(q)'
    BY <2>1, <2>2 DEF ClaimsAt, Knows, InstanceOfLease
  <2>4. JournalledAt(q)'
    BY <2>1, <2>2 DEF JournalledAt, InJournal
  <2>5. HostReadyAt(q)'
    BY <2>1, <2>2 DEF HostReadyAt
  <2> QED BY <2>3, <2>4, <2>5
<1>2. LeasesExclusive' /\ OpenOnlyWhileHeld'
  BY DEF LeaseInv, LeasesExclusive, OpenOnlyWhileHeld, InJournal, InstanceOfLease
<1>3. ASSUME NEW n \in Slot PROVE TapHeldAt(n)' /\ FlowsHeldAt(n)'
  BY DEF LeaseInv, SlotsInv, TapHeldAt, FlowsHeldAt, Installed, InJournal
<1> QED BY <1>1, <1>2, <1>3 DEF LeaseInv, RequestsInv, SlotsInv

\* A request may return at any point.
LEMMA RequestEnds ==
  ASSUME LeaseInv, NEW r \in Request, Ends(r), UNCHANGED <<phase, lease, host, alive>>
  PROVE  LeaseInv'
<1>1. LeaseTypeOK'
  BY DEF LeaseInv, LeaseTypeOK, Ends, host
<1>2. Locks'
  BY LocksKept
<1>3. \A q \in Request \ {r} : req'[q] = req[q]
  BY DEF Ends
<1>4. JournalledAt(r)' /\ HostReadyAt(r)'
  BY DEF Ends, JournalledAt, HostReadyAt, Working, SettingUp, Revoking, Deleting
<1>5. ClaimsAt(r)'
  <2>1. ClaimsAt(r)
    BY DEF LeaseInv, RequestsInv
  <2> QED
    BY <2>1 DEF Ends, ClaimsAt, Working, SettingUp, Revoking, Deleting, InstanceOfLease
<1> QED BY <1>1, <1>2, <1>3, <1>4, <1>5, RequestOnly DEF host

\* A request at work that only goes to another step of its work.
LEMMA WorkMoves ==
  ASSUME LeaseInv, NEW r \in Request, req[r].pc \in Working,
         NEW p \in Working, Moves(r, p, req[r].mem, req[r].ok),
         p \in SettingUp => req[r].pc \in SettingUp,
         UNCHANGED <<phase, lease, tap, up, guard, ingress, flows, alive>>,
         attached' \subseteq Slot, doomed' \subseteq Slot,
         JournalledAt(r)', HostReadyAt(r)'
  PROVE  LeaseInv'
<1>1. req[r].mem \in Held /\ req[r].ok \in BOOLEAN
  BY AtWork
<1>2. PICK t \in Token, s \in Slot : /\ t = req[r].token /\ s = lease[t].slot /\ InJournal(t)
                                     /\ TapHeldAt(s) /\ FlowsHeldAt(s)
  BY AtWork
<1>3. LeaseTypeOK'
  BY DEF LeaseInv, LeaseTypeOK, Moves
<1>4. Own(r, t, s)
  BY <1>2 DEF Own, InJournal
<1>5. TapHeldAt(s)' /\ FlowsHeldAt(s)'
  BY <1>2 DEF TapHeldAt, FlowsHeldAt, Installed, InJournal
<1>6. guard'[t] = "open" => phase'[t] \in {"active", "revoked", "quarantined"}
  BY DEF LeaseInv, OpenOnlyWhileHeld
<1> QED BY <1>1, <1>2, <1>3, <1>4, <1>5, <1>6, OwnStep

-----------------------------------------------------------------------------
(* provision *)

\* The error path of setup: revoke, with the phase that is in memory.
LEMMA SetupFails ==
  ASSUME LeaseInv, NEW r \in Request, NEW here \in SettingUp, NEW next,
         Setup(r, here, next, FALSE), UNCHANGED <<phase, lease, host, alive>>
  PROVE  LeaseInv'
<1>1. req[r].pc \in Working /\ req[r].pc \in SettingUp /\ Go(r, "revoke")
  BY DEF Setup, At, Working
<1>2. JournalledAt(r) /\ ClaimsAt(r) /\ req[r].mem \in Held /\ req[r].ok \in BOOLEAN /\ LeaseTypeOK
  BY <1>1, AtWork
<1>3. Moves(r, "revoke", req[r].mem, req[r].ok)
  BY <1>1, <1>2, StepMoves DEF Pc
<1>4. JournalledAt(r)'
  BY <1>1, <1>2, <1>3 DEF JournalledAt, ClaimsAt, Moves, InJournal, Working, SettingUp, Deleting
<1>5. HostReadyAt(r)'
  BY <1>3 DEF HostReadyAt, Moves
<1> QED
  BY <1>1, <1>3, <1>4, <1>5, WorkMoves
  DEF host, Working, Revoking, SettingUp, LeaseInv, LeaseTypeOK

\* No route and no interface is in the way.
LEMMA CheckHostStep ==
  ASSUME LeaseInv, NEW r \in Request, NEW ok \in BOOLEAN, CheckHost(r, ok)
  PROVE  LeaseInv'
<1>1. CASE ~ok
  BY <1>1, SetupFails DEF CheckHost, SettingUp
<1>2. CASE ok
  <2>1. req[r].pc = "check" /\ req[r].pc \in Working /\ Go(r, "allocate")
    BY <1>2 DEF CheckHost, Setup, At, Working, SettingUp
  <2>2. JournalledAt(r) /\ req[r].mem \in Held /\ req[r].ok \in BOOLEAN /\ LeaseTypeOK
    BY <2>1, AtWork
  <2>3. Moves(r, "allocate", req[r].mem, req[r].ok)
    BY <2>1, <2>2, StepMoves DEF Pc
  <2>4. JournalledAt(r)' /\ HostReadyAt(r)'
    BY <2>1, <2>2, <2>3
    DEF JournalledAt, HostReadyAt, Moves, InJournal, CheckHost, Working, SettingUp, Deleting
  <2> QED
    BY <2>1, <2>3, <2>4, WorkMoves
    DEF CheckHost, host, Working, SettingUp, LeaseInv, LeaseTypeOK
<1> QED BY <1>1, <1>2

\* The deny table of an allocated lease.
LEMMA DenyStep ==
  ASSUME LeaseInv, NEW r \in Request, NEW ok \in BOOLEAN, Deny(r, ok)
  PROVE  LeaseInv'
<1>1. CASE ~ok
  BY <1>1, SetupFails DEF Deny, InstallGuard, host, SettingUp
<1>2. CASE ok
  <2>1. req[r].pc = "deny" /\ req[r].pc \in Working /\ Go(r, "purge")
    BY <1>2 DEF Deny, Setup, At, Working, SettingUp
  <2>2. /\ JournalledAt(r) /\ HostReadyAt(r) /\ LeaseTypeOK
        /\ req[r].mem \in Held /\ req[r].ok \in BOOLEAN
    BY <2>1, AtWork
  <2>3. PICK t \in Token, s \in Slot : /\ t = req[r].token /\ s = lease[t].slot /\ InJournal(t)
                                       /\ TapHeldAt(s) /\ FlowsHeldAt(s)
    BY <2>1, AtWork
  <2>4. Moves(r, "purge", req[r].mem, req[r].ok)
    BY <2>1, <2>2, StepMoves DEF Pc
  <2>5. LeaseTypeOK'
    BY <1>2, <2>2, <2>3, <2>4 DEF LeaseTypeOK, Moves, Deny, InstallGuard, GuardOf, SlotOf
  <2>6. Own(r, t, s)
    BY <1>2, <2>2, <2>3 DEF Own, InJournal, LeaseTypeOK, Deny, InstallGuard, GuardOf, SlotOf
  <2>7. JournalledAt(r)'
    BY <2>1, <2>2, <2>3, <2>4
    DEF JournalledAt, Moves, InJournal, Deny, InstallGuard, GuardOf, Working, SettingUp, Deleting
  <2>8. HostReadyAt(r)'
    BY <1>2, <2>1, <2>2, <2>3, <2>4
    DEF HostReadyAt, JournalledAt, Moves, LeaseTypeOK, Deny, InstallGuard, GuardOf
  <2>9. TapHeldAt(s)' /\ FlowsHeldAt(s)'
    BY <1>2, <2>1, <2>2, <2>3, LeaseAssumption
    DEF TapHeldAt, FlowsHeldAt, Installed, InJournal, LeaseTypeOK, Deny, InstallGuard, GuardOf, SlotOf
  <2>10. guard'[t] = "open" => phase'[t] \in {"active", "revoked", "quarantined"}
    BY <1>2, <2>1, <2>2, <2>3
    DEF LeaseInv, OpenOnlyWhileHeld, JournalledAt, LeaseTypeOK, Deny, InstallGuard, GuardOf
  <2> QED
    BY <2>1, <2>2, <2>3, <2>4, <2>5, <2>6, <2>7, <2>8, <2>9, <2>10, OwnStep
    DEF Working, SettingUp
<1> QED BY <1>1, <1>2

\* Connections of earlier leases of the address.
LEMMA PurgeStep ==
  ASSUME LeaseInv, NEW r \in Request, NEW ok \in BOOLEAN, Purge(r, ok)
  PROVE  LeaseInv'
<1>1. CASE ~ok
  BY <1>1, SetupFails DEF Purge, PurgeConnections, host, SettingUp
<1>2. CASE ok
  <2>1. req[r].pc = "purge" /\ req[r].pc \in Working /\ Go(r, "add_tap")
    BY <1>2 DEF Purge, Setup, At, Working, SettingUp
  <2>2. /\ JournalledAt(r) /\ HostReadyAt(r) /\ LeaseTypeOK
        /\ req[r].mem \in Held /\ req[r].ok \in BOOLEAN
    BY <2>1, AtWork
  <2>3. PICK t \in Token, s \in Slot : /\ t = req[r].token /\ s = lease[t].slot /\ InJournal(t)
                                       /\ TapHeldAt(s) /\ FlowsHeldAt(s)
    BY <2>1, AtWork
  <2>4. Moves(r, "add_tap", req[r].mem, req[r].ok)
    BY <2>1, <2>2, StepMoves DEF Pc
  <2>5. LeaseTypeOK'
    BY <1>2, <2>2, <2>3, <2>4 DEF LeaseTypeOK, Moves, Purge, PurgeConnections, SlotOf
  <2>6. Own(r, t, s)
    BY <1>2, <2>2, <2>3 DEF Own, InJournal, LeaseTypeOK, Purge, PurgeConnections, SlotOf
  <2>7. JournalledAt(r)'
    BY <2>1, <2>2, <2>3, <2>4
    DEF JournalledAt, Moves, InJournal, Purge, PurgeConnections, Working, SettingUp, Deleting
  <2>8. HostReadyAt(r)'
    BY <1>2, <2>1, <2>2, <2>3, <2>4
    DEF HostReadyAt, JournalledAt, Moves, LeaseTypeOK, Purge, PurgeConnections
  <2>9. TapHeldAt(s)' /\ FlowsHeldAt(s)'
    BY <1>2, <2>1, <2>2, <2>3, LeaseAssumption
    DEF TapHeldAt, FlowsHeldAt, Installed, InJournal, LeaseTypeOK, Purge, PurgeConnections, SlotOf
  <2>10. guard'[t] = "open" => phase'[t] \in {"active", "revoked", "quarantined"}
    BY <1>2, <2>1, <2>2, <2>3
    DEF LeaseInv, OpenOnlyWhileHeld, JournalledAt, LeaseTypeOK, Purge, PurgeConnections
  <2> QED
    BY <2>1, <2>2, <2>3, <2>4, <2>5, <2>6, <2>7, <2>8, <2>9, <2>10, OwnStep
    DEF Working, SettingUp
<1> QED BY <1>1, <1>2

\* A TAP appears only under the lease's deny table.
LEMMA AddTapStep ==
  ASSUME LeaseInv, NEW r \in Request, NEW ok \in BOOLEAN, AddTap(r, ok)
  PROVE  LeaseInv'
<1>1. CASE ~ok
  BY <1>1, SetupFails DEF AddTap, host, SettingUp
<1>2. CASE ok
  <2>1. req[r].pc = "add_tap" /\ req[r].pc \in Working /\ Go(r, "mark_tap")
    BY <1>2 DEF AddTap, Setup, At, Working, SettingUp
  <2>2. /\ JournalledAt(r) /\ HostReadyAt(r) /\ LeaseTypeOK
        /\ req[r].mem \in Held /\ req[r].ok \in BOOLEAN
    BY <2>1, AtWork
  <2>3. PICK t \in Token, s \in Slot : /\ t = req[r].token /\ s = lease[t].slot /\ InJournal(t)
                                       /\ TapHeldAt(s) /\ FlowsHeldAt(s)
    BY <2>1, AtWork
  <2>4. Moves(r, "mark_tap", req[r].mem, req[r].ok)
    BY <2>1, <2>2, StepMoves DEF Pc
  <2>5. LeaseTypeOK'
    BY <1>2, <2>2, <2>3, <2>4 DEF LeaseTypeOK, Moves, AddTap, SlotOf
  <2>6. Own(r, t, s)
    BY <1>2, <2>2, <2>3 DEF Own, InJournal, LeaseTypeOK, AddTap, SlotOf
  <2>7. JournalledAt(r)'
    BY <2>1, <2>2, <2>3, <2>4
    DEF JournalledAt, Moves, InJournal, AddTap, Working, SettingUp, Deleting
  <2>8. HostReadyAt(r)'
    BY <1>2, <2>1, <2>2, <2>3, <2>4
    DEF HostReadyAt, JournalledAt, Moves, LeaseTypeOK, AddTap
  <2>9. TapHeldAt(s)' /\ FlowsHeldAt(s)'
    <3>1. phase[t] = "allocated" /\ guard[t] # "none"
      BY <2>1, <2>2, <2>3 DEF JournalledAt, HostReadyAt
    <3>2. s \notin up
      BY <1>2, <2>2, <2>3, LeaseAssumption DEF TapHeldAt, AddTap, SlotOf, NoTap, Unmarked, LeaseTypeOK
    <3>3. tap'[s] \in {t, Unmarked}
      BY <1>2, <2>2, <2>3 DEF AddTap, SlotOf, LeaseTypeOK
    <3>4. TapHeldAt(s)'
      BY <2>3, <3>1, <3>2, <3>3 DEF TapHeldAt, Installed, InJournal, AddTap
    <3>5. FlowsHeldAt(s)'
      BY <2>3 DEF FlowsHeldAt, Installed, InJournal, AddTap
    <3> QED BY <3>4, <3>5
  <2>10. guard'[t] = "open" => phase'[t] \in {"active", "revoked", "quarantined"}
    BY <1>2, <2>1, <2>2, <2>3
    DEF LeaseInv, OpenOnlyWhileHeld, JournalledAt, LeaseTypeOK, AddTap
  <2> QED
    BY <2>1, <2>2, <2>3, <2>4, <2>5, <2>6, <2>7, <2>8, <2>9, <2>10, OwnStep
    DEF Working, SettingUp
<1> QED BY <1>1, <1>2

\* The TAP gets its owner's mark.
LEMMA MarkTapStep ==
  ASSUME LeaseInv, NEW r \in Request, NEW ok \in BOOLEAN, MarkTap(r, ok)
  PROVE  LeaseInv'
<1>1. CASE ~ok
  BY <1>1, SetupFails DEF MarkTap, host, SettingUp
<1>2. CASE ok
  <2>1. req[r].pc = "mark_tap" /\ req[r].pc \in Working /\ Go(r, "ingress")
    BY <1>2 DEF MarkTap, Setup, At, Working, SettingUp
  <2>2. /\ JournalledAt(r) /\ HostReadyAt(r) /\ LeaseTypeOK
        /\ req[r].mem \in Held /\ req[r].ok \in BOOLEAN
    BY <2>1, AtWork
  <2>3. PICK t \in Token, s \in Slot : /\ t = req[r].token /\ s = lease[t].slot /\ InJournal(t)
                                       /\ TapHeldAt(s) /\ FlowsHeldAt(s)
    BY <2>1, AtWork
  <2>4. Moves(r, "ingress", req[r].mem, req[r].ok)
    BY <2>1, <2>2, StepMoves DEF Pc
  <2>5. LeaseTypeOK'
    BY <1>2, <2>2, <2>3, <2>4 DEF LeaseTypeOK, Moves, MarkTap, SlotOf
  <2>6. Own(r, t, s)
    BY <1>2, <2>2, <2>3 DEF Own, InJournal, LeaseTypeOK, MarkTap, SlotOf
  <2>7. JournalledAt(r)'
    BY <2>1, <2>2, <2>3, <2>4
    DEF JournalledAt, Moves, InJournal, MarkTap, Working, SettingUp, Deleting
  <2>8. HostReadyAt(r)'
    BY <1>2, <2>1, <2>2, <2>3, <2>4
    DEF HostReadyAt, JournalledAt, Moves, LeaseTypeOK, MarkTap
  <2>9. TapHeldAt(s)' /\ FlowsHeldAt(s)'
    <3>1. phase[t] = "allocated" /\ guard[t] # "none"
      BY <2>1, <2>2, <2>3 DEF JournalledAt, HostReadyAt
    <3>2. s \notin up
      BY <1>2, <2>2, <2>3, LeaseAssumption DEF TapHeldAt, MarkTap, SlotOf, NoTap, Unmarked, LeaseTypeOK
    <3>3. tap'[s] \in {t, Unmarked}
      BY <1>2, <2>2, <2>3 DEF MarkTap, SlotOf, LeaseTypeOK
    <3>4. TapHeldAt(s)'
      BY <2>3, <3>1, <3>2, <3>3 DEF TapHeldAt, Installed, InJournal, MarkTap
    <3>5. FlowsHeldAt(s)'
      BY <2>3 DEF FlowsHeldAt, Installed, InJournal, MarkTap
    <3> QED BY <3>4, <3>5
  <2>10. guard'[t] = "open" => phase'[t] \in {"active", "revoked", "quarantined"}
    BY <1>2, <2>1, <2>2, <2>3
    DEF LeaseInv, OpenOnlyWhileHeld, JournalledAt, LeaseTypeOK, MarkTap
  <2> QED
    BY <2>1, <2>2, <2>3, <2>4, <2>5, <2>6, <2>7, <2>8, <2>9, <2>10, OwnStep
    DEF Working, SettingUp
<1> QED BY <1>1, <1>2

\* The ingress table precedes the activation.
LEMMA InstallIngressStep ==
  ASSUME LeaseInv, NEW r \in Request, NEW ok \in BOOLEAN, InstallIngress(r, ok)
  PROVE  LeaseInv'
<1>1. CASE ~ok
  BY <1>1, SetupFails DEF InstallIngress, host, SettingUp
<1>2. CASE ok
  <2>1. req[r].pc = "ingress" /\ req[r].pc \in Working /\ Go(r, "activate")
    BY <1>2 DEF InstallIngress, Setup, At, Working, SettingUp
  <2>2. /\ JournalledAt(r) /\ HostReadyAt(r) /\ LeaseTypeOK
        /\ req[r].mem \in Held /\ req[r].ok \in BOOLEAN
    BY <2>1, AtWork
  <2>3. PICK t \in Token, s \in Slot : /\ t = req[r].token /\ s = lease[t].slot /\ InJournal(t)
                                       /\ TapHeldAt(s) /\ FlowsHeldAt(s)
    BY <2>1, AtWork
  <2>4. Moves(r, "activate", req[r].mem, req[r].ok)
    BY <2>1, <2>2, StepMoves DEF Pc
  <2>5. LeaseTypeOK'
    BY <1>2, <2>2, <2>3, <2>4 DEF LeaseTypeOK, Moves, InstallIngress, SlotOf
  <2>6. Own(r, t, s)
    BY <1>2, <2>2, <2>3 DEF Own, InJournal, LeaseTypeOK, InstallIngress, SlotOf
  <2>7. JournalledAt(r)'
    BY <2>1, <2>2, <2>3, <2>4
    DEF JournalledAt, Moves, InJournal, InstallIngress, Working, SettingUp, Deleting
  <2>8. HostReadyAt(r)'
    BY <1>2, <2>1, <2>2, <2>3, <2>4
    DEF HostReadyAt, JournalledAt, Moves, LeaseTypeOK, InstallIngress
  <2>9. TapHeldAt(s)' /\ FlowsHeldAt(s)'
    BY <1>2, <2>1, <2>2, <2>3, LeaseAssumption
    DEF TapHeldAt, FlowsHeldAt, Installed, InJournal, LeaseTypeOK, InstallIngress, SlotOf
  <2>10. guard'[t] = "open" => phase'[t] \in {"active", "revoked", "quarantined"}
    BY <1>2, <2>1, <2>2, <2>3
    DEF LeaseInv, OpenOnlyWhileHeld, JournalledAt, LeaseTypeOK, InstallIngress
  <2> QED
    BY <2>1, <2>2, <2>3, <2>4, <2>5, <2>6, <2>7, <2>8, <2>9, <2>10, OwnStep
    DEF Working, SettingUp
<1> QED BY <1>1, <1>2

\* The accept rules, for a lease that the journal calls active.
LEMMA OpenGuardStep ==
  ASSUME LeaseInv, NEW r \in Request, NEW ok \in BOOLEAN, OpenGuard(r, ok)
  PROVE  LeaseInv'
<1>1. CASE ~ok
  BY <1>1, SetupFails DEF OpenGuard, InstallGuard, host, SettingUp
<1>2. CASE ok
  <2>1. req[r].pc = "open" /\ req[r].pc \in Working /\ Go(r, "set_up")
    BY <1>2 DEF OpenGuard, Setup, At, Working, SettingUp
  <2>2. /\ JournalledAt(r) /\ HostReadyAt(r) /\ LeaseTypeOK
        /\ req[r].mem \in Held /\ req[r].ok \in BOOLEAN
    BY <2>1, AtWork
  <2>3. PICK t \in Token, s \in Slot : /\ t = req[r].token /\ s = lease[t].slot /\ InJournal(t)
                                       /\ TapHeldAt(s) /\ FlowsHeldAt(s)
    BY <2>1, AtWork
  <2>4. Moves(r, "set_up", req[r].mem, req[r].ok)
    BY <2>1, <2>2, StepMoves DEF Pc
  <2>5. LeaseTypeOK'
    BY <1>2, <2>2, <2>3, <2>4 DEF LeaseTypeOK, Moves, OpenGuard, InstallGuard, GuardOf, SlotOf
  <2>6. Own(r, t, s)
    BY <1>2, <2>2, <2>3 DEF Own, InJournal, LeaseTypeOK, OpenGuard, InstallGuard, GuardOf, SlotOf
  <2>7. JournalledAt(r)'
    BY <2>1, <2>2, <2>3, <2>4
    DEF JournalledAt, Moves, InJournal, OpenGuard, InstallGuard, GuardOf, Working, SettingUp, Deleting
  <2>8. HostReadyAt(r)'
    BY <1>2, <2>1, <2>2, <2>3, <2>4
    DEF HostReadyAt, JournalledAt, Moves, LeaseTypeOK, OpenGuard, InstallGuard, GuardOf
  <2>9. TapHeldAt(s)' /\ FlowsHeldAt(s)'
    BY <1>2, <2>1, <2>2, <2>3, LeaseAssumption
    DEF TapHeldAt, FlowsHeldAt, Installed, InJournal, LeaseTypeOK, OpenGuard, InstallGuard, GuardOf, SlotOf
  <2>10. guard'[t] = "open" => phase'[t] \in {"active", "revoked", "quarantined"}
    BY <1>2, <2>1, <2>2, <2>3
    DEF LeaseInv, OpenOnlyWhileHeld, JournalledAt, LeaseTypeOK, OpenGuard, InstallGuard, GuardOf
  <2> QED
    BY <2>1, <2>2, <2>3, <2>4, <2>5, <2>6, <2>7, <2>8, <2>9, <2>10, OwnStep
    DEF Working, SettingUp
<1> QED BY <1>1, <1>2

\* The phases that provision saves, each before the change on the host that it
\* announces.
LEMMA SavePhaseStep ==
  ASSUME LeaseInv, NEW r \in Request, NEW ok \in BOOLEAN,
         SaveAllocated(r, ok) \/ SaveActive(r, ok)
  PROVE  LeaseInv'
<1>1. PICK here \in SettingUp, next \in SettingUp, ph \in {"allocated", "active"} :
        /\ SavePhase(r, here, next, ph, ok)
        /\ \/ here = "allocate" /\ next = "deny" /\ ph = "allocated"
           \/ here = "activate" /\ next = "open" /\ ph = "active"
  BY DEF SaveAllocated, SaveActive, SettingUp
<1>2. req[r].pc = here /\ req[r].pc \in Working
  BY <1>1 DEF SavePhase, At, Working
<1>3. /\ JournalledAt(r) /\ HostReadyAt(r) /\ ClaimsAt(r) /\ LeaseTypeOK
      /\ req[r].mem \in Held /\ req[r].ok \in BOOLEAN
  BY <1>2, AtWork
<1>4. PICK t \in Token, s \in Slot : /\ t = req[r].token /\ s = lease[t].slot /\ InJournal(t)
                                     /\ TapHeldAt(s) /\ FlowsHeldAt(s)
  BY <1>2, AtWork
<1>5. PICK p \in Working : /\ p = IF ok THEN next ELSE "revoke"
                           /\ Moves(r, p, ph, req[r].ok)
  <2>1. (IF ok THEN next ELSE "revoke") \in Working /\ (IF ok THEN next ELSE "revoke") \in Pc
    BY DEF Working, SettingUp, Revoking, Pc
  <2>2. ph \in Held
    BY DEF Held
  <2>3. req' = [req EXCEPT ![r].pc = IF ok THEN next ELSE "revoke", ![r].mem = ph]
    BY <1>1 DEF SavePhase
  <2> QED BY <1>3, <2>1, <2>2, <2>3, StepMoves
<1>6. /\ phase' \in [Token -> Phase] /\ \A u \in Token \ {t} : phase'[u] = phase[u]
      /\ phase'[t] \in {phase[t], ph} /\ (ok => phase'[t] = ph)
  BY <1>1, <1>3, <1>4, SaveType DEF SavePhase, Held
<1>7. LeaseTypeOK'
  BY <1>1, <1>3, <1>5, <1>6 DEF LeaseTypeOK, SavePhase, host, Moves
<1>8. Own(r, t, s)
  BY <1>1, <1>4, <1>6 DEF Own, SavePhase, host, InJournal, Held
<1>9. JournalledAt(r)'
  BY <1>1, <1>2, <1>3, <1>4, <1>5, <1>6
  DEF JournalledAt, ClaimsAt, Moves, InJournal, Held, Working, SettingUp, Revoking, Deleting
<1>10. HostReadyAt(r)'
  BY <1>1, <1>2, <1>3, <1>5 DEF HostReadyAt, Moves, SavePhase, host
<1>11. TapHeldAt(s)' /\ FlowsHeldAt(s)'
  <2>1. \A u \in Token : Installed(u) => Installed(u)'
    BY <1>4, <1>6 DEF Installed, InJournal, Held
  <2>2. TapHeldAt(s)'
    BY <1>1, <1>4, <2>1 DEF TapHeldAt, SavePhase, host
  <2>3. FlowsHeldAt(s)'
    BY <1>1, <1>3, <1>4, <2>1 DEF FlowsHeldAt, SavePhase, host, LeaseTypeOK
  <2> QED BY <2>2, <2>3
<1>12. guard'[t] = "open" => phase'[t] \in {"active", "revoked", "quarantined"}
  BY <1>1, <1>2, <1>3, <1>4, <1>6 DEF LeaseInv, OpenOnlyWhileHeld, JournalledAt, SavePhase, host
<1> QED
  BY <1>1, <1>2, <1>3, <1>4, <1>5, <1>7, <1>8, <1>9, <1>10, <1>11, <1>12, OwnStep
  DEF Held, SettingUp

\* The TAP goes up under its tables, and provision returns.
LEMMA SetUpStep ==
  ASSUME LeaseInv, NEW r \in Request, NEW ok \in BOOLEAN, SetUp(r, ok)
  PROVE  LeaseInv'
<1>1. CASE ~ok
  BY <1>1, SetupFails DEF SetUp, Setup, host, SettingUp
<1>2. CASE ok
  <2>1. req[r].pc = "set_up" /\ req[r].pc \in Working /\ Done(r)
    BY <1>2 DEF SetUp, At, Working, SettingUp
  <2>2. JournalledAt(r) /\ HostReadyAt(r) /\ LeaseTypeOK
    BY <2>1, AtWork
  <2>3. PICK t \in Token, s \in Slot : /\ t = req[r].token /\ s = lease[t].slot /\ InJournal(t)
                                       /\ TapHeldAt(s) /\ FlowsHeldAt(s)
    BY <2>1, AtWork
  <2>4. Ends(r)
    BY <2>1, <2>2, DoneEnds
  <2>5. LeaseTypeOK'
    BY <1>2, <2>2, <2>3, <2>4 DEF LeaseTypeOK, Ends, SetUp, SlotOf
  <2>6. Own(r, t, s)
    BY <1>2, <2>2, <2>3 DEF Own, InJournal, LeaseTypeOK, SetUp, SlotOf
  <2>7. TapHeldAt(s)' /\ FlowsHeldAt(s)'
    BY <1>2, <2>1, <2>2, <2>3
    DEF TapHeldAt, FlowsHeldAt, Installed, InJournal, HostReadyAt, SetUp, SlotOf
  <2>8. guard'[t] = "open" => phase'[t] \in {"active", "revoked", "quarantined"}
    BY <2>3 DEF LeaseInv, OpenOnlyWhileHeld, SetUp
  <2> QED BY <2>1, <2>3, <2>4, <2>5, <2>6, <2>7, <2>8, OwnStep
<1> QED BY <1>1, <1>2

-----------------------------------------------------------------------------
(* revoke and release *)

\* A reserved lease has nothing on the host.
LEMMA RevokeReservedStep ==
  ASSUME LeaseInv, NEW r \in Request, RevokeReserved(r)
  PROVE  LeaseInv'
<1>1. req[r].pc = "revoke" /\ req[r].pc \in Working /\ req[r].mem = "reserved"
  BY DEF RevokeReserved, At, Working, Revoking
<1>2. JournalledAt(r) /\ LeaseTypeOK /\ req[r].mem \in Held /\ req[r].ok \in BOOLEAN
  BY <1>1, AtWork
<1>3. CASE Done(r)
  BY <1>2, <1>3, DoneEnds, RequestEnds DEF RevokeReserved
<1>4. CASE Go(r, "remove")
  <2>1. Moves(r, "remove", req[r].mem, req[r].ok)
    BY <1>2, <1>4, StepMoves DEF Pc
  <2>2. PICK t \in Token, s \in Slot : /\ t = req[r].token /\ s = lease[t].slot /\ InJournal(t)
                                       /\ TapHeldAt(s) /\ FlowsHeldAt(s)
    BY <1>1, AtWork
  <2>3. phase[t] = "reserved"
    BY <1>1, <1>2, <2>2 DEF JournalledAt
  <2>4. JournalledAt(r)'
    BY <2>1, <2>2, <2>3
    DEF JournalledAt, Moves, InJournal, RevokeReserved, Working, SettingUp, Deleting
  <2>5. tap[s] = NoTap
    <3> SUFFICES ASSUME tap[s] # NoTap PROVE FALSE
      OBVIOUS
    <3>1. PICK u \in Token : Installed(u) /\ lease[u].slot = s
      BY <2>2 DEF TapHeldAt
    <3> QED BY <2>2, <2>3, <3>1 DEF LeaseInv, LeasesExclusive, Installed
  <2>6. t \notin flows[s]
    BY <2>2, <2>3 DEF FlowsHeldAt, Installed
  <2>7. guard[t] # "open"
    BY <2>3 DEF LeaseInv, OpenOnlyWhileHeld
  <2>8. HostReadyAt(r)'
    BY <2>1, <2>2, <2>5, <2>6, <2>7 DEF HostReadyAt, Moves, RevokeReserved, host
  <2> QED
    BY <1>1, <2>1, <2>4, <2>8, WorkMoves
    DEF RevokeReserved, host, Working, SettingUp, LeaseInv, LeaseTypeOK
<1> QED BY <1>3, <1>4 DEF RevokeReserved

\* revoke records itself first, and goes on if that fails.
LEMMA RevokeSaveStep ==
  ASSUME LeaseInv, NEW r \in Request, NEW ok \in BOOLEAN, RevokeSave(r, ok)
  PROVE  LeaseInv'
<1>1. req[r].pc = "revoke" /\ req[r].pc \in Working
  BY DEF RevokeSave, At, Working, Revoking
<1>2. LeaseTypeOK
  BY <1>1, AtWork
<1>3. PICK t \in Token, s \in Slot : /\ t = req[r].token /\ s = lease[t].slot /\ InJournal(t)
                                     /\ TapHeldAt(s) /\ FlowsHeldAt(s)
  BY <1>1, AtWork
<1>4. Moves(r, "down", "revoked", ok)
  BY <1>2, StepMoves DEF RevokeSave, Pc, Held
<1>5. /\ phase' \in [Token -> Phase] /\ \A u \in Token \ {t} : phase'[u] = phase[u]
      /\ phase'[t] \in {phase[t], "revoked"} /\ (ok => phase'[t] = "revoked")
  BY <1>2, <1>3, SaveType DEF RevokeSave, Held
<1>6. LeaseTypeOK'
  BY <1>2, <1>4, <1>5 DEF LeaseTypeOK, RevokeSave, host, Moves
<1>7. Own(r, t, s)
  BY <1>3, <1>5 DEF Own, RevokeSave, host, InJournal, Held
<1>8. JournalledAt(r)' /\ HostReadyAt(r)'
  BY <1>3, <1>4, <1>5
  DEF JournalledAt, HostReadyAt, Moves, InJournal, Held, Working, SettingUp, Deleting
<1>9. TapHeldAt(s)' /\ FlowsHeldAt(s)'
  <2>1. \A u \in Token : Installed(u) => Installed(u)'
    BY <1>3, <1>5 DEF Installed, InJournal, Held
  <2>2. TapHeldAt(s)'
    BY <1>3, <2>1 DEF TapHeldAt, RevokeSave, host
  <2>3. FlowsHeldAt(s)'
    BY <1>2, <1>3, <2>1 DEF FlowsHeldAt, RevokeSave, host, LeaseTypeOK
  <2> QED BY <2>2, <2>3
<1>10. guard'[t] = "open" => phase'[t] \in {"active", "revoked", "quarantined"}
  BY <1>3, <1>5 DEF LeaseInv, OpenOnlyWhileHeld, RevokeSave, host
<1> QED
  BY <1>1, <1>3, <1>4, <1>6, <1>7, <1>8, <1>9, <1>10, OwnStep
  DEF Held, Working, Revoking, SettingUp

\* A TAP that is down needs no ingress table.
LEMMA RevokeDownStep ==
  ASSUME LeaseInv, NEW r \in Request, NEW ok \in BOOLEAN, RevokeDown(r, ok)
  PROVE  LeaseInv'
<1>1. req[r].pc = "down" /\ req[r].pc \in Working
  BY DEF RevokeDown, At, Working, Revoking
<1>2. JournalledAt(r) /\ LeaseTypeOK /\ req[r].ok \in BOOLEAN
  BY <1>1, AtWork
<1>3. PICK t \in Token, s \in Slot : /\ t = req[r].token /\ s = lease[t].slot /\ InJournal(t)
                                     /\ TapHeldAt(s) /\ FlowsHeldAt(s)
  BY <1>1, AtWork
<1>4. PICK k \in BOOLEAN : Moves(r, "close", req[r].mem, k) /\ (k => req[r].ok)
  <2>1. (req[r].ok /\ ok) \in BOOLEAN
    OBVIOUS
  <2>2. req' = [req EXCEPT ![r].pc = "close", ![r].ok = req[r].ok /\ ok]
    BY <1>2 DEF RevokeDown, LeaseTypeOK
  <2>3. "close" \in Pc /\ req[r].mem \in Held
    BY <1>1, AtWork DEF Pc
  <2> QED BY <1>2, <2>1, <2>2, <2>3, StepMoves
<1>5. LeaseTypeOK'
  BY <1>2, <1>4 DEF LeaseTypeOK, RevokeDown, Moves
<1>6. Own(r, t, s)
  BY <1>3 DEF Own, RevokeDown, InJournal, SlotOf
<1>7. JournalledAt(r)' /\ HostReadyAt(r)'
  BY <1>1, <1>2, <1>3, <1>4
  DEF JournalledAt, HostReadyAt, Moves, InJournal, RevokeDown, Working, SettingUp, Deleting
<1>8. TapHeldAt(s)' /\ FlowsHeldAt(s)'
  BY <1>3 DEF TapHeldAt, FlowsHeldAt, Installed, InJournal, RevokeDown
<1>9. guard'[t] = "open" => phase'[t] \in {"active", "revoked", "quarantined"}
  BY <1>3 DEF LeaseInv, OpenOnlyWhileHeld, RevokeDown
<1> QED
  BY <1>1, <1>2, <1>3, <1>4, <1>5, <1>6, <1>7, <1>8, <1>9, AtWork, OwnStep
  DEF Working, Revoking, SettingUp
\* The accept rules are gone before anything is deleted.
LEMMA RevokeGuardStep ==
  ASSUME LeaseInv, NEW r \in Request, NEW ok \in BOOLEAN, RevokeGuard(r, ok)
  PROVE  LeaseInv'
<1>1. req[r].pc = "close" /\ req[r].pc \in Working
  BY DEF RevokeGuard, At, Working, Revoking
<1>2. JournalledAt(r) /\ LeaseTypeOK /\ req[r].ok \in BOOLEAN /\ req[r].mem \in Held
  BY <1>1, AtWork
<1>3. PICK t \in Token, s \in Slot : /\ t = req[r].token /\ s = lease[t].slot /\ InJournal(t)
                                     /\ TapHeldAt(s) /\ FlowsHeldAt(s)
  BY <1>1, AtWork
<1>4. GuardOf(r) = "closed"
  BY <1>1, <1>2 DEF GuardOf, JournalledAt
<1>5. \/ Ends(r)
      \/ /\ Moves(r, "delete_tap", req[r].mem, req[r].ok)
         /\ JournalledAt(r)' /\ HostReadyAt(r)'
  <2>1. CASE Done(r)
    BY <1>2, <2>1, DoneEnds
  <2>2. CASE req[r].ok /\ Go(r, "delete_tap")
    <3>1. Moves(r, "delete_tap", req[r].mem, req[r].ok)
      BY <1>2, <2>2, StepMoves DEF Pc
    <3>2. JournalledAt(r)' /\ HostReadyAt(r)'
      BY <1>1, <1>2, <1>3, <2>2, <3>1
      DEF JournalledAt, HostReadyAt, Moves, InJournal, RevokeGuard, InstallGuard,
          Working, SettingUp, Deleting
    <3> QED BY <3>1, <3>2
  <2> QED BY <2>1, <2>2 DEF RevokeGuard
<1>6. LeaseTypeOK'
  BY <1>2, <1>4, <1>5 DEF LeaseTypeOK, RevokeGuard, InstallGuard, Moves, Ends
<1>7. Own(r, t, s)
  BY <1>2, <1>3 DEF Own, RevokeGuard, InstallGuard, InJournal, LeaseTypeOK
<1>8. TapHeldAt(s)' /\ FlowsHeldAt(s)'
  BY <1>2, <1>3, <1>4
  DEF TapHeldAt, FlowsHeldAt, Installed, InJournal, RevokeGuard, InstallGuard, LeaseTypeOK
<1>9. guard'[t] = "open" => phase'[t] \in {"active", "revoked", "quarantined"}
  BY <1>2, <1>3, <1>4 DEF LeaseInv, OpenOnlyWhileHeld, RevokeGuard, InstallGuard, LeaseTypeOK
<1> QED
  BY <1>1, <1>2, <1>3, <1>5, <1>6, <1>7, <1>8, <1>9, OwnStep DEF Working, Deleting, SettingUp

\* The error path of remove_resources.
LEMMA TeardownFails ==
  ASSUME LeaseInv, NEW r \in Request, NEW here \in Deleting, NEW next,
         Teardown(r, here, next, FALSE), doomed' \subseteq Slot,
         UNCHANGED <<phase, lease, tap, up, attached, guard, ingress, flows, alive>>
  PROVE  LeaseInv'
<1>1. req[r].pc \in Working /\ req[r].pc \in Deleting /\ Go(r, "quarantine")
  BY DEF Teardown, At, Working
<1>2. JournalledAt(r) /\ req[r].mem \in Held /\ req[r].ok \in BOOLEAN /\ LeaseTypeOK
  BY <1>1, AtWork
<1>3. Moves(r, "quarantine", req[r].mem, req[r].ok)
  BY <1>1, <1>2, StepMoves DEF Pc
<1>4. JournalledAt(r)' /\ HostReadyAt(r)'
  BY <1>1, <1>2, <1>3
  DEF JournalledAt, HostReadyAt, Moves, InJournal, Working, SettingUp, Deleting
<1> QED
  BY <1>1, <1>3, <1>4, WorkMoves DEF Working, Deleting, SettingUp, LeaseInv, LeaseTypeOK

\* The TAP is gone, or the lease is kept.
LEMMA DeleteTapStep ==
  ASSUME LeaseInv, NEW r \in Request, NEW ok \in BOOLEAN, DeleteTap(r, ok)
  PROVE  LeaseInv'
<1>1. req[r].pc = "delete_tap" /\ req[r].pc \in Working
  BY DEF DeleteTap, Teardown, At, Working, Deleting
<1>2. /\ JournalledAt(r) /\ LeaseTypeOK /\ req[r].mem \in Held /\ req[r].ok \in BOOLEAN
  BY <1>1, AtWork
<1>3. PICK t \in Token, s \in Slot : /\ t = req[r].token /\ s = lease[t].slot /\ InJournal(t)
                                     /\ TapHeldAt(s) /\ FlowsHeldAt(s)
  BY <1>1, AtWork
<1>4. doomed' \subseteq Slot
  BY <1>2, <1>3 DEF DeleteTap, SlotOf, LeaseTypeOK
<1>5. CASE ~ok
  BY <1>4, <1>5, TeardownFails DEF DeleteTap, Deleting
<1>6. CASE ok
  <2>1. Moves(r, "purge_again", req[r].mem, req[r].ok)
    BY <1>2, <1>6, StepMoves DEF DeleteTap, Teardown, Pc
  <2>2. LeaseTypeOK'
    BY <1>2, <1>3, <1>4, <1>6, <2>1 DEF LeaseTypeOK, DeleteTap, SlotOf, Moves
  <2>3. tap'[s] = NoTap /\ s \notin up'
    BY <1>2, <1>3, <1>6 DEF DeleteTap, SlotOf, LeaseTypeOK
  <2>4. Own(r, t, s)
    BY <1>2, <1>3, <1>6 DEF Own, DeleteTap, SlotOf, InJournal, LeaseTypeOK
  <2>5. JournalledAt(r)' /\ HostReadyAt(r)'
    BY <1>1, <1>2, <1>3, <2>1, <2>3
    DEF JournalledAt, HostReadyAt, Moves, InJournal, DeleteTap, Working, SettingUp, Deleting
  <2>6. TapHeldAt(s)' /\ FlowsHeldAt(s)'
    BY <1>3, <2>3 DEF TapHeldAt, FlowsHeldAt, Installed, InJournal, DeleteTap
  <2>7. guard'[t] = "open" => phase'[t] \in {"active", "revoked", "quarantined"}
    BY <1>3 DEF LeaseInv, OpenOnlyWhileHeld, DeleteTap
  <2> QED
    BY <1>1, <1>2, <1>3, <2>1, <2>2, <2>4, <2>5, <2>6, <2>7, OwnStep
    DEF Working, Deleting, SettingUp
<1> QED BY <1>5, <1>6

\* No connection of the lease is tracked any more, and none can start.
LEMMA PurgeAgainStep ==
  ASSUME LeaseInv, NEW r \in Request, NEW ok \in BOOLEAN, PurgeAgain(r, ok)
  PROVE  LeaseInv'
<1>1. req[r].pc = "purge_again" /\ req[r].pc \in Working
  BY DEF PurgeAgain, Teardown, At, Working, Deleting
<1>2. /\ JournalledAt(r) /\ HostReadyAt(r) /\ LeaseTypeOK
      /\ req[r].mem \in Held /\ req[r].ok \in BOOLEAN
  BY <1>1, AtWork
<1>3. PICK t \in Token, s \in Slot : /\ t = req[r].token /\ s = lease[t].slot /\ InJournal(t)
                                     /\ TapHeldAt(s) /\ FlowsHeldAt(s)
  BY <1>1, AtWork
<1>4. CASE ~ok
  BY <1>2, <1>4, TeardownFails DEF PurgeAgain, PurgeConnections, Deleting, LeaseTypeOK
<1>5. CASE ok
  <2>1. Moves(r, "delete_tables", req[r].mem, req[r].ok)
    BY <1>2, <1>5, StepMoves DEF PurgeAgain, Teardown, Pc
  <2>2. LeaseTypeOK'
    BY <1>2, <1>3, <1>5, <2>1 DEF LeaseTypeOK, PurgeAgain, PurgeConnections, SlotOf, Moves
  <2>3. flows'[s] = {}
    BY <1>2, <1>3, <1>5 DEF PurgeAgain, PurgeConnections, SlotOf, LeaseTypeOK
  <2>4. Own(r, t, s)
    BY <1>2, <1>3, <1>5 DEF Own, PurgeAgain, PurgeConnections, SlotOf, InJournal, LeaseTypeOK
  <2>5. JournalledAt(r)'
    BY <1>1, <1>2, <1>3, <2>1
    DEF JournalledAt, Moves, InJournal, PurgeAgain, PurgeConnections, Working, SettingUp, Deleting
  <2>6. HostReadyAt(r)'
    BY <1>1, <1>2, <1>3, <2>1, <2>3 DEF HostReadyAt, Moves, PurgeAgain, PurgeConnections
  <2>7. TapHeldAt(s)' /\ FlowsHeldAt(s)'
    BY <1>3, <2>3
    DEF TapHeldAt, FlowsHeldAt, Installed, InJournal, PurgeAgain, PurgeConnections
  <2>8. guard'[t] = "open" => phase'[t] \in {"active", "revoked", "quarantined"}
    BY <1>3 DEF LeaseInv, OpenOnlyWhileHeld, PurgeAgain, PurgeConnections
  <2> QED
    BY <1>1, <1>2, <1>3, <2>1, <2>2, <2>4, <2>5, <2>6, <2>7, <2>8, OwnStep
    DEF Working, Deleting, SettingUp
<1> QED BY <1>4, <1>5

\* The tables are deleted when the TAP is gone.
LEMMA DeleteTablesStep ==
  ASSUME LeaseInv, NEW r \in Request, NEW ok \in BOOLEAN, DeleteTables(r, ok)
  PROVE  LeaseInv'
<1>1. req[r].pc = "delete_tables" /\ req[r].pc \in Working
  BY DEF DeleteTables, Teardown, At, Working, Deleting
<1>2. /\ JournalledAt(r) /\ HostReadyAt(r) /\ LeaseTypeOK
      /\ req[r].mem \in Held /\ req[r].ok \in BOOLEAN
  BY <1>1, AtWork
<1>3. PICK t \in Token, s \in Slot : /\ t = req[r].token /\ s = lease[t].slot /\ InJournal(t)
                                     /\ TapHeldAt(s) /\ FlowsHeldAt(s)
  BY <1>1, AtWork
<1>4. CASE ~ok
  BY <1>2, <1>4, TeardownFails DEF DeleteTables, Deleting, LeaseTypeOK
<1>5. CASE ok
  <2>1. Moves(r, "remove", req[r].mem, req[r].ok)
    BY <1>2, <1>5, StepMoves DEF DeleteTables, Teardown, Pc
  <2>2. LeaseTypeOK'
    BY <1>2, <1>3, <1>5, <2>1 DEF LeaseTypeOK, DeleteTables, Moves
  <2>3. tap[s] = NoTap /\ t \notin flows[s] /\ guard'[t] = "none"
    BY <1>1, <1>2, <1>3, <1>5 DEF HostReadyAt, DeleteTables, LeaseTypeOK
  <2>4. Own(r, t, s)
    BY <1>2, <1>3, <1>5 DEF Own, DeleteTables, InJournal, LeaseTypeOK
  <2>5. JournalledAt(r)'
    BY <1>1, <1>2, <1>3, <2>1
    DEF JournalledAt, Moves, InJournal, DeleteTables, Working, SettingUp, Deleting
  <2>6. HostReadyAt(r)'
    BY <1>3, <2>1, <2>3 DEF HostReadyAt, Moves, DeleteTables
  <2>7. TapHeldAt(s)'
    <3>1. s \notin up
      BY <1>2, <1>3, <2>3, LeaseAssumption DEF TapHeldAt, NoTap, LeaseTypeOK
    <3> QED BY <2>3, <3>1 DEF TapHeldAt, DeleteTables
  <2>8. FlowsHeldAt(s)'
    BY <1>3 DEF FlowsHeldAt, Installed, InJournal, DeleteTables
  <2> QED
    BY <1>1, <1>2, <1>3, <2>1, <2>2, <2>3, <2>4, <2>5, <2>6, <2>7, <2>8, OwnStep
    DEF Working, SettingUp
<1> QED BY <1>4, <1>5

\* A lease that could not be deleted keeps its slot.
LEMMA QuarantineStep ==
  ASSUME LeaseInv, NEW r \in Request, NEW ok \in BOOLEAN, Quarantine(r, ok)
  PROVE  LeaseInv'
<1>1. req[r].pc = "quarantine" /\ req[r].pc \in Working
  BY DEF Quarantine, At, Working, Deleting
<1>2. JournalledAt(r) /\ LeaseTypeOK
  BY <1>1, AtWork
<1>3. PICK t \in Token, s \in Slot : /\ t = req[r].token /\ s = lease[t].slot /\ InJournal(t)
                                     /\ TapHeldAt(s) /\ FlowsHeldAt(s)
  BY <1>1, AtWork
<1>4. Ends(r)
  BY <1>2, DoneEnds DEF Quarantine
<1>5. /\ phase' \in [Token -> Phase] /\ \A u \in Token \ {t} : phase'[u] = phase[u]
      /\ phase'[t] \in {"revoked", "quarantined"}
  BY <1>1, <1>2, <1>3, SaveType DEF Quarantine, Held, JournalledAt, Deleting
<1>6. LeaseTypeOK'
  BY <1>2, <1>4, <1>5 DEF LeaseTypeOK, Quarantine, host, Ends
<1>7. Own(r, t, s)
  BY <1>3, <1>5 DEF Own, Quarantine, host, Held
<1>8. TapHeldAt(s)' /\ FlowsHeldAt(s)'
  <2>1. \A u \in Token : Installed(u) => Installed(u)'
    BY <1>3, <1>5 DEF Installed, InJournal, Held
  <2>2. TapHeldAt(s)'
    BY <1>3, <2>1 DEF TapHeldAt, Quarantine, host
  <2>3. FlowsHeldAt(s)'
    BY <1>2, <1>3, <2>1 DEF FlowsHeldAt, Quarantine, host, LeaseTypeOK
  <2> QED BY <2>2, <2>3
<1>9. guard'[t] = "open" => phase'[t] \in {"active", "revoked", "quarantined"}
  BY <1>5
<1> QED BY <1>1, <1>3, <1>4, <1>6, <1>7, <1>8, <1>9, OwnStep

\* The slot is free again: nothing of the lease is left to be reached.
LEMMA RemoveStep ==
  ASSUME LeaseInv, NEW r \in Request, NEW ok \in BOOLEAN, Remove(r, ok)
  PROVE  LeaseInv'
<1>1. req[r].pc = "remove" /\ req[r].pc \in Working
  BY DEF Remove, At, Working
<1>2. JournalledAt(r) /\ HostReadyAt(r) /\ LeaseTypeOK
  BY <1>1, AtWork
<1>3. PICK t \in Token, s \in Slot : /\ t = req[r].token /\ s = lease[t].slot /\ InJournal(t)
                                     /\ TapHeldAt(s) /\ FlowsHeldAt(s)
  BY <1>1, AtWork
<1>4. Ends(r)
  BY <1>2, DoneEnds DEF Remove
<1>5. tap[s] = NoTap /\ t \notin flows[s] /\ guard[t] # "open"
  BY <1>1, <1>2, <1>3 DEF HostReadyAt
<1>6. LeaseTypeOK'
  BY <1>2, <1>3, <1>4 DEF LeaseTypeOK, Remove, host, Ends, Phase
<1>7. Own(r, t, s)
  BY <1>2, <1>3 DEF Own, Remove, host, InJournal, LeaseTypeOK
<1>8. TapHeldAt(s)'
  <2>1. s \notin up
    BY <1>2, <1>3, <1>5, LeaseAssumption DEF TapHeldAt, NoTap, LeaseTypeOK
  <2> QED BY <1>5, <2>1 DEF TapHeldAt, Remove, host
<1>9. FlowsHeldAt(s)'
  BY <1>2, <1>3, <1>5 DEF FlowsHeldAt, Installed, InJournal, Remove, host, LeaseTypeOK
<1>10. guard'[t] # "open"
  BY <1>5 DEF Remove, host
<1> QED BY <1>1, <1>3, <1>4, <1>6, <1>7, <1>8, <1>9, <1>10, OwnStep
-----------------------------------------------------------------------------
(* Requests before their work, and the environment *)

\* A new request holds no lock; what it knows of a lease it has just read.
LEMMA NewRequestStep ==
  ASSUME LeaseInv, NEW r \in Request, NewRequest(r)
  PROVE  LeaseInv'
<1>1. req \in [Request -> ReqRec] /\ LeaseTypeOK
  BY DEF LeaseInv, LeaseTypeOK
<1>2. /\ IdleReq \in ReqRec
      /\ IdleReq.pc = "idle" /\ ~IdleReq.locked /\ IdleReq.todo = {} /\ IdleReq.op = "provision"
  BY LeaseDefaults DEF IdleReq
<1>3. UNCHANGED <<phase, lease, tap, up, attached, doomed, guard, ingress, flows, alive>>
  BY DEF NewRequest, Provision, Operate, Cleanup, host
<1>4. ASSUME NEW y \in ReqRec, req' = [req EXCEPT ![r] = y], ~y.locked,
             y.pc \in {"lock", "next"}, ClaimsAt(r)'
      PROVE  LeaseInv'
  <2>1. /\ req' \in [Request -> ReqRec] /\ req'[r] = y
        /\ \A q \in Request \ {r} : req'[q] = req[q]
    BY <1>1, <1>4
  <2>2. LeaseTypeOK'
    BY <1>1, <1>3, <2>1 DEF LeaseTypeOK
  <2>3. Locks'
    BY <1>4, <2>1 DEF LeaseInv, Locks, Working, SettingUp, Revoking, Deleting
  <2>4. JournalledAt(r)' /\ HostReadyAt(r)'
    BY <1>4, <2>1 DEF JournalledAt, HostReadyAt, Working, SettingUp, Revoking, Deleting
  <2> QED BY <1>3, <1>4, <2>1, <2>2, <2>3, <2>4, RequestOnly
<1>5. ASSUME NEW o \in Owner, NEW e \in Execution, Provision(r, o, e) PROVE LeaseInv'
  <2> DEFINE y == [IdleReq EXCEPT !.pc = "lock", !.owner = o,
                                  !.instance = InstanceOf[o], !.execution = e]
  <2>1. /\ y \in ReqRec /\ ~y.locked /\ y.pc = "lock" /\ y.op = "provision" /\ y.todo = {}
        /\ y.owner = o /\ y.instance = InstanceOf[o]
    BY <1>2, LeaseAssumption DEF ReqRec, Pc
  <2>2. req' = [req EXCEPT ![r] = y]
    BY <1>5 DEF Provision
  <2> HIDE DEF y
  <2>3. req'[r] = y
    BY <1>1, <2>2
  <2>4. ClaimsAt(r)'
    BY <2>1, <2>3 DEF ClaimsAt, Working, SettingUp, Revoking, Deleting
  <2> QED BY <1>4, <2>1, <2>2, <2>4
<1>6. ASSUME NEW o \in Owner, NEW t \in Token, NEW op \in {"revoke", "release"},
             Operate(r, o, t, op)
      PROVE  LeaseInv'
  <2> DEFINE y == [IdleReq EXCEPT !.pc = "lock", !.op = op, !.owner = o,
                                  !.instance = InstanceOf[o], !.token = t,
                                  !.execution = lease[t].execution]
  <2>1. lease[t].execution \in Execution
    BY <1>1 DEF LeaseTypeOK, Lease
  <2>2. /\ y \in ReqRec /\ ~y.locked /\ y.pc = "lock" /\ y.op = op /\ y.todo = {}
        /\ y.owner = o /\ y.instance = InstanceOf[o] /\ y.token = t
        /\ y.execution = lease[t].execution
    BY <1>2, <2>1, LeaseAssumption DEF ReqRec, Pc
  <2>3. req' = [req EXCEPT ![r] = y]
    BY <1>6 DEF Operate
  <2> HIDE DEF y
  <2>4. req'[r] = y
    BY <1>1, <2>3
  <2>5. phase[t] # "unused" /\ lease[t].owner = o
    BY <1>6 DEF Operate, InJournal, Held
  <2>6. ClaimsAt(r)'
    BY <1>3, <2>2, <2>4, <2>5
    DEF ClaimsAt, Knows, InstanceOfLease, Working, SettingUp, Revoking, Deleting
  <2> QED BY <1>4, <2>2, <2>3, <2>6
<1>7. ASSUME NEW i \in Instance, NEW o \in Owner \cup {NoOne}, Cleanup(r, i, o) PROVE LeaseInv'
  <2> DEFINE y == [IdleReq EXCEPT !.pc = "next", !.op = "cleanup",
                                  !.owner = o, !.instance = i, !.todo = Records(i)]
  <2>1. Records(i) \subseteq Token
    BY DEF Records
  <2>2. /\ y \in ReqRec /\ ~y.locked /\ y.pc = "next" /\ y.op = "cleanup"
        /\ y.todo = Records(i) /\ y.instance = i
    BY <1>2, <2>1 DEF ReqRec, Pc
  <2>3. req' = [req EXCEPT ![r] = y]
    BY <1>7 DEF Cleanup
  <2> HIDE DEF y
  <2>4. req'[r] = y
    BY <1>1, <2>3
  <2>5. \A t \in Records(i) : phase[t] # "unused" /\ InstanceOfLease(t) = i
    BY DEF Records, InJournal, Held
  <2>6. ClaimsAt(r)'
    BY <1>3, <2>2, <2>4, <2>5
    DEF ClaimsAt, InstanceOfLease, Working, SettingUp, Revoking, Deleting
  <2> QED BY <1>4, <2>2, <2>3, <2>6
<1> QED BY <1>5, <1>6, <1>7 DEF NewRequest

\* A lock is taken only when nobody has it.
LEMMA LockTaken ==
  ASSUME LeaseInv, NEW r \in Request, NEW y \in ReqRec, req' = [req EXCEPT ![r] = y],
         y.locked, LockFree(y.instance, y.execution)
  PROVE  Locks'
<1>1. req'[r] = y /\ \A q \in Request \ {r} : req'[q] = req[q]
  BY DEF LeaseInv, LeaseTypeOK
<1>2. \A q \in Request : req[q].locked /\ req[q].instance = y.instance
                         => Bucket[req[q].execution] # Bucket[y.execution]
  BY DEF LockFree
<1> QED BY <1>1, <1>2 DEF LeaseInv, Locks

\* provision and operate wait for the lock of their execution.
LEMMA LockExecutionStep ==
  ASSUME LeaseInv, NEW r \in Request, LockExecution(r)
  PROVE  LeaseInv'
<1>1. req \in [Request -> ReqRec] /\ req[r] \in ReqRec /\ LeaseTypeOK
  BY DEF LeaseInv, LeaseTypeOK
<1>2. req[r].pc = "lock" /\ ClaimsAt(r)
  BY DEF LockExecution, At, LeaseInv, RequestsInv
<1> DEFINE y == [req[r] EXCEPT !.locked = TRUE,
                               !.pc = IF req[r].op = "provision" THEN "find" ELSE "reload"]
<1>3. /\ y \in ReqRec /\ y.locked /\ y.op = req[r].op /\ y.owner = req[r].owner
      /\ y.pc = (IF req[r].op = "provision" THEN "find" ELSE "reload")
      /\ y.instance = req[r].instance /\ y.execution = req[r].execution
      /\ y.token = req[r].token /\ y.todo = req[r].todo
  BY <1>1 DEF ReqRec, Pc
<1>4. req' = [req EXCEPT ![r] = y]
  BY <1>1 DEF LockExecution
<1> HIDE DEF y
<1>5. /\ req' \in [Request -> ReqRec] /\ req'[r] = y
      /\ \A q \in Request \ {r} : req'[q] = req[q]
  BY <1>1, <1>3, <1>4
<1>6. LeaseTypeOK'
  BY <1>1, <1>5 DEF LeaseTypeOK, LockExecution, host
<1>7. Locks'
  BY <1>3, <1>4, LockTaken DEF LockExecution
<1>8. ClaimsAt(r)'
  BY <1>2, <1>3, <1>5
  DEF ClaimsAt, Knows, InstanceOfLease, LockExecution, Working, SettingUp, Revoking, Deleting
<1>9. JournalledAt(r)' /\ HostReadyAt(r)'
  BY <1>3, <1>5 DEF JournalledAt, HostReadyAt, Working, SettingUp, Revoking, Deleting
<1> QED BY <1>5, <1>6, <1>7, <1>8, <1>9, RequestOnly DEF LockExecution, host

\* provision goes on only for an execution without a lease.
LEMMA FindStep ==
  ASSUME LeaseInv, NEW r \in Request, Find(r)
  PROVE  LeaseInv'
<1>1. req \in [Request -> ReqRec] /\ req[r] \in ReqRec /\ LeaseTypeOK
  BY DEF LeaseInv, LeaseTypeOK
<1>2. req[r].pc = "find" /\ ClaimsAt(r) /\ req[r].locked
  BY DEF Find, At, LeaseInv, RequestsInv, Locks
<1>3. CASE Done(r)
  BY <1>1, <1>3, DoneEnds, RequestEnds DEF Find
<1>4. CASE Go(r, "reserve")
  <2>1. Moves(r, "reserve", req[r].mem, req[r].ok)
    BY <1>1, <1>4, StepMoves DEF ReqRec, Pc
  <2>2. LeaseTypeOK'
    BY <1>1, <2>1 DEF LeaseTypeOK, Moves, Find, host
  <2>3. Locks'
    <3>1. \A q \in Request : /\ req'[q].locked <=> req[q].locked
                             /\ req'[q].instance = req[q].instance
                             /\ req'[q].execution = req[q].execution
      BY <1>1, <2>1 DEF Moves, ReqRec
    <3>2. \A q \in Request : q # r => req'[q].pc = req[q].pc
      BY <2>1 DEF Moves
    <3> QED BY <1>2, <3>1, <3>2 DEF LeaseInv, Locks
  <2>4. ClaimsAt(r)'
    BY <1>2, <2>1
    DEF Moves, ClaimsAt, Find, InstanceOfLease, Working, SettingUp, Revoking, Deleting
  <2>5. JournalledAt(r)' /\ HostReadyAt(r)'
    BY <2>1 DEF Moves, JournalledAt, HostReadyAt, Working, SettingUp, Revoking, Deleting
  <2>6. \A q \in Request \ {r} : req'[q] = req[q]
    BY <2>1 DEF Moves
  <2> QED BY <2>2, <2>3, <2>4, <2>5, <2>6, RequestOnly DEF Find, host
<1> QED BY <1>3, <1>4 DEF Find
\* reserve takes a free slot for an execution without a lease: the only step
\* that adds a lease to the journal.
LEMMA ReserveStep ==
  ASSUME LeaseInv, NEW r \in Request, NEW t \in Token, NEW s \in 0..Slots, NEW ok \in BOOLEAN,
         Reserve(r, t, s, ok)
  PROVE  LeaseInv'
<1>1. req \in [Request -> ReqRec] /\ req[r] \in ReqRec /\ LeaseTypeOK
  BY DEF LeaseInv, LeaseTypeOK
<1>2. /\ req[r].pc = "reserve" /\ req[r].locked /\ req[r].op = "provision"
      /\ req[r].owner \in Owner /\ InstanceOf[req[r].owner] = req[r].instance
      /\ ClaimsAt(r)
  BY DEF Reserve, At, LeaseInv, RequestsInv, Locks, ClaimsAt
<1>3. s \in Slot
  BY LeaseAssumption DEF Reserve, InPool, Slot
<1>4. /\ phase[t] = "unused"
      /\ phase' \in [Token -> Phase] /\ \A u \in Token \ {t} : phase'[u] = phase[u]
      /\ phase'[t] \in {"unused", "reserved"} /\ (ok => phase'[t] = "reserved")
  BY <1>1, SaveType DEF Reserve, Held
<1>5. /\ lease' \in [Token -> Lease] /\ \A u \in Token \ {t} : lease'[u] = lease[u]
      /\ lease'[t].slot = s /\ lease'[t].execution = req[r].execution
      /\ lease'[t].owner = req[r].owner
  BY <1>1, <1>2, <1>3 DEF Reserve, LeaseTypeOK, Lease, ReqRec
<1>6. UNCHANGED <<tap, up, attached, doomed, guard, ingress, flows, alive>>
  BY DEF Reserve, host
<1>7. /\ req' \in [Request -> ReqRec] /\ \A q \in Request \ {r} : req'[q] = req[q]
      /\ Locks' /\ ClaimsAt(r)' /\ JournalledAt(r)' /\ HostReadyAt(r)'
  <2>1. CASE ~ok
    <3>1. Ends(r)
      BY <1>1, <2>1, DoneEnds DEF Reserve
    <3>2. Locks'
      BY <3>1, LocksKept
    <3>3. JournalledAt(r)' /\ HostReadyAt(r)'
      BY <3>1 DEF Ends, JournalledAt, HostReadyAt, Working, SettingUp, Revoking, Deleting
    <3>4. ClaimsAt(r)'
      BY <1>1, <1>2, <1>4, <1>5, <3>1
      DEF Ends, ClaimsAt, InstanceOfLease, ReqRec, Working, SettingUp, Revoking, Deleting
    <3> QED BY <3>1, <3>2, <3>3, <3>4 DEF Ends
  <2>2. CASE ok
    <3> DEFINE y == [req[r] EXCEPT !.pc = "check", !.token = t, !.mem = "reserved"]
    <3>1. /\ y \in ReqRec /\ y.pc = "check" /\ y.token = t /\ y.mem = "reserved"
          /\ y.locked = req[r].locked /\ y.op = req[r].op /\ y.owner = req[r].owner
          /\ y.instance = req[r].instance /\ y.execution = req[r].execution
          /\ y.todo = req[r].todo
      BY <1>1, ZenonT(60) DEF ReqRec, Pc, Held
    <3>2. req' = [req EXCEPT ![r] = y]
      BY <1>1, <2>2 DEF Reserve
    <3> HIDE DEF y
    <3>3. /\ req' \in [Request -> ReqRec] /\ req'[r] = y
          /\ \A q \in Request \ {r} : req'[q] = req[q]
      BY <1>1, <3>1, <3>2
    <3>4. Locks'
      <4>1. \A q \in Request : /\ req'[q].locked <=> req[q].locked
                               /\ req'[q].instance = req[q].instance
                               /\ req'[q].execution = req[q].execution
        BY <3>1, <3>3
      <4>2. \A q \in Request : q # r => req'[q].pc = req[q].pc
        BY <3>3
      <4> QED BY <1>2, <4>1, <4>2 DEF LeaseInv, Locks
    <3>5. ClaimsAt(r)'
      BY <1>1, <1>2, <1>4, <1>5, <2>2, <3>1, <3>3
      DEF ClaimsAt, Knows, InstanceOfLease, ReqRec, Working, SettingUp, Revoking, Deleting
    <3>6. JournalledAt(r)' /\ HostReadyAt(r)'
      BY <1>4, <2>2, <3>1, <3>3
      DEF JournalledAt, HostReadyAt, InJournal, Held, Working, SettingUp, Revoking, Deleting
    <3> QED BY <3>3, <3>4, <3>5, <3>6
  <2> QED BY <2>1, <2>2
<1>8. LeaseTypeOK'
  BY <1>1, <1>4, <1>5, <1>6, <1>7 DEF LeaseTypeOK
<1>9. LeasesExclusive'
  <2>1. \A u \in Token : InJournal(u) =>
          /\ lease[u].slot # s
          /\ InstanceOfLease(u) = req[r].instance => lease[u].execution # req[r].execution
    BY DEF Reserve, Occupied, HasLease, Records
  <2>2. \A u \in Token \ {t} : InJournal(u)' <=> InJournal(u)
    BY <1>4 DEF InJournal
  <2>3. InstanceOfLease(t)' = req[r].instance
        /\ \A u \in Token \ {t} : InstanceOfLease(u)' = InstanceOfLease(u)
    BY <1>2, <1>5 DEF InstanceOfLease
  <2> QED BY <1>5, <2>1, <2>2, <2>3 DEF LeaseInv, LeasesExclusive
<1>10. ASSUME NEW q \in Request, q # r PROVE ClaimsAt(q)' /\ JournalledAt(q)' /\ HostReadyAt(q)'
  <2>1. req'[q] = req[q] /\ req[q] \in ReqRec
    BY <1>1, <1>7, <1>10
  <2>2. ClaimsAt(q) /\ JournalledAt(q) /\ HostReadyAt(q)
    BY DEF LeaseInv, RequestsInv
  <2>3. ClaimsAt(q)'
    BY <1>4, <1>5, <2>1, <2>2 DEF ClaimsAt, Knows, InstanceOfLease, ReqRec
  <2>4. CASE req[q].pc \notin Working
    BY <2>1, <2>3, <2>4 DEF JournalledAt, HostReadyAt, Working, SettingUp, Revoking, Deleting
  <2>5. CASE req[q].pc \in Working
    <3>1. req[q].token \in Token /\ req[q].token # t
      BY <1>4, <2>2, <2>5 DEF ClaimsAt, JournalledAt, InJournal, Held
    <3>2. JournalledAt(q)'
      BY <1>4, <1>5, <1>6, <2>1, <2>2, <3>1 DEF JournalledAt, InJournal
    <3>3. HostReadyAt(q)'
      BY <1>5, <1>6, <2>1, <2>2, <3>1 DEF HostReadyAt
    <3> QED BY <2>3, <3>2, <3>3
  <2> QED BY <2>4, <2>5
<1>11. ASSUME NEW n \in Slot PROVE TapHeldAt(n)' /\ FlowsHeldAt(n)'
  <2>1. \A u \in Token : Installed(u) => u # t /\ Installed(u)'
    BY <1>4 DEF Installed, InJournal, Held
  <2>2. TapHeldAt(n) /\ FlowsHeldAt(n)
    BY DEF LeaseInv, SlotsInv
  <2>3. TapHeldAt(n)'
    BY <1>5, <1>6, <2>1, <2>2 DEF TapHeldAt
  <2>4. FlowsHeldAt(n)'
    BY <1>1, <1>5, <1>6, <2>1, <2>2 DEF FlowsHeldAt, LeaseTypeOK
  <2> QED BY <2>3, <2>4
<1>12. OpenOnlyWhileHeld'
  BY <1>4, <1>6 DEF LeaseInv, OpenOnlyWhileHeld
<1> QED
  BY <1>7, <1>8, <1>9, <1>10, <1>11, <1>12 DEF LeaseInv, RequestsInv, SlotsInv

\* operate and cleanup look at the lease again under its lock.
LEMMA ReloadStep ==
  ASSUME LeaseInv, NEW r \in Request, Reload(r)
  PROVE  LeaseInv'
<1>1. req \in [Request -> ReqRec] /\ req[r] \in ReqRec /\ LeaseTypeOK
  BY DEF LeaseInv, LeaseTypeOK
<1>2. req[r].pc = "reload" /\ ClaimsAt(r) /\ req[r].locked /\ req[r].token \in Token
  BY DEF Reload, At, LeaseInv, RequestsInv, Locks, ClaimsAt
<1>3. CASE Done(r)
  BY <1>1, <1>3, DoneEnds, RequestEnds DEF Reload
<1>4. CASE ~Done(r)
  <2>1. /\ req' = [req EXCEPT ![r].pc = "revoke", ![r].mem = phase[req[r].token], ![r].ok = TRUE]
        /\ InJournal(req[r].token)
        /\ ~(req[r].op = "cleanup" /\ Spared(r, req[r].token))
    BY <1>4 DEF Reload
  <2>2. Moves(r, "revoke", phase[req[r].token], TRUE)
    BY <1>1, <2>1, StepMoves DEF Pc, InJournal
  <2>3. LeaseTypeOK'
    BY <1>1, <2>2 DEF LeaseTypeOK, Moves, Reload, host
  <2>4. Locks'
    BY <1>2, <2>1, <2>2, LocksKept DEF Working, Revoking, InJournal
  <2>5. ClaimsAt(r)'
    BY <1>2, <2>2
    DEF Moves, ClaimsAt, Knows, InstanceOfLease, Reload, Working, SettingUp, Revoking, Deleting
  <2>6. JournalledAt(r)' /\ HostReadyAt(r)'
    BY <1>2, <2>1, <2>2
    DEF Moves, JournalledAt, HostReadyAt, InJournal, Spared, Reload,
        Working, SettingUp, Revoking, Deleting
  <2>7. \A q \in Request \ {r} : req'[q] = req[q]
    BY <2>2 DEF Moves
  <2> QED BY <2>3, <2>4, <2>5, <2>6, <2>7, RequestOnly DEF Reload, host
<1> QED BY <1>3, <1>4

\* cleanup takes the lock of the next lease, or skips it.
LEMMA CleanupLeaseStep ==
  ASSUME LeaseInv, NEW r \in Request, NEW t \in Token, CleanupLease(r, t)
  PROVE  LeaseInv'
<1>1. req \in [Request -> ReqRec] /\ req[r] \in ReqRec /\ LeaseTypeOK
  BY DEF LeaseInv, LeaseTypeOK
<1>2. /\ req[r].pc = "next" /\ req[r].op = "cleanup" /\ ClaimsAt(r)
      /\ t \in req[r].todo /\ phase[t] # "unused" /\ InstanceOfLease(t) = req[r].instance
      /\ lease[t].execution \in Execution /\ req[r].todo \subseteq Token
  BY <1>1 DEF CleanupLease, At, LeaseInv, RequestsInv, ClaimsAt, LeaseTypeOK, Lease, ReqRec
<1>3. CASE LockFree(req[r].instance, lease[t].execution)
  <2> DEFINE y == [req[r] EXCEPT !.pc = "reload", !.token = t, !.locked = TRUE,
                                 !.execution = lease[t].execution, !.todo = req[r].todo \ {t}]
  <2>1. /\ y \in ReqRec /\ y.pc = "reload" /\ y.token = t /\ y.locked /\ y.op = "cleanup"
        /\ y.instance = req[r].instance /\ y.execution = lease[t].execution
        /\ y.todo = req[r].todo \ {t}
    BY <1>1, <1>2 DEF ReqRec, Pc
  <2>2. req' = [req EXCEPT ![r] = y]
    BY <1>3 DEF CleanupLease
  <2> HIDE DEF y
  <2>3. /\ req' \in [Request -> ReqRec] /\ req'[r] = y
        /\ \A q \in Request \ {r} : req'[q] = req[q]
    BY <1>1, <2>1, <2>2
  <2>4. Locks'
    BY <1>3, <2>1, <2>2, LockTaken
  <2>5. LeaseTypeOK'
    BY <1>1, <2>3 DEF LeaseTypeOK, CleanupLease, host
  <2>6. ClaimsAt(r)'
    BY <1>2, <2>1, <2>3
    DEF ClaimsAt, Knows, InstanceOfLease, CleanupLease, Working, SettingUp, Revoking, Deleting
  <2>7. JournalledAt(r)' /\ HostReadyAt(r)'
    BY <2>1, <2>3 DEF JournalledAt, HostReadyAt, Working, SettingUp, Revoking, Deleting
  <2> QED BY <2>3, <2>4, <2>5, <2>6, <2>7, RequestOnly DEF CleanupLease, host
<1>4. CASE ~LockFree(req[r].instance, lease[t].execution)
  <2> DEFINE y == [req[r] EXCEPT !.todo = req[r].todo \ {t}]
  <2>1. /\ y \in ReqRec /\ y.pc = "next" /\ y.op = "cleanup" /\ y.locked = req[r].locked
        /\ y.instance = req[r].instance /\ y.execution = req[r].execution
        /\ y.todo = req[r].todo \ {t}
    BY <1>1, <1>2 DEF ReqRec, Pc
  <2>2. req' = [req EXCEPT ![r] = y]
    BY <1>4 DEF CleanupLease
  <2> HIDE DEF y
  <2>3. /\ req' \in [Request -> ReqRec] /\ req'[r] = y
        /\ \A q \in Request \ {r} : req'[q] = req[q]
    BY <1>1, <2>1, <2>2
  <2>4. Locks'
    BY <2>1, <2>3 DEF LeaseInv, Locks, Working, SettingUp, Revoking, Deleting
  <2>5. LeaseTypeOK'
    BY <1>1, <2>3 DEF LeaseTypeOK, CleanupLease, host
  <2>6. ClaimsAt(r)'
    BY <1>2, <2>1, <2>3
    DEF ClaimsAt, InstanceOfLease, CleanupLease, Working, SettingUp, Revoking, Deleting
  <2>7. JournalledAt(r)' /\ HostReadyAt(r)'
    BY <2>1, <2>3 DEF JournalledAt, HostReadyAt, Working, SettingUp, Revoking, Deleting
  <2> QED BY <2>3, <2>4, <2>5, <2>6, <2>7, RequestOnly DEF CleanupLease, host
<1> QED BY <1>3, <1>4

\* A request that is killed, refused or finished leaves everything as it is.
LEMMA GivesUpStep ==
  ASSUME LeaseInv, NEW r \in Request, Kill(r) \/ EndCleanup(r) \/ ReserveRefused(r)
  PROVE  LeaseInv'
<1>1. req \in [Request -> ReqRec] /\ LeaseTypeOK
  BY DEF LeaseInv, LeaseTypeOK
<1>2. CASE ReserveRefused(r)
  BY <1>1, <1>2, DoneEnds, RequestEnds DEF ReserveRefused
<1>3. CASE req' = [req EXCEPT ![r] = IdleReq]
  <2>1. IdleReq.pc = "idle" /\ ~IdleReq.locked /\ IdleReq.todo = {}
    BY DEF IdleReq
  <2>2. Ends(r)
    BY <1>1, <1>3, <2>1, LeaseDefaults DEF Ends
  <2> QED BY <1>1, <1>3, <2>2, RequestEnds DEF Kill, EndCleanup, ReserveRefused
<1> QED BY <1>2, <1>3 DEF Kill, EndCleanup
\* Steps outside the requests: owners exit, VMMs open and close TAPs, guests
\* send packets.
LEMMA EnvironmentStep ==
  ASSUME LeaseInv,
         \/ \E o \in Owner : OwnerExits(o)
         \/ \E s \in Slot : Attach(s) \/ Detach(s) \/ Traffic(s) \/ Expire(s)
  PROVE  LeaseInv'
<1>1. LeaseTypeOK /\ Locks /\ LeasesExclusive /\ OpenOnlyWhileHeld
  BY DEF LeaseInv
<1>2. \A q \in Request : ClaimsAt(q) /\ JournalledAt(q) /\ HostReadyAt(q)
  BY DEF LeaseInv, RequestsInv
<1>3. \A n \in Slot : TapHeldAt(n) /\ FlowsHeldAt(n)
  BY DEF LeaseInv, SlotsInv
<1>4. UNCHANGED <<phase, lease, guard, ingress, req>> /\ alive' \subseteq alive
  BY DEF OwnerExits, Attach, Detach, Traffic, Expire, host
<1>5. Locks' /\ LeasesExclusive' /\ OpenOnlyWhileHeld'
  BY <1>1, <1>4 DEF Locks, LeasesExclusive, OpenOnlyWhileHeld, InJournal, InstanceOfLease
<1>6. \A q \in Request : ClaimsAt(q)' /\ JournalledAt(q)'
  BY <1>2, <1>4 DEF ClaimsAt, Knows, JournalledAt, InJournal, InstanceOfLease
<1>7. \A u \in Token : Installed(u)' <=> Installed(u)
  BY <1>4 DEF Installed, InJournal
<1>8. ASSUME LeaseTypeOK', \A q \in Request : HostReadyAt(q)',
             \A n \in Slot : TapHeldAt(n)' /\ FlowsHeldAt(n)'
      PROVE  LeaseInv'
  BY <1>5, <1>6, <1>8 DEF LeaseInv, RequestsInv, SlotsInv
<1>9. ASSUME UNCHANGED <<tap, up, flows>>, LeaseTypeOK' PROVE LeaseInv'
  <2>1. \A q \in Request : HostReadyAt(q)'
    BY <1>2, <1>4, <1>9 DEF HostReadyAt
  <2>2. ASSUME NEW n \in Slot PROVE TapHeldAt(n)' /\ FlowsHeldAt(n)'
    BY <1>3, <1>4, <1>9 DEF TapHeldAt, FlowsHeldAt, Installed, InJournal
  <2> QED BY <1>8, <1>9, <2>1, <2>2
<1>10. ASSUME NEW o \in Owner, OwnerExits(o) PROVE LeaseInv'
  BY <1>1, <1>9, <1>10 DEF OwnerExits, host, LeaseTypeOK
<1>11. ASSUME NEW s \in Slot, Attach(s) PROVE LeaseInv'
  BY <1>1, <1>9, <1>11 DEF Attach, LeaseTypeOK
<1>12. ASSUME NEW s \in Slot, Detach(s) PROVE LeaseInv'
  <2>1. LeaseTypeOK'
    BY <1>1, <1>12 DEF Detach, LeaseTypeOK
  <2>2. /\ \A n \in Slot : tap'[n] = tap[n] \/ (tap'[n] = NoTap /\ n \notin up')
        /\ up' \subseteq up /\ flows' = flows
    BY <1>1, <1>12 DEF Detach, LeaseTypeOK
  <2>3. ASSUME NEW q \in Request PROVE HostReadyAt(q)'
    <3>1. CASE req[q].pc \notin Working
      BY <1>4, <3>1 DEF HostReadyAt, Working, SettingUp, Revoking, Deleting
    <3>2. CASE req[q].pc \in Working
      <4>1. req[q].token \in Token
        BY <1>2, <3>2 DEF ClaimsAt
      <4>2. lease[req[q].token].slot \in Slot
        BY <1>1, <4>1 DEF LeaseTypeOK, Lease
      <4> QED BY <1>2, <1>4, <2>2, <4>2 DEF HostReadyAt
    <3> QED BY <3>1, <3>2
  <2>4. ASSUME NEW n \in Slot PROVE TapHeldAt(n)'
    BY <1>3, <1>4, <1>7, <2>2 DEF TapHeldAt
  <2>5. ASSUME NEW n \in Slot PROVE FlowsHeldAt(n)'
    BY <1>1, <1>3, <1>4, <1>7, <2>2 DEF FlowsHeldAt, LeaseTypeOK
  <2> QED BY <1>8, <2>1, <2>3, <2>4, <2>5
<1>13. ASSUME NEW s \in Slot, Traffic(s) \/ Expire(s) PROVE LeaseInv'
  <2>1. UNCHANGED <<tap, up, attached, doomed, alive>>
    BY <1>13 DEF Traffic, Expire
  <2>2. \A n \in Slot : \A u \in flows'[n] \ flows[n] : tap[n] = u /\ u \in Token
    BY <1>1, <1>13 DEF Traffic, Expire, LeaseTypeOK
  <2>3. flows' \in [Slot -> SUBSET Token]
    BY <1>1, <1>13 DEF Traffic, Expire, LeaseTypeOK
  <2>4. LeaseTypeOK'
    BY <1>1, <1>4, <2>1, <2>3 DEF LeaseTypeOK
  <2>5. ASSUME NEW q \in Request PROVE HostReadyAt(q)'
    <3>1. CASE req[q].pc \notin Working
      BY <1>4, <3>1 DEF HostReadyAt, Working, SettingUp, Revoking, Deleting
    <3>2. CASE req[q].pc \in Working
      <4>1. req[q].token \in Token
        BY <1>2, <3>2 DEF ClaimsAt
      <4>2. lease[req[q].token].slot \in Slot
        BY <1>1, <4>1 DEF LeaseTypeOK, Lease
      <4>3. HostReadyAt(q)
        BY <1>2
      <4>4. req[q].pc \in {"delete_tables", "remove"} =>
              /\ tap[lease[req[q].token].slot] = NoTap
              /\ req[q].token \notin flows[lease[req[q].token].slot]
        BY <4>3 DEF HostReadyAt
      <4>5. req[q].pc \in {"delete_tables", "remove"} =>
              req[q].token \notin flows'[lease[req[q].token].slot]
        BY <2>2, <4>1, <4>2, <4>4, LeaseAssumption DEF NoTap
      <4> QED BY <1>4, <2>1, <4>3, <4>5 DEF HostReadyAt
    <3> QED BY <3>1, <3>2
  <2>6. ASSUME NEW n \in Slot PROVE TapHeldAt(n)'
    BY <1>3, <1>4, <1>7, <2>1 DEF TapHeldAt
  <2>7. ASSUME NEW n \in Slot, NEW u \in flows'[n] PROVE Installed(u) /\ lease[u].slot = n
    <3>1. CASE u \in flows[n]
      BY <1>3, <3>1 DEF FlowsHeldAt
    <3>2. CASE u \notin flows[n]
      <4>1. tap[n] = u /\ u \in Token /\ u # NoTap /\ u # Unmarked
        BY <2>2, <2>7, <3>2, LeaseAssumption DEF NoTap, Unmarked
      <4> QED BY <1>3, <4>1 DEF TapHeldAt
    <3> QED BY <3>1, <3>2
  <2>8. ASSUME NEW n \in Slot PROVE FlowsHeldAt(n)'
    BY <1>4, <1>7, <2>3, <2>7 DEF FlowsHeldAt
  <2> QED BY <1>8, <2>4, <2>5, <2>6, <2>8
<1> QED BY <1>10, <1>11, <1>12, <1>13

-----------------------------------------------------------------------------
(* The theorems *)

\* Every step preserves the invariant.
LEMMA LeaseInvStep ==
  ASSUME LeaseInv, [LeaseNext]_lvars
  PROVE  LeaseInv'
<1>1. ASSUME NEW r \in Request, RequestStep(r) PROVE LeaseInv'
  <2>1. ASSUME NEW ok \in BOOLEAN, Command(r, ok) PROVE LeaseInv'
    BY <2>1, ReserveStep, CheckHostStep, SavePhaseStep, DenyStep, PurgeStep, AddTapStep,
       MarkTapStep, InstallIngressStep, OpenGuardStep, SetUpStep, RevokeSaveStep,
       RevokeDownStep, RevokeGuardStep, DeleteTapStep, PurgeAgainStep, DeleteTablesStep,
       QuarantineStep, RemoveStep
    DEF Command
  <2>2. ASSUME NEW t \in Token, CleanupLease(r, t) PROVE LeaseInv'
    BY <2>2, CleanupLeaseStep
  <2> QED
    BY <1>1, <2>1, <2>2, LockExecutionStep, FindStep, GivesUpStep, ReloadStep, RevokeReservedStep
    DEF RequestStep
<1>2. ASSUME NEW r \in Request, NewRequest(r) \/ Kill(r) PROVE LeaseInv'
  BY <1>2, NewRequestStep, GivesUpStep
<1>3. CASE UNCHANGED lvars
  BY <1>3
  DEF lvars, LeaseInv, LeaseTypeOK, Locks, LeasesExclusive, OpenOnlyWhileHeld, RequestsInv,
      SlotsInv, ClaimsAt, Knows, JournalledAt, HostReadyAt, TapHeldAt, FlowsHeldAt, Installed,
      InJournal, InstanceOfLease
<1> QED BY <1>1, <1>2, <1>3, EnvironmentStep DEF LeaseNext

\* It holds of a host without leases.
LEMMA LeaseInvInit == LeaseInit => LeaseInv
<1> SUFFICES ASSUME LeaseInit PROVE LeaseInv
  OBVIOUS
<1>1. LeaseTypeOK
  BY LeaseDefaults DEF LeaseInit, LeaseTypeOK, Phase
<1>2. \A r \in Request : req[r].pc = "idle" /\ ~req[r].locked /\ req[r].todo = {}
  BY DEF LeaseInit, IdleReq
<1>3. Locks /\ RequestsInv
  BY <1>2
  DEF Locks, RequestsInv, ClaimsAt, JournalledAt, HostReadyAt,
      Working, SettingUp, Revoking, Deleting
<1>4. LeasesExclusive /\ OpenOnlyWhileHeld /\ SlotsInv
  BY DEF LeaseInit, LeasesExclusive, OpenOnlyWhileHeld, SlotsInv, TapHeldAt, FlowsHeldAt,
         InJournal, Held
<1> QED BY <1>1, <1>3, <1>4 DEF LeaseInv

\* The inductive invariant: locks are exclusive, a request at work has a lease
\* in the journal that nobody else changes, and the host is what journal and
\* request say.
THEOREM LeaseInvHolds == LeaseSpec => []LeaseInv
<1>1. LeaseInv /\ [LeaseNext]_lvars => LeaseInv'
  BY LeaseInvStep
<1> QED
  BY <1>1, LeaseInvInit, PTL DEF LeaseSpec

\* Every state of the activator's leases is well typed.
THEOREM LeasesTyped == LeaseSpec => []LeaseTypeOK
<1>1. LeaseInv => LeaseTypeOK
  BY DEF LeaseInv
<1> QED BY <1>1, LeaseInvHolds, PTL

\* No slot and no execution of a garden has two leases, for any number of
\* gardens, requests and slots and whatever is killed or fails (reserve).
THEOREM SlotsExclusive == LeaseSpec => []LeasesExclusive
<1>1. LeaseInv => LeasesExclusive
  BY DEF LeaseInv
<1> QED BY <1>1, LeaseInvHolds, PTL

\* A TAP is never without the deny table of its lease, nor up without its
\* ingress table (the order of provision and of remove_resources).
THEOREM TapsDenied == LeaseSpec => []DenyProtected
<1>1. LeaseInv => DenyProtected
  <2> SUFFICES ASSUME LeaseInv, NEW s \in Slot
               PROVE  /\ tap[s] # NoTap =>
                           \E t \in Token : /\ InJournal(t) /\ lease[t].slot = s
                                            /\ guard[t] # "none" /\ tap[s] \in {t, Unmarked}
                      /\ s \in up => tap[s] \in ingress
    BY DEF DenyProtected
  <2> QED BY DEF LeaseInv, SlotsInv, TapHeldAt, Installed
<1> QED BY <1>1, LeaseInvHolds, PTL

\* Accept rules exist only for leases in the journal (install_guard).
THEOREM OpenHeld == LeaseSpec => []OpenOnlyWhileHeld
<1>1. LeaseInv => OpenOnlyWhileHeld
  BY DEF LeaseInv
<1> QED BY <1>1, LeaseInvHolds, PTL

\* An address is given to the next lease only when no connection of an earlier
\* one is tracked (purge_connections before the journal file is removed).
THEOREM FlowsFresh == LeaseSpec => []NoStaleFlows
<1>1. LeaseInv => NoStaleFlows
  BY DEF LeaseInv, SlotsInv, FlowsHeldAt, NoStaleFlows, Installed
<1> QED BY <1>1, LeaseInvHolds, PTL
\* Only revoke takes the phase of an active lease away.
LEMMA ActiveOnlyRevoked ==
  ASSUME LeaseInv, [LeaseNext]_lvars, NEW t \in Token,
         phase[t] = "active", phase'[t] # "active"
  PROVE  \E r \in Request : req[r].pc = "revoke" /\ req[r].token = t
<1>1. PICK r \in Request, ok \in BOOLEAN :
        \/ \E u \in Token, s \in 0..Slots : Reserve(r, u, s, ok)
        \/ SaveAllocated(r, ok) \/ SaveActive(r, ok) \/ RevokeSave(r, ok)
        \/ Quarantine(r, ok) \/ Remove(r, ok)
  <2>1. phase' # phase
    OBVIOUS
  <2>2. PICK r \in Request : RequestStep(r)
    <3>1. ~UNCHANGED lvars
      BY <2>1 DEF lvars
    <3>2. ~\E o \in Owner : OwnerExits(o)
      BY <2>1 DEF OwnerExits
    <3>3. ~\E s \in Slot : Attach(s) \/ Detach(s) \/ Traffic(s) \/ Expire(s)
      BY <2>1 DEF Attach, Detach, Traffic, Expire
    <3>4. ~\E r \in Request : NewRequest(r) \/ Kill(r)
      BY <2>1 DEF NewRequest, Provision, Operate, Cleanup, Kill
    <3> QED BY <3>1, <3>2, <3>3, <3>4 DEF LeaseNext
  <2>3. PICK ok \in BOOLEAN : Command(r, ok)
    <3>1. ~(LockExecution(r) \/ Find(r) \/ ReserveRefused(r) \/ EndCleanup(r))
      BY <2>1 DEF LockExecution, Find, ReserveRefused, EndCleanup
    <3>2. ~(Reload(r) \/ RevokeReserved(r) \/ \E u \in Token : CleanupLease(r, u))
      BY <2>1 DEF Reload, RevokeReserved, CleanupLease
    <3> QED BY <2>2, <3>1, <3>2 DEF RequestStep
  <2>4. ~(CheckHost(r, ok) \/ Deny(r, ok) \/ Purge(r, ok) \/ AddTap(r, ok) \/ MarkTap(r, ok))
    BY <2>1 DEF CheckHost, Deny, InstallGuard, Purge, PurgeConnections, AddTap, MarkTap
  <2>5. ~(InstallIngress(r, ok) \/ OpenGuard(r, ok) \/ SetUp(r, ok))
    BY <2>1 DEF InstallIngress, OpenGuard, InstallGuard, SetUp
  <2>6. ~(RevokeDown(r, ok) \/ RevokeGuard(r, ok) \/ DeleteTap(r, ok))
    BY <2>1 DEF RevokeDown, RevokeGuard, InstallGuard, DeleteTap
  <2>7. ~(PurgeAgain(r, ok) \/ DeleteTables(r, ok))
    BY <2>1 DEF PurgeAgain, PurgeConnections, DeleteTables
  <2> QED BY <2>3, <2>4, <2>5, <2>6, <2>7 DEF Command
<1>2. phase \in [Token -> Phase] /\ JournalledAt(r) /\ ClaimsAt(r)
  BY DEF LeaseInv, LeaseTypeOK, RequestsInv
<1>3. ASSUME NEW u \in Token, NEW s \in 0..Slots, Reserve(r, u, s, ok) PROVE FALSE
  BY <1>2, <1>3 DEF Reserve, Save
<1>4. CASE SaveAllocated(r, ok) \/ SaveActive(r, ok)
  <2>1. phase[req[r].token] \in {"reserved", "allocated"}
    BY <1>2, <1>4 DEF SaveAllocated, SaveActive, SavePhase, At, JournalledAt
  <2> QED BY <1>2, <1>4, <2>1 DEF SaveAllocated, SaveActive, SavePhase, Save
<1>5. CASE Quarantine(r, ok) \/ Remove(r, ok)
  <2>1. phase[req[r].token] \in {"reserved", "revoked"}
    BY <1>2, <1>5 DEF Quarantine, Remove, At, JournalledAt, Deleting
  <2> QED BY <1>2, <1>5, <2>1 DEF Quarantine, Remove, Save
<1>6. CASE RevokeSave(r, ok)
  BY <1>2, <1>6 DEF RevokeSave, Save, At
<1> QED BY <1>1, <1>3, <1>4, <1>5, <1>6

\* The active lease of a running garden is revoked only by its owner or by the
\* root hook (the owner check of operate, the liveness check of cleanup).
THEOREM ActiveLeasesKept == LeaseSpec => ActiveKept
<1>1. LeaseInv /\ [LeaseNext]_lvars =>
        \A t \in Token :
          phase[t] = "active" /\ phase'[t] # "active" /\ lease[t].owner \in alive =>
            \E r \in Request : /\ req[r].token = t /\ req[r].pc = "revoke"
                               /\ \/ req[r].owner = NoOne
                                  \/ req[r].owner = lease[t].owner /\ req[r].op # "cleanup"
  <2> SUFFICES ASSUME LeaseInv, [LeaseNext]_lvars, NEW t \in Token,
                      phase[t] = "active", phase'[t] # "active", lease[t].owner \in alive
               PROVE  \E r \in Request :
                        /\ req[r].token = t /\ req[r].pc = "revoke"
                        /\ \/ req[r].owner = NoOne
                           \/ req[r].owner = lease[t].owner /\ req[r].op # "cleanup"
    OBVIOUS
  <2>1. PICK r \in Request : req[r].pc = "revoke" /\ req[r].token = t
    BY ActiveOnlyRevoked
  <2>2. ClaimsAt(r) /\ JournalledAt(r)
    BY DEF LeaseInv, RequestsInv
  <2> QED BY <2>1, <2>2 DEF ClaimsAt, Knows, JournalledAt, Working, Revoking
<1> QED
  BY <1>1, LeaseInvHolds, PTL DEF LeaseSpec, ActiveKept
=============================================================================
