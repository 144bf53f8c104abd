--------------------------- MODULE VmLedgerProofs ---------------------------
(***************************************************************************)
(* Proofs about the VM ledger and its guards, for any number of VMs,       *)
(* budgets, kept results and killed processes.                             *)
(*                                                                         *)
(* HostReserved needs to know where a guard is: only an entry whose guard  *)
(* is done may lose its reservation, and a clean certificate is written    *)
(* when nothing is left on the host.  CertificateRespected and             *)
(* RetainedKept need the order of the certificate and its record, and that *)
(* only clean results are queued for eviction.  WithinBudget needs          *)
(* that only start reserves, and what a sum over a finite set obeys: the   *)
(* module proves it of the fold that the specification adds with, by       *)
(* induction on how many elements the set has.                             *)
(***************************************************************************)
EXTENDS VmLedger, FiniteSetTheorems, SequenceTheorems, WellFoundedInduction, TLAPS

Early == {"none", "spawned", "watching", "registering", "allocating"}
Ended == {"certified", "reporting", "exited"}

\* What a guard has on the host by the time it is where it is, and that it
\* knows of its lease.  A certified teardown has neither formatter nor VMM.
HostAt(i) ==
  LET at == guard[i].pc
      leased == "lease" \in host[i]
  IN  /\ at \in Early => host[i] = {} /\ ~guard[i].lease
      /\ at \in {"formatting", "unformatting"} =>
           host[i] \subseteq {"directory", "formatter"} /\ ~guard[i].lease
      /\ at = "provisioning" => host[i] \subseteq {"directory"} /\ ~guard[i].lease
      /\ at = "admitting" =>
           host[i] \subseteq {"directory", "lease"} /\ (leased <=> guard[i].lease)
      /\ at \in {"running", "stopping"} =>
           host[i] \subseteq {"directory", "lease", "vmm"} /\ (leased <=> guard[i].lease)
      /\ at = "finishing" /\ guard[i].lease => leased
      /\ at = "finishing" /\ guard[i].certified =>
           host[i] \subseteq {"directory", "lease"} /\ (leased <=> guard[i].lease)
      /\ at \in {"certified", "reporting"} /\ guard[i].lease /\ "vmm" \in host[i] => leased
      /\ at = "exited" => ~guard[i].lease

\* A certificate is left at the end, and a clean one when nothing is left.
CertificateAt(i) ==
  /\ ets[i].terminal # "none" => guard[i].pc \in Ended
  /\ ets[i].terminal = "ok" => host[i] = {}

\* Before its controller runs, a VM has no guard and nobody writes for it.
ExecutionAt(i) ==
  /\ exec[i] \in {"none", "requested", "refused"} => guard[i].pc = "none"
  /\ guard[i].pc = "none" => mail[i] = <<>>
  /\ entries[i].phase = "new" => exec[i] = "none"

\* An entry that is not active has a guard that is done, if any, and will get
\* no other; one that holds no reservation has nothing on the host.
EntryAt(i) ==
  /\ entries[i].phase # "active" => guard[i].pc \in Ended \cup {"none"} /\ exec[i] # "requested"
  /\ entries[i].phase = "retained" => guard[i].pc \in Ended /\ ets[i].terminal # "ok"
  /\ entries[i].phase \in {"new", "clean", "gone"} => host[i] = {}
  /\ entries[i].reserved <=> entries[i].phase \in {"active", "retained"}

VmAt(i) == HostAt(i) /\ CertificateAt(i) /\ ExecutionAt(i) /\ EntryAt(i)

\* Only clean results are queued for eviction, and those evicted already; no
\* more than the limit.
Queued ==
  /\ \A k \in DOMAIN order : entries[order[k]].phase \in {"clean", "gone"}
  /\ Len(order) <= ResultLimit

\* What recovery completes is finite.
FewActive == IsFiniteSet(Active(entries))

VmInv == (\A i \in Id : VmAt(i)) /\ Queued /\ FewActive

-----------------------------------------------------------------------------
(* Steps that leave a VM as it is *)

\* Nothing changes that the invariant of a VM depends on.
Same(i) ==
  /\ guard'[i].pc = guard[i].pc /\ guard'[i].lease = guard[i].lease
  /\ guard'[i].certified = guard[i].certified
  /\ host'[i] = host[i] /\ ets'[i].terminal = ets[i].terminal
  /\ exec'[i] = exec[i] /\ mail'[i] = mail[i]
  /\ entries'[i].phase = entries[i].phase /\ entries'[i].reserved = entries[i].reserved

LEMMA SameKept ==
  ASSUME NEW i \in Id, VmAt(i), Same(i)
  PROVE  VmAt(i)'
<1>1. HostAt(i)'
  BY DEF VmAt, HostAt, Same
<1>2. CertificateAt(i)' /\ ExecutionAt(i)' /\ EntryAt(i)'
  BY DEF VmAt, CertificateAt, ExecutionAt, EntryAt, Same
<1> QED BY <1>1, <1>2 DEF VmAt

\* What a step must do: keep types and invariant, and failed cleanups.
Stepped ==
  /\ VmTypeOK' /\ VmInv'
  /\ \A i \in Id : entries[i].phase = "retained" => entries'[i].phase = "retained"

\* Steps that neither complete, evict nor admit.
LEMMA PhasesKept ==
  ASSUME VmTypeOK, VmInv, VmTypeOK', order' = order,
         \A i \in Id : entries'[i].phase = entries[i].phase,
         \A i \in Id : VmAt(i)'
  PROVE  Stepped
<1>1. Active(entries') = Active(entries)
  BY DEF Active
<1>2. \A k \in DOMAIN order : order[k] \in Id
  BY DEF VmTypeOK
<1>3. Queued'
  BY <1>2 DEF VmInv, Queued
<1> QED BY <1>1, <1>3 DEF Stepped, VmInv, FewActive

\* Telling guards to stop changes nothing else of them.
LEMMA AskFacts ==
  ASSUME guard \in [Id -> Guard]
  PROVE  /\ \A ids : Ask(ids) \in [Id -> Guard]
         /\ \A e : Drain(e) \in [Id -> Guard]
         /\ \A ids : \A i \in Id : /\ Ask(ids)[i].pc = guard[i].pc /\ Ask(ids)[i].lease = guard[i].lease
                                   /\ Ask(ids)[i].certified = guard[i].certified
         /\ \A e : \A i \in Id : /\ Drain(e)[i].pc = guard[i].pc /\ Drain(e)[i].lease = guard[i].lease
                                 /\ Drain(e)[i].certified = guard[i].certified
<1>1. ASSUME NEW ids, NEW i \in Id
      PROVE  /\ Ask(ids)[i] \in Guard /\ Ask(ids)[i].pc = guard[i].pc
             /\ Ask(ids)[i].lease = guard[i].lease /\ Ask(ids)[i].certified = guard[i].certified
  <2>1. guard[i] \in Guard
    OBVIOUS
  <2>2. Ask(ids)[i] = [guard[i] EXCEPT !.asked = @ \/ i \in ids]
    BY DEF Ask
  <2>3. (guard[i].asked \/ i \in ids) \in BOOLEAN
    OBVIOUS
  <2> QED BY <2>1, <2>2, <2>3 DEF Guard
<1>2. \A ids : Ask(ids) \in [Id -> Guard]
  <2> SUFFICES ASSUME NEW ids PROVE Ask(ids) \in [Id -> Guard]
    OBVIOUS
  <2>1. Ask(ids) = [i \in Id |-> [guard[i] EXCEPT !.asked = @ \/ i \in ids]]
    BY DEF Ask
  <2> QED BY <1>1, <2>1
<1>3. \A e : Drain(e) = Ask({i \in Active(e) : Cancellable(e, i)})
  BY DEF Drain
<1> QED BY <1>1, <1>2, <1>3

\* Settling: the mode stays one, and waiters are answered or not.
LEMMA SettleTyped ==
  ASSUME NEW m \in {"down", "recovering", "open", "shutdown"}, NEW e \in [Id -> Entry],
         NEW mg \in {"none", "live", "dead"}, NEW sv \in {"none", "live", "dead"},
         NEW sh \in [waiting: BOOLEAN, timer: BOOLEAN], Settle(m, e, mg, sv, sh)
  PROVE  /\ mode' \in {"down", "recovering", "open", "shutdown"} /\ entries' = e
         /\ manager' \in {"none", "live", "dead"} /\ supervisor' \in {"none", "live", "dead"}
         /\ shut' \in [waiting: BOOLEAN, timer: BOOLEAN]
BY DEF Settle

\* What the ledger writes into an entry.
LEMMA EntryFacts ==
  ASSUME NEW e \in Entry
  PROVE  /\ \A b \in BOOLEAN :
              /\ [e EXCEPT !.execution = b] \in Entry /\ [e EXCEPT !.guard = b] \in Entry
              /\ [e EXCEPT !.directory = b] \in Entry /\ [e EXCEPT !.reserved = b] \in Entry
              /\ [e EXCEPT !.execution = b].phase = e.phase /\ [e EXCEPT !.execution = b].reserved = e.reserved
              /\ [e EXCEPT !.guard = b].phase = e.phase /\ [e EXCEPT !.guard = b].reserved = e.reserved
              /\ [e EXCEPT !.directory = b].phase = e.phase /\ [e EXCEPT !.directory = b].reserved = e.reserved
         /\ \A p \in Phase : Blank(p) \in Entry
BY DEF Entry, Blank

\* Manager, supervisor, shutdown, cancellation and the news of deaths.
QuietStep ==
  \/ AttachManager \/ AttachSupervisor \/ KillManager \/ ManagerDown \/ SupervisorDown
  \/ Shutdown \/ ShutdownDeadline
  \/ \E i \in Id : Started(i) \/ Cancel(i) \/ ExecutionDown(i)

LEMMA QuietStepped ==
  ASSUME VmTypeOK, VmAssumption, VmInv, QuietStep
  PROVE  Stepped /\ host' = host
<1> DEFINE Modes == {"down", "recovering", "open", "shutdown"}
           Pids == {"none", "live", "dead"}
           Watches == ({"manager", "supervisor"} \X {None}) \cup ({"execution", "guard"} \X Id)
<1>1. /\ entries \in [Id -> Entry] /\ guard \in [Id -> Guard] /\ mode \in Modes
      /\ manager \in Pids /\ supervisor \in Pids /\ shut \in [waiting: BOOLEAN, timer: BOOLEAN]
      /\ monitors \subseteq Watches /\ calling \in Id \cup {None} /\ faults \in 0..MaxFaults
      /\ MaxFaults \in Nat
  BY DEF VmTypeOK, VmAssumption
<1>2. /\ \A ids : Ask(ids) \in [Id -> Guard]
      /\ \A e : Drain(e) \in [Id -> Guard]
      /\ \A ids : \A i \in Id : /\ Ask(ids)[i].pc = guard[i].pc /\ Ask(ids)[i].lease = guard[i].lease
                                /\ Ask(ids)[i].certified = guard[i].certified
      /\ \A e : \A i \in Id : /\ Drain(e)[i].pc = guard[i].pc /\ Drain(e)[i].lease = guard[i].lease
                              /\ Drain(e)[i].certified = guard[i].certified
  BY <1>1, AskFacts
<1>3. order' = order /\ exec' = exec /\ mail' = mail /\ ets' = ets /\ host' = host
  BY DEF QuietStep, AttachManager, AttachSupervisor, KillManager, ManagerDown, SupervisorDown,
     Shutdown, ShutdownDeadline, Started, Cancel, ExecutionDown, procs
<1>4. \/ guard' = guard
      \/ \E e : guard' = Drain(e)
      \/ \E ids : guard' = Ask(ids)
  BY DEF QuietStep, AttachManager, AttachSupervisor, KillManager, ManagerDown, SupervisorDown,
     Shutdown, ShutdownDeadline, Started, Cancel, ExecutionDown, procs
<1>5. /\ guard' \in [Id -> Guard]
      /\ \A i \in Id : /\ guard'[i].pc = guard[i].pc /\ guard'[i].lease = guard[i].lease
                       /\ guard'[i].certified = guard[i].certified
  BY <1>1, <1>2, <1>4
<1>6. /\ entries' \in [Id -> Entry]
      /\ \A i \in Id : /\ entries'[i].phase = entries[i].phase
                       /\ entries'[i].reserved = entries[i].reserved
  <2>1. CASE \E i \in Id : Started(i)
    <3>1. PICK j \in Id : Started(j)
      BY <2>1
    <3>2. entries' = [entries EXCEPT ![j].execution = TRUE]
      BY <3>1 DEF Started
    <3>3. /\ [entries[j] EXCEPT !.execution = TRUE] \in Entry
          /\ [entries[j] EXCEPT !.execution = TRUE].phase = entries[j].phase
          /\ [entries[j] EXCEPT !.execution = TRUE].reserved = entries[j].reserved
      BY <1>1, EntryFacts
    <3> DEFINE x == [entries[j] EXCEPT !.execution = TRUE]
    <3>4. entries' = [entries EXCEPT ![j] = x]
      BY <3>2
    <3>5. x \in Entry /\ x.phase = entries[j].phase /\ x.reserved = entries[j].reserved
      BY <3>3
    <3> HIDE DEF x
    <3> QED BY <1>1, <3>4, <3>5
  <2>2. CASE ~\E i \in Id : Started(i)
    <3>1. entries' = entries
      BY <2>2 DEF QuietStep, AttachManager, AttachSupervisor, KillManager, ManagerDown, SupervisorDown,
         Shutdown, ShutdownDeadline, Cancel, ExecutionDown, Settle
    <3> QED BY <1>1, <3>1
  <2> QED BY <2>1, <2>2
<1>7. /\ mode' \in Modes /\ manager' \in Pids /\ supervisor' \in Pids
      /\ shut' \in [waiting: BOOLEAN, timer: BOOLEAN]
  <2>1. RecoveryMode \in Modes
    BY DEF RecoveryMode
  <2>2. [shut EXCEPT !.waiting = TRUE, !.timer = TRUE] \in [waiting: BOOLEAN, timer: BOOLEAN]
    BY <1>1
  <2>3. CASE AttachManager \/ AttachSupervisor \/ ManagerDown \/ SupervisorDown
    <3>1. PICK m \in Modes, mg \in Pids, sv \in Pids : Settle(m, entries, mg, sv, shut)
      <4>1. "live" \in Pids /\ "none" \in Pids
        OBVIOUS
      <4> HIDE DEF Modes, Pids
      <4> QED BY <1>1, <2>1, <2>3, <4>1 DEF AttachManager, AttachSupervisor, ManagerDown, SupervisorDown
    <3> QED BY <1>1, <3>1, SettleTyped
  <2>4. CASE Shutdown
    BY <1>1, <2>2, <2>4 DEF Shutdown, Settle
  <2>5. CASE KillManager \/ ShutdownDeadline
    <3>1. CASE KillManager
      BY <1>1, <3>1 DEF KillManager
    <3>2. CASE ShutdownDeadline
      BY <1>1, <3>2 DEF ShutdownDeadline
    <3> QED BY <2>5, <3>1, <3>2
  <2>6. CASE \E i \in Id : Started(i) \/ Cancel(i) \/ ExecutionDown(i)
    <3>1. CASE \E i \in Id : Started(i) \/ Cancel(i)
      BY <1>1, <3>1 DEF Started, Cancel
    <3>2. CASE \E i \in Id : ExecutionDown(i)
      <4>1. Settle(mode, entries, manager, supervisor, shut)
        BY <3>2 DEF ExecutionDown
      <4> QED BY <1>1, <4>1, SettleTyped
    <3> QED BY <2>6, <3>1, <3>2
  <2> QED BY <2>3, <2>4, <2>5, <2>6 DEF QuietStep
<1>8. monitors' \subseteq Watches
  <2>1. /\ <<"manager", None>> \in Watches /\ <<"supervisor", None>> \in Watches
        /\ \A i \in Id : <<"execution", i>> \in Watches
    OBVIOUS
  <2>2. Watched("manager", "live") = {<<"manager", None>>}
        /\ Watched("supervisor", "live") = {<<"supervisor", None>>}
    BY DEF Watched
  <2> HIDE DEF Watches
  <2>3. CASE AttachManager \/ AttachSupervisor \/ ManagerDown \/ SupervisorDown
    BY <1>1, <2>1, <2>2, <2>3 DEF AttachManager, AttachSupervisor, ManagerDown, SupervisorDown
  <2>4. CASE KillManager \/ Shutdown \/ ShutdownDeadline
    BY <1>1, <2>4 DEF KillManager, Shutdown, ShutdownDeadline
  <2>5. CASE \E i \in Id : Started(i) \/ Cancel(i) \/ ExecutionDown(i)
    BY <1>1, <2>1, <2>5 DEF Started, Cancel, ExecutionDown
  <2> QED BY <2>3, <2>4, <2>5 DEF QuietStep
<1>9. calling' \in Id \cup {None}
  BY <1>1 DEF QuietStep, AttachManager, AttachSupervisor, KillManager, ManagerDown, SupervisorDown,
     Shutdown, ShutdownDeadline, Started, Cancel, ExecutionDown
<1>10. faults' \in 0..MaxFaults
  <2>1. faults' = faults \/ (faults < MaxFaults /\ faults' = faults + 1)
    BY DEF QuietStep, AttachManager, AttachSupervisor, KillManager, ManagerDown, SupervisorDown,
       Shutdown, ShutdownDeadline, Started, Cancel, ExecutionDown
  <2> QED BY <1>1, <2>1
<1>11. VmTypeOK'
  BY <1>3, <1>5, <1>6, <1>7, <1>8, <1>9, <1>10 DEF VmTypeOK
<1>12. \A i \in Id : VmAt(i)'
  <2> SUFFICES ASSUME NEW i \in Id PROVE VmAt(i)'
    OBVIOUS
  <2>1. Same(i)
    BY <1>3, <1>5, <1>6 DEF Same
  <2> QED BY <2>1, SameKept DEF VmInv
<1> QED BY <1>3, <1>6, <1>11, <1>12, PhasesKept

\* The supervisor takes its controllers with it.
LEMMA SupervisorKilled ==
  ASSUME VmTypeOK, VmAssumption, VmInv, KillSupervisor
  PROVE  Stepped /\ host' = host
<1>1. /\ entries' = entries /\ order' = order /\ guard' = guard /\ mail' = mail /\ ets' = ets
      /\ host' = host /\ mode' = mode /\ monitors' = monitors /\ calling' = calling
      /\ manager' = manager /\ shut' = shut /\ supervisor' = "dead"
      /\ faults < MaxFaults /\ faults' = faults + 1
  BY DEF KillSupervisor
<1>2. exec \in [Id -> {"none", "requested", "refused", "alive", "dead"}]
  BY DEF VmTypeOK
<1>3. \A i \in Id : exec'[i] = CASE exec[i] = "alive" -> "dead"
                                 [] exec[i] = "requested" -> "none"
                                 [] OTHER -> exec[i]
  BY DEF KillSupervisor
<1>4. exec' \in [Id -> {"none", "requested", "refused", "alive", "dead"}]
  BY <1>2 DEF KillSupervisor
<1>5. faults' \in 0..MaxFaults
  BY <1>1 DEF VmTypeOK, VmAssumption
<1>6. VmTypeOK'
  BY <1>1, <1>4, <1>5 DEF VmTypeOK
<1>7. ASSUME NEW i \in Id PROVE VmAt(i)'
  <2>1. VmAt(i)
    BY DEF VmInv
  <2>2. HostAt(i)' /\ CertificateAt(i)'
    BY <1>1, <2>1 DEF VmAt, HostAt, CertificateAt
  <2>3. ExecutionAt(i)' /\ EntryAt(i)'
    BY <1>1, <1>2, <1>3, <2>1 DEF VmAt, ExecutionAt, EntryAt
  <2> QED BY <2>2, <2>3 DEF VmAt
<1> QED BY <1>1, <1>6, <1>7, PhasesKept

\* The ledger dies: whoever waits for its reply goes on without one.
LEMMA DiesStepped ==
  ASSUME VmTypeOK, VmAssumption, VmInv, Dies, faults' \in 0..MaxFaults
  PROVE  Stepped /\ host' = host
<1>1. /\ entries' = entries /\ order' = order /\ exec' = exec /\ ets' = ets /\ host' = host
      /\ mode' = "down" /\ monitors' = {} /\ calling' = None /\ manager' = manager
      /\ supervisor' = supervisor /\ mail' = [i \in Id |-> <<>>]
      /\ shut' = [shut EXCEPT !.timer = FALSE]
  BY DEF Dies
<1>2. guard \in [Id -> Guard]
  BY DEF VmTypeOK
<1>3. guard' = [i \in Id |->
         CASE guard[i].pc = "reporting" -> Idle("exited")
           [] guard[i].pc = "registering" ->
                [guard[i] EXCEPT !.pc = "finishing", !.certified = TRUE]
           [] OTHER -> [guard[i] EXCEPT !.asked = @ \/ guard[i].watches]]
  BY DEF Dies
<1>4. ASSUME NEW i \in Id
      PROVE  /\ guard'[i] \in Guard
             /\ \/ /\ guard[i].pc = "reporting" /\ guard'[i] = Idle("exited")
                \/ /\ guard[i].pc = "registering" /\ guard'[i].pc = "finishing"
                   /\ guard'[i].certified = TRUE /\ guard'[i].lease = guard[i].lease
                \/ /\ guard'[i].pc = guard[i].pc /\ guard'[i].lease = guard[i].lease
                   /\ guard'[i].certified = guard[i].certified
  <2>1. guard[i] \in Guard
    BY <1>2
  <2>2. CASE guard[i].pc = "reporting"
    BY <1>3, <2>2 DEF Idle, Guard, Place
  <2>3. CASE guard[i].pc = "registering"
    <3>1. guard'[i] = [guard[i] EXCEPT !.pc = "finishing", !.certified = TRUE]
      BY <1>3, <2>3
    <3> QED BY <2>1, <2>3, <3>1 DEF Guard, Place
  <2>4. CASE guard[i].pc \notin {"reporting", "registering"}
    <3>1. guard'[i] = [guard[i] EXCEPT !.asked = @ \/ guard[i].watches]
      BY <1>3, <2>4
    <3>2. (guard[i].asked \/ guard[i].watches) \in BOOLEAN
      OBVIOUS
    <3> QED BY <2>1, <3>1, <3>2 DEF Guard
  <2> QED BY <2>2, <2>3, <2>4
<1>5. guard' \in [Id -> Guard]
  <2>1. \A i \in Id : guard'[i] \in Guard
    BY <1>4
  <2> QED BY <1>3, <2>1
<1>6. shut' \in [waiting: BOOLEAN, timer: BOOLEAN]
  BY <1>1 DEF VmTypeOK
<1>7. mail' \in [Id -> Seq({"guard_started", "status", "finished"})]
  BY <1>1
<1>8. VmTypeOK'
  BY <1>1, <1>5, <1>6, <1>7 DEF VmTypeOK
<1>9. ASSUME NEW i \in Id PROVE VmAt(i)'
  <2>1. VmAt(i) /\ mail'[i] = <<>>
    BY <1>1 DEF VmInv
  <2>2. Idle("exited").pc = "exited" /\ Idle("exited").lease = FALSE
    BY DEF Idle
  <2>3. HostAt(i)'
    BY <1>1, <1>4, <2>1, <2>2 DEF VmAt, HostAt, Early
  <2>4. CertificateAt(i)' /\ ExecutionAt(i)' /\ EntryAt(i)'
    BY <1>1, <1>4, <2>1, <2>2 DEF VmAt, CertificateAt, ExecutionAt, EntryAt, Ended
  <2> QED BY <2>3, <2>4 DEF VmAt
<1> QED BY <1>1, <1>8, <1>9, PhasesKept
-----------------------------------------------------------------------------
(* Completion and eviction *)

\* What evict does to a queue: it keeps the end of it, within the limit.
LEMMA EvictFacts ==
  ASSUME VmAssumption, NEW q \in Seq(Id)
  PROVE  /\ EvictOrder(q) \in Seq(Id) /\ Len(EvictOrder(q)) <= ResultLimit
         /\ Evicted(q) \subseteq Id
         /\ \A i \in Evicted(q) : \E j \in DOMAIN q : i = q[j]
         /\ \A k \in DOMAIN EvictOrder(q) : \E j \in DOMAIN q : EvictOrder(q)[k] = q[j]
         /\ Len(q) <= ResultLimit => Evicted(q) = {}
<1>1. Len(q) \in Nat /\ ResultLimit \in Nat /\ DOMAIN q = 1..Len(q) /\ \A j \in 1..Len(q) : q[j] \in Id
  BY LenProperties DEF VmAssumption
<1>2. Evicted(q) \subseteq Id /\ \A i \in Evicted(q) : \E j \in DOMAIN q : i = q[j]
  BY <1>1 DEF Evicted
<1>3. Len(q) <= ResultLimit => Evicted(q) = {}
  <2> SUFFICES ASSUME Len(q) <= ResultLimit, NEW j \in 1..Len(q), j + ResultLimit <= Len(q)
               PROVE  FALSE
    BY <1>1 DEF Evicted
  <2> QED BY <1>1
<1>4. CASE Len(q) <= ResultLimit
  <2>1. EvictOrder(q) = q
    BY <1>1, <1>4 DEF EvictOrder
  <2> QED BY <1>1, <1>2, <1>3, <1>4, <2>1
<1>5. CASE Len(q) > ResultLimit
  <2> DEFINE m == Len(q) - ResultLimit + 1
  <2>1. EvictOrder(q) = SubSeq(q, m, Len(q))
    BY <1>5 DEF EvictOrder
  <2>2. m \in 1..Len(q) + 1 /\ Len(q) - m + 1 = ResultLimit /\ (m <= Len(q) \/ ResultLimit = 0)
    BY <1>1, <1>5
  <2>3. \A k \in m..Len(q) : q[k] \in Id
    BY <1>1, <2>2
  <2> HIDE DEF m
  <2>4. /\ SubSeq(q, m, Len(q)) \in Seq(Id)
        /\ Len(SubSeq(q, m, Len(q))) = IF m <= Len(q) THEN Len(q) - m + 1 ELSE 0
        /\ \A k \in 1..Len(q) - m + 1 : SubSeq(q, m, Len(q))[k] = q[m + k - 1]
    BY <1>1, <2>2, <2>3, SubSeqProperties
  <2>5. Len(EvictOrder(q)) = ResultLimit
    BY <1>1, <2>1, <2>2, <2>4
  <2>6. ASSUME NEW k \in DOMAIN EvictOrder(q) PROVE \E j \in DOMAIN q : EvictOrder(q)[k] = q[j]
    <3>1. EvictOrder(q) \in Seq(Id) /\ k \in 1..ResultLimit
      BY <2>1, <2>4, <2>5, LenProperties
    <3>2. m + k - 1 \in DOMAIN q /\ EvictOrder(q)[k] = q[m + k - 1]
      BY <1>1, <2>1, <2>2, <2>4, <3>1
    <3> QED BY <3>2
  <2> QED BY <1>1, <1>2, <1>3, <2>1, <2>4, <2>5, <2>6
<1> QED BY <1>1, <1>4, <1>5

\* What complete may make of an entry, before it evicts: nothing, or the record
\* of a guard that is done, clean exactly if its certificate is.
Settled(e, i) ==
  \/ e[i].phase = entries[i].phase /\ e[i].reserved = entries[i].reserved
  \/ /\ entries[i].phase = "active" /\ guard[i].pc # "none" /\ guard'[i].pc \in Ended
     /\ \/ e[i].phase = "clean" /\ e[i].reserved = FALSE /\ ets[i].terminal = "ok"
        \/ e[i].phase = "retained" /\ e[i].reserved = TRUE /\ ets[i].terminal # "ok"

\* What a message may do to a guard: nothing, or end it.
Answered(i) ==
  /\ \/ guard'[i] = Idle("exited") /\ guard[i].pc # "none"
     \/ /\ guard'[i].pc = guard[i].pc /\ guard'[i].lease = guard[i].lease
        /\ guard'[i].certified = guard[i].certified
  /\ mail'[i] = mail[i] \/ guard[i].pc # "none"

LEMMA EvictedAt ==
  ASSUME VmTypeOK, NEW i \in Id, VmAt(i), NEW e, NEW q, Settled(e, i), Answered(i),
         entries'[i] = IF i \in Evicted(q) THEN Blank("gone") ELSE e[i],
         ets'[i] = IF i \in Evicted(q) THEN Unwritten ELSE ets[i],
         i \in Evicted(q) => e[i].phase \in {"clean", "gone"},
         exec' = exec, host' = host
  PROVE  /\ VmAt(i)'
         /\ entries[i].phase = "retained" => entries'[i].phase = "retained"
         /\ entries'[i].phase = "active" => entries[i].phase = "active"
<1>1. /\ Blank("gone").phase = "gone" /\ Blank("gone").reserved = FALSE
      /\ Unwritten.terminal = "none" /\ Idle("exited").pc = "exited" /\ Idle("exited").lease = FALSE
  BY DEF Blank, Unwritten, Idle
<1>2. \/ /\ guard'[i].pc = "exited" /\ guard'[i].lease = FALSE /\ guard[i].pc # "none"
      \/ /\ guard'[i].pc = guard[i].pc /\ guard'[i].lease = guard[i].lease
         /\ guard'[i].certified = guard[i].certified
  BY <1>1 DEF Answered
<1>3. HostAt(i)'
  BY <1>2 DEF VmAt, HostAt, Early
<1>4. CertificateAt(i)'
  BY <1>1, <1>2 DEF VmAt, CertificateAt, Ended
<1>5. CASE e[i].phase = entries[i].phase /\ e[i].reserved = entries[i].reserved
  <2>1. ExecutionAt(i)'
    BY <1>1, <1>2, <1>5 DEF VmAt, ExecutionAt, Answered
  <2>2. EntryAt(i)'
    BY <1>1, <1>2, <1>5 DEF VmAt, EntryAt, Ended
  <2> QED BY <1>1, <1>3, <1>4, <1>5, <2>1, <2>2 DEF VmAt
<1>6. CASE /\ entries[i].phase = "active" /\ guard[i].pc # "none" /\ guard'[i].pc \in Ended
           /\ e[i].phase = "clean" /\ e[i].reserved = FALSE /\ ets[i].terminal = "ok"
  <2>1. ExecutionAt(i)'
    BY <1>1, <1>6 DEF VmAt, ExecutionAt, Ended
  <2>2. EntryAt(i)'
    BY <1>1, <1>6 DEF VmAt, EntryAt, ExecutionAt, CertificateAt
  <2> QED BY <1>1, <1>3, <1>4, <1>6, <2>1, <2>2 DEF VmAt
<1>7. CASE /\ entries[i].phase = "active" /\ guard[i].pc # "none" /\ guard'[i].pc \in Ended
           /\ e[i].phase = "retained" /\ e[i].reserved = TRUE /\ ets[i].terminal # "ok"
  <2>1. ExecutionAt(i)'
    BY <1>1, <1>7 DEF VmAt, ExecutionAt, Ended
  <2>2. EntryAt(i)'
    BY <1>1, <1>7 DEF VmAt, EntryAt, ExecutionAt
  <2> QED BY <1>1, <1>3, <1>4, <1>7, <2>1, <2>2 DEF VmAt
<1> QED BY <1>5, <1>6, <1>7 DEF Settled

\* A step that completes entries and evicts what is beyond the limit.
LEMMA EvictStepped ==
  ASSUME VmTypeOK, VmAssumption, VmInv, NEW e \in [Id -> Entry], NEW q \in Seq(Id),
         \A k \in DOMAIN q : e[q[k]].phase \in {"clean", "gone"},
         \A i \in Id : Settled(e, i) /\ Answered(i),
         entries' = Evict(e, q), order' = EvictOrder(q), EvictTable(q), exec' = exec, host' = host,
         guard' \in [Id -> Guard], mail' \in [Id -> Seq({"guard_started", "status", "finished"})],
         mode' \in {"down", "recovering", "open", "shutdown"},
         monitors' \subseteq ({"manager", "supervisor"} \X {None}) \cup ({"execution", "guard"} \X Id),
         manager' \in {"none", "live", "dead"}, supervisor' \in {"none", "live", "dead"},
         shut' \in [waiting: BOOLEAN, timer: BOOLEAN], calling' = calling, faults' = faults
  PROVE  Stepped
<1>1. /\ EvictOrder(q) \in Seq(Id) /\ Len(EvictOrder(q)) <= ResultLimit /\ Evicted(q) \subseteq Id
      /\ \A i \in Evicted(q) : \E j \in DOMAIN q : i = q[j]
      /\ \A k \in DOMAIN EvictOrder(q) : \E j \in DOMAIN q : EvictOrder(q)[k] = q[j]
  BY EvictFacts
<1>2. \A i \in Id : /\ entries'[i] = IF i \in Evicted(q) THEN Blank("gone") ELSE e[i]
                    /\ ets'[i] = IF i \in Evicted(q) THEN Unwritten ELSE ets[i]
  BY DEF Evict, EvictTable
<1>3. \A i \in Evicted(q) : e[i].phase \in {"clean", "gone"}
  BY <1>1
<1>4. Blank("gone") \in Entry /\ Unwritten \in Table /\ Blank("gone").phase = "gone"
  BY DEF Blank, Entry, Phase, Unwritten, Table
<1>5. entries' \in [Id -> Entry] /\ ets' \in [Id -> Table]
  <2>1. ets \in [Id -> Table]
    BY DEF VmTypeOK
  <2> QED BY <1>4, <2>1 DEF Evict, EvictTable
<1>6. VmTypeOK'
  BY <1>1, <1>5 DEF VmTypeOK
<1>7. ASSUME NEW i \in Id
      PROVE  /\ VmAt(i)'
             /\ entries[i].phase = "retained" => entries'[i].phase = "retained"
             /\ entries'[i].phase = "active" => entries[i].phase = "active"
  BY <1>2, <1>3, EvictedAt DEF VmInv
<1>8. FewActive'
  <2>1. Active(entries') \subseteq Active(entries)
    BY <1>7 DEF Active
  <2> QED BY <2>1, FS_Subset DEF VmInv, FewActive
<1>9. Queued'
  <2>1. ASSUME NEW k \in DOMAIN order' PROVE entries'[order'[k]].phase \in {"clean", "gone"}
    <3>1. PICK j \in DOMAIN q : order'[k] = q[j]
      BY <1>1
    <3>2. q[j] \in Id
      OBVIOUS
    <3> QED BY <1>2, <1>4, <3>1, <3>2
  <2> QED BY <1>1, <2>1 DEF Queued
<1> QED BY <1>6, <1>7, <1>8, <1>9 DEF Stepped, VmInv

\* complete, of an entry whose guard is done or done with: what it writes.
LEMMA CompleteFacts ==
  ASSUME VmTypeOK, VmAssumption, VmInv, NEW i \in Id, NEW e \in [Id -> Entry],
         \A j \in Id : e[j].phase = entries[j].phase /\ e[j].reserved = entries[j].reserved,
         NEW ok \in BOOLEAN, ok <=> ets[i].terminal = "ok",
         guard[i].pc # "none", guard'[i].pc \in Ended
  PROVE  \E f \in [Id -> Entry] :
           /\ Complete(e, i, ok) = Evict(f, Queue(e, i, ok)) /\ Queue(e, i, ok) \in Seq(Id)
           /\ \A k \in DOMAIN Queue(e, i, ok) : f[Queue(e, i, ok)[k]].phase \in {"clean", "gone"}
           /\ \A j \in Id : Settled(f, j)
<1> DEFINE q == Queue(e, i, ok)
           Good(f) == /\ Complete(e, i, ok) = Evict(f, q) /\ q \in Seq(Id)
                      /\ \A k \in DOMAIN q : f[q[k]].phase \in {"clean", "gone"}
                      /\ \A j \in Id : Settled(f, j)
<1>1. order \in Seq(Id) /\ Len(order) \in Nat /\ DOMAIN order = 1..Len(order)
      /\ \A k \in 1..Len(order) : order[k] \in Id /\ entries[order[k]].phase \in {"clean", "gone"}
  BY LenProperties DEF VmTypeOK, VmInv, Queued
<1>2. CASE ~Completes(e, i)
  <2>1. q = order /\ Complete(e, i, ok) = e
    BY <1>2 DEF Queue, Complete
  <2>2. Evicted(order) = {}
    BY <1>1, EvictFacts DEF VmInv, Queued
  <2>3. Evict(e, order) = e
    BY <2>2 DEF Evict
  <2>4. \A j \in Id : Settled(e, j)
    BY DEF Settled
  <2>5. Good(e)
    <3> HIDE DEF q
    <3> QED BY <1>1, <2>1, <2>3, <2>4
  <2> QED BY <2>5
<1>3. CASE Completes(e, i)
  <2> DEFINE f == Completed(e, i, ok)
  <2>1. e[i].phase = "active" /\ entries[i].phase = "active" /\ e[i] \in Entry
    BY <1>3 DEF Completes
  <2>2. f = [e EXCEPT ![i] = [e[i] EXCEPT !.phase = IF ok THEN "clean" ELSE "retained",
                                          !.reserved = ~ok]]
    BY DEF Completed
  <2>3. f[i] = [e[i] EXCEPT !.phase = IF ok THEN "clean" ELSE "retained", !.reserved = ~ok]
        /\ \A j \in Id \ {i} : f[j] = e[j]
    BY <2>2
  <2>4. f[i] \in Entry /\ f[i].phase = (IF ok THEN "clean" ELSE "retained") /\ f[i].reserved = ~ok
    <3>1. (IF ok THEN "clean" ELSE "retained") \in Phase /\ (~ok) \in BOOLEAN
      BY DEF Phase
    <3> DEFINE p == IF ok THEN "clean" ELSE "retained"
               b == ~ok
    <3>2. p \in Phase /\ b \in BOOLEAN
      BY <3>1
    <3>3. f[i] = [e[i] EXCEPT !.phase = p, !.reserved = b]
      BY <2>3
    <3> HIDE DEF p, b
    <3>4. f[i] \in Entry /\ f[i].phase = p /\ f[i].reserved = b
      BY <2>1, <3>2, <3>3 DEF Entry
    <3> QED BY <3>4 DEF p, b
  <2>5. f \in [Id -> Entry]
    BY <2>2, <2>3, <2>4
  <2> HIDE DEF f
  <2>6. ASSUME NEW j \in Id PROVE Settled(f, j)
    <3>1. CASE j = i
      BY <2>1, <2>4, <3>1 DEF Settled
    <3>2. CASE j # i
      BY <2>3, <3>2 DEF Settled
    <3> QED BY <3>1, <3>2
  <2>7. Complete(e, i, ok) = Evict(f, q)
    BY <1>3 DEF Complete, f
  <2>8. \A k \in 1..Len(order) : f[order[k]].phase \in {"clean", "gone"}
    BY <1>1, <2>1, <2>3
  <2>9. q \in Seq(Id) /\ \A k \in DOMAIN q : f[q[k]].phase \in {"clean", "gone"}
    <3>1. CASE ~ok
      <4>1. q = order
        BY <3>1 DEF Queue
      <4> QED BY <1>1, <2>8, <4>1
    <3>2. CASE ok
      <4>1. q = Append(order, i)
        BY <1>3, <3>2 DEF Queue
      <4> HIDE DEF q
      <4>2. q \in Seq(Id) /\ DOMAIN q = 1..Len(order) + 1 /\ q[Len(order) + 1] = i
            /\ \A k \in 1..Len(order) : q[k] = order[k]
        BY <1>1, <4>1
      <4>3. f[i].phase = "clean"
        BY <2>4, <3>2
      <4> QED BY <1>1, <2>8, <4>2, <4>3
    <3> QED BY <3>1, <3>2
  <2>10. Good(f)
    BY <2>5, <2>6, <2>7, <2>9
  <2> QED BY <2>5, <2>10
<1> QED BY <1>2, <1>3

\* The last call of a guard, and the news of its death.
LEMMA FinishedStepped ==
  ASSUME VmTypeOK, VmAssumption, VmInv, NEW i \in Id, Finished(i)
  PROVE  Stepped /\ host' = host
<1> DEFINE ok == ets[i].terminal = "ok"
           q == Queue(entries, i, ok)
<1>1. /\ entries \in [Id -> Entry] /\ guard \in [Id -> Guard]
      /\ mail \in [Id -> Seq({"guard_started", "status", "finished"})]
      /\ mode \in {"down", "recovering", "open", "shutdown"}
      /\ manager \in {"none", "live", "dead"} /\ supervisor \in {"none", "live", "dead"}
      /\ shut \in [waiting: BOOLEAN, timer: BOOLEAN]
      /\ monitors \subseteq ({"manager", "supervisor"} \X {None}) \cup ({"execution", "guard"} \X Id)
  BY DEF VmTypeOK
<1>2. /\ mail[i] # <<>> /\ mail' = [mail EXCEPT ![i] = Tail(@)]
      /\ order' = EvictOrder(q) /\ EvictTable(q) /\ guard' = [guard EXCEPT ![i] = Idle("exited")]
      /\ monitors' = monitors /\ calling' = calling /\ exec' = exec /\ host' = host /\ faults' = faults
  BY DEF Finished, Message, Received
<1>3. /\ entries' = Complete(entries, i, ok)
      /\ mode' \in {"down", "recovering", "open", "shutdown"}
      /\ manager' \in {"none", "live", "dead"} /\ supervisor' \in {"none", "live", "dead"}
      /\ shut' \in [waiting: BOOLEAN, timer: BOOLEAN]
  <2>1. CASE Completes(entries, i)
    <3>1. Settle(mode, Complete(entries, i, ok), manager, supervisor, shut)
      BY <2>1 DEF Finished
    <3> QED BY <1>1, <3>1 DEF Settle
  <2>2. CASE ~Completes(entries, i)
    <3>1. UNCHANGED <<mode, entries, manager, supervisor, shut>>
      BY <2>2 DEF Finished
    <3>2. Complete(entries, i, ok) = entries
      BY <2>2 DEF Complete
    <3> QED BY <1>1, <3>1, <3>2
  <2> QED BY <2>1, <2>2
<1>4. guard[i].pc # "none"
  BY <1>2 DEF VmInv, VmAt, ExecutionAt
<1>5. Idle("exited") \in Guard /\ Idle("exited").pc = "exited"
  BY DEF Idle, Guard, Place
<1>6. guard' \in [Id -> Guard] /\ guard'[i].pc \in Ended /\ \A j \in Id : Answered(j)
  BY <1>1, <1>2, <1>4, <1>5 DEF Answered, Ended
<1>7. mail' \in [Id -> Seq({"guard_started", "status", "finished"})]
  <2>1. Tail(mail[i]) \in Seq({"guard_started", "status", "finished"})
    BY <1>1, <1>2
  <2> QED BY <1>1, <1>2, <2>1
<1>8. ok \in BOOLEAN
  OBVIOUS
<1> HIDE DEF ok
<1>9. PICK f \in [Id -> Entry] :
           /\ Complete(entries, i, ok) = Evict(f, q) /\ q \in Seq(Id)
           /\ \A k \in DOMAIN q : f[q[k]].phase \in {"clean", "gone"}
           /\ \A j \in Id : Settled(f, j)
  <2> DEFINE e == entries
  <2>1. ok <=> ets[i].terminal = "ok"
    BY DEF ok
  <2>2. e \in [Id -> Entry] /\ \A j \in Id : e[j].phase = entries[j].phase /\ e[j].reserved = entries[j].reserved
    BY <1>1
  <2> HIDE DEF e
  <2>3. \E f \in [Id -> Entry] :
           /\ Complete(e, i, ok) = Evict(f, Queue(e, i, ok)) /\ Queue(e, i, ok) \in Seq(Id)
           /\ \A k \in DOMAIN Queue(e, i, ok) : f[Queue(e, i, ok)[k]].phase \in {"clean", "gone"}
           /\ \A j \in Id : Settled(f, j)
    BY <1>4, <1>6, <1>8, <2>1, <2>2, CompleteFacts, SMTT(30)
  <2> QED BY <2>3 DEF e
<1> HIDE DEF q
<1>10. entries' = Evict(f, q)
  BY <1>3, <1>9
<1>11. Stepped
  BY <1>1, <1>2, <1>3, <1>6, <1>7, <1>9, <1>10, EvictStepped
<1> QED BY <1>2, <1>11

LEMMA GuardDownStepped ==
  ASSUME VmTypeOK, VmAssumption, VmInv, NEW i \in Id, GuardDown(i)
  PROVE  Stepped /\ host' = host
<1> DEFINE ok == CertifiedClean(i)
           e == IF Present(entries, i) THEN RecoverStatus(entries, i) ELSE entries
           q == Queue(e, i, ok)
<1>1. /\ entries \in [Id -> Entry] /\ guard \in [Id -> Guard]
      /\ mail \in [Id -> Seq({"guard_started", "status", "finished"})]
      /\ mode \in {"down", "recovering", "open", "shutdown"}
      /\ manager \in {"none", "live", "dead"} /\ supervisor \in {"none", "live", "dead"}
      /\ shut \in [waiting: BOOLEAN, timer: BOOLEAN]
      /\ monitors \subseteq ({"manager", "supervisor"} \X {None}) \cup ({"execution", "guard"} \X Id)
  BY DEF VmTypeOK
<1>2. /\ guard[i].pc = "exited" /\ order' = EvictOrder(q) /\ EvictTable(q)
      /\ Settle(mode, Complete(e, i, ok), manager, supervisor, shut)
      /\ monitors' \subseteq monitors /\ calling' = calling /\ exec' = exec /\ guard' = guard
      /\ mail' = mail /\ host' = host /\ faults' = faults
  BY DEF GuardDown
<1>3. e \in [Id -> Entry] /\ \A j \in Id : e[j].phase = entries[j].phase /\ e[j].reserved = entries[j].reserved
  <2> DEFINE d == entries[i].directory \/ (ets[i].directory /\ (entries[i].phase = "active" \/ Certified(i)))
             x == [entries[i] EXCEPT !.directory = d]
  <2>1. RecoverStatus(entries, i) = [entries EXCEPT ![i] = x]
    BY DEF RecoverStatus
  <2>2. d \in BOOLEAN /\ entries[i] \in Entry
    BY <1>1
  <2> HIDE DEF d
  <2>3. x \in Entry /\ x.phase = entries[i].phase /\ x.reserved = entries[i].reserved
    BY <2>2, EntryFacts
  <2> HIDE DEF x
  <2> QED BY <1>1, <2>1, <2>3
<1> HIDE DEF e
<1>4. ok \in BOOLEAN /\ (ok <=> ets[i].terminal = "ok")
  BY DEF CertifiedClean
<1>5. guard'[i].pc \in Ended /\ guard[i].pc # "none" /\ \A j \in Id : Answered(j)
  BY <1>2 DEF Answered, Ended
<1> HIDE DEF ok
<1>6. PICK f \in [Id -> Entry] :
           /\ Complete(e, i, ok) = Evict(f, q) /\ q \in Seq(Id)
           /\ \A k \in DOMAIN q : f[q[k]].phase \in {"clean", "gone"}
           /\ \A j \in Id : Settled(f, j)
  BY <1>3, <1>4, <1>5, CompleteFacts
<1> HIDE DEF q
<1>7. /\ entries' = Evict(f, q) /\ mode' \in {"down", "recovering", "open", "shutdown"}
      /\ manager' \in {"none", "live", "dead"} /\ supervisor' \in {"none", "live", "dead"}
      /\ shut' \in [waiting: BOOLEAN, timer: BOOLEAN]
  BY <1>1, <1>2, <1>6 DEF Settle
<1>8. Stepped
  BY <1>1, <1>2, <1>5, <1>6, <1>7, EvictStepped
<1> QED BY <1>2, <1>8

\* A restarted ledger takes its entries up as they are, completes those with a
\* certificate and queues the clean ones.
LEMMA RecoveredFacts ==
  ASSUME VmTypeOK
  PROVE  Recovered \in [Id -> Entry]
         /\ \A i \in Id : Recovered[i].phase = entries[i].phase /\ Recovered[i].reserved = entries[i].reserved
<1>1. entries \in [Id -> Entry] /\ ets \in [Id -> Table]
  BY DEF VmTypeOK
<1>2. ASSUME NEW i \in Id
      PROVE  /\ Recovered[i] \in Entry
             /\ Recovered[i].phase = entries[i].phase /\ Recovered[i].reserved = entries[i].reserved
  <2> DEFINE g == entries[i].guard \/ ets[i].guard
             x == entries[i].execution \/ exec[i] \in {"alive", "dead"}
             d == RecoverStatus(entries, i)[i].directory
  <2>1. entries[i] \in Entry /\ g \in BOOLEAN /\ x \in BOOLEAN
    BY <1>1
  <2>2. d \in BOOLEAN
    <3> DEFINE b == entries[i].directory \/ (ets[i].directory /\ (entries[i].phase = "active" \/ Certified(i)))
    <3>1. RecoverStatus(entries, i) = [entries EXCEPT ![i] = [entries[i] EXCEPT !.directory = b]]
      BY DEF RecoverStatus
    <3>2. b \in BOOLEAN
      OBVIOUS
    <3> HIDE DEF b
    <3>3. RecoverStatus(entries, i)[i] = [entries[i] EXCEPT !.directory = b]
      BY <1>1, <3>1
    <3>4. d = b
      BY <2>1, <3>3 DEF Entry
    <3> QED BY <3>2, <3>4
  <2>3. Recovered[i] = IF Present(entries, i)
                       THEN [entries[i] EXCEPT !.guard = g, !.execution = x, !.directory = d]
                       ELSE entries[i]
    BY DEF Recovered
  <2> HIDE DEF g, x, d
  <2>4. [entries[i] EXCEPT !.guard = g, !.execution = x, !.directory = d] \in Entry
        /\ [entries[i] EXCEPT !.guard = g, !.execution = x, !.directory = d].phase = entries[i].phase
        /\ [entries[i] EXCEPT !.guard = g, !.execution = x, !.directory = d].reserved = entries[i].reserved
    BY <2>1, <2>2 DEF Entry
  <2> QED BY <2>1, <2>3, <2>4
<1>3. Recovered \in [Id -> Entry]
  <2>1. \A i \in Id : Recovered[i] \in Entry
    BY <1>2
  <2> QED BY <2>1 DEF Recovered
<1> QED BY <1>2, <1>3

LEMMA InitLedgerStepped ==
  ASSUME VmTypeOK, VmAssumption, VmInv, InitLedger
  PROVE  Stepped /\ host' = host
<1> DEFINE Watches == ({"manager", "supervisor"} \X {None}) \cup ({"execution", "guard"} \X Id)
           certified == {i \in Id : Completes(Recovered, i) /\ Certified(i)}
           clean == {i \in certified : CertifiedClean(i)}
           completed == [i \in Id |-> IF i \in certified THEN Completed(Recovered, i, i \in clean)[i]
                                      ELSE Recovered[i]]
<1>1. PICK q \in [1..Cardinality(clean) -> clean] :
        /\ order' = EvictOrder(order \o q)
        /\ EvictTable(order \o q)
        /\ guard' = Drain(completed)
        /\ Settle("recovering", Evict(completed, order \o q), manager, supervisor, shut)
  BY DEF InitLedger
<1>2. /\ monitors' = Watched("manager", manager) \cup Watched("supervisor", supervisor)
                   \cup {<<"guard", i>> : i \in {j \in Id : Recovered[j].guard}}
                   \cup {<<"execution", i>> : i \in {j \in Id : Recovered[j].execution}}
      /\ calling' = calling /\ exec' = exec /\ mail' = mail /\ host' = host /\ faults' = faults
  BY DEF InitLedger
<1>3. /\ Recovered \in [Id -> Entry]
      /\ \A i \in Id : Recovered[i].phase = entries[i].phase /\ Recovered[i].reserved = entries[i].reserved
  BY RecoveredFacts
<1>4. \A i \in certified : i \in Id /\ entries[i].phase = "active" /\ guard[i].pc \in Ended
  BY <1>3 DEF Completes, Certified, VmInv, VmAt, CertificateAt
<1>5. \A i \in Id : i \in clean <=> i \in certified /\ ets[i].terminal = "ok"
  BY DEF CertifiedClean
<1>6. clean \subseteq Active(entries) /\ clean \subseteq Id
  BY <1>4 DEF Active
<1>7. Cardinality(clean) \in Nat
  BY <1>6, FS_Subset, FS_CardinalityType DEF VmInv, FewActive
<1>8. /\ guard' \in [Id -> Guard]
      /\ \A i \in Id : /\ guard'[i].pc = guard[i].pc /\ guard'[i].lease = guard[i].lease
                       /\ guard'[i].certified = guard[i].certified
  <2>1. guard \in [Id -> Guard]
    BY DEF VmTypeOK
  <2> HIDE DEF completed
  <2> QED BY <1>1, <2>1, AskFacts
<1>9. ASSUME NEW i \in Id
      PROVE  completed[i] \in Entry /\ Settled(completed, i) /\ (i \in clean => completed[i].phase = "clean")
             /\ (i \notin certified => completed[i] = Recovered[i])
  <2>1. Recovered[i] \in Entry
    BY <1>3
  <2>2. CASE i \notin certified
    <3>1. completed[i] = Recovered[i]
      BY <2>2
    <3>2. i \notin clean
      BY <2>2, <1>5
    <3> HIDE DEF completed, certified, clean
    <3> QED BY <1>3, <2>1, <2>2, <3>1, <3>2 DEF Settled
  <2>3. CASE i \in certified
    <3> DEFINE p == IF i \in clean THEN "clean" ELSE "retained"
               b == i \notin clean
    <3>1. completed[i] = Completed(Recovered, i, i \in clean)[i]
      BY <2>3
    <3> HIDE DEF completed, certified, clean
    <3>2. Completed(Recovered, i, i \in clean) = [Recovered EXCEPT ![i] = [Recovered[i] EXCEPT !.phase = p, !.reserved = b]]
      BY DEF Completed
    <3>3. completed[i] = [Recovered[i] EXCEPT !.phase = p, !.reserved = b]
      BY <1>3, <3>1, <3>2
    <3>4. p \in Phase /\ b \in BOOLEAN
      BY DEF Phase
    <3>5. (i \in clean => p = "clean" /\ b = FALSE) /\ (i \notin clean => p = "retained" /\ b = TRUE)
      OBVIOUS
    <3> HIDE DEF p, b
    <3>6. completed[i] \in Entry /\ completed[i].phase = p /\ completed[i].reserved = b
      BY <2>1, <3>3, <3>4 DEF Entry
    <3>7. entries[i].phase = "active" /\ guard[i].pc \in Ended /\ guard[i].pc # "none"
      BY <1>4, <2>3 DEF Ended
    <3>8. Settled(completed, i)
      BY <1>5, <1>8, <2>3, <3>5, <3>6, <3>7 DEF Settled
    <3> QED BY <2>3, <3>5, <3>6, <3>8
  <2> QED BY <2>2, <2>3
<1>10. completed \in [Id -> Entry]
  BY <1>9
<1> HIDE DEF completed, certified, clean
<1>11. /\ order \in Seq(Id) /\ Len(order) \in Nat /\ DOMAIN order = 1..Len(order)
       /\ \A k \in 1..Len(order) : order[k] \in Id /\ entries[order[k]].phase \in {"clean", "gone"}
  BY LenProperties DEF VmTypeOK, VmInv, Queued
<1>12. q \in Seq(Id) /\ Len(q) \in Nat /\ \A k \in 1..Len(q) : q[k] \in clean
  <2>1. q \in [1..Cardinality(clean) -> Id]
    BY <1>6
  <2>2. q \in Seq(Id) /\ Len(q) = Cardinality(clean)
    BY <1>7, <2>1, SeqDef, LenProperties
  <2> QED BY <1>7, <2>2
<1>13. order \o q \in Seq(Id) /\ \A k \in DOMAIN (order \o q) : completed[(order \o q)[k]].phase \in {"clean", "gone"}
  <2>1. /\ order \o q \in Seq(Id) /\ Len(order \o q) = Len(order) + Len(q)
        /\ \A k \in 1..Len(order) + Len(q) :
             (order \o q)[k] = IF k <= Len(order) THEN order[k] ELSE q[k - Len(order)]
    BY <1>11, <1>12, ConcatProperties
  <2>2. DOMAIN (order \o q) = 1..Len(order) + Len(q)
    BY <2>1, LenProperties
  <2>3. \A k \in 1..Len(order) : completed[order[k]].phase \in {"clean", "gone"}
    BY <1>3, <1>4, <1>9, <1>11
  <2>4. \A k \in 1..Len(q) : completed[q[k]].phase = "clean"
    BY <1>6, <1>9, <1>12
  <2>5. ASSUME NEW k \in 1..Len(order) + Len(q) PROVE completed[(order \o q)[k]].phase \in {"clean", "gone"}
    <3>1. CASE k <= Len(order)
      BY <1>11, <2>1, <2>3, <3>1
    <3>2. CASE k > Len(order)
      <4>1. k - Len(order) \in 1..Len(q)
        BY <1>11, <1>12, <3>2
      <4>2. (order \o q)[k] = q[k - Len(order)]
        BY <1>11, <1>12, <2>1, <3>2
      <4> QED BY <2>4, <4>1, <4>2
    <3> QED BY <1>11, <3>1, <3>2
  <2> QED BY <2>1, <2>2, <2>5
<1>14. monitors' \subseteq Watches
  <2>1. Watched("manager", manager) \subseteq Watches /\ Watched("supervisor", supervisor) \subseteq Watches
    BY DEF Watched
  <2>2. \A i \in Id : <<"guard", i>> \in Watches /\ <<"execution", i>> \in Watches
    OBVIOUS
  <2> HIDE DEF Watches
  <2> QED BY <1>2, <2>1, <2>2
<1>15. /\ entries' = Evict(completed, order \o q) /\ mode' \in {"down", "recovering", "open", "shutdown"}
       /\ manager' \in {"none", "live", "dead"} /\ supervisor' \in {"none", "live", "dead"}
       /\ shut' \in [waiting: BOOLEAN, timer: BOOLEAN]
  BY <1>1 DEF Settle, VmTypeOK
<1>16. mail' \in [Id -> Seq({"guard_started", "status", "finished"})]
  BY <1>2 DEF VmTypeOK
<1>17. \A i \in Id : Answered(i)
  BY <1>2, <1>8 DEF Answered
<1>18. Stepped
  BY <1>1, <1>2, <1>8, <1>9, <1>10, <1>13, <1>14, <1>15, <1>16, <1>17, EvictStepped
<1> QED BY <1>2, <1>18

-----------------------------------------------------------------------------
(* Requests and messages *)

\* An entry is admitted before anything runs for it.
LEMMA StartStepped ==
  ASSUME VmTypeOK, VmAssumption, VmInv, NEW i \in Id, Start(i)
  PROVE  Stepped /\ host' = host
<1>1. PICK n \in Amounts : entries' = [entries EXCEPT ![i] =
                                         [Blank("active") EXCEPT !.resources = n, !.reserved = TRUE]]
  BY DEF Start
<1> DEFINE x == [Blank("active") EXCEPT !.resources = n, !.reserved = TRUE]
<1>2. x \in Entry /\ x.phase = "active" /\ x.reserved = TRUE
  BY DEF Blank, Entry, Phase
<1>3. entries' = [entries EXCEPT ![i] = x]
  BY <1>1
<1> HIDE DEF x
<1>4. /\ entries[i].phase = "new" /\ calling' = i /\ order' = order /\ guard' = guard /\ mail' = mail
      /\ ets' = ets /\ host' = host /\ mode' = mode /\ monitors' = monitors /\ manager' = manager
      /\ supervisor' = supervisor /\ shut' = shut /\ faults' = faults
      /\ exec' = [exec EXCEPT ![i] = IF supervisor = "live" THEN "requested" ELSE @]
  BY DEF Start
<1>5. /\ entries \in [Id -> Entry] /\ order \in Seq(Id)
      /\ exec \in [Id -> {"none", "requested", "refused", "alive", "dead"}]
  BY DEF VmTypeOK
<1>6. /\ entries' \in [Id -> Entry] /\ entries'[i] = x
      /\ \A j \in Id \ {i} : entries'[j] = entries[j]
  BY <1>2, <1>3, <1>5
<1>7. /\ exec' \in [Id -> {"none", "requested", "refused", "alive", "dead"}]
      /\ exec'[i] \in {"requested", exec[i]} /\ \A j \in Id \ {i} : exec'[j] = exec[j]
  BY <1>4, <1>5
<1>8. VmTypeOK'
  BY <1>4, <1>6, <1>7 DEF VmTypeOK
<1>9. ASSUME NEW j \in Id PROVE VmAt(j)'
  <2>1. CASE j # i
    <3>1. Same(j)
      BY <1>4, <1>6, <1>7, <2>1 DEF Same
    <3> QED BY <3>1, SameKept DEF VmInv
  <2>2. CASE j = i
    <3>1. VmAt(i) /\ exec[i] = "none" /\ guard[i].pc = "none"
      BY <1>4 DEF VmInv, VmAt, ExecutionAt
    <3>2. HostAt(i)' /\ CertificateAt(i)'
      BY <1>4, <3>1 DEF VmAt, HostAt, CertificateAt
    <3>3. ExecutionAt(i)' /\ EntryAt(i)'
      BY <1>2, <1>4, <1>6, <3>1 DEF VmAt, ExecutionAt, EntryAt
    <3> QED BY <2>2, <3>2, <3>3 DEF VmAt
  <2> QED BY <2>1, <2>2
<1>10. Queued'
  <2>1. \A k \in DOMAIN order : order[k] \in Id /\ order[k] # i
    BY <1>4, <1>5 DEF VmInv, Queued
  <2> QED BY <1>4, <1>6, <2>1 DEF VmInv, Queued
<1>11. FewActive'
  <2>1. Active(entries') \subseteq Active(entries) \cup {i}
    BY <1>6 DEF Active
  <2>2. IsFiniteSet(Active(entries) \cup {i})
    BY FS_AddElement DEF VmInv, FewActive
  <2> QED BY <2>1, <2>2, FS_Subset DEF FewActive
<1>12. \A j \in Id : entries[j].phase = "retained" => entries'[j].phase = "retained"
  BY <1>4, <1>6
<1> QED BY <1>4, <1>8, <1>9, <1>10, <1>11, <1>12 DEF Stepped, VmInv

\* An entry that the supervisor refuses goes, and nothing ran for it.
LEMMA StartRefusedStepped ==
  ASSUME VmTypeOK, VmAssumption, VmInv, NEW i \in Id, StartRefused(i)
  PROVE  Stepped /\ host' = host
<1>1. Blank("gone") \in Entry /\ Blank("gone").phase = "gone" /\ Blank("gone").reserved = FALSE
  BY DEF Blank, Entry, Phase
<1>2. /\ exec[i] = "refused" /\ entries' = [entries EXCEPT ![i] = Blank("gone")] /\ calling' = None
      /\ order' = order /\ guard' = guard /\ mail' = mail /\ ets' = ets /\ host' = host
      /\ exec' = exec /\ mode' = mode /\ monitors' = monitors /\ manager' = manager
      /\ supervisor' = supervisor /\ shut' = shut /\ faults' = faults
  BY DEF StartRefused, procs
<1>3. entries \in [Id -> Entry] /\ order \in Seq(Id)
  BY DEF VmTypeOK
<1>4. /\ entries' \in [Id -> Entry] /\ entries'[i] = Blank("gone")
      /\ \A j \in Id \ {i} : entries'[j] = entries[j]
  BY <1>1, <1>2, <1>3
<1>5. VmTypeOK'
  BY <1>2, <1>4 DEF VmTypeOK
<1>6. VmAt(i) /\ guard[i].pc = "none" /\ entries[i].phase # "retained"
  BY <1>2 DEF VmInv, VmAt, ExecutionAt, EntryAt, Ended
<1>7. ASSUME NEW j \in Id PROVE VmAt(j)'
  <2>1. CASE j # i
    <3>1. Same(j)
      BY <1>2, <1>4, <2>1 DEF Same
    <3> QED BY <3>1, SameKept DEF VmInv
  <2>2. CASE j = i
    <3>1. host[i] = {}
      BY <1>6 DEF VmAt, HostAt, Early
    <3>2. HostAt(i)' /\ CertificateAt(i)'
      BY <1>2, <1>6 DEF VmAt, HostAt, CertificateAt
    <3>3. ExecutionAt(i)' /\ EntryAt(i)'
      BY <1>1, <1>2, <1>4, <1>6, <3>1 DEF VmAt, ExecutionAt, EntryAt
    <3> QED BY <2>2, <3>2, <3>3 DEF VmAt
  <2> QED BY <2>1, <2>2
<1>8. Queued'
  <2>1. \A k \in DOMAIN order : order[k] \in Id
    BY <1>3
  <2> QED BY <1>1, <1>2, <1>4, <2>1 DEF VmInv, Queued
<1>9. FewActive'
  <2>1. Active(entries') \subseteq Active(entries)
    BY <1>1, <1>4 DEF Active
  <2> QED BY <2>1, FS_Subset DEF VmInv, FewActive
<1>10. \A j \in Id : entries[j].phase = "retained" => entries'[j].phase = "retained"
  BY <1>4, <1>6
<1> QED BY <1>2, <1>5, <1>7, <1>8, <1>9, <1>10 DEF Stepped, VmInv

\* A guard asks whether it may go on, and announces its directory.
LEMMA GuardStartedStepped ==
  ASSUME VmTypeOK, VmAssumption, VmInv, NEW i \in Id, GuardStarted(i)
  PROVE  Stepped /\ host' = host
<1> DEFINE go == mode = "open" /\ entries[i].phase = "active"
           p == IF go THEN "allocating" ELSE "finishing"
           c == ~go
<1>1. /\ mail[i] # <<>> /\ mail' = [mail EXCEPT ![i] = Tail(@)] /\ order' = order /\ ets' = ets
      /\ host' = host /\ exec' = exec /\ mode' = mode /\ manager' = manager /\ supervisor' = supervisor
      /\ shut' = shut /\ calling' = calling /\ faults' = faults
      /\ monitors' \in {monitors, monitors \cup {<<"guard", i>>}}
  BY DEF GuardStarted, Message, Received, Monitored
<1>2. /\ entries \in [Id -> Entry] /\ guard \in [Id -> Guard]
      /\ mail \in [Id -> Seq({"guard_started", "status", "finished"})]
      /\ monitors \subseteq ({"manager", "supervisor"} \X {None}) \cup ({"execution", "guard"} \X Id)
  BY DEF VmTypeOK
<1>3. /\ entries' \in [Id -> Entry]
      /\ \A j \in Id : entries'[j].phase = entries[j].phase /\ entries'[j].reserved = entries[j].reserved
  <2>1. entries' = entries \/ entries' = [entries EXCEPT ![i] = [entries[i] EXCEPT !.guard = TRUE]]
    BY DEF GuardStarted
  <2>2. /\ [entries[i] EXCEPT !.guard = TRUE] \in Entry
        /\ [entries[i] EXCEPT !.guard = TRUE].phase = entries[i].phase
        /\ [entries[i] EXCEPT !.guard = TRUE].reserved = entries[i].reserved
    BY <1>2, EntryFacts
  <2> DEFINE x == [entries[i] EXCEPT !.guard = TRUE]
  <2>3. entries' = entries \/ entries' = [entries EXCEPT ![i] = x]
    BY <2>1
  <2> HIDE DEF x
  <2>4. x \in Entry /\ x.phase = entries[i].phase /\ x.reserved = entries[i].reserved
    BY <2>2 DEF x
  <2> QED BY <1>2, <2>3, <2>4
<1>4. guard' = guard \/ (guard[i].pc = "registering" /\ guard' = [guard EXCEPT ![i] = [guard[i] EXCEPT !.pc = p, !.certified = c]])
  BY DEF GuardStarted
<1>5. p \in {"allocating", "finishing"} /\ c \in BOOLEAN /\ (p = "finishing" => c = TRUE)
  OBVIOUS
<1> HIDE DEF p, c, go
<1>6. /\ guard' \in [Id -> Guard] /\ \A j \in Id \ {i} : guard'[j] = guard[j]
      /\ \/ guard'[i] = guard[i]
         \/ /\ guard[i].pc = "registering" /\ guard'[i].pc = p /\ guard'[i].certified = c
            /\ guard'[i].lease = guard[i].lease
  <2>1. CASE guard' = guard
    BY <1>2, <2>1
  <2>2. CASE guard[i].pc = "registering" /\ guard' = [guard EXCEPT ![i] = [guard[i] EXCEPT !.pc = p, !.certified = c]]
    <3> DEFINE g == [guard[i] EXCEPT !.pc = p, !.certified = c]
    <3>1. g \in Guard /\ g.pc = p /\ g.certified = c /\ g.lease = guard[i].lease
      <4>1. guard[i] \in Guard /\ p \in Place
        BY <1>2, <1>5 DEF Place
      <4> QED BY <1>5, <4>1 DEF Guard
    <3>2. guard' = [guard EXCEPT ![i] = g]
      BY <2>2
    <3> HIDE DEF g
    <3> QED BY <1>2, <2>2, <3>1, <3>2
  <2> QED BY <1>4, <2>1, <2>2
<1>7. /\ mail' \in [Id -> Seq({"guard_started", "status", "finished"})]
      /\ \A j \in Id \ {i} : mail'[j] = mail[j]
  <2>1. Tail(mail[i]) \in Seq({"guard_started", "status", "finished"})
    BY <1>1, <1>2
  <2> QED BY <1>1, <1>2, <2>1
<1>8. monitors' \subseteq ({"manager", "supervisor"} \X {None}) \cup ({"execution", "guard"} \X Id)
  BY <1>1, <1>2
<1>9. VmTypeOK'
  BY <1>1, <1>3, <1>6, <1>7, <1>8 DEF VmTypeOK
<1>10. ASSUME NEW j \in Id PROVE VmAt(j)'
  <2>1. CASE j # i
    <3>1. Same(j)
      BY <1>1, <1>3, <1>6, <1>7, <2>1 DEF Same
    <3> QED BY <3>1, SameKept DEF VmInv
  <2>2. CASE j = i
    <3>1. VmAt(i) /\ guard[i].pc # "none"
      BY <1>1 DEF VmInv, VmAt, ExecutionAt
    <3>2. HostAt(i)'
      BY <1>1, <1>5, <1>6, <3>1 DEF VmAt, HostAt, Early
    <3>3. CertificateAt(i)'
      BY <1>1, <1>5, <1>6, <3>1 DEF VmAt, CertificateAt, Ended
    <3>4. ExecutionAt(i)' /\ EntryAt(i)'
      BY <1>1, <1>3, <1>5, <1>6, <3>1 DEF VmAt, ExecutionAt, EntryAt, Ended
    <3> QED BY <2>2, <3>2, <3>3, <3>4 DEF VmAt
  <2> QED BY <2>1, <2>2
<1> QED BY <1>1, <1>3, <1>9, <1>10, PhasesKept

LEMMA StatusCastStepped ==
  ASSUME VmTypeOK, VmAssumption, VmInv, NEW i \in Id, StatusCast(i)
  PROVE  Stepped /\ host' = host
<1> DEFINE d == entries[i].directory \/ Completes(entries, i)
           x == [entries[i] EXCEPT !.directory = d]
<1>1. /\ mail[i] # <<>> /\ mail' = [mail EXCEPT ![i] = Tail(@)] /\ order' = order /\ ets' = ets
      /\ host' = host /\ exec' = exec /\ guard' = guard /\ mode' = mode /\ manager' = manager
      /\ supervisor' = supervisor /\ shut' = shut /\ calling' = calling /\ faults' = faults
      /\ monitors' = monitors /\ entries' = [entries EXCEPT ![i] = x]
  BY DEF StatusCast, Message, Received
<1>2. entries \in [Id -> Entry] /\ mail \in [Id -> Seq({"guard_started", "status", "finished"})]
  BY DEF VmTypeOK
<1>3. d \in BOOLEAN
  OBVIOUS
<1> HIDE DEF d
<1>4. x \in Entry /\ x.phase = entries[i].phase /\ x.reserved = entries[i].reserved
  BY <1>2, <1>3, EntryFacts
<1> HIDE DEF x
<1>5. /\ entries' \in [Id -> Entry]
      /\ \A j \in Id : entries'[j].phase = entries[j].phase /\ entries'[j].reserved = entries[j].reserved
  BY <1>1, <1>2, <1>4
<1>6. /\ mail' \in [Id -> Seq({"guard_started", "status", "finished"})]
      /\ \A j \in Id \ {i} : mail'[j] = mail[j]
  <2>1. Tail(mail[i]) \in Seq({"guard_started", "status", "finished"})
    BY <1>1, <1>2
  <2> QED BY <1>1, <1>2, <2>1
<1>7. VmTypeOK'
  BY <1>1, <1>5, <1>6 DEF VmTypeOK
<1>8. ASSUME NEW j \in Id PROVE VmAt(j)'
  <2>1. CASE j # i
    <3>1. Same(j)
      BY <1>1, <1>5, <1>6, <2>1 DEF Same
    <3> QED BY <3>1, SameKept DEF VmInv
  <2>2. CASE j = i
    <3>1. VmAt(i) /\ guard[i].pc # "none"
      BY <1>1 DEF VmInv, VmAt, ExecutionAt
    <3>2. HostAt(i)' /\ CertificateAt(i)' /\ ExecutionAt(i)' /\ EntryAt(i)'
      BY <1>1, <1>5, <3>1 DEF VmAt, HostAt, CertificateAt, ExecutionAt, EntryAt
    <3> QED BY <2>2, <3>2 DEF VmAt
  <2> QED BY <2>1, <2>2
<1> QED BY <1>1, <1>5, <1>7, <1>8, PhasesKept

\* Every step of the ledger.
LEMMA LedgerStepped ==
  ASSUME VmTypeOK, VmAssumption, VmInv, LedgerStep
  PROVE  Stepped /\ host' = host
<1>1. CASE QuietStep
  BY <1>1, QuietStepped
<1>2. CASE KillLedger
  <2>1. Dies /\ faults' \in 0..MaxFaults
    BY <1>2 DEF KillLedger, VmTypeOK, VmAssumption
  <2> QED BY <2>1, DiesStepped
<1>3. CASE KillSupervisor
  BY <1>3, SupervisorKilled
<1>4. CASE InitLedger
  BY <1>4, InitLedgerStepped
<1>5. ASSUME NEW i \in Id,
             Start(i) \/ StartRefused(i) \/ StartExits(i) \/ GuardStarted(i) \/ StatusCast(i)
               \/ Finished(i) \/ GuardDown(i)
      PROVE  Stepped /\ host' = host
  <2>1. CASE StartExits(i)
    <3>1. Dies /\ faults' \in 0..MaxFaults
      BY <2>1 DEF StartExits, VmTypeOK
    <3> QED BY <3>1, DiesStepped
  <2> QED BY <1>5, <2>1, StartStepped, StartRefusedStepped, GuardStartedStepped, StatusCastStepped,
             FinishedStepped, GuardDownStepped
<1> QED BY <1>1, <1>2, <1>3, <1>4, <1>5 DEF LedgerStep, QuietStep

-----------------------------------------------------------------------------
(* Guards and controllers *)

\* A guard goes to p, with its lease and its certification l and c.
Moves(f, i, p, l, c) ==
  /\ f \in [Id -> Guard] /\ f[i].pc = p /\ f[i].lease = l /\ f[i].certified = c
  /\ \A j \in Id \ {i} : f[j] = guard[j]

LEMMA MovesFacts ==
  ASSUME guard \in [Id -> Guard], NEW i \in Id
  PROVE  /\ \A p \in Place : Moves([guard EXCEPT ![i].pc = p], i, p, guard[i].lease, guard[i].certified)
         /\ \A p \in Place, c \in BOOLEAN :
              Moves([guard EXCEPT ![i].pc = p, ![i].certified = c], i, p, guard[i].lease, c)
         /\ \A p \in Place, b \in BOOLEAN :
              /\ Moves([guard EXCEPT ![i].pc = p, ![i].lease = b], i, p, b, guard[i].certified)
              /\ Moves([guard EXCEPT ![i].pc = p, ![i].watches = b], i, p, guard[i].lease, guard[i].certified)
              /\ Moves([guard EXCEPT ![i].pc = p, ![i].error = b], i, p, guard[i].lease, guard[i].certified)
         /\ Moves([guard EXCEPT ![i] = Idle("exited")], i, "exited", FALSE, FALSE)
<1>1. guard[i] \in Guard
  OBVIOUS
<1>2. \A g \in Guard : Moves([guard EXCEPT ![i] = g], i, g.pc, g.lease, g.certified)
  BY DEF Moves
<1>3. ASSUME NEW p \in Place
      PROVE  Moves([guard EXCEPT ![i].pc = p], i, p, guard[i].lease, guard[i].certified)
  <2> DEFINE g == [guard[i] EXCEPT !.pc = p]
  <2>1. g \in Guard /\ g.pc = p /\ g.lease = guard[i].lease /\ g.certified = guard[i].certified
    BY <1>1 DEF Guard
  <2>2. [guard EXCEPT ![i].pc = p] = [guard EXCEPT ![i] = g]
    OBVIOUS
  <2> HIDE DEF g
  <2> QED BY <1>2, <2>1, <2>2
<1>4. ASSUME NEW p \in Place, NEW c \in BOOLEAN
      PROVE  Moves([guard EXCEPT ![i].pc = p, ![i].certified = c], i, p, guard[i].lease, c)
  <2> DEFINE g == [guard[i] EXCEPT !.pc = p, !.certified = c]
  <2>1. g \in Guard /\ g.pc = p /\ g.lease = guard[i].lease /\ g.certified = c
    BY <1>1 DEF Guard
  <2>2. [guard EXCEPT ![i].pc = p, ![i].certified = c] = [guard EXCEPT ![i] = g]
    OBVIOUS
  <2> HIDE DEF g
  <2> QED BY <1>2, <2>1, <2>2
<1>5. ASSUME NEW p \in Place, NEW b \in BOOLEAN
      PROVE  Moves([guard EXCEPT ![i].pc = p, ![i].lease = b], i, p, b, guard[i].certified)
  <2> DEFINE g == [guard[i] EXCEPT !.pc = p, !.lease = b]
  <2>1. g \in Guard /\ g.pc = p /\ g.lease = b /\ g.certified = guard[i].certified
    BY <1>1 DEF Guard
  <2>2. [guard EXCEPT ![i].pc = p, ![i].lease = b] = [guard EXCEPT ![i] = g]
    OBVIOUS
  <2> HIDE DEF g
  <2> QED BY <1>2, <2>1, <2>2
<1>6. ASSUME NEW p \in Place, NEW b \in BOOLEAN
      PROVE  Moves([guard EXCEPT ![i].pc = p, ![i].watches = b], i, p, guard[i].lease, guard[i].certified)
  <2> DEFINE g == [guard[i] EXCEPT !.pc = p, !.watches = b]
  <2>1. g \in Guard /\ g.pc = p /\ g.lease = guard[i].lease /\ g.certified = guard[i].certified
    BY <1>1 DEF Guard
  <2>2. [guard EXCEPT ![i].pc = p, ![i].watches = b] = [guard EXCEPT ![i] = g]
    OBVIOUS
  <2> HIDE DEF g
  <2> QED BY <1>2, <2>1, <2>2
<1>7. ASSUME NEW p \in Place, NEW b \in BOOLEAN
      PROVE  Moves([guard EXCEPT ![i].pc = p, ![i].error = b], i, p, guard[i].lease, guard[i].certified)
  <2> DEFINE g == [guard[i] EXCEPT !.pc = p, !.error = b]
  <2>1. g \in Guard /\ g.pc = p /\ g.lease = guard[i].lease /\ g.certified = guard[i].certified
    BY <1>1 DEF Guard
  <2>2. [guard EXCEPT ![i].pc = p, ![i].error = b] = [guard EXCEPT ![i] = g]
    OBVIOUS
  <2> HIDE DEF g
  <2> QED BY <1>2, <2>1, <2>2
<1>8. Moves([guard EXCEPT ![i] = Idle("exited")], i, "exited", FALSE, FALSE)
  <2>1. /\ Idle("exited") \in Guard /\ Idle("exited").pc = "exited" /\ Idle("exited").lease = FALSE
        /\ Idle("exited").certified = FALSE
    BY DEF Idle, Guard, Place
  <2> QED BY <1>2, <2>1
<1> QED BY <1>3, <1>4, <1>5, <1>6, <1>7, <1>8

\* What a step of a guard may change of the host: its own part.
Parts == SUBSET {"directory", "formatter", "lease", "vmm"}
HostMoves(i) ==
  host' \in [Id -> Parts] /\ \A j \in Id \ {i} : host'[j] = host[j]

LEMMA HostMovesFacts ==
  ASSUME host \in [Id -> Parts], NEW i \in Id
  PROVE  /\ host' = host => HostMoves(i) /\ host'[i] = host[i]
         /\ \A h \in Parts : host' = [host EXCEPT ![i] = h] => HostMoves(i) /\ host'[i] = h
BY DEF HostMoves

\* While a guard has not ended, its entry is active and has no certificate.
LEMMA UnendedKept ==
  ASSUME NEW i \in Id, VmAt(i), entries' = entries, exec' = exec,
         guard[i].pc \notin Ended \cup {"none"}, guard'[i].pc # "none"
  PROVE  /\ ExecutionAt(i)' /\ EntryAt(i)'
         /\ ets'[i].terminal = ets[i].terminal => CertificateAt(i)'
<1>1. entries[i].phase = "active" /\ entries[i].reserved /\ ets[i].terminal = "none"
  BY DEF VmAt, EntryAt, CertificateAt
<1>2. exec[i] \notin {"none", "requested", "refused"}
  BY DEF VmAt, ExecutionAt
<1>3. ExecutionAt(i)' /\ EntryAt(i)'
  BY <1>1, <1>2 DEF ExecutionAt, EntryAt
<1>4. ets'[i].terminal = ets[i].terminal => CertificateAt(i)'
  BY <1>1 DEF CertificateAt
<1> QED BY <1>3, <1>4

\* A guard that ends leaves everything as it is.
LEMMA EndKept ==
  ASSUME NEW i \in Id, VmAt(i), entries' = entries, exec' = exec, ets' = ets, host' = host,
         guard[i].pc # "none", guard'[i].pc \in Ended
  PROVE  CertificateAt(i)' /\ ExecutionAt(i)' /\ EntryAt(i)'
BY DEF VmAt, CertificateAt, ExecutionAt, EntryAt, Ended

\* What a step of VM i's processes has to keep.
Acted(i) ==
  /\ guard' \in [Id -> Guard] /\ \A j \in Id \ {i} : guard'[j] = guard[j]
  /\ HostMoves(i)
  /\ VmAt(i)'

\* Steps that only make the guard go on: to p, with lease l, certified c.
LEMMA OnlyMoved ==
  ASSUME VmTypeOK, VmInv, NEW i \in Id, NEW p, NEW l, NEW c, Moves(guard', i, p, l, c),
         entries' = entries, exec' = exec, \A j \in Id : ets'[j].terminal = ets[j].terminal,
         guard[i].pc \notin Ended \cup {"none"}, p # "none",
         HostMoves(i), HostAt(i)'
  PROVE  Acted(i)
<1>1. VmAt(i) /\ guard'[i].pc # "none"
  BY DEF VmInv, Moves
<1>2. CertificateAt(i)' /\ ExecutionAt(i)' /\ EntryAt(i)'
  BY <1>1, UnendedKept
<1> QED BY <1>2 DEF Acted, Moves, VmAt

\* Controllers: what they do to a guard is to start it.
LEMMA ControllerActed ==
  ASSUME VmTypeOK, VmInv, NEW i \in Id,
         StartExecution(i) \/ RefuseExecution(i) \/ ExecutionStops(i) \/ KillExecution(i)
  PROVE  Acted(i)
<1>1. /\ host \in [Id -> Parts] /\ guard \in [Id -> Guard] /\ VmAt(i)
      /\ exec \in [Id -> {"none", "requested", "refused", "alive", "dead"}]
  BY DEF VmTypeOK, VmInv, Parts
<1>2. entries' = entries /\ ets' = ets /\ mail' = mail /\ host' = host
  BY DEF StartExecution, RefuseExecution, ExecutionStops, KillExecution
<1>3. HostMoves(i)
  BY <1>1, <1>2, HostMovesFacts
<1>4. CASE StartExecution(i)
  <2>1. exec[i] = "requested" /\ exec'[i] = "alive" /\ guard' = [guard EXCEPT ![i].pc = "spawned"]
    BY <1>1, <1>4 DEF StartExecution
  <2>2. Moves(guard', i, "spawned", guard[i].lease, guard[i].certified)
    BY <1>1, <2>1, MovesFacts DEF Place
  <2>3. guard[i].pc = "none" /\ host[i] = {} /\ entries[i].phase = "active" /\ entries[i].reserved
    BY <1>1, <2>1 DEF VmAt, ExecutionAt, EntryAt, HostAt, Early
  <2>4. HostAt(i)' /\ CertificateAt(i)'
    BY <1>1, <1>2, <2>2, <2>3 DEF VmAt, HostAt, CertificateAt, Moves, Early, Ended
  <2>5. ExecutionAt(i)' /\ EntryAt(i)'
    BY <1>2, <2>1, <2>2, <2>3 DEF ExecutionAt, EntryAt, Moves
  <2> QED BY <1>3, <2>2, <2>4, <2>5 DEF Acted, VmAt, Moves
<1>5. CASE RefuseExecution(i) \/ ExecutionStops(i) \/ KillExecution(i)
  <2>1. /\ guard' = guard
        /\ \/ exec[i] = "requested" /\ exec'[i] = "refused"
           \/ exec[i] = "alive" /\ exec'[i] = "dead"
    BY <1>1, <1>5 DEF RefuseExecution, ExecutionStops, KillExecution
  <2>2. HostAt(i)' /\ CertificateAt(i)'
    BY <1>1, <1>2, <2>1 DEF VmAt, HostAt, CertificateAt
  <2>3. ExecutionAt(i)' /\ EntryAt(i)'
    BY <1>1, <1>2, <2>1 DEF VmAt, ExecutionAt, EntryAt
  <2> QED BY <1>1, <1>3, <2>1, <2>2, <2>3 DEF Acted, VmAt
<1> QED BY <1>4, <1>5

\* The way of a guard up to its launch.
LEMMA LaunchActed ==
  ASSUME VmTypeOK, VmInv, NEW i \in Id,
         WatchLedger(i) \/ Register(i) \/ AllocateFails(i) \/ Allocate(i) \/ FormatterExits(i)
           \/ Provision(i) \/ AdmitLaunch(i)
  PROVE  Acted(i)
<1> DEFINE l == guard[i].lease
           c == guard[i].certified
<1>1. /\ host \in [Id -> Parts] /\ guard \in [Id -> Guard] /\ ets \in [Id -> Table] /\ HostAt(i)
      /\ l \in BOOLEAN /\ c \in BOOLEAN
  BY DEF VmTypeOK, VmInv, VmAt, Parts, Guard
<1>2. /\ \A p \in Place : Moves([guard EXCEPT ![i].pc = p], i, p, l, c)
      /\ \A p \in Place, d \in BOOLEAN :
           /\ Moves([guard EXCEPT ![i].pc = p, ![i].certified = d], i, p, l, d)
           /\ Moves([guard EXCEPT ![i].pc = p, ![i].lease = d], i, p, d, c)
           /\ Moves([guard EXCEPT ![i].pc = p, ![i].watches = d], i, p, l, c)
  BY <1>1, MovesFacts
<1> HIDE DEF l, c
<1>3. /\ host' = host => HostMoves(i) /\ host'[i] = host[i]
      /\ \A h \in Parts : host' = [host EXCEPT ![i] = h] => HostMoves(i) /\ host'[i] = h
  BY <1>1, HostMovesFacts
<1>4. /\ entries' = entries /\ exec' = exec /\ \A j \in Id : ets'[j].terminal = ets[j].terminal
  <2>1. /\ entries' = entries /\ exec' = exec
        /\ \/ ets' = ets
           \/ ets' = [ets EXCEPT ![i].guard = TRUE]
           \/ ets' = [ets EXCEPT ![i].directory = TRUE]
    BY DEF WatchLedger, Register, AllocateFails, Allocate, FormatterExits, Provision, AdmitLaunch, ledger
  <2>2. \A j \in Id : ets'[j].terminal = ets[j].terminal
    BY <1>1, <2>1 DEF Table
  <2> QED BY <2>1, <2>2
<1>5. CASE WatchLedger(i) \/ Register(i) \/ AllocateFails(i)
  <2>1. host' = host /\ guard[i].pc \in {"spawned", "watching", "allocating"}
    BY <1>5 DEF WatchLedger, Register, AllocateFails, At
  <2>2. \/ Moves(guard', i, "watching", l, c) \/ Moves(guard', i, "finishing", l, TRUE)
        \/ Moves(guard', i, "registering", l, c)
    BY <1>2, <1>5 DEF WatchLedger, Register, AllocateFails, Finish, Goto, Place
  <2>3. HostAt(i)' /\ HostMoves(i)
    BY <1>1, <1>3, <2>1, <2>2 DEF HostAt, Early, Moves, l
  <2> QED BY <1>4, <2>1, <2>2, <2>3, OnlyMoved DEF Ended
<1>6. CASE Allocate(i)
  <2>1. guard[i].pc = "allocating" /\ host[i] = {} /\ ~l
    BY <1>1, <1>6 DEF Allocate, At, HostAt, Early, l
  <2>2. {"directory"} \in Parts /\ {"directory", "formatter"} \in Parts
    BY DEF Parts
  <2>3. /\ HostMoves(i)
        /\ \/ host'[i] = {"directory"} /\ Moves(guard', i, "finishing", l, TRUE)
           \/ host'[i] = {"directory", "formatter"} /\ Moves(guard', i, "finishing", l, FALSE)
           \/ host'[i] = {"directory", "formatter"} /\ Moves(guard', i, "formatting", l, c)
    BY <1>2, <1>3, <1>6, <2>2 DEF Allocate, Finish, Goto, Place
  <2>4. HostAt(i)'
    BY <2>1, <2>3 DEF HostAt, Early, Moves
  <2> QED BY <1>4, <2>1, <2>3, <2>4, OnlyMoved DEF Ended
<1>7. CASE FormatterExits(i)
  <2>1. guard[i].pc \in {"formatting", "unformatting"} /\ host[i] \subseteq {"directory", "formatter"} /\ ~l
    BY <1>1, <1>7 DEF FormatterExits, At, HostAt, l
  <2>2. host[i] \ {"formatter"} \in Parts /\ host[i] \ {"formatter"} \subseteq {"directory"}
    BY <2>1 DEF Parts
  <2>3. /\ HostMoves(i)
        /\ \/ host'[i] = host[i] \ {"formatter"} /\ Moves(guard', i, "provisioning", l, c)
           \/ host'[i] = host[i] \ {"formatter"} /\ Moves(guard', i, "finishing", l, TRUE)
           \/ host'[i] = host[i] /\ Moves(guard', i, "finishing", l, FALSE)
    BY <1>2, <1>3, <1>7, <2>2 DEF FormatterExits, Finish, Goto, Place
  <2>4. HostAt(i)'
    BY <2>1, <2>2, <2>3 DEF HostAt, Early, Moves
  <2> QED BY <1>4, <2>1, <2>3, <2>4, OnlyMoved DEF Ended
<1>8. CASE Provision(i)
  <2>1. guard[i].pc = "provisioning" /\ host[i] \subseteq {"directory"} /\ ~l
    BY <1>1, <1>8 DEF Provision, At, HostAt, l
  <2>2. host[i] \cup {"lease"} \in Parts /\ host[i] \cup {"lease"} \subseteq {"directory", "lease"}
    BY <2>1 DEF Parts
  <2>3. /\ HostMoves(i)
        /\ \/ host'[i] = host[i] /\ Moves(guard', i, "admitting", l, c)
           \/ host'[i] = host[i] \cup {"lease"} /\ Moves(guard', i, "admitting", TRUE, c)
           \/ host'[i] = host[i] /\ Moves(guard', i, "finishing", l, TRUE)
           \/ host'[i] = host[i] \cup {"lease"} /\ Moves(guard', i, "finishing", l, FALSE)
    BY <1>2, <1>3, <1>8, <2>2 DEF Provision, Finish, Goto, Place
  <2>4. HostAt(i)'
    BY <2>1, <2>2, <2>3 DEF HostAt, Early, Moves
  <2> QED BY <1>4, <2>1, <2>3, <2>4, OnlyMoved DEF Ended
<1>9. CASE AdmitLaunch(i)
  <2>1. guard[i].pc = "admitting" /\ host[i] \subseteq {"directory", "lease"} /\ ("lease" \in host[i] <=> l)
    BY <1>1, <1>9 DEF AdmitLaunch, At, HostAt, l
  <2>2. host[i] \cup {"vmm"} \in Parts /\ host[i] \cup {"vmm"} \subseteq {"directory", "lease", "vmm"}
        /\ ("lease" \in host[i] \cup {"vmm"} <=> "lease" \in host[i])
    BY <2>1 DEF Parts
  <2>3. /\ HostMoves(i)
        /\ \/ host'[i] = host[i] /\ Moves(guard', i, "finishing", l, TRUE)
           \/ host'[i] = host[i] \cup {"vmm"} /\ Moves(guard', i, "running", l, c)
           \/ host'[i] = host[i] \cup {"vmm"} /\ Moves(guard', i, "finishing", l, FALSE)
    BY <1>2, <1>3, <1>9, <2>2 DEF AdmitLaunch, Finish, Goto, Place
  <2>4. HostAt(i)'
    BY <2>1, <2>2, <2>3 DEF HostAt, Early, Moves
  <2> QED BY <1>4, <2>1, <2>3, <2>4, OnlyMoved DEF Ended
<1> QED BY <1>5, <1>6, <1>7, <1>8, <1>9

\* The way of a guard to its end.
LEMMA StopActed ==
  ASSUME VmTypeOK, VmInv, NEW i \in Id,
         StopFormatter(i) \/ StopVmm(i) \/ VmmServerDown(i) \/ VmmStopped(i) \/ CleanupDeadline(i)
           \/ Report(i) \/ KillGuard(i)
  PROVE  Acted(i)
<1> DEFINE l == guard[i].lease
           c == guard[i].certified
<1>1. /\ host \in [Id -> Parts] /\ guard \in [Id -> Guard] /\ VmAt(i) /\ HostAt(i)
      /\ l \in BOOLEAN /\ c \in BOOLEAN
  BY DEF VmTypeOK, VmInv, VmAt, Parts, Guard
<1>2. /\ \A p \in Place : Moves([guard EXCEPT ![i].pc = p], i, p, l, c)
      /\ \A p \in Place, d \in BOOLEAN :
           /\ Moves([guard EXCEPT ![i].pc = p, ![i].certified = d], i, p, l, d)
           /\ Moves([guard EXCEPT ![i].pc = p, ![i].error = d], i, p, l, c)
      /\ Moves([guard EXCEPT ![i] = Idle("exited")], i, "exited", FALSE, FALSE)
  BY <1>1, MovesFacts
<1> HIDE DEF l, c
<1>3. /\ host' = host => HostMoves(i) /\ host'[i] = host[i]
      /\ \A h \in Parts : host' = [host EXCEPT ![i] = h] => HostMoves(i) /\ host'[i] = h
  BY <1>1, HostMovesFacts
<1>4. entries' = entries /\ exec' = exec /\ ets' = ets
  BY DEF StopFormatter, StopVmm, VmmServerDown, VmmStopped, CleanupDeadline, Report, KillGuard, ledger
<1>5. CASE StopFormatter(i) \/ StopVmm(i) \/ VmmServerDown(i) \/ CleanupDeadline(i)
  <2>1. host' = host
    BY <1>5 DEF StopFormatter, StopVmm, VmmServerDown, CleanupDeadline
  <2>2. \/ guard[i].pc = "formatting" /\ Moves(guard', i, "unformatting", l, c)
        \/ guard[i].pc = "running" /\ Moves(guard', i, "stopping", l, c)
        \/ /\ guard[i].pc \in {"running", "stopping", "unformatting"}
           /\ Moves(guard', i, "finishing", l, FALSE)
    BY <1>2, <1>5 DEF StopFormatter, StopVmm, VmmServerDown, CleanupDeadline, Finish, Goto, At, Place
  <2>3. HostMoves(i) /\ host'[i] = host[i]
    BY <1>3, <2>1
  <2>4. HostAt(i)'
    BY <1>1, <2>2, <2>3 DEF HostAt, Early, Moves, l
  <2>5. guard[i].pc \notin Ended \cup {"none"}
    BY <2>2 DEF Ended
  <2> QED BY <1>4, <2>2, <2>3, <2>4, <2>5, OnlyMoved
<1>6. CASE VmmStopped(i)
  <2>1. guard[i].pc = "stopping" /\ host[i] \subseteq {"directory", "lease", "vmm"} /\ ("lease" \in host[i] <=> l)
    BY <1>1, <1>6 DEF VmmStopped, At, HostAt, l
  <2>2. host[i] \ {"vmm"} \in Parts /\ host[i] \ {"vmm"} \subseteq {"directory", "lease"}
        /\ ("lease" \in host[i] \ {"vmm"} <=> "lease" \in host[i])
    BY <2>1 DEF Parts
  <2>3. HostMoves(i) /\ host'[i] = host[i] \ {"vmm"} /\ Moves(guard', i, "finishing", l, TRUE)
    BY <1>2, <1>3, <1>6, <2>2 DEF VmmStopped, Finish, Place
  <2>4. HostAt(i)'
    BY <2>1, <2>2, <2>3 DEF HostAt, Early, Moves
  <2> QED BY <1>4, <2>1, <2>3, <2>4, OnlyMoved DEF Ended
<1>7. CASE Report(i) \/ KillGuard(i)
  <2>1. host' = host /\ guard[i].pc # "none"
    BY <1>7 DEF Report, KillGuard, At
  <2>2. \/ Moves(guard', i, "exited", FALSE, FALSE)
        \/ guard[i].pc = "certified" /\ Moves(guard', i, "reporting", l, c)
    BY <1>2, <1>7 DEF Report, KillGuard, Exit, Goto, At, Place
  <2>3. HostMoves(i) /\ host'[i] = host[i]
    BY <1>3, <2>1
  <2>4. HostAt(i)'
    BY <1>1, <2>2, <2>3 DEF HostAt, Early, Moves, l
  <2>5. guard'[i].pc \in Ended
    BY <2>2 DEF Moves, Ended
  <2>6. CertificateAt(i)' /\ ExecutionAt(i)' /\ EntryAt(i)'
    BY <1>1, <1>4, <2>1, <2>5, EndKept
  <2> QED BY <2>2, <2>3, <2>4, <2>6 DEF Acted, VmAt, Moves
<1> QED BY <1>5, <1>6, <1>7

\* finish leaves a clean certificate only when it removed all there was, and
\* keeps the lease of a hypervisor that may live.
LEMMA FinishActed ==
  ASSUME VmTypeOK, VmInv, NEW i \in Id, FinishGuard(i)
  PROVE  Acted(i)
<1> DEFINE l == guard[i].lease
           c == guard[i].certified
<1>1. /\ host \in [Id -> Parts] /\ guard \in [Id -> Guard] /\ ets \in [Id -> Table] /\ VmAt(i) /\ HostAt(i)
      /\ l \in BOOLEAN /\ c \in BOOLEAN /\ guard[i].pc = "finishing"
  BY DEF VmTypeOK, VmInv, VmAt, Parts, Guard, FinishGuard, At
<1>2. Moves(guard', i, "certified", l, c)
  BY <1>1, MovesFacts DEF FinishGuard, Goto, Place
<1>3. PICK freed, removed \in BOOLEAN :
        LET g == guard[i]
            ok == /\ g.certified /\ ~g.error /\ (g.lease => freed)
                  /\ "directory" \in host[i] => removed
        IN /\ host' = [host EXCEPT ![i] =
                         @ \ ((IF Releases(g, freed) THEN {"lease"} ELSE {})
                              \cup (IF ok THEN {"directory"} ELSE {}))]
           /\ ets' = [ets EXCEPT ![i].terminal = IF ok THEN "ok" ELSE "error"]
  BY DEF FinishGuard
<1> DEFINE ok == /\ guard[i].certified /\ ~guard[i].error /\ (guard[i].lease => freed)
                 /\ "directory" \in host[i] => removed
           gone == (IF Releases(guard[i], freed) THEN {"lease"} ELSE {})
                     \cup (IF ok THEN {"directory"} ELSE {})
<1>4. host' = [host EXCEPT ![i] = @ \ gone] /\ ets' = [ets EXCEPT ![i].terminal = IF ok THEN "ok" ELSE "error"]
  BY <1>3
<1>5. gone \subseteq {"lease", "directory"} /\ ("lease" \in gone <=> c /\ l /\ freed)
      /\ ("directory" \in gone <=> ok)
  BY DEF Releases
<1>6. (ok => c) /\ (ok /\ l => freed)
  OBVIOUS
<1> HIDE DEF ok, gone, l, c
<1>7. host[i] \ gone \in Parts
  BY <1>1 DEF Parts
<1>8. HostMoves(i) /\ host'[i] = host[i] \ gone
  BY <1>1, <1>4, <1>7, HostMovesFacts
<1>9. entries' = entries /\ exec' = exec /\ ets'[i].terminal = IF ok THEN "ok" ELSE "error"
  BY <1>1, <1>4 DEF FinishGuard, ledger, Table
<1>10. /\ l => "lease" \in host[i]
       /\ c => host[i] \subseteq {"directory", "lease"} /\ ("lease" \in host[i] <=> l)
  BY <1>1 DEF HostAt, l, c
<1>11. HostAt(i)'
  <2>1. ASSUME l, "vmm" \in host'[i] PROVE "lease" \in host'[i]
    <3>1. ~c
      BY <1>8, <1>10, <2>1
    <3> QED BY <1>5, <1>8, <1>10, <2>1, <3>1
  <2> QED BY <1>2, <2>1 DEF HostAt, Early, Moves
<1>12. CertificateAt(i)'
  <2>1. ok => host'[i] = {}
    BY <1>5, <1>6, <1>8, <1>10
  <2> QED BY <1>2, <1>9, <2>1 DEF CertificateAt, Moves, Ended
<1>13. ExecutionAt(i)' /\ EntryAt(i)'
  BY <1>1, <1>2, <1>9, UnendedKept DEF Moves, Ended
<1> QED BY <1>2, <1>8, <1>11, <1>12, <1>13 DEF Acted, Moves, VmAt

\* What the processes of one VM write down stays in its types, and is its own.
WritesTyped(i) ==
  /\ exec' \in [Id -> {"none", "requested", "refused", "alive", "dead"}]
  /\ mail' \in [Id -> Seq({"guard_started", "status", "finished"})]
  /\ ets' \in [Id -> Table]
  /\ \A j \in Id \ {i} : exec'[j] = exec[j] /\ mail'[j] = mail[j] /\ ets'[j] = ets[j]

LEMMA GuardWrites ==
  ASSUME VmTypeOK, NEW i \in Id, GuardStep(i)
  PROVE  WritesTyped(i)
<1> DEFINE Kinds == {"guard_started", "status", "finished"}
           Runs == {"none", "requested", "refused", "alive", "dead"}
<1>1. exec \in [Id -> Runs] /\ mail \in [Id -> Seq(Kinds)] /\ ets \in [Id -> Table]
  BY DEF VmTypeOK
<1>2. exec' = exec \/ \E x \in Runs : exec' = [exec EXCEPT ![i] = x]
  BY DEF GuardStep, StartExecution, RefuseExecution, ExecutionStops, KillExecution, WatchLedger,
     Register, AllocateFails, Allocate, FormatterExits, Provision, AdmitLaunch, StopFormatter,
     StopVmm, VmmServerDown, VmmStopped, CleanupDeadline, FinishGuard, Report, KillGuard
<1>3. mail' = mail \/ \E k \in Kinds : mail' = [mail EXCEPT ![i] = Append(mail[i], k)]
  BY DEF GuardStep, StartExecution, RefuseExecution, ExecutionStops, KillExecution, WatchLedger,
     Register, AllocateFails, Allocate, FormatterExits, Provision, AdmitLaunch, StopFormatter,
     StopVmm, VmmServerDown, VmmStopped, CleanupDeadline, FinishGuard, Report, KillGuard, Sent
<1>4. \/ ets' = ets
      \/ ets' = [ets EXCEPT ![i].guard = TRUE]
      \/ ets' = [ets EXCEPT ![i].directory = TRUE]
      \/ \E t \in {"ok", "error"} : ets' = [ets EXCEPT ![i].terminal = t]
  <2>1. CASE FinishGuard(i)
    <3>1. PICK freed, removed \in BOOLEAN :
            LET g == guard[i]
                ok == /\ g.certified /\ ~g.error /\ (g.lease => freed)
                      /\ "directory" \in host[i] => removed
            IN ets' = [ets EXCEPT ![i].terminal = IF ok THEN "ok" ELSE "error"]
      BY <2>1 DEF FinishGuard
    <3> DEFINE ok == /\ guard[i].certified /\ ~guard[i].error /\ (guard[i].lease => freed)
                     /\ "directory" \in host[i] => removed
    <3>2. ets' = [ets EXCEPT ![i].terminal = IF ok THEN "ok" ELSE "error"]
      BY <3>1
    <3> HIDE DEF ok
    <3> QED BY <3>2
  <2>2. CASE ~FinishGuard(i)
    BY <2>2 DEF GuardStep, StartExecution, RefuseExecution, ExecutionStops, KillExecution, WatchLedger,
       Register, AllocateFails, Allocate, FormatterExits, Provision, AdmitLaunch, StopFormatter,
       StopVmm, VmmServerDown, VmmStopped, CleanupDeadline, Report, KillGuard
  <2> QED BY <2>1, <2>2
<1>5. exec' \in [Id -> Runs] /\ \A j \in Id \ {i} : exec'[j] = exec[j]
  BY <1>1, <1>2
<1>6. mail' \in [Id -> Seq(Kinds)] /\ \A j \in Id \ {i} : mail'[j] = mail[j]
  <2>1. \A k \in Kinds : Append(mail[i], k) \in Seq(Kinds)
    BY <1>1
  <2> HIDE DEF Kinds
  <2> QED BY <1>1, <1>3, <2>1
<1>7. ets' \in [Id -> Table] /\ \A j \in Id \ {i} : ets'[j] = ets[j]
  <2>1. \/ ets' = ets
        \/ \E t \in Table : ets' = [ets EXCEPT ![i] = t]
    <3>1. /\ [ets[i] EXCEPT !.guard = TRUE] \in Table /\ [ets[i] EXCEPT !.directory = TRUE] \in Table
          /\ \A t \in {"ok", "error"} : [ets[i] EXCEPT !.terminal = t] \in Table
      BY <1>1 DEF Table
    <3> QED BY <1>4, <3>1
  <2> QED BY <1>1, <2>1
<1> QED BY <1>5, <1>6, <1>7 DEF WritesTyped

LEMMA GuardStepped ==
  ASSUME VmTypeOK, VmAssumption, VmInv, NEW i \in Id, GuardStep(i)
  PROVE  Stepped /\ shut' = shut /\ entries' = entries /\ HostMoves(i)
<1>1. Acted(i)
  BY ControllerActed, LaunchActed, StopActed, FinishActed DEF GuardStep
<1>2. WritesTyped(i)
  BY GuardWrites
<1>3. UNCHANGED ledger
  BY DEF GuardStep, StartExecution, RefuseExecution, ExecutionStops, KillExecution, WatchLedger,
     Register, AllocateFails, Allocate, FormatterExits, Provision, AdmitLaunch, StopFormatter,
     StopVmm, VmmServerDown, VmmStopped, CleanupDeadline, FinishGuard, Report, KillGuard, ledger
<1>4. faults' \in 0..MaxFaults
  <2>1. faults' = faults \/ (faults < MaxFaults /\ faults' = faults + 1)
    BY DEF GuardStep, StartExecution, RefuseExecution, ExecutionStops, KillExecution, WatchLedger,
       Register, AllocateFails, Allocate, FormatterExits, Provision, AdmitLaunch, StopFormatter,
       StopVmm, VmmServerDown, VmmStopped, CleanupDeadline, FinishGuard, Report, KillGuard
  <2> QED BY <2>1 DEF VmTypeOK, VmAssumption
<1>5. VmTypeOK'
  BY <1>1, <1>2, <1>3, <1>4 DEF VmTypeOK, Acted, WritesTyped, HostMoves, Parts, ledger
<1>6. ASSUME NEW j \in Id PROVE VmAt(j)'
  <2>1. CASE j # i
    <3>1. Same(j)
      BY <1>1, <1>2, <1>3, <2>1 DEF Same, Acted, WritesTyped, HostMoves, ledger
    <3> QED BY <3>1, SameKept DEF VmInv
  <2>2. CASE j = i
    BY <1>1, <2>2 DEF Acted
  <2> QED BY <2>1, <2>2
<1>7. Stepped
  BY <1>3, <1>5, <1>6, PhasesKept DEF ledger
<1> QED BY <1>1, <1>3, <1>7 DEF Acted, ledger

-----------------------------------------------------------------------------
(* The resources of some entries *)

\* A non-empty set of natural numbers has a least element.
LEMMA Least ==
  ASSUME NEW P \in SUBSET Nat, P # {}
  PROVE  \E n \in P : \A m \in P : ~(m < n)
<1>1. PICK n \in P : \A m \in P : ~(<<m, n>> \in OpToRel(<, Nat))
  BY NatLessThanWellFounded, WFMin, Zenon
<1>2. \A m \in P : <<m, n>> \in OpToRel(<, Nat) <=> m < n
  BY DEF OpToRel
<1> QED BY <1>1, <1>2

\* What holds of 0, and of n + 1 when it holds of n, holds of every number.
LEMMA Numbers ==
  ASSUME NEW P, 0 \in P, \A n \in Nat : n \in P => n + 1 \in P
  PROVE  \A n \in Nat : n \in P
<1> SUFFICES ASSUME Nat \ P # {} PROVE FALSE
  OBVIOUS
<1>1. PICK n \in Nat \ P : \A m \in Nat \ P : ~(m < n)
  BY Least
<1>2. n # 0 /\ n - 1 \in Nat /\ n - 1 < n /\ (n - 1) + 1 = n
  BY <1>1
<1> QED BY <1>1, <1>2

\* What holds of the empty set, and of a set when it holds of it without any
\* one of its elements, holds of every part of a finite set.
LEMMA Subsets ==
  ASSUME NEW S, IsFiniteSet(S), NEW B, {} \in B,
         \A s \in SUBSET S : s # {} /\ (\A x \in s : s \ {x} \in B) => s \in B
  PROVE  \A s \in SUBSET S : s \in B
<1> DEFINE P == {n \in Nat : \A s \in SUBSET S : Cardinality(s) = n => s \in B}
<1>1. \A s \in SUBSET S : IsFiniteSet(s) /\ Cardinality(s) \in Nat
  BY FS_Subset, FS_CardinalityType
<1>2. 0 \in P
  BY <1>1, FS_EmptySet
<1>3. ASSUME NEW n \in Nat, n \in P PROVE n + 1 \in P
  <2> SUFFICES ASSUME NEW s \in SUBSET S, Cardinality(s) = n + 1 PROVE s \in B
    OBVIOUS
  <2>1. s # {}
    BY FS_EmptySet
  <2>2. ASSUME NEW x \in s PROVE s \ {x} \in B
    <3>1. Cardinality(s \ {x}) = n
      BY <1>1, FS_RemoveElement
    <3> QED BY <1>3, <3>1
  <2> QED BY <2>1, <2>2
<1> HIDE DEF P
<1>4. \A n \in Nat : n \in P
  BY <1>2, <1>3, Numbers
<1> QED BY <1>1, <1>4 DEF P

\* The function by which Used adds: its value on every part of S is that of the
\* part without the element chosen, and the resources of the one chosen.
Chosen(s) == CHOOSE x \in s : TRUE
SumAt(e, f, s) == IF s = {} THEN 0 ELSE e[Chosen(s)].resources + f[s \ {Chosen(s)}]
SumOn(e, S, f) == f = [s \in SUBSET S |-> SumAt(e, f, s)]

LEMMA UsedSum ==
  ASSUME NEW e, NEW S
  PROVE  Used(e, S) = (CHOOSE f : SumOn(e, S, f))[S]
BY DEF Used, MapThenSumSet, MapThenFoldSet, SumOn, SumAt, Chosen

\* It exists on a finite set.
LEMMA SumExists ==
  ASSUME NEW e, NEW S, IsFiniteSet(S)
  PROVE  \E f : SumOn(e, S, f)
<1> DEFINE Upto(n, f) == \A s \in SUBSET S : Cardinality(s) <= n => f[s] = SumAt(e, f, s)
           P == {n \in Nat : \E f : Upto(n, f)}
<1>1. \A s \in SUBSET S : /\ IsFiniteSet(s) /\ Cardinality(s) \in Nat
                          /\ Cardinality(s) <= Cardinality(S)
                          /\ s # {} => Chosen(s) \in s /\ Cardinality(s \ {Chosen(s)}) = Cardinality(s) - 1
  BY FS_Subset, FS_CardinalityType, FS_RemoveElement DEF Chosen
<1>2. 0 \in P
  <2> DEFINE f == [s \in SUBSET S |-> 0]
  <2>1. ASSUME NEW s \in SUBSET S, Cardinality(s) <= 0 PROVE f[s] = SumAt(e, f, s)
    <3>1. IsFiniteSet(s) /\ Cardinality(s) \in Nat
      BY FS_Subset, FS_CardinalityType
    <3>2. s = {}
      BY <2>1, <3>1, FS_EmptySet
    <3> QED BY <3>2 DEF SumAt
  <2> QED BY <2>1
<1>3. ASSUME NEW n \in Nat, n \in P PROVE n + 1 \in P
  <2>1. PICK f : Upto(n, f)
    BY <1>3
  <2> DEFINE g == [s \in SUBSET S |-> SumAt(e, f, s)]
  <2>2. ASSUME NEW s \in SUBSET S, Cardinality(s) <= n + 1 PROVE g[s] = SumAt(e, g, s)
    <3>1. CASE s = {}
      BY <3>1 DEF SumAt
    <3>2. CASE s # {}
      <4> DEFINE t == s \ {Chosen(s)}
      <4>1. t \in SUBSET S /\ Cardinality(t) <= n
        BY <1>1, <2>2, <3>2
      <4>2. f[t] = g[t]
        BY <2>1, <4>1
      <4> QED BY <3>2, <4>1, <4>2 DEF SumAt
    <3> QED BY <3>1, <3>2
  <2> HIDE DEF g
  <2> QED BY <2>2
<1>4. \A n \in Nat : n \in P
  <2> HIDE DEF P
  <2> QED BY <1>2, <1>3, Numbers
<1>5. PICK f : Upto(Cardinality(S), f)
  BY <1>4, FS_CardinalityType
<1> DEFINE h == [s \in SUBSET S |-> f[s]]
<1>6. ASSUME NEW s \in SUBSET S PROVE h[s] = SumAt(e, h, s)
  <2>1. f[s] = SumAt(e, f, s)
    BY <1>1, <1>5
  <2>2. s \ {Chosen(s)} \in SUBSET S
    OBVIOUS
  <2> QED BY <2>1, <2>2 DEF SumAt
<1>7. h = [s \in SUBSET S |-> SumAt(e, h, s)]
  BY <1>6
<1> QED BY <1>7 DEF SumOn

\* Two such functions agree where the resources do.
Alike(e, d, U) == \A i \in U : e[i].resources = d[i].resources

LEMMA SumsAgree ==
  ASSUME NEW e, NEW d, NEW S, NEW T, NEW U, NEW f, NEW g, IsFiniteSet(U), U \subseteq S, U \subseteq T,
         SumOn(e, S, f), SumOn(d, T, g), Alike(e, d, U)
  PROVE  f[U] = g[U]
<1> DEFINE B == {s \in SUBSET U : f[s] = g[s]}
<1>1. \A s \in SUBSET U : f[s] = SumAt(e, f, s) /\ g[s] = SumAt(d, g, s)
  BY DEF SumOn
<1>2. {} \in B
  BY <1>1 DEF SumAt
<1>3. ASSUME NEW s \in SUBSET U, s # {}, \A x \in s : s \ {x} \in B PROVE s \in B
  <2>1. Chosen(s) \in s
    BY <1>3 DEF Chosen
  <2>2. f[s \ {Chosen(s)}] = g[s \ {Chosen(s)}]
    BY <1>3, <2>1
  <2>3. e[Chosen(s)].resources = d[Chosen(s)].resources
    BY <2>1 DEF Alike
  <2> QED BY <1>1, <1>3, <2>2, <2>3 DEF SumAt
<1>4. U \in B
  <2> HIDE DEF B
  <2>1. \A s \in SUBSET U : s \in B
    BY <1>2, <1>3, Subsets
  <2> QED BY <2>1
<1> QED BY <1>4

\* No entries use nothing; one is chosen and the others follow.
LEMMA UsedStep ==
  ASSUME NEW e, NEW S, IsFiniteSet(S)
  PROVE  /\ S = {} => Used(e, S) = 0
         /\ S # {} => Used(e, S) = e[Chosen(S)].resources + Used(e, S \ {Chosen(S)})
<1> DEFINE f == CHOOSE x : SumOn(e, S, x)
           R == S \ {Chosen(S)}
           g == CHOOSE x : SumOn(e, R, x)
<1>1. IsFiniteSet(R)
  BY FS_Subset
<1>2. SumOn(e, S, f)
  BY SumExists
<1>3. SumOn(e, R, g)
  BY <1>1, SumExists
<1>4. Used(e, S) = f[S] /\ Used(e, R) = g[R]
  BY UsedSum
<1> HIDE DEF f, g
<1>5. f[R] = g[R]
  <2>1. R \subseteq S /\ R \subseteq R /\ Alike(e, e, R)
    BY DEF Alike
  <2> HIDE DEF R
  <2> QED BY <1>1, <1>2, <1>3, <2>1, SumsAgree
<1>6. f[S] = SumAt(e, f, S)
  BY <1>2 DEF SumOn
<1> QED BY <1>4, <1>5, <1>6 DEF SumAt

\* Only the resources of the entries count.
LEMMA UsedSame ==
  ASSUME NEW e, NEW d, NEW S, IsFiniteSet(S), Alike(e, d, S)
  PROVE  Used(e, S) = Used(d, S)
<1>1. PICK f : SumOn(e, S, f) /\ f = CHOOSE x : SumOn(e, S, x)
  BY SumExists
<1>2. PICK g : SumOn(d, S, g) /\ g = CHOOSE x : SumOn(d, S, x)
  BY SumExists
<1>3. f[S] = g[S]
  BY <1>1, <1>2, SumsAgree
<1> QED BY <1>1, <1>2, <1>3, UsedSum

\* A number of resources.
LEMMA UsedNat ==
  ASSUME NEW e, NEW S, IsFiniteSet(S), \A i \in S : e[i].resources \in Nat
  PROVE  Used(e, S) \in Nat
<1> DEFINE B == {s \in SUBSET S : Used(e, s) \in Nat}
<1>1. \A s \in SUBSET S : IsFiniteSet(s)
  BY FS_Subset
<1>2. {} \in B
  <2>1. Used(e, {}) = 0
    BY <1>1, UsedStep
  <2> QED BY <2>1
<1>3. ASSUME NEW s \in SUBSET S, s # {}, \A x \in s : s \ {x} \in B PROVE s \in B
  <2>1. Chosen(s) \in s
    BY <1>3 DEF Chosen
  <2>2. e[Chosen(s)].resources \in Nat /\ Used(e, s \ {Chosen(s)}) \in Nat
    BY <1>3, <2>1
  <2>3. Used(e, s) = e[Chosen(s)].resources + Used(e, s \ {Chosen(s)})
    BY <1>1, <1>3, UsedStep
  <2> QED BY <2>2, <2>3
<1>4. S \in B
  <2> HIDE DEF B
  <2>1. \A s \in SUBSET S : s \in B
    BY <1>2, <1>3, Subsets
  <2> QED BY <2>1
<1> QED BY <1>4

\* Whichever entry is taken out.
LEMMA UsedWithout ==
  ASSUME NEW e, NEW S, IsFiniteSet(S), \A i \in S : e[i].resources \in Nat, NEW x \in S
  PROVE  Used(e, S) = e[x].resources + Used(e, S \ {x})
<1> DEFINE B == {s \in SUBSET S : \A y \in s : Used(e, s) = e[y].resources + Used(e, s \ {y})}
<1>1. \A s \in SUBSET S : IsFiniteSet(s) /\ Used(e, s) \in Nat
  <2>1. ASSUME NEW s \in SUBSET S PROVE IsFiniteSet(s) /\ Used(e, s) \in Nat
    <3>1. IsFiniteSet(s)
      BY FS_Subset
    <3> QED BY <3>1, UsedNat
  <2> QED BY <2>1
<1>2. {} \in B
  OBVIOUS
<1>3. ASSUME NEW s \in SUBSET S, s # {}, \A y \in s : s \ {y} \in B PROVE s \in B
  <2> DEFINE o == Chosen(s)
  <2>1. o \in s
    BY <1>3 DEF Chosen
  <2>2. Used(e, s) = e[o].resources + Used(e, s \ {o})
    BY <1>1, <1>3, UsedStep
  <2> HIDE DEF o
  <2>3. ASSUME NEW y \in s, y # o PROVE Used(e, s) = e[y].resources + Used(e, s \ {y})
    <3> DEFINE both == (s \ {o}) \ {y}
    <3>1. both = (s \ {y}) \ {o} /\ both \in SUBSET S
      OBVIOUS
    <3>2. Used(e, s \ {o}) = e[y].resources + Used(e, both)
      BY <1>3, <2>1, <2>3
    <3>3. Used(e, s \ {y}) = e[o].resources + Used(e, both)
      BY <1>3, <2>1, <2>3, <3>1
    <3>4. Used(e, both) \in Nat /\ e[y].resources \in Nat /\ e[o].resources \in Nat
      BY <1>1, <2>1, <3>1
    <3> HIDE DEF both
    <3> QED BY <2>2, <3>2, <3>3, <3>4
  <2> QED BY <2>2, <2>3
<1>4. S \in B
  <2> HIDE DEF B
  <2>1. \A s \in SUBSET S : s \in B
    BY <1>2, <1>3, Subsets
  <2> QED BY <2>1
<1> QED BY <1>4

\* Fewer entries use no more.
LEMMA UsedFewer ==
  ASSUME NEW e, NEW S, IsFiniteSet(S), \A i \in S : e[i].resources \in Nat, NEW T \in SUBSET S
  PROVE  Used(e, T) <= Used(e, S)
<1> DEFINE B == {s \in SUBSET S : \A t \in SUBSET s : Used(e, t) <= Used(e, s)}
<1>1. \A s \in SUBSET S : IsFiniteSet(s) /\ Used(e, s) \in Nat
  <2>1. ASSUME NEW s \in SUBSET S PROVE IsFiniteSet(s) /\ Used(e, s) \in Nat
    <3>1. IsFiniteSet(s)
      BY FS_Subset
    <3> QED BY <3>1, UsedNat
  <2> QED BY <2>1
<1>2. {} \in B
  BY <1>1
<1>3. ASSUME NEW s \in SUBSET S, s # {}, \A x \in s : s \ {x} \in B PROVE s \in B
  <2> SUFFICES ASSUME NEW t \in SUBSET s PROVE Used(e, t) <= Used(e, s)
    OBVIOUS
  <2>1. CASE t = s
    BY <1>1, <2>1
  <2>2. CASE t # s
    <3>1. PICK x \in s : x \notin t
      BY <2>2
    <3>2. Used(e, t) <= Used(e, s \ {x})
      BY <1>3, <3>1
    <3>3. Used(e, s) = e[x].resources + Used(e, s \ {x})
      BY <1>1, UsedWithout
    <3>4. Used(e, t) \in Nat /\ Used(e, s \ {x}) \in Nat /\ e[x].resources \in Nat
      BY <1>1
    <3> QED BY <3>2, <3>3, <3>4
  <2> QED BY <2>1, <2>2
<1>4. S \in B
  <2> HIDE DEF B
  <2>1. \A s \in SUBSET S : s \in B
    BY <1>2, <1>3, Subsets
  <2> QED BY <2>1
<1> QED BY <1>4

-----------------------------------------------------------------------------
(* The budget *)

\* The entries e reserve nothing that the ledger's entries do not reserve, and
\* as much of it; and they are the same VMs.
Lean(e) ==
  \A j \in Id : /\ e[j].reserved => entries[j].reserved /\ e[j].resources = entries[j].resources
                /\ e[j].phase = "new" <=> entries[j].phase = "new"

\* The entries e stand where the ledger's entries stand, with what they use.
SameUse(e) ==
  \A j \in Id : /\ e[j].phase = entries[j].phase /\ e[j].reserved = entries[j].reserved
                /\ e[j].resources = entries[j].resources

\* Writing a flag of an entry leaves its use.
LEMMA FlagKept ==
  ASSUME NEW e, e \in [Id -> Entry], NEW i \in Id, NEW x,
         x.phase = e[i].phase, x.reserved = e[i].reserved, x.resources = e[i].resources,
         SameUse(e)
  PROVE  SameUse([e EXCEPT ![i] = x])
<1>1. \A j \in Id : [e EXCEPT ![i] = x][j] = IF j = i THEN x ELSE e[j]
  OBVIOUS
<1> QED BY <1>1 DEF SameUse

\* recover_status
LEMMA RecoverStatusKept ==
  ASSUME VmTypeOK, NEW i \in Id
  PROVE  RecoverStatus(entries, i) \in [Id -> Entry] /\ SameUse(RecoverStatus(entries, i))
<1> DEFINE d == entries[i].directory \/ (ets[i].directory /\ (entries[i].phase = "active" \/ Certified(i)))
           x == [entries[i] EXCEPT !.directory = d]
<1>1. RecoverStatus(entries, i) = [entries EXCEPT ![i] = x]
  BY DEF RecoverStatus
<1>2. entries \in [Id -> Entry] /\ entries[i] \in Entry
  BY DEF VmTypeOK
<1>3. /\ x \in Entry /\ x.phase = entries[i].phase /\ x.reserved = entries[i].reserved
      /\ x.resources = entries[i].resources
  <2>1. d \in BOOLEAN
    OBVIOUS
  <2> HIDE DEF d
  <2> QED BY <1>2, <2>1 DEF Entry
<1> HIDE DEF x
<1>4. [entries EXCEPT ![i] = x] \in [Id -> Entry]
      /\ \A j \in Id : [entries EXCEPT ![i] = x][j] = IF j = i THEN x ELSE entries[j]
  BY <1>2, <1>3
<1> QED BY <1>1, <1>3, <1>4 DEF SameUse

\* What a restarted ledger takes up.
LEMMA RecoveredKept ==
  ASSUME VmTypeOK
  PROVE  SameUse(Recovered)
<1> SUFFICES ASSUME NEW j \in Id
             PROVE  /\ Recovered[j].phase = entries[j].phase
                    /\ Recovered[j].reserved = entries[j].reserved
                    /\ Recovered[j].resources = entries[j].resources
  BY DEF SameUse
<1> DEFINE g == entries[j].guard \/ ets[j].guard
           x == entries[j].execution \/ exec[j] \in {"alive", "dead"}
           d == RecoverStatus(entries, j)[j].directory
<1>1. entries[j] \in Entry
  BY DEF VmTypeOK
<1>2. Recovered[j] = IF Present(entries, j)
                     THEN [entries[j] EXCEPT !.guard = g, !.execution = x, !.directory = d]
                     ELSE entries[j]
  BY DEF Recovered
<1> HIDE DEF g, x, d
<1> QED BY <1>1, <1>2 DEF Entry

\* complete takes a reservation away or leaves it: it was active.
LEMMA CompletedLean ==
  ASSUME VmInv, NEW e, e \in [Id -> Entry], SameUse(e), NEW i \in Id, e[i].phase = "active",
         NEW ok \in BOOLEAN
  PROVE  Lean(Completed(e, i, ok))
<1> DEFINE p == IF ok THEN "clean" ELSE "retained"
           b == ~ok
           x == [e[i] EXCEPT !.phase = p, !.reserved = b]
<1>1. Completed(e, i, ok) = [e EXCEPT ![i] = x]
  BY DEF Completed
<1>2. x.resources = e[i].resources /\ x.phase # "new"
  <2>1. p # "new"
    OBVIOUS
  <2> HIDE DEF p, b
  <2> QED BY <2>1 DEF Entry
<1>3. e[i].resources = entries[i].resources /\ entries[i].reserved /\ entries[i].phase # "new"
  BY DEF SameUse, VmInv, VmAt, EntryAt
<1> HIDE DEF x
<1>4. \A j \in Id : [e EXCEPT ![i] = x][j] = IF j = i THEN x ELSE e[j]
  OBVIOUS
<1> QED BY <1>1, <1>2, <1>3, <1>4 DEF Lean, SameUse

\* No VM is queued that was not admitted.
Admitted(q) == q \in Seq(Id) /\ \A k \in DOMAIN q : entries[q[k]].phase # "new"

LEMMA OrderAdmitted ==
  ASSUME VmTypeOK, VmInv
  PROVE  Admitted(order)
<1>1. order \in Seq(Id)
  BY DEF VmTypeOK
<1>2. \A k \in DOMAIN order : entries[order[k]].phase # "new"
  BY DEF VmInv, Queued
<1> QED BY <1>1, <1>2 DEF Admitted

\* An evicted entry reserves nothing.
LEMMA EvictLean ==
  ASSUME VmAssumption, NEW e, Lean(e), NEW q, Admitted(q)
  PROVE  Lean(Evict(e, q))
<1>1. ~Blank("gone").reserved /\ Blank("gone").phase # "new"
  BY DEF Blank
<1>2. \A j \in Id : Evict(e, q)[j] = IF j \in Evicted(q) THEN Blank("gone") ELSE e[j]
  BY DEF Evict
<1>3. \A j \in Evicted(q) : entries[j].phase # "new"
  BY EvictFacts DEF Admitted
<1> QED BY <1>1, <1>2, <1>3 DEF Lean

\* complete queues what it completed.
LEMMA QueueAdmitted ==
  ASSUME VmTypeOK, VmInv, NEW e, SameUse(e), NEW i \in Id, NEW ok
  PROVE  Admitted(Queue(e, i, ok))
<1>1. Admitted(order)
  BY OrderAdmitted
<1>2. CASE Completes(e, i) /\ ok
  <2>1. Queue(e, i, ok) = Append(order, i) /\ entries[i].phase # "new"
    BY <1>2 DEF Queue, Completes, SameUse
  <2>2. order \in Seq(Id) /\ \A k \in 1..Len(order) : entries[order[k]].phase # "new"
    BY <1>1, LenProperties DEF Admitted
  <2>3. /\ Append(order, i) \in Seq(Id) /\ DOMAIN Append(order, i) = 1..Len(order) + 1
        /\ Append(order, i)[Len(order) + 1] = i
        /\ \A k \in 1..Len(order) : Append(order, i)[k] = order[k]
    BY <2>2, AppendProperties, LenProperties
  <2>4. ASSUME NEW k \in 1..Len(order) + 1 PROVE entries[Append(order, i)[k]].phase # "new"
    <3>1. k \in 1..Len(order) \/ k = Len(order) + 1
      BY <2>2, LenProperties
    <3> QED BY <2>1, <2>2, <2>3, <3>1
  <2> QED BY <2>1, <2>3, <2>4 DEF Admitted
<1>3. CASE ~(Completes(e, i) /\ ok)
  <2>1. Queue(e, i, ok) = order
    BY <1>3 DEF Queue
  <2> QED BY <1>1, <2>1
<1> QED BY <1>2, <1>3

LEMMA CompleteLean ==
  ASSUME VmTypeOK, VmAssumption, VmInv, NEW e, e \in [Id -> Entry], SameUse(e), NEW i \in Id, NEW ok \in BOOLEAN
  PROVE  Lean(Complete(e, i, ok))
<1>1. CASE ~Completes(e, i)
  <2>1. Complete(e, i, ok) = e
    BY <1>1 DEF Complete
  <2> QED BY <2>1 DEF Lean, SameUse
<1>2. CASE Completes(e, i)
  <2>1. Lean(Completed(e, i, ok))
    BY <1>2, CompletedLean DEF Completes
  <2>2. Complete(e, i, ok) = Evict(Completed(e, i, ok), Queue(e, i, ok))
    BY <1>2 DEF Complete
  <2>3. Admitted(Queue(e, i, ok))
    BY QueueAdmitted
  <2> QED BY <2>1, <2>2, <2>3, EvictLean
<1> QED BY <1>1, <1>2

\* Recovery completes the certified ones.
LEMMA InitLedgerLean ==
  ASSUME VmTypeOK, VmAssumption, VmInv, InitLedger
  PROVE  Lean(entries')
<1> DEFINE certified == {i \in Id : Completes(Recovered, i) /\ Certified(i)}
           clean == {i \in certified : CertifiedClean(i)}
           completed == [i \in Id |-> IF i \in certified THEN Completed(Recovered, i, i \in clean)[i]
                                      ELSE Recovered[i]]
<1>1. PICK q \in [1..Cardinality(clean) -> clean] : entries' = Evict(completed, order \o q)
  BY DEF InitLedger, Settle
<1>2. Recovered \in [Id -> Entry] /\ SameUse(Recovered)
  BY RecoveredFacts, RecoveredKept
<1>3. ASSUME NEW j \in Id
      PROVE  /\ completed[j].reserved =>
                  entries[j].reserved /\ completed[j].resources = entries[j].resources
             /\ completed[j].phase = "new" <=> entries[j].phase = "new"
  <2>1. CASE j \notin certified
    <3>1. completed[j] = Recovered[j]
      BY <2>1
    <3> HIDE DEF completed
    <3> QED BY <1>2, <3>1 DEF SameUse
  <2>2. CASE j \in certified
    <3>1. Recovered[j].phase = "active"
      BY <2>2 DEF Completes
    <3> DEFINE ok == j \in clean
    <3>2. completed[j] = Completed(Recovered, j, ok)[j] /\ ok \in BOOLEAN
      BY <2>2
    <3> HIDE DEF completed, certified, clean, ok
    <3>3. Lean(Completed(Recovered, j, ok))
      BY <1>2, <3>1, <3>2, CompletedLean
    <3> QED BY <3>2, <3>3 DEF Lean
  <2> QED BY <2>1, <2>2
<1>4. clean \subseteq Active(entries) /\ clean \subseteq Id
  BY <1>2 DEF Completes, SameUse, Active
<1> HIDE DEF completed, certified, clean
<1>5. Lean(completed)
  BY <1>3 DEF Lean
<1>6. Admitted(order)
  BY OrderAdmitted
<1>7. Cardinality(clean) \in Nat
  BY <1>4, FS_Subset, FS_CardinalityType DEF VmInv, FewActive
<1>8. q \in Seq(Id) /\ Len(q) = Cardinality(clean) /\ \A k \in 1..Len(q) : entries[q[k]].phase # "new"
  <2>1. q \in [1..Cardinality(clean) -> Id]
    BY <1>4
  <2>2. q \in Seq(Id) /\ Len(q) = Cardinality(clean)
    BY <1>7, <2>1, SeqDef, LenProperties
  <2> QED BY <1>4, <2>2 DEF Active
<1>9. Admitted(order \o q)
  <2>1. order \in Seq(Id) /\ Len(order) \in Nat /\ Len(q) \in Nat
        /\ \A k \in 1..Len(order) : entries[order[k]].phase # "new"
    BY <1>6, <1>8, LenProperties DEF Admitted
  <2>2. /\ order \o q \in Seq(Id) /\ DOMAIN (order \o q) = 1..Len(order) + Len(q)
        /\ \A k \in 1..Len(order) + Len(q) :
             (order \o q)[k] = IF k <= Len(order) THEN order[k] ELSE q[k - Len(order)]
    BY <1>8, <2>1, ConcatProperties, LenProperties
  <2>3. ASSUME NEW k \in 1..Len(order) + Len(q) PROVE entries[(order \o q)[k]].phase # "new"
    <3>1. CASE k <= Len(order)
      BY <2>1, <2>2, <3>1
    <3>2. CASE k > Len(order)
      <4>1. k - Len(order) \in 1..Len(q)
        BY <2>1, <3>2
      <4>2. (order \o q)[k] = q[k - Len(order)]
        BY <2>1, <2>2, <3>2
      <4> QED BY <1>8, <4>1, <4>2
    <3> QED BY <2>1, <3>1, <3>2
  <2> QED BY <2>2, <2>3 DEF Admitted
<1> QED BY <1>1, <1>5, <1>9, EvictLean

\* Only start reserves.
LEMMA LedgerLean ==
  ASSUME VmTypeOK, VmAssumption, VmInv, LedgerStep, \A i \in Id : ~Start(i)
  PROVE  Lean(entries')
<1>1. entries \in [Id -> Entry] /\ SameUse(entries)
  BY DEF VmTypeOK, SameUse
<1>2. ASSUME entries' = entries PROVE Lean(entries')
  BY <1>2 DEF Lean
<1>3. CASE \/ KillLedger \/ AttachManager \/ AttachSupervisor \/ KillManager \/ KillSupervisor
           \/ ManagerDown \/ SupervisorDown \/ Shutdown \/ ShutdownDeadline
           \/ \E i \in Id : StartExits(i) \/ Cancel(i) \/ ExecutionDown(i)
  BY <1>2, <1>3 DEF KillLedger, Dies, AttachManager, AttachSupervisor, KillManager, KillSupervisor,
     ManagerDown, SupervisorDown, Shutdown, ShutdownDeadline, StartExits, Cancel, ExecutionDown, Settle
<1>4. CASE InitLedger
  BY <1>4, InitLedgerLean
<1>5. ASSUME NEW i \in Id, Started(i) \/ GuardStarted(i) \/ StatusCast(i) PROVE Lean(entries')
  <2> DEFINE d == entries[i].directory \/ Completes(entries, i)
             X == {[entries[i] EXCEPT !.execution = TRUE], [entries[i] EXCEPT !.guard = TRUE],
                   [entries[i] EXCEPT !.directory = d]}
  <2>1. entries' = entries \/ \E x \in X : entries' = [entries EXCEPT ![i] = x]
    BY <1>5 DEF Started, GuardStarted, StatusCast
  <2>2. ASSUME NEW x \in X
        PROVE  /\ x.phase = entries[i].phase /\ x.reserved = entries[i].reserved
               /\ x.resources = entries[i].resources
    <3> HIDE DEF d
    <3> QED BY <1>1 DEF Entry
  <2> HIDE DEF X
  <2>3. SameUse(entries')
    <3>1. ASSUME NEW x \in X, entries' = [entries EXCEPT ![i] = x] PROVE SameUse(entries')
      BY <1>1, <2>2, <3>1, FlagKept
    <3> QED BY <1>1, <2>1, <3>1 DEF SameUse
  <2> QED BY <2>3 DEF SameUse, Lean
<1>6. ASSUME NEW i \in Id, StartRefused(i) PROVE Lean(entries')
  <2>1. entries' = [entries EXCEPT ![i] = Blank("gone")]
    BY <1>6 DEF StartRefused
  <2>2. ~Blank("gone").reserved /\ Blank("gone").phase # "new"
    BY DEF Blank
  <2>3. entries[i].phase # "new"
    BY <1>6 DEF StartRefused, VmInv, VmAt, ExecutionAt
  <2>4. entries'[i] = Blank("gone") /\ \A j \in Id \ {i} : entries'[j] = entries[j]
    BY <1>1, <2>1
  <2> QED BY <2>2, <2>3, <2>4 DEF Lean
<1>7. ASSUME NEW i \in Id, Finished(i) PROVE Lean(entries')
  <2> DEFINE ok == ets[i].terminal = "ok"
  <2>1. entries' = Complete(entries, i, ok) \/ entries' = entries
    BY <1>7 DEF Finished, Settle
  <2>2. ok \in BOOLEAN
    OBVIOUS
  <2> HIDE DEF ok
  <2> QED BY <1>1, <1>2, <2>1, <2>2, CompleteLean
<1>8. ASSUME NEW i \in Id, GuardDown(i) PROVE Lean(entries')
  <2> DEFINE ok == CertifiedClean(i)
             e == IF Present(entries, i) THEN RecoverStatus(entries, i) ELSE entries
  <2>1. entries' = Complete(e, i, ok)
    BY <1>8 DEF GuardDown, Settle
  <2>2. ok \in BOOLEAN
    BY DEF CertifiedClean
  <2>3. e \in [Id -> Entry] /\ SameUse(e)
    BY <1>1, RecoverStatusKept
  <2> HIDE DEF ok, e
  <2> QED BY <2>1, <2>2, <2>3, CompleteLean
<1> QED BY <1>3, <1>4, <1>5, <1>6, <1>7, <1>8 DEF LedgerStep

\* What is reserved is finite and within the budget.
Budgeted == IsFiniteSet(Reserved(entries)) /\ WithinBudget

LEMMA ResourcesNat ==
  ASSUME VmTypeOK, VmAssumption
  PROVE  \A j \in Id : entries[j].resources \in Nat
<1>1. \A n \in Amounts \cup {0} : n \in Nat
  BY DEF VmAssumption
<1>2. \A j \in Id : entries[j].resources \in Amounts \cup {0}
  BY DEF VmTypeOK, Entry
<1> QED BY <1>1, <1>2

LEMMA StartBudgeted ==
  ASSUME VmTypeOK, VmAssumption, VmInv, Budgeted, NEW i \in Id, Start(i)
  PROVE  Budgeted'
<1> DEFINE R == Reserved(entries)
<1>1. PICK n \in Amounts : Capacity(n) /\ entries' = [entries EXCEPT
            ![i] = [Blank("active") EXCEPT !.resources = n, !.reserved = TRUE]]
  BY DEF Start
<1> DEFINE x == [Blank("active") EXCEPT !.resources = n, !.reserved = TRUE]
<1>2. x.reserved = TRUE /\ x.resources = n
  BY DEF Blank
<1> HIDE DEF x
<1>3. entries \in [Id -> Entry] /\ entries' = [entries EXCEPT ![i] = x]
  BY <1>1 DEF VmTypeOK, x
<1>4. entries'[i] = x /\ \A j \in Id \ {i} : entries'[j] = entries[j]
  BY <1>3
<1>5. ~entries[i].reserved
  BY DEF Start, VmInv, VmAt, EntryAt
<1>6. Reserved(entries') = R \cup {i} /\ i \notin R /\ (R \cup {i}) \ {i} = R
  BY <1>2, <1>4, <1>5 DEF Reserved
<1>7. IsFiniteSet(R) /\ IsFiniteSet(R \cup {i})
  BY FS_AddElement DEF Budgeted
<1>8. /\ \A j \in R : entries'[j].resources = entries[j].resources
      /\ \A j \in R : entries[j].resources \in Nat
  <2>1. \A j \in R : j \in Id /\ j # i
    BY <1>6 DEF Reserved
  <2> HIDE DEF R
  <2> QED BY <1>4, <2>1, ResourcesNat
<1>9. n \in Nat /\ \A j \in R \cup {i} : entries'[j].resources \in Nat
  BY <1>2, <1>4, <1>6, <1>8 DEF VmAssumption
<1> HIDE DEF R
<1>10. Used(entries', R \cup {i}) = entries'[i].resources + Used(entries', R)
  BY <1>6, <1>7, <1>9, UsedWithout
<1>11. Used(entries', R) = Used(entries, R)
  BY <1>7, <1>8, UsedSame DEF Alike
<1>12. Used(entries, R) \in Nat
  BY <1>7, <1>8, UsedNat
<1>13. Used(entries, R) + n <= Budget
  BY <1>1 DEF Capacity, R
<1>14. Used(entries', Reserved(entries')) <= Budget
  <2>1. Used(entries', Reserved(entries')) = n + Used(entries, R)
    BY <1>2, <1>4, <1>6, <1>10, <1>11
  <2>2. n + Used(entries, R) = Used(entries, R) + n
    BY <1>9, <1>12
  <2> QED BY <1>13, <2>1, <2>2
<1> QED BY <1>6, <1>7, <1>14 DEF Budgeted, WithinBudget

LEMMA LeanBudgeted ==
  ASSUME VmTypeOK, VmAssumption, Budgeted, Lean(entries')
  PROVE  Budgeted'
<1> DEFINE R == Reserved(entries)
           Q == Reserved(entries')
<1>1. Q \in SUBSET R /\ \A j \in Q : entries'[j].resources = entries[j].resources
  BY DEF Lean, Reserved
<1>2. \A j \in R : entries[j].resources \in Nat
  BY ResourcesNat DEF Reserved
<1>3. IsFiniteSet(R) /\ Used(entries, R) <= Budget
  BY DEF Budgeted, WithinBudget
<1> HIDE DEF R, Q
<1>4. IsFiniteSet(Q)
  BY <1>1, <1>3, FS_Subset
<1>5. Used(entries', Q) = Used(entries, Q)
  BY <1>1, <1>4, UsedSame DEF Alike
<1>6. Used(entries, Q) <= Used(entries, R)
  BY <1>1, <1>2, <1>3, UsedFewer
<1>7. Used(entries, Q) \in Nat /\ Used(entries, R) \in Nat /\ Budget \in Nat
  BY <1>1, <1>2, <1>3, <1>4, UsedNat DEF VmAssumption
<1>8. Used(entries', Q) <= Budget
  BY <1>3, <1>5, <1>6, <1>7
<1> QED BY <1>4, <1>8 DEF Budgeted, WithinBudget, Q

-----------------------------------------------------------------------------
(* The ledger implements module Reservations *)

\* Where an entry stands decides what the owner sees of it.
LEMMA SeenFacts ==
  ASSUME NEW x, x \in Entry, x.reserved <=> x.phase \in {"active", "retained"}
  PROVE  /\ x.phase = "new" <=> Seen(x).stage = "free"
         /\ x.phase = "active" <=> Seen(x).stage = "held"
         /\ x.phase = "retained" <=> Seen(x).stage = "kept"
         /\ x.reserved <=> Seen(x).stage \in {"held", "kept"}
         /\ x.reserved => Seen(x) = [stage |-> Seen(x).stage, resources |-> x.resources]
         /\ x.phase \in {"clean", "gone"} => Seen(x) = Owner!Done
<1>1. x.phase \in {"new", "active", "clean", "retained", "gone"}
  BY DEF Entry, Phase
<1> QED BY <1>1 DEF Seen, Owner!Done

LEMMA ClaimFacts ==
  ASSUME VmTypeOK, VmInv
  PROVE  /\ \A i \in Id : /\ Claim[i] = Seen(entries[i]) /\ entries[i] \in Entry
                          /\ entries[i].reserved <=> entries[i].phase \in {"active", "retained"}
         /\ Owner!Standing = Reserved(entries)
<1>1. \A i \in Id : /\ Claim[i] = Seen(entries[i]) /\ entries[i] \in Entry
                    /\ entries[i].reserved <=> entries[i].phase \in {"active", "retained"}
  BY DEF Claim, VmTypeOK, VmInv, VmAt, EntryAt
<1>2. \A i \in Id : Claim[i].stage \in {"held", "kept"} <=> entries[i].reserved
  BY <1>1, SeenFacts
<1> QED BY <1>1, <1>2 DEF Owner!Standing, Reserved

\* start admits a VM.
LEMMA SeesStart ==
  ASSUME VmTypeOK, VmAssumption, VmInv, Budgeted, NEW i \in Id, Start(i)
  PROVE  Owner!ResNext
<1> DEFINE R == Reserved(entries)
<1>1. PICK n \in Amounts : Capacity(n) /\ entries' = [entries EXCEPT
            ![i] = [Blank("active") EXCEPT !.resources = n, !.reserved = TRUE]]
  BY DEF Start
<1> DEFINE x == [Blank("active") EXCEPT !.resources = n, !.reserved = TRUE]
<1>2. Seen(x) = [stage |-> "held", resources |-> n]
  BY DEF Blank, Seen
<1> HIDE DEF x
<1>3. entries \in [Id -> Entry] /\ entries' = [entries EXCEPT ![i] = x]
  BY <1>1 DEF VmTypeOK, x
<1>4. Claim' = [Claim EXCEPT ![i] = Seen(x)]
  <2>1. Claim' = [j \in Id |-> Seen(entries'[j])]
    BY DEF Claim
  <2>2. \A j \in Id : entries'[j] = IF j = i THEN x ELSE entries[j]
    BY <1>3
  <2>3. Claim = [j \in Id |-> Seen(entries[j])]
    BY DEF Claim
  <2> QED BY <2>1, <2>2, <2>3
<1>5. Occupied' = Occupied
  BY DEF Start, Occupied
<1>6. Claim[i].stage = "free"
  BY ClaimFacts, SeenFacts DEF Start
<1>7. Owner!Claimed(Claim, Owner!Standing) + n <= Budget
  <2>1. Owner!Claimed(Claim, R) = Used(Claim, R)
    BY DEF Owner!Claimed, Owner!MapThenSumSet, Owner!MapThenFoldSet,
       Used, MapThenSumSet, MapThenFoldSet
  <2>2. ASSUME NEW j \in R PROVE Claim[j].resources = entries[j].resources
    <3>1. j \in Id /\ entries[j].reserved
      BY DEF Reserved
    <3>2. Seen(entries[j]).resources = entries[j].resources
      BY <3>1 DEF Seen
    <3> QED BY <3>1, <3>2, ClaimFacts
  <2>3. IsFiniteSet(R)
    BY DEF Budgeted
  <2>4. Owner!Standing = R
    BY ClaimFacts
  <2> HIDE DEF R
  <2>5. Alike(Claim, entries, R)
    BY <2>2 DEF Alike
  <2>6. Used(Claim, R) = Used(entries, R)
    BY <2>3, <2>5, UsedSame
  <2>7. Used(entries, R) + n <= Budget
    BY <1>1 DEF Capacity, R
  <2> QED BY <2>1, <2>4, <2>6, <2>7
<1>8. Owner!Admit(i, n)
  BY <1>2, <1>4, <1>5, <1>6, <1>7 DEF Owner!Admit
<1> QED BY <1>8 DEF Owner!ResNext

\* Every other step of the ledger resolves claims: those whose entries it
\* completes, or whose VM was refused.
LEMMA SeesLedger ==
  ASSUME VmTypeOK, VmInv, Stepped, Lean(entries'), host' = host
  PROVE  Owner!ResNext
<1> DEFINE D == {i \in Id : entries[i].phase = "active" /\ ~entries'[i].reserved}
           K == {i \in Id : entries[i].phase = "active" /\ entries'[i].phase = "retained"}
<1>1. /\ \A i \in Id : /\ Claim[i] = Seen(entries[i]) /\ entries[i] \in Entry
                       /\ entries[i].reserved <=> entries[i].phase \in {"active", "retained"}
      /\ \A i \in Id : /\ entries'[i] \in Entry
                       /\ entries'[i].reserved <=> entries'[i].phase \in {"active", "retained"}
  BY ClaimFacts DEF Stepped, VmTypeOK, VmInv, VmAt, EntryAt
<1>2. \A i \in D \cup K : Claim[i].stage = "held"
  BY <1>1, SeenFacts
<1>3. ASSUME NEW i \in D PROVE i \notin K /\ i \notin Occupied
  <2>1. i \in Id /\ ~entries'[i].reserved /\ entries[i].phase = "active"
    OBVIOUS
  <2>2. entries'[i].phase \in {"clean", "gone"}
    BY <1>1, <2>1 DEF Lean, Entry, Phase
  <2>3. host[i] = {}
    BY <2>1, <2>2 DEF Stepped, VmInv, VmAt, EntryAt
  <2> QED BY <2>2, <2>3 DEF Occupied
<1>4. Occupied' = Occupied
  BY DEF Occupied
<1>5. ASSUME NEW i \in Id
      PROVE  Seen(entries'[i]) = IF i \in D THEN Owner!Done
                                 ELSE IF i \in K THEN [Claim[i] EXCEPT !.stage = "kept"]
                                 ELSE Claim[i]
  <2>0. /\ entries'[i] \in Entry /\ entries[i] \in Entry
        /\ entries'[i].phase \in {"new", "active", "clean", "retained", "gone"}
        /\ entries[i].phase \in {"new", "active", "clean", "retained", "gone"}
        /\ entries'[i].phase = "new" <=> entries[i].phase = "new"
        /\ entries'[i].reserved => entries[i].reserved /\ entries'[i].resources = entries[i].resources
        /\ entries[i].phase = "retained" => entries'[i].phase = "retained"
        /\ entries[i].reserved <=> entries[i].phase \in {"active", "retained"}
        /\ entries'[i].reserved <=> entries'[i].phase \in {"active", "retained"}
        /\ entries'[i].reserved \in BOOLEAN /\ entries[i].reserved \in BOOLEAN
    BY <1>1 DEF Lean, Stepped, Entry, Phase
  <2>1. CASE i \in D
    <3>1. entries'[i].phase \in {"clean", "gone"}
      BY <2>0, <2>1
    <3> QED BY <2>0, <2>1, <3>1, SeenFacts
  <2>2. CASE i \in K
    <3>1. i \notin D
      BY <1>3, <2>2
    <3>2. Seen(entries'[i]) = [stage |-> "kept", resources |-> entries[i].resources]
      BY <2>0, <2>2 DEF Seen
    <3>3. Claim[i] = [stage |-> "held", resources |-> entries[i].resources]
      BY <1>1, <2>0, <2>2 DEF Seen
    <3> HIDE DEF D, K
    <3> QED BY <2>2, <3>1, <3>2, <3>3
  <2>3. CASE i \notin D /\ i \notin K
    <3>1. CASE entries[i].reserved
      <4>1. entries'[i].reserved /\ entries'[i].phase = entries[i].phase
        BY <2>0, <2>3, <3>1
      <4>2. Seen(entries'[i]) = Seen(entries[i])
        BY <2>0, <3>1, <4>1 DEF Seen
      <4> QED BY <1>1, <2>3, <4>2
    <3>2. CASE ~entries[i].reserved
      <4>1. ~entries'[i].reserved
        BY <2>0, <3>2
      <4>2. Seen(entries'[i]) = Seen(entries[i])
        BY <2>0, <3>2, <4>1 DEF Seen
      <4> QED BY <1>1, <2>3, <4>2
    <3> QED BY <3>1, <3>2
  <2> QED BY <2>1, <2>2, <2>3
<1>6. Claim' = [i \in Id |-> IF i \in D THEN Owner!Done
                            ELSE IF i \in K THEN [Claim[i] EXCEPT !.stage = "kept"]
                            ELSE Claim[i]]
  <2>1. Claim' = [i \in Id |-> Seen(entries'[i])]
    BY DEF Claim
  <2> HIDE DEF D, K
  <2> QED BY <1>5, <2>1
<1>7. D \in SUBSET Id /\ K \in SUBSET Id
  OBVIOUS
<1> HIDE DEF D, K
<1>8. Owner!Resolve(D, K)
  BY <1>2, <1>3, <1>4, <1>6 DEF Owner!Resolve
<1> QED BY <1>7, <1>8 DEF Owner!ResNext

\* A guard brings its VM to the host and takes it away.
LEMMA SeesGuard ==
  ASSUME VmTypeOK, VmInv, VmTypeOK', VmInv', NEW i \in Id, HostMoves(i), entries' = entries
  PROVE  Owner!ResNext \/ UNCHANGED Owner!resVars
<1>1. Claim' = Claim
  BY DEF Claim
<1>2. \A j \in Id \ {i} : host'[j] = host[j]
  BY DEF HostMoves
<1>3. host[i] # {} \/ host'[i] # {} => i \in Owner!Standing
  <2>1. host[i] # {} \/ host'[i] # {} => entries[i].phase \notin {"new", "clean", "gone"}
    BY DEF VmInv, VmAt, EntryAt
  <2>2. entries[i] \in Entry /\ (entries[i].reserved <=> entries[i].phase \in {"active", "retained"})
    BY ClaimFacts
  <2>3. host[i] # {} \/ host'[i] # {} => entries[i].reserved
    BY <2>1, <2>2 DEF Entry, Phase
  <2> QED BY <2>3, ClaimFacts DEF Reserved
<1>4. CASE host[i] = {} /\ host'[i] = {}
  <2>1. Occupied' = Occupied
    BY <1>2, <1>4 DEF Occupied
  <2> QED BY <1>1, <2>1 DEF Owner!resVars
<1>5. CASE host[i] # {} \/ host'[i] # {}
  <2>1. Occupied' \in {Occupied \cup {i}, Occupied \ {i}}
    <3>1. CASE host'[i] # {}
      <4>1. Occupied' = Occupied \cup {i}
        BY <1>2, <3>1 DEF Occupied
      <4> QED BY <4>1
    <3>2. CASE host'[i] = {}
      <4>1. Occupied' = Occupied \ {i}
        BY <1>2, <3>2 DEF Occupied
      <4> QED BY <4>1
    <3> QED BY <3>1, <3>2
  <2>2. Owner!Use(i)
    BY <1>1, <1>3, <1>5, <2>1 DEF Owner!Use
  <2> QED BY <2>2 DEF Owner!ResNext
<1> QED BY <1>4, <1>5

-----------------------------------------------------------------------------
(* The invariant, and what follows from it *)

LEMMA InitHolds == VmAssumption /\ VmInit => VmTypeOK /\ VmInv
<1> SUFFICES ASSUME VmAssumption, VmInit PROVE VmTypeOK /\ VmInv
  OBVIOUS
<1>1. /\ Blank("new") \in Entry /\ Blank("new").phase = "new" /\ Blank("new").reserved = FALSE
      /\ Idle("none") \in Guard /\ Idle("none").pc = "none" /\ Idle("none").lease = FALSE
      /\ Unwritten \in Table /\ Unwritten.terminal = "none"
  BY DEF Blank, Entry, Phase, Idle, Guard, Place, Unwritten, Table
<1>2. VmTypeOK
  BY <1>1 DEF VmInit, VmTypeOK, VmAssumption
<1>3. ASSUME NEW i \in Id PROVE VmAt(i)
  BY <1>1 DEF VmInit, VmAt, HostAt, CertificateAt, ExecutionAt, EntryAt, Early, Ended
<1>4. Queued /\ FewActive
  <2>1. Active(entries) = {}
    BY <1>1 DEF VmInit, Active
  <2>2. FewActive
    BY <2>1, FS_EmptySet DEF FewActive
  <2>3. order = <<>> /\ Len(order) = 0 /\ DOMAIN order = {}
    BY DEF VmInit
  <2> QED BY <2>2, <2>3 DEF Queued, VmAssumption
<1> QED BY <1>2, <1>3, <1>4 DEF VmInv

LEMMA NextKeeps ==
  VmAssumption /\ VmTypeOK /\ VmInv /\ [VmNext]_vars => Stepped
<1> SUFFICES ASSUME VmAssumption, VmTypeOK, VmInv, [VmNext]_vars PROVE Stepped
  OBVIOUS
<1>1. CASE LedgerStep
  BY <1>1, LedgerStepped
<1>2. CASE \E i \in Id : GuardStep(i)
  BY <1>2, GuardStepped
<1>3. CASE UNCHANGED vars
  <2>1. VmTypeOK'
    BY <1>3 DEF VmTypeOK, vars
  <2>2. \A i \in Id : VmAt(i)'
    BY <1>3, SameKept DEF VmInv, Same, vars
  <2> QED BY <1>3, <2>1, <2>2, PhasesKept DEF vars
<1> QED BY <1>1, <1>2, <1>3 DEF VmNext

\* The inductive invariant: where each guard is, what it left, and what the
\* ledger may have recorded of it.
THEOREM VmInvariant == VmSpec => [](VmTypeOK /\ VmInv)
<1>1. VmInit => VmTypeOK /\ VmInv
  BY InitHolds, VmAssumption
<1>2. VmTypeOK /\ VmInv /\ [VmNext]_vars => (VmTypeOK /\ VmInv)'
  BY NextKeeps, VmAssumption DEF Stepped
<1> QED BY <1>1, <1>2, PTL DEF VmSpec

\* Every variable of the ledger, its guards and its controllers keeps its type
\* through every handler, kill and recovery.
THEOREM VmTypes == VmSpec => []VmTypeOK
BY VmInvariant, PTL

\* Whatever a VM has on the host is covered by a reservation, whoever died:
\* only the certificate of a finished teardown takes a reservation away.
THEOREM VmHostReserved == VmSpec => []HostReserved
<1>1. VmTypeOK /\ VmInv => HostReserved
  BY DEF VmTypeOK, Entry, Phase, VmInv, VmAt, EntryAt, HostReserved, Present
<1> QED BY <1>1, VmInvariant, PTL

\* A certified teardown is never recorded as unconfirmed, in whatever order the
\* guard's call, its death and the ledger's recovery are handled.
THEOREM VmCertificates == VmSpec => []CertificateRespected
<1>1. VmInv => CertificateRespected
  BY DEF VmInv, VmAt, EntryAt, CertificateRespected
<1> QED BY <1>1, VmInvariant, PTL

\* The guard's teardown keeps the lease while the hypervisor may live.
THEOREM VmLeases == VmSpec => []LeaseOutlivesVmm
<1>1. VmTypeOK /\ VmInv => LeaseOutlivesVmm
  <2> SUFFICES ASSUME VmTypeOK, VmInv, NEW i \in Id, "vmm" \in host[i], guard[i].lease
               PROVE  "lease" \in host[i]
    BY DEF LeaseOutlivesVmm
  <2>1. guard[i].pc \in Place /\ HostAt(i)
    BY DEF VmTypeOK, Guard, VmInv, VmAt
  <2> QED BY <2>1 DEF HostAt, Early, Place
<1> QED BY <1>1, VmInvariant, PTL

\* "uncertain cleanup is never evicted or released": neither recovery nor
\* eviction nor a late message touches a failed cleanup.
THEOREM VmRetained == VmSpec => RetainedKept
<1>1. VmTypeOK /\ VmInv /\ [VmNext]_vars =>
        [\A i \in Id : entries[i].phase = "retained" =>
           entries'[i].phase = "retained" /\ entries'[i].reserved]_vars
  <2> SUFFICES ASSUME VmTypeOK, VmInv, [VmNext]_vars
               PROVE  \A i \in Id : entries[i].phase = "retained" =>
                        entries'[i].phase = "retained" /\ entries'[i].reserved
    OBVIOUS
  <2>1. Stepped
    BY NextKeeps, VmAssumption
  <2> QED BY <2>1 DEF Stepped, VmInv, VmAt, EntryAt
<1> QED BY <1>1, VmInvariant, PTL DEF VmSpec, RetainedKept

\* settle and the deadline answer :ok to a shutdown only when no reservation is
\* left, and then nothing is left on the host.
THEOREM VmShutdown == VmSpec => ShutdownTruth
<1>1. VmTypeOK /\ VmInv /\ [VmNext]_vars =>
        [(shut.waiting \/ Shutdown) /\ ~shut'.waiting
           /\ ShutdownResult(entries') = "ok" => \A i \in Id : host[i] = {}]_vars
  <2> SUFFICES ASSUME VmTypeOK, VmInv, VmNext, shut.waiting \/ Shutdown, ~shut'.waiting,
                      ShutdownResult(entries') = "ok"
               PROVE  \A i \in Id : host[i] = {}
    OBVIOUS
  <2>1. LedgerStep
    <3>1. ASSUME NEW i \in Id, GuardStep(i) PROVE LedgerStep
      <4>1. shut' = shut
        BY <3>1, GuardStepped, VmAssumption
      <4>2. Shutdown
        BY <4>1
      <4> QED BY <4>2 DEF LedgerStep
    <3> QED BY <3>1 DEF VmNext
  <2>2. Stepped /\ host' = host
    BY <2>1, LedgerStepped, VmAssumption
  <2>3. Reserved(entries') = {}
    BY DEF ShutdownResult
  <2>4. ASSUME NEW i \in Id PROVE host'[i] = {}
    <3>1. ~entries'[i].reserved /\ entries'[i].phase \in Phase
      BY <2>2, <2>3 DEF Reserved, Stepped, VmTypeOK, Entry
    <3> QED BY <2>2, <3>1 DEF Stepped, VmInv, VmAt, EntryAt, Phase
  <2> QED BY <2>2, <2>4
<1> QED BY <1>1, VmInvariant, PTL DEF VmSpec, ShutdownTruth

\* What is reserved stays finite and within the budget: capacity lets start in
\* only when what is reserved leaves room, and nothing else reserves.
LEMMA VmBudgeted == VmSpec => []Budgeted
<1>1. VmInit => Budgeted
  <2> SUFFICES ASSUME VmInit PROVE Budgeted
    OBVIOUS
  <2>1. Reserved(entries) = {}
    BY DEF VmInit, Blank, Reserved
  <2>2. Used(entries, {}) = 0
    BY FS_EmptySet, UsedStep
  <2> QED BY <2>1, <2>2, FS_EmptySet, VmAssumption DEF Budgeted, WithinBudget, VmAssumption
<1>2. VmTypeOK /\ VmInv /\ Budgeted /\ [VmNext]_vars => Budgeted'
  <2> SUFFICES ASSUME VmTypeOK, VmInv, Budgeted, [VmNext]_vars PROVE Budgeted'
    OBVIOUS
  <2>1. ASSUME NEW i \in Id, Start(i) PROVE Budgeted'
    BY <2>1, StartBudgeted, VmAssumption
  <2>2. CASE LedgerStep /\ \A i \in Id : ~Start(i)
    BY <2>2, LedgerLean, LeanBudgeted, VmAssumption
  <2>3. CASE UNCHANGED vars \/ \E i \in Id : GuardStep(i)
    <3>1. entries' = entries
      BY <2>3, GuardStepped, VmAssumption DEF vars
    <3> QED BY <3>1 DEF Budgeted, WithinBudget
  <2> QED BY <2>1, <2>2, <2>3 DEF VmNext
<1> QED BY <1>1, <1>2, VmInvariant, PTL DEF VmSpec

\* Reservations never exceed the budget, those of killed guards and failed
\* cleanups included, for any number of VMs and over any number of restarts.
THEOREM VmBudget == VmSpec => []WithinBudget
<1>1. Budgeted => WithinBudget
  BY DEF Budgeted
<1> QED BY <1>1, VmBudgeted, PTL

\* The ledger with its guards, controllers, kills and recoveries implements the
\* atomic admission of module Reservations: start admits, a step of a guard
\* uses or leaves the host, and every other step resolves the claims of VMs of
\* which nothing is left, or stutters.
THEOREM VmReservations == VmSpec => ImplementsReservations
<1>1. VmInit => Owner!ResInit
  <2> SUFFICES ASSUME VmInit PROVE Owner!ResInit
    OBVIOUS
  <2>1. \A i \in Id : Seen(entries[i]) = Owner!Free
    BY DEF VmInit, Blank, Seen, Owner!Free
  <2>2. Claim = [i \in Id |-> Owner!Free]
    BY <2>1 DEF Claim
  <2>3. Occupied = {}
    BY DEF VmInit, Occupied
  <2> QED BY <2>2, <2>3 DEF Owner!ResInit
<1>2. VmTypeOK /\ VmInv /\ Budgeted /\ [VmNext]_vars => [Owner!ResNext]_Owner!resVars
  <2> SUFFICES ASSUME VmTypeOK, VmInv, Budgeted, [VmNext]_vars
               PROVE  Owner!ResNext \/ UNCHANGED Owner!resVars
    OBVIOUS
  <2>1. ASSUME NEW i \in Id, Start(i) PROVE Owner!ResNext
    BY <2>1, SeesStart, VmAssumption
  <2>2. CASE LedgerStep /\ \A i \in Id : ~Start(i)
    <3>1. Stepped /\ host' = host
      BY <2>2, LedgerStepped, VmAssumption
    <3>2. Lean(entries')
      BY <2>2, LedgerLean, VmAssumption
    <3> QED BY <3>1, <3>2, SeesLedger
  <2>3. ASSUME NEW i \in Id, GuardStep(i) PROVE Owner!ResNext \/ UNCHANGED Owner!resVars
    <3>1. Stepped /\ entries' = entries /\ HostMoves(i)
      BY <2>3, GuardStepped, VmAssumption
    <3> QED BY <3>1, SeesGuard DEF Stepped
  <2>4. CASE UNCHANGED vars
    BY <2>4 DEF vars, Owner!resVars, Claim, Occupied
  <2> QED BY <2>1, <2>2, <2>3, <2>4 DEF VmNext
<1> QED BY <1>1, <1>2, VmInvariant, VmBudgeted, PTL
    DEF VmSpec, ImplementsReservations, Owner!ResSpec
=============================================================================
