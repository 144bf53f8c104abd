------------------------------ MODULE VmLedger ------------------------------
(***************************************************************************)
(* The virtual machine manager of a garden: the accounting process         *)
(* (Garden.VM.Ledger), the guards that own the host resources of one VM    *)
(* each (Garden.VM.Guard), and the controllers (Garden.VM.Execution) under *)
(* the execution supervisor.                                               *)
(*                                                                         *)
(* Every handler of the ledger ends by writing its state to an ETS table   *)
(* that outlives it, so `entries` stands for both copies: a ledger that    *)
(* dies loses its monitors and its mailbox, never its entries.  The one    *)
(* handler that waits is start, which writes the entry before it calls the *)
(* supervisor; `calling` is that wait.  Guards are linked to nobody.  They *)
(* leave certificates in the same table, for a ledger that comes later.    *)
(*                                                                         *)
(* Messages of one guard to the ledger arrive in order, before the news of *)
(* its death; there is no order between different processes.  A {:finish}, *)
(* a deadline and the death of a watched process all make a guard stop;    *)
(* they differ in the result, which nothing depends on.  The supervisor of *)
(* the subtree is linked to the ledger, so its death is the ledger's.      *)
(***************************************************************************)
EXTENDS Naturals, FiniteSets, Sequences, FiniteSetsExt

CONSTANTS
  Id,           \* execution ids; unique_integer never repeats one
  Budget,       \* budgets, in one of the four dimensions
  Amounts,      \* what a request may ask for in that dimension
  ResultLimit,  \* result_limit
  Hosted,       \* bound: the ids for which a directory can be made
  MaxFaults,    \* bound: processes killed
  None          \* no id

ASSUME VmAssumption ==
  /\ Budget \in Nat \ {0} /\ Amounts \subseteq Nat \ {0} /\ ResultLimit \in Nat /\ MaxFaults \in Nat
  /\ None \notin Id /\ Hosted \subseteq Id

VARIABLES
  mode,      \* the ledger's mode, or "down"
  entries,   \* Id -> its entry in memory and in ETS
  order,     \* clean_order
  monitors,  \* kinds of the ledger's monitors
  calling,   \* the id start waits for the supervisor about, or None
  manager,   \* the ledger's manager pid: nil, of a live or of a dead process
  supervisor,\* the same of the execution supervisor
  shut,      \* shutdown_waiters, shutdown_timer
  exec,      \* Id -> the controller
  guard,     \* Id -> the guard
  mail,      \* Id -> messages of its guard in the ledger's mailbox
  ets,       \* Id -> what its guard has written to the table
  host,      \* Id -> resources that exist on the host
  faults     \* processes killed so far

vars == <<mode, entries, order, monitors, calling, manager, supervisor, shut,
          exec, guard, mail, ets, host, faults>>

procs == <<exec, guard, mail, ets, host>>

\* "new" was never admitted, "gone" was evicted or refused; "active" is every
\* phase but the three terminal ones, "clean" is finished and stopped.
Phase == {"new", "active", "clean", "retained", "gone"}

Entry == [phase: Phase, resources: Amounts \cup {0}, reserved: BOOLEAN,
          guard: BOOLEAN, execution: BOOLEAN, directory: BOOLEAN]

\* asked: a message that makes it stop is in its mailbox; watches: its
\* ledger_monitor is of a ledger; lease: it holds a Garden.VM.Network;
\* error: cleanup_error; certified: the certification finish is called with.
Place == {"none", "spawned", "watching", "registering", "allocating",
          "formatting", "unformatting", "provisioning", "admitting",
          "running", "stopping", "finishing", "certified", "reporting", "exited"}
Guard == [pc: Place, asked: BOOLEAN, watches: BOOLEAN, lease: BOOLEAN, error: BOOLEAN,
          certified: BOOLEAN]

Table == [guard: BOOLEAN, directory: BOOLEAN, terminal: {"none", "ok", "error"}]

VmTypeOK ==
  /\ mode \in {"down", "recovering", "open", "shutdown"}
  /\ entries \in [Id -> Entry]
  /\ order \in Seq(Id)
  /\ monitors \subseteq ({"manager", "supervisor"} \X {None}) \cup ({"execution", "guard"} \X Id)
  /\ calling \in Id \cup {None}
  /\ manager \in {"none", "live", "dead"} /\ supervisor \in {"none", "live", "dead"}
  /\ shut \in [waiting: BOOLEAN, timer: BOOLEAN]
  /\ exec \in [Id -> {"none", "requested", "refused", "alive", "dead"}]
  /\ guard \in [Id -> Guard]
  /\ mail \in [Id -> Seq({"guard_started", "status", "finished"})]
  /\ ets \in [Id -> Table]
  /\ host \in [Id -> SUBSET {"directory", "formatter", "lease", "vmm"}]
  /\ faults \in 0..MaxFaults

Blank(phase) == [phase |-> phase, resources |-> 0, reserved |-> FALSE,
                 guard |-> FALSE, execution |-> FALSE, directory |-> FALSE]

Idle(pc) == [pc |-> pc, asked |-> FALSE, watches |-> FALSE, lease |-> FALSE,
             error |-> FALSE, certified |-> FALSE]

Unwritten == [guard |-> FALSE, directory |-> FALSE, terminal |-> "none"]

VmInit ==
  /\ mode = "down"
  /\ entries = [i \in Id |-> Blank("new")]
  /\ order = <<>> /\ monitors = {} /\ calling = None
  /\ manager = "none" /\ supervisor = "none"
  /\ shut = [waiting |-> FALSE, timer |-> FALSE]
  /\ exec = [i \in Id |-> "none"]
  /\ guard = [i \in Id |-> Idle("none")]
  /\ mail = [i \in Id |-> <<>>]
  /\ ets = [i \in Id |-> Unwritten]
  /\ host = [i \in Id |-> {}]
  /\ faults = 0

-----------------------------------------------------------------------------
(* The ledger's helpers *)

\* The ledger handles the next message.
Serving == mode # "down" /\ calling = None

Present(e, i) == e[i].phase \notin {"new", "gone"}
Active(e) == {i \in Id : e[i].phase = "active"}
Reserved(e) == {i \in Id : e[i].reserved}

\* The resources of some entries.
Used(e, ids) == MapThenSumSet(LAMBDA i : e[i].resources, ids)

\* Faulty variant of Capacity: terminal entries do not count.
CapacityActive(n) == Used(entries, Active(entries)) + n <= Budget

\* capacity: every reservation counts, whatever became of its VM.
Capacity(n) == Used(entries, Reserved(entries)) + n <= Budget

\* evict: the oldest clean results beyond the limit go, and what the table
\* holds of them.
Evicted(q) == {q[k] : k \in {j \in DOMAIN q : j + ResultLimit <= Len(q)}}
Evict(e, q) == [i \in Id |-> IF i \in Evicted(q) THEN Blank("gone") ELSE e[i]]
EvictOrder(q) ==
  IF Len(q) > ResultLimit THEN SubSeq(q, Len(q) - ResultLimit + 1, Len(q)) ELSE q
EvictTable(q) == ets' = [i \in Id |-> IF i \in Evicted(q) THEN Unwritten ELSE ets[i]]

\* complete does nothing unless the entry is active and knows the guard.
Completes(e, i) == e[i].phase = "active" /\ e[i].guard

\* Faulty variant of Completed: a failed cleanup releases its reservation.
CompletedReleased(e, i, ok) ==
  [e EXCEPT ![i].phase = IF ok THEN "clean" ELSE "retained", ![i].reserved = FALSE]

\* The entry that complete writes.
Completed(e, i, ok) ==
  [e EXCEPT ![i].phase = IF ok THEN "clean" ELSE "retained", ![i].reserved = ~ok]

\* Faulty variant of Queue: failed cleanups are queued for eviction.
QueueAll(e, i, ok) == IF Completes(e, i) THEN Append(order, i) ELSE order

\* complete queues the clean result and evicts.
Queue(e, i, ok) == IF Completes(e, i) /\ ok THEN Append(order, i) ELSE order
Complete(e, i, ok) ==
  IF Completes(e, i) THEN Evict(Completed(e, i, ok), Queue(e, i, ok)) ELSE e

\* Faulty variant of CertifiedClean: the certificate is not read.
CertifiedCleanNever(i) == FALSE

\* certificate: what the guard left in the table before it reported.
Certified(i) == ets[i].terminal # "none"
CertifiedClean(i) == ets[i].terminal = "ok"

\* recover_status of an active entry; certificate recovers it of any.
RecoverStatus(e, i) ==
  [e EXCEPT ![i].directory =
     @ \/ (ets[i].directory /\ (e[i].phase = "active" \/ Certified(i)))]

\* cancel_entry: to the guard, or through the controller, which passes it on.
\* Nobody receives what is sent to a guard that exited.
Cancellable(e, i) ==
  guard[i].pc # "exited" /\ (e[i].guard \/ (e[i].execution /\ exec[i] = "alive"))
Ask(ids) == [i \in Id |-> [guard[i] EXCEPT !.asked = @ \/ i \in ids]]

\* Faulty variant of Drain: nobody is told.
DrainNobody(e) == guard

\* drain
Drain(e) == Ask({i \in Active(e) : Cancellable(e, i)})

\* recovery_mode: a shutdown is not undone.
RecoveryMode == IF mode = "shutdown" THEN "shutdown" ELSE "recovering"

\* Faulty variant of ShutdownResult: failed cleanups are not reported.
ShutdownResultActive(e) == IF Active(e) = {} THEN "ok" ELSE "incomplete"

\* shutdown_result, what settle and the deadline answer to those who wait.
ShutdownResult(e) == IF Reserved(e) = {} THEN "ok" ELSE "incomplete"

\* settle, with the new state of the ledger.
Settle(m, e, mg, sv, sh) ==
  /\ entries' = e /\ manager' = mg /\ supervisor' = sv
  /\ mode' = IF Active(e) = {} /\ m = "recovering" /\ mg = "live" /\ sv = "live"
             THEN "open" ELSE m
  /\ shut' = IF Active(e) = {} /\ m = "shutdown"
             THEN [waiting |-> FALSE, timer |-> FALSE]
             ELSE sh

-----------------------------------------------------------------------------
(* The ledger's life *)

\* The process is gone.  Its mailbox is lost, a guard waiting for a reply gets
\* an exit, and the guards that watch it get a DOWN.
Dies ==
  /\ mode' = "down" /\ monitors' = {} /\ calling' = None
  /\ shut' = [shut EXCEPT !.timer = FALSE]
  /\ mail' = [i \in Id |-> <<>>]
  /\ guard' = [i \in Id |->
       CASE guard[i].pc = "reporting" -> Idle("exited")
         [] guard[i].pc = "registering" ->
              [guard[i] EXCEPT !.pc = "finishing", !.certified = TRUE]
         [] OTHER -> [guard[i] EXCEPT !.asked = @ \/ guard[i].watches]]
  /\ UNCHANGED <<entries, order, manager, supervisor, exec, ets, host>>

KillLedger ==
  /\ mode # "down" /\ faults < MaxFaults
  /\ faults' = faults + 1
  /\ Dies

\* monitor: nothing for a nil pid.
Watched(kind, pid) == IF pid = "none" THEN {} ELSE {<<kind, None>>}

\* Faulty variant of Recovered: the entry is made anew, without its resources.
RecoveredAnew ==
  [i \in Id |->
     IF Present(entries, i)
     THEN [entries[i] EXCEPT !.guard = ets[i].guard, !.execution = exec[i] \in {"alive", "dead"},
                             !.directory = ets[i].directory, !.resources = 0]
     ELSE entries[i]]

\* What init reads back: every entry, and of an active one what its guard and
\* its controller left in the table.
Recovered ==
  [i \in Id |->
     IF Present(entries, i)
     THEN [entries[i] EXCEPT !.guard = @ \/ ets[i].guard,
                             !.execution = @ \/ exec[i] \in {"alive", "dead"},
                             !.directory = RecoverStatus(entries, i)[i].directory]
     ELSE entries[i]]

\* init of a restarted ledger: it takes up the entries, the guards and the
\* controllers in the table, completes what was certified meanwhile and
\* cancels the rest.
InitLedger ==
  /\ mode = "down"
  /\ LET certified == {i \in Id : Completes(Recovered, i) /\ Certified(i)}
         clean == {i \in certified : CertifiedClean(i)}
         completed == [i \in Id |-> IF i \in certified
                                    THEN Completed(Recovered, i, i \in clean)[i]
                                    ELSE Recovered[i]]
     IN \E q \in {s \in [1..Cardinality(clean) -> clean] :
                     \A j, k \in DOMAIN s : s[j] = s[k] => j = k} :
          /\ order' = EvictOrder(order \o q)
          /\ EvictTable(order \o q)
          /\ guard' = Drain(completed)
          /\ Settle("recovering", Evict(completed, order \o q), manager, supervisor, shut)
  /\ monitors' = Watched("manager", manager) \cup Watched("supervisor", supervisor)
                   \cup {<<"guard", i>> : i \in {j \in Id : Recovered[j].guard}}
                   \cup {<<"execution", i>> : i \in {j \in Id : Recovered[j].execution}}
  /\ UNCHANGED <<calling, exec, mail, host, faults>>

\* attach_manager, attach_supervisor, called by init of a new process.
AttachManager ==
  /\ Serving /\ manager # "live"
  /\ LET m == IF manager = "dead" THEN RecoveryMode ELSE mode
     IN Settle(m, entries, "live", supervisor, shut)
  /\ guard' = IF manager = "dead" THEN Drain(entries) ELSE guard
  /\ monitors' = monitors \cup Watched("manager", "live")
  /\ UNCHANGED <<order, calling, exec, mail, ets, host, faults>>

AttachSupervisor ==
  /\ Serving /\ supervisor # "live"
  /\ LET m == IF supervisor = "dead" THEN RecoveryMode ELSE mode
     IN Settle(m, entries, manager, "live", shut)
  /\ guard' = IF supervisor = "dead" THEN Drain(entries) ELSE guard
  /\ monitors' = monitors \cup Watched("supervisor", "live")
  /\ UNCHANGED <<order, calling, exec, mail, ets, host, faults>>

KillManager ==
  /\ manager = "live" /\ faults < MaxFaults
  /\ faults' = faults + 1
  /\ manager' = "dead"
  /\ UNCHANGED <<mode, entries, order, monitors, calling, supervisor, shut>>
  /\ UNCHANGED procs

\* The controllers are linked to their supervisor, the guards are not.
KillSupervisor ==
  /\ supervisor = "live" /\ faults < MaxFaults
  /\ faults' = faults + 1
  /\ supervisor' = "dead"
  /\ exec' = [i \in Id |-> CASE exec[i] = "alive" -> "dead"
                             [] exec[i] = "requested" -> "none"
                             [] OTHER -> exec[i]]
  /\ UNCHANGED <<mode, entries, order, monitors, calling, manager, shut, guard,
                 mail, ets, host>>

ManagerDown ==
  /\ Serving /\ manager = "dead" /\ <<"manager", None>> \in monitors
  /\ monitors' = monitors \ {<<"manager", None>>}
  /\ guard' = Drain(entries)
  /\ Settle(RecoveryMode, entries, "none", supervisor, shut)
  /\ UNCHANGED <<order, calling, exec, mail, ets, host, faults>>

SupervisorDown ==
  /\ Serving /\ supervisor = "dead" /\ <<"supervisor", None>> \in monitors
  /\ monitors' = monitors \ {<<"supervisor", None>>}
  /\ guard' = Drain(entries)
  /\ Settle(RecoveryMode, entries, manager, "none", shut)
  /\ UNCHANGED <<order, calling, exec, mail, ets, host, faults>>

-----------------------------------------------------------------------------
(* Requests *)

\* start up to the call of the supervisor: the entry is in the table before
\* anything runs for it.  A dead supervisor does not get the request.
Start(i) ==
  /\ Serving /\ mode = "open" /\ entries[i].phase = "new"
  /\ \E n \in Amounts :
       /\ Capacity(n)
       /\ entries' = [entries EXCEPT
            ![i] = [Blank("active") EXCEPT !.resources = n, !.reserved = TRUE]]
  /\ calling' = i
  /\ exec' = [exec EXCEPT ![i] = IF supervisor = "live" THEN "requested" ELSE @]
  /\ UNCHANGED <<mode, order, monitors, manager, supervisor, shut, guard, mail,
                 ets, host, faults>>

\* start after the supervisor's answer.
Started(i) ==
  /\ calling = i /\ exec[i] \in {"alive", "dead"}
  /\ entries' = [entries EXCEPT ![i].execution = TRUE]
  /\ monitors' = monitors \cup {<<"execution", i>>}
  /\ calling' = None
  /\ UNCHANGED <<mode, order, manager, supervisor, shut, faults>>
  /\ UNCHANGED procs

StartRefused(i) ==
  /\ calling = i /\ exec[i] = "refused"
  /\ entries' = [entries EXCEPT ![i] = Blank("gone")]
  /\ calling' = None
  /\ UNCHANGED <<mode, order, monitors, manager, supervisor, shut, faults>>
  /\ UNCHANGED procs

\* The call of a dead supervisor exits, and the ledger with it.
StartExits(i) ==
  /\ calling = i /\ exec[i] = "none"
  /\ faults' = faults
  /\ Dies

\* cancel and stop.  The callers of stop and await are kept with the entry and
\* answered by complete; await changes nothing else.
Cancel(i) ==
  /\ Serving /\ entries[i].phase = "active"
  /\ guard' = Ask({j \in {i} : Cancellable(entries, j)})
  /\ UNCHANGED <<mode, entries, order, monitors, calling, manager, supervisor,
                 shut, exec, mail, ets, host, faults>>

Shutdown ==
  /\ Serving
  /\ guard' = Drain(entries)
  /\ Settle("shutdown", entries, manager, supervisor,
            [shut EXCEPT !.waiting = TRUE, !.timer = TRUE])
  /\ UNCHANGED <<order, monitors, calling, exec, mail, ets, host, faults>>

ShutdownDeadline ==
  /\ Serving /\ shut.timer
  /\ shut' = [waiting |-> FALSE, timer |-> FALSE]
  /\ UNCHANGED <<mode, entries, order, monitors, calling, manager, supervisor, faults>>
  /\ UNCHANGED procs

-----------------------------------------------------------------------------
(* Messages of guards and controllers *)

Message(i, kind) == Serving /\ mail[i] # <<>> /\ Head(mail[i]) = kind
Received(i) == mail' = [mail EXCEPT ![i] = Tail(@)]

\* Faulty variant of Monitored: the guard's death goes unnoticed.
MonitoredNot(i) == monitors

\* monitor of a guard
Monitored(i) == monitors \cup {<<"guard", i>>}

\* guard_started: a guard is let on only while admission is open.
GuardStarted(i) ==
  /\ Message(i, "guard_started") /\ Received(i)
  /\ entries' = IF Present(entries, i) THEN [entries EXCEPT ![i].guard = TRUE] ELSE entries
  /\ monitors' = IF Present(entries, i) THEN Monitored(i) ELSE monitors
  /\ LET go == mode = "open" /\ entries[i].phase = "active"
     IN guard' = IF guard[i].pc = "registering"
                 THEN [guard EXCEPT ![i].pc = IF go THEN "allocating" ELSE "finishing",
                                    ![i].certified = ~go]
                 ELSE guard
  /\ UNCHANGED <<mode, order, calling, manager, supervisor, shut, exec, ets,
                 host, faults>>

\* handle_cast {:status, ...}
StatusCast(i) ==
  /\ Message(i, "status") /\ Received(i)
  /\ entries' = [entries EXCEPT ![i].directory = @ \/ Completes(entries, i)]
  /\ UNCHANGED <<mode, order, monitors, calling, manager, supervisor, shut,
                 exec, guard, ets, host, faults>>

Finished(i) ==
  /\ Message(i, "finished") /\ Received(i)
  /\ LET ok == ets[i].terminal = "ok"
     IN /\ order' = EvictOrder(Queue(entries, i, ok))
        /\ EvictTable(Queue(entries, i, ok))
        /\ IF Completes(entries, i)
           THEN Settle(mode, Complete(entries, i, ok), manager, supervisor, shut)
           ELSE UNCHANGED <<mode, entries, manager, supervisor, shut>>
  /\ guard' = [guard EXCEPT ![i] = Idle("exited")]
  /\ UNCHANGED <<monitors, calling, exec, host, faults>>

\* DOWN of a guard: what it certified, or unconfirmed.
GuardDown(i) ==
  /\ Serving /\ <<"guard", i>> \in monitors /\ guard[i].pc = "exited" /\ mail[i] = <<>>
  /\ monitors' = monitors \ {<<"guard", i>>}
  /\ LET ok == CertifiedClean(i)
         e == IF Present(entries, i) THEN RecoverStatus(entries, i) ELSE entries
     IN /\ order' = EvictOrder(Queue(e, i, ok))
        /\ EvictTable(Queue(e, i, ok))
        /\ Settle(mode, Complete(e, i, ok), manager, supervisor, shut)
  /\ UNCHANGED <<calling, exec, guard, mail, host, faults>>

\* DOWN of a controller: its guard is told to finish.
ExecutionDown(i) ==
  /\ Serving /\ <<"execution", i>> \in monitors /\ exec[i] = "dead"
  /\ monitors' = monitors \ {<<"execution", i>>}
  /\ guard' = Ask({j \in {i} : Completes(entries, j) /\ guard[j].pc # "exited"})
  /\ Settle(mode, entries, manager, supervisor, shut)
  /\ UNCHANGED <<order, calling, exec, mail, ets, host, faults>>

-----------------------------------------------------------------------------
(* Controllers *)

\* The supervisor's start_child, and init of the controller: it enters itself
\* in the table and spawns the guard.
StartExecution(i) ==
  /\ exec[i] = "requested" /\ supervisor = "live"
  /\ exec' = [exec EXCEPT ![i] = "alive"]
  /\ guard' = [guard EXCEPT ![i].pc = "spawned"]
  /\ UNCHANGED <<mode, entries, order, monitors, calling, manager, supervisor,
                 shut, mail, ets, host, faults>>

RefuseExecution(i) ==
  /\ exec[i] = "requested" /\ supervisor = "live"
  /\ exec' = [exec EXCEPT ![i] = "refused"]
  /\ UNCHANGED <<mode, entries, order, monitors, calling, manager, supervisor,
                 shut, guard, mail, ets, host, faults>>

\* A managed controller stops at :vm_finished and at the death of its guard.
ExecutionStops(i) ==
  /\ exec[i] = "alive" /\ guard[i].pc = "exited"
  /\ exec' = [exec EXCEPT ![i] = "dead"]
  /\ UNCHANGED <<mode, entries, order, monitors, calling, manager, supervisor,
                 shut, guard, mail, ets, host, faults>>

KillExecution(i) ==
  /\ exec[i] = "alive" /\ faults < MaxFaults
  /\ faults' = faults + 1
  /\ exec' = [exec EXCEPT ![i] = "dead"]
  /\ UNCHANGED <<mode, entries, order, monitors, calling, manager, supervisor,
                 shut, guard, mail, ets, host>>

-----------------------------------------------------------------------------
(* Guards *)

ledger == <<mode, entries, order, monitors, calling, manager, supervisor, shut>>

At(i, pc) == guard[i].pc = pc
Goto(i, pc) == guard' = [guard EXCEPT ![i].pc = pc]
Exit(i) == guard' = [guard EXCEPT ![i] = Idle("exited")]
\* finish(state, result, certification)
Finish(i, certified) == guard' = [guard EXCEPT ![i].pc = "finishing", ![i].certified = certified]
\* call and cast of the ledger by name
Sent(i, kind) == IF mode = "down" THEN mail ELSE [mail EXCEPT ![i] = Append(@, kind)]

\* run looks the ledger up and monitors it.
WatchLedger(i) ==
  /\ At(i, "spawned")
  /\ guard' = [guard EXCEPT ![i].pc = "watching", ![i].watches = mode # "down"]
  /\ UNCHANGED ledger /\ UNCHANGED <<exec, mail, ets, host, faults>>

\* register: in the table first.
Register(i) ==
  /\ At(i, "watching")
  /\ ets' = [ets EXCEPT ![i].guard = TRUE]
  /\ mail' = Sent(i, "guard_started")
  /\ IF mode = "down" THEN Finish(i, TRUE) ELSE Goto(i, "registering")
  /\ UNCHANGED ledger /\ UNCHANGED <<exec, host, faults>>

\* allocate without a directory.
AllocateFails(i) ==
  /\ At(i, "allocating")
  /\ Finish(i, TRUE)
  /\ UNCHANGED ledger /\ UNCHANGED <<exec, mail, ets, host, faults>>

\* allocate, prepare and start_formatter: the directory is announced; making
\* the scratch file or the formatter may fail.
Allocate(i) ==
  /\ At(i, "allocating") /\ i \in Hosted
  /\ ets' = [ets EXCEPT ![i].directory = TRUE]
  /\ mail' = Sent(i, "status")
  /\ \/ host' = [host EXCEPT ![i] = {"directory"}] /\ Finish(i, TRUE)
     \/ host' = [host EXCEPT ![i] = {"directory", "formatter"}] /\ Finish(i, FALSE)
     \/ host' = [host EXCEPT ![i] = {"directory", "formatter"}] /\ Goto(i, "formatting")
  /\ UNCHANGED ledger /\ UNCHANGED <<exec, faults>>

\* The formatter's exit, with its process tree confirmed dead or not.
FormatterExits(i) ==
  /\ At(i, "formatting") \/ At(i, "unformatting")
  /\ \/ /\ host' = [host EXCEPT ![i] = @ \ {"formatter"}]
        /\ \/ At(i, "formatting") /\ Goto(i, "provisioning")
           \/ Finish(i, TRUE)
     \/ host' = host /\ Finish(i, FALSE)
  /\ UNCHANGED ledger /\ UNCHANGED <<exec, mail, ets, faults>>

\* launch: no network, a lease, no lease, or an answer that was lost.
Provision(i) ==
  /\ At(i, "provisioning")
  /\ \/ Goto(i, "admitting") /\ host' = host
     \/ /\ guard' = [guard EXCEPT ![i].pc = "admitting", ![i].lease = TRUE]
        /\ host' = [host EXCEPT ![i] = @ \cup {"lease"}]
     \/ Finish(i, TRUE) /\ host' = host
     \/ Finish(i, FALSE) /\ host' = [host EXCEPT ![i] = @ \cup {"lease"}]
  /\ UNCHANGED ledger /\ UNCHANGED <<exec, mail, ets, faults>>

\* A message that stops the guard is in its mailbox.
StopRequested(i) == guard[i].asked \/ exec[i] = "dead"

\* admit_launch: it looks at the mailbox once more, and at the clock.
AdmitLaunch(i) ==
  /\ At(i, "admitting")
  /\ \/ Finish(i, TRUE) /\ host' = host
     \/ /\ ~StopRequested(i)
        /\ host' = [host EXCEPT ![i] = @ \cup {"vmm"}]
        /\ Goto(i, "running") \/ Finish(i, FALSE)
  /\ UNCHANGED ledger /\ UNCHANGED <<exec, mail, ets, faults>>

\* stop, on request or for a reason of its own: a deadline, its owner's death,
\* the end of the command or of the guest.
StopFormatter(i) ==
  /\ At(i, "formatting")
  /\ Goto(i, "unformatting")
  /\ UNCHANGED ledger /\ UNCHANGED <<exec, mail, ets, host, faults>>

StopVmm(i) ==
  /\ At(i, "running")
  /\ \E failed \in BOOLEAN :
       /\ failed => guard[i].lease
       /\ guard' = [guard EXCEPT ![i].pc = "stopping", ![i].error = failed]
  /\ UNCHANGED ledger /\ UNCHANGED <<exec, mail, ets, host, faults>>

\* {:EXIT, vmm, _}: the process that owns the hypervisor is gone.
VmmServerDown(i) ==
  /\ At(i, "running")
  /\ Finish(i, FALSE)
  /\ UNCHANGED ledger /\ UNCHANGED <<exec, mail, ets, host, faults>>

\* await_stop
VmmStopped(i) ==
  /\ At(i, "stopping")
  /\ host' = [host EXCEPT ![i] = @ \ {"vmm"}]
  /\ Finish(i, TRUE)
  /\ UNCHANGED ledger /\ UNCHANGED <<exec, mail, ets, faults>>

\* A failed stop, or :cleanup_deadline.
CleanupDeadline(i) ==
  /\ At(i, "stopping") \/ At(i, "unformatting")
  /\ Finish(i, FALSE)
  /\ UNCHANGED ledger /\ UNCHANGED <<exec, mail, ets, host, faults>>

\* Faulty variant of Releases: a lease is released under a live hypervisor.
ReleasesAlways(g, freed) == g.lease /\ freed

\* release, unless the teardown is in doubt.
Releases(g, freed) == g.certified /\ g.lease /\ freed

\* finish: revoke, release what is certified, remove the files and leave the
\* certificate in the table.  `freed` is whether revoke and release
\* succeed, `removed` whether remove_known does.
FinishGuard(i) ==
  /\ At(i, "finishing")
  /\ \E freed, removed \in BOOLEAN :
       LET g == guard[i]
           ok == /\ g.certified /\ ~g.error /\ (g.lease => freed)
                 /\ "directory" \in host[i] => removed
       IN /\ host' = [host EXCEPT ![i] =
                        @ \ ((IF Releases(g, freed) THEN {"lease"} ELSE {})
                             \cup (IF ok THEN {"directory"} ELSE {}))]
          /\ ets' = [ets EXCEPT ![i].terminal = IF ok THEN "ok" ELSE "error"]
  /\ Goto(i, "certified")
  /\ UNCHANGED ledger /\ UNCHANGED <<exec, mail, faults>>

\* The call that ends finish, of a ledger that may have seen the certificate.
Report(i) ==
  /\ At(i, "certified")
  /\ mail' = Sent(i, "finished")
  /\ IF mode = "down" THEN Exit(i) ELSE Goto(i, "reporting")
  /\ UNCHANGED ledger /\ UNCHANGED <<exec, ets, host, faults>>

\* A killed guard cleans nothing up; its messages are still delivered.
KillGuard(i) ==
  /\ guard[i].pc \notin {"none", "exited"} /\ faults < MaxFaults
  /\ faults' = faults + 1
  /\ Exit(i)
  /\ UNCHANGED ledger /\ UNCHANGED <<exec, mail, ets, host>>

-----------------------------------------------------------------------------
(* Specification *)

LedgerStep ==
  \/ KillLedger \/ InitLedger \/ AttachManager \/ AttachSupervisor
  \/ KillManager \/ KillSupervisor \/ ManagerDown \/ SupervisorDown
  \/ Shutdown \/ ShutdownDeadline
  \/ \E i \in Id :
       \/ Start(i) \/ Started(i) \/ StartRefused(i) \/ StartExits(i)
       \/ Cancel(i)
       \/ GuardStarted(i) \/ StatusCast(i) \/ Finished(i)
       \/ GuardDown(i) \/ ExecutionDown(i)

GuardStep(i) ==
  \/ StartExecution(i) \/ RefuseExecution(i) \/ ExecutionStops(i) \/ KillExecution(i)
  \/ WatchLedger(i) \/ Register(i) \/ AllocateFails(i) \/ Allocate(i)
  \/ FormatterExits(i) \/ Provision(i) \/ AdmitLaunch(i)
  \/ StopFormatter(i) \/ StopVmm(i) \/ VmmServerDown(i) \/ VmmStopped(i)
  \/ CleanupDeadline(i) \/ FinishGuard(i) \/ Report(i) \/ KillGuard(i)

VmNext == LedgerStep \/ \E i \in Id : GuardStep(i)

VmSpec == VmInit /\ [][VmNext]_vars

\* What somebody must get on with: supervisors restart what dies, a ledger that
\* runs handles its mailbox, the supervisor answers, and a guard goes on until
\* its VM runs; that may last for ever, unless a message stops it.  A formatter
\* is stopped by the boot deadline at the latest.
Duty ==
  \/ InitLedger \/ AttachManager \/ AttachSupervisor \/ ManagerDown \/ SupervisorDown
  \/ \E i \in Id :
       \/ Started(i) \/ StartRefused(i) \/ StartExits(i)
       \/ GuardStarted(i) \/ StatusCast(i) \/ Finished(i)
       \/ GuardDown(i) \/ ExecutionDown(i) \/ StartExecution(i)
       \/ WatchLedger(i) \/ Register(i) \/ AllocateFails(i) \/ Allocate(i)
       \/ StopFormatter(i) \/ CleanupDeadline(i) \/ Provision(i) \/ AdmitLaunch(i)
       \/ FinishGuard(i) \/ Report(i)
       \/ (StopRequested(i) /\ StopVmm(i))

\* Each step of Duty can be taken only finitely often between two faults, so
\* fairness of the whole gives fairness of each.
VmFairSpec == VmSpec /\ WF_vars(Duty)

-----------------------------------------------------------------------------
(* Properties *)

\* Whatever a VM has on the host - its directory, a formatter, a lease or a
\* hypervisor - is covered by a reservation of the ledger, also while the
\* ledger is down, after it recovered, and after its results were evicted.
HostReserved == \A i \in Id : host[i] # {} => Present(entries, i) /\ entries[i].reserved

\* Reservations never exceed the budget, those of killed guards and of failed
\* cleanups included, over any number of restarts; with HostReserved, what is
\* on the host does not either.
WithinBudget == Used(entries, Reserved(entries)) <= Budget

\* A teardown that was certified is never recorded as unconfirmed, whichever of
\* the guard's call, its death and the ledger's recovery is handled first.
CertificateRespected ==
  \A i \in Id : ets[i].terminal = "ok" => entries[i].phase # "retained"

\* A lease is not released under a hypervisor that uses it.
LeaseOutlivesVmm ==
  \A i \in Id : "vmm" \in host[i] /\ guard[i].lease => "lease" \in host[i]

\* "uncertain cleanup is never evicted or released" (Garden.VM.Manager).
RetainedKept ==
  [][\A i \in Id : entries[i].phase = "retained" =>
       entries'[i].phase = "retained" /\ entries'[i].reserved]_vars

\* A shutdown is answered with :ok only when nothing is left on the host.
ShutdownTruth ==
  [][(shut.waiting \/ Shutdown) /\ ~shut'.waiting
       /\ ShutdownResult(entries') = "ok" => \A i \in Id : host[i] = {}]_vars

\* An active entry that nothing will finish: the supervisor was dead when start
\* called it, or the guard was killed before it registered.
Orphaned(i) ==
  /\ entries[i].phase = "active"
  /\ \/ exec[i] \in {"none", "refused"} /\ calling # i
     \/ guard[i].pc = "exited" /\ ~ets[i].guard

\* A VM that is asked to stop ends, whatever dies on the way, and with it the
\* wait of those who stop or await it; unless it is orphaned.
StopEnds ==
  \A i \in Id : (entries[i].phase = "active" /\ guard[i].asked)
                   ~> (entries[i].phase # "active" \/ Orphaned(i))

\* Recovery ends: every execution of before is finished and admission is open
\* again, or an orphaned entry keeps it closed.
RecoveryEnds == (mode = "recovering") ~> (mode # "recovering" \/ \E i \in Id : Orphaned(i))

-----------------------------------------------------------------------------
(* Refinement *)

\* An entry as the owner of the host sees it.
Seen(x) ==
  [stage |-> CASE x.phase = "new" -> "free" [] x.phase = "active" -> "held"
               [] x.phase = "retained" -> "kept" [] OTHER -> "done",
   resources |-> IF x.reserved THEN x.resources ELSE 0]
Claim == [i \in Id |-> Seen(entries[i])]

Occupied == {i \in Id : host[i] # {}}

Owner == INSTANCE Reservations WITH claim <- Claim, occupied <- Occupied

\* To the owner of the host the ledger, its guards and its restarts are one
\* atomic admission: a VM is admitted once and within the budget, is on the
\* host only while it is, and its claim is neither changed nor given up before
\* nothing is left of it (module Reservations).
ImplementsReservations == Owner!ResSpec
=============================================================================
