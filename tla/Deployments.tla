---------------------------- MODULE Deployments ----------------------------
(***************************************************************************)
(* The server's deployment records (Sower.Orchestration.Deployment) and    *)
(* the processes that read and write them concurrently:                    *)
(*                                                                         *)
(*   - deploy tasks (process_deployment, deploy_direct): look for a        *)
(*     duplicate, create a row, cancel the stale rows of the same          *)
(*     subscriptions, broadcast;                                           *)
(*   - retry transactions (retry_deployment), which hold the parent's row  *)
(*     lock and broadcast before they commit;                              *)
(*   - reconcile tasks (reconcile_deployments_on_connect), started by      *)
(*     every join of a garden's private topic: read the unresolved rows,   *)
(*     cancel the superseded ones, replay the others;                      *)
(*   - the stale finalizer, one GenServer with a timer;                    *)
(*   - the garden channel's handlers for status and result messages.       *)
(*                                                                         *)
(* A step is one database statement or one transaction: update_deployment  *)
(* locks its row and re-reads it, so it is atomic, while the lists that    *)
(* the tasks act on are read earlier and may be stale.  The gardens are    *)
(* arbitrary here: any report may come at any time, in any order and any   *)
(* number of times.  Module Orchestration puts the garden daemon in their  *)
(* place.                                                                  *)
(***************************************************************************)
EXTENDS Sids, Naturals, FiniteSets

CONSTANTS
  Garden,       \* the registered gardens
  Sub,          \* the subscriptions
  GardenOf,     \* Sub -> Garden, subscriptions.garden_id
  Content,      \* content hashes: what a set of matched seeds hashes to
  NoId,         \* "no deployment": a nil parent, a task without a row
  Task,         \* slots for processes under Sower.TaskSupervisor
  BatchSize,    \* stale_batch_size
  Overrides,    \* bound: the values of direct_override that are explored
  MaxRetries,   \* bound: retries of one parent that are explored
  MaxConnects,  \* bound: joins (hence reconcile tasks) that are explored
  MaxCrashes    \* bound: server restarts that are explored

ASSUME ConstantsAssumption ==
  /\ NoId \notin Id
  /\ Garden # {} /\ Content # {}
  /\ GardenOf \in [Sub -> Garden]
  /\ BatchSize \in Nat /\ MaxRetries \in Nat
  /\ Overrides \subseteq BOOLEAN
  /\ MaxConnects \in Nat /\ MaxCrashes \in Nat

VARIABLES
  state,     \* Id -> the row's state; the last three are not visible rows
  result,    \* Id -> the row's result
  row,       \* Id -> the columns that never change after the insert
  fresh,     \* Id -> last_dispatched_at is younger than stale_after_seconds
  audit,     \* the rows that have a :canceled deployment_event
  task,      \* Task -> what a server task is doing
  finalizer, \* what the StaleDeploymentFinalizer is doing
  connects,  \* joins so far
  crashes    \* server restarts so far

vars == <<state, result, row, fresh, audit, task, finalizer, connects, crashes>>

-----------------------------------------------------------------------------
(* Types *)

Unresolved == {"created", "dispatched", "acknowledged"}
Terminal   == {"completed", "stale", "canceled"}
Visible    == Unresolved \cup Terminal
\* "uncommitted": inserted by a transaction that has not committed;
\* "rolledback": such a transaction died, but its broadcast is out.
Invisible  == {"absent", "uncommitted", "rolledback"}

Reported == {"success", "failure", "partial"}

Row == [garden: Garden, content: Content, subs: SUBSET Sub,
        parent: Id \cup {NoId}, ordinal: Nat, override: BOOLEAN]

TaskRec == [pc: {"idle", "create", "created", "cancel_stale", "commit_retry",
                 "supersede", "replay", "overdue"},
            garden: Garden, content: Content, subs: SUBSET Sub, override: BOOLEAN,
            dep: Id \cup {NoId},   \* the row this task created
            todo: SUBSET Id,       \* rows it read and still has to cancel
            replay: SUBSET Id]     \* rows it read and still has to replay

AnyGarden  == CHOOSE g \in Garden : TRUE
AnyContent == CHOOSE c \in Content : TRUE

IdleTask == [pc |-> "idle", garden |-> AnyGarden, content |-> AnyContent,
             subs |-> {}, override |-> FALSE, dep |-> NoId, todo |-> {}, replay |-> {}]

NoRow == [garden |-> AnyGarden, content |-> AnyContent, subs |-> {},
          parent |-> NoId, ordinal |-> 0, override |-> FALSE]

\* todo: the batch not yet examined; dep: the row it re-read as unresolved
\* and is about to update.
FinalizerRec == [todo: SUBSET Id, dep: Id \cup {NoId}]
IdleFinalizer == [todo |-> {}, dep |-> NoId]

TypeOK ==
  /\ state \in [Id -> Visible \cup Invisible]
  /\ result \in [Id -> Reported \cup {"none"}]
  /\ row \in [Id -> Row]
  /\ fresh \in [Id -> BOOLEAN]
  /\ audit \subseteq Id
  /\ task \in [Task -> TaskRec]
  /\ finalizer \in FinalizerRec
  /\ connects \in 0..MaxConnects
  /\ crashes \in 0..MaxCrashes

Init ==
  /\ state = [d \in Id |-> "absent"]
  /\ result = [d \in Id |-> "none"]
  /\ row = [d \in Id |-> NoRow]
  /\ fresh = [d \in Id |-> FALSE]
  /\ audit = {}
  /\ task = [t \in Task |-> IdleTask]
  /\ finalizer = IdleFinalizer
  /\ connects = 0
  /\ crashes = 0

-----------------------------------------------------------------------------
(* Reading and updating rows *)

SubsOf(g) == {s \in Sub : GardenOf[s] = g}

\* Faulty variant of Locked: the parent is read without FOR UPDATE.
LockedNever(d) == FALSE

\* retry_deployment selects its parent FOR UPDATE: no other transaction
\* updates that row until the retry commits.
Locked(d) ==
  \E t \in Task : /\ task[t].pc = "commit_retry"
                  /\ row[task[t].dep].parent = d

\* Faulty variant of Reopens: the state is not checked again under the lock.
ReopensUnchecked(d, s) == FALSE

\* update_deployment: lock the row, re-read it, refuse to reopen a terminal
\* one, write.  An attribute the caller leaves out keeps its value.
Reopens(d, s) == state[d] \in Terminal /\ s \in Unresolved

UpdateDeployment(d, s, r) ==
  /\ state[d] \in Visible
  /\ ~Locked(d)
  /\ IF Reopens(d, s)
     THEN UNCHANGED <<state, result>>
     ELSE /\ state' = [state EXCEPT ![d] = s]
          /\ result' = [result EXCEPT ![d] = r]

\* find_duplicate_deployment without force.
Duplicate(g, c) ==
  \E d \in Id : /\ state[d] \in Visible
                /\ row[d].garden = g
                /\ row[d].content = c
                /\ result[d] = "success" \/ state[d] \in Unresolved

Goto(t, pc) == task' = [task EXCEPT ![t].pc = pc]
Finish(t) == task' = [task EXCEPT ![t] = IdleTask]

-----------------------------------------------------------------------------
(* Deploy tasks: process_deployment and deploy_direct *)

\* What a caller asks for, once policy allows it: the subscriptions it links
\* (none for a direct deployment that matches none), the content that
\* match_seed found for them, force, and the break-glass override.
DeployTask(g, subs, c, o) ==
  [IdleTask EXCEPT !.pc = "create", !.garden = g, !.subs = subs,
                   !.content = c, !.override = o]

\* dispatch_seed_deploys up to find_duplicate_deployment.  A duplicate ends
\* the request with a message marked skipped, which a garden ignores; so does
\* a request that matches no seed.
StartDeploy(t, g, subs, c, force, o) ==
  /\ task[t].pc = "idle"
  /\ subs \subseteq SubsOf(g)
  /\ force \/ ~Duplicate(g, c)
  /\ task' = [task EXCEPT ![t] = DeployTask(g, subs, c, o)]
  /\ UNCHANGED <<state, result, row, fresh, audit, finalizer, connects, crashes>>

NewRow(g, c, subs, parent, ordinal, o) ==
  [garden |-> g, content |-> c, subs |-> subs, parent |-> parent,
   ordinal |-> ordinal, override |-> o]

\* create_deployment, state: :dispatched.
CreateDeployment(t, d) ==
  /\ task[t].pc = "create"
  /\ state[d] = "absent"
  /\ state' = [state EXCEPT ![d] = "dispatched"]
  /\ row' = [row EXCEPT ![d] = NewRow(task[t].garden, task[t].content, task[t].subs,
                                      NoId, 0, task[t].override)]
  /\ fresh' = [fresh EXCEPT ![d] = TRUE]
  /\ task' = [task EXCEPT ![t] = [IdleTask EXCEPT !.pc = "created", !.dep = d,
                                                  !.subs = task[t].subs]]
  /\ UNCHANGED <<result, audit, finalizer, connects, crashes>>

\* record_event(:created, ...), which nothing reads back and the model leaves
\* out; then cancel_stale_for_subscriptions reads the stale rows of the linked
\* subscriptions.
ListStale(t) ==
  /\ task[t].pc = "created"
  /\ LET stale == {d \in Id : state[d] = "stale" /\ row[d].subs \cap task[t].subs # {}}
     IN  task' = [task EXCEPT ![t] = [IdleTask EXCEPT !.pc = "cancel_stale",
                                                      !.dep = task[t].dep, !.todo = stale]]
  /\ UNCHANGED <<state, result, row, fresh, audit, finalizer, connects, crashes>>

\* One update of cancel_stale_for_subscriptions: state only, so the result
\* stays, and whatever the row has become since it was listed is overwritten.
CancelStale(t, d) ==
  /\ task[t].pc = "cancel_stale"
  /\ d \in task[t].todo
  /\ UpdateDeployment(d, "canceled", result[d])
  /\ audit' = audit \cup {d}
  /\ task' = [task EXCEPT ![t].todo = @ \ {d}]
  /\ UNCHANGED <<row, fresh, finalizer, connects, crashes>>

\* The task ends with the broadcast, which module Orchestration puts on the
\* wire together with those of Replay and RetryDeployment.
BroadcastDeployment(t) ==
  /\ task[t].pc = "cancel_stale"
  /\ task[t].todo = {}
  /\ Finish(t)
  /\ UNCHANGED <<state, result, row, fresh, audit, finalizer, connects, crashes>>

-----------------------------------------------------------------------------
(* Retries *)

Children(p) == {c \in Id : row[c].parent = p}

RetryInProgress(p) == \E c \in Children(p) : state[c] \in Unresolved

\* Faulty variant of NextOrdinal: the maximum itself, 1 if there is none.
OrdinalMax(p, n) ==
  /\ \A c \in Children(p) : state[c] \in Visible => row[c].ordinal <= n
  /\ n = 1 \/ \E c \in Children(p) : state[c] \in Visible /\ row[c].ordinal = n

\* max(retry_ordinal) + 1 over the visible children, 1 if there is none.
NextOrdinal(p, n) ==
  /\ \A c \in Children(p) : state[c] \in Visible => row[c].ordinal < n
  /\ n = 1 \/ \E c \in Children(p) : state[c] \in Visible /\ row[c].ordinal + 1 = n

\* retry_deployment up to its commit: the parent is locked, the child is
\* inserted with its event and broadcast, all inside the transaction.  The
\* override and the direct action of the parent are not copied.
RetryDeployment(t, p, d, n) ==
  /\ task[t].pc = "idle"
  /\ state[p] \in Visible
  /\ ~Locked(p)
  /\ result[p] \in {"success", "failure"}
  /\ ~RetryInProgress(p)
  /\ NextOrdinal(p, n)
  /\ state[d] = "absent"
  /\ state' = [state EXCEPT ![d] = "uncommitted"]
  /\ row' = [row EXCEPT ![d] = NewRow(row[p].garden, row[p].content, row[p].subs,
                                      p, n, FALSE)]
  /\ fresh' = [fresh EXCEPT ![d] = TRUE]
  /\ task' = [task EXCEPT ![t] = [IdleTask EXCEPT !.pc = "commit_retry", !.dep = d]]
  /\ UNCHANGED <<result, audit, finalizer, connects, crashes>>

CommitRetry(t) ==
  /\ task[t].pc = "commit_retry"
  /\ state' = [state EXCEPT ![task[t].dep] = "dispatched"]
  /\ Finish(t)
  /\ UNCHANGED <<result, row, fresh, audit, finalizer, connects, crashes>>

-----------------------------------------------------------------------------
(* Reconcile on connect *)

\* The reads of reconcile_deployments_on_connect.  Cron arithmetic is
\* abstracted: any of the garden's subscriptions may be scheduled and overdue.
StartReconcile(t, g, overdue) ==
  /\ task[t].pc = "idle"
  /\ connects < MaxConnects
  /\ overdue \subseteq SubsOf(g)
  /\ LET unresolved == {d \in Id : state[d] \in Unresolved /\ row[d].garden = g}
         superseded == {d \in unresolved : row[d].subs \cap overdue # {}}
     IN  task' = [task EXCEPT ![t] = [IdleTask EXCEPT !.pc = "supersede", !.garden = g,
                                       !.subs = overdue, !.todo = superseded,
                                       !.replay = unresolved \ superseded]]
  /\ connects' = connects + 1
  /\ UNCHANGED <<state, result, row, fresh, audit, finalizer, crashes>>

\* Cancel one superseded row, whatever it has become since it was read; the
\* event is recorded whatever the update returned.
CancelSuperseded(t, d) ==
  /\ task[t].pc = "supersede"
  /\ d \in task[t].todo
  /\ UpdateDeployment(d, "canceled", "failure")
  /\ audit' = audit \cup {d}
  /\ task' = [task EXCEPT ![t].todo = @ \ {d}]
  /\ UNCHANGED <<row, fresh, finalizer, connects, crashes>>

\* Faulty variant of MarkDispatched: an update without the WHERE on the state.
MarkDispatchedAll(t, supported) ==
  /\ task[t].pc = "supersede"
  /\ task[t].todo = {}
  /\ LET replay == {d \in task[t].replay : supported \/ ~row[d].override}
     IN  /\ \A d \in replay : ~Locked(d)
         /\ state' = [d \in Id |-> IF d \in replay THEN "dispatched" ELSE state[d]]
         /\ fresh' = [d \in Id |-> IF d \in replay THEN TRUE ELSE fresh[d]]
         /\ task' = [task EXCEPT ![t].pc = "replay", ![t].replay = replay]
  /\ UNCHANGED <<result, row, audit, finalizer, connects, crashes>>

\* Defer overrides unless every live connection of the garden supports them
\* (supported is what presence says now), then mark_deployments_dispatched,
\* whose WHERE clause leaves out the rows that became terminal meanwhile.
MarkDispatched(t, supported) ==
  /\ task[t].pc = "supersede"
  /\ task[t].todo = {}
  /\ LET replay == {d \in task[t].replay : supported \/ ~row[d].override}
         marked == {d \in replay : state[d] \in Unresolved}
     IN  /\ \A d \in marked : ~Locked(d)
         /\ state' = [d \in Id |-> IF d \in marked THEN "dispatched" ELSE state[d]]
         /\ fresh' = [d \in Id |-> IF d \in marked THEN TRUE ELSE fresh[d]]
         /\ task' = [task EXCEPT ![t].pc = "replay", ![t].replay = replay]
  /\ UNCHANGED <<result, row, audit, finalizer, connects, crashes>>

\* The replay broadcasts every row of the list, marked or not.
Replay(t, d) ==
  /\ task[t].pc = "replay"
  /\ d \in task[t].replay
  /\ task' = [task EXCEPT ![t].replay = @ \ {d}]
  /\ UNCHANGED <<state, result, row, fresh, audit, finalizer, connects, crashes>>

EndReplay(t) ==
  /\ task[t].pc = "replay"
  /\ task[t].replay = {}
  /\ Goto(t, "overdue")
  /\ UNCHANGED <<state, result, row, fresh, audit, finalizer, connects, crashes>>

\* deploy_subscription for one overdue subscription: a task of its own...
DeployOverdue(t, u, s, c) ==
  /\ task[t].pc = "overdue"
  /\ s \in task[t].subs
  /\ task[u].pc = "idle"
  /\ ~Duplicate(task[t].garden, c)
  /\ task' = [task EXCEPT ![t].subs = @ \ {s},
                          ![u] = DeployTask(task[t].garden, {s}, c, FALSE)]
  /\ UNCHANGED <<state, result, row, fresh, audit, finalizer, connects, crashes>>

\* ... or nothing: denied by policy, no seed matches, a duplicate exists.
SkipOverdue(t, s) ==
  /\ task[t].pc = "overdue"
  /\ s \in task[t].subs
  /\ task' = [task EXCEPT ![t].subs = @ \ {s}]
  /\ UNCHANGED <<state, result, row, fresh, audit, finalizer, connects, crashes>>

EndReconcile(t) ==
  /\ task[t].pc = "overdue"
  /\ task[t].subs = {}
  /\ Finish(t)
  /\ UNCHANGED <<state, result, row, fresh, audit, finalizer, connects, crashes>>

-----------------------------------------------------------------------------
(* The stale finalizer *)

\* stale_after_seconds pass since the row's last dispatch.
TimePasses(d) ==
  /\ state[d] \in Unresolved
  /\ fresh[d]
  /\ fresh' = [fresh EXCEPT ![d] = FALSE]
  /\ UNCHANGED <<state, result, row, audit, task, finalizer, connects, crashes>>

\* Faulty variant of StaleRows: an acknowledged deployment never gets stale.
StaleDispatched == {d \in Id : state[d] \in {"created", "dispatched"} /\ ~fresh[d]}

StaleRows == {d \in Id : state[d] \in Unresolved /\ ~fresh[d]}

FinalizerIdle == finalizer = IdleFinalizer

\* finalize_stale_deployments lists a batch of at most BatchSize rows.
ListStaleBatch(batch) ==
  /\ FinalizerIdle
  /\ batch \subseteq StaleRows
  /\ batch # {}
  /\ Cardinality(batch) <= BatchSize
  /\ batch # StaleRows => Cardinality(batch) = BatchSize
  /\ finalizer' = [finalizer EXCEPT !.todo = batch]
  /\ UNCHANGED <<state, result, row, fresh, audit, task, connects, crashes>>

\* finalize_stale_deployment re-reads the row and ignores a resolved one ...
ReadStale(d) ==
  /\ finalizer.dep = NoId
  /\ d \in finalizer.todo
  /\ finalizer' = [todo |-> finalizer.todo \ {d},
                   dep |-> IF state[d] \in Unresolved THEN d ELSE NoId]
  /\ UNCHANGED <<state, result, row, fresh, audit, task, connects, crashes>>

\* ... and updates it in a later transaction.
FinalizeStale ==
  /\ finalizer.dep \in Id
  /\ UpdateDeployment(finalizer.dep, "stale", "failure")
  /\ audit' = audit \cup {finalizer.dep}
  /\ finalizer' = [finalizer EXCEPT !.dep = NoId]
  /\ UNCHANGED <<row, fresh, task, connects, crashes>>

-----------------------------------------------------------------------------
(* What gardens do, and restarts *)

\* record_deployment_status; the only status the schema admits.
RecordDeploymentStatus(d) ==
  /\ UpdateDeployment(d, "acknowledged", result[d])
  /\ UNCHANGED <<row, fresh, audit, task, finalizer, connects, crashes>>

\* record_deployment: any state, terminal ones included, becomes completed.
RecordDeployment(d, r) ==
  /\ UpdateDeployment(d, "completed", r)
  /\ UNCHANGED <<row, fresh, audit, task, finalizer, connects, crashes>>

\* The server restarts: every task is gone, and so are the rows of open
\* transactions.
Crash ==
  /\ crashes < MaxCrashes
  /\ state' = [d \in Id |-> IF state[d] = "uncommitted" THEN "rolledback" ELSE state[d]]
  /\ task' = [t \in Task |-> IdleTask]
  /\ finalizer' = IdleFinalizer
  /\ crashes' = crashes + 1
  /\ UNCHANGED <<result, row, fresh, audit, connects>>

-----------------------------------------------------------------------------
TaskStep(t) ==
  \/ \E d \in Id : CreateDeployment(t, d)
  \/ ListStale(t)
  \/ \E d \in Id : CancelStale(t, d)
  \/ BroadcastDeployment(t)
  \/ CommitRetry(t)
  \/ \E d \in Id : CancelSuperseded(t, d)
  \/ \E supported \in BOOLEAN : MarkDispatched(t, supported)
  \/ \E d \in Id : Replay(t, d)
  \/ EndReplay(t)
  \/ \E u \in Task, s \in Sub, c \in Content : DeployOverdue(t, u, s, c)
  \/ \E s \in Sub : SkipOverdue(t, s)
  \/ EndReconcile(t)

FinalizerStep ==
  \/ \E batch \in SUBSET Id : ListStaleBatch(batch)
  \/ \E d \in Id : ReadStale(d)
  \/ FinalizeStale

Request(t) ==
  \/ \E g \in Garden, subs \in SUBSET Sub, c \in Content, force \in BOOLEAN, o \in Overrides :
       StartDeploy(t, g, subs, c, force, o)
  \/ \E p, d \in Id, n \in 1..MaxRetries : RetryDeployment(t, p, d, n)

Reconnect(t) ==
  \E g \in Garden, overdue \in SUBSET Sub : StartReconcile(t, g, overdue)

ServerStep ==
  \/ \E t \in Task : TaskStep(t) \/ Request(t)
  \/ FinalizerStep
  \/ \E d \in Id : TimePasses(d)
  \/ Crash

GardenStep ==
  \/ \E d \in Id : RecordDeploymentStatus(d)
  \/ \E d \in Id, r \in Reported : RecordDeployment(d, r)
  \/ \E t \in Task : Reconnect(t)

Next == ServerStep \/ GardenStep

Spec == Init /\ [][Next]_vars

\* Tasks run on, time passes, and the finalizer's timer is re-armed after
\* every pass.  Requests, reports, joins and restarts need not happen.
Fairness ==
  /\ \A t \in Task : WF_vars(TaskStep(t))
  /\ WF_vars(FinalizerStep)
  /\ \A d \in Id : WF_vars(TimePasses(d))

FairSpec == Spec /\ Fairness

-----------------------------------------------------------------------------
(* Properties *)

\* A resolved deployment is never reopened: no status report, replay, retry
\* or finalizer pass, however late, moves a terminal row back to an
\* unresolved state (the re-check under the row lock in update_deployment and
\* the WHERE clause of mark_deployments_dispatched).
TerminalIsFinal ==
  [][\A d \in Id : state[d] \in Terminal => state'[d] \in Terminal]_vars

\* A row carries a result exactly when it is terminal, which is what
\* retry_deployment (it tests the result) and the lists of unresolved rows
\* (they test the state) rely on to agree.
ResultIffTerminal ==
  \A d \in Id : state[d] \in Terminal <=> result[d] # "none"

\* The retries of a parent that are, or may still become, visible.
Retries(p) == {c \in Children(p) : state[c] \in Visible \cup {"uncommitted"}}
Open == Unresolved \cup {"uncommitted"}

\* At most one retry of a deployment is in progress, even while several
\* users press retry, and a retried deployment is itself resolved.
OneOpenRetry ==
  \A p \in Id : /\ \A c, e \in Retries(p) :
                     state[c] \in Open /\ state[e] \in Open => c = e
                /\ Retries(p) # {} => state[p] \in Terminal

\* The unique index on (parent_deployment_id, retry_ordinal) is never hit:
\* two retries of one parent never compute the same ordinal.
DistinctOrdinals ==
  \A p \in Id : \A c, e \in Retries(p) : row[c].ordinal = row[e].ordinal => c = e

\* The audit trail tells the truth: a deployment with a "canceled" event
\* (superseded or stale) is resolved, now and for ever after.
AuditTruth == \A d \in audit : state[d] \in Terminal

\* An uncommitted retry and its transaction belong together: every open
\* transaction has exactly one uncommitted row of its own, and no such row
\* outlives its transaction, be it by a commit or by a crash.  This is what
\* makes the parent's lock protect the check for a retry in progress.
OpenTransactions ==
  /\ \A t \in Task : task[t].pc = "commit_retry"
                     => task[t].dep \in Id /\ state[task[t].dep] = "uncommitted"
  /\ \A d \in Id : state[d] = "uncommitted"
                   => \E t \in Task : task[t].pc = "commit_retry" /\ task[t].dep = d
  /\ \A t, u \in Task : /\ task[t].pc = "commit_retry" /\ task[u].pc = "commit_retry"
                         /\ task[t].dep = task[u].dep
                         => t = u

\* What cancel_stale_for_subscriptions has listed is still resolved when its
\* turn to be canceled comes, so that update, which writes no result, never
\* makes a row terminal without one.
StaleListed ==
  \A t \in Task : task[t].pc = "cancel_stale"
                 => \A d \in task[t].todo : state[d] \in Terminal

\* The inductive invariant of module DeploymentsProofs.
Inv == /\ TypeOK /\ OpenTransactions /\ StaleListed
       /\ ResultIffTerminal /\ OneOpenRetry /\ DistinctOrdinals /\ AuditTruth

\* What the API shows of the records: rows of open or dead transactions are
\* not there.
Shown == [d \in Id |-> IF state[d] \in Visible THEN state[d] ELSE "absent"]

Rows == INSTANCE DeploymentRow WITH shown <- Shown, outcome <- result

\* Whatever the tasks, the finalizer, the gardens and the restarts do, a reader
\* of the API sees every deployment appear open and without a result, resolve
\* with one, and never reopen or lose its result (module DeploymentRow).
ImplementsRows == Rows!RowSpec

\* ... and it sees every deployment resolve: a lost broadcast, a garden that
\* never answers, a lost result or a server restart end at the latest with
\* the stale finalizer, provided gardens do not reconnect for ever.
ImplementsFairRows == Rows!FairRowSpec

\* What the repository's test "finalizes stale unresolved deployments and
\* keeps fresh unresolved unchanged" says: the finalizer leaves an unresolved
\* deployment alone whose last dispatch is recent.
FreshUnresolvedKept ==
  [][\A d \in Id : state[d] \in Unresolved /\ fresh[d] => state'[d] # "stale"]_vars
=============================================================================
