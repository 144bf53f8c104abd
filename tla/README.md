# Verification of Sower

Sower deploys Nix-built configurations ("seeds") to machines ("gardens"). A
Phoenix server keeps the deployment records; a daemon on every garden runs the
deployments and, on builder gardens, virtual machines; a root activator carries
out the privileged steps, an agent inside each virtual machine runs its commands,
and a command line builds, copies and deploys seeds. This directory holds TLA+ models of the parts in which
processes, messages, crashes and partial failures interleave, the TLC
configurations that check them, and TLAPS proofs about them.

## 1. Inventory

| Component | Source | State it keeps | Operations | Talks to |
|---|---|---|---|---|
| Deployment records | `apps/sower/lib/sower/orchestration/deployment.ex`, `deployment_event.ex` | rows (state, result, parent, ordinal, last dispatch), events | deploy, retry, reconcile, finalize, record | gardens (broadcasts), Postgres |
| Stale finalizer | `stale_deployment_finalizer.ex` | a timer | periodic pass over stale rows | the records |
| Garden channel | `sower_web/garden_channel.ex`, `garden_socket.ex` | one process per connection, presence | join, status and result messages, seeds, logs | the records, the daemon |
| Seed deployments, log buffers | `seed_deployment.ex`, `deployment_log*` | per-seed status, bounded log buffers | status, append, evict | channel, UI |
| Subscriptions and policy | `subscription.ex`, `sower_client/.../policy.ex` | windows, triggers | decide whether and how to deploy | the records, scheduler |
| Seeds and gardens | `seed.ex`, `garden.ex`, `garden_seed_generation.ex` | tags, registrations, generations | register, match | channel, API |
| Authentication | `garden_auth.ex`, `apps/garden/lib/garden/auth.ex` | challenges, tokens | issue, renew | channel |
| Garden connection | `apps/garden/lib/garden/socket.ex`, `socket/lifecycle.ex` | mailbox, join state, active deployments | join, disconnect, deployment, completion, reload check | server, deployment tasks |
| Garden application | `garden.ex`, `application.ex`, `signal_handler.ex` | pending reload flag, supervision tree | reload, restart | systemd |
| Deployer | `deployer.ex`, `profile.ex`, `activator_client.ex` | none between runs | realize, decide the action, activate | nix, activator |
| Scheduler, storage | `scheduler.ex`, `storage.ex` | cooldowns, a JSON file | tick, put | connection |
| VM ledger and guard | `vm/ledger.ex`, `vm/guard.ex`, `vm/execution.ex`, `vm/io.ex` | entries, capacity, ETS recovery data | start, finish, recover, shut down | VMM, network leases |
| Cloud Hypervisor process | `apps/cloud_hypervisor` | a VMM and its files | start, ready, stop, certify cleanup | guard |
| Network leases | `src/commands/activator/network*.rs` | journal files, TAPs, nftables, conntrack | provision, revoke, release, cleanup | guard, root hook |
| Activator | `src/commands/activator/{mod,handler,activate,services,peercred,protocol,log_tee}.rs` | services profiles and their `current` link; one process per request | authorize, activate, reboot, switch services | deployer, `deploy --sudo`, systemd |
| Guest agent | `guest/src/{lib,main}.rs` | one connection with one command tree | serve, cancel, clean up | VM I/O, the kernel |
| Deploy command | `src/commands/deploy.rs`, `deploy/sudo.rs`, `client/` | none | build, register, deploy and wait, or activate over ssh | nix, server, ssh, activator |
| Nix jobs | `apps/nix` | job queue, worker | evaluate, build | server |
| Seed and build commands | `src/commands/{build,seed}*` | none | drive nix | server |
| Web, forges, accounts, clients | `sower_web/live`, `forge*`, `accounts*`, `incus_client`, `peer_node` | sessions, tokens | render, OAuth, generated calls | external |

What is hard here, and what must hold:

- **Records.** Deploy tasks, retry transactions, reconcile tasks, the finalizer
  and the channel handlers all act on rows they listed earlier. Only
  `update_deployment` re-reads a row under its lock. A resolved row must stay
  resolved; result and state must agree; at most one retry is open; every row is
  resolved at last.
- **Connection process.** It handles one message at a time, dies on a failed
  push and forgets its active deployments, while its tasks run on. A deployment
  must not be run twice at once; an entry must not stay active for ever; a reload
  must wait for the deployments that are there when it is asked for.
- **Server and daemon together.** Broadcasts and results are lost, repeated and
  late. A recorded result must be one that a run really returned.
- **Network leases.** Each request is a process that may be killed between any
  two commands; every command may fail; several gardens share one address pool.
  Slots must be exclusive; nothing may be reachable without its deny rules; an
  address must not be reused while an old connection is tracked.
- **VM ledger and guards.** Ledger, manager, supervisor, controllers and guards
  die and restart independently, with a table in between. What exists on the
  host must stay reserved; a certified cleanup must be recorded once and as
  such; stops and recoveries must end.
- **Guest agent.** One thread serves a host that may stall or vanish and a command
  whose processes fork, leave their group and are orphaned. No process may survive
  its connection, the exit must be reported after all output, a frame must not be
  cut by another, and a disconnect must always free the guest.
- **Deploy command.** It sees the server in snapshots and ssh in arbitrary chunks.
  Its exit status must be true, it must register only what can be deployed, and it
  must end.
- **Activator.** Several run as root at a time, over the same files; each has two
  output threads and a command, and may be killed. Replies must be complete and
  true, and the `current` link must name a profile that was really switched to.

`PROJECT.json` lists these hazards line by line.

## 2. Modules

| Module | Models | Rests on |
|---|---|---|
| `DeploymentRow` | what the server promises to a reader of its deployments; abstract | - |
| `Deployments` | records, finalizer, server tasks; gardens are arbitrary | implements `DeploymentRow` (`INSTANCE ... WITH`) |
| `GardenSocket` | connection process, deployment tasks, reload; the server is arbitrary | - |
| `Sids` | the identities of deployments, which the two have in common | - |
| `Orchestration` | both, over a breaking connection | extends and implements `Deployments` and `GardenSocket` |
| `NetworkLease` | the activator's leases | - |
| `Reservations` | what a garden promises the owner of its host about its VMs; abstract | - |
| `VmLedger` | VM ledger, guards, controllers | implements `Reservations` (`INSTANCE ... WITH`) |
| `GuestAgent` | the agent in a VM, its host, a tree of processes | - |
| `SudoDeploy` | activation over ssh, with the decoder of its output | - |
| `DeployCommand` | `sower deploy` from arguments to exit status | extends `DeploymentRow` and `SudoDeploy` |
| `Activator` | concurrent activator processes and the services profiles | - |
| `MC*` | constants and symmetry sets for TLC | the module of that name |
| `DeploymentsProofs`, `GardenSocketProofs`, `OrchestrationProofs`, `NetworkLeaseProofs`, `VmLedgerProofs`, `GuestAgentProofs`, `DeployCommandProofs`, `ActivatorProofs` | theorems | the module of that name; `OrchestrationProofs` also on the two before it |

Each component module has a predicate that gives its variables their types. All
of them are proved.

### DeploymentRow

A row appears, is handed out any number of times (`Hand`) and is resolved
(`Resolve`), perhaps more than once: a late result overwrites `stale`, a
cancellation overwrites `completed`. What a reader may rely on is that no row is
reopened, that an open row has no result, that a resolved one has a result, and
(`RowsEnd`) that none stays open. `Deployments` implements it under `Shown`,
which hides rows of uncommitted transactions; `DeployCommand` uses it as its
server, so the two modules meet in this one.

### Deployments

One step is one statement or transaction. `task` holds what every process under
`Sower.TaskSupervisor` has read and still has to do, so a list read early is
used late, as in the code. `UpdateDeployment` is `update_deployment` (lock,
re-read, refuse to reopen, write). `StartDeploy`, `CreateDeployment`,
`ListStale`, `CancelStale`, `BroadcastDeployment` are the steps of
`process_deployment` and `deploy_direct`; `RetryDeployment` and `CommitRetry`
the retry transaction, which broadcasts before it commits; `StartReconcile` to
`EndReconcile` the task that a join starts; `ListStaleBatch`, `ReadStale`,
`FinalizeStale` the finalizer; `RecordDeploymentStatus` and `RecordDeployment`
the channel's handlers; `Crash` a server restart, which rolls open transactions
back. `fresh` stands for the comparison of `last_dispatched_at` with
`stale_after_seconds`. Cron arithmetic, seed matching and policy are decisions
that may go either way. Left out: `:created` events (nothing reads them), the
deletion of log buffers by `update_deployment`, `delete_deployment` (no caller),
and the wait for overdue tasks at the end of the reconcile (it changes nothing).

### GardenSocket

`mailbox` is the process's queue; each handler is one action that takes its
head. `joined` is what the process believes, `link` what is true: a push between
the two is lost silently, and a push of a process that knows it is not joined
kills it (`FailedPush`). `Dies` empties `active` but not `running`: tasks are not
linked. After `MaxRestarts` deaths the supervisor gives up and the daemon is
restarted. `stopping` says that systemd was asked for a restart, which it carries
out later (`DaemonRestart`); the daemon works on in between, and the history
variable `late` collects the deployments that it receives then. Such a one may be
aborted by the restart, since nothing refuses it; it is replayed afterwards.
`ReloadSparesEarlier` says that no other is, until the process dies. Afterwards
`garden.ex:10-11` ("executed at the end of the current deployment") is no longer
true: a push on a connection known to be down kills the process in the middle of a
deployment, the new one knows nothing of it, and the next check for a reload asks
for the restart while it runs on. Without `restarts = 0` TLC finds that
`ReloadSparesEarlier` fails in this way. `report` stands for the pushes that follow a join or a completion,
`seed` for a task's status messages. Authentication, re-registration and log
streaming are left out. `Garden.Socket` never assigns the private topic that its
handler of deployment log chunks tests, so those chunks are always refused; they
do not touch the state modelled here.

### Orchestration

The server's broadcasts become frames of the daemon, its pushes become
`RecordDeploymentStatus` and `RecordDeployment`, in order; a join allows one more
reconcile task. A broadcast may be lost. `Spec` is the server as seen by arbitrary
gardens, `GardenSpec` the daemon as seen by an arbitrary server. `Orchestration` is
built from the actions of both and only restricts them, so it implements both by its
shape; that is no property to check, but the theorem that lets everything proved of
either be used with the real other side attached.

### NetworkLease

`phase` and `lease` are the journal, `tap`, `up`, `attached`, `doomed` the TAP
devices, `guard` and `ingress` the two nftables tables of a lease, `flows` the
tracked connections of a slot's address, `req` the activator processes. One step
is one command, or one read or write of the journal under the host-wide lock.
Every command may fail without effect, except a save, which may fail before or
after its rename; a request may be killed anywhere (`Kill`), which releases its
execution lock. `CheckHost` to `SetUp` are the commands of provision in order,
`RevokeSave`, `RevokeDown`, `RevokeGuard` those of revoke, `DeleteTap` to `Remove`
those of release. A TAP that a VMM has open disappears only when the VMM closes
it. Address arithmetic is reduced to slots, rule text to "closed" and "open".
`Operate` may name any lease of its owner, and the root hook may run at any time;
both allow more than the callers do. A kill between `tuntap add` and the alias
leaves a TAP without a mark; every later revoke refuses it and the slot stays
taken until an operator deletes the device, which no property forbids.

### Reservations

The owner of the host sees of a VM what it claims and whether anything of it is on
the host. A VM is admitted once, when the budget has room next to every claim that
stands (`Admit`); only then does it come to the host, and it may come and go (`Use`).
Claims are resolved together, since a restarted ledger takes note of everything that
ended without it (`Resolve`): given up, if nothing of the VM is left on the host, or
kept for ever. `VmLedger` implements it with `Claim` (an entry's phase and what it
reserves) and `Occupied` (the VMs with something on `host`). The invariants
`HostReserved` and `WithinBudget` say what is true of a state; the refinement adds
that a VM is not admitted twice, that no kill or restart changes what a claim
amounts to, and that a claim is given up only in a step in which the host is
empty of its VM.

### VmLedger

Every handler of the ledger ends with `persist`, so one variable, `entries`,
stands for its memory and for the copy in ETS; `Dies` loses monitors and mailbox
only. `start` is the exception: it persists, then waits for the supervisor
(`Start`, `calling`, `Started`, `StartRefused`, `StartExits`). `InitLedger` is
`init`, with recovery, certificates, drain and settle in one step; `Settle`
belongs to every handler that ends with `settle`. `mail` holds a guard's messages
in order; the news of its death comes after them. `guard` follows `guard.ex` from
`run` (`WatchLedger`, `Register`) through `Allocate`, `FormatterExits`,
`Provision`, `AdmitLaunch`, `StopVmm` to `FinishGuard`, which leaves the
certificate in the table, and `Report`. `host` is what really exists; a killed
guard leaves it as it is, and an operation that ends in doubt is taken to have
had its effect. Phases of a running VM, results, and the callers of `stop` and
`await` are left out, since `complete` answers them all. One of the four resource
dimensions is modelled: they are admitted alike. A kill between `mkdir` and the
announcement of the directory is not separated, nor one inside the `init` of a
controller.

An entry is *orphaned* (`Orphaned`) when nothing will ever finish it. That
happens when `start` is handled after the execution supervisor died and before
its DOWN: the entry is persisted, `start_child` exits, the ledger restarts with
an active entry that has neither guard nor controller, and stays in recovery, so
that all admission is refused until the virtual machine of Erlang restarts. A
guard killed before it registers has the same effect. `StopEnds` and
`RecoveryEnds` name this exception; without it both are false.

### GuestAgent

`pc` follows `serve_connection`, `run` and `cleanup_inner`; one iteration of the
loop is `Control`, `RootExited`, `Flush`, `Pull`. `proc` is the kernel's process
table for the command: live, zombie or reaped, with its parent and whether it is
still in the command's group; an orphan's parent is the guest. `Enumerate`, `Kill`
and `Reap` are separate, so processes fork and exit between them. `wire` is what
the host reads, frame by frame, each whole or cut. Setup, pipe, poll and socket
errors are `RunError`, those of a cleanup and its deadline are `Deadline`. Stdin,
payloads and exit codes are left out: nothing the guest decides depends on them.
The host acts only where the guest touches the socket, since it cannot be noticed
elsewhere. Numbers of reaped processes may be reused by the next command. What a
command does after the agent has died is not followed.

### DeployCommand and SudoDeploy

`DeployCommand` has an action for each step of `run`, `prepare_artifact`,
`resolve_seed`, `deploy`, `wait` and `deploy_sudo`. Arguments are records; a flake
reference is one of five kinds, which is all that `flake_installable`,
`canonical_job` and `resolve_garden` tell apart. Nix may fail anywhere and builds
any artifact; an artifact is described by its manifest and by the marker
file it has. A request may be refused, or carried out without an answer. The
server inserts rows of its own for a seed that was registered, since
subscriptions do. `warm_seed` has no effect on anything that follows. Which
states are printed, and the tail of the logs, are left out.

`SudoDeploy` is `sudo::run`: `RunSsh`, the decoder's `Read`, `DecodeFrame`,
`FindPrefix`, `EmitText`, `AwaitMore`, `FinishStream`, and `WaitSsh`. The remote
end prints text (also a lone first byte of the marker) and frames; the command
reads any number of tokens at a time; ssh may end at any point and lose what it
had not delivered. A read or a write may fail at any time (`StreamBreaks`), and so
may a poll (`PollFails`); both are steps of their own, so that fairness never
counts on them. The marker has three tokens, so it is split in every way that
`retained` distinguishes.

### Activator

`act[p]` is an activator process: where it is, its request and peer, the commands
still to run, the running command with the lines in its pipes (`pipe`) and in the
channel between pumps and receiver (`channel`), which are counted only, and what
the client has read (`replies`). A
process reads one request (`Accept`, `Refuse`, `NetworkRequest`, `Begin`) and runs
the plan of its kind (`PlanOf`). `Pump` and `PumpStops` are the two threads: a
line that is not UTF-8 ends its thread and loses the rest of that stream. `files`,
`current` and `tmp` are the services profiles, the link `current` and
`current.new`, which all activators share; `RemoveTmp`, `Symlink` and `Rename` are
the system calls of `update_current`, each of which may fail; then the units follow
the new profile while `current` names the old one, and the run counts as `disturbed`. `units` is what systemd runs after the
switches. A profile directory is never emptied, and `cp --no-clobber` skips a file
that is there, so a unit that a killed copy left truncated stays so on every later
attempt; the model has it (`files` is "partial"), and no line of the code promises
otherwise. The name of the temporary empty directory, time stamps and log levels
are left out. In pipe mode (`deploy --sudo`) the peer counts as "activation".

When `activate::run` fails, its error is first logged, which sends it to the client
through the output callback, and then sent as a response (`Errs`, `SendError`). The
callback is still in its slot at that point: `run_with_network` clears it only
afterwards. If the client is gone, `send_response` cannot write, and logs that
while it holds the lock on the writer (`handler.rs:125-131`). `CallbackLayer` hands
the log line to the callback, which takes the same lock on the same thread
(`handler.rs:98`): the process waits for itself and never exits (`at = "stuck"`).
Only a kill ends it. `RequestsEnd` names this exception, and is false without it; no
line of the repository says that such a process ends, so it is no disagreement in
the sense of section 3.

## 3. Runs

| Run | Instance | Shows |
|---|---|---|
| `deployments_safety` | 2 rows, 2 tasks, 1 subscription, 1 reconnect | `ImplementsRows` (refinement of `DeploymentRow`), `AuditTruth` |
| `deployments_retry` | 3 rows, 2 tasks, 2 retries, 1 crash | `OneOpenRetry`, `DistinctOrdinals` |
| `deployments_liveness` | 2 rows, 1 task, 1 reconnect, 1 crash | `ImplementsFairRows`: the rows are resolved as well |
| `garden` | 2 deployments, 2 frames, 2 joins, 1 reload, 1 death | `ActiveAccounted`, `ResultsFromRuns`, `ReloadSparesEarlier`, `ActiveDrains` |
| `orchestration_safety` | a row and its retry, 1 join, 1 reconcile, 1 crash, 1 death | `CompletedTruth` |
| `network` | 2 gardens, 1 shared slot, 2 tokens, 2 requests | `LeasesExclusive`, `DenyProtected`, `OpenOnlyWhileHeld`, `NoStaleFlows`, `ActiveKept` |
| `vm` | 2 VMs of size 1 or 2, budget 2, 1 kept result, 1 killed process | `ImplementsReservations` (refinement of `Reservations`), `HostReserved`, `WithinBudget`, `CertificateRespected`, `LeaseOutlivesVmm`, `RetainedKept`, `ShutdownTruth`, `StopEnds`, `RecoveryEnds` |
| `guest` | 3 processes, 1 chunk per stream, 1 unread piece, any number of connections | `NoReuse`, `ExitedComplete`, `WireWellFormed`, `KillsOwnChildren`, `DisconnectEnds` |
| `deploy` | 1 row, 8 artifacts, 2 frames and 1 token of text per ssh | `ExitTruth`, `Prepared`, `SudoTruth`, `ScreenFaithful`, `DeployEnds` |
| `activator` | 2 processes, 2 seeds, 1 line, 1 kill or disconnect | `RepliesComplete`, `ClientTruth`, `CurrentSwitched`, `UnitsFollowCurrent`, `RequestsEnd` |

**Bounds.** Two rows are a parent and its retry, or a row and the one that
supersedes it; three admit two retries of one parent. Two tasks are two actors
of any kinds. One reconnect is enough for a list to become stale between its
reading and its use; one crash for a transaction to be cut in two. In `garden`
two frames of one sid are a repetition, one death is enough to separate tasks
from entries, and two joins allow a replay. In `network` one slot makes the two
gardens compete for it and for every later lease to reuse it; two requests are
enough for every race on one execution lock; the two tokens are the old and the
new lease of a slot. The exit of one of the two owners is explored (`Mortal`).
In `vm` two small VMs run together and a large one excludes the other; the
second result evicts the first. One kill at any step is enough for each of the
recovery paths, and a start that meets a dead supervisor takes the ledger down
as well. Only one of the VMs gets a directory (`Hosted`); the other ends before
it has anything on the host, or is killed.
In `guest` three processes are a root, a child and a grandchild that is orphaned
when the child exits; one chunk on each of two streams is enough for output to
follow the exit of its writer. In `deploy` one row is both the row a request
creates and the one it matches, and two frames are a completion and whatever
precedes or follows it; the command lines vary together the arguments that are
tested together; those that clap refuses are filtered out by `Parsed`. In
`activator` the second process only makes services requests, since nothing else is
shared, with a profile that equals the first one's or is a part of it; only the
first one's commands print.
What the bounds leave open for the safety properties is covered by the proofs
below. Symmetry is used only in runs without liveness properties. `CHECK_DEADLOCK FALSE` is set where a daemon without deployments,
joins and reload requests left, a ledger without VMs, a guest that has stopped, a
command that has ended, or activators that are done, really rest; the other runs
check deadlock.

**Fairness.** `Deployments`: started tasks run on, time passes, and the
finalizer re-arms its timer after each pass (`stale_deployment_finalizer.ex`
schedules the next pass at the end of this one). Nothing is assumed of gardens,
users and connections; but gardens must not reconnect for ever (`MaxConnects`),
since each replay refreshes `last_dispatched_at`. `GardenSocket`: the process
drains its mailbox, `Deployer.run` returns (its commands have timeouts and the
task rescues what it raises), the supervisor restarts a dead process and systemd
carries out a restart it was asked for. Joins, frames and reloads need not happen.
`VmLedger`: some step of `Duty` is taken as long as there is one: supervisors
restart what dies, the ledger serves its mailbox, the execution supervisor
answers, guards work, and their deadlines fire. A running VM need not end unless
a message that stops it is in its guard's mailbox. Requests and kills need not
happen. `GuestAgent`: the thread is scheduled (every wait of its loop has a
timeout), and the clock passes the deadline of a cleanup that returns to its check
again and again; hosts and commands owe nothing. `DeployCommand`: the command runs
on (`Progress`: a poll is answered, a read returns what is there), and the server
resolves open rows, which `ImplementsFairRows` shows it does. Neither a poll nor a
stream need ever fail, nor ssh ever end: `DeployEnds` says that the command ends
unless ssh runs for ever, which leaves the user's terminal waiting. `Activator`: the
processes and their threads run on, and the commands they start exit and close
their streams; a command that hangs keeps its client waiting, since there is no
timeout on this side.

### Disagreements found

| Run | What the repository says | What the code does |
|---|---|---|
| `deployments_finalizer_race` | `orchestration_test.exs:1123`: the finalizer "keeps fresh unresolved unchanged" | it re-checks only the state of a listed row; one that a reconnect re-dispatched since then is finalized as stale |
| `network_leak` | `docs/spec-builder.md:621`: release removes "TAP, routes, namespace, firewall and connection-tracking state" | after two failed saves the journal says Reserved while the deny table exists; the release of a reserved lease deletes the journal file only |

## 4. Proofs

A theorem assumes nothing but the assumption on the constants that its module
declares:

| Assumption | What it says of the code |
|---|---|
| `ConstantsAssumption` (`Deployments`) | a subscription belongs to one garden; limits are numbers; there is a garden and something to deploy |
| `GardenAssumption` (`GardenSocket`) | the bounds are numbers |
| `OrchestrationAssumption` | what the daemon reports the channel accepts |
| `LeaseAssumption` (`NetworkLease`) | an instance belongs to an owner; there is an address; tokens are not marks |
| `VmAssumption` (`VmLedger`) | amounts, the budget and `result_limit` are numbers; ids are not the absent id |
| `GuestAssumption` (`GuestAgent`) | processes are numbered in the order in which they are born, and the guest is none of them |
| `DeployAssumption`, `SudoAssumption` (`DeployCommand`) | arguments and artifacts have their types |
| `ActivatorAssumption` (`Activator`) | `Request::from_args` refuses a services request without seeds |

Each proof has the same form: the inductive invariant holds at first and is kept
by every action, one step of the proof per action; the theorems follow from it.
Every inductive invariant was checked by TLC on the instance of the run before it
was proved.

**`DeploymentsProofs`.** `Inv` is `TypeOK`, `OpenTransactions`, `StaleListed`,
`ResultIffTerminal`, `OneOpenRetry`, `DistinctOrdinals` and `AuditTruth`.
`ResultIffTerminal` is not inductive alone: `cancel_stale_for_subscriptions`
writes a state and no result, which is right only because what it listed is
still terminal (`StaleListed`). `OneOpenRetry` and `DistinctOrdinals` need
`OpenTransactions`: the check for a retry in progress does not see uncommitted
rows, but an uncommitted row's transaction holds the parent's lock. Most steps
only let rows settle (`RowsSettle`): an unresolved row may become terminal, a
terminal one stays so, no row appears. The two inserting steps are treated on
their own. Results: `TypeCorrect`, `ResultsAgreeWithStates`, `RetriesExclusive`,
`OrdinalsUnique`, `AuditTruthful`, and the action property `NeverReopened`.
`RowsImplemented` is the refinement of `DeploymentRow`: initial states map to
initial states, and each action is a step that makes a row appear, hands rows out
or resolves one, or a stutter; `ResultIffTerminal` and `StaleListed` are what
keeps a cancellation from being a resolution without a result.

**`GardenSocketProofs`.** An active deployment is accounted for by a token: a
`:run_deployment` in the mailbox, a running task, or a `:deployment_completed` in
the mailbox. `TokensInv` counts them, one for each active deployment and none for
any other, which is stronger than `ActiveAccounted` and, unlike it, kept by every
handler. It holds until the process dies for the first time, since afterwards a
task's message may have no receiver; therefore it also says that a process that
never died is registered. `CompletionsFromRuns` says of the completions in the
mailbox what `ResultsFromRuns` says of those sent. Lemmas about counting the
messages of a kind, when one is taken and up to two are added, carry the proof.
For `ReloadSparesEarlier`, `LateInv` says that as long as a restart is due and no
process has died, every active deployment is in `late`: the check that asks for the
restart finds no active one, and only `HandleDeployment` adds one afterwards. With
the tokens the same holds of what runs.
Results: `GardenResults`, `GardenAccount`, `GardenReload`.

**`OrchestrationProofs`.** Every step of the composition is a step of the server
or leaves it unchanged, and the same of the daemon: `SystemImplements`
(`SystemSpec => Spec`) and `SystemImplementsGarden` (`SystemSpec => GardenSpec`).
`CompletedTruth` follows from what was proved of both: the server completes a row
only in `RecordDeployment`, which here takes its result from a push, and
`ResultsFromRuns` says where the results in pushes come from.

**`NetworkLeaseProofs`.** `LeaseInv` adds to the properties what makes them
inductive: no lock is held twice (`Locks`), what a request knows of its lease is
true (`ClaimsAt`), the journal and the host are as far as its step says
(`JournalledAt`, `HostReadyAt`), and a TAP or a tracked connection belongs to a
lease beyond the phase Reserved (`TapHeldAt`, `FlowsHeldAt`). Since two requests
at work never have the same lease or slot (`WorkersApart`), a step need be
examined only at its own lease and slot (`OwnStep`), and a step that changes
only a request only at that request (`RequestOnly`). Reserved is singled out
because release takes a shortcut there. Results: `SlotsExclusive`, `TapsDenied`,
`OpenHeld`, `FlowsFresh`, `LeasesTyped`, and the action property
`ActiveLeasesKept`.

**`VmLedgerProofs`.** `VmInv` says of every VM what its guard may have on the host
at each of its places, and that it knows of its lease (`HostAt`); that a
certificate exists only when the guard is at its end, and a clean one only when
nothing is left (`CertificateAt`); that before its controller runs there is no
guard and no message (`ExecutionAt`); and what the ledger may have recorded
(`EntryAt`): an entry that is no longer active has a guard that is done, a
retained one has no clean certificate, an unreserved one has nothing on the host.
`HostReserved` alone is not kept by `Finished` or `GuardDown`, which release a
reservation on the word of a certificate. `Queued` is about eviction: the queue
holds clean results only, and no more than the limit, so that a handler that
completes nothing evicts nothing. `FewActive` makes what recovery completes
finite. Everything the ledger does to entries is one of three things: it changes
neither phase nor reservation (`PhasesKept`), it settles and evicts
(`EvictStepped`), or it admits or refuses. A guard's step concerns its own VM (`Acted`).

The budget is about the sum of what is reserved, which the module takes with a fold
of the community modules. Lemmas relate that fold, for finite sets of entries, to
the removal of one entry (`UsedWithout`), to entries that agree (`UsedSame`) and to
a subset of them (`UsedFewer`); they go by the least numbering of a set, with the
well-foundedness of the natural numbers. `Id` may be infinite, so the invariant
(`Budgeted`) says that what is reserved is finite as well. Of all steps only `Start`
reserves anything, after its comparison with the budget; every other one, a
recovery with its certificates, settling and eviction included, leaves a lean
ledger (`Lean`): it reserves nothing that was not reserved, and as much of it.

`VmReservations` is the refinement. Initial states map to initial states;
`Start` is an `Admit` or a stutter, a guard's step a `Use` or a stutter, and
whatever else the ledger does resolves some claims (`ClaimFacts`): a claim is given
up only by an entry that becomes unreserved, of which `VmInv` says that nothing is on
the host. Results: `VmHostReserved`, `VmBudget`, `VmCertificates`, `VmLeases`, the
action properties `VmRetained` and `VmShutdown`, and `VmReservations`.

**`GuestAgentProofs`.** `NoReuse` is about `waitpid` saying that no child is left.
That means that no process is left only because of the shape of the tree
(`Forest`): an unreaped process is a child of the guest or of a live process with a
smaller number, so the smallest unreaped process is a child of the guest. The
least element is taken with the well-foundedness of the natural numbers. `TreeInv`
relates the tree to what the agent believes of it, and the list of a cleanup to the
children of the guest. `FlowInv` has every chunk in one place: in the pipe, in the
buffer, or whole on the wire. `FrameInv` says when the wire ends in a part of a
frame. Results: `GuestNoReuse`, `GuestKillsOwnChildren`, `GuestExitedComplete`,
`GuestWire`.

**`DeployCommandProofs`.** The server changes a row between the polls: `Waiting`
says what the command knows of its row, and what of it stays true. `Passed` is what
the artifact in hand has gone through at each step, `SudoPath` where a sudo
deployment can be, and `Flow` is about bytes: until the activator answers a
request with exit code 0, no such byte is in the pipe or in the decoder, however
the chunks are cut.

`ScreenFaithful` compares what is printed with what was sent, over the whole history
of chunks. The history itself is never split: `Screened` is about the bytes that are
still unread, those in the decoder's buffer followed by those in the pipe. They
keep the framing of the activator's output (`Framing`); those of them that are for
the terminal (`ForScreen`) continue the screen to what was meant, each at the
place that its number among them gives it (`Due`), and a whole rest completes it
(`Faithful`). Arrival of bytes does not change what is unread; the decoder drops a
frame or prints a byte at the head of it, and each shifts the places by as much as
the screen grows. A connection that breaks cuts the rest anywhere, and then nobody
can tell whether the first byte of a prefix was text, which is why `ForScreen`
distinguishes the two endings (`Ending`).
Results: `DeployExitTruth`, `DeployPrepared`, `DeploySudoTruth`, `DeployScreen`.

**`ActivatorProofs`.** A process's part is local (`Local`): between commands nothing
is left of the last one, what is left to do is the end of the plan, what has run is
the start of it with code 0 but for the last, and every line printed is in a pipe,
in the channel, lost or read. The shared part is `FilesInv`, which says which seeds
are copied at every step of a services run and that links name profiles that were
switched to, and `UnitsInv`, which says what systemd runs as long as services runs
neither overlap nor are cut short. Steps of one process keep the local part of the
others; those that touch no shared file keep the shared part (`View`). Results:
`ActClientTruth`, `ActRepliesComplete`, `ActCurrentSwitched`,
`ActUnitsFollowCurrent`.

**Only model-checked.** The liveness properties (`RowsEnd` in `ImplementsFairRows`,
`ActiveDrains`, `StopEnds`, `RecoveryEnds`, `DisconnectEnds`, `DeployEnds`,
`RequestsEnd`). They need fairness, and with it ENABLED, which the provers do not
support. Every safety invariant, action property and refinement that a passing run
checks is proved. The two disagreements of section 3 are counterexamples, which TLC
shows on its instances.

## 5. Plan

What is left, in this order:

1. The composition of `VmLedger` with `NetworkLease` (a guard revokes and releases
   its lease before it certifies its cleanup) and with `GuestAgent`; start,
   readiness and certified cleanup of a VMM (`apps/cloud_hypervisor`).
2. `DeploymentLog`: bounded buffers with sequence numbers; every reader sees a
   gap-free suffix.
3. The garden's admin socket and its client (`src/commands/garden`).
4. `Deployer` with the policy decision as a function checked against a reference
   definition over bounded windows; scheduler cooldowns; storage.
5. Authentication and reconnect timers of the connection process.

Not modelled: rendering and sessions, OAuth and webhooks, the generated Incus
client, environment set-up of the peer node, and the build, download, upgrade and
reboot commands around nix. They are I/O with little state of their own or calls
to external services.
