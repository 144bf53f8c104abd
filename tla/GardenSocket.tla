---------------------------- MODULE GardenSocket ----------------------------
(***************************************************************************)
(* The garden daemon's connection process (Garden.Socket), the deployment  *)
(* tasks it starts under Garden.TaskSupervisor, and the reload flag of     *)
(* module Garden.                                                          *)
(*                                                                         *)
(* The process handles one message of its mailbox at a time.  It believes  *)
(* itself joined until the disconnect is handled, so a push on a dead      *)
(* connection is lost silently, while a push of a process that knows it is *)
(* not joined returns an error, fails the {:ok, _} match and kills the     *)
(* process.  Its supervisor restarts it with no active deployments; the    *)
(* tasks are not linked to it and run on.                                  *)
(*                                                                         *)
(* The server is arbitrary here: it may send any deployment any number of  *)
(* times.  Module Orchestration puts the server in its place.              *)
(***************************************************************************)
EXTENDS Sids, Naturals, FiniteSets, Sequences, SequencesExt

CONSTANTS
  Results,     \* what Deployer.run returns; the daemon only passes it on
  MaxJoins,    \* bound: joins of the private topic that are explored
  MaxFrames,   \* bound: deployment messages of the server
  MaxReloads,  \* bound: SIGHUPs and admin reload requests
  MaxRestarts  \* bound: deaths of the process before its supervisor gives up

ASSUME GardenAssumption ==
  /\ MaxJoins \in Nat /\ MaxFrames \in Nat
  /\ MaxReloads \in Nat /\ MaxRestarts \in Nat

VARIABLES
  link,      \* the channel is up, as seen by the server
  alive,     \* the process is registered
  joined,    \* what the process believes of link
  mailbox,   \* its messages
  active,    \* assigns.active_deployments
  running,   \* Id -> number of tasks inside Deployer.run
  up,        \* pushes on their way to the server
  pending,   \* :sower_pending_reload
  stopping,  \* systemd has been asked to restart the unit
  late,      \* history: the deployments received since it was asked
  outcomes,  \* history: Id -> what its runs have returned
  restarts,  \* history: how often the process has died
  joins,     \* joins so far
  reloads,   \* reload requests so far
  frames     \* deployment messages so far

gvars == <<link, alive, joined, mailbox, active, running, up, pending, stopping,
           late, outcomes, restarts, joins, reloads, frames>>

\* Messages without a payload, and those about a deployment.  "report" stands
\* for the three casts of handle_join and the one of a completion; "seed" for
\* a task's :seed_status cast and its seed result call.
Message == [kind: {"joined", "disconnected", "report", "check_pending_reload"}]
             \cup [kind: {"deployment", "run_deployment", "seed"}, sid: Id]
             \cup [kind: {"deployment_completed"}, sid: Id, result: Results]

Push == [kind: {"ack"}, sid: Id] \cup [kind: {"result"}, sid: Id, result: Results]

Signal(k) == [kind |-> k]
About(k, d) == [kind |-> k, sid |-> d]
Outcome(k, d, r) == [kind |-> k, sid |-> d, result |-> r]

GardenTypeOK ==
  /\ link \in BOOLEAN /\ alive \in BOOLEAN /\ joined \in BOOLEAN
  /\ mailbox \in Seq(Message)
  /\ active \subseteq Id
  /\ running \in [Id -> Nat]
  /\ up \in Seq(Push)
  /\ pending \in BOOLEAN /\ stopping \in BOOLEAN
  /\ late \subseteq Id
  /\ outcomes \in [Id -> SUBSET Results]
  /\ restarts \in 0..MaxRestarts /\ joins \in 0..MaxJoins /\ reloads \in 0..MaxReloads
  /\ frames \in 0..MaxFrames

GardenInit ==
  /\ link = FALSE /\ alive = TRUE /\ joined = FALSE
  /\ mailbox = <<>>
  /\ active = {}
  /\ running = [d \in Id |-> 0]
  /\ up = <<>>
  /\ pending = FALSE /\ stopping = FALSE /\ late = {}
  /\ outcomes = [d \in Id |-> {}]
  /\ restarts = 0 /\ joins = 0 /\ reloads = 0 /\ frames = 0

-----------------------------------------------------------------------------
(* The mailbox *)

\* send to a registered name; nobody receives it while the process is down.
Deliver(m) == mailbox' = IF alive THEN Append(mailbox, m) ELSE mailbox

\* Handle the first message of kind k and send self() the messages ms.
Receive(k) == alive /\ mailbox # <<>> /\ Head(mailbox).kind = k
Handled(ms) == mailbox' = Tail(mailbox) \o ms

\* push: an error unless the process believes it is joined; it arrives only
\* on a live connection.
Pushed(m) == up' = IF link THEN Append(up, m) ELSE up

\* A failed match, {:ok, _} = push(...): the process dies, and its connection
\* and mailbox with it.
Dies ==
  /\ restarts < MaxRestarts
  /\ alive' = FALSE
  /\ link' = FALSE
  /\ joined' = FALSE
  /\ mailbox' = <<>>
  /\ active' = {}
  /\ up' = <<>>
  /\ restarts' = restarts + 1
  /\ UNCHANGED <<running, pending, stopping, late, outcomes, joins, reloads, frames>>

\* A new virtual machine, with no tasks left, started by systemd.
Reboot ==
  /\ link' = FALSE /\ joined' = FALSE /\ alive' = TRUE
  /\ mailbox' = <<>> /\ up' = <<>>
  /\ active' = {}
  /\ running' = [d \in Id |-> 0]
  /\ pending' = FALSE /\ stopping' = FALSE /\ late' = {}
  /\ restarts' = 0
  /\ UNCHANGED <<outcomes, joins, reloads, frames>>

-----------------------------------------------------------------------------
(* Handlers *)

\* handle_join of the private topic.
HandleJoin ==
  /\ Receive("joined")
  /\ joined' = TRUE
  /\ Handled(<<Signal("report")>>)
  /\ UNCHANGED <<link, alive, active, running, up, pending, stopping, late, outcomes,
                 restarts, joins, reloads, frames>>

\* handle_disconnect: the reconnect timer starts.
HandleDisconnect ==
  /\ Receive("disconnected")
  /\ joined' = FALSE
  /\ Handled(<<>>)
  /\ UNCHANGED <<link, alive, active, running, up, pending, stopping, late, outcomes,
                 restarts, joins, reloads, frames>>

\* :sync_subscriptions, :report_seeds and :report_garden push with a match;
\* :report_seeds pushes nothing when it finds no profiles.
Report ==
  /\ Receive("report")
  /\ Handled(<<>>)
  /\ UNCHANGED <<link, alive, joined, active, running, up, pending, stopping, late,
                 outcomes, restarts, joins, reloads, frames>>

\* handle_message "deployment": receive_deployment ignores a sid that is
\* active and otherwise enqueues it.
HandleDeployment ==
  /\ Receive("deployment")
  /\ LET d == Head(mailbox).sid
     IN  /\ active' = active \cup {d}
         /\ Handled(IF d \in active THEN <<>> ELSE <<About("run_deployment", d)>>)
         /\ late' = IF stopping THEN late \cup {d} ELSE late
  /\ UNCHANGED <<link, alive, joined, running, up, pending, stopping, outcomes,
                 restarts, joins, reloads, frames>>

\* Faulty variant of RunDeployment: the result is reported before the run.
ReportBeforeRun ==
  /\ Receive("run_deployment")
  /\ joined
  /\ LET d == Head(mailbox).sid
     IN  /\ d \in active
         /\ \E r \in Results : Pushed(Outcome("result", d, r))
         /\ running' = [running EXCEPT ![d] = @ + 1]
  /\ Handled(<<>>)
  /\ UNCHANGED <<link, alive, joined, active, pending, stopping, late, outcomes,
                 restarts, joins, reloads, frames>>

\* handle_info {:run_deployment, sid}: acknowledge, then start the task.
RunDeployment ==
  /\ Receive("run_deployment")
  /\ joined
  /\ LET d == Head(mailbox).sid
     IN  /\ d \in active
         /\ Pushed(About("ack", d))
         /\ running' = [running EXCEPT ![d] = @ + 1]
  /\ Handled(<<>>)
  /\ UNCHANGED <<link, alive, joined, active, pending, stopping, late, outcomes,
                 restarts, joins, reloads, frames>>

\* A task's seed status or seed result, passed on to the server.
HandleSeed ==
  /\ Receive("seed")
  /\ joined
  /\ Handled(<<>>)
  /\ UNCHANGED <<link, alive, joined, active, running, up, pending, stopping, late,
                 outcomes, restarts, joins, reloads, frames>>

\* Faulty variant of DeploymentCompleted: the entry stays active.
CompletedStaysActive ==
  /\ Receive("deployment_completed")
  /\ joined
  /\ LET m == Head(mailbox)
     IN  m.sid \in active /\ Pushed(Outcome("result", m.sid, m.result))
  /\ Handled(<<Signal("report"), Signal("check_pending_reload")>>)
  /\ UNCHANGED <<link, alive, joined, active, running, pending, stopping, late, outcomes,
                 restarts, joins, reloads, frames>>

\* handle_info {:deployment_completed, ...}: whichever run of the sid sent it,
\* the active entry is answered; without one the result is dropped.
DeploymentCompleted ==
  /\ Receive("deployment_completed")
  /\ joined
  /\ LET m == Head(mailbox)
     IN  /\ m.sid \in active
         /\ Pushed(Outcome("result", m.sid, m.result))
         /\ active' = active \ {m.sid}
  /\ Handled(<<Signal("report"), Signal("check_pending_reload")>>)
  /\ UNCHANGED <<link, alive, joined, running, pending, stopping, late, outcomes,
                 restarts, joins, reloads, frames>>

\* run_deployment and deployment_completed for a sid that is not active.
NotFound ==
  /\ Receive("run_deployment") \/ Receive("deployment_completed")
  /\ Head(mailbox).sid \notin active
  /\ Handled(<<>>)
  /\ UNCHANGED <<link, alive, joined, active, running, up, pending, stopping, late,
                 outcomes, restarts, joins, reloads, frames>>

\* The same handlers on a process that knows it is not joined.  After too many
\* deaths Garden.Supervisor gives up, which ends the application.
FailedPush ==
  /\ ~joined
  /\ \/ Receive("report") \/ Receive("seed")
     \/ /\ Receive("run_deployment") \/ Receive("deployment_completed")
        /\ Head(mailbox).sid \in active
  /\ Dies \/ (restarts = MaxRestarts /\ Reboot)

\* Faulty variant of CheckPendingReload: active deployments are not asked for.
ReloadAtOnce(busctlOk) ==
  /\ Receive("check_pending_reload")
  /\ Handled(<<>>)
  /\ IF pending
     THEN pending' = FALSE /\ stopping' = (stopping \/ busctlOk)
     ELSE UNCHANGED <<pending, stopping>>
  /\ UNCHANGED <<link, alive, joined, active, running, up, late, outcomes, restarts,
                 joins, reloads, frames>>

\* handle_info :check_pending_reload, with should_reload? and
\* take_pending_reload; a failing busctl is only logged.
CheckPendingReload(busctlOk) ==
  /\ Receive("check_pending_reload")
  /\ Handled(<<>>)
  /\ IF active = {} /\ pending
     THEN pending' = FALSE /\ stopping' = (stopping \/ busctlOk)
     ELSE UNCHANGED <<pending, stopping>>
  /\ UNCHANGED <<link, alive, joined, active, running, up, late, outcomes, restarts,
                 joins, reloads, frames>>

-----------------------------------------------------------------------------
(* Deployment tasks *)

\* Deployer.run reports a seed's status or result.
ReportSeed(d) ==
  /\ running[d] > 0
  /\ alive /\ ~Contains(mailbox, About("seed", d))
  /\ Deliver(About("seed", d))
  /\ UNCHANGED <<link, alive, joined, active, running, up, pending, stopping, late,
                 outcomes, restarts, joins, reloads, frames>>

\* Faulty variant of FinishRun: a task that raises tells nobody.
FinishSilently(d, r) ==
  /\ running[d] > 0
  /\ running' = [running EXCEPT ![d] = @ - 1]
  /\ outcomes' = [outcomes EXCEPT ![d] = @ \cup {r}]
  /\ UNCHANGED <<link, alive, joined, mailbox, active, up, pending, stopping, late, restarts,
                 joins, reloads, frames>>

\* Deployer.run returns, or raises and is rescued as :failure; the result is
\* sent to whichever process has the name now.
FinishRun(d, r) ==
  /\ running[d] > 0
  /\ running' = [running EXCEPT ![d] = @ - 1]
  /\ outcomes' = [outcomes EXCEPT ![d] = @ \cup {r}]
  /\ Deliver(Outcome("deployment_completed", d, r))
  /\ UNCHANGED <<link, alive, joined, active, up, pending, stopping, late, restarts,
                 joins, reloads, frames>>

-----------------------------------------------------------------------------
(* Environment: supervisor, network, server, operator, systemd *)

Restart ==
  /\ ~alive
  /\ alive' = TRUE
  /\ UNCHANGED <<link, joined, mailbox, active, running, up, pending, stopping, late,
                 outcomes, restarts, joins, reloads, frames>>

\* attempt_reconnect succeeds and the server accepts the private topic.
Join ==
  /\ alive /\ ~link /\ ~joined
  /\ joins < MaxJoins
  /\ ~Contains(mailbox, Signal("joined")) /\ ~Contains(mailbox, Signal("disconnected"))
  /\ link' = TRUE
  /\ joins' = joins + 1
  /\ Deliver(Signal("joined"))
  /\ UNCHANGED <<alive, joined, active, running, up, pending, stopping, late, outcomes,
                 restarts, reloads, frames>>

\* The connection breaks: what is on its way to the server is lost.
Disconnect ==
  /\ link
  /\ link' = FALSE
  /\ up' = <<>>
  /\ Deliver(Signal("disconnected"))
  /\ UNCHANGED <<alive, joined, active, running, pending, stopping, late, outcomes,
                 restarts, joins, reloads, frames>>

\* A "deployment" broadcast reaches the garden.
Frame(d) ==
  /\ link
  /\ frames < MaxFrames
  /\ frames' = frames + 1
  /\ Deliver(About("deployment", d))
  /\ UNCHANGED <<link, alive, joined, active, running, up, pending, stopping, late,
                 outcomes, restarts, joins, reloads>>

\* The server's channel takes the next push.
Arrive ==
  /\ up # <<>>
  /\ up' = Tail(up)
  /\ UNCHANGED <<link, alive, joined, mailbox, active, running, pending, stopping, late,
                 outcomes, restarts, joins, reloads, frames>>

\* Garden.request_reload.
RequestReload ==
  /\ reloads < MaxReloads
  /\ reloads' = reloads + 1
  /\ pending' = TRUE
  /\ Deliver(Signal("check_pending_reload"))
  /\ UNCHANGED <<link, alive, joined, active, running, up, stopping, late, outcomes,
                 restarts, joins, frames>>

\* systemd carries out the restart it was asked for.
DaemonRestart == stopping /\ Reboot

-----------------------------------------------------------------------------
Handle ==
  \/ HandleJoin \/ HandleDisconnect \/ Report \/ HandleDeployment
  \/ RunDeployment \/ HandleSeed \/ DeploymentCompleted \/ NotFound \/ FailedPush
  \/ \E ok \in BOOLEAN : CheckPendingReload(ok)

Run(d) == ReportSeed(d) \/ \E r \in Results : FinishRun(d, r)

GardenNext ==
  \/ Handle
  \/ \E d \in Id : Run(d) \/ Frame(d)
  \/ Restart \/ Join \/ Disconnect \/ Arrive \/ RequestReload \/ DaemonRestart

GardenSpec == GardenInit /\ [][GardenNext]_gvars

\* The process drains its mailbox, Deployer.run returns (its downloads and
\* activations have timeouts), and the supervisor restarts the process.
GardenFairness ==
  /\ WF_gvars(Handle)
  /\ \A d \in Id : WF_gvars(\E r \in Results : FinishRun(d, r))
  /\ WF_gvars(Restart)
  /\ WF_gvars(DaemonRestart)

GardenFairSpec == GardenSpec /\ GardenFairness

-----------------------------------------------------------------------------
(* Properties *)

\* While the process has not died, its active deployments are exactly those
\* enqueued, running or finished and not yet reported: a running deployment
\* is never missing, and an entry is never left behind.
ActiveAccounted ==
  restarts = 0 =>
    \A d \in Id :
      LET Waiting(k) == {i \in DOMAIN mailbox : mailbox[i].kind = k /\ mailbox[i].sid = d}
          enqueued == Waiting("run_deployment")
          finished == Waiting("deployment_completed")
      IN  IF d \in active THEN Cardinality(enqueued) + running[d] + Cardinality(finished) = 1
          ELSE enqueued = {} /\ finished = {} /\ running[d] = 0

\* Every result on its way to the server is one that a run of that deployment
\* really returned.
ResultsFromRuns ==
  \A i \in DOMAIN up : up[i].kind = "result" => up[i].result \in outcomes[up[i].sid]

\* Whenever systemd may carry out a restart it was asked for, every deployment
\* that the restart would abort, accepted or running, was received after it
\* was asked: one received before that has run and is answered.  Asking and
\* restarting are two steps, and a deployment received between them is
\* aborted.  Once the process has died this is lost: its tasks run on, and the
\* new process does not know them.
ReloadSparesEarlier ==
  stopping /\ restarts = 0 => \A d \in Id : d \in active \/ running[d] > 0 => d \in late

\* Every accepted deployment is answered or given up: no entry stays active
\* for ever, which would block every later replay of it and every reload.
ActiveDrains == \A d \in Id : d \in active ~> d \notin active
=============================================================================
