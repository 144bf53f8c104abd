--------------------------- MODULE Orchestration ---------------------------
(***************************************************************************)
(* The server's deployment records (module Deployments) together with one  *)
(* garden daemon (module GardenSocket), over a connection that breaks and  *)
(* is re-established.                                                      *)
(*                                                                         *)
(* Broadcasts reach the garden if its channel is up and may be lost;       *)
(* garden pushes are handled in order by the channel process; every join   *)
(* starts a reconcile task.                                                *)
(***************************************************************************)
EXTENDS Deployments, GardenSocket

ASSUME OrchestrationAssumption == Results \subseteq Reported

allvars == <<vars, gvars>>

SystemInit == Init /\ GardenInit

-----------------------------------------------------------------------------
(* Server to garden *)

\* Endpoint.broadcast on the garden's topic: heard by the channel process if
\* there is one, and lost if the connection breaks before the frame arrives.
Broadcast(d) == Frame(d) \/ UNCHANGED gvars

Dispatch(t) == BroadcastDeployment(t) /\ Broadcast(task[t].dep)
ReplayToGarden(t, d) == Replay(t, d) /\ Broadcast(d)
Retry(t, p, d, n) == RetryDeployment(t, p, d, n) /\ Broadcast(d)

\* The join of the private topic; its reconcile task starts some time later.
JoinTopic == Join /\ UNCHANGED vars
Reconcile(t) == connects < joins /\ Reconnect(t) /\ UNCHANGED gvars

-----------------------------------------------------------------------------
(* Garden to server: the channel's handle_in for the next push *)

Incoming(m) == up # <<>> /\ Head(up) = m /\ Arrive

\* Faulty variant of ReceiveAck: an acknowledged deployment counts as done.
ReceiveAckAsSuccess(d) ==
  Incoming(About("ack", d)) /\ RecordDeployment(d, "success")

ReceiveAck(d) == Incoming(About("ack", d)) /\ RecordDeploymentStatus(d)

ReceiveResult(d, r) == Incoming(Outcome("result", d, r)) /\ RecordDeployment(d, r)

\* The row is not visible: a retry that is not committed yet, or that was
\* rolled back.  The handler answers :deployment_not_found, which the garden
\* only logs.
ReceiveUnknown(d) ==
  /\ Incoming(About("ack", d)) \/ \E r \in Results : Incoming(Outcome("result", d, r))
  /\ state[d] \notin Visible
  /\ UNCHANGED vars

\* A server restart closes the connection.
ServerCrash ==
  /\ Crash
  /\ IF link THEN Disconnect ELSE UNCHANGED gvars

-----------------------------------------------------------------------------
\* Steps of a server process that send nothing.
QuietTaskStep(t) ==
  \/ \E d \in Id : CreateDeployment(t, d) \/ CancelStale(t, d) \/ CancelSuperseded(t, d)
  \/ ListStale(t) \/ CommitRetry(t)
  \/ \E supported \in BOOLEAN : MarkDispatched(t, supported)
  \/ EndReplay(t)
  \/ \E u \in Task, s \in Sub, c \in Content : DeployOverdue(t, u, s, c)
  \/ \E s \in Sub : SkipOverdue(t, s)
  \/ EndReconcile(t)

Deploy(t) ==
  \E g \in Garden, subs \in SUBSET Sub, c \in Content, force \in BOOLEAN, o \in Overrides :
    StartDeploy(t, g, subs, c, force, o)

ServerAlone ==
  /\ \/ \E t \in Task : QuietTaskStep(t) \/ Deploy(t)
     \/ FinalizerStep
     \/ \E d \in Id : TimePasses(d)
  /\ UNCHANGED gvars

ServerToGarden ==
  \/ \E t \in Task : Dispatch(t) \/ Reconcile(t)
  \/ \E t \in Task, d \in Id : ReplayToGarden(t, d)
  \/ \E t \in Task, p, d \in Id, n \in 1..MaxRetries : Retry(t, p, d, n)
  \/ ServerCrash

GardenToServer ==
  \/ JoinTopic
  \/ \E d \in Id : ReceiveAck(d) \/ ReceiveUnknown(d)
  \/ \E d \in Id, r \in Results : ReceiveResult(d, r)

GardenAlone ==
  /\ \/ Handle
     \/ \E d \in Id : Run(d)
     \/ Restart \/ Disconnect \/ RequestReload \/ DaemonRestart
  /\ UNCHANGED vars

SystemNext == ServerAlone \/ ServerToGarden \/ GardenToServer \/ GardenAlone

SystemSpec == SystemInit /\ [][SystemNext]_allvars

-----------------------------------------------------------------------------
(* Properties *)

\* A deployment is recorded as completed only with a result that a run of it
\* on the garden really returned, whatever was lost, replayed, retried or
\* finalized in between.
CompletedTruth ==
  \A d \in Id : state[d] = "completed" => result[d] \in outcomes[d]
=============================================================================
