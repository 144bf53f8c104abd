------------------------ MODULE OrchestrationProofs ------------------------
(***************************************************************************)
(* The server of module Orchestration behaves as module Deployments        *)
(* allows and its garden as module GardenSocket allows, so what is proved  *)
(* of each with an arbitrary other side holds of the system.  On top of    *)
(* both: a completed deployment has a result that one of its runs          *)
(* returned.                                                               *)
(***************************************************************************)
EXTENDS Orchestration, DeploymentsProofs, GardenSocketProofs

\* A step of the records that records no result.
Unreported ==
  \/ ServerStep
  \/ \E d \in Id : RecordDeploymentStatus(d)
  \/ \E t \in Task : Reconnect(t)
  \/ UNCHANGED vars

\* Every step of the system receives a result or reports none.
LEMMA StepSplits ==
  [SystemNext]_allvars => Unreported \/ \E d \in Id, r \in Results : ReceiveResult(d, r)
<1> SUFFICES ASSUME [SystemNext]_allvars
             PROVE  Unreported \/ \E d \in Id, r \in Results : ReceiveResult(d, r)
  OBVIOUS
<1>1. ASSUME NEW t \in Task, QuietTaskStep(t) PROVE Unreported
  BY <1>1 DEF QuietTaskStep, TaskStep, Unreported, ServerStep
<1>2. ASSUME NEW t \in Task, Deploy(t) PROVE Unreported
  BY <1>2 DEF Deploy, Request, Unreported, ServerStep
<1>3. CASE ServerAlone
  BY <1>1, <1>2, <1>3 DEF ServerAlone, Unreported, ServerStep
<1>4. CASE ServerToGarden
  <2>1. ASSUME NEW t \in Task, Dispatch(t) PROVE Unreported
    BY <2>1 DEF Dispatch, TaskStep, Unreported, ServerStep
  <2>2. ASSUME NEW t \in Task, Reconcile(t) PROVE Unreported
    BY <2>2 DEF Reconcile, Unreported
  <2>3. ASSUME NEW t \in Task, NEW d \in Id, ReplayToGarden(t, d) PROVE Unreported
    BY <2>3 DEF ReplayToGarden, TaskStep, Unreported, ServerStep
  <2>4. ASSUME NEW t \in Task, NEW p \in Id, NEW d \in Id, NEW n \in 1..MaxRetries,
               Retry(t, p, d, n)
        PROVE  Unreported
    BY <2>4 DEF Retry, Request, Unreported, ServerStep
  <2>5. CASE ServerCrash
    BY <2>5 DEF ServerCrash, Unreported, ServerStep
  <2> QED BY <1>4, <2>1, <2>2, <2>3, <2>4, <2>5 DEF ServerToGarden
<1>5. CASE GardenToServer
  BY <1>5 DEF GardenToServer, JoinTopic, ReceiveAck, ReceiveUnknown, Unreported
<1>6. CASE GardenAlone
  BY <1>6 DEF GardenAlone, Unreported
<1>7. CASE UNCHANGED allvars
  BY <1>7 DEF allvars, Unreported
<1> QED BY <1>3, <1>4, <1>5, <1>6, <1>7 DEF SystemNext

\* Every step of the system is a server step or leaves the records alone.
LEMMA StepImplements == [SystemNext]_allvars => [Next]_vars
BY StepSplits, OrchestrationAssumption DEF Unreported, ReceiveResult, Next, GardenStep

\* Every behaviour of the server with a garden is one of the server with
\* arbitrary gardens.
THEOREM SystemImplements == SystemSpec => Spec
<1>1. SystemInit => Init
  BY DEF SystemInit
<1> QED BY <1>1, StepImplements, PTL DEF SystemSpec, Spec

-----------------------------------------------------------------------------
(* The garden *)

\* A task that is about to broadcast has created its row.
CreatedRow ==
  \A t \in Task : task[t].pc \in {"created", "cancel_stale"} => task[t].dep \in Id

LEMMA CreatedRowStep == TypeOK /\ CreatedRow /\ [Next]_vars => CreatedRow'
<1> SUFFICES ASSUME TypeOK, CreatedRow, [Next]_vars PROVE CreatedRow'
  OBVIOUS
<1>0. task \in [Task -> TaskRec]
  BY DEF TypeOK
<1>1. ASSUME UNCHANGED task PROVE CreatedRow'
  BY <1>1 DEF CreatedRow
<1>2. ASSUME NEW t \in Task, NEW x, task' = [task EXCEPT ![t] = x],
             x.pc \in {"created", "cancel_stale"} => x.dep \in Id
      PROVE  CreatedRow'
  BY <1>0, <1>2 DEF CreatedRow
<1>3. ASSUME NEW t \in Task, Finish(t) PROVE CreatedRow'
  <2>1. IdleTask.pc = "idle"
    BY DEF IdleTask
  <2> QED BY <1>2, <1>3, <2>1 DEF Finish
<1>4. ASSUME NEW t \in Task, NEW d \in Id, CreateDeployment(t, d) PROVE CreatedRow'
  <2> DEFINE x == [IdleTask EXCEPT !.pc = "created", !.dep = d, !.subs = task[t].subs]
  <2>1. x.dep = d
    BY DEF IdleTask
  <2> QED BY <1>2, <1>4, <2>1 DEF CreateDeployment
<1>5. ASSUME NEW t \in Task, ListStale(t) PROVE CreatedRow'
  <2> DEFINE S == {d \in Id : state[d] = "stale" /\ row[d].subs \cap task[t].subs # {}}
             x == [IdleTask EXCEPT !.pc = "cancel_stale", !.dep = task[t].dep, !.todo = S]
  <2>1. x.dep = task[t].dep
    BY DEF IdleTask
  <2>2. task[t].dep \in Id
    BY <1>5 DEF ListStale, CreatedRow
  <2>3. task' = [task EXCEPT ![t] = x]
    BY <1>5 DEF ListStale
  <2> HIDE DEF x
  <2> QED BY <1>2, <2>1, <2>2, <2>3
\* The other steps of a task keep its row or leave these two places.
<1>6. ASSUME NEW t \in Task, NEW d \in Id, CancelStale(t, d) \/ CancelSuperseded(t, d) \/ Replay(t, d)
      PROVE  CreatedRow'
  <2>1. \A u \in Task : task'[u].pc = task[u].pc /\ task'[u].dep = task[u].dep
    BY <1>0, <1>6 DEF CancelStale, CancelSuperseded, Replay, TaskRec
  <2> QED BY <2>1 DEF CreatedRow
<1>7. ASSUME NEW t \in Task, NEW s, MarkDispatched(t, s) PROVE CreatedRow'
  <2> DEFINE R == {d \in task[t].replay : s \/ ~row[d].override}
  <2>1. task' = [task EXCEPT ![t].pc = "replay", ![t].replay = R]
    BY <1>7 DEF MarkDispatched
  <2> HIDE DEF R
  <2>2. task'[t].pc = "replay" /\ \A u \in Task : u # t => task'[u] = task[u]
    BY <1>0, <2>1 DEF TaskRec
  <2> QED BY <2>2 DEF CreatedRow
<1>a. ASSUME NEW t \in Task, EndReplay(t) PROVE CreatedRow'
  <2>1. task'[t].pc = "overdue" /\ \A u \in Task : u # t => task'[u] = task[u]
    BY <1>0, <1>a DEF EndReplay, Goto, TaskRec
  <2> QED BY <2>1 DEF CreatedRow
<1>8. ASSUME NEW t \in Task, NEW s \in Sub, SkipOverdue(t, s) PROVE CreatedRow'
  <2>1. \A u \in Task : task'[u].pc = task[u].pc /\ task'[u].dep = task[u].dep
    BY <1>0, <1>8 DEF SkipOverdue, TaskRec
  <2> QED BY <2>1 DEF CreatedRow
<1>9. ASSUME NEW t \in Task, NEW u \in Task, NEW s \in Sub, NEW c \in Content,
             DeployOverdue(t, u, s, c)
      PROVE  CreatedRow'
  <2> DEFINE y == DeployTask(task[t].garden, {s}, c, FALSE)
  <2>1. y.pc = "create"
    BY DEF DeployTask, IdleTask
  <2>2. task' = [task EXCEPT ![t].subs = @ \ {s}, ![u] = y]
    BY <1>9 DEF DeployOverdue
  <2> HIDE DEF y
  <2>3. \A v \in Task : v # u => task'[v].pc = task[v].pc /\ task'[v].dep = task[v].dep
    BY <1>0, <2>2 DEF TaskRec
  <2>4. task'[u] = y
    BY <1>0, <2>2
  <2> QED BY <2>1, <2>3, <2>4 DEF CreatedRow
<1>10. ASSUME NEW t \in Task, TaskStep(t) PROVE CreatedRow'
  BY <1>3, <1>4, <1>5, <1>6, <1>7, <1>8, <1>9, <1>10, <1>a
  DEF TaskStep, BroadcastDeployment, CommitRetry, EndReconcile
<1>11. ASSUME NEW t \in Task, Request(t) PROVE CreatedRow'
  <2>1. ASSUME NEW g \in Garden, NEW subs \in SUBSET Sub, NEW c \in Content, NEW o,
               task' = [task EXCEPT ![t] = DeployTask(g, subs, c, o)]
        PROVE  CreatedRow'
    <3>1. DeployTask(g, subs, c, o).pc = "create"
      BY DEF DeployTask, IdleTask
    <3> QED BY <1>2, <2>1, <3>1
  <2>2. ASSUME NEW d \in Id,
               task' = [task EXCEPT ![t] = [IdleTask EXCEPT !.pc = "commit_retry", !.dep = d]]
        PROVE  CreatedRow'
    <3>1. [IdleTask EXCEPT !.pc = "commit_retry", !.dep = d].pc = "commit_retry"
      BY DEF IdleTask
    <3> QED BY <1>2, <2>2, <3>1
  <2> QED BY <1>11, <2>1, <2>2 DEF Request, StartDeploy, RetryDeployment
<1>12. ASSUME NEW t \in Task, Reconnect(t) PROVE CreatedRow'
  <2>1. PICK g \in Garden, overdue \in SUBSET Sub : StartReconcile(t, g, overdue)
    BY <1>12 DEF Reconnect
  <2>2. PICK S, R : task' = [task EXCEPT ![t] = [IdleTask EXCEPT !.pc = "supersede", !.garden = g,
                               !.subs = overdue, !.todo = S, !.replay = R]]
    BY <2>1 DEF StartReconcile
  <2>3. [IdleTask EXCEPT !.pc = "supersede", !.garden = g,
                         !.subs = overdue, !.todo = S, !.replay = R].pc = "supersede"
    BY DEF IdleTask
  <2> QED BY <1>2, <2>2, <2>3
<1>13. CASE Crash
  <2>1. \A t \in Task : task'[t].pc = "idle"
    BY <1>13 DEF Crash, IdleTask
  <2> QED BY <2>1 DEF CreatedRow
<1>14. CASE FinalizerStep \/ (\E d \in Id : TimePasses(d))
            \/ (\E d \in Id : RecordDeploymentStatus(d))
            \/ (\E d \in Id, r \in Reported : RecordDeployment(d, r)) \/ UNCHANGED vars
  <2>1. UNCHANGED task
    BY <1>14 DEF FinalizerStep, ListStaleBatch, ReadStale, FinalizeStale, TimePasses,
      RecordDeploymentStatus, RecordDeployment, vars
  <2> QED BY <1>1, <2>1
<1> QED BY <1>10, <1>11, <1>12, <1>13, <1>14 DEF Next, ServerStep, GardenStep

\* Every step of the system is a step of the garden or leaves it alone.
LEMMA StepImplementsGarden == CreatedRow /\ [SystemNext]_allvars => [GardenNext]_gvars
<1> SUFFICES ASSUME CreatedRow, [SystemNext]_allvars PROVE [GardenNext]_gvars
  OBVIOUS
<1>1. ASSUME NEW d \in Id, Broadcast(d) PROVE [GardenNext]_gvars
  BY <1>1 DEF Broadcast, GardenNext
<1>2. CASE ServerAlone
  BY <1>2 DEF ServerAlone
<1>3. ASSUME NEW t \in Task, Dispatch(t) PROVE [GardenNext]_gvars
  <2>1. task[t].dep \in Id
    BY <1>3 DEF Dispatch, BroadcastDeployment, CreatedRow
  <2> QED BY <1>1, <1>3, <2>1 DEF Dispatch
<1>4. CASE ServerCrash
  BY <1>4 DEF ServerCrash, GardenNext
<1>5. CASE ServerToGarden
  BY <1>1, <1>3, <1>4, <1>5 DEF ServerToGarden, Reconcile, ReplayToGarden, Retry
<1>6. CASE GardenToServer
  BY <1>6 DEF GardenToServer, JoinTopic, ReceiveAck, ReceiveResult, ReceiveUnknown, Incoming,
    GardenNext
<1>7. CASE GardenAlone
  BY <1>7 DEF GardenAlone, GardenNext
<1>8. CASE UNCHANGED allvars
  BY <1>8 DEF allvars
<1> QED BY <1>2, <1>5, <1>6, <1>7, <1>8 DEF SystemNext

\* Every behaviour of the garden with a server is one of the garden with an
\* arbitrary server, so what module GardenSocketProofs proves of it holds in
\* the system: ActiveAccounted, ResultsFromRuns, ReloadSparesEarlier.
THEOREM SystemImplementsGarden == SystemSpec => GardenSpec
<1>1. SystemInit => GardenInit /\ CreatedRow
  BY DEF SystemInit, Init, CreatedRow, IdleTask
<1>2. TypeOK /\ CreatedRow /\ [SystemNext]_allvars => CreatedRow'
  BY CreatedRowStep, StepImplements
<1>3. SystemSpec => []TypeOK
  BY SystemImplements, TypeCorrect, PTL
<1> QED BY <1>1, <1>2, <1>3, StepImplementsGarden, PTL DEF SystemSpec, GardenSpec

-----------------------------------------------------------------------------
(* A completed deployment ran *)

\* What the runs of a deployment have returned is kept.
LEMMA OutcomesGrow ==
  ASSUME GardenTypeOK, [GardenNext]_gvars
  PROVE  \A d \in Id : outcomes[d] \subseteq outcomes'[d]
<1>1. ASSUME NEW e \in Id, NEW r \in Results, FinishRun(e, r)
      PROVE  \A d \in Id : outcomes[d] \subseteq outcomes'[d]
  BY <1>1 DEF FinishRun, GardenTypeOK
<1>2. ASSUME UNCHANGED outcomes PROVE \A d \in Id : outcomes[d] \subseteq outcomes'[d]
  BY <1>2
<1>3. CASE Handle
  <2>1. UNCHANGED outcomes
    BY <1>3 DEF Handle, HandleJoin, HandleDisconnect, Report, HandleDeployment, RunDeployment,
      HandleSeed, DeploymentCompleted, NotFound, FailedPush, Dies, Reboot, CheckPendingReload
  <2> QED BY <1>2, <2>1
<1>4. CASE \E d \in Id : ReportSeed(d) \/ Frame(d)
  BY <1>2, <1>4 DEF ReportSeed, Frame
<1>5. CASE Restart \/ Join \/ Disconnect \/ Arrive \/ RequestReload \/ DaemonRestart \/ UNCHANGED gvars
  BY <1>2, <1>5 DEF Restart, Join, Disconnect, Arrive, RequestReload, DaemonRestart, Reboot, gvars
<1> QED BY <1>1, <1>3, <1>4, <1>5 DEF GardenNext, Run

\* No step but the record of a result completes a row or changes the result
\* of a completed one.
Unrecorded ==
  \A d \in Id : state'[d] = "completed" => state[d] = "completed" /\ result'[d] = result[d]

LEMMA UpdateUnrecorded ==
  ASSUME TypeOK, NEW d \in Id, NEW s, s # "completed", NEW r, UpdateDeployment(d, s, r)
  PROVE  Unrecorded
<1>1. CASE Reopens(d, s)
  BY <1>1 DEF UpdateDeployment, Unrecorded
<1>2. CASE ~Reopens(d, s)
  BY <1>2 DEF UpdateDeployment, Unrecorded, TypeOK
<1> QED BY <1>1, <1>2

LEMMA OthersUnrecorded ==
  ASSUME Inv, Unreported
  PROVE  Unrecorded
<1>0. TypeOK /\ OpenTransactions
  BY DEF Inv
<1>1. ASSUME UNCHANGED <<state, result>> PROVE Unrecorded
  BY <1>1 DEF Unrecorded
<1>2. ASSUME result' = result, NEW d \in Id, NEW s, s # "completed", state' = [state EXCEPT ![d] = s]
      PROVE  Unrecorded
  BY <1>0, <1>2 DEF Unrecorded, TypeOK
<1>3. ASSUME NEW t \in Task, TaskStep(t) PROVE Unrecorded
  <2>1. ASSUME NEW d \in Id, CreateDeployment(t, d) PROVE Unrecorded
    BY <1>2, <2>1 DEF CreateDeployment
  <2>2. ASSUME NEW d \in Id, CancelStale(t, d) \/ CancelSuperseded(t, d) PROVE Unrecorded
    BY <1>0, <2>2, UpdateUnrecorded DEF CancelStale, CancelSuperseded
  <2>3. CASE CommitRetry(t)
    <3>1. task[t].dep \in Id
      BY <1>0, <2>3 DEF CommitRetry, OpenTransactions
    <3> QED BY <1>2, <2>3, <3>1 DEF CommitRetry
  <2>4. ASSUME NEW s, MarkDispatched(t, s) PROVE Unrecorded
    <3>1. /\ result' = result
          /\ \A d \in Id : state'[d] = "dispatched" \/ state'[d] = state[d]
      BY <2>4 DEF MarkDispatched
    <3> QED BY <3>1 DEF Unrecorded
  <2>5. CASE ListStale(t) \/ BroadcastDeployment(t) \/ EndReplay(t) \/ EndReconcile(t)
             \/ \E d \in Id : Replay(t, d)
    BY <1>1, <2>5 DEF ListStale, BroadcastDeployment, EndReplay, EndReconcile, Replay
  <2>6. CASE \/ \E u \in Task, s \in Sub, c \in Content : DeployOverdue(t, u, s, c)
             \/ \E s \in Sub : SkipOverdue(t, s)
    BY <1>1, <2>6 DEF DeployOverdue, SkipOverdue
  <2> QED BY <1>3, <2>1, <2>2, <2>3, <2>4, <2>5, <2>6 DEF TaskStep
<1>4. ASSUME NEW t \in Task, Request(t) \/ Reconnect(t) PROVE Unrecorded
  <2>1. ASSUME NEW p \in Id, NEW d \in Id, NEW n \in 1..MaxRetries, RetryDeployment(t, p, d, n)
        PROVE  Unrecorded
    BY <1>2, <2>1 DEF RetryDeployment
  <2> QED BY <1>1, <1>4, <2>1 DEF Request, StartDeploy, Reconnect, StartReconcile
<1>5. CASE FinalizerStep
  <2>1. CASE FinalizeStale
    BY <1>0, <2>1, UpdateUnrecorded DEF FinalizeStale
  <2> QED BY <1>1, <1>5, <2>1 DEF FinalizerStep, ListStaleBatch, ReadStale
<1>6. CASE Crash
  <2>1. result' = result /\ \A d \in Id : state'[d] = "rolledback" \/ state'[d] = state[d]
    BY <1>6 DEF Crash
  <2> QED BY <2>1 DEF Unrecorded
<1>7. CASE (\E d \in Id : TimePasses(d)) \/ UNCHANGED vars
  BY <1>1, <1>7 DEF TimePasses, vars
<1>8. ASSUME NEW d \in Id, RecordDeploymentStatus(d) PROVE Unrecorded
  BY <1>0, <1>8, UpdateUnrecorded DEF RecordDeploymentStatus
<1> QED BY <1>3, <1>4, <1>5, <1>6, <1>7, <1>8 DEF Unreported, ServerStep

LEMMA CompletedTruthStep ==
  ASSUME Inv, GardenTypeOK, GardenInv, CreatedRow, CompletedTruth, [SystemNext]_allvars
  PROVE  CompletedTruth'
<1>1. \A d \in Id : outcomes[d] \subseteq outcomes'[d]
  BY StepImplementsGarden, OutcomesGrow
<1>2. ASSUME Unrecorded PROVE CompletedTruth'
  BY <1>1, <1>2 DEF Unrecorded, CompletedTruth
<1>3. ASSUME NEW d \in Id, NEW r \in Results, ReceiveResult(d, r) PROVE CompletedTruth'
  <2>1. up # <<>> /\ Head(up) = Outcome("result", d, r) /\ RecordDeployment(d, r)
    BY <1>3 DEF ReceiveResult, Incoming
  <2>2. Head(up) \in ToSet(up)
    BY <2>1, ToSetTail DEF GardenTypeOK
  <2>3. PushFine(Head(up))
    BY <2>2, FineEverywhere DEF GardenInv
  <2>4. r \in outcomes[d]
    BY <2>1, <2>3, Messages DEF PushFine
  <2>5. ~Reopens(d, "completed")
    BY DEF Reopens, Unresolved
  <2>6. /\ state' = [state EXCEPT ![d] = "completed"]
        /\ result' = [result EXCEPT ![d] = r]
    BY <2>1, <2>5 DEF RecordDeployment, UpdateDeployment
  <2>7. \A e \in Id : IF e = d THEN result'[e] = r ELSE state'[e] = state[e] /\ result'[e] = result[e]
    BY <2>6 DEF Inv, TypeOK
  <2> QED BY <1>1, <2>4, <2>7 DEF CompletedTruth
<1> QED BY <1>2, <1>3, StepSplits, OthersUnrecorded

\* A deployment is recorded as completed only with a result that a run of it
\* on the garden returned: for any number of deployments, tasks, joins, lost
\* and repeated messages, restarts of the garden's process and of the server.
THEOREM SystemCompletedTruth == SystemSpec => []CompletedTruth
<1>1. SystemInit => CompletedTruth /\ CreatedRow
  BY DEF SystemInit, Init, CompletedTruth, CreatedRow, IdleTask
<1>2. SystemSpec => []Inv
  BY SystemImplements, InvHolds, PTL
<1>3. SystemSpec => [](GardenTypeOK /\ GardenInv)
  BY SystemImplementsGarden, GardenInvariant, PTL
<1>4. Inv /\ CreatedRow /\ [SystemNext]_allvars => CreatedRow'
  BY CreatedRowStep, StepImplements DEF Inv
<1>5. Inv /\ GardenTypeOK /\ GardenInv /\ CreatedRow /\ CompletedTruth /\ [SystemNext]_allvars
        => CompletedTruth'
  BY CompletedTruthStep
<1> QED BY <1>1, <1>2, <1>3, <1>4, <1>5, PTL DEF SystemSpec
=============================================================================
