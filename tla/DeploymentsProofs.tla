------------------------- MODULE DeploymentsProofs -------------------------
(***************************************************************************)
(* Proofs about the server's deployment records, for any number of         *)
(* gardens, rows and tasks and any bounds.                                 *)
(*                                                                         *)
(* ResultIffTerminal needs StaleListed (cancel_stale_for_subscriptions     *)
(* writes no result), OneOpenRetry and DistinctOrdinals need               *)
(* OpenTransactions (the parent's lock protects the check), so Inv is      *)
(* their conjunction.  Most steps only let rows settle (RowsSettle): an    *)
(* unresolved row may become terminal, a terminal one stays so, and no row *)
(* appears.  The two steps that insert a row are treated on their own.     *)
(***************************************************************************)
EXTENDS Deployments, TLAPS

\* The default records are well typed.
LEMMA DefaultsType ==
  /\ IdleTask \in TaskRec
  /\ NoRow \in Row
  /\ IdleFinalizer \in FinalizerRec
<1>1. AnyGarden \in Garden /\ AnyContent \in Content
  BY ConstantsAssumption DEF AnyGarden, AnyContent
<1> QED
  BY <1>1, ConstantsAssumption
  DEF IdleTask, TaskRec, NoRow, Row, IdleFinalizer, FinalizerRec

\* update_deployment keeps the columns it writes well typed.
LEMMA UpdateType ==
  ASSUME TypeOK, NEW d \in Id, NEW s \in Visible,
         NEW r \in Reported \cup {"none"}, UpdateDeployment(d, s, r)
  PROVE  /\ state' \in [Id -> Visible \cup Invisible]
         /\ result' \in [Id -> Reported \cup {"none"}]
BY DEF TypeOK, UpdateDeployment

\* The changes that steps make to a task record keep it one.
LEMMA TaskUpdates ==
  ASSUME NEW r \in TaskRec, NEW S \in SUBSET Id, NEW P \in SUBSET Sub
  PROVE  /\ [r EXCEPT !.todo = S] \in TaskRec
         /\ [r EXCEPT !.replay = S] \in TaskRec
         /\ [r EXCEPT !.subs = P] \in TaskRec
         /\ [r EXCEPT !.pc = "overdue"] \in TaskRec
         /\ [r EXCEPT !.pc = "replay", !.replay = S] \in TaskRec
BY DEF TaskRec

\* Every step preserves the type invariant.
LEMMA TypeStep == TypeOK /\ [Next]_vars => TypeOK'
<1> SUFFICES ASSUME TypeOK, [Next]_vars PROVE TypeOK'
  OBVIOUS
<1> USE ConstantsAssumption
<1>1. ASSUME NEW t \in Task, NEW d \in Id, CreateDeployment(t, d) PROVE TypeOK'
  <2>1. task[t] \in TaskRec /\ IdleTask \in TaskRec
    BY DefaultsType DEF TypeOK
  <2>2. row' \in [Id -> Row]
    BY <1>1, <2>1 DEF TypeOK, CreateDeployment, NewRow, Row, TaskRec
  <2>3. task' \in [Task -> TaskRec]
    BY <1>1, <2>1 DEF TypeOK, CreateDeployment, TaskRec
  <2> QED
    BY <1>1, <2>2, <2>3 DEF TypeOK, CreateDeployment, Visible, Unresolved
<1>2. ASSUME NEW t \in Task, ListStale(t) PROVE TypeOK'
  <2>1. task' \in [Task -> TaskRec]
    BY <1>2, DefaultsType DEF TypeOK, ListStale, TaskRec
  <2> QED BY <1>2, <2>1 DEF TypeOK, ListStale
<1>3. ASSUME NEW t \in Task, NEW d \in Id, CancelStale(t, d) PROVE TypeOK'
  <2>1. task' \in [Task -> TaskRec]
    <3>1. task[t] \in TaskRec /\ task[t].todo \ {d} \in SUBSET Id
      BY DEF TypeOK, TaskRec
    <3>2. [task[t] EXCEPT !.todo = task[t].todo \ {d}] \in TaskRec
      BY <3>1, TaskUpdates
    <3> QED BY <1>3, <3>2 DEF TypeOK, CancelStale
  <2>2. result[d] \in Reported \cup {"none"}
    BY DEF TypeOK
  <2> QED BY <1>3, <2>1, <2>2, UpdateType DEF TypeOK, CancelStale, Visible, Terminal
<1>4. ASSUME NEW t \in Task, BroadcastDeployment(t) PROVE TypeOK'
  BY <1>4, DefaultsType DEF TypeOK, BroadcastDeployment, Finish
<1>5. ASSUME NEW t \in Task, CommitRetry(t) PROVE TypeOK'
  BY <1>5, DefaultsType DEF TypeOK, CommitRetry, Finish, Visible, Unresolved
<1>6. ASSUME NEW t \in Task, NEW d \in Id, CancelSuperseded(t, d) PROVE TypeOK'
  <2>1. task' \in [Task -> TaskRec]
    <3>1. task[t] \in TaskRec /\ task[t].todo \ {d} \in SUBSET Id
      BY DEF TypeOK, TaskRec
    <3>2. [task[t] EXCEPT !.todo = task[t].todo \ {d}] \in TaskRec
      BY <3>1, TaskUpdates
    <3> QED BY <1>6, <3>2 DEF TypeOK, CancelSuperseded
  <2> QED BY <1>6, <2>1, UpdateType DEF TypeOK, CancelSuperseded, Visible, Terminal, Reported
<1>7. ASSUME NEW t \in Task, NEW supported \in BOOLEAN, MarkDispatched(t, supported)
      PROVE  TypeOK'
  <2>1. task' \in [Task -> TaskRec]
    <3> DEFINE replay == {d \in task[t].replay : supported \/ ~row[d].override}
    <3>1. task[t] \in TaskRec /\ replay \in SUBSET Id
      BY DEF TypeOK, TaskRec
    <3>2. [task[t] EXCEPT !.pc = "replay", !.replay = replay] \in TaskRec
      BY <3>1, TaskUpdates
    <3>3. task' = [task EXCEPT ![t] = [task[t] EXCEPT !.pc = "replay", !.replay = replay]]
      BY <1>7 DEF TypeOK, MarkDispatched
    <3> QED BY <3>2, <3>3 DEF TypeOK
  <2> QED BY <1>7, <2>1 DEF TypeOK, MarkDispatched, Visible, Unresolved
<1>8. ASSUME NEW t \in Task, NEW d \in Id, Replay(t, d) PROVE TypeOK'
  <2>1. task' \in [Task -> TaskRec]
    <3>1. task[t] \in TaskRec /\ task[t].replay \ {d} \in SUBSET Id
      BY DEF TypeOK, TaskRec
    <3>2. [task[t] EXCEPT !.replay = task[t].replay \ {d}] \in TaskRec
      BY <3>1, TaskUpdates
    <3> QED BY <1>8, <3>2 DEF TypeOK, Replay
  <2> QED BY <1>8, <2>1 DEF TypeOK, Replay
<1>9. ASSUME NEW t \in Task, EndReplay(t) PROVE TypeOK'
  <2>1. task' \in [Task -> TaskRec]
    <3>1. task[t] \in TaskRec
      BY DEF TypeOK
    <3>2. [task[t] EXCEPT !.pc = "overdue"] \in TaskRec
      BY <3>1, TaskUpdates
    <3> QED BY <1>9, <3>2 DEF TypeOK, EndReplay, Goto
  <2> QED BY <1>9, <2>1 DEF TypeOK, EndReplay
<1>10. ASSUME NEW t \in Task, NEW u \in Task, NEW s \in Sub, NEW c \in Content,
              DeployOverdue(t, u, s, c)
       PROVE  TypeOK'
  <2>1. DeployTask(task[t].garden, {s}, c, FALSE) \in TaskRec
    BY DefaultsType DEF TypeOK, DeployTask, TaskRec
  <2>2. task' \in [Task -> TaskRec]
    <3>1. task[t] \in TaskRec /\ task[t].subs \ {s} \in SUBSET Sub
      BY DEF TypeOK, TaskRec
    <3>2. [task[t] EXCEPT !.subs = task[t].subs \ {s}] \in TaskRec
      BY <3>1, TaskUpdates
    <3> QED BY <1>10, <2>1, <3>2 DEF TypeOK, DeployOverdue
  <2> QED BY <1>10, <2>2 DEF TypeOK, DeployOverdue
<1>11. ASSUME NEW t \in Task, NEW s \in Sub, SkipOverdue(t, s) PROVE TypeOK'
  <2>1. task' \in [Task -> TaskRec]
    <3>1. task[t] \in TaskRec /\ task[t].subs \ {s} \in SUBSET Sub
      BY DEF TypeOK, TaskRec
    <3>2. [task[t] EXCEPT !.subs = task[t].subs \ {s}] \in TaskRec
      BY <3>1, TaskUpdates
    <3> QED BY <1>11, <3>2 DEF TypeOK, SkipOverdue
  <2> QED BY <1>11, <2>1 DEF TypeOK, SkipOverdue
<1>12. ASSUME NEW t \in Task, EndReconcile(t) PROVE TypeOK'
  BY <1>12, DefaultsType DEF TypeOK, EndReconcile, Finish
<1>13. ASSUME NEW t \in Task, NEW g \in Garden, NEW subs \in SUBSET Sub, NEW c \in Content,
              NEW force \in BOOLEAN, NEW o \in Overrides, StartDeploy(t, g, subs, c, force, o)
       PROVE  TypeOK'
  <2>1. DeployTask(g, subs, c, o) \in TaskRec
    BY DefaultsType DEF DeployTask, TaskRec
  <2> QED BY <1>13, <2>1 DEF TypeOK, StartDeploy
<1>14. ASSUME NEW t \in Task, NEW p \in Id, NEW d \in Id, NEW n \in 1..MaxRetries,
              RetryDeployment(t, p, d, n)
       PROVE  TypeOK'
  <2>1. row' \in [Id -> Row]
    BY <1>14 DEF TypeOK, RetryDeployment, NewRow, Row
  <2>2. [IdleTask EXCEPT !.pc = "commit_retry", !.dep = d] \in TaskRec
    BY DefaultsType DEF TaskRec
  <2> QED BY <1>14, <2>1, <2>2 DEF TypeOK, RetryDeployment, Invisible
<1>15. ASSUME NEW t \in Task, NEW g \in Garden, NEW overdue \in SUBSET Sub,
              StartReconcile(t, g, overdue)
       PROVE  TypeOK'
  <2>1. task' \in [Task -> TaskRec]
    BY <1>15, DefaultsType DEF TypeOK, StartReconcile, TaskRec
  <2> QED BY <1>15, <2>1 DEF TypeOK, StartReconcile
<1>16. ASSUME FinalizerStep PROVE TypeOK'
  BY <1>16, UpdateType
  DEF TypeOK, FinalizerStep, ListStaleBatch, ReadStale, FinalizeStale, FinalizerRec,
      StaleRows, Visible, Terminal, Reported
<1>17. ASSUME NEW d \in Id, TimePasses(d) PROVE TypeOK'
  BY <1>17 DEF TypeOK, TimePasses
<1>18. ASSUME Crash PROVE TypeOK'
  BY <1>18, DefaultsType DEF TypeOK, Crash, Invisible
<1>19. ASSUME NEW d \in Id, RecordDeploymentStatus(d) PROVE TypeOK'
  <2>1. result[d] \in Reported \cup {"none"}
    BY DEF TypeOK
  <2> QED BY <1>19, <2>1, UpdateType DEF TypeOK, RecordDeploymentStatus, Visible, Unresolved
<1>20. ASSUME NEW d \in Id, NEW r \in Reported, RecordDeployment(d, r) PROVE TypeOK'
  BY <1>20, UpdateType DEF TypeOK, RecordDeployment, Visible, Terminal
<1>21. CASE UNCHANGED vars
  BY <1>21 DEF TypeOK, vars
<1> QED
  BY <1>1, <1>2, <1>3, <1>4, <1>5, <1>6, <1>7, <1>8, <1>9, <1>10, <1>11, <1>12, <1>13,
     <1>14, <1>15, <1>16, <1>17, <1>18, <1>19, <1>20, <1>21
  DEF Next, ServerStep, GardenStep, TaskStep, Request, Reconnect

\* Rows, tasks and the finalizer are well typed in every reachable state, for
\* any sets of gardens, subscriptions, rows and tasks and any bounds.
THEOREM TypeCorrect == Spec => []TypeOK
<1>1. Init => TypeOK
  BY ConstantsAssumption, DefaultsType DEF Init, TypeOK, Invisible
<1> QED BY <1>1, TypeStep, PTL DEF Spec
-----------------------------------------------------------------------------
(* Steps that insert no row *)

Live == Visible \cup {"uncommitted"}

\* What every step does except those that insert a row: rows keep their
\* columns, resolved ones stay resolved, and nothing opens or reappears.
RowsSettle ==
  /\ row' = row
  /\ \A e \in Id : /\ state[e] \in Terminal => state'[e] \in Terminal
                   /\ state'[e] \in Open => state[e] \in Open
                   /\ state'[e] \in Live => state[e] \in Live

\* No transaction begins or ends.
TransactionsKept ==
  /\ \A t \in Task : /\ task'[t].pc = "commit_retry" <=> task[t].pc = "commit_retry"
                     /\ task[t].pc = "commit_retry" => task'[t].dep = task[t].dep
  /\ \A d \in Id : state'[d] = "uncommitted" <=> state[d] = "uncommitted"

\* The conjuncts of the invariant that do not look at retries.
RecordsOK == ResultIffTerminal /\ AuditTruth /\ StaleListed

\* Rows that only settle keep the retries exclusive and their ordinals apart.
LEMMA RetriesSettle ==
  ASSUME OneOpenRetry, DistinctOrdinals, RowsSettle
  PROVE  OneOpenRetry' /\ DistinctOrdinals'
<1>1. \A p \in Id : Retries(p)' \subseteq Retries(p)
  BY DEF RowsSettle, Retries, Children, Live
<1>2. \A p \in Id : Retries(p) \subseteq Id
  BY DEF Retries, Children
<1>3. OneOpenRetry'
  BY <1>1, <1>2 DEF OneOpenRetry, RowsSettle
<1>4. DistinctOrdinals'
  BY <1>1, <1>2 DEF DistinctOrdinals, RowsSettle
<1> QED BY <1>3, <1>4

\* Open transactions stay paired with their rows when neither changes.
LEMMA TransactionsSettle ==
  ASSUME OpenTransactions, TransactionsKept
  PROVE  OpenTransactions'
BY DEF OpenTransactions, TransactionsKept

\* A step that leaves the rows alone and begins or ends no transaction.
LEMMA RowsUntouched ==
  ASSUME Inv, UNCHANGED <<state, result, row, audit>>,
         \A t \in Task : /\ task'[t].pc = "commit_retry" <=> task[t].pc = "commit_retry"
                         /\ task[t].pc = "commit_retry" => task'[t].dep = task[t].dep
                         /\ task'[t].pc = "cancel_stale"
                              => \A d \in task'[t].todo : state[d] \in Terminal
  PROVE  RowsSettle /\ TransactionsKept /\ RecordsOK'
BY DEF Inv, RowsSettle, TransactionsKept, RecordsOK, ResultIffTerminal, AuditTruth, StaleListed

\* update_deployment to a terminal state with a result, or to "acknowledged"
\* with the result the row has.
LEMMA RowUpdated ==
  ASSUME Inv, NEW d \in Id, NEW s, NEW r, UpdateDeployment(d, s, r),
         \/ s \in Terminal /\ r \in Reported
         \/ s \in Unresolved /\ r = result[d],
         row' = row,
         audit' = audit \/ (s \in Terminal /\ audit' = audit \cup {d}),
         \A t \in Task : /\ task'[t].pc = task[t].pc
                         /\ task'[t].dep = task[t].dep
                         /\ task'[t].todo \subseteq task[t].todo
  PROVE  RowsSettle /\ TransactionsKept /\ RecordsOK'
<1> USE DEF Inv
<1>1. \A e \in Id : e # d => state'[e] = state[e] /\ result'[e] = result[e]
  BY DEF UpdateDeployment, TypeOK
<1>2. \/ state'[d] = s /\ result'[d] = r /\ ~Reopens(d, s)
      \/ state'[d] = state[d] /\ result'[d] = result[d] /\ Reopens(d, s)
  BY DEF UpdateDeployment, TypeOK
<1>3. state[d] \in Visible
  BY DEF UpdateDeployment
<1>4. RowsSettle
  BY <1>1, <1>2, <1>3
  DEF RowsSettle, Reopens, Visible, Unresolved, Terminal, Open, Live
<1>5. TransactionsKept
  BY <1>1, <1>2, <1>3
  DEF TransactionsKept, Reopens, Visible, Unresolved, Terminal
<1>6. ResultIffTerminal'
  BY <1>1, <1>2, <1>3
  DEF ResultIffTerminal, Reopens, Visible, Unresolved, Terminal, Reported
<1>7. AuditTruth'
  BY <1>1, <1>2, <1>4 DEF AuditTruth, RowsSettle, Reopens, Unresolved, Terminal, TypeOK
<1>8. StaleListed'
  <2> SUFFICES ASSUME NEW t \in Task, task'[t].pc = "cancel_stale", NEW e \in task'[t].todo
               PROVE  state'[e] \in Terminal
    BY DEF StaleListed
  <2>1. e \in task[t].todo /\ task[t].pc = "cancel_stale" /\ task[t].todo \subseteq Id
    BY DEF TypeOK, TaskRec
  <2> QED BY <2>1, <1>4 DEF StaleListed, RowsSettle
<1> QED BY <1>4, <1>5, <1>6, <1>7, <1>8 DEF RecordsOK

\* The steps of tasks that insert no row preserve the invariant.
LEMMA TaskStepSettles ==
  ASSUME Inv, NEW t \in Task, TaskStep(t), ~ \E d \in Id : CreateDeployment(t, d)
  PROVE  RowsSettle /\ OpenTransactions' /\ RecordsOK'
<1> DEFINE Goal == RowsSettle /\ OpenTransactions' /\ RecordsOK'
<1> USE TransactionsSettle
<1>0. /\ \A u \in Task : task[u] \in TaskRec
      /\ OpenTransactions /\ StaleListed /\ TypeOK
      /\ IdleTask.pc = "idle"
  BY DEF Inv, TypeOK, IdleTask
<1>1. CASE ListStale(t)
  <2>1. task' = [task EXCEPT ![t] = task'[t]] /\ task'[t].pc = "cancel_stale"
    BY <1>1, <1>0 DEF ListStale, TypeOK, TaskRec, IdleTask
  <2>2. \A d \in task'[t].todo : state[d] \in Terminal
    BY <1>1, <1>0 DEF ListStale, TypeOK, TaskRec, IdleTask, Terminal
  <2> QED BY <1>0, <1>1, <2>1, <2>2, RowsUntouched DEF ListStale, TypeOK, StaleListed
<1>2. ASSUME NEW d \in Id, CancelStale(t, d) PROVE Goal
  <2>1. state[d] \in Terminal
    BY <1>2, <1>0 DEF CancelStale, StaleListed
  <2>2. result[d] \in Reported
    BY <2>1 DEF Inv, ResultIffTerminal, TypeOK
  <2>3. \A u \in Task : /\ task'[u].pc = task[u].pc
                        /\ task'[u].dep = task[u].dep
                        /\ task'[u].todo \subseteq task[u].todo
    BY <1>2, <1>0 DEF CancelStale, TypeOK, TaskRec
  <2> QED BY <1>0, <1>2, <2>2, <2>3, RowUpdated DEF CancelStale, Terminal
<1>3. CASE BroadcastDeployment(t)
  BY <1>0, <1>3, RowsUntouched DEF BroadcastDeployment, Finish, TypeOK, StaleListed
<1>4. CASE CommitRetry(t)
  <2>1. task[t].dep \in Id /\ state[task[t].dep] = "uncommitted"
    BY <1>0, <1>4 DEF CommitRetry, OpenTransactions
  <2>2. RowsSettle
    BY <1>0, <1>4, <2>1
    DEF CommitRetry, RowsSettle, TypeOK, Live, Open, Visible, Unresolved, Terminal
  <2>3. OpenTransactions'
    BY <1>0, <1>4, <2>1 DEF CommitRetry, Finish, OpenTransactions, TypeOK
  <2>4. RecordsOK'
    <3>1. ResultIffTerminal'
      BY <1>0, <1>4, <2>1 DEF CommitRetry, Inv, ResultIffTerminal, TypeOK, Terminal
    <3>2. AuditTruth'
      BY <1>0, <1>4, <2>2 DEF CommitRetry, Inv, AuditTruth, TypeOK, RowsSettle
    <3>3. StaleListed'
      BY <1>0, <1>4, <2>2 DEF CommitRetry, Finish, StaleListed, TypeOK, TaskRec, RowsSettle
    <3> QED BY <3>1, <3>2, <3>3 DEF RecordsOK
  <2> QED BY <2>2, <2>3, <2>4
<1>5. ASSUME NEW d \in Id, CancelSuperseded(t, d) PROVE Goal
  <2>1. \A u \in Task : /\ task'[u].pc = task[u].pc
                        /\ task'[u].dep = task[u].dep
                        /\ task'[u].todo \subseteq task[u].todo
    BY <1>5, <1>0 DEF CancelSuperseded, TypeOK, TaskRec
  <2> QED BY <1>0, <1>5, <2>1, RowUpdated DEF CancelSuperseded, Terminal, Reported
<1>6. ASSUME NEW supported \in BOOLEAN, MarkDispatched(t, supported) PROVE Goal
  <2>1. \A e \in Id : state'[e] = state[e] \/ (state[e] \in Unresolved /\ state'[e] = "dispatched")
    BY <1>6 DEF MarkDispatched
  <2>2. \A u \in Task : u # t => task'[u] = task[u]
    BY <1>6, <1>0 DEF MarkDispatched, TypeOK
  <2>3. task'[t].pc = "replay" /\ task[t].pc = "supersede"
    BY <1>6, <1>0 DEF MarkDispatched, TypeOK, TaskRec
  <2>4. RowsSettle
    BY <1>6, <2>1 DEF MarkDispatched, RowsSettle, Live, Open, Visible, Unresolved, Terminal
  <2>5. TransactionsKept
    BY <2>1, <2>2, <2>3 DEF TransactionsKept, Unresolved
  <2>6. ResultIffTerminal'
    BY <1>6, <2>1 DEF MarkDispatched, Inv, ResultIffTerminal, Unresolved, Terminal
  <2>7. AuditTruth'
    BY <1>0, <1>6, <2>4 DEF MarkDispatched, Inv, AuditTruth, TypeOK, RowsSettle
  <2>8. StaleListed'
    BY <1>0, <2>2, <2>3, <2>4 DEF StaleListed, TaskRec, RowsSettle
  <2> QED BY <1>0, <2>4, <2>5, <2>6, <2>7, <2>8 DEF RecordsOK
<1>7. ASSUME NEW d \in Id, Replay(t, d) PROVE Goal
  <2>1. \A u \in Task : task'[u].pc = task[u].pc /\ task'[u].dep = task[u].dep
                        /\ task'[u].todo = task[u].todo
    BY <1>7, <1>0 DEF Replay, TypeOK, TaskRec
  <2> QED BY <1>0, <1>7, <2>1, RowsUntouched DEF Replay, StaleListed
<1>8. CASE EndReplay(t)
  <2>1. \A u \in Task : u # t => task'[u] = task[u]
    BY <1>8, <1>0 DEF EndReplay, Goto, TypeOK
  <2>2. task'[t].pc = "overdue" /\ task[t].pc = "replay"
    BY <1>8, <1>0 DEF EndReplay, Goto, TypeOK, TaskRec
  <2> QED BY <1>0, <1>8, <2>1, <2>2, RowsUntouched DEF EndReplay, StaleListed
<1>9. ASSUME NEW u \in Task, NEW s \in Sub, NEW c \in Content, DeployOverdue(t, u, s, c)
      PROVE  Goal
  <2>1. DeployTask(task[t].garden, {s}, c, FALSE).pc = "create"
    BY DEF DeployTask, IdleTask
  <2>2. task[t].pc = "overdue" /\ task[u].pc = "idle" /\ t # u
    BY <1>9 DEF DeployOverdue
  <2>3. task'[t].pc = "overdue" /\ task'[u].pc = "create"
    BY <1>9, <1>0, <2>1, <2>2 DEF DeployOverdue, TypeOK, TaskRec
  <2>4. \A v \in Task : v # t /\ v # u => task'[v] = task[v]
    BY <1>9, <1>0 DEF DeployOverdue, TypeOK
  <2> QED BY <1>0, <1>9, <2>2, <2>3, <2>4, RowsUntouched DEF DeployOverdue, StaleListed
<1>10. ASSUME NEW s \in Sub, SkipOverdue(t, s) PROVE Goal
  <2>1. \A u \in Task : task'[u].pc = task[u].pc /\ task'[u].dep = task[u].dep
                        /\ task'[u].todo = task[u].todo
    BY <1>10, <1>0 DEF SkipOverdue, TypeOK, TaskRec
  <2> QED BY <1>0, <1>10, <2>1, RowsUntouched DEF SkipOverdue, StaleListed
<1>11. CASE EndReconcile(t)
  BY <1>0, <1>11, RowsUntouched DEF EndReconcile, Finish, TypeOK, StaleListed
<1> QED
  BY <1>1, <1>2, <1>3, <1>4, <1>5, <1>6, <1>7, <1>8, <1>9, <1>10, <1>11 DEF TaskStep

\* Steps of the finalizer, of the gardens and of the callers that start a
\* task, and the crash.
OtherStep ==
  \/ FinalizerStep
  \/ \E d \in Id : TimePasses(d)
  \/ Crash
  \/ GardenStep
  \/ \E t \in Task, g \in Garden, subs \in SUBSET Sub, c \in Content,
        force \in BOOLEAN, o \in Overrides : StartDeploy(t, g, subs, c, force, o)
  \/ UNCHANGED vars

\* So do the finalizer, the channel handlers, the clock and crashes.
LEMMA OtherStepSettles ==
  ASSUME Inv, OtherStep
  PROVE  RowsSettle /\ OpenTransactions' /\ RecordsOK'
<1> DEFINE Goal == RowsSettle /\ OpenTransactions' /\ RecordsOK'
<1> USE TransactionsSettle
<1>0. /\ \A u \in Task : task[u] \in TaskRec
      /\ OpenTransactions /\ StaleListed /\ TypeOK
      /\ IdleTask.pc = "idle"
  BY DEF Inv, TypeOK, IdleTask
<1>1. ASSUME UNCHANGED <<state, result, row, audit, task>> PROVE Goal
  BY <1>0, <1>1, RowsUntouched DEF StaleListed
<1>2. CASE FinalizeStale
  BY <1>0, <1>2, RowUpdated DEF FinalizeStale, Terminal, Reported
<1>3. ASSUME NEW d \in Id, RecordDeploymentStatus(d) PROVE Goal
  BY <1>0, <1>3, RowUpdated DEF RecordDeploymentStatus, Unresolved
<1>4. ASSUME NEW d \in Id, NEW r \in Reported, RecordDeployment(d, r) PROVE Goal
  BY <1>0, <1>4, RowUpdated DEF RecordDeployment, Terminal
<1>5. CASE Crash
  <2>1. \A e \in Id : state'[e] = IF state[e] = "uncommitted" THEN "rolledback" ELSE state[e]
    BY <1>5 DEF Crash
  <2>2. \A t \in Task : task'[t].pc = "idle"
    BY <1>0, <1>5 DEF Crash
  <2>3. RowsSettle
    BY <1>5, <2>1 DEF Crash, RowsSettle, Live, Open, Visible, Unresolved, Terminal
  <2>4. OpenTransactions'
    BY <2>1, <2>2 DEF OpenTransactions
  <2>5. ResultIffTerminal'
    BY <1>5, <2>1 DEF Crash, Inv, ResultIffTerminal, Terminal
  <2>6. AuditTruth'
    BY <1>0, <1>5, <2>3 DEF Crash, Inv, AuditTruth, TypeOK, RowsSettle
  <2>7. StaleListed'
    BY <2>2 DEF StaleListed
  <2> QED BY <2>3, <2>4, <2>5, <2>6, <2>7 DEF RecordsOK
<1>6. ASSUME NEW t \in Task, NEW g \in Garden, NEW overdue \in SUBSET Sub,
             StartReconcile(t, g, overdue)
      PROVE  Goal
  <2>1. \A u \in Task : u # t => task'[u] = task[u]
    BY <1>6, <1>0 DEF StartReconcile, TypeOK
  <2>2. task'[t].pc = "supersede" /\ task[t].pc = "idle"
    BY <1>6, <1>0 DEF StartReconcile, TypeOK, TaskRec, IdleTask
  <2> QED BY <1>0, <1>6, <2>1, <2>2, RowsUntouched DEF StartReconcile, StaleListed
<1>7. ASSUME NEW t \in Task, NEW g \in Garden, NEW subs \in SUBSET Sub, NEW c \in Content,
             NEW force \in BOOLEAN, NEW o \in Overrides, StartDeploy(t, g, subs, c, force, o)
      PROVE  Goal
  <2>1. DeployTask(g, subs, c, o).pc = "create"
    BY DEF DeployTask, IdleTask
  <2>2. task'[t].pc = "create" /\ task[t].pc = "idle"
    BY <1>7, <1>0, <2>1 DEF StartDeploy, TypeOK
  <2>3. \A u \in Task : u # t => task'[u] = task[u]
    BY <1>7, <1>0 DEF StartDeploy, TypeOK
  <2> QED BY <1>0, <1>7, <2>2, <2>3, RowsUntouched DEF StartDeploy, StaleListed
<1>8. CASE FinalizerStep
  BY <1>1, <1>2, <1>8 DEF FinalizerStep, ListStaleBatch, ReadStale
<1>9. CASE GardenStep
  BY <1>3, <1>4, <1>6, <1>9 DEF GardenStep, Reconnect
<1>10. ASSUME NEW d \in Id, TimePasses(d) PROVE Goal
  BY <1>1, <1>10 DEF TimePasses
<1>11. CASE UNCHANGED vars
  BY <1>1, <1>11 DEF vars
<1> QED BY <1>5, <1>7, <1>8, <1>9, <1>10, <1>11 DEF OtherStep

-----------------------------------------------------------------------------
(* Steps that insert a row *)

\* create_deployment inserts a row without a parent.
LEMMA CreatePreserves ==
  ASSUME Inv, NEW t \in Task, NEW d \in Id, CreateDeployment(t, d), TypeOK'
  PROVE  Inv' /\ (\A e \in Id : state[e] \in Terminal => state'[e] \in Terminal)
<1>0. /\ \A u \in Task : task[u] \in TaskRec
      /\ OpenTransactions /\ StaleListed /\ TypeOK
      /\ IdleTask.pc = "idle"
  BY DEF Inv, TypeOK, IdleTask
<1>1. /\ state[d] = "absent" /\ state'[d] = "dispatched" /\ row'[d].parent = NoId
      /\ \A e \in Id : e # d => state'[e] = state[e] /\ row'[e] = row[e]
      /\ result' = result /\ audit' = audit
  BY <1>0 DEF CreateDeployment, NewRow, TypeOK
<1>2. /\ task'[t].pc = "created" /\ task[t].pc = "create"
      /\ \A u \in Task : u # t => task'[u] = task[u]
  BY <1>0 DEF CreateDeployment, TypeOK, IdleTask
<1>3. OpenTransactions'
  BY <1>0, <1>1, <1>2 DEF OpenTransactions
<1>4. StaleListed'
  BY <1>0, <1>1, <1>2 DEF StaleListed, TaskRec, Terminal
<1>5. ResultIffTerminal' /\ AuditTruth'
  BY <1>0, <1>1 DEF Inv, TypeOK, ResultIffTerminal, AuditTruth, Terminal
<1>6. \A p \in Id : Retries(p)' = Retries(p)
  BY <1>1, ConstantsAssumption DEF Retries, Children, Visible, Unresolved, Terminal
<1>7. \A p \in Id : d \notin Retries(p) /\ Retries(p) \subseteq Id
  BY <1>1 DEF Retries, Children, Visible, Unresolved, Terminal
<1>8. OneOpenRetry'
  BY <1>1, <1>6, <1>7 DEF Inv, OneOpenRetry, Terminal
<1>9. DistinctOrdinals'
  BY <1>1, <1>6, <1>7 DEF Inv, DistinctOrdinals
<1>10. \A e \in Id : state[e] \in Terminal => state'[e] \in Terminal
  BY <1>1 DEF Terminal
<1> QED BY <1>3, <1>4, <1>5, <1>8, <1>9, <1>10 DEF Inv

\* retry_deployment inserts a child whose ordinal and openness are new.
LEMMA RetryPreserves ==
  ASSUME Inv, NEW t \in Task, NEW p \in Id, NEW d \in Id, NEW n \in 1..MaxRetries,
         RetryDeployment(t, p, d, n), TypeOK'
  PROVE  Inv' /\ (\A e \in Id : state[e] \in Terminal => state'[e] \in Terminal)
<1>0. /\ \A u \in Task : task[u] \in TaskRec
      /\ OpenTransactions /\ StaleListed /\ TypeOK
      /\ IdleTask.pc = "idle"
  BY DEF Inv, TypeOK, IdleTask
<1>1. /\ state[d] = "absent" /\ state'[d] = "uncommitted"
      /\ row'[d].parent = p /\ row'[d].ordinal = n
      /\ \A e \in Id : e # d => state'[e] = state[e] /\ row'[e] = row[e]
      /\ result' = result /\ audit' = audit
  BY <1>0 DEF RetryDeployment, NewRow, TypeOK
<1>2. /\ task'[t].pc = "commit_retry" /\ task'[t].dep = d /\ task[t].pc = "idle"
      /\ \A u \in Task : u # t => task'[u] = task[u]
  BY <1>0 DEF RetryDeployment, TypeOK, IdleTask
<1>3. state[p] \in Terminal /\ p # d
  BY <1>1 DEF RetryDeployment, Inv, ResultIffTerminal, Terminal
<1>4. OpenTransactions'
  BY <1>0, <1>1, <1>2 DEF OpenTransactions
<1>5. StaleListed'
  BY <1>0, <1>1, <1>2 DEF StaleListed, TaskRec, Terminal
<1>6. ResultIffTerminal' /\ AuditTruth'
  BY <1>0, <1>1 DEF Inv, TypeOK, ResultIffTerminal, AuditTruth, Terminal
\* The lock: an uncommitted child would have an open transaction holding it.
<1>7. \A c \in Retries(p) : state[c] \in Terminal /\ row[c].ordinal < n
  <2> SUFFICES ASSUME NEW c \in Retries(p) PROVE state[c] \in Terminal /\ row[c].ordinal < n
    OBVIOUS
  <2>1. c \in Id /\ row[c].parent = p /\ c \in Children(p)
    BY DEF Retries, Children
  <2>2. state[c] # "uncommitted"
    BY <1>0, <2>1 DEF RetryDeployment, Locked, OpenTransactions
  <2>3. state[c] \in Visible
    BY <2>2 DEF Retries
  <2>4. state[c] \notin Unresolved
    BY <2>1 DEF RetryDeployment, RetryInProgress
  <2> QED BY <2>1, <2>3, <2>4 DEF RetryDeployment, NextOrdinal, Visible
<1>8. \A q \in Id : /\ q # p => Retries(q)' = Retries(q)
                    /\ Retries(p)' = Retries(p) \cup {d}
                    /\ d \notin Retries(q) /\ Retries(q) \subseteq Id
  BY <1>1 DEF Retries, Children, Visible, Unresolved, Terminal
<1>9. OneOpenRetry'
  <2> SUFFICES ASSUME NEW q \in Id
               PROVE  /\ \A c, e \in Retries(q)' :
                           state'[c] \in Open /\ state'[e] \in Open => c = e
                      /\ Retries(q)' # {} => state'[q] \in Terminal
    BY DEF OneOpenRetry
  <2>1. CASE q = p
    BY <1>1, <1>3, <1>7, <1>8, <2>1 DEF Open, Unresolved, Terminal
  <2>2. CASE q # p
    BY <1>1, <1>8, <2>2 DEF Inv, OneOpenRetry, Terminal
  <2> QED BY <2>1, <2>2
<1>10. DistinctOrdinals'
  <2> SUFFICES ASSUME NEW q \in Id, NEW c \in Retries(q)', NEW e \in Retries(q)',
                      row'[c].ordinal = row'[e].ordinal
               PROVE  c = e
    BY DEF DistinctOrdinals
  <2>1. \A x \in Retries(p) : row[x].ordinal # n
    <3> SUFFICES ASSUME NEW x \in Retries(p) PROVE row[x].ordinal # n
      OBVIOUS
    <3>1. row[x].ordinal \in Nat /\ row[x].ordinal < n
      BY <1>0, <1>7, <1>8 DEF TypeOK, Row
    <3> QED BY <3>1
  <2>2. CASE q = p
    BY <1>1, <1>8, <2>1, <2>2 DEF Inv, DistinctOrdinals
  <2>3. CASE q # p
    BY <1>1, <1>8, <2>3 DEF Inv, DistinctOrdinals
  <2> QED BY <2>2, <2>3
<1>11. \A e \in Id : state[e] \in Terminal => state'[e] \in Terminal
  BY <1>1 DEF Terminal
<1> QED BY <1>4, <1>5, <1>6, <1>9, <1>10, <1>11 DEF Inv

-----------------------------------------------------------------------------
(* The theorems *)

\* Every step preserves the inductive invariant.
LEMMA InvStep ==
  ASSUME Inv, [Next]_vars
  PROVE  Inv' /\ (\A d \in Id : state[d] \in Terminal => state'[d] \in Terminal)
<1> DEFINE Goal == Inv' /\ (\A d \in Id : state[d] \in Terminal => state'[d] \in Terminal)
<1>1. TypeOK'
  BY TypeStep DEF Inv
<1>2. ASSUME RowsSettle, OpenTransactions', RecordsOK' PROVE Goal
  <2>1. OneOpenRetry /\ DistinctOrdinals
    BY DEF Inv
  <2>2. OneOpenRetry' /\ DistinctOrdinals'
    BY <1>2, <2>1, RetriesSettle
  <2>3. \A d \in Id : state[d] \in Terminal => state'[d] \in Terminal
    BY <1>2 DEF RowsSettle
  <2> QED BY <1>1, <1>2, <2>2, <2>3 DEF Inv, RecordsOK
<1>3. CASE OtherStep
  BY <1>2, <1>3, OtherStepSettles
<1>4. ASSUME NEW t \in Task, NEW d \in Id, CreateDeployment(t, d) PROVE Goal
  BY <1>1, <1>4, CreatePreserves
<1>5. ASSUME NEW t \in Task, TaskStep(t) PROVE Goal
  <2>1. CASE \E d \in Id : CreateDeployment(t, d)
    BY <1>4, <2>1
  <2>2. CASE ~ \E d \in Id : CreateDeployment(t, d)
    BY <1>2, <1>5, <2>2, TaskStepSettles
  <2> QED BY <2>1, <2>2
<1>6. ASSUME NEW t \in Task, NEW p \in Id, NEW d \in Id, NEW n \in 1..MaxRetries,
             RetryDeployment(t, p, d, n)
      PROVE  Goal
  BY <1>1, <1>6, RetryPreserves
<1>7. ASSUME NEW t \in Task, Request(t) PROVE Goal
  BY <1>3, <1>6, <1>7 DEF Request, OtherStep
<1> QED BY <1>3, <1>5, <1>7 DEF Next, ServerStep, OtherStep

\* The empty database satisfies it.
LEMMA InvInit == Init => Inv
<1> SUFFICES ASSUME Init PROVE Inv
  OBVIOUS
<1>1. TypeOK
  BY ConstantsAssumption, DefaultsType DEF Init, TypeOK, Invisible
<1>2. \A t \in Task : task[t].pc = "idle"
  BY DEF Init, IdleTask
<1>3. \A p \in Id : Retries(p) = {}
  BY DEF Init, Retries, Children, Visible, Unresolved, Terminal
<1>4. OpenTransactions /\ StaleListed
  BY <1>2 DEF Init, OpenTransactions, StaleListed
<1>5. ResultIffTerminal /\ AuditTruth
  BY DEF Init, ResultIffTerminal, AuditTruth, Terminal
<1>6. OneOpenRetry /\ DistinctOrdinals
  BY <1>3 DEF OneOpenRetry, DistinctOrdinals
<1> QED BY <1>1, <1>4, <1>5, <1>6 DEF Inv

\* The inductive invariant holds in every reachable state.
THEOREM InvHolds == Spec => []Inv
<1>1. Inv /\ [Next]_vars => Inv'
  BY InvStep
<1> QED BY InvInit, <1>1, PTL DEF Spec

\* A row has a result exactly when it is terminal: the two tests the code
\* uses for "resolved" agree, in every interleaving of tasks, finalizer,
\* garden reports and restarts.
THEOREM ResultsAgreeWithStates == Spec => []ResultIffTerminal
<1>1. Inv => ResultIffTerminal
  BY DEF Inv
<1> QED BY InvHolds, <1>1, PTL

\* At most one retry of a deployment is open, and only of a resolved one, for
\* any number of users that retry concurrently.
THEOREM RetriesExclusive == Spec => []OneOpenRetry
<1>1. Inv => OneOpenRetry
  BY DEF Inv
<1> QED BY InvHolds, <1>1, PTL

\* Two retries of one parent never get the same ordinal, so the unique index
\* never refuses a retry.
THEOREM OrdinalsUnique == Spec => []DistinctOrdinals
<1>1. Inv => DistinctOrdinals
  BY DEF Inv
<1> QED BY InvHolds, <1>1, PTL

\* A deployment with a canceled event is resolved for ever after.
THEOREM AuditTruthful == Spec => []AuditTruth
<1>1. Inv => AuditTruth
  BY DEF Inv
<1> QED BY InvHolds, <1>1, PTL

\* No step reopens a resolved deployment.
THEOREM NeverReopened == Spec => TerminalIsFinal
<1>1. Inv /\ [Next]_vars
        => [\A d \in Id : state[d] \in Terminal => state'[d] \in Terminal]_vars
  BY InvStep
<1> QED BY InvHolds, <1>1, PTL DEF Spec, TerminalIsFinal

-----------------------------------------------------------------------------
(* The records implement module DeploymentRow *)

\* Where the state and the result of the rows stay, readers see nothing.
LEMMA SeesNothing ==
  ASSUME UNCHANGED <<state, result>>
  PROVE  UNCHANGED Rows!rowVars
BY DEF Rows!rowVars, Shown

\* update_deployment to a terminal state with a result resolves the row.
LEMMA SeesUpdate ==
  ASSUME TypeOK, NEW d \in Id, NEW s \in Terminal, NEW r \in Reported,
         UpdateDeployment(d, s, r)
  PROVE  Rows!RowNext
<1>1. ~Reopens(d, s)
  BY DEF Reopens, Terminal, Unresolved
<1>2. /\ state' = [state EXCEPT ![d] = s] /\ result' = [result EXCEPT ![d] = r]
      /\ state[d] \in Visible
  BY <1>1 DEF UpdateDeployment
<1>3. s \in Visible /\ state \in [Id -> Visible \cup Invisible]
  BY DEF Visible, TypeOK
<1>4. Shown' = [Shown EXCEPT ![d] = s]
  BY <1>2, <1>3 DEF Shown
<1>5. Shown[d] # "absent"
  BY <1>2 DEF Shown, Visible, Unresolved, Terminal
<1>6. Rows!Resolve(d, s, r)
  BY <1>2, <1>4, <1>5 DEF Rows!Resolve
<1>7. s \in Rows!EndStates /\ r \in Rows!Outcomes
  BY DEF Rows!EndStates, Rows!Outcomes, Terminal, Reported
<1> QED BY <1>6, <1>7 DEF Rows!RowNext

\* Moving open rows to one open state is a step that readers may see.
LEMMA SeesHand ==
  ASSUME TypeOK, NEW D \in SUBSET Id, NEW s \in Unresolved,
         \A d \in D : state[d] \in Unresolved,
         state' = [d \in Id |-> IF d \in D THEN s ELSE state[d]],
         result' = result
  PROVE  Rows!RowNext
<1>1. Shown' = [d \in Id |-> IF d \in D THEN s ELSE Shown[d]]
  BY DEF Shown, Visible
<1>2. \A d \in D : Shown[d] \in Rows!OpenStates
  BY DEF Shown, Visible, Rows!OpenStates, Unresolved
<1>3. Rows!Hand(D, s)
  BY <1>1, <1>2 DEF Rows!Hand
<1>4. s \in Rows!OpenStates
  BY DEF Rows!OpenStates, Unresolved
<1> QED BY <1>3, <1>4 DEF Rows!RowNext

\* A row that readers could not see becomes a dispatched one.
LEMMA SeesAppear ==
  ASSUME TypeOK, NEW d \in Id, state[d] \in Invisible,
         state' = [state EXCEPT ![d] = "dispatched"], result' = result
  PROVE  Rows!RowNext
<1>1. Shown' = [Shown EXCEPT ![d] = "dispatched"]
  BY DEF Shown, TypeOK, Visible, Unresolved
<1>2. Shown[d] = "absent"
  BY DEF Shown, Invisible, Visible, Unresolved, Terminal
<1>3. Rows!Appear(d)
  BY <1>1, <1>2 DEF Rows!Appear
<1> QED BY <1>3 DEF Rows!RowNext

\* Every step of the server and of the gardens is one that readers may see.
LEMMA RowsStep ==
  ASSUME Inv, [Next]_vars
  PROVE  [Rows!RowNext]_Rows!rowVars
<1> DEFINE Goal == [Rows!RowNext]_Rows!rowVars
<1>0. TypeOK /\ OpenTransactions /\ StaleListed /\ ResultIffTerminal
  BY DEF Inv
<1>1. ASSUME UNCHANGED <<state, result>> PROVE Goal
  BY <1>1, SeesNothing
<1>2. ASSUME NEW t \in Task, NEW d \in Id, CreateDeployment(t, d) PROVE Goal
  BY <1>0, <1>2, SeesAppear DEF CreateDeployment, Invisible
<1>3. ASSUME NEW t \in Task, NEW d \in Id, CancelStale(t, d) PROVE Goal
  <2>1. result[d] \in Reported
    BY <1>0, <1>3 DEF CancelStale, StaleListed, ResultIffTerminal, TypeOK
  <2> QED BY <1>0, <1>3, <2>1, SeesUpdate DEF CancelStale, Terminal
<1>4. ASSUME NEW t \in Task, CommitRetry(t) PROVE Goal
  BY <1>0, <1>4, SeesAppear DEF CommitRetry, OpenTransactions, Invisible
<1>5. ASSUME NEW t \in Task, NEW d \in Id, CancelSuperseded(t, d) PROVE Goal
  BY <1>0, <1>5, SeesUpdate DEF CancelSuperseded, Terminal, Reported
<1>6. ASSUME NEW t \in Task, NEW supported \in BOOLEAN, MarkDispatched(t, supported)
      PROVE  Goal
  <2> DEFINE marked == {d \in task[t].replay : /\ supported \/ ~row[d].override
                                              /\ state[d] \in Unresolved}
  <2>1. marked \in SUBSET Id
    BY <1>0 DEF TypeOK, TaskRec
  <2>2. state' = [d \in Id |-> IF d \in marked THEN "dispatched" ELSE state[d]]
    BY <1>6 DEF MarkDispatched
  <2>3. result' = result /\ "dispatched" \in Unresolved
    BY <1>6 DEF MarkDispatched, Unresolved
  <2> QED BY <1>0, <2>1, <2>2, <2>3, SeesHand
<1>7. ASSUME NEW t \in Task, TaskStep(t) PROVE Goal
  <2>1. CASE ListStale(t) \/ BroadcastDeployment(t) \/ EndReplay(t) \/ EndReconcile(t)
    BY <1>1, <2>1 DEF ListStale, BroadcastDeployment, EndReplay, EndReconcile
  <2>2. ASSUME NEW d \in Id, Replay(t, d) PROVE Goal
    BY <1>1, <2>2 DEF Replay
  <2>3. ASSUME NEW u \in Task, NEW s \in Sub, NEW c \in Content, DeployOverdue(t, u, s, c)
        PROVE  Goal
    BY <1>1, <2>3 DEF DeployOverdue
  <2>4. ASSUME NEW s \in Sub, SkipOverdue(t, s) PROVE Goal
    BY <1>1, <2>4 DEF SkipOverdue
  <2> QED BY <1>2, <1>3, <1>4, <1>5, <1>6, <1>7, <2>1, <2>2, <2>3, <2>4 DEF TaskStep
<1>8. ASSUME NEW t \in Task, Request(t) PROVE Goal
  <2>1. ASSUME NEW p \in Id, NEW d \in Id, NEW n \in 1..MaxRetries,
               RetryDeployment(t, p, d, n)
        PROVE  Goal
    <3>1. Shown' = Shown
      BY <1>0, <2>1 DEF RetryDeployment, Shown, TypeOK, Visible, Unresolved, Terminal
    <3> QED BY <2>1, <3>1 DEF RetryDeployment, Rows!rowVars
  <2> QED BY <1>1, <1>8, <2>1 DEF Request, StartDeploy
<1>9. CASE Crash
  <2>1. Shown' = Shown
    BY <1>0, <1>9 DEF Crash, Shown, TypeOK, Visible, Unresolved, Terminal
  <2> QED BY <1>9, <2>1 DEF Crash, Rows!rowVars
<1>10. CASE FinalizerStep
  <2>1. CASE FinalizeStale
    BY <1>0, <2>1, SeesUpdate DEF FinalizeStale, Terminal, Reported
  <2> QED BY <1>1, <1>10, <2>1 DEF FinalizerStep, ListStaleBatch, ReadStale
<1>11. CASE \E d \in Id : TimePasses(d)
  BY <1>1, <1>11 DEF TimePasses
<1>12. ASSUME NEW d \in Id, RecordDeploymentStatus(d) PROVE Goal
  <2>1. CASE Reopens(d, "acknowledged")
    BY <1>1, <1>12, <2>1 DEF RecordDeploymentStatus, UpdateDeployment
  <2>2. CASE ~Reopens(d, "acknowledged")
    <3>1. state[d] \in Unresolved /\ "acknowledged" \in Unresolved
      BY <1>12, <2>2 DEF RecordDeploymentStatus, UpdateDeployment, Reopens, Visible, Unresolved
    <3>2. /\ state' = [state EXCEPT ![d] = "acknowledged"]
          /\ result' = [result EXCEPT ![d] = result[d]]
      BY <1>12, <2>2 DEF RecordDeploymentStatus, UpdateDeployment
    <3>3. state' = [e \in Id |-> IF e \in {d} THEN "acknowledged" ELSE state[e]]
      BY <1>0, <3>2 DEF TypeOK
    <3>4. result' = result
      BY <1>0, <3>2 DEF TypeOK
    <3>5. {d} \in SUBSET Id /\ \A e \in {d} : state[e] \in Unresolved
      BY <3>1
    <3>6. Rows!RowNext
      BY <1>0, <3>1, <3>3, <3>4, <3>5, SeesHand
    <3> QED BY <3>6
  <2> QED BY <2>1, <2>2
<1>13. ASSUME NEW d \in Id, NEW r \in Reported, RecordDeployment(d, r) PROVE Goal
  BY <1>0, <1>13, SeesUpdate DEF RecordDeployment, Terminal
<1>14. CASE \E t \in Task : Reconnect(t)
  BY <1>1, <1>14 DEF Reconnect, StartReconcile
<1>15. CASE UNCHANGED vars
  BY <1>1, <1>15 DEF vars
<1> QED
  BY <1>7, <1>8, <1>9, <1>10, <1>11, <1>12, <1>13, <1>14, <1>15
  DEF Next, ServerStep, GardenStep

\* The records implement their abstract specification, for any number of
\* rows, tasks and gardens: what a reader of the API sees of a deployment is
\* what module DeploymentRow promises.
THEOREM RowsImplemented == Spec => ImplementsRows
<1>1. Init => Rows!RowInit
  BY DEF Init, Rows!RowInit, Shown, Visible, Unresolved, Terminal
<1>2. Inv /\ [Next]_vars => [Rows!RowNext]_Rows!rowVars
  BY RowsStep
<1> QED BY <1>1, <1>2, InvHolds, PTL DEF Spec, ImplementsRows, Rows!RowSpec
=============================================================================
