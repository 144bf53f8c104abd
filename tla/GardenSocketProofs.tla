------------------------- MODULE GardenSocketProofs -------------------------
(***************************************************************************)
(* Proofs about the garden daemon's connection process, for any number of  *)
(* deployments, joins, messages, reloads and restarts.                     *)
(*                                                                         *)
(* ResultsFromRuns needs to know the same of the completions in the        *)
(* mailbox.  ActiveAccounted is about tokens: an active deployment has     *)
(* one, which is a queued run, a running task or a queued completion.  The *)
(* token survives as long as somebody receives what a task sends, so Inv   *)
(* also says that a process that never died is there.                      *)
(***************************************************************************)
EXTENDS GardenSocket, FiniteSetTheorems, SequenceTheorems, TLAPS

\* The messages of kind k about d, and how many there are.
Places(q, k, d) == {i \in DOMAIN q : q[i].kind = k /\ q[i].sid = d}
Count(q, k, d) == Cardinality(Places(q, k, d))

Tokens(d) ==
  Count(mailbox, "run_deployment", d) + running[d] + Count(mailbox, "deployment_completed", d)

\* A completion in the mailbox is one a run returned.
CompletionsFromRuns ==
  \A i \in DOMAIN mailbox : mailbox[i].kind = "deployment_completed" =>
    mailbox[i].result \in outcomes[mailbox[i].sid]

\* While the process has not died, every active deployment has one token, and
\* no other one has any.
TokensInv ==
  restarts = 0 =>
    /\ alive
    /\ \A d \in Id : Tokens(d) = IF d \in active THEN 1 ELSE 0

\* While the process has not died, what is active when systemd is asked for a
\* restart is nothing, and what becomes active later is late.
LateInv == stopping /\ restarts = 0 => active \subseteq late

GardenInv == CompletionsFromRuns /\ ResultsFromRuns /\ TokensInv /\ LateInv

-----------------------------------------------------------------------------
(* Messages *)

LEMMA Messages ==
  /\ \A k \in {"joined", "disconnected", "report", "check_pending_reload"} :
       Signal(k) \in Message /\ Signal(k).kind = k
  /\ \A k \in {"deployment", "run_deployment", "seed"}, d \in Id :
       About(k, d) \in Message /\ About(k, d).kind = k /\ About(k, d).sid = d
  /\ \A d \in Id, r \in Results :
       LET m == Outcome("deployment_completed", d, r)
       IN  m \in Message /\ m.kind = "deployment_completed" /\ m.sid = d /\ m.result = r
  /\ \A d \in Id : About("ack", d) \in Push /\ About("ack", d).kind = "ack"
  /\ \A d \in Id, r \in Results :
       LET m == Outcome("result", d, r)
       IN  m \in Push /\ m.kind = "result" /\ m.sid = d /\ m.result = r
BY DEF Message, Push, Signal, About, Outcome

\* What a message carries.
LEMMA MessageFields ==
  ASSUME NEW m \in Message
  PROVE  /\ m.kind \in {"deployment", "run_deployment", "deployment_completed"} => m.sid \in Id
         /\ m.kind = "deployment_completed" => m.result \in Results
BY DEF Message

LEMMA SeqOfTwo == ASSUME NEW x, NEW y PROVE Append(<<x>>, y) = <<x, y>>
<1> DEFINE S == {x, y}
<1>1. <<x>> \in Seq(S) /\ Len(<<x>>) = 1 /\ <<x, y>> \in Seq(S) /\ Len(<<x, y>>) = 2
  OBVIOUS
<1>2. /\ Append(<<x>>, y) \in Seq(S) /\ Len(Append(<<x>>, y)) = 2
      /\ Append(<<x>>, y)[1] = x /\ Append(<<x>>, y)[2] = y
  BY <1>1, AppendProperties
<1>3. <<x, y>>[1] = x /\ <<x, y>>[2] = y
  OBVIOUS
<1>4. \A i \in 1..2 : Append(<<x>>, y)[i] = <<x, y>>[i]
  BY <1>2, <1>3
<1> QED BY <1>1, <1>2, <1>4, SeqEqual

\* The first message is taken from the mailbox and up to two are added to it.
LEMMA Tails ==
  ASSUME NEW S, NEW q \in Seq(S), q # <<>>, NEW m \in S, NEW n \in S
  PROVE  /\ Tail(q) \in Seq(S)
         /\ Tail(q) \o <<>> = Tail(q)
         /\ Tail(q) \o <<m>> = Append(Tail(q), m)
         /\ Tail(q) \o <<m, n>> = Append(Append(Tail(q), m), n)
<1>1. Tail(q) \in Seq(S)
  BY HeadTailProperties
<1> DEFINE t == Tail(q)
<1> HIDE DEF t
<1>2. t \in Seq(S)
  BY <1>1 DEF t
<1>3. t \o <<>> = t
  BY <1>2
<1>4. t \o <<m>> = Append(t, m)
  BY <1>2, AppendIsConcat
<1>5. Append(t, m) \in Seq(S)
  BY <1>2, AppendProperties
<1>6. Append(Append(t, m), n) = (t \o <<m>>) \o <<n>>
  BY <1>4, <1>5, AppendIsConcat
<1>7. (t \o <<m>>) \o <<n>> = t \o (<<m>> \o <<n>>)
  BY <1>2, ConcatAssociative
<1>8. <<m>> \o <<n>> = <<m, n>>
  <2>1. <<m>> \in Seq(S)
    OBVIOUS
  <2>2. Append(<<m>>, n) = <<m>> \o <<n>>
    BY <2>1, AppendIsConcat
  <2> QED BY <2>2, SeqOfTwo
<1> QED BY <1>1, <1>3, <1>4, <1>6, <1>7, <1>8 DEF t

\* Counting: an empty mailbox, a message more, a message less.
LEMMA CountNone == \A k, d : Count(<<>>, k, d) = 0
<1>1. \A k, d : Places(<<>>, k, d) = {}
  BY DEF Places
<1> QED BY <1>1, FS_EmptySet DEF Count

LEMMA CountNat ==
  ASSUME NEW S, NEW q \in Seq(S), NEW k, NEW d
  PROVE  IsFiniteSet(Places(q, k, d)) /\ Count(q, k, d) \in Nat
<1>1. DOMAIN q = 1..Len(q) /\ Len(q) \in Nat
  OBVIOUS
<1>2. IsFiniteSet(1..Len(q))
  BY <1>1, FS_Interval
<1>3. Places(q, k, d) \subseteq 1..Len(q)
  BY <1>1 DEF Places
<1>4. IsFiniteSet(Places(q, k, d))
  BY <1>2, <1>3, FS_Subset
<1> QED BY <1>4, FS_CardinalityType DEF Count

LEMMA CountAppend ==
  ASSUME NEW S, NEW q \in Seq(S), NEW m \in S, NEW k, NEW d
  PROVE  Count(Append(q, m), k, d) = Count(q, k, d) + IF m.kind = k /\ m.sid = d THEN 1 ELSE 0
<1> DEFINE n == Len(q) + 1
           A == Append(q, m)
<1>1. Len(q) \in Nat /\ DOMAIN q = 1..Len(q)
  OBVIOUS
<1>2. /\ A \in Seq(S) /\ Len(A) = n /\ A[n] = m
      /\ \A i \in 1..Len(q) : A[i] = q[i]
  BY AppendProperties
<1>3. DOMAIN A = 1..n
  BY <1>2
<1> HIDE DEF A
<1>4. n \notin Places(q, k, d)
  BY <1>1 DEF Places
<1>5. \A i \in 1..n : i \in 1..Len(q) \/ i = n
  <2>1. \A l \in Nat : \A i \in 1..l + 1 : i \in 1..l \/ i = l + 1
    OBVIOUS
  <2> QED BY <1>1, <2>1
<1>6. n \in 1..n /\ \A i \in 1..Len(q) : i \in 1..n
  <2>1. \A l \in Nat : l + 1 \in 1..l + 1 /\ \A i \in 1..l : i \in 1..l + 1
    OBVIOUS
  <2> QED BY <1>1, <2>1
<1> HIDE DEF n
<1>7. CASE m.kind = k /\ m.sid = d
  <2>1. Places(A, k, d) = Places(q, k, d) \cup {n}
    BY <1>1, <1>2, <1>3, <1>5, <1>6, <1>7 DEF Places
  <2>2. IsFiniteSet(Places(q, k, d))
    BY CountNat
  <2>3. Cardinality(Places(q, k, d) \cup {n}) = Cardinality(Places(q, k, d)) + 1
    BY <1>4, <2>2, FS_AddElement
  <2> QED BY <1>7, <2>1, <2>3 DEF Count, A
<1>8. CASE ~(m.kind = k /\ m.sid = d)
  <2>1. Places(A, k, d) = Places(q, k, d)
    BY <1>1, <1>2, <1>3, <1>5, <1>6, <1>8 DEF Places
  <2>2. Count(q, k, d) \in Nat
    BY CountNat
  <2> QED BY <1>8, <2>1, <2>2 DEF Count, A
<1> QED BY <1>7, <1>8

LEMMA CountTail ==
  ASSUME NEW S, NEW q \in Seq(S), q # <<>>, NEW k, NEW d
  PROVE  Count(q, k, d) =
           Count(Tail(q), k, d) + IF Head(q).kind = k /\ Head(q).sid = d THEN 1 ELSE 0
<1> DEFINE t == Tail(q)
<1>1. Len(q) \in Nat /\ DOMAIN q = 1..Len(q) /\ Len(q) > 0 /\ Head(q) = q[1]
  OBVIOUS
<1>2. t \in Seq(S) /\ Len(t) = Len(q) - 1 /\ \A i \in 1..Len(t) : t[i] = q[i + 1]
  BY HeadTailProperties
<1>3. DOMAIN t = 1..Len(t) /\ Len(t) \in Nat
  BY <1>2
<1> HIDE DEF t
<1>4. /\ \A i \in 1..Len(t) : i + 1 \in 1..Len(q)
      /\ \A i \in 1..Len(q) : i # 1 => i - 1 \in 1..Len(t) /\ (i - 1) + 1 = i
  <2>1. \A a, b \in Nat : b = a - 1 => /\ \A i \in 1..b : i + 1 \in 1..a
                                       /\ \A i \in 1..a : i # 1 => i - 1 \in 1..b /\ (i - 1) + 1 = i
    OBVIOUS
  <2> QED BY <1>1, <1>2, <1>3, <2>1
<1> DEFINE B == Places(t, k, d)
           C == Places(q, k, d) \ {1}
           f == [i \in B |-> i + 1]
<1>5. f \in Bijection(B, C)
  <2>1. \A i \in B : i \in Nat /\ i + 1 \in C
    BY <1>1, <1>2, <1>3, <1>4 DEF Places
  <2>2. \A i \in C : i - 1 \in B /\ (i - 1) + 1 = i
    BY <1>1, <1>2, <1>3, <1>4 DEF Places
  <2> HIDE DEF B, C
  <2>3. f \in [B -> C] /\ \A i \in C : \E j \in B : f[j] = i
    BY <2>1, <2>2
  <2>4. \A i, j \in B : f[i] = f[j] => i = j
    BY <2>1
  <2> QED BY <2>3, <2>4 DEF Bijection, Injection, Surjection, IsInjective
<1>6. IsFiniteSet(B) /\ IsFiniteSet(Places(q, k, d)) /\ Count(q, k, d) \in Nat
  BY <1>2, CountNat
<1>7. Cardinality(C) = Cardinality(B)
  BY <1>5, <1>6, FS_Bijection DEF ExistsBijection
<1>8. Cardinality(C) = IF 1 \in Places(q, k, d) THEN Count(q, k, d) - 1 ELSE Count(q, k, d)
  BY <1>6, FS_RemoveElement DEF Count
<1>9. 1 \in Places(q, k, d) <=> Head(q).kind = k /\ Head(q).sid = d
  BY <1>1 DEF Places
<1>10. Count(t, k, d) = Cardinality(B)
  BY DEF Count
<1> HIDE DEF B, C
<1> QED BY <1>6, <1>7, <1>8, <1>9, <1>10 DEF t

-----------------------------------------------------------------------------
(* Types *)

LEMMA GardenTypeStep == GardenTypeOK /\ [GardenNext]_gvars => GardenTypeOK'
<1> SUFFICES ASSUME GardenTypeOK, [GardenNext]_gvars PROVE GardenTypeOK'
  OBVIOUS
<1> USE GardenAssumption
<1>0. mailbox \in Seq(Message) /\ up \in Seq(Push) /\ <<>> \in Seq(Message) /\ <<>> \in Seq(Push)
  BY DEF GardenTypeOK
<1>1. ASSUME NEW m \in Message, Deliver(m) PROVE mailbox' \in Seq(Message)
  BY <1>0, <1>1, AppendProperties DEF Deliver
<1>2. ASSUME NEW m \in Push, Pushed(m) PROVE up' \in Seq(Push)
  BY <1>0, <1>2, AppendProperties DEF Pushed
<1>3. ASSUME NEW k, Receive(k) PROVE Head(mailbox) \in Message
  BY <1>0, <1>3, HeadTailProperties DEF Receive
<1>4. ASSUME NEW k, Receive(k), NEW m \in Message, NEW n \in Message,
             Handled(<<>>) \/ Handled(<<m>>) \/ Handled(<<m, n>>)
      PROVE  mailbox' \in Seq(Message)
  <2>1. mailbox # <<>>
    BY <1>4 DEF Receive
  <2>2. /\ Tail(mailbox) \in Seq(Message)
        /\ Tail(mailbox) \o <<>> = Tail(mailbox)
        /\ Tail(mailbox) \o <<m>> = Append(Tail(mailbox), m)
        /\ Tail(mailbox) \o <<m, n>> = Append(Append(Tail(mailbox), m), n)
    BY <1>0, <1>4, <2>1, Tails
  <2>3. Append(Tail(mailbox), m) \in Seq(Message)
    BY <1>4, <2>2, AppendProperties
  <2>4. Append(Append(Tail(mailbox), m), n) \in Seq(Message)
    BY <1>4, <2>3, AppendProperties
  <2> QED BY <1>4, <2>2, <2>3, <2>4 DEF Handled
<1>5. \A k \in {"joined", "disconnected", "report", "check_pending_reload"} : Signal(k) \in Message
  BY Messages
<1>6. CASE HandleJoin \/ HandleDisconnect \/ Report \/ HandleSeed \/ NotFound
  <2>1. mailbox' \in Seq(Message)
    BY <1>4, <1>5, <1>6 DEF HandleJoin, HandleDisconnect, Report, HandleSeed, NotFound
  <2> QED BY <1>6, <2>1
    DEF GardenTypeOK, HandleJoin, HandleDisconnect, Report, HandleSeed, NotFound
<1>7. CASE HandleDeployment
  <2>1. Head(mailbox).sid \in Id
    BY <1>3, <1>7, MessageFields DEF HandleDeployment, Receive
  <2>2. mailbox' \in Seq(Message)
    <3>1. About("run_deployment", Head(mailbox).sid) \in Message
      BY <2>1, Messages
    <3>2. Handled(<<>>) \/ Handled(<<About("run_deployment", Head(mailbox).sid)>>)
      BY <1>7 DEF HandleDeployment
    <3> QED BY <1>4, <1>7, <3>1, <3>2 DEF HandleDeployment
  <2> QED BY <1>7, <2>1, <2>2 DEF GardenTypeOK, HandleDeployment
<1>8. CASE RunDeployment
  <2>1. Head(mailbox).sid \in Id
    BY <1>3, <1>8, MessageFields DEF RunDeployment, Receive
  <2>2. up' \in Seq(Push)
    BY <1>2, <1>8, <2>1, Messages DEF RunDeployment
  <2>3. mailbox' \in Seq(Message)
    BY <1>4, <1>5, <1>8 DEF RunDeployment
  <2>4. running' \in [Id -> Nat]
    BY <1>8, <2>1 DEF GardenTypeOK, RunDeployment
  <2> QED BY <1>8, <2>2, <2>3, <2>4 DEF GardenTypeOK, RunDeployment
<1>9. CASE DeploymentCompleted
  <2>1. Head(mailbox).sid \in Id /\ Head(mailbox).result \in Results
    BY <1>3, <1>9, MessageFields DEF DeploymentCompleted, Receive
  <2>2. up' \in Seq(Push)
    BY <1>2, <1>9, <2>1, Messages DEF DeploymentCompleted
  <2>3. mailbox' \in Seq(Message)
    BY <1>4, <1>5, <1>9 DEF DeploymentCompleted
  <2> QED BY <1>9, <2>2, <2>3 DEF GardenTypeOK, DeploymentCompleted
<1>10. CASE Dies \/ Reboot
  <2>1. mailbox' \in Seq(Message) /\ up' \in Seq(Push)
    BY <1>0, <1>10 DEF Dies, Reboot
  <2>2. running' \in [Id -> Nat]
    BY <1>10 DEF GardenTypeOK, Dies, Reboot
  <2>3. restarts' \in 0..MaxRestarts
    BY <1>10 DEF GardenTypeOK, Dies, Reboot
  <2>4. CASE Dies
    BY <2>1, <2>2, <2>3, <2>4 DEF GardenTypeOK, Dies
  <2>5. CASE Reboot
    BY <2>1, <2>2, <2>3, <2>5 DEF GardenTypeOK, Reboot
  <2> QED BY <1>10, <2>4, <2>5
<1>11. ASSUME NEW ok \in BOOLEAN, CheckPendingReload(ok) PROVE GardenTypeOK'
  <2>1. mailbox' \in Seq(Message)
    BY <1>4, <1>5, <1>11 DEF CheckPendingReload
  <2> QED BY <1>11, <2>1 DEF GardenTypeOK, CheckPendingReload
<1>12. CASE Handle
  BY <1>6, <1>7, <1>8, <1>9, <1>10, <1>11, <1>12 DEF Handle, FailedPush
<1>13. ASSUME NEW d \in Id, ReportSeed(d) PROVE GardenTypeOK'
  <2>1. mailbox' \in Seq(Message)
    BY <1>1, <1>13, Messages DEF ReportSeed
  <2> QED BY <1>13, <2>1 DEF GardenTypeOK, ReportSeed
<1>14. ASSUME NEW d \in Id, NEW r \in Results, FinishRun(d, r) PROVE GardenTypeOK'
  <2>1. mailbox' \in Seq(Message)
    BY <1>1, <1>14, Messages DEF FinishRun
  <2>2. running' \in [Id -> Nat] /\ outcomes' \in [Id -> SUBSET Results]
    <3>1. running[d] - 1 \in Nat
      BY <1>14 DEF FinishRun, GardenTypeOK
    <3> QED BY <1>14, <3>1 DEF FinishRun, GardenTypeOK
  <2> QED BY <1>14, <2>1, <2>2 DEF GardenTypeOK, FinishRun
<1>15. ASSUME NEW d \in Id, Frame(d) PROVE GardenTypeOK'
  <2>1. mailbox' \in Seq(Message)
    BY <1>1, <1>15, Messages DEF Frame
  <2> QED BY <1>15, <2>1 DEF GardenTypeOK, Frame
<1>16. CASE Restart
  BY <1>16 DEF GardenTypeOK, Restart
<1>17. CASE Join
  <2>1. mailbox' \in Seq(Message)
    BY <1>1, <1>5, <1>17 DEF Join
  <2> QED BY <1>17, <2>1 DEF GardenTypeOK, Join
<1>18. CASE Disconnect
  <2>1. mailbox' \in Seq(Message) /\ up' \in Seq(Push)
    BY <1>0, <1>1, <1>5, <1>18 DEF Disconnect
  <2> QED BY <1>18, <2>1 DEF GardenTypeOK, Disconnect
<1>19. CASE Arrive
  <2>1. up' \in Seq(Push)
    BY <1>0, <1>19, HeadTailProperties DEF Arrive
  <2> QED BY <1>19, <2>1 DEF GardenTypeOK, Arrive
<1>20. CASE RequestReload
  <2>1. mailbox' \in Seq(Message)
    BY <1>1, <1>5, <1>20 DEF RequestReload
  <2> QED BY <1>20, <2>1 DEF GardenTypeOK, RequestReload
<1>21. CASE UNCHANGED gvars
  BY <1>21 DEF GardenTypeOK, gvars
<1> QED
  BY <1>10, <1>12, <1>13, <1>14, <1>15, <1>16, <1>17, <1>18, <1>19, <1>20, <1>21
  DEF GardenNext, Run, DaemonRestart

-----------------------------------------------------------------------------
(* What a step does to the mailbox *)

LEMMA ToSetAppend ==
  ASSUME NEW S, NEW q \in Seq(S), NEW m \in S
  PROVE  ToSet(Append(q, m)) = ToSet(q) \cup {m}
<1> DEFINE A == Append(q, m)
<1>1. Len(q) \in Nat /\ DOMAIN q = 1..Len(q)
  OBVIOUS
<1>2. /\ A \in Seq(S) /\ Len(A) = Len(q) + 1 /\ A[Len(q) + 1] = m
      /\ \A i \in 1..Len(q) : A[i] = q[i]
  BY AppendProperties
<1>3. DOMAIN A = 1..Len(q) + 1
  BY <1>2
<1> HIDE DEF A
<1>4. \A l \in Nat : /\ \A i \in 1..l + 1 : i \in 1..l \/ i = l + 1
                     /\ l + 1 \in 1..l + 1 /\ \A i \in 1..l : i \in 1..l + 1
  OBVIOUS
<1>5. DOMAIN A = DOMAIN q \cup {Len(q) + 1}
  BY <1>1, <1>3, <1>4
<1>6. ToSet(A) = ToSet(q) \cup {m}
  BY <1>1, <1>2, <1>5 DEF ToSet
<1> QED BY <1>6 DEF A

LEMMA ToSetTail ==
  ASSUME NEW S, NEW q \in Seq(S), q # <<>>
  PROVE  Head(q) \in ToSet(q) /\ ToSet(Tail(q)) \subseteq ToSet(q) /\ Head(q) \in S
<1> DEFINE t == Tail(q)
<1>1. Len(q) \in Nat /\ DOMAIN q = 1..Len(q) /\ Len(q) > 0 /\ Head(q) = q[1]
  OBVIOUS
<1>2. t \in Seq(S) /\ Len(t) = Len(q) - 1 /\ \A i \in 1..Len(t) : t[i] = q[i + 1]
  BY HeadTailProperties
<1>3. DOMAIN t = 1..Len(t) /\ Len(t) \in Nat
  BY <1>2
<1> HIDE DEF t
<1>4. \A a, b \in Nat : b = a - 1 => \A i \in 1..b : i + 1 \in 1..a
  OBVIOUS
<1>5. \A i \in 1..Len(t) : i + 1 \in 1..Len(q)
  BY <1>1, <1>2, <1>3, <1>4
<1>6. \A l \in Nat : l > 0 => 1 \in 1..l
  OBVIOUS
<1>7. 1 \in DOMAIN q
  BY <1>1, <1>6
<1>8. ToSet(t) \subseteq ToSet(q)
  BY <1>1, <1>2, <1>3, <1>5 DEF ToSet
<1>9. Head(q) \in ToSet(q)
  BY <1>1, <1>7 DEF ToSet
<1> QED BY <1>1, <1>7, <1>8, <1>9, ElementOfSeq DEF t

One(m, k, d) == IF m.kind = k /\ m.sid = d THEN 1 ELSE 0

\* A delivered message is added if somebody is there to receive it.
LEMMA Delivered ==
  ASSUME mailbox \in Seq(Message), NEW m \in Message, Deliver(m)
  PROVE  /\ ToSet(mailbox') \subseteq ToSet(mailbox) \cup {m}
         /\ alive => \A k, d : Count(mailbox', k, d) = Count(mailbox, k, d) + One(m, k, d)
<1>1. ToSet(Append(mailbox, m)) = ToSet(mailbox) \cup {m}
  BY ToSetAppend
<1>2. \A k, d : Count(Append(mailbox, m), k, d) = Count(mailbox, k, d) + One(m, k, d)
  BY CountAppend DEF One
<1> QED BY <1>1, <1>2 DEF Deliver

\* A handled message is gone, and the messages sent to self() are added.
LEMMA HandledEffect ==
  ASSUME mailbox \in Seq(Message), NEW k0, Receive(k0), NEW m \in Message, NEW n \in Message
  PROVE  /\ Head(mailbox) \in Message /\ Head(mailbox) \in ToSet(mailbox) /\ Head(mailbox).kind = k0
         /\ Handled(<<>>) =>
              /\ ToSet(mailbox') \subseteq ToSet(mailbox)
              /\ \A k, d : Count(mailbox, k, d) = Count(mailbox', k, d) + One(Head(mailbox), k, d)
         /\ Handled(<<m>>) =>
              /\ ToSet(mailbox') \subseteq ToSet(mailbox) \cup {m}
              /\ \A k, d : Count(mailbox, k, d) + One(m, k, d)
                           = Count(mailbox', k, d) + One(Head(mailbox), k, d)
         /\ Handled(<<m, n>>) =>
              /\ ToSet(mailbox') \subseteq ToSet(mailbox) \cup {m, n}
              /\ \A k, d : Count(mailbox, k, d) + One(m, k, d) + One(n, k, d)
                           = Count(mailbox', k, d) + One(Head(mailbox), k, d)
<1> DEFINE t == Tail(mailbox)
<1>1. mailbox # <<>> /\ Head(mailbox).kind = k0
  BY DEF Receive
<1>2. /\ t \in Seq(Message)
      /\ t \o <<>> = t
      /\ t \o <<m>> = Append(t, m)
      /\ t \o <<m, n>> = Append(Append(t, m), n)
  BY <1>1, Tails
<1>3. Head(mailbox) \in ToSet(mailbox) /\ ToSet(t) \subseteq ToSet(mailbox) /\ Head(mailbox) \in Message
  BY <1>1, ToSetTail
<1>4. \A k, d : Count(mailbox, k, d) = Count(t, k, d) + One(Head(mailbox), k, d)
  BY <1>1, CountTail DEF One
<1>a. (Handled(<<>>) => mailbox' = t) /\ (Handled(<<m>>) => mailbox' = Append(t, m))
      /\ (Handled(<<m, n>>) => mailbox' = Append(Append(t, m), n))
  BY <1>2 DEF Handled
<1> HIDE DEF t
<1>5. Append(t, m) \in Seq(Message)
  BY <1>2, AppendProperties
<1>6. ToSet(Append(t, m)) = ToSet(t) \cup {m}
  BY <1>2, ToSetAppend
<1>7. ToSet(Append(Append(t, m), n)) = ToSet(t) \cup {m} \cup {n}
  <2> DEFINE u == Append(t, m)
  <2> HIDE DEF u
  <2>1. u \in Seq(Message)
    BY <1>5 DEF u
  <2>2. ToSet(Append(u, n)) = ToSet(u) \cup {n}
    BY <2>1, ToSetAppend
  <2> QED BY <1>6, <2>2 DEF u
<1>8. \A k, d : Count(Append(t, m), k, d) = Count(t, k, d) + One(m, k, d)
  BY <1>2, CountAppend DEF One
<1>9. \A k, d : Count(Append(Append(t, m), n), k, d) = Count(Append(t, m), k, d) + One(n, k, d)
  <2> DEFINE u == Append(t, m)
  <2> HIDE DEF u
  <2>1. u \in Seq(Message)
    BY <1>5 DEF u
  <2>2. \A k, d : Count(Append(u, n), k, d) = Count(u, k, d) + One(n, k, d)
    BY <2>1, CountAppend DEF One
  <2> QED BY <2>2 DEF u
<1>10. \A k, d : Count(t, k, d) \in Nat
  BY <1>2, CountNat
<1>11. \A x, k, d : One(x, k, d) \in Nat
  BY DEF One
<1>12. Handled(<<>>) =>
              /\ ToSet(mailbox') \subseteq ToSet(mailbox)
              /\ \A k, d : Count(mailbox, k, d) = Count(mailbox', k, d) + One(Head(mailbox), k, d)
  BY <1>a, <1>3, <1>4
<1>13. Handled(<<m>>) =>
              /\ ToSet(mailbox') \subseteq ToSet(mailbox) \cup {m}
              /\ \A k, d : Count(mailbox, k, d) + One(m, k, d)
                           = Count(mailbox', k, d) + One(Head(mailbox), k, d)
  <2> SUFFICES ASSUME Handled(<<m>>), NEW k, NEW d
      PROVE  Count(mailbox, k, d) + One(m, k, d) = Count(mailbox', k, d) + One(Head(mailbox), k, d)
    BY <1>a, <1>3, <1>6
  <2>1. /\ Count(mailbox', k, d) = Count(t, k, d) + One(m, k, d)
        /\ Count(mailbox, k, d) = Count(t, k, d) + One(Head(mailbox), k, d)
    BY <1>a, <1>4, <1>8
  <2> QED BY <1>10, <1>11, <2>1
<1>14. Handled(<<m, n>>) =>
              /\ ToSet(mailbox') \subseteq ToSet(mailbox) \cup {m, n}
              /\ \A k, d : Count(mailbox, k, d) + One(m, k, d) + One(n, k, d)
                           = Count(mailbox', k, d) + One(Head(mailbox), k, d)
  <2> SUFFICES ASSUME Handled(<<m, n>>), NEW k, NEW d
      PROVE  Count(mailbox, k, d) + One(m, k, d) + One(n, k, d)
             = Count(mailbox', k, d) + One(Head(mailbox), k, d)
    BY <1>a, <1>3, <1>7
  <2>1. /\ Count(mailbox', k, d) = Count(t, k, d) + One(m, k, d) + One(n, k, d)
        /\ Count(mailbox, k, d) = Count(t, k, d) + One(Head(mailbox), k, d)
    BY <1>a, <1>4, <1>8, <1>9
  <2> QED BY <1>10, <1>11, <2>1
<1> QED BY <1>1, <1>3, <1>12, <1>13, <1>14

-----------------------------------------------------------------------------
(* Results come from runs *)

CompletionFine(m) == m.kind = "deployment_completed" => m.result \in outcomes[m.sid]
PushFine(m) == m.kind = "result" => m.result \in outcomes[m.sid]

LEMMA FineEverywhere ==
  /\ CompletionsFromRuns <=> \A m \in ToSet(mailbox) : CompletionFine(m)
  /\ ResultsFromRuns <=> \A m \in ToSet(up) : PushFine(m)
BY DEF CompletionsFromRuns, ResultsFromRuns, ToSet, CompletionFine, PushFine

\* Nothing but a task's completion adds a completion to the mailbox, the runs'
\* outcomes are kept, and a result is pushed from a completion.
LEMMA RunsStep ==
  GardenTypeOK /\ CompletionsFromRuns /\ ResultsFromRuns /\ [GardenNext]_gvars
    => CompletionsFromRuns' /\ ResultsFromRuns'
<1> SUFFICES ASSUME GardenTypeOK, CompletionsFromRuns, ResultsFromRuns, [GardenNext]_gvars
             PROVE  CompletionsFromRuns' /\ ResultsFromRuns'
  OBVIOUS
<1>1. /\ mailbox \in Seq(Message) /\ up \in Seq(Push)
      /\ outcomes \in [Id -> SUBSET Results]
  BY DEF GardenTypeOK
<1>2. /\ \A m \in ToSet(mailbox) : CompletionFine(m)
      /\ \A m \in ToSet(up) : PushFine(m)
  BY FineEverywhere
<1>3. SUFFICES /\ \A m \in ToSet(mailbox') : CompletionFine(m)'
               /\ \A m \in ToSet(up') : PushFine(m)'
  BY DEF CompletionsFromRuns, ResultsFromRuns, ToSet, CompletionFine, PushFine
<1>4. ToSet(<<>>) = {}
  BY DEF ToSet
<1>5. ASSUME NEW m \in Push, Pushed(m) PROVE ToSet(up') \subseteq ToSet(up) \cup {m}
  <2>1. ToSet(Append(up, m)) = ToSet(up) \cup {m}
    BY <1>1, ToSetAppend
  <2> QED BY <1>5, <2>1 DEF Pushed
<1> DEFINE Quiet == {m \in Message : m.kind # "deployment_completed"}
<1>6. ASSUME outcomes' = outcomes,
             ToSet(mailbox') \subseteq ToSet(mailbox) \cup Quiet,
             \A m \in ToSet(up') : m \in ToSet(up) \/ PushFine(m)
      PROVE  /\ \A m \in ToSet(mailbox') : CompletionFine(m)'
             /\ \A m \in ToSet(up') : PushFine(m)'
  BY <1>2, <1>6 DEF CompletionFine, PushFine
<1>7. /\ \A k \in {"joined", "disconnected", "report", "check_pending_reload"} : Signal(k) \in Quiet
      /\ \A k \in {"deployment", "run_deployment", "seed"}, d \in Id : About(k, d) \in Quiet
  BY Messages
<1> HIDE DEF Quiet
<1>8. Quiet \subseteq Message
  BY DEF Quiet
<1>9. ASSUME NEW k0, Receive(k0), NEW m \in Quiet, NEW n \in Quiet,
             Handled(<<>>) \/ Handled(<<m>>) \/ Handled(<<m, n>>)
      PROVE  /\ ToSet(mailbox') \subseteq ToSet(mailbox) \cup Quiet
             /\ Head(mailbox) \in ToSet(mailbox) /\ Head(mailbox) \in Message
             /\ Head(mailbox).kind = k0
  <2>1. m \in Message /\ n \in Message
    BY <1>8, <1>9
  <2>2. /\ Head(mailbox) \in Message /\ Head(mailbox) \in ToSet(mailbox) /\ Head(mailbox).kind = k0
        /\ Handled(<<>>) => ToSet(mailbox') \subseteq ToSet(mailbox)
        /\ Handled(<<m>>) => ToSet(mailbox') \subseteq ToSet(mailbox) \cup {m}
        /\ Handled(<<m, n>>) => ToSet(mailbox') \subseteq ToSet(mailbox) \cup {m, n}
    BY <1>1, <1>9, <2>1, HandledEffect
  <2> QED BY <1>9, <2>2
<1>10. ASSUME NEW m \in Quiet, Deliver(m)
       PROVE  ToSet(mailbox') \subseteq ToSet(mailbox) \cup Quiet
  <2>1. m \in Message
    BY <1>8, <1>10
  <2>2. ToSet(mailbox') \subseteq ToSet(mailbox) \cup {m}
    BY <1>1, <1>10, <2>1, Delivered
  <2> QED BY <1>10, <2>2
<1>11. CASE HandleJoin \/ HandleDisconnect \/ Report \/ HandleSeed \/ NotFound
  <2>1. ToSet(mailbox') \subseteq ToSet(mailbox) \cup Quiet
    BY <1>7, <1>9, <1>11 DEF HandleJoin, HandleDisconnect, Report, HandleSeed, NotFound
  <2>2. outcomes' = outcomes /\ up' = up
    BY <1>11 DEF HandleJoin, HandleDisconnect, Report, HandleSeed, NotFound
  <2> QED BY <1>6, <2>1, <2>2
<1>12. CASE HandleDeployment
  <2>1. Head(mailbox).sid \in Id
    <3>1. Head(mailbox) \in Message /\ Head(mailbox).kind = "deployment"
      BY <1>1, <1>12, HeadTailProperties DEF HandleDeployment, Receive
    <3> QED BY <3>1, MessageFields
  <2>2. ToSet(mailbox') \subseteq ToSet(mailbox) \cup Quiet
    <3>1. About("run_deployment", Head(mailbox).sid) \in Quiet
      BY <1>7, <2>1
    <3>2. Handled(<<>>) \/ Handled(<<About("run_deployment", Head(mailbox).sid)>>)
      BY <1>12 DEF HandleDeployment
    <3> QED BY <1>9, <1>12, <3>1, <3>2 DEF HandleDeployment
  <2>3. outcomes' = outcomes /\ up' = up
    BY <1>12 DEF HandleDeployment
  <2> QED BY <1>6, <2>2, <2>3
<1>13. CASE RunDeployment
  <2> DEFINE a == About("ack", Head(mailbox).sid)
  <2>1. /\ ToSet(mailbox') \subseteq ToSet(mailbox) \cup Quiet
        /\ Head(mailbox) \in Message /\ Head(mailbox).kind = "run_deployment"
    BY <1>7, <1>9, <1>13 DEF RunDeployment
  <2>2. a \in Push /\ a.kind = "ack"
    BY <2>1, MessageFields, Messages
  <2>3. ToSet(up') \subseteq ToSet(up) \cup {a}
    BY <1>5, <1>13, <2>2 DEF RunDeployment
  <2>4. PushFine(a)
    BY <2>2 DEF PushFine
  <2>5. outcomes' = outcomes
    BY <1>13 DEF RunDeployment
  <2> HIDE DEF a
  <2> QED BY <1>6, <2>1, <2>3, <2>4, <2>5
<1>14. CASE DeploymentCompleted
  <2> DEFINE h == Head(mailbox)
             a == Outcome("result", h.sid, h.result)
  <2>1. /\ ToSet(mailbox') \subseteq ToSet(mailbox) \cup Quiet
        /\ h \in ToSet(mailbox) /\ h \in Message /\ h.kind = "deployment_completed"
    BY <1>7, <1>9, <1>14 DEF DeploymentCompleted
  <2>2. a \in Push /\ a.kind = "result" /\ a.sid = h.sid /\ a.result = h.result
    BY <2>1, MessageFields, Messages
  <2>3. ToSet(up') \subseteq ToSet(up) \cup {a}
    BY <1>5, <1>14, <2>2 DEF DeploymentCompleted
  <2>4. CompletionFine(h)
    BY <1>2, <2>1
  <2>5. PushFine(a)
    BY <2>1, <2>2, <2>4 DEF PushFine, CompletionFine
  <2>6. outcomes' = outcomes
    BY <1>14 DEF DeploymentCompleted
  <2> HIDE DEF a, h
  <2> QED BY <1>6, <2>1, <2>3, <2>5, <2>6
<1>15. CASE Dies \/ Reboot
  <2>1. mailbox' = <<>> /\ up' = <<>>
    BY <1>15 DEF Dies, Reboot
  <2> QED BY <1>4, <2>1
<1>16. ASSUME NEW ok \in BOOLEAN, CheckPendingReload(ok)
       PROVE  /\ \A m \in ToSet(mailbox') : CompletionFine(m)'
              /\ \A m \in ToSet(up') : PushFine(m)'
  <2>1. ToSet(mailbox') \subseteq ToSet(mailbox) \cup Quiet
    BY <1>7, <1>9, <1>16 DEF CheckPendingReload
  <2>2. outcomes' = outcomes /\ up' = up
    BY <1>16 DEF CheckPendingReload
  <2> QED BY <1>6, <2>1, <2>2
<1>17. CASE Handle
  BY <1>11, <1>12, <1>13, <1>14, <1>15, <1>16, <1>17 DEF Handle, FailedPush
<1>18. ASSUME NEW d \in Id, ReportSeed(d) \/ Frame(d)
       PROVE  /\ \A m \in ToSet(mailbox') : CompletionFine(m)'
              /\ \A m \in ToSet(up') : PushFine(m)'
  <2>1. ToSet(mailbox') \subseteq ToSet(mailbox) \cup Quiet
    BY <1>7, <1>10, <1>18 DEF ReportSeed, Frame
  <2>2. outcomes' = outcomes /\ up' = up
    BY <1>18 DEF ReportSeed, Frame
  <2> QED BY <1>6, <2>1, <2>2
<1>19. ASSUME NEW d \in Id, NEW r \in Results, FinishRun(d, r)
       PROVE  /\ \A m \in ToSet(mailbox') : CompletionFine(m)'
              /\ \A m \in ToSet(up') : PushFine(m)'
  <2> DEFINE c == Outcome("deployment_completed", d, r)
  <2>1. c \in Message /\ c.kind = "deployment_completed" /\ c.sid = d /\ c.result = r
    BY Messages
  <2>2. ToSet(mailbox') \subseteq ToSet(mailbox) \cup {c}
    BY <1>1, <1>19, <2>1, Delivered DEF FinishRun
  <2>3. up' = up /\ r \in outcomes'[d] /\ \A e \in Id : outcomes[e] \subseteq outcomes'[e]
    BY <1>1, <1>19 DEF FinishRun
  <2>4. CompletionFine(c)'
    BY <2>1, <2>3 DEF CompletionFine
  <2>5. ASSUME NEW m \in ToSet(mailbox) PROVE CompletionFine(m)'
    <3>1. m \in Message
      BY <1>1, ElementOfSeq DEF ToSet
    <3>2. m.kind = "deployment_completed" => m.sid \in Id
      BY <3>1, MessageFields
    <3> QED BY <1>2, <2>3, <2>5, <3>2 DEF CompletionFine
  <2>6. ASSUME NEW m \in ToSet(up) PROVE PushFine(m)'
    <3>1. m \in Push
      BY <1>1, ElementOfSeq DEF ToSet
    <3>2. m.kind = "result" => m.sid \in Id
      BY <3>1 DEF Push
    <3> QED BY <1>2, <2>3, <2>6, <3>2 DEF PushFine
  <2> HIDE DEF c
  <2> QED BY <2>2, <2>3, <2>4, <2>5, <2>6
<1>20. CASE Restart
  <2>1. mailbox' = mailbox /\ outcomes' = outcomes /\ up' = up
    BY <1>20 DEF Restart
  <2> QED BY <1>6, <2>1
<1>21. CASE Join \/ RequestReload
  <2>1. ToSet(mailbox') \subseteq ToSet(mailbox) \cup Quiet
    BY <1>7, <1>10, <1>21 DEF Join, RequestReload
  <2>2. outcomes' = outcomes /\ up' = up
    BY <1>21 DEF Join, RequestReload
  <2> QED BY <1>6, <2>1, <2>2
<1>22. CASE Disconnect
  <2>1. ToSet(mailbox') \subseteq ToSet(mailbox) \cup Quiet
    BY <1>7, <1>10, <1>22 DEF Disconnect
  <2>2. outcomes' = outcomes /\ up' = <<>>
    BY <1>22 DEF Disconnect
  <2> QED BY <1>4, <1>6, <2>1, <2>2
<1>23. CASE Arrive
  <2>1. ToSet(up') \subseteq ToSet(up)
    BY <1>1, <1>23, ToSetTail DEF Arrive
  <2>2. mailbox' = mailbox /\ outcomes' = outcomes
    BY <1>23 DEF Arrive
  <2> QED BY <1>6, <2>1, <2>2
<1>24. CASE UNCHANGED gvars
  <2>1. mailbox' = mailbox /\ outcomes' = outcomes /\ up' = up
    BY <1>24 DEF gvars
  <2> QED BY <1>6, <2>1
<1> QED
  BY <1>15, <1>17, <1>18, <1>19, <1>20, <1>21, <1>22, <1>23, <1>24
  DEF GardenNext, Run, DaemonRestart

-----------------------------------------------------------------------------
(* One token for each active deployment *)

Queued(d) == Count(mailbox, "run_deployment", d)
Finished(d) == Count(mailbox, "deployment_completed", d)

LEMMA TokenCounts ==
  ASSUME GardenTypeOK
  PROVE  \A d \in Id : Queued(d) \in Nat /\ Finished(d) \in Nat /\ running[d] \in Nat
                       /\ Tokens(d) = Queued(d) + running[d] + Finished(d)
<1>1. mailbox \in Seq(Message) /\ running \in [Id -> Nat]
  BY DEF GardenTypeOK
<1>2. \A k, d : Count(mailbox, k, d) \in Nat
  BY <1>1, CountNat
<1> QED BY <1>1, <1>2 DEF Tokens, Queued, Finished

\* The messages that hold no token.
LEMMA NoToken ==
  ASSUME NEW m, m.kind \notin {"run_deployment", "deployment_completed"}
  PROVE  \A d : One(m, "run_deployment", d) = 0 /\ One(m, "deployment_completed", d) = 0
BY DEF One

\* Those that do.
LEMMA OneToken ==
  ASSUME NEW m
  PROVE  /\ m.kind = "run_deployment" =>
              \A d : /\ One(m, "run_deployment", d) = IF m.sid = d THEN 1 ELSE 0
                     /\ One(m, "deployment_completed", d) = 0
         /\ m.kind = "deployment_completed" =>
              \A d : /\ One(m, "deployment_completed", d) = IF m.sid = d THEN 1 ELSE 0
                     /\ One(m, "run_deployment", d) = 0
BY DEF One

LEMMA TokensStep ==
  GardenTypeOK /\ GardenTypeOK' /\ TokensInv /\ [GardenNext]_gvars => TokensInv'
<1> SUFFICES ASSUME GardenTypeOK, GardenTypeOK', TokensInv, [GardenNext]_gvars, restarts' = 0
             PROVE  alive' /\ \A d \in Id : Tokens(d)' = IF d \in active' THEN 1 ELSE 0
  BY DEF TokensInv
<1>1. mailbox \in Seq(Message) /\ active \subseteq Id /\ running \in [Id -> Nat] /\ restarts \in Nat
  BY GardenAssumption DEF GardenTypeOK
<1>2. \A d \in Id : Queued(d) \in Nat /\ Finished(d) \in Nat /\ running[d] \in Nat
                       /\ Tokens(d) = Queued(d) + running[d] + Finished(d)
  BY TokenCounts
<1>3. \A d \in Id : Queued(d)' \in Nat /\ Finished(d)' \in Nat /\ running'[d] \in Nat
                       /\ Tokens(d)' = Queued(d)' + running'[d] + Finished(d)'
  <2>1. mailbox' \in Seq(Message) /\ running' \in [Id -> Nat]
    BY DEF GardenTypeOK
  <2>2. \A k, d : Count(mailbox', k, d) \in Nat
    BY <2>1, CountNat
  <2> QED BY <2>1, <2>2 DEF Tokens, Queued, Finished
<1>4. restarts = 0 => alive /\ \A d \in Id : Queued(d) + running[d] + Finished(d) = IF d \in active THEN 1 ELSE 0
  BY <1>2 DEF TokensInv
<1>5. ASSUME restarts = 0, alive',
             \A d \in Id : Queued(d)' + running'[d] + Finished(d)'
                             = IF d \in active' THEN 1 ELSE 0
      PROVE  alive' /\ \A d \in Id : Tokens(d)' = IF d \in active' THEN 1 ELSE 0
  BY <1>3, <1>5
<1> DEFINE Quiet == {m \in Message : m.kind \notin {"run_deployment", "deployment_completed"}}
<1>7. /\ \A k \in {"joined", "disconnected", "report", "check_pending_reload"} : Signal(k) \in Quiet
      /\ \A k \in {"deployment", "seed"}, d \in Id : About(k, d) \in Quiet
  BY Messages
<1>8. Quiet \subseteq Message /\ \A m \in Quiet : m.kind \notin {"run_deployment", "deployment_completed"}
  OBVIOUS
<1> HIDE DEF Quiet
<1>9. ASSUME NEW k0, Receive(k0), NEW m \in Quiet, NEW n \in Quiet,
             Handled(<<>>) \/ Handled(<<m>>) \/ Handled(<<m, n>>)
      PROVE  /\ Head(mailbox) \in Message /\ Head(mailbox).kind = k0
             /\ \A d \in Id : /\ Queued(d) = Queued(d)' + One(Head(mailbox), "run_deployment", d)
                              /\ Finished(d) = Finished(d)' + One(Head(mailbox), "deployment_completed", d)
  <2>1. m \in Message /\ n \in Message
    BY <1>8, <1>9
  <2>2. /\ Head(mailbox) \in Message /\ Head(mailbox).kind = k0
        /\ Handled(<<>>) =>
             \A k, d : Count(mailbox, k, d) = Count(mailbox', k, d) + One(Head(mailbox), k, d)
        /\ Handled(<<m>>) =>
             \A k, d : Count(mailbox, k, d) + One(m, k, d)
                       = Count(mailbox', k, d) + One(Head(mailbox), k, d)
        /\ Handled(<<m, n>>) =>
             \A k, d : Count(mailbox, k, d) + One(m, k, d) + One(n, k, d)
                       = Count(mailbox', k, d) + One(Head(mailbox), k, d)
    BY <1>1, <1>9, <2>1, HandledEffect
  <2>3. \A d : One(m, "run_deployment", d) = 0 /\ One(m, "deployment_completed", d) = 0
    BY <1>8, <1>9, NoToken
  <2>4. \A d : One(n, "run_deployment", d) = 0 /\ One(n, "deployment_completed", d) = 0
    BY <1>8, <1>9, NoToken
  <2>5. \A k, d : Count(mailbox, k, d) \in Nat
    BY <1>1, CountNat
  <2>6. ASSUME NEW k \in {"run_deployment", "deployment_completed"}, NEW d
        PROVE  Count(mailbox, k, d) = Count(mailbox', k, d) + One(Head(mailbox), k, d)
    <3>1. One(m, k, d) = 0 /\ One(n, k, d) = 0 /\ Count(mailbox, k, d) \in Nat
      BY <2>3, <2>4, <2>5, <2>6
    <3>2. \/ Count(mailbox, k, d) = Count(mailbox', k, d) + One(Head(mailbox), k, d)
          \/ Count(mailbox, k, d) + One(m, k, d) = Count(mailbox', k, d) + One(Head(mailbox), k, d)
          \/ Count(mailbox, k, d) + One(m, k, d) + One(n, k, d)
               = Count(mailbox', k, d) + One(Head(mailbox), k, d)
      BY <1>9, <2>2
    <3> QED BY <3>1, <3>2
  <2> QED BY <2>2, <2>6 DEF Queued, Finished
<1>10. ASSUME NEW m \in Quiet, Deliver(m), restarts = 0
       PROVE  \A d \in Id : Queued(d)' = Queued(d) /\ Finished(d)' = Finished(d)
  <2>1. m \in Message
    BY <1>8, <1>10
  <2>2. \A k, d : Count(mailbox', k, d) = Count(mailbox, k, d) + One(m, k, d)
    BY <1>1, <1>4, <1>10, <2>1, Delivered
  <2>3. \A d : One(m, "run_deployment", d) = 0 /\ One(m, "deployment_completed", d) = 0
    BY <1>8, <1>10, NoToken
  <2>4. \A d \in Id : /\ Queued(d)' = Queued(d) + 0
                      /\ Finished(d)' = Finished(d) + 0
    BY <2>2, <2>3 DEF Queued, Finished
  <2> QED BY <1>2, <2>4
\* A message without a token is handled.
<1>11. ASSUME \/ HandleJoin \/ HandleDisconnect \/ Report \/ HandleSeed
              \/ \E ok \in BOOLEAN : CheckPendingReload(ok)
       PROVE  alive' /\ \A d \in Id : Tokens(d)' = IF d \in active' THEN 1 ELSE 0
  <2>1. restarts = 0 /\ alive' = alive /\ active' = active /\ running' = running
    BY <1>11 DEF HandleJoin, HandleDisconnect, Report, HandleSeed, CheckPendingReload
  <2>2. /\ Head(mailbox).kind \notin {"run_deployment", "deployment_completed"}
        /\ \A d \in Id : /\ Queued(d) = Queued(d)' + One(Head(mailbox), "run_deployment", d)
                         /\ Finished(d) = Finished(d)' + One(Head(mailbox), "deployment_completed", d)
    <3>1. PICK k0 \in {"joined", "disconnected", "report", "seed", "check_pending_reload"} :
                Receive(k0) /\ (Handled(<<>>) \/ Handled(<<Signal("report")>>))
      BY <1>11 DEF HandleJoin, HandleDisconnect, Report, HandleSeed, CheckPendingReload
    <3>2. Signal("report") \in Quiet
      BY <1>7
    <3>3. Head(mailbox).kind = k0
      BY <1>9, <3>1, <3>2
    <3>4. k0 \notin {"run_deployment", "deployment_completed"}
      BY <3>1
    <3> QED BY <1>9, <3>1, <3>2, <3>3, <3>4
  <2>3. \A d \in Id : /\ Queued(d) = Queued(d)' + 0
                      /\ Finished(d) = Finished(d)' + 0
    BY <2>2, NoToken
  <2>4. \A d \in Id : Queued(d)' = Queued(d) /\ Finished(d)' = Finished(d)
    BY <1>3, <2>3
  <2> QED BY <1>4, <1>5, <2>1, <2>4
\* A deployment is enqueued unless it is active.
<1>12. CASE HandleDeployment
  <2> DEFINE e == Head(mailbox).sid
             h == Head(mailbox)
             m == About("run_deployment", e)
  <2>1. restarts = 0 /\ alive' = alive /\ active' = active \cup {e} /\ running' = running
    BY <1>12 DEF HandleDeployment
  <2>2. h \in Message /\ h.kind = "deployment" /\ e \in Id
    <3>1. h \in Message /\ h.kind = "deployment"
      BY <1>1, <1>12, HeadTailProperties DEF HandleDeployment, Receive
    <3> QED BY <3>1, MessageFields
  <2>3. m \in Message /\ m.kind = "run_deployment" /\ m.sid = e
    BY <2>2, Messages
  <2>4. \A d : One(h, "run_deployment", d) = 0 /\ One(h, "deployment_completed", d) = 0
    BY <2>2, NoToken
  <2>5. CASE e \in active
    <3>1. Handled(<<>>) /\ Receive("deployment")
      BY <1>12, <2>5 DEF HandleDeployment
    <3>2. \A d \in Id : /\ Queued(d) = Queued(d)' + One(h, "run_deployment", d)
                        /\ Finished(d) = Finished(d)' + One(h, "deployment_completed", d)
      BY <1>7, <1>9, <3>1
    <3>3. \A d \in Id : Queued(d) = Queued(d)' + 0 /\ Finished(d) = Finished(d)' + 0
      BY <2>4, <3>2
    <3>4. \A d \in Id : Queued(d)' = Queued(d) /\ Finished(d)' = Finished(d)
      BY <1>3, <3>3
    <3>5. active' = active
      BY <2>1, <2>5
    <3> QED BY <1>4, <1>5, <2>1, <3>4, <3>5
  <2>6. CASE e \notin active
    <3>1. Handled(<<m>>) /\ Receive("deployment")
      BY <1>12, <2>6 DEF HandleDeployment
    <3>2. \A k, d : Count(mailbox, k, d) + One(m, k, d) = Count(mailbox', k, d) + One(h, k, d)
      BY <1>1, <2>3, <3>1, HandledEffect
    <3>3. \A d : /\ One(m, "run_deployment", d) = IF e = d THEN 1 ELSE 0
                 /\ One(m, "deployment_completed", d) = 0
      BY <2>3, OneToken
    <3>4. \A d \in Id : /\ Queued(d) + (IF e = d THEN 1 ELSE 0) = Queued(d)' + 0
                        /\ Finished(d) + 0 = Finished(d)' + 0
      BY <2>4, <3>2, <3>3 DEF Queued, Finished
    <3> HIDE DEF e, h, m
    <3>5. ASSUME NEW d \in Id
          PROVE  Queued(d)' + running'[d] + Finished(d)' = IF d \in active' THEN 1 ELSE 0
      <4>1. Queued(d) + running[d] + Finished(d) = IF d \in active THEN 1 ELSE 0
        BY <1>4, <2>1
      <4>2. Queued(d)' = Queued(d) + (IF e = d THEN 1 ELSE 0) /\ Finished(d)' = Finished(d)
        BY <1>2, <1>3, <3>4
      <4> QED BY <1>2, <2>1, <2>6, <4>1, <4>2
    <3> QED BY <1>4, <1>5, <2>1, <3>5
  <2> QED BY <2>5, <2>6
\* The queued run becomes a running task.
<1>13. CASE RunDeployment
  <2> DEFINE e == Head(mailbox).sid
             h == Head(mailbox)
  <2>1. restarts = 0 /\ alive' = alive /\ active' = active
        /\ running' = [running EXCEPT ![e] = @ + 1] /\ e \in active
    BY <1>13 DEF RunDeployment
  <2>2. /\ h.kind = "run_deployment"
        /\ \A d \in Id : /\ Queued(d) = Queued(d)' + One(h, "run_deployment", d)
                         /\ Finished(d) = Finished(d)' + One(h, "deployment_completed", d)
    BY <1>7, <1>9, <1>13 DEF RunDeployment
  <2>3. \A d : /\ One(h, "run_deployment", d) = IF e = d THEN 1 ELSE 0
               /\ One(h, "deployment_completed", d) = 0
    BY <2>2, OneToken
  <2>4. \A d \in Id : running'[d] = running[d] + (IF e = d THEN 1 ELSE 0)
    BY <1>1, <2>1
  <2> HIDE DEF e, h
  <2>5. ASSUME NEW d \in Id
        PROVE  Queued(d)' + running'[d] + Finished(d)' = IF d \in active' THEN 1 ELSE 0
    <3>1. Queued(d) + running[d] + Finished(d) = IF d \in active THEN 1 ELSE 0
      BY <1>4, <2>1
    <3>2. /\ Queued(d) = Queued(d)' + (IF e = d THEN 1 ELSE 0) /\ Finished(d) = Finished(d)' + 0
          /\ running'[d] = running[d] + (IF e = d THEN 1 ELSE 0)
      BY <2>2, <2>3, <2>4
    <3> QED BY <1>2, <1>3, <2>1, <3>1, <3>2
  <2> QED BY <1>4, <1>5, <2>1, <2>5
\* The completion is answered and the entry goes with it.
<1>14. CASE DeploymentCompleted
  <2> DEFINE e == Head(mailbox).sid
             h == Head(mailbox)
  <2>1. restarts = 0 /\ alive' = alive /\ active' = active \ {e} /\ running' = running /\ e \in active
    BY <1>14 DEF DeploymentCompleted
  <2>2. /\ h.kind = "deployment_completed"
        /\ \A d \in Id : /\ Queued(d) = Queued(d)' + One(h, "run_deployment", d)
                         /\ Finished(d) = Finished(d)' + One(h, "deployment_completed", d)
    BY <1>7, <1>9, <1>14 DEF DeploymentCompleted
  <2>3. \A d : /\ One(h, "deployment_completed", d) = IF e = d THEN 1 ELSE 0
               /\ One(h, "run_deployment", d) = 0
    BY <2>2, OneToken
  <2> HIDE DEF e, h
  <2>5. ASSUME NEW d \in Id
        PROVE  Queued(d)' + running'[d] + Finished(d)' = IF d \in active' THEN 1 ELSE 0
    <3>1. Queued(d) + running[d] + Finished(d) = IF d \in active THEN 1 ELSE 0
      BY <1>4, <2>1
    <3>2. /\ Finished(d) = Finished(d)' + (IF e = d THEN 1 ELSE 0) /\ Queued(d) = Queued(d)' + 0
          /\ running'[d] = running[d]
      BY <2>1, <2>2, <2>3
    <3>3. CASE d = e
      BY <1>2, <1>3, <2>1, <3>1, <3>2, <3>3
    <3>4. CASE d # e
      BY <1>2, <1>3, <2>1, <3>1, <3>2, <3>4
    <3> QED BY <3>3, <3>4
  <2> QED BY <1>4, <1>5, <2>1, <2>5
\* A process that never died finds the entry of every token.
<1>15. CASE NotFound
  <2> DEFINE e == Head(mailbox).sid
             h == Head(mailbox)
  <2>1. restarts = 0 /\ e \notin active
    BY <1>15 DEF NotFound
  <2>2. /\ h.kind \in {"run_deployment", "deployment_completed"} /\ h \in Message
        /\ \A d \in Id : /\ Queued(d) = Queued(d)' + One(h, "run_deployment", d)
                         /\ Finished(d) = Finished(d)' + One(h, "deployment_completed", d)
    BY <1>7, <1>9, <1>15 DEF NotFound
  <2>3. e \in Id
    BY <2>2, MessageFields
  <2>4. PICK x \in Id : x = e
    BY <2>3
  <2>5. \/ One(h, "run_deployment", x) = 1 /\ One(h, "deployment_completed", x) = 0
        \/ One(h, "run_deployment", x) = 0 /\ One(h, "deployment_completed", x) = 1
    BY <2>2, <2>4, OneToken
  <2> HIDE DEF e, h
  <2>6. Queued(x) + running[x] + Finished(x) = 0
    BY <1>4, <2>1, <2>4
  <2>a. /\ Queued(x) = Queued(x)' + One(h, "run_deployment", x)
        /\ Finished(x) = Finished(x)' + One(h, "deployment_completed", x)
    BY <2>2
  <2>7. FALSE
    BY <1>2, <1>3, <2>5, <2>6, <2>a
  <2> QED BY <2>7
<1>16. CASE Dies
  BY <1>1, <1>16 DEF Dies
<1>17. CASE Reboot
  <2>1. mailbox' = <<>> /\ active' = {} /\ alive' /\ \A d \in Id : running'[d] = 0
    BY <1>17 DEF Reboot
  <2>2. \A d \in Id : Queued(d)' = 0 /\ Finished(d)' = 0
    BY <2>1, CountNone DEF Queued, Finished
  <2> QED BY <1>3, <2>1, <2>2
<1>18. CASE Handle
  BY <1>11, <1>12, <1>13, <1>14, <1>15, <1>16, <1>17, <1>18 DEF Handle, FailedPush
<1>19. ASSUME NEW d \in Id, ReportSeed(d) \/ Frame(d)
       PROVE  alive' /\ \A c \in Id : Tokens(c)' = IF c \in active' THEN 1 ELSE 0
  <2>1. restarts = 0 /\ alive' = alive /\ active' = active /\ running' = running
    BY <1>19 DEF ReportSeed, Frame
  <2>2. \A c \in Id : Queued(c)' = Queued(c) /\ Finished(c)' = Finished(c)
    BY <1>7, <1>10, <1>19, <2>1 DEF ReportSeed, Frame
  <2> QED BY <1>4, <1>5, <2>1, <2>2
\* The running task becomes a completion.
<1>20. ASSUME NEW e \in Id, NEW r \in Results, FinishRun(e, r)
       PROVE  alive' /\ \A d \in Id : Tokens(d)' = IF d \in active' THEN 1 ELSE 0
  <2> DEFINE m == Outcome("deployment_completed", e, r)
  <2>1. restarts = 0 /\ alive' = alive /\ active' = active
        /\ running' = [running EXCEPT ![e] = @ - 1] /\ running[e] > 0
    BY <1>20 DEF FinishRun
  <2>2. m \in Message /\ m.kind = "deployment_completed" /\ m.sid = e
    BY Messages
  <2>3. \A k, d : Count(mailbox', k, d) = Count(mailbox, k, d) + One(m, k, d)
    BY <1>1, <1>4, <1>20, <2>1, <2>2, Delivered DEF FinishRun
  <2>4. \A d : /\ One(m, "deployment_completed", d) = IF e = d THEN 1 ELSE 0
               /\ One(m, "run_deployment", d) = 0
    BY <2>2, OneToken
  <2>5. \A d \in Id : running'[d] = running[d] - (IF e = d THEN 1 ELSE 0)
    BY <1>1, <2>1
  <2> HIDE DEF m
  <2>6. ASSUME NEW d \in Id
        PROVE  Queued(d)' + running'[d] + Finished(d)' = IF d \in active' THEN 1 ELSE 0
    <3>1. Queued(d) + running[d] + Finished(d) = IF d \in active THEN 1 ELSE 0
      BY <1>4, <2>1
    <3>2. /\ Finished(d)' = Finished(d) + (IF e = d THEN 1 ELSE 0) /\ Queued(d)' = Queued(d) + 0
          /\ running'[d] = running[d] - (IF e = d THEN 1 ELSE 0)
      BY <2>3, <2>4, <2>5 DEF Queued, Finished
    <3> QED BY <1>2, <1>3, <2>1, <3>1, <3>2
  <2> QED BY <1>4, <1>5, <2>1, <2>6
<1>21. CASE Restart
  BY <1>4, <1>21 DEF Restart
<1>22. CASE Join \/ Disconnect \/ RequestReload
  <2>1. restarts = 0 /\ alive' = alive /\ active' = active /\ running' = running
    BY <1>22 DEF Join, Disconnect, RequestReload
  <2>2. \A c \in Id : Queued(c)' = Queued(c) /\ Finished(c)' = Finished(c)
    BY <1>7, <1>10, <1>22, <2>1 DEF Join, Disconnect, RequestReload
  <2> QED BY <1>4, <1>5, <2>1, <2>2
<1>23. CASE Arrive \/ UNCHANGED gvars
  <2>1. restarts = 0 /\ alive' = alive /\ active' = active /\ running' = running /\ mailbox' = mailbox
    BY <1>23 DEF Arrive, gvars
  <2>2. \A c \in Id : Queued(c)' = Queued(c) /\ Finished(c)' = Finished(c)
    BY <2>1 DEF Queued, Finished
  <2> QED BY <1>4, <1>5, <2>1, <2>2
<1> QED
  BY <1>17, <1>18, <1>19, <1>20, <1>21, <1>22, <1>23
  DEF GardenNext, Run, DaemonRestart

-----------------------------------------------------------------------------
(* Theorems *)

LEMMA TokensGiveAccount == ASSUME GardenTypeOK, TokensInv PROVE ActiveAccounted
<1> SUFFICES ASSUME restarts = 0, NEW d \in Id
    PROVE  IF d \in active THEN Queued(d) + running[d] + Finished(d) = 1
           ELSE /\ Places(mailbox, "run_deployment", d) = {}
                /\ Places(mailbox, "deployment_completed", d) = {}
                /\ running[d] = 0
  BY DEF ActiveAccounted, Queued, Finished, Count, Places
<1>1. Queued(d) \in Nat /\ Finished(d) \in Nat /\ running[d] \in Nat
      /\ Tokens(d) = Queued(d) + running[d] + Finished(d)
  BY TokenCounts
<1>2. Tokens(d) = IF d \in active THEN 1 ELSE 0
  BY DEF TokensInv
<1>3. CASE d \in active
  BY <1>1, <1>2, <1>3
<1>4. CASE d \notin active
  <2>1. Queued(d) = 0 /\ Finished(d) = 0 /\ running[d] = 0
    BY <1>1, <1>2, <1>4
  <2>2. mailbox \in Seq(Message)
    BY DEF GardenTypeOK
  <2>3. /\ IsFiniteSet(Places(mailbox, "run_deployment", d))
        /\ IsFiniteSet(Places(mailbox, "deployment_completed", d))
    BY <2>2, CountNat
  <2>4. /\ Places(mailbox, "run_deployment", d) = {}
        /\ Places(mailbox, "deployment_completed", d) = {}
    BY <2>1, <2>3, FS_EmptySet DEF Queued, Finished, Count
  <2> QED BY <1>4, <2>1, <2>4
<1> QED BY <1>3, <1>4

\* Only a check of the pending reload sets stopping, when nothing is active;
\* only a received deployment becomes active, and it is late if need be.
LEMMA LateStep == GardenTypeOK /\ LateInv /\ [GardenNext]_gvars => LateInv'
<1> SUFFICES ASSUME GardenTypeOK, LateInv, [GardenNext]_gvars, stopping', restarts' = 0
             PROVE  active' \subseteq late'
  BY DEF LateInv
<1>1. ASSUME restarts = 0, UNCHANGED <<stopping, late>>, active' \subseteq active
      PROVE  active' \subseteq late'
  BY <1>1 DEF LateInv
<1>2. CASE HandleDeployment
  BY <1>2 DEF HandleDeployment, LateInv
<1>3. ASSUME NEW ok \in BOOLEAN, CheckPendingReload(ok) PROVE active' \subseteq late'
  BY <1>3 DEF CheckPendingReload, LateInv
<1>4. CASE Reboot
  BY <1>4 DEF Reboot
<1>5. CASE Dies
  <2>1. restarts' = restarts + 1 /\ restarts \in Nat
    BY <1>5 DEF Dies, GardenTypeOK
  <2> QED BY <2>1
<1>6. CASE \/ HandleJoin \/ HandleDisconnect \/ Report \/ RunDeployment \/ HandleSeed
           \/ DeploymentCompleted \/ NotFound
  BY <1>1, <1>6 DEF HandleJoin, HandleDisconnect, Report, RunDeployment, HandleSeed,
    DeploymentCompleted, NotFound
<1>7. CASE Handle
  BY <1>2, <1>3, <1>4, <1>5, <1>6, <1>7 DEF Handle, FailedPush
<1>8. CASE \E d \in Id : Run(d) \/ Frame(d)
  BY <1>1, <1>8 DEF Run, ReportSeed, FinishRun, Frame
<1>9. CASE Restart \/ Join \/ Disconnect \/ Arrive \/ RequestReload \/ UNCHANGED gvars
  BY <1>1, <1>9 DEF Restart, Join, Disconnect, Arrive, RequestReload, gvars
<1> QED BY <1>4, <1>7, <1>8, <1>9 DEF GardenNext, DaemonRestart

LEMMA GardenInitial == GardenInit => GardenTypeOK /\ GardenInv
<1> SUFFICES ASSUME GardenInit PROVE GardenTypeOK /\ GardenInv
  OBVIOUS
<1>1. GardenTypeOK
  <2>1. <<>> \in Seq(Message) /\ <<>> \in Seq(Push)
    OBVIOUS
  <2>2. running \in [Id -> Nat] /\ outcomes \in [Id -> SUBSET Results]
    BY DEF GardenInit
  <2>3. \A n \in Nat : 0 \in 0..n
    OBVIOUS
  <2> QED BY <2>1, <2>2, <2>3, GardenAssumption DEF GardenInit, GardenTypeOK
<1>2. CompletionsFromRuns /\ ResultsFromRuns
  BY DEF GardenInit, CompletionsFromRuns, ResultsFromRuns
<1>3. \A d \in Id : Queued(d) = 0 /\ Finished(d) = 0 /\ running[d] = 0
  BY CountNone DEF GardenInit, Queued, Finished
<1>4. ASSUME NEW d \in Id PROVE Tokens(d) = 0
  <2>1. Tokens(d) = Queued(d) + running[d] + Finished(d)
    BY <1>1, TokenCounts
  <2> QED BY <1>3, <2>1
<1>5. TokensInv
  BY <1>4 DEF GardenInit, TokensInv
<1>6. LateInv
  BY DEF GardenInit, LateInv
<1> QED BY <1>1, <1>2, <1>5, <1>6 DEF GardenInv

LEMMA GardenInvStep ==
  GardenTypeOK /\ GardenInv /\ [GardenNext]_gvars => (GardenTypeOK /\ GardenInv)'
BY GardenTypeStep, RunsStep, TokensStep, LateStep DEF GardenInv

\* The inductive invariant of the connection process.
THEOREM GardenInvariant == GardenSpec => [](GardenTypeOK /\ GardenInv)
BY GardenInitial, GardenInvStep, PTL DEF GardenSpec

\* The state keeps its types, for any bounds.
THEOREM GardenTypes == GardenSpec => []GardenTypeOK
BY GardenInvariant, PTL

\* Every result on its way to the server is one that a run of that deployment
\* returned, whatever deaths, restarts and duplicates came before it.
THEOREM GardenResults == GardenSpec => []ResultsFromRuns
<1>1. GardenInv => ResultsFromRuns
  BY DEF GardenInv
<1> QED BY <1>1, GardenInvariant, PTL

\* While the process has not died, its active deployments are exactly those
\* enqueued, running or finished and not yet reported.
THEOREM GardenAccount == GardenSpec => []ActiveAccounted
<1>1. GardenTypeOK /\ GardenInv => ActiveAccounted
  BY TokensGiveAccount DEF GardenInv
<1> QED BY <1>1, GardenInvariant, PTL

\* While the process has not died, a restart that systemd may carry out aborts
\* only deployments received after it was asked: check_pending_reload asks
\* active_deployments, a deployment that is accepted or running is always in
\* there, and one that comes later is late.
THEOREM GardenReload == GardenSpec => []ReloadSparesEarlier
<1>1. ASSUME GardenTypeOK, GardenInv, stopping, restarts = 0, NEW d \in Id,
             d \in active \/ running[d] > 0
      PROVE  d \in late
  <2>1. d \in active
    <3>1. SUFFICES ASSUME d \notin active PROVE FALSE
      OBVIOUS
    <3>2. Tokens(d) = 0
      BY <1>1, <3>1 DEF GardenInv, TokensInv
    <3>3. Queued(d) \in Nat /\ Finished(d) \in Nat /\ running[d] \in Nat
          /\ Tokens(d) = Queued(d) + running[d] + Finished(d)
      BY <1>1, TokenCounts
    <3>4. running[d] > 0
      BY <1>1, <3>1
    <3> QED BY <3>2, <3>3, <3>4
  <2> QED BY <1>1, <2>1 DEF GardenInv, LateInv
<1>2. GardenTypeOK /\ GardenInv => ReloadSparesEarlier
  BY <1>1 DEF ReloadSparesEarlier
<1> QED BY <1>2, GardenInvariant, PTL
=============================================================================
