-------------------------- MODULE ActivatorProofs --------------------------
(***************************************************************************)
(* Proofs about the activators, for any number of them, any requests, any  *)
(* amount of output and any number of faults.                              *)
(*                                                                         *)
(* ClientTruth follows from what has run being the start of the plan, with *)
(* code 0 but for the last.  CurrentSwitched needs to know which seeds are *)
(* copied at every point of a services run, UnitsFollowCurrent what        *)
(* systemd runs before and after the one sd-switch of an undisturbed run,  *)
(* and RepliesComplete where every line is that a command printed.         *)
(***************************************************************************)
EXTENDS Activator, FiniteSetTheorems, SequenceTheorems, TLAPS

Working == {"resolve", "next", "stream", "remove", "symlink", "rename"}
Linking == {"remove", "symlink", "rename"}
\* Places of an activation whose request is over.
Left == {"failed", "stuck", "done"}
Runnable == {"nixos", "home-manager", "reboot", "services"}

\* How many commands of the plan of an activation were streamed to their end.
Done(a) == Len(PlanOf(a.req)) - Len(a.todo)

\* Between commands nothing is left of the last one.
Quiet(a) == a.at # "stream" =>
  a.cmd = "none" /\ a.code = Running /\ ~a.open /\ a.pipe = NoLines /\ a.channel = 0

\* What is left to do is the end of the plan.
FollowsPlan(a) == a.at \in Working =>
  /\ a.req.kind \in Runnable /\ Authorized(a.req.peer)
  /\ Len(a.todo) <= Len(PlanOf(a.req))
  /\ \A i \in 1..Len(a.todo) : a.todo[i] = PlanOf(a.req)[Done(a) + i]
  /\ a.at \in {"next", "stream"} => a.todo # <<>>
  /\ a.at = "stream" => a.cmd = a.todo[1]
  /\ a.at = "resolve" => Len(a.todo) = Len(PlanOf(a.req)) /\ a.req.kind = "services"
  /\ a.at \in Linking => a.todo = <<>> /\ a.req.kind = "services"

\* The sequence of commands and codes is a start of the plan, all but the last
\* of them successful.
StartOfPlan(ran, plan) ==
  /\ Len(ran) <= Len(plan)
  /\ \A i \in 1..Len(ran) : ran[i][1] = plan[i] /\ (i < Len(ran) => ran[i][2] = 0)

\* The responses in a sequence of them.
Given(r) == {r[i] : i \in 1..Len(r)}

\* What has run is the start of the plan, each command with code 0 before the
\* next is started.
RanPlan(a) ==
  /\ a.at \in {"listening", "read"} => a.ran = <<>>
  /\ a.at \in Working =>
       /\ Len(a.ran) = Done(a) + (IF a.code = Running THEN 0 ELSE 1)
       /\ \A i \in 1..Done(a) : a.ran[i] = <<PlanOf(a.req)[i], 0>>
       /\ a.code # Running => a.ran[Done(a) + 1] = <<a.cmd, a.code>>
  /\ a.at \in Left =>
       /\ a.ran # <<>> => Authorized(a.req.peer) /\ a.req.kind \in Runnable
       /\ StartOfPlan(a.ran, PlanOf(a.req))
       /\ "complete0" \in Given(a.replies) /\ "note" \notin Given(a.replies) /\ a.req.kind # "network"
            => a.ran = [i \in 1..Len(PlanOf(a.req)) |-> <<PlanOf(a.req)[i], 0>>]

LinesIn(r) == {i \in 1..Len(r) : r[i] = "line"}
LineCount(r) == Cardinality(LinesIn(r))

Total(a) == LineCount(a.replies) + a.lost + a.channel + a.pipe["stdout"] + a.pipe["stderr"]

\* The responses to a request that is not over.
Partly == {"line", "warning", "error"}

\* Only a process that ends completes a request, last of all; and every line is
\* in a pipe, in the channel, lost or read.
Replied(a) ==
  /\ a.at # "done" => \A i \in 1..Len(a.replies) : a.replies[i] \in Partly
  /\ \A i \in 1..Len(a.replies) : a.replies[i] \in Completions => i = Len(a.replies)
  /\ ~a.gone => Total(a) = a.lines

Local(a) == Quiet(a) /\ FollowsPlan(a) /\ RanPlan(a) /\ Replied(a)
LocalInv == \A p \in Proc : Local(act[p])

\* The number of seeds whose cp was started.
Copied(p) == IF act[p].at = "stream" THEN Done(act[p]) + 1 ELSE Done(act[p])

\* The sd-switch of a services run succeeded.
HasSwitched(p) == \/ act[p].at \in Linking
                  \/ act[p].at = "stream" /\ act[p].cmd = "sd-switch" /\ act[p].code = 0

\* A seed whose cp was started has units in the profile, and links name
\* profiles that were switched to, which have units of all their seeds.
Serves(p) == InServices(p) =>
  /\ \A i \in 1..Len(act[p].req.seeds) :
       i <= Copied(p) => files[Hash(p)][act[p].req.seeds[i]] # "absent"
  /\ HasSwitched(p) => Hash(p) \in switched
FilesInv ==
  /\ \A p \in Proc : Serves(p)
  /\ \A h \in switched : \A s \in h : files[h][s] # "absent"
  /\ current # {} => current \in switched
  /\ tmp # {} => tmp \in switched

\* Undisturbed, there is one services run at a time; systemd runs the units of
\* the current profile up to its switch and the new ones afterwards.
UnitsInv ==
  ~disturbed =>
    /\ \A p, q \in Proc : InServices(p) /\ InServices(q) => p = q
    /\ \A p \in Proc : InServices(p) =>
         /\ act[p].old = current
         /\ units = IF HasSwitched(p) THEN Hash(p) ELSE current
         /\ ~(act[p].cmd = "sd-switch" /\ act[p].code = 1)
         /\ act[p].at = "rename" => tmp = Hash(p)
    /\ (\A p \in Proc : ~InServices(p)) => units = current

\* Only services requests with seeds are made.
AskedInv == \A p \in Proc : act[p].req.kind = "services" => act[p].req.seeds # <<>>

ActInv ==
  ActTypeOK /\ AskedInv /\ LocalInv /\ FilesInv /\ UnitsInv
-----------------------------------------------------------------------------
(* The operators of the module *)

\* What a plan consists of: a services plan copies every seed and switches, no
\* other plan does either, and only nixos switches the system.
LEMMA PlanFacts ==
  ASSUME NEW r \in Request
  PROVE  /\ PlanOf(r) \in Seq(Commands)
         /\ Len(PlanOf(r)) \in Nat \ {0}
         /\ r.kind \in Runnable \ {"services"} =>
              \A i \in 1..Len(PlanOf(r)) : PlanOf(r)[i] \notin {"cp", "sd-switch"}
         /\ r.kind = "services" =>
              /\ Len(PlanOf(r)) = Len(r.seeds) + 1
              /\ \A i \in 1..Len(r.seeds) : PlanOf(r)[i] = "cp"
              /\ PlanOf(r)[Len(r.seeds) + 1] = "sd-switch"
         /\ \A i \in 1..Len(PlanOf(r)) : PlanOf(r)[i] = "switch-to-configuration" =>
              i = 2 /\ PlanOf(r)[1] = "nix-env"
<1>1. CASE r.kind = "nixos"
  <2>1. PlanOf(r) = <<"nix-env", "switch-to-configuration">>
    BY <1>1 DEF PlanOf
  <2> QED BY <1>1, <2>1 DEF Commands, Runnable
<1>2. CASE r.kind = "home-manager"
  <2>1. PlanOf(r) = <<"activate">>
    BY <1>2 DEF PlanOf
  <2> QED BY <1>2, <2>1 DEF Commands, Runnable
<1>3. CASE r.kind = "reboot"
  <2>1. PlanOf(r) = <<"reboot">>
    BY <1>3 DEF PlanOf
  <2> QED BY <1>3, <2>1 DEF Commands, Runnable
<1>4. CASE r.kind \notin {"nixos", "home-manager", "reboot"}
  <2> DEFINE n == Len(r.seeds) + 1
             f == [i \in 1..n |-> IF i <= Len(r.seeds) THEN "cp" ELSE "sd-switch"]
  <2>1. PlanOf(r) = f
    BY <1>4 DEF PlanOf
  <2>2. Len(r.seeds) \in Nat
    BY LenProperties DEF Request
  <2>3. f \in [1..n -> Commands]
    BY DEF Commands
  <2>4. n \in Nat \ {0}
    BY <2>2
  <2>5. f \in Seq(Commands) /\ Len(f) = n
    BY <2>3, <2>4, SeqDef, LenProperties
  <2>6. \A i \in 1..n : f[i] = IF i <= Len(r.seeds) THEN "cp" ELSE "sd-switch"
    OBVIOUS
  <2>7. \A i \in 1..Len(r.seeds) : f[i] = "cp"
    BY <2>2, <2>6
  <2>8. f[Len(r.seeds) + 1] = "sd-switch"
    BY <2>2, <2>6
  <2>9. \A i \in 1..n : f[i] # "switch-to-configuration"
    BY <2>6
  <2> HIDE DEF f, n
  <2> QED BY <1>4, <2>1, <2>2, <2>4, <2>5, <2>7, <2>8, <2>9 DEF n, Runnable
<1> QED BY <1>1, <1>2, <1>3, <1>4

\* Counting the lines among responses.
LEMMA LineFacts ==
  ASSUME NEW r \in Seq(Reply)
  PROVE  /\ LineCount(r) \in Nat /\ LineCount(<<>>) = 0
         /\ LineCount(r \o <<"line">>) = LineCount(r) + 1
         /\ \A k \in Seq(Reply) : (\A i \in 1..Len(k) : k[i] # "line") =>
              LineCount(r \o k) = LineCount(r)
<1>1. Len(r) \in Nat
  OBVIOUS
<1>2. IsFiniteSet(1..Len(r)) /\ LinesIn(r) \subseteq 1..Len(r)
  BY <1>1, FS_Interval DEF LinesIn
<1>3. IsFiniteSet(LinesIn(r))
  BY <1>2, FS_Subset
<1>4. LineCount(r) \in Nat
  BY <1>3, FS_CardinalityType DEF LineCount
<1>5. LineCount(<<>>) = 0
  <2>1. LinesIn(<<>>) = {}
    BY DEF LinesIn
  <2> QED BY <2>1, FS_EmptySet DEF LineCount
<1>6. LineCount(r \o <<"line">>) = LineCount(r) + 1
  <2>1. /\ Len(r \o <<"line">>) = Len(r) + 1
        /\ \A i \in 1..Len(r) : (r \o <<"line">>)[i] = r[i]
        /\ (r \o <<"line">>)[Len(r) + 1] = "line"
    BY <1>1 DEF Reply
  <2>2. LinesIn(r \o <<"line">>) = LinesIn(r) \cup {Len(r) + 1}
    BY <2>1, <1>1 DEF LinesIn
  <2>3. Len(r) + 1 \notin LinesIn(r)
    BY <1>1 DEF LinesIn
  <2> QED BY <2>2, <2>3, <1>3, FS_AddElement DEF LineCount
<1>7. ASSUME NEW k \in Seq(Reply), \A i \in 1..Len(k) : k[i] # "line"
      PROVE  LineCount(r \o k) = LineCount(r)
  <2>1. /\ Len(k) \in Nat /\ Len(r \o k) = Len(r) + Len(k)
        /\ \A i \in 1..Len(r) + Len(k) : (r \o k)[i] = IF i <= Len(r) THEN r[i] ELSE k[i - Len(r)]
    BY ConcatProperties, LenProperties
  <2>2. \A i \in 1..Len(r) + Len(k) : i \notin 1..Len(r) => (r \o k)[i] # "line"
    BY <1>1, <1>7, <2>1
  <2>3. LinesIn(r \o k) = LinesIn(r)
    BY <1>1, <2>1, <2>2 DEF LinesIn
  <2> QED BY <2>3 DEF LineCount
<1> QED BY <1>4, <1>5, <1>6, <1>7

-----------------------------------------------------------------------------
(* What a process that ends leaves *)

\* What ran before a process ends is a start of its plan, and it had a plan if
\* anything ran.
LEMMA RanStarts ==
  ASSUME NEW a \in Activation, FollowsPlan(a), RanPlan(a), Quiet(a)
  PROVE  /\ StartOfPlan(a.ran, PlanOf(a.req))
         /\ a.ran # <<>> => Authorized(a.req.peer) /\ a.req.kind \in Runnable
<1> DEFINE plan == PlanOf(a.req)
<1>1. /\ a.req \in Request /\ a.ran \in Seq(Commands \X {0, 1}) /\ a.todo \in Seq(Commands)
      /\ a.code \in {0, 1, Running}
      /\ a.at \in {"listening", "read"} \cup Left \cup Working
  BY DEF Activation, Working, Left, Place, Code, Exited
<1>2. Len(plan) \in Nat /\ Len(a.ran) \in Nat /\ Len(a.todo) \in Nat
  BY <1>1, PlanFacts, LenProperties
<1>3. CASE a.at \in {"listening", "read"}
  BY <1>2, <1>3 DEF RanPlan, StartOfPlan
<1>4. CASE a.at \in Left
  BY <1>4 DEF RanPlan
<1>5. CASE a.at \in Working
  <2> DEFINE d == Done(a)
  <2>1. d \in Nat /\ d <= Len(plan) /\ d = Len(plan) - Len(a.todo)
    <3>1. d = Len(plan) - Len(a.todo)
      BY DEF Done
    <3>2. Len(a.todo) <= Len(plan)
      BY <1>5 DEF FollowsPlan
    <3>3. \A m, n \in Nat : m <= n => n - m \in Nat /\ n - m <= n
      OBVIOUS
    <3> HIDE DEF d, plan
    <3> QED BY <3>1, <3>2, <3>3, <1>2
  <2>2. /\ \A i \in 1..d : a.ran[i] = <<plan[i], 0>>
        /\ Len(a.ran) = d + (IF a.code = Running THEN 0 ELSE 1)
        /\ a.code # Running => a.ran[d + 1] = <<a.cmd, a.code>>
    BY <1>5 DEF RanPlan
  <2>3. ASSUME a.code # Running
        PROVE  d + 1 <= Len(plan) /\ a.cmd = plan[d + 1]
    <3>1. a.at = "stream"
      BY <2>3 DEF Quiet
    <3>2. a.todo # <<>> /\ a.cmd = a.todo[1]
      BY <3>1, <1>5 DEF FollowsPlan
    <3>3. Len(a.todo) > 0
      BY <3>2, <1>1, EmptySeq
    <3>4. a.todo[1] = plan[d + 1]
      BY <3>3, <1>2, <1>5 DEF FollowsPlan
    <3> QED BY <2>1, <1>2, <3>2, <3>3, <3>4
  <2> HIDE DEF d, plan
  <2>4. StartOfPlan(a.ran, plan)
    <3>1. Len(a.ran) <= Len(plan)
      <4>1. CASE a.code = Running
        BY <4>1, <1>2, <2>1, <2>2
      <4>2. CASE a.code # Running
        <5>1. Len(a.ran) = d + 1 /\ d + 1 <= Len(plan)
          BY <4>2, <2>2, <2>3
        <5> QED BY <5>1
      <4> QED BY <4>1, <4>2
    <3>2. ASSUME NEW i \in 1..Len(a.ran)
          PROVE  a.ran[i][1] = plan[i] /\ (i < Len(a.ran) => a.ran[i][2] = 0)
      <4>1. CASE i \in 1..d
        BY <4>1, <2>2
      <4>2. CASE i \notin 1..d
        <5>1. a.code # Running /\ i = d + 1 /\ i = Len(a.ran)
          BY <4>2, <1>2, <2>1, <2>2
        <5>2. a.ran[i] = <<plan[i], a.code>>
          BY <5>1, <2>2, <2>3
        <5> QED BY <5>1, <5>2, <1>2
      <4> QED BY <4>1, <4>2
    <3> QED BY <3>1, <3>2 DEF StartOfPlan
  <2> QED BY <2>4, <1>5 DEF FollowsPlan, plan
<1> QED BY <1>1, <1>3, <1>4, <1>5

\* Responses appended to those of a process that has not ended.
LEMMA RepliesEnd ==
  ASSUME NEW r \in Seq(Reply), \A i \in 1..Len(r) : r[i] \in Partly,
         NEW k \in Seq(Reply), \A i \in 1..Len(k) : k[i] \in Completions => i = Len(k)
  PROVE  /\ r \o k \in Seq(Reply)
         /\ \A i \in 1..Len(r \o k) : (r \o k)[i] \in Completions => i = Len(r \o k)
         /\ \A x \in Reply \ Partly :
              x \in Given(r \o k) <=> x \in Given(k)
<1>1. /\ Len(r) \in Nat /\ Len(k) \in Nat /\ Len(r \o k) = Len(r) + Len(k) /\ r \o k \in Seq(Reply)
      /\ \A i \in 1..Len(r) + Len(k) : (r \o k)[i] = IF i <= Len(r) THEN r[i] ELSE k[i - Len(r)]
  BY ConcatProperties, LenProperties
<1>2. \A i \in 1..Len(r \o k) : (r \o k)[i] \in Completions => i = Len(r \o k)
  <2> SUFFICES ASSUME NEW i \in 1..Len(r) + Len(k), (r \o k)[i] \in Completions
               PROVE  i = Len(r) + Len(k)
    BY <1>1
  <2>1. i > Len(r)
    BY <1>1 DEF Completions, Partly
  <2>2. i - Len(r) \in 1..Len(k) /\ k[i - Len(r)] \in Completions
    <3>1. i - Len(r) \in 1..Len(k)
      BY <2>1, <1>1
    <3>2. (r \o k)[i] = k[i - Len(r)]
      BY <2>1, <1>1
    <3> QED BY <3>1, <3>2
  <2>3. i - Len(r) = Len(k)
    BY <2>2
  <2> QED BY <2>3, <1>1
<1>3. ASSUME NEW x \in Reply \ Partly
      PROVE  x \in Given(r \o k) <=> x \in Given(k)
  <2>1. ASSUME NEW i \in 1..Len(r) + Len(k), (r \o k)[i] = x
        PROVE  \E j \in 1..Len(k) : k[j] = x
    <3>1. i - Len(r) \in 1..Len(k) /\ k[i - Len(r)] = x
      BY <2>1, <1>1
    <3> QED BY <3>1
  <2>2. ASSUME NEW j \in 1..Len(k), k[j] = x
        PROVE  \E i \in 1..Len(r) + Len(k) : (r \o k)[i] = x
    <3>1. j + Len(r) \in 1..Len(r) + Len(k) /\ (r \o k)[j + Len(r)] = x
      BY <2>2, <1>1
    <3> QED BY <3>1
  <2> QED BY <2>1, <2>2, <1>1 DEF Given
<1> QED BY <1>1, <1>2, <1>3

LEMMA NewTyped == NewProc \in Activation
<1>1. NoLines \in [Stream -> Nat] /\ NoRequest \in Request
  BY DEF NoLines, NoRequest, Request, Peer, Kind
<1> QED BY <1>1 DEF Activation, NewProc, Running, Commands, Place, Code

\* A process that fails or ends, with responses that complete its request at most once;
\* with exit code 0 only when all of its plan succeeded.
LEMMA LeaveLocal ==
  ASSUME NEW p \in Proc, act[p] \in Activation, Local(act[p]), act[p].at # "done",
         act[p].pipe = NoLines, act[p].channel = 0, NEW at \in {"failed", "done"},
         NEW k \in Seq(Reply), \A i \in 1..Len(k) : k[i] # "line" /\ (k[i] \in Completions => i = Len(k)),
         at = "failed" => \A i \in 1..Len(k) : k[i] = "error",
         "complete0" \in Given(k) /\ "note" \notin Given(k) /\ act[p].req.kind # "network"
           => act[p].ran = [i \in 1..Len(PlanOf(act[p].req)) |-> <<PlanOf(act[p].req)[i], 0>>]
  PROVE  Leave(p, at, k) \in Activation /\ Local(Leave(p, at, k))
<1> DEFINE a == act[p]
           b == Leave(p, at, k)
<1>1. /\ b.at = at /\ b.req = a.req /\ b.lines = a.lines /\ b.lost = a.lost /\ b.ran = a.ran
      /\ b.gone = a.gone /\ b.cmd = "none" /\ b.code = Running /\ b.open = FALSE
      /\ b.pipe = NoLines /\ b.channel = 0
      /\ b.replies = IF a.gone THEN a.replies ELSE a.replies \o k
  BY DEF Leave, NewProc, Sent
<1>2. /\ a.replies \in Seq(Reply) /\ \A i \in 1..Len(a.replies) : a.replies[i] \in Partly
      /\ a.gone \in BOOLEAN
  BY DEF Activation, Local, Replied
<1>3. b \in Activation
  <2>1. b.replies = Sent(p, k) /\ b.replies \in Seq(Reply)
    BY <1>1, <1>2, RepliesEnd DEF Sent
  <2>2. NewProc \in Activation /\ at \in Place
    BY NewTyped DEF Place
  <2>3. Sent(p, k) \in Seq(Reply)
    BY <2>1
  <2> HIDE DEF a, b
  <2>4. Leave(p, at, k) \in Activation
    BY <2>2, <2>3 DEF Leave, Activation
  <2> QED BY <2>4 DEF b
<1> HIDE DEF b
<1>4. Quiet(b)
  BY <1>1 DEF Quiet
<1>5. FollowsPlan(b)
  BY <1>1 DEF FollowsPlan, Working
<1>6. RanPlan(b)
  <2>1. /\ StartOfPlan(a.ran, PlanOf(a.req))
        /\ a.ran # <<>> => Authorized(a.req.peer) /\ a.req.kind \in Runnable
    BY RanStarts DEF Local
  <2>2. ASSUME "complete0" \in Given(b.replies), "note" \notin Given(b.replies), b.req.kind # "network"
        PROVE  b.ran = [i \in 1..Len(PlanOf(b.req)) |-> <<PlanOf(b.req)[i], 0>>]
    <3>1. CASE a.gone
      <4>1. \A x \in Given(a.replies) : x \in Partly
        BY <1>2 DEF Given
      <4>2. b.replies = a.replies
        BY <3>1, <1>1
      <4>3. "complete0" \in Given(a.replies)
        BY <4>2, <2>2
      <4> QED BY <4>1, <4>3 DEF Partly
    <3>2. CASE ~a.gone
      <4>1. b.replies = a.replies \o k
        BY <3>2, <1>1
      <4>2. {"complete0", "note"} \subseteq Reply \ Partly
        BY DEF Reply, Partly
      <4>3. \A x \in Reply \ Partly : x \in Given(a.replies \o k) <=> x \in Given(k)
        BY <1>2, RepliesEnd
      <4>4. "complete0" \in Given(k) /\ "note" \notin Given(k)
        BY <2>2, <4>1, <4>2, <4>3
      <4> QED BY <4>4, <2>2, <1>1
    <3> QED BY <3>1, <3>2
  <2> QED BY <2>1, <2>2, <1>1 DEF RanPlan, Working, Left
<1>7. Replied(b)
  <2>1. \A i \in 1..Len(b.replies) : b.replies[i] \in Completions => i = Len(b.replies)
    <3>1. CASE a.gone
      BY <3>1, <1>1, <1>2 DEF Completions, Partly
    <3>2. CASE ~a.gone
      <4>1. b.replies = a.replies \o k
        BY <3>2, <1>1
      <4>2. \A i \in 1..Len(a.replies \o k) :
              (a.replies \o k)[i] \in Completions => i = Len(a.replies \o k)
        BY <1>1, <1>2, RepliesEnd
      <4> QED BY <4>1, <4>2
    <3> QED BY <3>1, <3>2
  <2>2. ASSUME ~b.gone
        PROVE  Total(b) = b.lines
    <3>1. LineCount(b.replies) = LineCount(a.replies)
      BY <2>2, <1>1, <1>2, LineFacts
    <3>2. Total(a) = a.lines
      BY <2>2, <1>1 DEF Local, Replied
    <3>3. Total(b) = Total(a)
      BY <3>1, <1>1 DEF Total
    <3> QED BY <3>2, <3>3, <1>1
  <2>3. ASSUME b.at # "done"
        PROVE  \A i \in 1..Len(b.replies) : b.replies[i] \in Partly
    <3>1. \A i \in 1..Len(k) : k[i] \in Partly
      BY <2>3, <1>1 DEF Partly
    <3>2. CASE a.gone
      BY <3>2, <1>1, <1>2
    <3>3. CASE ~a.gone
      <4>1. /\ Len(a.replies) \in Nat /\ Len(k) \in Nat /\ Len(a.replies \o k) = Len(a.replies) + Len(k)
            /\ \A i \in 1..Len(a.replies) + Len(k) :
                 (a.replies \o k)[i] = IF i <= Len(a.replies) THEN a.replies[i] ELSE k[i - Len(a.replies)]
        BY <1>2, ConcatProperties, LenProperties
      <4>2. b.replies = a.replies \o k
        BY <3>3, <1>1
      <4>3. ASSUME NEW i \in 1..Len(a.replies) + Len(k), ~(i <= Len(a.replies))
            PROVE  (a.replies \o k)[i] \in Partly
        <5>1. i - Len(a.replies) \in 1..Len(k)
          BY <4>3, <4>1
        <5> QED BY <5>1, <4>1, <4>3, <3>1
      <4>4. ASSUME NEW i \in 1..Len(a.replies) + Len(k), i <= Len(a.replies)
            PROVE  (a.replies \o k)[i] \in Partly
        <5>1. i \in 1..Len(a.replies)
          BY <4>4, <4>1
        <5> QED BY <5>1, <4>1, <4>4, <1>2
      <4> QED BY <4>1, <4>2, <4>3, <4>4
    <3> QED BY <3>2, <3>3, <1>2
  <2> QED BY <2>1, <2>2, <2>3, <1>1 DEF Replied
<1> QED BY <1>3, <1>4, <1>5, <1>6, <1>7 DEF Local, b

\* The same, of the two ways there are.
LEMMA OverLocal ==
  ASSUME NEW p \in Proc, act[p] \in Activation, Local(act[p]), act[p].at # "done",
         act[p].pipe = NoLines, act[p].channel = 0,
         NEW k \in Seq(Reply), \A i \in 1..Len(k) : k[i] # "line" /\ (k[i] \in Completions => i = Len(k)),
         "complete0" \in Given(k) /\ "note" \notin Given(k) /\ act[p].req.kind # "network"
           => act[p].ran = [i \in 1..Len(PlanOf(act[p].req)) |-> <<PlanOf(act[p].req)[i], 0>>]
  PROVE  Over(p, k) \in Activation /\ Local(Over(p, k))
BY LeaveLocal DEF Over

LEMMA FailedLocal ==
  ASSUME NEW p \in Proc, act[p] \in Activation, Local(act[p]), act[p].at # "done",
         act[p].pipe = NoLines, act[p].channel = 0
  PROVE  Failed(p) \in Activation /\ Local(Failed(p))
<1> DEFINE k == <<"error">>
<1>1. k \in Seq(Reply) /\ \A i \in 1..Len(k) : k[i] = "error"
  BY DEF Reply
<1>2. "complete0" \notin Given(k)
  BY <1>1 DEF Given
<1>3. \A i \in 1..Len(k) : k[i] # "line" /\ (k[i] \in Completions => i = Len(k))
  BY <1>1 DEF Completions
<1>4. Failed(p) = Leave(p, "failed", k)
  BY DEF Failed
<1> HIDE DEF k
<1> QED BY <1>1, <1>2, <1>3, <1>4, LeaveLocal

-----------------------------------------------------------------------------
(* Each action keeps the local invariant of its process *)

Stepped(p) ==
  /\ act' \in [Proc -> Activation]
  /\ Local(act'[p]) /\ \A q \in Proc \ {p} : act'[q] = act[q]

LEMMA EndsStepped ==
  ASSUME ActTypeOK, NEW p \in Proc, Local(act[p]), act[p].at \notin {"done", "stream"},
         NEW k \in Seq(Reply), \A i \in 1..Len(k) : k[i] # "line" /\ (k[i] \in Completions => i = Len(k)),
         "complete0" \in Given(k) /\ "note" \notin Given(k) /\ act[p].req.kind # "network"
           => act[p].ran = [i \in 1..Len(PlanOf(act[p].req)) |-> <<PlanOf(act[p].req)[i], 0>>],
         Ends(p, k)
  PROVE  Stepped(p)
<1>1. act[p] \in Activation /\ act \in [Proc -> Activation]
  BY DEF ActTypeOK
<1>2. act[p].pipe = NoLines /\ act[p].channel = 0
  BY DEF Local, Quiet
<1>3. Over(p, k) \in Activation /\ Local(Over(p, k))
  BY <1>1, <1>2, OverLocal
<1> QED BY <1>1, <1>3 DEF Ends, Stepped

LEMMA ErrsStepped ==
  ASSUME ActTypeOK, NEW p \in Proc, Local(act[p]), act[p].at \notin {"done", "stream"}, Errs(p)
  PROVE  Stepped(p)
<1>1. act[p] \in Activation /\ act \in [Proc -> Activation]
  BY DEF ActTypeOK
<1>2. act[p].pipe = NoLines /\ act[p].channel = 0
  BY DEF Local, Quiet
<1>3. Failed(p) \in Activation /\ Local(Failed(p))
  BY <1>1, <1>2, FailedLocal
<1> QED BY <1>1, <1>3 DEF Errs, Stepped

\* Steps that touch neither the plan nor what has run.
SamePlan(a, b) == /\ b.at = a.at /\ b.req = a.req /\ b.todo = a.todo
                  /\ b.cmd = a.cmd /\ b.code = a.code /\ b.ran = a.ran

LEMMA PlanKept ==
  ASSUME NEW a, NEW b, SamePlan(a, b), FollowsPlan(a), RanPlan(a),
         a.at \in Left => b.replies = a.replies
  PROVE  FollowsPlan(b) /\ RanPlan(b)
<1>1. Done(b) = Done(a)
  BY DEF Done, SamePlan
<1>2. FollowsPlan(b)
  BY <1>1 DEF FollowsPlan, SamePlan
<1> QED BY <1>1, <1>2 DEF RanPlan, SamePlan

\* What a command prints and where its lines go.
LEMMA OutputStepped ==
  ASSUME ActTypeOK, NEW p \in Proc, Local(act[p]),
         \/ Close(p) \/ Relay(p)
         \/ \E s \in Stream : WriteLine(p, s) \/ Pump(p, s) \/ PumpStops(p, s)
  PROVE  Stepped(p)
<1> DEFINE a == act[p]
           b == act'[p]
<1>1. a \in Activation /\ act \in [Proc -> Activation]
  BY DEF ActTypeOK
<1>2. /\ a.pipe \in [Stream -> Nat] /\ a.channel \in Nat /\ a.lines \in Nat /\ a.lost \in Nat
      /\ a.replies \in Seq(Reply) /\ a.deaf \in SUBSET Stream
  BY <1>1 DEF Activation
<1>3. a.at = "stream"
  <2>1. CASE a.open \/ a.at = "stream"
    BY <2>1 DEF Local, Quiet
  <2>2. CASE a.channel > 0
    BY <2>2 DEF Local, Quiet
  <2>3. CASE \E s \in Stream : a.pipe[s] > 0
    BY <2>3 DEF Local, Quiet, NoLines
  <2> QED BY <2>1, <2>2, <2>3 DEF Close, Relay, WriteLine, Pump, PumpStops
<1>4. LineCount(a.replies) \in Nat /\ (~a.gone => Total(a) = a.lines)
  BY <1>2, LineFacts DEF Local, Replied
<1>5. \A i \in 1..Len(a.replies) : a.replies[i] \in Partly
  BY <1>3 DEF Local, Replied
<1>6. ASSUME act' \in [Proc -> Activation], \A q \in Proc \ {p} : act'[q] = act[q], SamePlan(a, b),
             b.gone = a.gone, b.replies = a.replies,
             ~a.gone => Total(b) = b.lines
      PROVE  Stepped(p)
  <2>1. Quiet(b)
    BY <1>3, <1>6 DEF Quiet, SamePlan
  <2>2. FollowsPlan(b) /\ RanPlan(b)
    BY <1>3, <1>6, PlanKept DEF Local, Left
  <2>3. Replied(b)
    BY <1>3, <1>6 DEF Replied, SamePlan, Local
  <2> QED BY <1>6, <2>1, <2>2, <2>3 DEF Stepped, Local
<1>7. CASE Close(p)
  <2>1. act' \in [Proc -> Activation] /\ \A q \in Proc \ {p} : act'[q] = act[q]
    BY <1>1, <1>7 DEF Close, Activation
  <2>2. SamePlan(a, b) /\ b.gone = a.gone /\ b.replies = a.replies /\ Total(b) = Total(a) /\ b.lines = a.lines
    BY <1>1, <1>7 DEF Close, SamePlan, Total
  <2> QED BY <1>4, <1>6, <2>1, <2>2
<1>8. ASSUME NEW s \in Stream, WriteLine(p, s)
      PROVE  Stepped(p)
  <2>1. b.pipe = [a.pipe EXCEPT ![s] = @ + 1] /\ b.lines = a.lines + 1
    BY <1>1, <1>8 DEF WriteLine, Activation
  <2>2. b.pipe \in [Stream -> Nat] /\ b.lines \in Nat
    BY <1>2, <2>1
  <2>3. act' \in [Proc -> Activation] /\ \A q \in Proc \ {p} : act'[q] = act[q]
    BY <1>1, <1>8, <2>1, <2>2 DEF WriteLine, Activation
  <2>4. SamePlan(a, b) /\ b.gone = a.gone /\ b.replies = a.replies /\ b.lost = a.lost /\ b.channel = a.channel
    BY <1>1, <1>8 DEF WriteLine, SamePlan, Activation
  <2>5. ~a.gone => Total(b) = b.lines
    <3>1. b.pipe["stdout"] + b.pipe["stderr"] = a.pipe["stdout"] + a.pipe["stderr"] + 1
      <4>1. \A x \in Stream : b.pipe[x] = IF x = s THEN a.pipe[x] + 1 ELSE a.pipe[x]
        BY <1>2, <2>1
      <4>2. a.pipe["stdout"] \in Nat /\ a.pipe["stderr"] \in Nat
        BY <1>2 DEF Stream
      <4> HIDE DEF a, b
      <4> QED BY <4>1, <4>2 DEF Stream
    <3>2. /\ a.pipe["stdout"] \in Nat /\ a.pipe["stderr"] \in Nat
          /\ b.pipe["stdout"] \in Nat /\ b.pipe["stderr"] \in Nat /\ a.pipe[s] \in Nat
      BY <1>2, <2>2 DEF Stream
    <3>4. LineCount(b.replies) = LineCount(a.replies) /\ LineCount(a.replies) \in Nat
      BY <1>4, <2>4
    <3> HIDE DEF a, b
    <3>5. Total(b) = Total(a) + 1
      <4>1. Total(a) = LineCount(a.replies) + a.lost + a.channel + a.pipe["stdout"] + a.pipe["stderr"]
        BY DEF Total
      <4>2. Total(b) = LineCount(b.replies) + b.lost + b.channel + b.pipe["stdout"] + b.pipe["stderr"]
        BY DEF Total
      <4>3. b.lost \in Nat /\ b.channel \in Nat /\ a.lost \in Nat /\ a.channel \in Nat
        BY <1>2, <2>1, <2>4
      <4> QED BY <4>1, <4>2, <4>3, <2>1, <2>4, <3>1, <3>2, <3>4
    <3> QED BY <1>4, <2>1, <2>4, <3>5
  <2> QED BY <1>6, <2>3, <2>4, <2>5
<1>9. ASSUME NEW s \in Stream, Pump(p, s)
      PROVE  Stepped(p)
  <2>1. b.pipe = [a.pipe EXCEPT ![s] = @ - 1] /\ b.channel = a.channel + 1 /\ a.pipe[s] > 0
    BY <1>1, <1>9 DEF Pump, Activation
  <2>2. b.pipe \in [Stream -> Nat] /\ b.channel \in Nat
    BY <1>2, <2>1
  <2>3. act' \in [Proc -> Activation] /\ \A q \in Proc \ {p} : act'[q] = act[q]
    BY <1>1, <1>9, <2>1, <2>2 DEF Pump, Activation
  <2>4. SamePlan(a, b) /\ b.gone = a.gone /\ b.replies = a.replies /\ b.lost = a.lost /\ b.lines = a.lines
    BY <1>1, <1>9 DEF Pump, SamePlan, Activation
  <2>5. ~a.gone => Total(b) = b.lines
    <3>1. b.pipe["stdout"] + b.pipe["stderr"] + 1 = a.pipe["stdout"] + a.pipe["stderr"]
      BY <1>2, <2>1 DEF Stream
    <3>2. /\ a.pipe["stdout"] \in Nat /\ a.pipe["stderr"] \in Nat
          /\ b.pipe["stdout"] \in Nat /\ b.pipe["stderr"] \in Nat /\ a.pipe[s] \in Nat
      BY <1>2, <2>2 DEF Stream
    <3>4. LineCount(b.replies) = LineCount(a.replies) /\ LineCount(a.replies) \in Nat
      BY <1>4, <2>4
    <3> HIDE DEF a, b
    <3>5. Total(b) = Total(a)
      <4>1. Total(a) = LineCount(a.replies) + a.lost + a.channel + a.pipe["stdout"] + a.pipe["stderr"]
        BY DEF Total
      <4>2. Total(b) = LineCount(b.replies) + b.lost + b.channel + b.pipe["stdout"] + b.pipe["stderr"]
        BY DEF Total
      <4>3. b.lost \in Nat /\ b.channel \in Nat /\ a.lost \in Nat /\ a.channel \in Nat
        BY <1>2, <2>1, <2>4
      <4> QED BY <4>1, <4>2, <4>3, <2>1, <2>4, <3>1, <3>2, <3>4
    <3> QED BY <1>4, <2>1, <2>4, <3>5
  <2> QED BY <1>6, <2>3, <2>4, <2>5
<1>10. ASSUME NEW s \in Stream, PumpStops(p, s)
       PROVE  Stepped(p)
  <2>1. b.pipe = [a.pipe EXCEPT ![s] = 0] /\ b.lost = a.lost + a.pipe[s] /\ b.deaf = a.deaf \cup {s}
    BY <1>1, <1>10 DEF PumpStops, Activation
  <2>2. b.pipe \in [Stream -> Nat] /\ b.lost \in Nat /\ b.deaf \in SUBSET Stream
    BY <1>2, <2>1
  <2>3. act' \in [Proc -> Activation] /\ \A q \in Proc \ {p} : act'[q] = act[q]
    BY <1>1, <1>10, <2>1, <2>2, ZenonT(60) DEF PumpStops, Activation
  <2>4. SamePlan(a, b) /\ b.gone = a.gone /\ b.replies = a.replies /\ b.channel = a.channel /\ b.lines = a.lines
    BY <1>1, <1>10 DEF PumpStops, SamePlan, Activation
  <2>5. ~a.gone => Total(b) = b.lines
    <3>1. b.pipe["stdout"] + b.pipe["stderr"] + a.pipe[s] = a.pipe["stdout"] + a.pipe["stderr"]
      BY <1>2, <2>1 DEF Stream
    <3>2. /\ a.pipe["stdout"] \in Nat /\ a.pipe["stderr"] \in Nat
          /\ b.pipe["stdout"] \in Nat /\ b.pipe["stderr"] \in Nat /\ a.pipe[s] \in Nat
      BY <1>2, <2>2 DEF Stream
    <3>4. LineCount(b.replies) = LineCount(a.replies) /\ LineCount(a.replies) \in Nat
      BY <1>4, <2>4
    <3> HIDE DEF a, b
    <3>5. Total(b) = Total(a)
      <4>1. Total(a) = LineCount(a.replies) + a.lost + a.channel + a.pipe["stdout"] + a.pipe["stderr"]
        BY DEF Total
      <4>2. Total(b) = LineCount(b.replies) + b.lost + b.channel + b.pipe["stdout"] + b.pipe["stderr"]
        BY DEF Total
      <4>3. b.lost \in Nat /\ b.channel \in Nat /\ a.lost \in Nat /\ a.channel \in Nat
        BY <1>2, <2>1, <2>4
      <4> QED BY <4>1, <4>2, <4>3, <2>1, <2>4, <3>1, <3>2, <3>4
    <3> QED BY <1>4, <2>1, <2>4, <3>5
  <2> QED BY <1>6, <2>3, <2>4, <2>5
<1>11. CASE Relay(p)
  <2> DEFINE k == <<"line">>
  <2>0. k \in Seq(Reply) /\ Len(k) = 1 /\ k[1] = "line"
    BY DEF Reply
  <2>1. b.channel = a.channel - 1 /\ a.channel > 0 /\ b.replies = Sent(p, k)
    BY <1>1, <1>11 DEF Relay
  <2>2. b.channel \in Nat
    BY <1>2, <2>1
  <2>3. b.replies = (IF a.gone THEN a.replies ELSE a.replies \o k) /\ b.replies \in Seq(Reply)
    BY <1>2, <2>0, <2>1 DEF Sent
  <2>4. act' \in [Proc -> Activation] /\ \A q \in Proc \ {p} : act'[q] = act[q]
    <3>1. Sent(p, k) \in Seq(Reply)
      BY <2>1, <2>3
    <3> QED BY <1>1, <1>11, <2>1, <2>2, <3>1 DEF Relay, Activation
  <2>5. SamePlan(a, b) /\ b.gone = a.gone /\ b.lost = a.lost /\ b.lines = a.lines /\ b.pipe = a.pipe
    BY <1>1, <1>11 DEF Relay, SamePlan
  <2> HIDE DEF k
  <2>6. \A i \in 1..Len(b.replies) : b.replies[i] \in Partly
    <3>1. CASE a.gone
      BY <3>1, <2>3, <1>5
    <3>2. CASE ~a.gone
      <4>1. Len(a.replies) \in Nat
        BY <1>2, LenProperties
      <4>2. /\ Len(a.replies \o k) = Len(a.replies) + 1
            /\ \A i \in 1..Len(a.replies) + 1 :
                 (a.replies \o k)[i] = IF i <= Len(a.replies) THEN a.replies[i] ELSE k[i - Len(a.replies)]
        <5>1. /\ Len(a.replies \o k) = Len(a.replies) + Len(k)
              /\ \A i \in 1..Len(a.replies) + Len(k) :
                 (a.replies \o k)[i] = IF i <= Len(a.replies) THEN a.replies[i] ELSE k[i - Len(a.replies)]
          BY <1>2, <2>0, ConcatProperties
        <5> QED BY <5>1, <2>0
      <4>3. \A i \in 1..Len(a.replies) + 1 : (a.replies \o k)[i] \in Partly
        <5> SUFFICES ASSUME NEW i \in 1..Len(a.replies) + 1
                     PROVE  (a.replies \o k)[i] \in Partly
          OBVIOUS
        <5>1. CASE i <= Len(a.replies)
          BY <5>1, <4>1, <4>2, <1>5
        <5>2. CASE i > Len(a.replies)
          <6>1. i - Len(a.replies) = 1
            BY <5>2, <4>1
          <6>2. (a.replies \o k)[i] = k[1]
            BY <6>1, <5>2, <4>1, <4>2
          <6> QED BY <6>2, <2>0 DEF Partly
        <5>3. i <= Len(a.replies) \/ i > Len(a.replies)
          BY <4>1
        <5> QED BY <5>1, <5>2, <5>3
      <4> QED BY <4>2, <4>3, <3>2, <2>3
    <3> QED BY <3>1, <3>2
  <2>7. ASSUME ~a.gone
        PROVE  Total(b) = b.lines
    <3>1. LineCount(a.replies \o k) = LineCount(a.replies) + 1
      BY <1>2, LineFacts DEF k
    <3>2. b.replies = a.replies \o k
      BY <2>3, <2>7
    <3>3. a.pipe["stdout"] \in Nat /\ a.pipe["stderr"] \in Nat
      BY <1>2 DEF Stream
    <3> HIDE DEF a, b
    <3>5. Total(b) = Total(a)
      <4>1. Total(a) = LineCount(a.replies) + a.lost + a.channel + a.pipe["stdout"] + a.pipe["stderr"]
        BY DEF Total
      <4>2. Total(b) = LineCount(b.replies) + b.lost + b.channel + b.pipe["stdout"] + b.pipe["stderr"]
        BY DEF Total
      <4>3. b.lost \in Nat /\ b.channel \in Nat /\ a.lost \in Nat /\ a.channel \in Nat
        BY <1>2, <2>2, <2>5
      <4>4. b.channel + 1 = a.channel
        BY <1>2, <2>1
      <4>5. LineCount(b.replies) = LineCount(a.replies) + 1 /\ LineCount(a.replies) \in Nat
        BY <3>1, <3>2, <1>4
      <4>6. b.lost = a.lost /\ b.pipe = a.pipe
        BY <2>5
      <4> QED BY <4>1, <4>2, <4>3, <4>4, <4>5, <4>6, <3>3
    <3> QED BY <3>5, <2>5, <2>7, <1>4
  <2>8. Quiet(b)
    BY <1>3, <2>5 DEF Quiet, SamePlan
  <2>9. FollowsPlan(b) /\ RanPlan(b)
    BY <1>3, <2>5, PlanKept DEF Local, Left
  <2>10. Replied(b)
    BY <1>3, <2>5, <2>6, <2>7 DEF Replied, SamePlan, Completions, Partly
  <2> QED BY <2>4, <2>8, <2>9, <2>10 DEF Stepped, Local
<1> QED BY <1>7, <1>8, <1>9, <1>10, <1>11

\* The request is answered without running anything.
LEMMA RequestStepped ==
  ASSUME ActTypeOK, ActivatorAssumption, NEW p \in Proc, Local(act[p]),
         (\E r \in Requests[p] : Accept(p, r)) \/ NetworkRequest(p) \/ Refuse(p)
  PROVE  Stepped(p)
<1>1. act \in [Proc -> Activation]
  BY DEF ActTypeOK
<1>2. /\ <<>> \in Seq(Reply) /\ Len(<<>>) = 0
      /\ \A x \in Reply : <<x>> \in Seq(Reply) /\ Len(<<x>>) = 1 /\ <<x>>[1] = x
      /\ <<"note", "complete0">> \in Seq(Reply) /\ <<"error", "complete1">> \in Seq(Reply)
  BY DEF Reply
<1>3. ASSUME NEW r \in Requests[p], Accept(p, r)
      PROVE  Stepped(p)
  <2> DEFINE b == act'[p]
             New(at, replies) == [NewProc EXCEPT !.at = at, !.req = r, !.replies = replies]
  <2>1. r \in Request
    BY DEF ActivatorAssumption
  <2>2. PICK at \in {"done", "read"}, k \in {<<>>, <<"error">>} :
               act' = [act EXCEPT ![p] = New(at, k)] /\ (at = "read" => k = <<>>)
    BY <1>3 DEF Accept
  <2>3. k \in Seq(Reply) /\ at \in Place
    BY <1>2 DEF Place, Reply
  <2>4. New(at, k) \in Activation
    BY <2>1, <2>3, NewTyped DEF Activation
  <2>5. act' \in [Proc -> Activation] /\ b = New(at, k) /\ \A q \in Proc \ {p} : act'[q] = act[q]
    BY <1>1, <2>2, <2>4
  <2>6. /\ b.at = at /\ b.req = r /\ b.replies = k /\ b.cmd = "none" /\ b.code = Running
        /\ ~b.open /\ b.pipe = NoLines /\ b.channel = 0 /\ b.ran = <<>> /\ b.lost = 0 /\ b.lines = 0
    BY <2>5 DEF NewProc
  <2> HIDE DEF b, New
  <2>7. Quiet(b) /\ FollowsPlan(b)
    BY <2>6 DEF Quiet, FollowsPlan, Working
  <2>8. RanPlan(b)
    <3>1. Len(PlanOf(r)) \in Nat
      BY <2>1, PlanFacts
    <3>2. StartOfPlan(<<>>, PlanOf(r))
      BY <3>1 DEF StartOfPlan
    <3>3. "complete0" \notin Given(k)
      BY DEF Given
    <3> QED BY <2>6, <3>2, <3>3 DEF RanPlan, Working, Left
  <2>9. Replied(b)
    <3>1. LineCount(k) = 0
      <4>1. CASE k = <<>>
        BY <4>1, <1>2, LineFacts
      <4>2. CASE k = <<"error">>
        <5>1. LinesIn(k) = {}
          BY <4>2 DEF LinesIn
        <5> QED BY <5>1, FS_EmptySet DEF LineCount
      <4> QED BY <4>1, <4>2
    <3>2. Total(b) = b.lines
      BY <2>6, <3>1 DEF Total, NoLines, Stream
    <3>3. \A i \in 1..Len(k) : k[i] \notin Completions
      BY DEF Completions
    <3>4. b.at # "done" => \A i \in 1..Len(b.replies) : b.replies[i] \in Partly
      BY <2>2, <2>6
    <3> QED BY <2>6, <3>2, <3>3, <3>4 DEF Replied
  <2> QED BY <2>5, <2>7, <2>8, <2>9 DEF Stepped, Local, b
<1>4. ASSUME act[p].at = "read", NEW k \in Seq(Reply),
             k \in {<<"error">>, <<"complete0">>, <<"note", "complete0">>, <<"error", "complete1">>},
             act[p].req.kind = "network" \/ k = <<"error">>, Ends(p, k)
      PROVE  Stepped(p)
  <2>1. \A i \in 1..Len(k) : k[i] # "line" /\ (k[i] \in Completions => i = Len(k))
    <3>1. CASE k \in {<<"error">>, <<"complete0">>}
      BY <3>1 DEF Completions
    <3>2. CASE k = <<"note", "complete0">>
      BY <3>2 DEF Completions
    <3>3. CASE k = <<"error", "complete1">>
      BY <3>3 DEF Completions
    <3> QED BY <1>4, <3>1, <3>2, <3>3
  <2>2. ~("complete0" \in Given(k) /\ "note" \notin Given(k) /\ act[p].req.kind # "network")
    <3>1. "complete0" \notin Given(<<"error">>)
      BY DEF Given
    <3> QED BY <3>1, <1>4
  <2> QED BY <1>4, <2>1, <2>2, EndsStepped
<1>5. CASE NetworkRequest(p)
  BY <1>2, <1>4, <1>5 DEF NetworkRequest, Reply
<1>6. CASE Refuse(p)
  BY <1>2, <1>4, <1>6 DEF Refuse, Reply
<1> QED BY <1>3, <1>5, <1>6

\* Fields that tell how a process moves on between commands.
SameRest(a, b) == /\ b.req = a.req /\ b.cmd = a.cmd /\ b.code = a.code /\ b.ran = a.ran
                  /\ b.open = a.open /\ b.pipe = a.pipe /\ b.channel = a.channel /\ b.gone = a.gone
                  /\ b.replies = a.replies /\ b.lost = a.lost /\ b.lines = a.lines

LEMMA MoveStepped ==
  ASSUME ActTypeOK, NEW p \in Proc, Local(act[p]), act' \in [Proc -> Activation],
         \A q \in Proc \ {p} : act'[q] = act[q], SameRest(act[p], act'[p]),
         act[p].at \notin Left \cup {"stream"}, act'[p].at \in Working \ {"stream"},
         FollowsPlan(act'[p]), Done(act'[p]) = Len(act[p].ran)
  PROVE  Stepped(p)
<1> DEFINE a == act[p]
           b == act'[p]
<1>1. Quiet(b) /\ a.code = Running
  BY DEF Quiet, Local, SameRest
<1>2. Replied(b)
  BY DEF Replied, Total, Local, SameRest, Left
<1>3. RanPlan(b)
  <2>1. a \in Activation
    BY DEF ActTypeOK
  <2>2. Len(a.ran) \in Nat
    BY <2>1, LenProperties DEF Activation
  <2>3. \A i \in 1..Len(a.ran) : a.ran[i] = <<PlanOf(a.req)[i], 0>>
    <3>1. CASE a.at \in {"listening", "read"}
      <4>1. a.ran = <<>>
        BY <3>1 DEF Local, RanPlan
      <4> QED BY <4>1
    <3>2. CASE a.at \in Working
      <4>1. Len(PlanOf(a.req)) \in Nat /\ Len(a.todo) \in Nat
        BY <2>1, PlanFacts, LenProperties DEF Activation
      <4>2. Done(a) \in Int
        BY <4>1 DEF Done
      <4>3. Len(a.ran) = Done(a) + 0 /\ \A i \in 1..Done(a) : a.ran[i] = <<PlanOf(a.req)[i], 0>>
        BY <1>1, <3>2 DEF Local, RanPlan
      <4> QED BY <4>2, <4>3
    <3> QED BY <2>1, <3>1, <3>2 DEF Activation, Place, Working, Left
  <2> QED BY <1>1, <2>2, <2>3 DEF RanPlan, SameRest, Working, Left
<1> QED BY <1>1, <1>2, <1>3 DEF Stepped, Local

LEMMA BeginStepped ==
  ASSUME ActTypeOK, NEW p \in Proc, Local(act[p]), Begin(p)
  PROVE  Stepped(p)
<1> DEFINE a == act[p]
           b == act'[p]
           plan == PlanOf(a.req)
<1>1. a \in Activation /\ act \in [Proc -> Activation] /\ a.req \in Request
  BY DEF ActTypeOK, Activation
<1>2. plan \in Seq(Commands) /\ Len(plan) \in Nat \ {0}
  BY <1>1, PlanFacts
<1>3. /\ b.todo = plan /\ b.at = (IF a.req.kind = "services" THEN "resolve" ELSE "next")
      /\ SameRest(a, b)
  BY <1>1 DEF Begin, SameRest
<1>4. act' \in [Proc -> Activation] /\ \A q \in Proc \ {p} : act'[q] = act[q]
  BY <1>1, <1>2 DEF Begin, Activation, Place
<1>5. Done(b) = 0
  BY <1>2, <1>3 DEF Done, SameRest
<1>6. a.ran = <<>>
  BY DEF Begin, Local, RanPlan
<1>7. FollowsPlan(b)
  <2>1. b.req = a.req /\ b.req.kind \in Runnable /\ Authorized(b.req.peer)
    BY <1>3 DEF Begin, Runnable, SameRest
  <2>2. \A i \in 1..Len(b.todo) : b.todo[i] = PlanOf(b.req)[Done(b) + i]
    BY <1>2, <1>3, <1>5, <2>1
  <2>3. b.todo # <<>>
    BY <1>2, <1>3
  <2> QED BY <1>2, <1>3, <2>1, <2>2, <2>3 DEF FollowsPlan, Linking
<1> QED BY <1>3, <1>4, <1>5, <1>6, <1>7, MoveStepped DEF Begin, Working, Left

LEMMA DoneFacts ==
  ASSUME NEW a \in Activation, a.at \in Working, FollowsPlan(a)
  PROVE  /\ Done(a) \in Nat /\ Len(a.todo) \in Nat /\ Len(PlanOf(a.req)) \in Nat \ {0}
         /\ Done(a) + Len(a.todo) = Len(PlanOf(a.req))
         /\ a.req \in Request /\ a.todo \in Seq(Commands) /\ a.ran \in Seq(Exited)
<1>1. a.req \in Request /\ a.todo \in Seq(Commands) /\ a.ran \in Seq(Exited)
  BY DEF Activation
<1>2. Len(PlanOf(a.req)) \in Nat \ {0} /\ Len(a.todo) \in Nat
  BY <1>1, PlanFacts, LenProperties
<1>3. Len(a.todo) <= Len(PlanOf(a.req))
  BY DEF FollowsPlan
<1>4. \A m, n \in Nat : m <= n => n - m \in Nat /\ (n - m) + m = n
  OBVIOUS
<1> QED BY <1>1, <1>2, <1>3, <1>4 DEF Done

\* The steps of a services run on the links.
LEMMA LinkStepped ==
  ASSUME ActTypeOK, NEW p \in Proc, Local(act[p]),
         ResolveCurrent(p) \/ RemoveTmp(p) \/ Symlink(p) \/ Rename(p)
  PROVE  Stepped(p)
<1> DEFINE a == act[p]
           b == act'[p]
<1>1. a \in Activation /\ act \in [Proc -> Activation]
  BY DEF ActTypeOK
<1>2. a.at \in Working \ {"stream"}
  BY DEF ResolveCurrent, RemoveTmp, Symlink, Rename, Working
<1>3. /\ Done(a) \in Nat /\ Len(a.todo) \in Nat /\ Len(PlanOf(a.req)) \in Nat \ {0}
      /\ Done(a) + Len(a.todo) = Len(PlanOf(a.req))
      /\ a.req \in Request /\ a.todo \in Seq(Commands) /\ a.ran \in Seq(Exited)
  BY <1>1, <1>2, DoneFacts DEF Local
<1>4. Len(a.ran) = Done(a) /\ \A i \in 1..Done(a) : a.ran[i] = <<PlanOf(a.req)[i], 0>>
  <2>1. a.code = Running
    BY <1>2 DEF Local, Quiet
  <2>2. Len(a.ran) = Done(a) + 0 /\ \A i \in 1..Done(a) : a.ran[i] = <<PlanOf(a.req)[i], 0>>
    BY <1>2, <2>1 DEF Local, RanPlan
  <2> QED BY <2>2, <1>3
<1>5. ASSUME act' \in [Proc -> Activation], \A q \in Proc \ {p} : act'[q] = act[q], SameRest(a, b),
             b.todo = a.todo,
             \/ a.at = "resolve" /\ b.at = "next"
             \/ a.at \in Linking /\ b.at \in Linking
      PROVE  Stepped(p)
  <2>1. Done(b) = Len(a.ran)
    BY <1>4, <1>5 DEF Done, SameRest
  <2>2. /\ a.req.kind \in Runnable /\ Authorized(a.req.peer)
        /\ Len(a.todo) <= Len(PlanOf(a.req))
        /\ \A i \in 1..Len(a.todo) : a.todo[i] = PlanOf(a.req)[Done(a) + i]
        /\ a.at \in Linking => a.todo = <<>> /\ a.req.kind = "services"
    BY <1>2 DEF Local, FollowsPlan
  <2>3. a.at = "resolve" => a.todo # <<>>
    <3>1. a.at = "resolve" => Len(a.todo) = Len(PlanOf(a.req))
      BY <1>2 DEF Local, FollowsPlan
    <3> QED BY <3>1, <1>3
  <2>4. FollowsPlan(b)
    BY <1>5, <2>2, <2>3 DEF FollowsPlan, SameRest, Linking, Done
  <2> QED BY <1>2, <1>5, <2>1, <2>4, MoveStepped DEF Working, Linking, Left
<1>6. CASE Errs(p)
  BY <1>2, <1>6, ErrsStepped DEF Working
<1>7. CASE ResolveCurrent(p) /\ ~Errs(p)
  <2>1. CASE Ends(p, <<"note", "note", "complete0">>)
    <3> DEFINE k == <<"note", "note", "complete0">>
    <3>1. k \in Seq(Reply) /\ Len(k) = 3 /\ k[1] = "note" /\ k[2] = "note" /\ k[3] = "complete0"
      BY DEF Reply
    <3>2. "note" \in Given(k)
      BY <3>1 DEF Given
    <3>3. \A i \in 1..Len(k) : k[i] # "line" /\ (k[i] \in Completions => i = Len(k))
      BY <3>1 DEF Completions
    <3>4. Ends(p, k)
      BY <2>1
    <3> HIDE DEF k
    <3> QED BY <1>2, <3>1, <3>2, <3>3, <3>4, EndsStepped DEF Working
  <2>2. CASE act' = [act EXCEPT ![p].at = "next", ![p].old = current]
    <3>1. current \in SUBSET Seed /\ "next" \in Place
      BY DEF ActTypeOK, Place
    <3>2. act' \in [Proc -> Activation] /\ \A q \in Proc \ {p} : act'[q] = act[q]
      BY <1>1, <2>2, <3>1 DEF Activation
    <3>3. SameRest(a, b) /\ b.todo = a.todo /\ b.at = "next"
      BY <1>1, <2>2 DEF SameRest
    <3>4. a.at = "resolve"
      BY <1>7 DEF ResolveCurrent
    <3> QED BY <1>5, <3>2, <3>3, <3>4
  <2> QED BY <1>7, <2>1, <2>2 DEF ResolveCurrent
<1>8. CASE (RemoveTmp(p) \/ Symlink(p)) /\ ~Errs(p)
  <2>1. PICK at \in {"symlink", "rename"} : act' = [act EXCEPT ![p].at = at]
    BY <1>8 DEF RemoveTmp, Symlink
  <2>2. at \in Place /\ at \in Linking /\ a.at \in Linking
    BY <1>8 DEF Place, Linking, RemoveTmp, Symlink
  <2>3. act' \in [Proc -> Activation] /\ \A q \in Proc \ {p} : act'[q] = act[q]
    BY <1>1, <2>1, <2>2 DEF Activation
  <2>4. SameRest(a, b) /\ b.todo = a.todo /\ b.at = at
    BY <1>1, <2>1 DEF SameRest
  <2> QED BY <1>5, <2>2, <2>3, <2>4
<1>9. CASE Rename(p) /\ ~Errs(p)
  <2> DEFINE k == <<"complete0">>
  <2>1. k \in Seq(Reply) /\ Len(k) = 1 /\ k[1] = "complete0"
    BY DEF Reply
  <2>2. \A i \in 1..Len(k) : k[i] # "line" /\ (k[i] \in Completions => i = Len(k))
    BY <2>1
  <2>3. a.todo = <<>>
    BY <1>2, <1>9 DEF Rename, Local, FollowsPlan, Linking
  <2>4. Done(a) = Len(PlanOf(a.req))
    BY <1>3, <2>3
  <2>5. a.ran = [i \in 1..Len(PlanOf(a.req)) |-> <<PlanOf(a.req)[i], 0>>]
    <3>1. a.ran \in [1..Len(a.ran) -> Exited]
      BY <1>3, LenProperties
    <3> QED BY <3>1, <1>4, <2>4
  <2>6. Ends(p, k)
    BY <1>9 DEF Rename
  <2> HIDE DEF k
  <2> QED BY <1>2, <2>1, <2>2, <2>5, <2>6, EndsStepped DEF Working
<1> QED BY <1>6, <1>7, <1>8, <1>9

LEMMA SpawnStepped ==
  ASSUME ActTypeOK, NEW p \in Proc, Local(act[p]), Spawn(p) \/ SpawnFails(p)
  PROVE  Stepped(p)
<1> DEFINE a == act[p]
           b == act'[p]
<1>1. a \in Activation /\ act \in [Proc -> Activation]
  BY DEF ActTypeOK
<1>2. CASE SpawnFails(p)
  BY <1>2, ErrsStepped DEF SpawnFails
<1>3. CASE Spawn(p)
  <2>1. a.at = "next" /\ a.todo # <<>> /\ a.at \in Working
    BY <1>3 DEF Spawn, Working
  <2>2. /\ Done(a) \in Nat /\ Len(a.todo) \in Nat /\ a.todo \in Seq(Commands)
        /\ a.req \in Request /\ Len(PlanOf(a.req)) \in Nat
    BY <1>1, <2>1, DoneFacts DEF Local
  <2>3. a.code = Running /\ a.pipe = NoLines /\ a.channel = 0
    BY <2>1 DEF Local, Quiet
  <2>4. a.replies \in Seq(Reply) /\ \A i \in 1..Len(a.replies) : a.replies[i] \in Partly
    BY <1>1, <2>1 DEF Activation, Local, Replied
  <2>5. PICK k \in {<<>>, <<"warning", "warning">>}, fresh \in BOOLEAN :
          act' = [act EXCEPT ![p].at = "stream", ![p].cmd = Head(a.todo), ![p].code = Running,
                             ![p].fresh = fresh, ![p].open = TRUE, ![p].replies = Sent(p, k)]
    BY <1>3 DEF Spawn
  <2>6. k \in Seq(Reply) /\ \A i \in 1..Len(k) : k[i] \in Partly /\ k[i] # "line"
    <3>1. CASE k = <<>>
      BY <3>1
    <3>2. CASE k = <<"warning", "warning">>
      BY <3>2 DEF Reply, Partly
    <3> QED BY <3>1, <3>2
  <2>7. /\ a.replies \o k \in Seq(Reply)
        /\ \A i \in 1..Len(a.replies \o k) : (a.replies \o k)[i] \in Partly
    <3>1. /\ a.replies \o k \in Seq(Reply) /\ Len(a.replies) \in Nat /\ Len(k) \in Nat
          /\ Len(a.replies \o k) = Len(a.replies) + Len(k)
          /\ \A i \in 1..Len(a.replies) + Len(k) :
                 (a.replies \o k)[i] = IF i <= Len(a.replies) THEN a.replies[i] ELSE k[i - Len(a.replies)]
      BY <2>4, <2>6, ConcatProperties, LenProperties
    <3>2. ASSUME NEW i \in 1..Len(a.replies) + Len(k)
          PROVE  (a.replies \o k)[i] \in Partly
      <4>1. CASE i <= Len(a.replies)
        BY <4>1, <3>1, <2>4
      <4>2. CASE ~(i <= Len(a.replies))
        <5>1. i - Len(a.replies) \in 1..Len(k)
          BY <4>2, <3>1
        <5> QED BY <5>1, <4>2, <3>1, <2>6
      <4> QED BY <4>1, <4>2
    <3> QED BY <3>1, <3>2
  <2>8. Sent(p, k) \in Seq(Reply) /\ \A i \in 1..Len(Sent(p, k)) : Sent(p, k)[i] \in Partly
    BY <2>4, <2>7 DEF Sent
  <2>9. Head(a.todo) \in Commands /\ Head(a.todo) = a.todo[1]
    BY <2>1, <2>2, HeadTailProperties
  <2>10. act' \in [Proc -> Activation] /\ \A q \in Proc \ {p} : act'[q] = act[q]
    <3>1. "stream" \in Place /\ Running \in Code
      BY DEF Place, Code
    <3> QED BY <1>1, <2>5, <2>8, <2>9, <3>1, ZenonT(60) DEF Activation
  <2>11. /\ b.at = "stream" /\ b.cmd = Head(a.todo) /\ b.code = Running /\ b.replies = Sent(p, k)
         /\ b.req = a.req /\ b.todo = a.todo /\ b.ran = a.ran /\ b.pipe = a.pipe
         /\ b.channel = a.channel /\ b.lost = a.lost /\ b.lines = a.lines /\ b.gone = a.gone
    BY <1>1, <2>5
  <2> HIDE DEF b
  <2>12. Quiet(b) /\ Done(b) = Done(a)
    BY <2>11 DEF Quiet, Done
  <2>13. FollowsPlan(b)
    BY <2>1, <2>9, <2>11, <2>12 DEF Local, FollowsPlan, Working, Linking
  <2>14. RanPlan(b)
    BY <2>1, <2>3, <2>11, <2>12 DEF Local, RanPlan, Working, Left
  <2>15. Replied(b)
    <3>1. ASSUME ~a.gone
          PROVE  Total(b) = b.lines
      <4>1. LineCount(b.replies) = LineCount(a.replies)
        BY <2>4, <2>6, <2>11, <3>1, LineFacts DEF Sent
      <4>2. Total(a) = a.lines
        BY <3>1 DEF Local, Replied
      <4> QED BY <4>1, <4>2, <2>11 DEF Total
    <3> QED BY <2>8, <2>11, <3>1 DEF Replied, Completions, Partly
  <2> QED BY <2>10, <2>12, <2>13, <2>14, <2>15 DEF Stepped, Local, b
<1> QED BY <1>2, <1>3

LEMMA ExitStepped ==
  ASSUME ActTypeOK, NEW p \in Proc, Local(act[p]), NEW status, ExitCommand(p, status)
  PROVE  Stepped(p)
<1> DEFINE a == act[p]
           b == act'[p]
           c == ExitCode(status)
<1>1. a \in Activation /\ act \in [Proc -> Activation]
  BY DEF ActTypeOK
<1>2. a.at = "stream" /\ a.at \in Working /\ a.code = Running
  BY DEF ExitCommand, Local, Quiet, Working
<1>3. /\ Done(a) \in Nat /\ Len(a.todo) \in Nat /\ a.todo \in Seq(Commands)
      /\ Done(a) + Len(a.todo) = Len(PlanOf(a.req))
      /\ a.req \in Request /\ Len(PlanOf(a.req)) \in Nat /\ a.ran \in Seq(Exited)
  BY <1>1, <1>2, DoneFacts DEF Local
<1>4. c \in {0, 1} /\ c \in Code /\ c # Running
  BY DEF ExitCode, Code, Running
<1>5. a.cmd = a.todo[1] /\ a.todo # <<>>
  BY <1>2 DEF Local, FollowsPlan
<1>6. a.cmd \in Commands /\ <<a.cmd, c>> \in Exited
  <2>1. a.todo[1] \in Commands
    BY <1>3, <1>5
  <2> QED BY <2>1, <1>4, <1>5 DEF Exited
<1>7. Len(a.ran) = Done(a) /\ \A i \in 1..Done(a) : a.ran[i] = <<PlanOf(a.req)[i], 0>>
  <2>1. Len(a.ran) = Done(a) + 0 /\ \A i \in 1..Done(a) : a.ran[i] = <<PlanOf(a.req)[i], 0>>
    BY <1>2 DEF Local, RanPlan
  <2> QED BY <2>1, <1>3
<1>8. /\ b.code = c /\ b.ran = Append(a.ran, <<a.cmd, c>>)
      /\ b.at = a.at /\ b.req = a.req /\ b.todo = a.todo /\ b.cmd = a.cmd /\ b.pipe = a.pipe
      /\ b.channel = a.channel /\ b.lost = a.lost /\ b.lines = a.lines /\ b.gone = a.gone
      /\ b.replies = a.replies
  BY <1>1 DEF ExitCommand
<1>9. /\ Append(a.ran, <<a.cmd, c>>) \in Seq(Exited)
      /\ Len(b.ran) = Done(a) + 1 /\ b.ran[Done(a) + 1] = <<a.cmd, c>>
      /\ \A i \in 1..Done(a) : b.ran[i] = a.ran[i]
  <2>1. /\ Append(a.ran, <<a.cmd, c>>) \in Seq(Exited)
        /\ Len(Append(a.ran, <<a.cmd, c>>)) = Len(a.ran) + 1
        /\ \A i \in 1..Len(a.ran) : Append(a.ran, <<a.cmd, c>>)[i] = a.ran[i]
        /\ Append(a.ran, <<a.cmd, c>>)[Len(a.ran) + 1] = <<a.cmd, c>>
    BY <1>3, <1>6, AppendProperties
  <2> QED BY <2>1, <1>7, <1>8
<1>10. act' \in [Proc -> Activation] /\ \A q \in Proc \ {p} : act'[q] = act[q]
  BY <1>1, <1>4, <1>9 DEF ExitCommand, Activation
<1> HIDE DEF b
<1>11. Quiet(b) /\ Done(b) = Done(a)
  BY <1>2, <1>8 DEF Quiet, Done
<1>12. FollowsPlan(b)
  BY <1>8, <1>11 DEF Local, FollowsPlan
<1>13. RanPlan(b)
  BY <1>2, <1>4, <1>7, <1>8, <1>9, <1>11 DEF RanPlan, Working, Left
<1>14. Replied(b)
  BY <1>8 DEF Local, Replied, Total
<1> QED BY <1>10, <1>11, <1>12, <1>13, <1>14 DEF Stepped, Local, b

LEMMA FaultStepped ==
  ASSUME ActTypeOK, NEW p \in Proc, Local(act[p]), Disconnect(p) \/ Kill(p)
  PROVE  Stepped(p)
<1> DEFINE a == act[p]
           b == act'[p]
<1>1. a \in Activation /\ act \in [Proc -> Activation]
  BY DEF ActTypeOK
<1>2. a.at # "done" /\ TRUE \in BOOLEAN
  BY DEF Disconnect, Kill
<1>3. CASE Disconnect(p)
  <2>1. act' \in [Proc -> Activation] /\ \A q \in Proc \ {p} : act'[q] = act[q]
    BY <1>1, <1>3 DEF Disconnect, Activation
  <2>2. SamePlan(a, b) /\ b.gone /\ b.replies = a.replies /\ b.open = a.open /\ b.pipe = a.pipe
        /\ b.channel = a.channel
    BY <1>1, <1>3 DEF Disconnect, SamePlan
  <2> HIDE DEF b
  <2>3. Quiet(b) /\ Replied(b)
    BY <2>2 DEF Local, Quiet, Replied, SamePlan
  <2>4. FollowsPlan(b) /\ RanPlan(b)
    BY <2>2, PlanKept DEF Local
  <2> QED BY <2>1, <2>3, <2>4 DEF Stepped, Local, b
<1>4. CASE Kill(p)
  <2> DEFINE o == Over(p, <<>>)
  <2>0. <<>> \in Seq(Reply) /\ a.replies \in Seq(Reply) /\ Sent(p, <<>>) = a.replies
    BY <1>1 DEF Activation, Sent
  <2>1. o \in Activation
    <3>1. NewProc \in Activation /\ "done" \in Place /\ Sent(p, <<>>) \in Seq(Reply)
      BY <2>0, NewTyped DEF Place
    <3> QED BY <1>1, <3>1 DEF Over, Leave, Activation
  <2>2. act' = [act EXCEPT ![p] = [o EXCEPT !.gone = TRUE]]
    BY <1>4 DEF Kill
  <2>3. /\ o.at = "done" /\ o.req = a.req /\ o.ran = a.ran /\ o.cmd = "none" /\ o.code = Running
        /\ ~o.open /\ o.pipe = NoLines /\ o.channel = 0 /\ o.replies = a.replies
    BY <2>0 DEF Over, Leave, NewProc
  <2> HIDE DEF o
  <2>4. act' \in [Proc -> Activation] /\ \A q \in Proc \ {p} : act'[q] = act[q]
    BY <1>1, <2>1, <2>2 DEF Activation
  <2>5. /\ b.at = "done" /\ b.req = a.req /\ b.ran = a.ran /\ b.cmd = "none" /\ b.code = Running
        /\ ~b.open /\ b.pipe = NoLines /\ b.channel = 0 /\ b.replies = a.replies /\ b.gone
    BY <1>1, <2>1, <2>2, <2>3 DEF Activation
  <2> HIDE DEF b
  <2>6. Quiet(b) /\ FollowsPlan(b)
    BY <2>5 DEF Quiet, FollowsPlan, Working
  <2>7. \A i \in 1..Len(a.replies) : a.replies[i] \in Partly
    BY <1>2 DEF Local, Replied
  <2>8. Replied(b)
    BY <2>5, <2>7 DEF Replied, Completions, Partly
  <2>9. RanPlan(b)
    <3>1. /\ StartOfPlan(a.ran, PlanOf(a.req))
          /\ a.ran # <<>> => Authorized(a.req.peer) /\ a.req.kind \in Runnable
      BY <1>1, RanStarts DEF Local
    <3>2. "complete0" \notin Given(b.replies)
      BY <2>5, <2>7 DEF Given, Partly
    <3> QED BY <3>1, <3>2, <2>5 DEF RanPlan, Working, Left
  <2> QED BY <2>4, <2>6, <2>8, <2>9 DEF Stepped, Local, b
<1> QED BY <1>3, <1>4

LEMMA EndStepped ==
  ASSUME ActTypeOK, NEW p \in Proc, Local(act[p]), EndStream(p)
  PROVE  Stepped(p)
<1> DEFINE a == act[p]
           b == act'[p]
           n == Len(PlanOf(a.req))
           rest == Tail(a.todo)
           goOn(where) == [a EXCEPT !.at = where, !.cmd = "none", !.fresh = FALSE,
                                    !.todo = rest, !.code = Running, !.open = FALSE,
                                    !.pipe = NoLines, !.deaf = {}, !.channel = 0]
<1>1. a \in Activation /\ act \in [Proc -> Activation]
  BY DEF ActTypeOK
<1>2. a.at = "stream" /\ a.at \in Working /\ a.code # Running /\ a.pipe = NoLines /\ a.channel = 0
  BY DEF EndStream, Drained, Working
<1>3. /\ Done(a) \in Nat /\ Len(a.todo) \in Nat /\ a.todo \in Seq(Commands)
      /\ Done(a) + Len(a.todo) = n
      /\ a.req \in Request /\ n \in Nat /\ a.ran \in Seq(Exited)
  BY <1>1, <1>2, DoneFacts DEF Local
<1>4. /\ a.req.kind \in Runnable /\ Authorized(a.req.peer) /\ a.todo # <<>> /\ a.cmd = a.todo[1]
      /\ \A i \in 1..Len(a.todo) : a.todo[i] = PlanOf(a.req)[Done(a) + i]
  BY <1>2 DEF Local, FollowsPlan
<1>5. /\ rest \in Seq(Commands) /\ Len(rest) = Len(a.todo) - 1 /\ Len(a.todo) > 0
      /\ \A i \in 1..Len(rest) : rest[i] = a.todo[i + 1]
  BY <1>3, <1>4, HeadTailProperties, LenProperties
<1>6. /\ Len(a.ran) = Done(a) + 1
      /\ \A i \in 1..Done(a) : a.ran[i] = <<PlanOf(a.req)[i], 0>>
      /\ a.ran[Done(a) + 1] = <<PlanOf(a.req)[Done(a) + 1], a.code>>
  <2>1. /\ \A i \in 1..Done(a) : a.ran[i] = <<PlanOf(a.req)[i], 0>>
        /\ Len(a.ran) = Done(a) + 1 /\ a.ran[Done(a) + 1] = <<a.cmd, a.code>>
    BY <1>2 DEF Local, RanPlan
  <2>2. a.cmd = PlanOf(a.req)[Done(a) + 1]
    BY <1>3, <1>4, <1>5
  <2> QED BY <2>1, <2>2
<1>7. ASSUME NEW k \in Seq(Reply), act' = [act EXCEPT ![p] = Over(p, k)],
             \A i \in 1..Len(k) : k[i] # "line" /\ (k[i] \in Completions => i = Len(k)),
             \/ "complete0" \notin Given(k)
             \/ a.ran = [i \in 1..n |-> <<PlanOf(a.req)[i], 0>>]
      PROVE  Stepped(p)
  <2>1. Over(p, k) \in Activation /\ Local(Over(p, k))
    BY <1>1, <1>2, <1>7, OverLocal
  <2> QED BY <1>1, <1>7, <2>1 DEF Stepped
<1>8. ASSUME Succeeded(p), NEW where \in {"next", "remove"}, act' = [act EXCEPT ![p] = goOn(where)],
             IF where = "next" THEN rest # <<>> ELSE rest = <<>> /\ a.cmd = "sd-switch"
      PROVE  Stepped(p)
  <2>1. where \in Place /\ Running \in Code /\ NoLines \in [Stream -> Nat]
    BY DEF Place, Code, NoLines
  <2>2. goOn(where) \in Activation
    BY <1>1, <1>5, <2>1 DEF Activation
  <2>3. act' \in [Proc -> Activation] /\ b = goOn(where) /\ \A q \in Proc \ {p} : act'[q] = act[q]
    BY <1>1, <1>8, <2>2
  <2>4. /\ b.at = where /\ b.cmd = "none" /\ b.todo = rest /\ b.code = Running /\ ~b.open
        /\ b.pipe = NoLines /\ b.channel = 0 /\ b.req = a.req /\ b.ran = a.ran
        /\ b.gone = a.gone /\ b.replies = a.replies /\ b.lost = a.lost /\ b.lines = a.lines
    BY <1>1, <2>3
  <2> HIDE DEF b, goOn, rest
  <2>5. Quiet(b)
    BY <2>4 DEF Quiet
  <2>6. Done(b) = Done(a) + 1
    <3>1. Done(b) = n - Len(rest)
      BY <2>4 DEF Done
    <3>2. \A d, l, m \in Nat : d + l = m /\ l > 0 => m - (l - 1) = d + 1
      OBVIOUS
    <3>3. Done(b) = n - (Len(a.todo) - 1) /\ Len(a.todo) > 0
      BY <1>5, <3>1
    <3>4. Done(a) \in Nat /\ Len(a.todo) \in Nat /\ n \in Nat /\ Done(a) + Len(a.todo) = n
      BY <1>3
    <3> HIDE DEF n, a
    <3> QED BY <3>2, <3>3, <3>4
  <2>7. a.req.kind = "services" \/ where = "next"
    <3>1. ASSUME where = "remove"
          PROVE  a.req.kind = "services"
      <4>1. PlanOf(a.req)[Done(a) + 1] = "sd-switch" /\ Done(a) + 1 \in 1..n
        <5>1. rest = <<>> /\ a.cmd = "sd-switch"
          BY <1>8, <3>1
        <5>2. Len(rest) = 0
          BY <5>1
        <5>3. Len(a.todo) = 1
          BY <1>3, <1>5, <5>2
        <5>4. a.todo[1] = PlanOf(a.req)[Done(a) + 1]
          BY <1>4, <5>3
        <5>5. Done(a) + 1 = n
          BY <1>3, <5>3
        <5>6. Done(a) + 1 \in 1..n
          BY <1>3, <5>5
        <5> QED BY <1>4, <5>1, <5>4, <5>6
      <4> QED BY <4>1, <1>3, <1>4, PlanFacts
    <3> QED BY <3>1
  <2>8. FollowsPlan(b)
    <3>1. \A i \in 1..Len(rest) : rest[i] = PlanOf(a.req)[Done(a) + 1 + i]
      <4> SUFFICES ASSUME NEW i \in 1..Len(rest)
                   PROVE  rest[i] = PlanOf(a.req)[Done(a) + 1 + i]
        OBVIOUS
      <4>1. i + 1 \in 1..Len(a.todo) /\ Done(a) + (i + 1) = Done(a) + 1 + i
        BY <1>3, <1>5
      <4> QED BY <4>1, <1>4, <1>5
    <3>2. Len(rest) <= n
      BY <1>3, <1>5
    <3>3. where = "next" => rest # <<>>
      BY <1>8
    <3>4. where = "remove" => rest = <<>>
      BY <1>8
    <3> QED BY <1>4, <2>4, <2>6, <2>7, <3>1, <3>2, <3>3, <3>4 DEF FollowsPlan, Linking
  <2>9. RanPlan(b)
    <3>1. a.code = 0
      BY <1>8 DEF Succeeded
    <3>2. \A i \in 1..Done(a) + 1 : a.ran[i] = <<PlanOf(a.req)[i], 0>>
      BY <1>3, <1>6, <3>1
    <3> QED BY <1>3, <1>6, <2>4, <2>6, <3>2 DEF RanPlan, Working, Left
  <2>10. Replied(b)
    BY <1>2, <2>4 DEF Local, Replied, Total
  <2> QED BY <2>3, <2>5, <2>8, <2>9, <2>10 DEF Stepped, Local, b
<1>9. CASE ~Succeeded(p) /\ a.cmd = "cp"
  <2>1. act' = [act EXCEPT ![p] = Failed(p)]
    BY <1>9 DEF EndStream
  <2>2. Failed(p) \in Activation /\ Local(Failed(p))
    BY <1>1, <1>2, FailedLocal
  <2> QED BY <1>1, <2>1, <2>2 DEF Stepped
<1>10. CASE ~Succeeded(p) /\ a.cmd # "cp"
  <2> DEFINE k == <<"complete1">>
  <2>1. k \in Seq(Reply) /\ Len(k) = 1 /\ k[1] = "complete1"
    BY DEF Reply
  <2>2. "complete0" \notin Given(k)
    BY <2>1 DEF Given
  <2>3. \A i \in 1..Len(k) : k[i] # "line" /\ (k[i] \in Completions => i = Len(k))
    BY <2>1
  <2>4. act' = [act EXCEPT ![p] = Over(p, k)]
    BY <1>10 DEF EndStream
  <2> HIDE DEF k
  <2> QED BY <1>7, <2>1, <2>2, <2>3, <2>4
<1>11. CASE Succeeded(p) /\ rest # <<>>
  <2>1. act' = [act EXCEPT ![p] = goOn("next")]
    BY <1>11 DEF EndStream
  <2> HIDE DEF goOn, rest
  <2> QED BY <1>8, <1>11, <2>1
<1>12. CASE Succeeded(p) /\ rest = <<>> /\ a.cmd = "sd-switch"
  <2>1. act' = [act EXCEPT ![p] = goOn("remove")]
    BY <1>12 DEF EndStream
  <2> HIDE DEF goOn, rest
  <2> QED BY <1>8, <1>12, <2>1
<1>13. CASE Succeeded(p) /\ rest = <<>> /\ a.cmd # "sd-switch"
  <2> DEFINE k == <<"complete0">>
  <2>1. k \in Seq(Reply) /\ Len(k) = 1 /\ k[1] = "complete0"
    BY DEF Reply
  <2>2. \A i \in 1..Len(k) : k[i] # "line" /\ (k[i] \in Completions => i = Len(k))
    BY <2>1
  <2>3. act' = [act EXCEPT ![p] = Over(p, k)]
    BY <1>13 DEF EndStream
  <2>4. a.ran = [i \in 1..n |-> <<PlanOf(a.req)[i], 0>>]
    <3> HIDE DEF rest
    <3>1. Len(rest) = 0
      BY <1>13
    <3>2. Done(a) + 1 = n /\ Len(a.ran) = n
      <4>1. Len(a.todo) = 1
        BY <1>3, <1>5, <3>1
      <4> HIDE DEF n
      <4> QED BY <1>3, <1>6, <4>1
    <3>3. a.code = 0
      BY <1>13 DEF Succeeded
    <3>4. \A i \in 1..n : a.ran[i] = <<PlanOf(a.req)[i], 0>>
      BY <1>3, <1>6, <3>2, <3>3
    <3>5. a.ran \in [1..Len(a.ran) -> Exited]
      BY <1>3, LenProperties
    <3> HIDE DEF n
    <3> QED BY <3>2, <3>4, <3>5
  <2> HIDE DEF k
  <2> QED BY <1>7, <2>1, <2>2, <2>3, <2>4
<1> QED BY <1>9, <1>10, <1>11, <1>12, <1>13

\* An error that is sent, or not for ever.
LEMMA SendStepped ==
  ASSUME ActTypeOK, NEW p \in Proc, Local(act[p]), SendError(p)
  PROVE  Stepped(p)
<1> DEFINE a == act[p]
           b == act'[p]
<1>1. a \in Activation /\ act \in [Proc -> Activation] /\ a.at = "failed"
  BY DEF ActTypeOK, SendError
<1>2. CASE a.gone
  <2>1. act' = [act EXCEPT ![p].at = "stuck"]
    BY <1>2 DEF SendError
  <2>2. act' \in [Proc -> Activation] /\ \A q \in Proc \ {p} : act'[q] = act[q]
    BY <1>1, <2>1 DEF Activation, Place
  <2>3. /\ b.at = "stuck" /\ b.req = a.req /\ b.ran = a.ran /\ b.cmd = a.cmd /\ b.code = a.code
        /\ b.open = a.open /\ b.pipe = a.pipe /\ b.channel = a.channel /\ b.gone = a.gone
        /\ b.replies = a.replies
    BY <1>1, <2>1
  <2> HIDE DEF b
  <2>4. Quiet(b) /\ FollowsPlan(b)
    BY <1>1, <2>3 DEF Local, Quiet, FollowsPlan, Working
  <2>5. RanPlan(b)
    BY <1>1, <2>3 DEF Local, RanPlan, Working, Left
  <2>6. Replied(b)
    BY <1>1, <1>2, <2>3 DEF Local, Replied
  <2> QED BY <2>2, <2>4, <2>5, <2>6 DEF Stepped, Local, b
<1>3. CASE ~a.gone
  <2> DEFINE k == <<"error", "complete1">>
  <2>1. k \in Seq(Reply) /\ Len(k) = 2 /\ k[1] = "error" /\ k[2] = "complete1"
    BY DEF Reply
  <2>2. "complete0" \notin Given(k)
    BY <2>1 DEF Given
  <2>3. \A i \in 1..Len(k) : k[i] # "line" /\ (k[i] \in Completions => i = Len(k))
    BY <2>1 DEF Completions
  <2>4. Ends(p, k)
    BY <1>3 DEF SendError
  <2> HIDE DEF k
  <2> QED BY <1>1, <2>1, <2>2, <2>3, <2>4, EndsStepped
<1> QED BY <1>2, <1>3

-----------------------------------------------------------------------------
(* Types and local invariants of all processes *)

\* A step of process p.
StepOf(p) ==
  \/ \E r \in Requests[p] : Accept(p, r)
  \/ ActivatorStep(p) \/ CommandStep(p)
  \/ \E s \in Stream : WriteLine(p, s)
  \/ Disconnect(p) \/ Kill(p)

LEMMA AllStepped ==
  ASSUME ActTypeOK, ActivatorAssumption, LocalInv, NEW p \in Proc, StepOf(p)
  PROVE  Stepped(p)
<1>1. Local(act[p])
  BY DEF LocalInv
<1>2. CASE (\E r \in Requests[p] : Accept(p, r)) \/ NetworkRequest(p) \/ Refuse(p)
  BY <1>1, <1>2, RequestStepped
<1>3. CASE Begin(p)
  BY <1>1, <1>3, BeginStepped
<1>4. CASE ResolveCurrent(p) \/ RemoveTmp(p) \/ Symlink(p) \/ Rename(p)
  BY <1>1, <1>4, LinkStepped
<1>5. CASE Spawn(p) \/ SpawnFails(p)
  BY <1>1, <1>5, SpawnStepped
<1>6. CASE EndStream(p)
  BY <1>1, <1>6, EndStepped
<1>7. CASE \E status \in {"ok", "failed", "signaled"} : ExitCommand(p, status)
  BY <1>1, <1>7, ExitStepped
<1>8. CASE \/ Close(p) \/ Relay(p)
           \/ \E s \in Stream : WriteLine(p, s) \/ Pump(p, s) \/ PumpStops(p, s)
  BY <1>1, <1>8, OutputStepped
<1>9. CASE Disconnect(p) \/ Kill(p)
  BY <1>1, <1>9, FaultStepped
<1>10. CASE SendError(p)
  BY <1>1, <1>10, SendStepped
<1> QED
  BY <1>2, <1>3, <1>4, <1>5, <1>6, <1>7, <1>8, <1>9, <1>10 DEF StepOf, ActivatorStep, CommandStep

\* The profile of a services request.
LEMMA HashFacts ==
  ASSUME ActTypeOK, AskedInv, NEW p \in Proc, act[p].req.kind = "services"
  PROVE  /\ Hash(p) \in Profile /\ Len(act[p].req.seeds) \in Nat
         /\ \A i \in 1..Len(act[p].req.seeds) : act[p].req.seeds[i] \in Hash(p)
         /\ \A s \in Hash(p) : s \in Seed /\ \E i \in 1..Len(act[p].req.seeds) : s = act[p].req.seeds[i]
<1> DEFINE q == act[p].req.seeds
<1>1. q \in Seq(Seed) /\ q # <<>>
  BY DEF ActTypeOK, AskedInv, Activation, Request
<1>2. Len(q) \in Nat /\ Len(q) # 0 /\ \A i \in 1..Len(q) : q[i] \in Seed
  BY <1>1, LenProperties, EmptySeq
<1>3. Hash(p) = {q[i] : i \in 1..Len(q)}
  BY DEF Hash, ContentHash
<1> HIDE DEF q
<1>4. q[1] \in Hash(p)
  BY <1>2, <1>3
<1>5. Hash(p) \in SUBSET Seed /\ Hash(p) # {}
  BY <1>2, <1>3, <1>4
<1>6. \A i \in 1..Len(q) : q[i] \in Hash(p)
  BY <1>3
<1>7. \A s \in Hash(p) : \E i \in 1..Len(q) : s = q[i]
  BY <1>3
<1>8. Hash(p) \in Profile /\ \A s \in Hash(p) : s \in Seed
  BY <1>5 DEF Profile
<1> QED BY <1>2, <1>6, <1>7, <1>8 DEF q

\* The next command of a services run is a cp or the sd-switch at the end.
LEMMA ServicesPlan ==
  ASSUME ActTypeOK, AskedInv, LocalInv, NEW p \in Proc, InServices(p)
  PROVE  /\ act[p] \in Activation /\ act[p].at \in Working
         /\ Done(act[p]) \in Nat /\ Len(act[p].todo) \in Nat
         /\ Done(act[p]) + Len(act[p].todo) = Len(act[p].req.seeds) + 1
         /\ act[p].at = "stream" =>
              /\ Len(act[p].todo) > 0
              /\ act[p].cmd = IF Len(act[p].todo) = 1 THEN "sd-switch" ELSE "cp"
         /\ act[p].at = "next" => /\ Len(act[p].todo) > 0
              /\ Head(act[p].todo) = IF Len(act[p].todo) = 1 THEN "sd-switch" ELSE "cp"
         /\ act[p].at \in Linking => Len(act[p].todo) = 0
<1> DEFINE a == act[p]
           n == Len(a.req.seeds)
<1>1. a \in Activation /\ a.at \in Working /\ a.req.kind = "services" /\ FollowsPlan(a)
  BY DEF ActTypeOK, InServices, Working, LocalInv, Local
<1>2. /\ Done(a) \in Nat /\ Len(a.todo) \in Nat /\ a.todo \in Seq(Commands)
      /\ Done(a) + Len(a.todo) = Len(PlanOf(a.req)) /\ a.req \in Request
  BY <1>1, DoneFacts
<1>3. n \in Nat
  BY <1>1, HashFacts
<1>4. /\ Len(PlanOf(a.req)) = n + 1 /\ \A i \in 1..n : PlanOf(a.req)[i] = "cp"
      /\ PlanOf(a.req)[n + 1] = "sd-switch"
  BY <1>1, <1>2, PlanFacts
<1>5. ASSUME a.at \in {"next", "stream"}
      PROVE  Len(a.todo) > 0 /\ a.todo[1] = IF Len(a.todo) = 1 THEN "sd-switch" ELSE "cp"
  <2>1. Len(a.todo) > 0
    BY <1>1, <1>2, <1>5, EmptySeq DEF FollowsPlan
  <2>2. a.todo[1] = PlanOf(a.req)[Done(a) + 1]
    BY <1>1, <1>2, <2>1 DEF FollowsPlan
  <2>3. CASE Len(a.todo) = 1
    BY <2>1, <2>2, <2>3, <1>2, <1>3, <1>4
  <2>4. CASE Len(a.todo) # 1
    <3>1. Done(a) + 1 \in 1..n
      <4>1. Done(a) + Len(a.todo) = n + 1
        BY <1>2, <1>4
      <4>2. \A d, l, m \in Nat : d + l = m + 1 /\ l > 0 /\ l # 1 => d + 1 \in 1..m
        OBVIOUS
      <4>3. Done(a) \in Nat /\ Len(a.todo) \in Nat
        BY <1>2
      <4> HIDE DEF a, n
      <4> QED BY <2>1, <2>4, <1>3, <4>1, <4>2, <4>3
    <3> QED BY <2>1, <2>2, <2>4, <3>1, <1>4
  <2> QED BY <2>3, <2>4
<1>6. a.at = "stream" => a.cmd = a.todo[1]
  BY <1>1 DEF FollowsPlan
<1>7. a.at = "next" => Head(a.todo) = a.todo[1]
  BY <1>2, <1>5, HeadTailProperties, EmptySeq
<1>8. a.at \in Linking => Len(a.todo) = 0
  BY <1>1 DEF FollowsPlan
<1> HIDE DEF a, n
<1>9. Done(a) + Len(a.todo) = n + 1
  BY <1>2, <1>4
<1> QED BY <1>1, <1>2, <1>5, <1>6, <1>7, <1>8, <1>9 DEF a, n

\* Only services runs start an sd-switch.
LEMMA SwitchIsServices ==
  ASSUME ActTypeOK, LocalInv, NEW p \in Proc, act[p].cmd = "sd-switch"
  PROVE  InServices(p) /\ act[p].at = "stream" /\ act[p].req.kind = "services"
<1> DEFINE a == act[p]
<1>1. a \in Activation /\ a.at = "stream" /\ a.at \in Working /\ FollowsPlan(a)
  BY DEF ActTypeOK, LocalInv, Local, Quiet, Working
<1>2. /\ Done(a) \in Nat /\ Len(a.todo) \in Nat /\ a.todo \in Seq(Commands) /\ a.req \in Request
      /\ Done(a) + Len(a.todo) = Len(PlanOf(a.req)) /\ Len(PlanOf(a.req)) \in Nat
  BY <1>1, DoneFacts
<1>3. Len(a.todo) > 0 /\ a.cmd = a.todo[1] /\ a.req.kind \in Runnable
  BY <1>1, <1>2, EmptySeq DEF FollowsPlan
<1>4. a.cmd = PlanOf(a.req)[Done(a) + 1]
  <2>1. 1 \in 1..Len(a.todo)
    BY <1>2, <1>3
  <2>2. \A i \in 1..Len(a.todo) : a.todo[i] = PlanOf(a.req)[Done(a) + i]
    BY <1>1 DEF FollowsPlan
  <2> QED BY <1>3, <2>1, <2>2
<1>5. Done(a) + 1 \in 1..Len(PlanOf(a.req))
  <2> HIDE DEF a
  <2> QED BY <1>2, <1>3
<1> QED BY <1>1, <1>2, <1>3, <1>4, <1>5, PlanFacts DEF InServices

\* Links name what is allowed, files only grow, and so do the switched profiles.
LEMMA SharedTyped ==
  ASSUME ActTypeOK, AskedInv, LocalInv, NEW p \in Proc, StepOf(p)
  PROVE  /\ files' \in [Profile -> [Seed -> {"absent", "partial", "full"}]]
         /\ current' \subseteq Seed /\ tmp' \subseteq Seed /\ units' \subseteq Seed
         /\ switched \subseteq switched' /\ switched' \subseteq Profile
         /\ disturbed' \in BOOLEAN /\ (disturbed => disturbed') /\ faults' \in Nat
         /\ \A h \in Profile : \A s \in Seed : files[h][s] # "absent" => files'[h][s] # "absent"
<1> DEFINE a == act[p]
<1>1. /\ files \in [Profile -> [Seed -> {"absent", "partial", "full"}]]
      /\ current \subseteq Seed /\ tmp \subseteq Seed /\ units \subseteq Seed
      /\ switched \subseteq Profile /\ disturbed \in BOOLEAN /\ faults \in Nat
  BY DEF ActTypeOK
<1>2. a.req \in Request /\ a \in Activation
  BY DEF ActTypeOK, Activation
<1>3. Hash(p) \subseteq Seed
  <2>1. a.req.seeds \in Seq(Seed)
    BY <1>2 DEF Request
  <2>2. \A i \in 1..Len(a.req.seeds) : a.req.seeds[i] \in Seed
    BY <2>1
  <2> QED BY <2>2 DEF Hash, ContentHash
<1>4. CASE UNCHANGED shared /\ faults' \in {faults, faults + 1}
  BY <1>1, <1>4 DEF shared
<1>5. CASE ResolveCurrent(p) \/ RemoveTmp(p) \/ Symlink(p) \/ Rename(p) \/ Kill(p)
  <2>1. UNCHANGED <<files, units, switched>> /\ disturbed' \in BOOLEAN /\ (disturbed => disturbed')
    BY <1>1, <1>5 DEF ResolveCurrent, RemoveTmp, Symlink, Rename, Kill, InServices
  <2>2. current' \in {current, tmp} /\ tmp' \in {tmp, {}, Hash(p)} /\ faults' \in {faults, faults + 1}
    BY <1>5 DEF ResolveCurrent, RemoveTmp, Symlink, Rename, Kill
  <2> QED BY <1>1, <1>3, <2>1, <2>2
<1>6. CASE Spawn(p)
  <2>1. files' = files \/ files' = [files EXCEPT ![Hash(p)][SeedOfCp(p)] = "partial"]
    BY <1>6 DEF Spawn
  <2>2. UNCHANGED <<current, tmp, units, switched, disturbed, faults>>
    BY <1>6 DEF Spawn
  <2> QED BY <1>1, <2>1, <2>2
<1>7. ASSUME NEW status, ExitCommand(p, status)
      PROVE  /\ files' \in [Profile -> [Seed -> {"absent", "partial", "full"}]]
             /\ units' \subseteq Seed /\ UNCHANGED <<current, tmp, faults>> /\ disturbed' \in BOOLEAN
             /\ (disturbed => disturbed')
             /\ switched \subseteq switched' /\ switched' \subseteq Profile
             /\ \A h \in Profile : \A s \in Seed : files[h][s] # "absent" => files'[h][s] # "absent"
  <2>1. files' = files \/ files' = [files EXCEPT ![Hash(p)][SeedOfCp(p)] = "full"]
    BY <1>7 DEF ExitCommand
  <2>2. a.cmd = "sd-switch" => Hash(p) \in Profile
    BY SwitchIsServices, HashFacts
  <2>3. SdSwitch(OldUnits(p), Hash(p)) \subseteq Seed
    BY <1>1, <1>3 DEF SdSwitch
  <2>4. units' \subseteq Seed /\ switched \subseteq switched' /\ switched' \subseteq Profile
        /\ disturbed' \in BOOLEAN /\ (disturbed => disturbed')
    BY <1>1, <1>7, <2>2, <2>3 DEF ExitCommand
  <2>5. UNCHANGED <<current, tmp, faults>>
    BY <1>7 DEF ExitCommand
  <2> QED BY <1>1, <2>1, <2>4, <2>5
<1>8. CASE CommandStep(p)
  BY <1>1, <1>4, <1>7, <1>8 DEF CommandStep, Close
<1>9. CASE ActivatorStep(p)
  BY <1>4, <1>5, <1>6, <1>9, Zenon DEF ActivatorStep, NetworkRequest, Refuse, Begin, SpawnFails, Relay,
     EndStream, SendError, Pump, PumpStops
<1>10. CASE (\E r \in Requests[p] : Accept(p, r)) \/ (\E s \in Stream : WriteLine(p, s)) \/ Disconnect(p)
  BY <1>4, <1>10 DEF Accept, WriteLine, Disconnect
<1> QED BY <1>5, <1>8, <1>9, <1>10 DEF StepOf

-----------------------------------------------------------------------------
(* What the services runs of the invariant look like from one step to the next *)

\* The part of an activation that a services run is judged by.
View(a) == <<a.at, a.req, a.todo, a.cmd, a.code, a.old>>

\* Steps that are no step of a services run.
LEMMA OtherSteps ==
  ASSUME ActTypeOK, LocalInv, NEW p \in Proc,
         \/ \E r \in Requests[p] : Accept(p, r)
         \/ NetworkRequest(p) \/ Refuse(p) \/ Begin(p) \/ Relay(p) \/ Close(p)
         \/ \E s \in Stream : WriteLine(p, s) \/ Pump(p, s) \/ PumpStops(p, s)
         \/ Disconnect(p) \/ SendError(p)
  PROVE  /\ UNCHANGED shared
         /\ View(act'[p]) = View(act[p]) \/ (~InServices(p) /\ ~InServices(p)')
<1>1. act \in [Proc -> Activation]
  BY DEF ActTypeOK
<1>2. CASE \E r \in Requests[p] : Accept(p, r)
  <2>1. PICK r \in Requests[p] : Accept(p, r)
    BY <1>2
  <2>2. \E at \in {"done", "read"}, k \in {<<>>, <<"error">>} :
               act' = [act EXCEPT ![p] = [NewProc EXCEPT !.at = at, !.req = r, !.replies = k]]
    BY <2>1 DEF Accept
  <2>3. act'[p].at \in {"done", "read"}
    BY <1>1, <2>2 DEF NewProc
  <2>4. act[p].at = "listening" /\ UNCHANGED shared
    BY <2>1 DEF Accept
  <2> QED BY <2>3, <2>4 DEF InServices
<1>3. CASE NetworkRequest(p) \/ Refuse(p)
  <2>1. (\E k \in {<<"error">>, <<"complete0">>, <<"note", "complete0">>, <<"error", "complete1">>} : Ends(p, k))
          /\ act[p].at = "read" /\ UNCHANGED shared
    BY <1>3 DEF NetworkRequest, Refuse
  <2>2. act'[p].at = "done"
    BY <1>1, <2>1 DEF Ends, Over, Leave, NewProc
  <2> QED BY <2>1, <2>2 DEF InServices
<1>4. CASE Begin(p)
  <2>1. act[p].at = "read" /\ UNCHANGED shared
    BY <1>4 DEF Begin
  <2>2. act'[p].req = act[p].req /\ act'[p].at = IF act[p].req.kind = "services" THEN "resolve" ELSE "next"
    BY <1>1, <1>4 DEF Begin
  <2> QED BY <2>1, <2>2 DEF InServices
<1>5. CASE Relay(p) \/ Close(p) \/ Disconnect(p)
  <2>1. /\ act'[p].at = act[p].at /\ act'[p].req = act[p].req /\ act'[p].todo = act[p].todo
        /\ act'[p].cmd = act[p].cmd /\ act'[p].code = act[p].code /\ act'[p].old = act[p].old
    <3>1. CASE Relay(p)
      BY <1>1, <3>1 DEF Relay
    <3>2. CASE Close(p)
      BY <1>1, <3>2 DEF Close
    <3>3. CASE Disconnect(p)
      BY <1>1, <3>3 DEF Disconnect
    <3> QED BY <1>5, <3>1, <3>2, <3>3
  <2>2. UNCHANGED shared
    BY <1>5 DEF Relay, Close, Disconnect
  <2> QED BY <2>1, <2>2 DEF View
<1>6. ASSUME NEW s \in Stream, WriteLine(p, s) \/ Pump(p, s) \/ PumpStops(p, s)
      PROVE  UNCHANGED shared /\ View(act'[p]) = View(act[p])
  <2>1. /\ act'[p].at = act[p].at /\ act'[p].req = act[p].req /\ act'[p].todo = act[p].todo
        /\ act'[p].cmd = act[p].cmd /\ act'[p].code = act[p].code /\ act'[p].old = act[p].old
    <3>1. CASE WriteLine(p, s)
      BY <1>1, <3>1, ZenonT(60) DEF WriteLine, Activation
    <3>2. CASE Pump(p, s)
      BY <1>1, <3>2, ZenonT(60) DEF Pump, Activation
    <3>3. CASE PumpStops(p, s)
      BY <1>1, <3>3, ZenonT(60) DEF PumpStops, Activation
    <3> QED BY <1>6, <3>1, <3>2, <3>3
  <2>2. UNCHANGED shared
    BY <1>6 DEF WriteLine, Pump, PumpStops
  <2> QED BY <2>1, <2>2 DEF View
<1>7. CASE SendError(p)
  <2>1. act[p].at = "failed" /\ UNCHANGED shared
    BY <1>7 DEF SendError
  <2>2. CASE act' = [act EXCEPT ![p].at = "stuck"]
    <3>1. act'[p].at = "stuck"
      BY <1>1, <2>2
    <3> QED BY <2>1, <3>1 DEF InServices
  <2>3. CASE Ends(p, <<"error", "complete1">>)
    <3>1. act'[p].at = "done"
      BY <1>1, <2>3 DEF Ends, Over, Leave, NewProc
    <3> QED BY <2>1, <3>1 DEF InServices
  <2> QED BY <1>7, <2>2, <2>3 DEF SendError
<1> QED BY <1>2, <1>3, <1>4, <1>5, <1>6, <1>7

\* A run that fails or ends is no services run any more.
LEMMA EndsOut ==
  ASSUME act \in [Proc -> Activation], NEW p \in Proc, Errs(p) \/ \E k : Ends(p, k)
  PROVE  ~InServices(p)'
<1>1. act'[p].at \in {"failed", "done"}
  <2>1. CASE Errs(p)
    BY <2>1 DEF Errs, Failed, Leave, NewProc
  <2>2. ASSUME NEW k, Ends(p, k) PROVE act'[p].at = "done"
    BY <2>2 DEF Ends, Over, Leave, NewProc
  <2> QED BY <2>1, <2>2
<1> QED BY <1>1 DEF InServices

\* How the commands of a services run end.
LEMMA ServicesEnd ==
  ASSUME ActTypeOK, AskedInv, LocalInv, NEW p \in Proc, EndStream(p)
  PROVE  /\ UNCHANGED shared
         /\ \/ ~InServices(p)' /\ (InServices(p) => act[p].code = 1)
            \/ /\ act[p].at = "stream" /\ act'[p].req = act[p].req /\ act'[p].old = act[p].old
               /\ act[p].code = 0 /\ act'[p].code = Running /\ act'[p].cmd = "none"
               /\ Len(act'[p].todo) = Len(act[p].todo) - 1
               /\ \/ act'[p].at = "next" /\ ~HasSwitched(p)
                  \/ act'[p].at = "remove" /\ act[p].cmd = "sd-switch"
<1> DEFINE a == act[p]
           rest == Tail(a.todo)
           goOn(where) == [a EXCEPT !.at = where, !.cmd = "none", !.fresh = FALSE,
                                    !.todo = rest, !.code = Running, !.open = FALSE,
                                    !.pipe = NoLines, !.deaf = {}, !.channel = 0]
<1>1. act \in [Proc -> Activation] /\ a \in Activation /\ a.code \in {0, 1, Running}
  BY DEF ActTypeOK, Activation, Code
<1>2. a.at = "stream" /\ a.code # Running /\ UNCHANGED shared
  BY DEF EndStream
<1>3. ASSUME Errs(p) \/ \E k : Ends(p, k), InServices(p) => a.code = 1
      PROVE  ~InServices(p)' /\ (InServices(p) => a.code = 1)
  BY <1>1, <1>3, EndsOut
<1>4. CASE ~Succeeded(p)
  <2>1. a.code = 1
    BY <1>1, <1>2, <1>4 DEF Succeeded
  <2>2. Errs(p) \/ Ends(p, <<"complete1">>)
    BY <1>4 DEF EndStream, Errs, Ends
  <2> QED BY <1>2, <1>3, <2>1, <2>2
<1>5. CASE Succeeded(p) /\ rest = <<>> /\ a.cmd # "sd-switch"
  <2>1. Ends(p, <<"complete0">>)
    BY <1>5 DEF EndStream, Ends
  <2>2. ~InServices(p)
    <3> SUFFICES ASSUME InServices(p) PROVE FALSE
      OBVIOUS
    <3>1. Len(a.todo) > 0 /\ Len(a.todo) # 1 /\ Len(a.todo) \in Nat
      BY <1>2, <1>5, ServicesPlan
    <3>2. a.todo \in Seq(Commands)
      BY <1>1 DEF Activation
    <3>3. Len(rest) = Len(a.todo) - 1
      BY <3>1, <3>2, HeadTailProperties, EmptySeq
    <3> HIDE DEF rest
    <3>4. Len(rest) = 0
      BY <1>5
    <3> QED BY <3>1, <3>3, <3>4
  <2> QED BY <1>2, <1>3, <2>1, <2>2
<1>6. ASSUME Succeeded(p), NEW where \in {"next", "remove"}, act' = [act EXCEPT ![p] = goOn(where)],
             where = "next" => rest # <<>>, where = "remove" => a.cmd = "sd-switch"
      PROVE  /\ act'[p].req = act[p].req /\ act'[p].old = act[p].old
             /\ act[p].code = 0 /\ act'[p].code = Running /\ act'[p].cmd = "none"
             /\ Len(act'[p].todo) = Len(act[p].todo) - 1
             /\ \/ act'[p].at = "next" /\ ~HasSwitched(p)
                \/ act'[p].at = "remove" /\ act[p].cmd = "sd-switch"
  <2>1. a.todo \in Seq(Commands) /\ a.todo # <<>>
    BY <1>1, <1>2 DEF Activation, LocalInv, Local, FollowsPlan, Working
  <2>2. Len(rest) = Len(a.todo) - 1 /\ a.code = 0
    BY <2>1, <1>6, HeadTailProperties DEF Succeeded
  <2>3. /\ act'[p].req = a.req /\ act'[p].old = a.old /\ act'[p].code = Running /\ act'[p].cmd = "none"
        /\ act'[p].todo = rest /\ act'[p].at = where
    BY <1>1, <1>6
  <2>4. where = "next" => ~HasSwitched(p)
    <3> SUFFICES ASSUME where = "next", a.cmd = "sd-switch" PROVE FALSE
      BY <1>2 DEF HasSwitched, Linking
    <3>1. /\ Done(a) \in Nat /\ Len(a.todo) \in Nat /\ Done(a) + Len(a.todo) = Len(PlanOf(a.req))
          /\ a.req \in Request /\ FollowsPlan(a)
      BY <1>1, <1>2, DoneFacts DEF LocalInv, Local, Working
    <3>2. Len(a.todo) \in Nat /\ Len(rest) # 0 /\ Len(a.todo) > 1
      <4>1. rest \in Seq(Commands)
        BY <2>1, HeadTailProperties
      <4> HIDE DEF rest
      <4>2. Len(rest) \in Nat /\ Len(rest) # 0
        BY <1>6, <4>1, LenProperties, EmptySeq
      <4>3. Len(rest) = Len(a.todo) - 1 /\ Len(a.todo) \in Nat
        BY <2>2, <3>1
      <4>4. \A m, l \in Nat : m = l - 1 /\ m # 0 => l > 1
        OBVIOUS
      <4> HIDE DEF a
      <4> QED BY <4>2, <4>3, <4>4
    <3>3. a.todo[1] = PlanOf(a.req)[Done(a) + 1] /\ a.cmd = a.todo[1] /\ a.req.kind \in Runnable
      BY <1>2, <3>1, <3>2 DEF FollowsPlan, Working
    <3>4. Done(a) + 1 \in 1..Len(PlanOf(a.req)) - 1 /\ Done(a) + 1 \in 1..Len(PlanOf(a.req))
      <4>1. \A d, l, m \in Nat : d + l = m /\ l > 1 => d + 1 \in 1..m - 1 /\ d + 1 \in 1..m
        OBVIOUS
      <4>2. Len(PlanOf(a.req)) \in Nat
        BY <3>1, PlanFacts
      <4> HIDE DEF a
      <4> QED BY <3>1, <3>2, <4>1, <4>2
    <3>5. CASE a.req.kind = "services"
      <4>1. Len(a.req.seeds) \in Nat /\ Len(PlanOf(a.req)) = Len(a.req.seeds) + 1
        BY <3>1, <3>5, PlanFacts, HashFacts
      <4>2. Done(a) + 1 \in 1..Len(a.req.seeds)
        <5> HIDE DEF a
        <5> QED BY <3>4, <4>1
      <4>3. PlanOf(a.req)[Done(a) + 1] = "cp"
        BY <3>1, <3>5, <4>2, PlanFacts
      <4> QED BY <3>3, <4>3
    <3>6. CASE a.req.kind # "services"
      BY <3>1, <3>3, <3>4, <3>6, PlanFacts
    <3> QED BY <3>5, <3>6
  <2> HIDE DEF rest
  <2> QED BY <1>2, <1>6, <2>2, <2>3, <2>4
<1>7. CASE Succeeded(p) /\ rest # <<>>
  <2>1. act' = [act EXCEPT ![p] = goOn("next")]
    BY <1>7 DEF EndStream
  <2> HIDE DEF goOn, rest
  <2> QED BY <1>2, <1>6, <1>7, <2>1
<1>8. CASE Succeeded(p) /\ rest = <<>> /\ a.cmd = "sd-switch"
  <2>1. act' = [act EXCEPT ![p] = goOn("remove")]
    BY <1>8 DEF EndStream
  <2> HIDE DEF goOn, rest
  <2> QED BY <1>2, <1>6, <1>8, <2>1
<1> QED BY <1>4, <1>5, <1>7, <1>8

LEMMA ViewFacts ==
  ASSUME NEW q \in Proc, View(act'[q]) = View(act[q])
  PROVE  /\ InServices(q)' <=> InServices(q)
         /\ HasSwitched(q)' <=> HasSwitched(q)
         /\ Copied(q)' = Copied(q) /\ Hash(q)' = Hash(q)
         /\ act'[q].req = act[q].req /\ act'[q].old = act[q].old /\ act'[q].at = act[q].at
         /\ act'[q].cmd = act[q].cmd /\ act'[q].code = act[q].code
<1>1. /\ act'[q].at = act[q].at /\ act'[q].req = act[q].req /\ act'[q].todo = act[q].todo
      /\ act'[q].cmd = act[q].cmd /\ act'[q].code = act[q].code /\ act'[q].old = act[q].old
  BY DEF View
<1> QED BY <1>1 DEF InServices, HasSwitched, Copied, Hash, Done

\* What a services run copied stays copied.
LEMMA ServesKept ==
  ASSUME ActTypeOK, AskedInv, NEW q \in Proc, Serves(q),
         switched \subseteq switched',
         \A h \in Profile : \A s \in Seed : files[h][s] # "absent" => files'[h][s] # "absent",
         act'[q].req = act[q].req,
         InServices(q)' => /\ InServices(q) /\ Copied(q)' <= Copied(q)
                           /\ HasSwitched(q)' => Hash(q) \in switched',
         Copied(q) \in Int /\ Copied(q)' \in Int
  PROVE  Serves(q)'
<1> SUFFICES ASSUME InServices(q)'
             PROVE  /\ \A i \in 1..Len(act'[q].req.seeds) :
                         i <= Copied(q)' => files'[Hash(q)'][act'[q].req.seeds[i]] # "absent"
                    /\ HasSwitched(q)' => Hash(q)' \in switched'
  BY DEF Serves
<1>1. Hash(q)' = Hash(q) /\ act[q].req.kind = "services"
  BY DEF Hash, InServices
<1>2. Hash(q) \in Profile /\ \A i \in 1..Len(act[q].req.seeds) : act[q].req.seeds[i] \in Seed
  BY <1>1, HashFacts
<1>3. Len(act[q].req.seeds) \in Nat
  BY <1>1, HashFacts
<1>4. ASSUME NEW i \in 1..Len(act[q].req.seeds), i <= Copied(q)'
      PROVE  files'[Hash(q)][act[q].req.seeds[i]] # "absent"
  <2>1. i <= Copied(q)
    BY <1>3, <1>4
  <2>2. files[Hash(q)][act[q].req.seeds[i]] # "absent"
    BY <2>1 DEF Serves
  <2> QED BY <1>2, <2>2
<1>5. HasSwitched(q)' => Hash(q) \in switched'
  OBVIOUS
<1> QED BY <1>1, <1>4, <1>5

\* How far a process is with its plan.
LEMMA CopiedTyped ==
  ASSUME ActTypeOK, NEW q \in Proc
  PROVE  Copied(q) \in Int /\ Done(act[q]) \in Int
<1>1. act[q].req \in Request /\ act[q].todo \in Seq(Commands)
  BY DEF ActTypeOK, Activation
<1>2. Len(PlanOf(act[q].req)) \in Nat /\ Len(act[q].todo) \in Nat
  BY <1>1, PlanFacts, LenProperties
<1>3. Done(act[q]) \in Int
  BY <1>2 DEF Done
<1> QED BY <1>3 DEF Copied

\* After a cp is started its seed has units in the profile.
LEMMA SpawnServes ==
  ASSUME ActTypeOK, ActTypeOK', AskedInv, LocalInv, NEW p \in Proc, Spawn(p), Serves(p), InServices(p)',
         \A h \in Profile : \A s \in Seed : files[h][s] # "absent" => files'[h][s] # "absent"
  PROVE  Serves(p)'
<1> DEFINE a == act[p]
           n == Len(a.req.seeds)
<1>1. act \in [Proc -> Activation] /\ a.at = "next"
  BY DEF ActTypeOK, Spawn
<1>2. /\ act'[p].at = "stream" /\ act'[p].req = a.req /\ act'[p].todo = a.todo /\ act'[p].code = Running
  BY <1>1 DEF Spawn
<1>3. InServices(p) /\ Hash(p)' = Hash(p) /\ a.req.kind = "services"
  BY <1>1, <1>2 DEF InServices, Hash
<1>4. Copied(p) = Done(a) /\ Copied(p)' = Done(a) + 1
  BY <1>1, <1>2 DEF Copied, Done
<1>5. /\ Done(a) \in Nat /\ Len(a.todo) \in Nat /\ Done(a) + Len(a.todo) = n + 1 /\ n \in Nat
      /\ Len(a.todo) > 0 /\ Head(a.todo) = IF Len(a.todo) = 1 THEN "sd-switch" ELSE "cp"
  BY <1>1, <1>3, ServicesPlan, HashFacts
<1>6. ~HasSwitched(p)'
  BY <1>2 DEF HasSwitched, Linking, Running
<1>7. Hash(p) \in Profile /\ \A i \in 1..n : a.req.seeds[i] \in Seed
  BY <1>3, HashFacts
<1>8. ASSUME NEW i \in 1..n, i <= Done(a) + 1
      PROVE  files'[Hash(p)][a.req.seeds[i]] # "absent"
  <2>1. CASE i <= Done(a)
    BY <1>3, <1>4, <1>7, <2>1 DEF Serves
  <2>2. CASE i = Done(a) + 1
    <3>1. Len(a.todo) # 1 /\ n + 2 - Len(a.todo) = i
      <4>1. \A d, l, m \in Nat : d + l = m + 1 /\ d + 1 <= m => l # 1 /\ m + 2 - l = d + 1
        OBVIOUS
      <4>2. Done(a) \in Nat /\ Len(a.todo) \in Nat /\ n \in Nat /\ Done(a) + Len(a.todo) = n + 1
        BY <1>5
      <4>3. Done(a) + 1 <= n
        BY <2>2, <4>2
      <4> HIDE DEF a, n
      <4>4. Len(a.todo) # 1 /\ n + 2 - Len(a.todo) = Done(a) + 1
        BY <4>1, <4>2, <4>3
      <4> QED BY <4>4, <2>2
    <3>2. Head(a.todo) = "cp"
      BY <1>5, <3>1
    <3>4. SeedOfCp(p) = a.req.seeds[i] /\ SeedOfCp(p) \in Seed
      BY <3>1, <1>7 DEF SeedOfCp
    <3>5. CASE files[Hash(p)][SeedOfCp(p)] = "absent"
      <4>1. files' = [files EXCEPT ![Hash(p)][SeedOfCp(p)] = "partial"]
        BY <3>2, <3>5 DEF Spawn
      <4>2. files \in [Profile -> [Seed -> {"absent", "partial", "full"}]]
        BY DEF ActTypeOK
      <4>3. files'[Hash(p)][SeedOfCp(p)] = "partial"
        BY <4>1, <4>2, <1>7, <3>4
      <4> QED BY <4>3, <3>4
    <3>6. CASE files[Hash(p)][SeedOfCp(p)] # "absent"
      BY <3>4, <3>6, <1>7
    <3> QED BY <3>5, <3>6
  <2>3. i <= Done(a) \/ i = Done(a) + 1
    <3> HIDE DEF a, n
    <3> QED BY <1>5, <1>8
  <2> QED BY <2>1, <2>2, <2>3
<1> QED BY <1>2, <1>3, <1>4, <1>6, <1>8 DEF Serves

\* An sd-switch comes after the cp of every seed.
LEMMA SwitchServes ==
  ASSUME ActTypeOK, AskedInv, LocalInv, NEW p \in Proc, NEW status, ExitCommand(p, status),
         Serves(p), \A h \in Profile : \A s \in Seed : files[h][s] # "absent" => files'[h][s] # "absent"
  PROVE  /\ Copied(p)' = Copied(p) /\ act'[p].req = act[p].req /\ InServices(p)' = InServices(p)
         /\ HasSwitched(p)' => Hash(p) \in switched'
         /\ switched' \in {switched, switched \cup {Hash(p)}}
         /\ switched' # switched => \A s \in Hash(p) : files'[Hash(p)][s] # "absent"
<1> DEFINE a == act[p]
           n == Len(a.req.seeds)
<1>1. act \in [Proc -> Activation] /\ a \in Activation /\ a.at = "stream"
  BY DEF ActTypeOK, ExitCommand, LocalInv, Local, Quiet
<1>2. /\ act'[p].at = a.at /\ act'[p].req = a.req /\ act'[p].todo = a.todo /\ act'[p].cmd = a.cmd
      /\ act'[p].code = ExitCode(status)
  BY <1>1 DEF ExitCommand
<1>3. Copied(p)' = Copied(p) /\ InServices(p)' = InServices(p) /\ Copied(p) = Done(a) + 1
  BY <1>1, <1>2 DEF Copied, Done, InServices
<1>4. switched' \in {switched, switched \cup {Hash(p)}}
  BY DEF ExitCommand
<1>5. HasSwitched(p)' => Hash(p) \in switched'
  BY <1>1, <1>2 DEF HasSwitched, Linking, ExitCode, ExitCommand
<1>6. ASSUME switched' # switched, NEW s \in Hash(p)
      PROVE  files'[Hash(p)][s] # "absent"
  <2>1. a.cmd = "sd-switch"
    BY <1>6 DEF ExitCommand
  <2>2. InServices(p) /\ a.req.kind = "services"
    BY <2>1, SwitchIsServices
  <2>3. Len(a.todo) = 1 /\ n \in Nat /\ Done(a) + Len(a.todo) = n + 1
    BY <1>1, <2>1, <2>2, ServicesPlan, HashFacts
  <2>4. Done(a) + 1 = n + 1
    BY <2>3
  <2>5. PICK i \in 1..n : s = a.req.seeds[i]
    BY <1>6, <2>2, HashFacts
  <2>6. i <= Copied(p)
    <3> HIDE DEF a, n
    <3> QED BY <1>3, <2>3, <2>4
  <2>7. files[Hash(p)][s] # "absent"
    BY <2>2, <2>5, <2>6 DEF Serves
  <2> QED BY <2>2, <2>7, <1>6, HashFacts
<1> QED BY <1>2, <1>3, <1>4, <1>5, <1>6

LEMMA FilesStep ==
  ASSUME ActTypeOK, AskedInv, LocalInv, FilesInv, ActTypeOK', NEW p \in Proc, StepOf(p), Stepped(p)
  PROVE  FilesInv'
<1> DEFINE a == act[p]
<1>1. /\ switched \subseteq switched' /\ switched \subseteq Profile
      /\ \A h \in Profile : \A s \in Seed : files[h][s] # "absent" => files'[h][s] # "absent"
  BY SharedTyped DEF ActTypeOK
<1>2. act \in [Proc -> Activation] /\ act' \in [Proc -> Activation]
  BY DEF ActTypeOK
<1>3. \A q \in Proc : Copied(q) \in Int /\ Copied(q)' \in Int
  <2>1. ASSUME NEW q \in Proc PROVE Copied(q) \in Int
    BY CopiedTyped
  <2>2. ASSUME NEW q \in Proc PROVE Copied(q)' \in Int
    <3>1. act'[q].req \in Request /\ act'[q].todo \in Seq(Commands)
      BY <1>2 DEF Activation
    <3>2. Len(PlanOf(act'[q].req)) \in Nat /\ Len(act'[q].todo) \in Nat
      BY <3>1, PlanFacts, LenProperties
    <3> QED BY <3>2 DEF Copied, Done
  <2> QED BY <2>1, <2>2
<1>4. ASSUME NEW q \in Proc, View(act'[q]) = View(act[q])
      PROVE  Serves(q)'
  <2>1. Serves(q)
    BY DEF FilesInv
  <2>2. /\ InServices(q)' <=> InServices(q)
        /\ HasSwitched(q)' <=> HasSwitched(q)
        /\ Copied(q)' = Copied(q) /\ act'[q].req = act[q].req
    BY <1>4, ViewFacts
  <2>3. InServices(q)' => /\ InServices(q) /\ Copied(q)' <= Copied(q)
                          /\ HasSwitched(q)' => Hash(q) \in switched'
    BY <1>1, <1>3, <2>1, <2>2 DEF Serves
  <2> QED BY <1>1, <1>3, <2>1, <2>2, <2>3, ServesKept
<1>5. ASSUME NEW q \in Proc \ {p}
      PROVE  Serves(q)'
  BY <1>4 DEF Stepped
<1>6. ASSUME ~InServices(p)'
      PROVE  Serves(p)'
  BY <1>6 DEF Serves
<1>7. ASSUME Serves(p)', switched' = switched, current' # {} => current' \in switched, tmp' # {} => tmp' \in switched
      PROVE  FilesInv'
  <2>1. ASSUME NEW h \in switched', NEW s \in h
        PROVE  files'[h][s] # "absent"
    <3>1. h \in switched /\ h \in Profile /\ s \in Seed
      BY <1>1, <1>7, <2>1 DEF Profile
    <3>2. files[h][s] # "absent"
      BY <2>1, <3>1 DEF FilesInv
    <3> QED BY <1>1, <3>1, <3>2
  <2>2. \A q \in Proc : Serves(q)'
    BY <1>5, <1>7
  <2> QED BY <1>7, <2>1, <2>2 DEF FilesInv
<1>8. current # {} => current \in switched
  BY DEF FilesInv
<1>9. tmp # {} => tmp \in switched
  BY DEF FilesInv
<1>10. CASE \/ \E r \in Requests[p] : Accept(p, r)
            \/ NetworkRequest(p) \/ Refuse(p) \/ Begin(p) \/ Relay(p) \/ Close(p)
            \/ \E s \in Stream : WriteLine(p, s) \/ Pump(p, s) \/ PumpStops(p, s)
            \/ Disconnect(p) \/ SendError(p)
  <2>1. UNCHANGED shared /\ (View(act'[p]) = View(act[p]) \/ ~InServices(p)')
    BY <1>10, OtherSteps
  <2>2. Serves(p)'
    BY <1>4, <1>6, <2>1
  <2> QED BY <1>7, <1>8, <1>9, <2>1, <2>2 DEF shared
<1>11. CASE Spawn(p)
  <2>1. Serves(p)'
    BY <1>1, <1>6, <1>11, SpawnServes DEF FilesInv
  <2> QED BY <1>7, <1>8, <1>9, <1>11, <2>1 DEF Spawn
<1>12. ASSUME Errs(p)
       PROVE  ~InServices(p)'
  BY <1>2, <1>12, EndsOut
<1>13. CASE SpawnFails(p)
  BY <1>6, <1>7, <1>8, <1>9, <1>12, <1>13 DEF SpawnFails, shared
<1>14. CASE Kill(p)
  <2>1. act'[p].at = "done"
    BY <1>2, <1>14 DEF Kill, Over, Leave, NewProc
  <2>2. ~InServices(p)'
    BY <2>1 DEF InServices
  <2> QED BY <1>6, <1>7, <1>8, <1>9, <1>14, <2>2 DEF Kill
<1>15. CASE ResolveCurrent(p)
  <2>1. UNCHANGED <<current, tmp, switched>>
    BY <1>15 DEF ResolveCurrent
  <2>2. CASE Errs(p) \/ Ends(p, <<"note", "note", "complete0">>)
    <3>1. ~InServices(p)'
      BY <1>2, <1>12, <2>2, EndsOut
    <3> QED BY <1>6, <1>7, <1>8, <1>9, <2>1, <3>1
  <2>3. CASE act' = [act EXCEPT ![p].at = "next", ![p].old = current]
    <3>1. act'[p].at = "next" /\ act'[p].todo = a.todo /\ act'[p].req = a.req
      BY <1>2, <2>3
    <3>2. a \in Activation /\ a.at = "resolve" /\ a.at \in Working /\ FollowsPlan(a)
      BY <1>2, <1>15 DEF ResolveCurrent, Working, LocalInv, Local
    <3>3. Done(a) = 0
      BY <3>2, DoneFacts DEF FollowsPlan, Done
    <3>4. Copied(p)' = 0 /\ ~HasSwitched(p)'
      BY <3>1, <3>3 DEF Copied, Done, HasSwitched, Linking
    <3>5. Serves(p)'
      BY <3>4 DEF Serves
    <3> QED BY <1>7, <1>8, <1>9, <2>1, <3>5
  <2> QED BY <1>15, <2>2, <2>3 DEF ResolveCurrent
<1>16. ASSUME NEW at \in {"symlink", "rename"}, act' = [act EXCEPT ![p].at = at], a.at \in Linking
       PROVE  Serves(p)' /\ Hash(p) \in switched
  <2>1. act'[p].at = at /\ act'[p].req = a.req /\ act'[p].todo = a.todo
    BY <1>2, <1>16
  <2>2. a.req.kind = "services"
    BY <1>16 DEF LocalInv, Local, FollowsPlan, Working, Linking
  <2>3. InServices(p) /\ HasSwitched(p) /\ Serves(p)
    BY <1>16, <2>2 DEF InServices, HasSwitched, Linking, FilesInv
  <2>4. Hash(p) \in switched
    BY <2>3 DEF Serves
  <2>5. Copied(p)' = Copied(p)
    <3>1. a.at # "stream" /\ act'[p].at # "stream"
      BY <1>16, <2>1 DEF Linking
    <3>2. Done(act'[p]) = Done(a)
      BY <2>1 DEF Done
    <3> QED BY <3>1, <3>2 DEF Copied
  <2> QED BY <1>1, <1>3, <2>1, <2>3, <2>4, <2>5, ServesKept
<1>17. CASE RemoveTmp(p)
  <2>1. CASE Errs(p)
    <3>1. Serves(p)'
      BY <1>6, <1>12, <2>1
    <3> QED BY <1>7, <1>8, <1>9, <1>17, <3>1 DEF RemoveTmp
  <2>2. CASE act' = [act EXCEPT ![p].at = "symlink"]
    <3>1. a.at \in Linking
      BY <1>17 DEF RemoveTmp, Linking
    <3>2. Serves(p)'
      BY <1>16, <2>2, <3>1
    <3> QED BY <1>7, <1>8, <1>9, <1>17, <3>2 DEF RemoveTmp
  <2> QED BY <1>17, <2>1, <2>2 DEF RemoveTmp
<1>18. CASE Symlink(p)
  <2>1. CASE Errs(p) /\ UNCHANGED tmp
    BY <1>6, <1>7, <1>8, <1>9, <1>12, <1>18, <2>1 DEF Symlink
  <2>2. CASE tmp' = Hash(p) /\ act' = [act EXCEPT ![p].at = "rename"]
    <3>1. a.at \in Linking
      BY <1>18 DEF Symlink, Linking
    <3>2. Serves(p)' /\ Hash(p) \in switched
      BY <1>16, <2>2, <3>1
    <3> QED BY <1>7, <1>8, <1>18, <2>2, <3>2 DEF Symlink
  <2> QED BY <1>18, <2>1, <2>2 DEF Symlink
<1>19. CASE Rename(p)
  <2>1. ~InServices(p)'
    BY <1>2, <1>12, <1>19, EndsOut DEF Rename
  <2> QED BY <1>6, <1>7, <1>8, <1>9, <1>19, <2>1 DEF Rename
<1>20. CASE EndStream(p)
  <2>1. UNCHANGED shared
    BY <1>20, ServicesEnd
  <2>2. CASE ~InServices(p)'
    BY <1>6, <1>7, <1>8, <1>9, <2>1, <2>2 DEF shared
  <2>3. CASE InServices(p)'
    <3>1. /\ a.at = "stream" /\ act'[p].req = a.req /\ a.code = 0
          /\ Len(act'[p].todo) = Len(a.todo) - 1
          /\ \/ act'[p].at = "next" /\ ~HasSwitched(p)
             \/ act'[p].at = "remove" /\ a.cmd = "sd-switch"
      BY <1>20, <2>3, ServicesEnd
    <3>2. InServices(p)
      BY <2>3, <3>1 DEF InServices
    <3>3. Copied(p)' = Copied(p)
      <4>1. Len(PlanOf(a.req)) \in Nat /\ Len(a.todo) \in Nat
        BY <3>2, ServicesPlan, PlanFacts DEF Activation
      <4>2. Copied(p) = Len(PlanOf(a.req)) - Len(a.todo) + 1
        BY <3>1 DEF Copied, Done
      <4>3. Copied(p)' = Len(PlanOf(a.req)) - (Len(a.todo) - 1)
        BY <3>1 DEF Copied, Done
      <4> QED BY <4>1, <4>2, <4>3
    <3>4. HasSwitched(p)' => HasSwitched(p)
      BY <3>1 DEF HasSwitched, Linking
    <3>5. Serves(p)
      BY DEF FilesInv
    <3>6. HasSwitched(p)' => Hash(p) \in switched'
      BY <1>1, <3>2, <3>4, <3>5 DEF Serves
    <3>7. Serves(p)'
      BY <1>1, <1>3, <3>1, <3>2, <3>3, <3>5, <3>6, ServesKept
    <3> QED BY <1>7, <1>8, <1>9, <2>1, <3>7 DEF shared
  <2> QED BY <2>2, <2>3
<1>21. ASSUME NEW status, ExitCommand(p, status)
       PROVE  FilesInv'
  <2>1. Serves(p)
    BY DEF FilesInv
  <2>2. /\ Copied(p)' = Copied(p) /\ act'[p].req = act[p].req /\ InServices(p)' = InServices(p)
        /\ HasSwitched(p)' => Hash(p) \in switched'
        /\ switched' \in {switched, switched \cup {Hash(p)}}
        /\ switched' # switched => \A s \in Hash(p) : files'[Hash(p)][s] # "absent"
    BY <1>1, <1>21, <2>1, SwitchServes
  <2>3. Serves(p)'
    BY <1>1, <1>3, <2>1, <2>2, ServesKept
  <2>4. \A q \in Proc : Serves(q)'
    BY <1>5, <2>3
  <2>5. ASSUME NEW h \in switched', NEW s \in h
        PROVE  files'[h][s] # "absent"
    <3>1. CASE h \in switched
      <4>1. h \in Profile /\ s \in Seed
        BY <1>1, <2>5, <3>1 DEF Profile
      <4>2. files[h][s] # "absent"
        BY <2>5, <3>1 DEF FilesInv
      <4> QED BY <1>1, <4>1, <4>2
    <3>2. CASE h \notin switched
      BY <2>2, <2>5, <3>2
    <3> QED BY <3>1, <3>2
  <2>6. UNCHANGED <<current, tmp>>
    BY <1>21 DEF ExitCommand
  <2> QED BY <1>1, <1>8, <1>9, <2>4, <2>5, <2>6 DEF FilesInv
<1> QED
  BY <1>10, <1>11, <1>13, <1>14, <1>15, <1>17, <1>18, <1>19, <1>20, <1>21
  DEF StepOf, ActivatorStep, CommandStep

\* sd-switch, started from the units it is told are running, leaves the new ones.
LEMMA SwitchedUnits ==
  ASSUME NEW p \in Proc, units = act[p].old
  PROVE  SdSwitch(OldUnits(p), Hash(p)) = Hash(p)
BY DEF SdSwitch, OldUnits

LEMMA UnitsStep ==
  ASSUME ActTypeOK, AskedInv, LocalInv, FilesInv, UnitsInv, NEW p \in Proc, StepOf(p), Stepped(p)
  PROVE  UnitsInv'
<1> DEFINE a == act[p]
           Sees(q) == InServices(q) =>
             /\ act[q].old = current
             /\ units = IF HasSwitched(q) THEN Hash(q) ELSE current
             /\ ~(act[q].cmd = "sd-switch" /\ act[q].code = 1)
             /\ act[q].at = "rename" => tmp = Hash(q)
<1>1. act \in [Proc -> Activation] /\ act' \in [Proc -> Activation]
  BY DEF ActTypeOK, Stepped
<1>2. \A q \in Proc \ {p} : View(act'[q]) = View(act[q])
  BY DEF Stepped
<1>3. \A q \in Proc \ {p} : InServices(q)' <=> InServices(q)
  BY <1>2, ViewFacts
<1>4. SUFFICES ASSUME ~disturbed'
               PROVE  /\ \A q, r \in Proc : InServices(q)' /\ InServices(r)' => q = r
                      /\ \A q \in Proc : Sees(q)'
                      /\ (\A q \in Proc : ~InServices(q)') => units' = current'
  BY DEF UnitsInv
<1>5. ~disturbed
  BY <1>4, SharedTyped
<1>6. /\ \A q, r \in Proc : InServices(q) /\ InServices(r) => q = r
      /\ \A q \in Proc : Sees(q)
      /\ (\A q \in Proc : ~InServices(q)) => units = current
  BY <1>5 DEF UnitsInv
<1>7. ASSUME ~InServices(p)', InServices(p) => ~HasSwitched(p), UNCHANGED <<current, units, tmp>>
      PROVE  /\ \A q, r \in Proc : InServices(q)' /\ InServices(r)' => q = r
             /\ \A q \in Proc : Sees(q)'
             /\ (\A q \in Proc : ~InServices(q)') => units' = current'
  <2>1. \A q, r \in Proc : InServices(q)' /\ InServices(r)' => q = r
    BY <1>3, <1>6, <1>7
  <2>2. ASSUME NEW q \in Proc, InServices(q)'
        PROVE  Sees(q)'
    <3>1. q # p /\ InServices(q) /\ View(act'[q]) = View(act[q])
      BY <1>2, <1>3, <1>7, <2>2
    <3>2. Sees(q)
      BY <1>6
    <3> QED BY <1>7, <3>1, <3>2, ViewFacts
  <2>3. ASSUME \A q \in Proc : ~InServices(q)'
        PROVE  units' = current'
    <3>1. \A q \in Proc \ {p} : ~InServices(q)
      BY <1>3, <2>3
    <3>2. CASE InServices(p)
      <4>1. Sees(p)
        BY <1>6
      <4> QED BY <4>1, <1>7, <3>2
    <3>3. CASE ~InServices(p)
      BY <1>6, <1>7, <3>1, <3>3
    <3> QED BY <3>2, <3>3
  <2>4. \A q \in Proc : Sees(q)'
    BY <2>2
  <2> HIDE DEF Sees
  <2> QED BY <2>1, <2>3, <2>4
<1>8. ASSUME InServices(p)', \A q \in Proc \ {p} : ~InServices(q), Sees(p)'
      PROVE  /\ \A q, r \in Proc : InServices(q)' /\ InServices(r)' => q = r
             /\ \A q \in Proc : Sees(q)'
             /\ (\A q \in Proc : ~InServices(q)') => units' = current'
  <2>1. \A q \in Proc : InServices(q)' => q = p
    BY <1>3, <1>8
  <2>2. \A q \in Proc : Sees(q)'
    BY <1>8, <2>1
  <2> HIDE DEF Sees
  <2> QED BY <1>8, <2>1, <2>2
<1>9. ASSUME InServices(p)
      PROVE  \A q \in Proc \ {p} : ~InServices(q)
  BY <1>6, <1>9
<1>10. Sees(p)
  BY <1>6
<1>11. CASE \/ \E r \in Requests[p] : Accept(p, r)
            \/ NetworkRequest(p) \/ Refuse(p) \/ Begin(p) \/ Relay(p) \/ Close(p)
            \/ \E s \in Stream : WriteLine(p, s) \/ Pump(p, s) \/ PumpStops(p, s)
            \/ Disconnect(p) \/ SendError(p)
  <2>1. UNCHANGED shared /\ (View(act'[p]) = View(a) \/ (~InServices(p) /\ ~InServices(p)'))
    BY <1>11, OtherSteps
  <2>2. UNCHANGED <<current, units, tmp>>
    BY <2>1 DEF shared
  <2>3. CASE InServices(p)
    <3>1. InServices(p)' /\ View(act'[p]) = View(a)
      BY <2>1, <2>3, ViewFacts
    <3>2. Sees(p)'
      BY <1>10, <2>2, <2>3, <3>1, ViewFacts
    <3> HIDE DEF Sees
    <3> QED BY <1>8, <1>9, <2>3, <3>1, <3>2
  <2>4. CASE ~InServices(p)
    <3>1. ~InServices(p)'
      BY <2>1, <2>4, ViewFacts
    <3> HIDE DEF Sees
    <3> QED BY <1>7, <2>2, <2>4, <3>1
  <2> QED BY <2>3, <2>4
<1>12. ASSUME Errs(p)
       PROVE  ~InServices(p)'
  BY <1>1, <1>12, EndsOut
<1>13. CASE Spawn(p)
  <2>1. /\ a.at = "next" /\ act'[p].at = "stream" /\ act'[p].req = a.req /\ act'[p].old = a.old
        /\ act'[p].code = Running /\ UNCHANGED <<current, units, tmp>>
    BY <1>1, <1>13 DEF Spawn
  <2>2. ~HasSwitched(p) /\ ~HasSwitched(p)' /\ (InServices(p)' <=> InServices(p))
    BY <2>1 DEF HasSwitched, Linking, InServices, Running
  <2>3. CASE InServices(p)
    <3>1. Sees(p)'
      BY <1>10, <2>1, <2>2, <2>3 DEF Running
    <3> HIDE DEF Sees
    <3> QED BY <1>8, <1>9, <2>2, <2>3, <3>1
  <2>4. CASE ~InServices(p)
    <3> HIDE DEF Sees
    <3> QED BY <1>7, <2>1, <2>2, <2>4
  <2> QED BY <2>3, <2>4
<1>14. CASE SpawnFails(p)
  <2>1. ~HasSwitched(p) /\ ~InServices(p)' /\ UNCHANGED <<current, units, tmp>>
    BY <1>12, <1>14 DEF SpawnFails, shared, HasSwitched, Linking
  <2> HIDE DEF Sees
  <2> QED BY <1>7, <2>1
<1>15. CASE Kill(p)
  <2>1. act'[p].at = "done"
    BY <1>1, <1>15 DEF Kill, Over, Leave, NewProc
  <2>2. ~InServices(p)' /\ ~InServices(p) /\ UNCHANGED <<current, units, tmp>>
    BY <1>4, <1>15, <2>1 DEF Kill, InServices
  <2> HIDE DEF Sees
  <2> QED BY <1>7, <2>2
<1>16. CASE ResolveCurrent(p)
  <2>1. UNCHANGED <<current, units, tmp>> /\ ~InServices(p)
    BY <1>16 DEF ResolveCurrent, InServices
  <2>2. CASE Errs(p) \/ Ends(p, <<"note", "note", "complete0">>)
    <3>1. ~InServices(p)'
      BY <1>1, <1>12, <2>2, EndsOut
    <3> HIDE DEF Sees
    <3> QED BY <1>7, <2>1, <3>1
  <2>3. CASE /\ act' = [act EXCEPT ![p].at = "next", ![p].old = current]
             /\ disturbed' = (disturbed \/ \E q \in Proc \ {p} : InServices(q))
    <3>1. act'[p].at = "next" /\ act'[p].old = current /\ act'[p].code = a.code /\ act'[p].req = a.req
      BY <1>1, <2>3
    <3>2. \A q \in Proc \ {p} : ~InServices(q)
      BY <1>4, <2>3
    <3>3. units = current
      BY <1>6, <2>1, <3>2
    <3>4. a.code = Running /\ a.req.kind = "services"
      BY <1>16 DEF ResolveCurrent, LocalInv, Local, Quiet, FollowsPlan, Working
    <3>5. InServices(p)' /\ ~HasSwitched(p)'
      BY <3>1, <3>4 DEF InServices, HasSwitched, Linking
    <3>6. Sees(p)'
      BY <2>1, <3>1, <3>3, <3>4, <3>5 DEF Running
    <3> HIDE DEF Sees
    <3> QED BY <1>8, <3>2, <3>5, <3>6
  <2> QED BY <1>16, <2>2, <2>3 DEF ResolveCurrent
<1>17. ASSUME a.at \in Linking
       PROVE  /\ InServices(p) /\ HasSwitched(p) /\ a.req.kind = "services" /\ a.code = Running
              /\ a.old = current /\ units = Hash(p) /\ Hash(p) # {}
  <2>1. a.req.kind = "services" /\ a.code = Running
    BY <1>17 DEF LocalInv, Local, FollowsPlan, Quiet, Working, Linking
  <2>2. InServices(p) /\ HasSwitched(p)
    BY <1>17, <2>1 DEF InServices, HasSwitched, Linking
  <2>3. Hash(p) # {}
    BY <2>1, HashFacts DEF Profile
  <2> QED BY <1>10, <2>1, <2>2, <2>3
<1>18. ASSUME NEW at \in {"symlink", "rename"}, act' = [act EXCEPT ![p].at = at], a.at \in Linking,
              UNCHANGED <<current, units>>, at = "rename" => tmp' = Hash(p)
       PROVE  /\ \A q, r \in Proc : InServices(q)' /\ InServices(r)' => q = r
              /\ \A q \in Proc : Sees(q)'
              /\ (\A q \in Proc : ~InServices(q)') => units' = current'
  <2>1. act'[p].at = at /\ act'[p].req = a.req /\ act'[p].old = a.old /\ act'[p].code = a.code
    BY <1>1, <1>18
  <2>2. InServices(p)' /\ HasSwitched(p)' /\ Hash(p)' = Hash(p)
    BY <1>17, <1>18, <2>1 DEF InServices, HasSwitched, Linking, Hash
  <2>3. Sees(p)'
    BY <1>17, <1>18, <2>1, <2>2 DEF Running
  <2> HIDE DEF Sees
  <2> QED BY <1>8, <1>9, <1>17, <1>18, <2>2, <2>3
<1>19. CASE RemoveTmp(p)
  <2>1. a.at \in Linking /\ act' = [act EXCEPT ![p].at = "symlink"] /\ UNCHANGED <<current, units>>
    BY <1>4, <1>19 DEF RemoveTmp, Linking
  <2> HIDE DEF Sees
  <2> QED BY <1>18, <2>1
<1>20. CASE Symlink(p)
  <2>1. /\ a.at \in Linking /\ act' = [act EXCEPT ![p].at = "rename"] /\ UNCHANGED <<current, units>>
        /\ tmp' = Hash(p)
    BY <1>4, <1>20 DEF Symlink, Linking
  <2> HIDE DEF Sees
  <2> QED BY <1>18, <2>1
<1>21. CASE Rename(p)
  <2>1. a.at \in Linking /\ a.at = "rename"
    BY <1>21 DEF Rename, Linking
  <2>2. tmp = Hash(p) /\ tmp # {} /\ units = Hash(p)
    BY <1>10, <1>17, <2>1
  <2>3. current' = Hash(p) /\ units' = units /\ Ends(p, <<"complete0">>)
    BY <1>4, <1>21, <2>2 DEF Rename
  <2>4. ~InServices(p)'
    BY <1>1, <2>3, EndsOut
  <2>5. \A q \in Proc : ~InServices(q)'
    BY <1>3, <1>9, <1>17, <2>1, <2>4
  <2> QED BY <2>2, <2>3, <2>5
<1>22. CASE EndStream(p)
  <2>1. UNCHANGED <<current, units, tmp>>
    BY <1>22, ServicesEnd DEF shared
  <2>2. CASE ~InServices(p)'
    <3>1. InServices(p) => a.code = 1
      BY <1>22, <2>2, ServicesEnd DEF InServices
    <3>2. InServices(p) => ~HasSwitched(p)
      BY <1>22, <3>1 DEF HasSwitched, EndStream, Linking
    <3> HIDE DEF Sees
    <3> QED BY <1>7, <2>1, <2>2, <3>2
  <2>3. CASE InServices(p)'
    <3>1. /\ a.at = "stream" /\ act'[p].req = a.req /\ act'[p].old = a.old /\ a.code = 0
          /\ act'[p].code = Running
          /\ \/ act'[p].at = "next" /\ ~HasSwitched(p)
             \/ act'[p].at = "remove" /\ a.cmd = "sd-switch"
      BY <1>22, <2>3, ServicesEnd
    <3>2. InServices(p) /\ Hash(p)' = Hash(p) /\ (HasSwitched(p)' <=> HasSwitched(p))
      BY <2>3, <3>1 DEF InServices, Hash, HasSwitched, Linking
    <3>3. Sees(p)'
      BY <1>10, <2>1, <3>1, <3>2 DEF Running
    <3> HIDE DEF Sees
    <3> QED BY <1>8, <1>9, <2>3, <3>2, <3>3
  <2> QED BY <2>2, <2>3
<1>23. ASSUME NEW status \in {"ok", "failed", "signaled"}, ExitCommand(p, status)
       PROVE  /\ \A q, r \in Proc : InServices(q)' /\ InServices(r)' => q = r
              /\ \A q \in Proc : Sees(q)'
              /\ (\A q \in Proc : ~InServices(q)') => units' = current'
  <2>1. /\ act'[p].at = a.at /\ act'[p].req = a.req /\ act'[p].old = a.old /\ act'[p].cmd = a.cmd
        /\ act'[p].code = ExitCode(status) /\ UNCHANGED <<current, tmp>>
    BY <1>1, <1>23 DEF ExitCommand
  <2>2. a.at = "stream" /\ a.code = Running /\ (InServices(p)' <=> InServices(p)) /\ Hash(p)' = Hash(p)
    BY <1>23, <2>1 DEF ExitCommand, LocalInv, Local, Quiet, InServices, Hash
  <2>3. ~HasSwitched(p)
    BY <2>2 DEF HasSwitched, Linking, Running
  <2>4. CASE a.cmd = "sd-switch"
    <3>1. InServices(p) /\ status = "ok"
      BY <1>4, <1>23, <2>4, SwitchIsServices DEF ExitCommand
    <3>2. a.old = current /\ units = current
      BY <1>10, <2>3, <3>1
    <3>3. units' = Hash(p)
      BY <1>23, <2>4, <3>1, <3>2, SwitchedUnits DEF ExitCommand
    <3>4. HasSwitched(p)' /\ act'[p].code = 0
      BY <2>1, <2>2, <2>4, <3>1 DEF HasSwitched, ExitCode
    <3>5. Sees(p)'
      BY <2>1, <2>2, <3>2, <3>3, <3>4
    <3> HIDE DEF Sees
    <3> QED BY <1>8, <1>9, <2>2, <3>1, <3>5
  <2>5. CASE a.cmd # "sd-switch" /\ InServices(p)
    <3>1. units' = units /\ ~HasSwitched(p)'
      BY <1>23, <2>1, <2>2, <2>5 DEF ExitCommand, HasSwitched, Linking
    <3>2. Sees(p)'
      BY <1>10, <2>1, <2>2, <2>3, <2>5, <3>1
    <3> HIDE DEF Sees
    <3> QED BY <1>8, <1>9, <2>2, <2>5, <3>2
  <2>6. CASE a.cmd # "sd-switch" /\ ~InServices(p)
    <3>1. UNCHANGED <<current, units, tmp>>
      BY <1>23, <2>1, <2>6 DEF ExitCommand
    <3> HIDE DEF Sees
    <3> QED BY <1>7, <2>2, <2>6, <3>1
  <2> QED BY <2>4, <2>5, <2>6
<1> HIDE DEF Sees
<1> QED
  BY <1>11, <1>13, <1>14, <1>15, <1>16, <1>19, <1>20, <1>21, <1>22, <1>23
  DEF StepOf, ActivatorStep, CommandStep
-----------------------------------------------------------------------------
(* The invariant *)

\* A step keeps the request of its process or accepts one that it may be sent,
\* and exceeds neither bound.
LEMMA Bounded ==
  ASSUME ActTypeOK, ActivatorAssumption, NEW p \in Proc, StepOf(p)
  PROVE  /\ act'[p].req = act[p].req \/ act'[p].req \in Requests[p]
         /\ act'[p].lines <= MaxLines[p]
         /\ faults' \in 0..MaxFaults
<1> DEFINE a == act[p]
<1>1. act \in [Proc -> Activation] /\ a \in Activation /\ a.lines \in Nat /\ MaxLines[p] \in Nat
      /\ a.lines <= MaxLines[p] /\ faults \in 0..MaxFaults /\ MaxFaults \in Nat
  BY DEF ActTypeOK, ActivatorAssumption, Activation
<1>2. ASSUME act'[p].req = a.req, act'[p].lines = a.lines,
             UNCHANGED faults \/ (faults < MaxFaults /\ faults' = faults + 1)
      PROVE  /\ act'[p].req = act[p].req \/ act'[p].req \in Requests[p]
             /\ act'[p].lines <= MaxLines[p]
             /\ faults' \in 0..MaxFaults
  BY <1>1, <1>2
<1>3. \A at, k : Leave(p, at, k).req = a.req /\ Leave(p, at, k).lines = a.lines
  BY DEF Leave, NewProc
<1>4. ASSUME NEW k, Ends(p, k)
      PROVE  act'[p].req = a.req /\ act'[p].lines = a.lines
  BY <1>1, <1>3, <1>4 DEF Ends, Over
<1>5. ASSUME Errs(p)
      PROVE  act'[p].req = a.req /\ act'[p].lines = a.lines
  BY <1>1, <1>3, <1>5 DEF Errs, Failed
<1>6. CASE \E r \in Requests[p] : Accept(p, r)
  <2>1. PICK r \in Requests[p] : Accept(p, r)
    BY <1>6
  <2>2. act'[p].req = r /\ act'[p].lines = 0 /\ UNCHANGED faults
    <3>1. PICK at, replies : act' = [act EXCEPT ![p] = [NewProc EXCEPT !.at = at, !.req = r, !.replies = replies]]
      BY <2>1 DEF Accept
    <3>2. act'[p] = [NewProc EXCEPT !.at = at, !.req = r, !.replies = replies]
      BY <1>1, <3>1
    <3> QED BY <2>1, <3>2 DEF Accept, NewProc
  <2> QED BY <1>1, <2>2
<1>7. CASE NetworkRequest(p) \/ Refuse(p)
  BY <1>2, <1>4, <1>7 DEF NetworkRequest, Refuse
<1>8. CASE Begin(p)
  BY <1>1, <1>2, <1>8 DEF Begin, Activation
<1>9. CASE ResolveCurrent(p)
  BY <1>1, <1>2, <1>4, <1>5, <1>9 DEF ResolveCurrent, Activation
<1>10. CASE RemoveTmp(p)
  BY <1>1, <1>2, <1>5, <1>10 DEF RemoveTmp, Activation
<1>11. CASE Symlink(p) \/ Rename(p)
  BY <1>1, <1>2, <1>4, <1>5, <1>11 DEF Symlink, Rename, Activation
<1>12. CASE Spawn(p)
  <2>1. act'[p].req = a.req /\ act'[p].lines = a.lines
    BY <1>1, <1>12 DEF Spawn, Activation
  <2> QED BY <1>2, <2>1, <1>12 DEF Spawn
<1>13. CASE SpawnFails(p)
  BY <1>2, <1>5, <1>13 DEF SpawnFails
<1>14. CASE EndStream(p)
  <2> DEFINE goOn(where) == [a EXCEPT !.at = where, !.cmd = "none", !.fresh = FALSE,
                                      !.todo = Tail(a.todo), !.code = Running, !.open = FALSE,
                                      !.pipe = NoLines, !.deaf = {}, !.channel = 0]
  <2>1. act'[p] \in {Failed(p), Over(p, <<"complete1">>),
                     goOn("next"), goOn("remove"), Over(p, <<"complete0">>)}
    BY <1>1, <1>14 DEF EndStream
  <2>2. \A where : goOn(where).req = a.req /\ goOn(where).lines = a.lines
    BY <1>1 DEF Activation
  <2> HIDE DEF goOn
  <2>3. act'[p].req = a.req /\ act'[p].lines = a.lines
    BY <1>3, <2>1, <2>2 DEF Failed, Over
  <2> QED BY <1>2, <2>3, <1>14 DEF EndStream
<1>15. CASE Relay(p) \/ Close(p) \/ \E s \in Stream : Pump(p, s) \/ PumpStops(p, s)
  <2>1. act'[p].req = a.req /\ act'[p].lines = a.lines
    <3>1. CASE Relay(p)
      BY <1>1, <3>1 DEF Relay, Activation
    <3>2. CASE Close(p)
      BY <1>1, <3>2 DEF Close, Activation
    <3>3. ASSUME NEW s \in Stream, Pump(p, s)
          PROVE  act'[p].req = a.req /\ act'[p].lines = a.lines
      BY <1>1, <3>3 DEF Pump, Activation
    <3>4. ASSUME NEW s \in Stream, PumpStops(p, s)
          PROVE  act'[p].req = a.req /\ act'[p].lines = a.lines
      BY <1>1, <3>4 DEF PumpStops, Activation
    <3> QED BY <1>15, <3>1, <3>2, <3>3, <3>4
  <2> QED BY <1>2, <2>1, <1>15 DEF Relay, Close, Pump, PumpStops
<1>16. CASE \E s \in Stream : WriteLine(p, s)
  <2>1. act'[p].req = a.req /\ act'[p].lines = a.lines + 1 /\ a.lines < MaxLines[p]
        /\ UNCHANGED faults
    BY <1>1, <1>16 DEF WriteLine, Activation
  <2> QED BY <1>1, <2>1
<1>17. CASE \E status \in {"ok", "failed", "signaled"} : ExitCommand(p, status)
  <2>1. act'[p].req = a.req /\ act'[p].lines = a.lines
    BY <1>1, <1>17 DEF ExitCommand, Activation
  <2> QED BY <1>2, <2>1, <1>17 DEF ExitCommand
<1>18. CASE Disconnect(p)
  BY <1>1, <1>2, <1>18 DEF Disconnect, Activation
<1>19. CASE Kill(p)
  <2>1. act'[p] = [Over(p, <<>>) EXCEPT !.gone = TRUE]
    BY <1>1, <1>19 DEF Kill
  <2>2. act'[p].req = a.req /\ act'[p].lines = a.lines
    BY <2>1 DEF Over, Leave, NewProc
  <2> QED BY <1>2, <2>2, <1>19 DEF Kill
<1>20. CASE SendError(p)
  <2>1. CASE act' = [act EXCEPT ![p].at = "stuck"]
    BY <1>1, <1>2, <1>20, <2>1 DEF SendError, Activation
  <2>2. CASE Ends(p, <<"error", "complete1">>)
    BY <1>2, <1>4, <1>20, <2>2 DEF SendError
  <2> QED BY <1>20, <2>1, <2>2 DEF SendError
<1> QED
  BY <1>6, <1>7, <1>8, <1>9, <1>10, <1>11, <1>12, <1>13, <1>14, <1>15, <1>16, <1>17, <1>18, <1>19, <1>20
  DEF StepOf, ActivatorStep, CommandStep

\* Before any connection nothing is done, on disk or running.
LEMMA ActStarts == ASSUME ActivatorAssumption, Init PROVE ActInv
<1> USE DEF Init
<1>1. /\ act \in [Proc -> Activation] /\ \A p \in Proc : act[p] = NewProc
  BY NewTyped
<1>2. ActTypeOK
  <2>1. NewProc.lines = 0
    BY DEF NewProc
  <2>2. \A p \in Proc : act[p].lines <= MaxLines[p]
    BY <1>1, <2>1 DEF ActivatorAssumption
  <2>3. faults \in 0..MaxFaults
    BY DEF ActivatorAssumption
  <2> QED BY <1>1, <2>2, <2>3 DEF ActTypeOK
<1>3. NewProc.at = "listening" /\ NewProc.req.kind = "garbage"
  BY DEF NewProc, NoRequest
<1>4. \A p \in Proc : ~InServices(p)
  BY <1>1, <1>3 DEF InServices
<1>5. Local(NewProc)
  <2>1. Quiet(NewProc) /\ FollowsPlan(NewProc) /\ RanPlan(NewProc)
    BY DEF Quiet, FollowsPlan, RanPlan, NewProc, Working, Left
  <2>2. LineCount(<<>>) = 0
    <3>1. <<>> \in Seq(Reply)
      OBVIOUS
    <3> QED BY <3>1, LineFacts
  <2>3. Total(NewProc) = 0
    BY <2>2 DEF Total, NewProc, NoLines, Stream
  <2>4. Replied(NewProc)
    BY <2>3 DEF Replied, NewProc
  <2> QED BY <2>1, <2>4 DEF Local
<1> QED
  BY <1>1, <1>2, <1>3, <1>4, <1>5 DEF ActInv, AskedInv, LocalInv, FilesInv, Serves, UnitsInv

LEMMA ActSteps == ASSUME ActivatorAssumption, ActInv, [Next]_vars PROVE ActInv'
<1>1. CASE UNCHANGED vars
  <2>1. UNCHANGED <<act, files, current, tmp, units, switched, disturbed, faults>>
    BY <1>1 DEF vars, shared
  <2>2. ActTypeOK' /\ AskedInv' /\ LocalInv'
    BY <2>1 DEF ActInv, ActTypeOK, AskedInv, LocalInv
  <2>3. \A p \in Proc : /\ InServices(p)' <=> InServices(p)
                        /\ Hash(p)' = Hash(p) /\ (HasSwitched(p)' <=> HasSwitched(p))
                        /\ Copied(p)' = Copied(p)
    BY <2>1 DEF InServices, Hash, HasSwitched, Copied
  <2>4. FilesInv'
    <3>1. ASSUME NEW p \in Proc PROVE Serves(p)' <=> Serves(p)
      <4>1. act' = act /\ files' = files /\ switched' = switched
        BY <2>1
      <4>2. /\ InServices(p)' <=> InServices(p)
            /\ Hash(p)' = Hash(p) /\ (HasSwitched(p)' <=> HasSwitched(p)) /\ Copied(p)' = Copied(p)
        BY <2>3
      <4> QED BY <4>1, <4>2 DEF Serves
    <3> QED BY <2>1, <3>1 DEF ActInv, FilesInv
  <2>5. UnitsInv'
    <3> DEFINE Sees(p) == InServices(p) =>
                 /\ act[p].old = current
                 /\ units = IF HasSwitched(p) THEN Hash(p) ELSE current
                 /\ ~(act[p].cmd = "sd-switch" /\ act[p].code = 1)
                 /\ act[p].at = "rename" => tmp = Hash(p)
    <3>1. ASSUME NEW p \in Proc PROVE Sees(p)' <=> Sees(p)
      <4>1. act' = act /\ units' = units /\ current' = current /\ tmp' = tmp
        BY <2>1
      <4>2. /\ InServices(p)' <=> InServices(p)
            /\ Hash(p)' = Hash(p) /\ (HasSwitched(p)' <=> HasSwitched(p))
        BY <2>3
      <4> QED BY <4>1, <4>2
    <3>2. ~disturbed => /\ \A p, q \in Proc : InServices(p) /\ InServices(q) => p = q
                        /\ \A p \in Proc : Sees(p)
                        /\ (\A p \in Proc : ~InServices(p)) => units = current
      BY DEF ActInv, UnitsInv
    <3> HIDE DEF Sees
    <3>3. ~disturbed' => /\ \A p, q \in Proc : InServices(p)' /\ InServices(q)' => p = q
                         /\ \A p \in Proc : Sees(p)'
                         /\ (\A p \in Proc : ~InServices(p)') => units' = current'
      BY <2>1, <2>3, <3>1, <3>2
    <3> QED BY <3>3 DEF UnitsInv, Sees
  <2> QED BY <2>2, <2>4, <2>5 DEF ActInv
<1>2. CASE Next
  <2> USE DEF ActInv
  <2>1. PICK p \in Proc : StepOf(p)
    BY <1>2 DEF Next, StepOf
  <2>2. Stepped(p)
    BY <2>1, AllStepped
  <2>3. LocalInv'
    BY <2>2 DEF Stepped, LocalInv
  <2>4. /\ act'[p].req = act[p].req \/ act'[p].req \in Requests[p]
        /\ act'[p].lines <= MaxLines[p] /\ faults' \in 0..MaxFaults
    BY <2>1, Bounded
  <2>5. ActTypeOK'
    <3>1. \A q \in Proc : act'[q].lines <= MaxLines[q]
      BY <2>2, <2>4 DEF Stepped, ActTypeOK
    <3> QED BY <2>1, <2>2, <2>4, <3>1, SharedTyped DEF Stepped, ActTypeOK
  <2>6. AskedInv'
    BY <2>2, <2>4 DEF Stepped, AskedInv, ActivatorAssumption
  <2>7. FilesInv'
    BY <2>1, <2>2, <2>5, FilesStep
  <2>8. UnitsInv'
    BY <2>1, <2>2, UnitsStep
  <2> QED BY <2>3, <2>5, <2>6, <2>7, <2>8
<1> QED BY <1>1, <1>2

\* The invariant: the plans, the replies, the profiles and the running units
\* keep together whichever activators interleave (activate.rs, services.rs).
THEOREM ActInvariant == Spec => []ActInv
<1>1. Init => ActInv
  BY ActStarts, ActivatorAssumption
<1>2. ActInv /\ [Next]_vars => ActInv'
  BY ActSteps, ActivatorAssumption
<1> QED BY <1>1, <1>2, PTL DEF Spec

\* Activators, profiles and links have their types in every run of the
\* activator (run_socket and what it calls).
THEOREM ActTypes == Spec => []ActTypeOK
<1>1. ActInv => ActTypeOK
  BY DEF ActInv
<1> QED BY <1>1, ActInvariant, PTL

\* The current link names only profiles that sd-switch succeeded for and that
\* have units of every seed, whatever overlaps, fails or is killed between the
\* three system calls of update_current.
THEOREM ActCurrentSwitched == Spec => []CurrentSwitched
<1>1. ActInv => CurrentSwitched
  BY DEF ActInv, FilesInv, CurrentSwitched
<1> QED BY <1>1, ActInvariant, PTL

\* Unless services runs overlapped, failed to switch or to link or were killed,
\* systemd runs the units of the current profile between two runs
\* (services::run).
THEOREM ActUnitsFollowCurrent == Spec => []UnitsFollowCurrent
<1>1. ActInv => UnitsFollowCurrent
  BY DEF ActInv, UnitsInv, UnitsFollowCurrent
<1> QED BY <1>1, ActInvariant, PTL

\* Exit code 0 means that every command of the request ran and succeeded, no
\* command runs after a failed one or for a peer that may not activate, and the
\* system profile is set before the switch (activate::run).
THEOREM ActClientTruth == Spec => []ClientTruth
<1>1. ASSUME ActInv PROVE ClientTruth
  <2> SUFFICES ASSUME NEW p \in Proc
               PROVE LET ran == act[p].ran
                         plan == PlanOf(act[p].req)
                         read == Given(act[p].replies)
                     IN  /\ "complete0" \in read /\ "note" \notin read /\ act[p].req.kind # "network"
                              => ran = [i \in 1..Len(plan) |-> <<plan[i], 0>>]
                         /\ ran # <<>> => act[p].req.peer \in {"activation", "both"}
                         /\ \A i \in 1..Len(ran) :
                              /\ i < Len(ran) => ran[i][2] = 0
                              /\ ran[i][1] = "switch-to-configuration" => i = 2 /\ ran[1][1] = "nix-env"
    BY DEF ClientTruth, Given
  <2> DEFINE a == act[p]
             ran == a.ran
             plan == PlanOf(a.req)
  <2>1. a \in Activation /\ Local(a)
    BY <1>1 DEF ActInv, ActTypeOK, LocalInv
  <2>2. a.req \in Request /\ a.replies \in Seq(Reply) /\ ran \in Seq(Exited)
    BY <2>1 DEF Activation
  <2>3. StartOfPlan(ran, plan) /\ (ran # <<>> => Authorized(a.req.peer))
    BY <2>1, RanStarts DEF Local
  <2>4. Len(ran) \in Nat /\ Len(plan) \in Nat
    BY <2>2, PlanFacts
  <2>5. \A i \in 1..Len(plan) : plan[i] = "switch-to-configuration" => i = 2 /\ plan[1] = "nix-env"
    BY <2>2, PlanFacts
  <2>6. \A i \in 1..Len(ran) :
          /\ i < Len(ran) => ran[i][2] = 0
          /\ ran[i][1] = "switch-to-configuration" => i = 2 /\ ran[1][1] = "nix-env"
    <3> SUFFICES ASSUME NEW i \in 1..Len(ran)
                 PROVE /\ i < Len(ran) => ran[i][2] = 0
                       /\ ran[i][1] = "switch-to-configuration" => i = 2 /\ ran[1][1] = "nix-env"
      OBVIOUS
    <3> HIDE DEF ran, plan
    <3>1. i \in 1..Len(plan) /\ 1 \in 1..Len(ran)
      BY <2>3, <2>4 DEF StartOfPlan
    <3>2. ran[i][1] = plan[i] /\ ran[1][1] = plan[1] /\ (i < Len(ran) => ran[i][2] = 0)
      BY <2>3, <3>1 DEF StartOfPlan
    <3> QED BY <2>5, <3>1, <3>2
  <2>7. "complete0" \in Given(a.replies) => a.at = "done"
    <3>1. Len(a.replies) \in Nat
      BY <2>2
    <3>2. a.at # "done" => \A i \in 1..Len(a.replies) : a.replies[i] \in Partly
      BY <2>1 DEF Local, Replied
    <3> QED BY <3>2 DEF Given, Partly
  <2> QED BY <2>1, <2>3, <2>6, <2>7 DEF Local, RanPlan, Authorized, Left
<1> QED BY <1>1, ActInvariant, PTL

\* A client that stays connected has read every line that was not lost with a
\* stream that is not UTF-8 before the one completion (activate::stream, its
\* pumps and its channel).
THEOREM ActRepliesComplete == Spec => []RepliesComplete
<1>1. ASSUME ActInv PROVE RepliesComplete
  <2> SUFFICES ASSUME NEW p \in Proc
               PROVE /\ \A i \in {j \in 1..Len(act[p].replies) : act[p].replies[j] \in Completions} :
                          i = Len(act[p].replies)
                     /\ act[p].at = "done" /\ ~act[p].gone
                          => Cardinality({i \in 1..Len(act[p].replies) : act[p].replies[i] \in {"line"}})
                             + act[p].lost = act[p].lines
    BY DEF RepliesComplete
  <2> DEFINE a == act[p]
  <2>1. a \in Activation /\ Quiet(a) /\ Replied(a)
    BY <1>1 DEF ActInv, ActTypeOK, LocalInv, Local
  <2>2. {i \in 1..Len(a.replies) : a.replies[i] \in {"line"}} = LinesIn(a.replies)
    BY DEF LinesIn
  <2>3. ASSUME a.at = "done", ~a.gone
        PROVE  LineCount(a.replies) + a.lost = a.lines
    <3>1. a.pipe = NoLines /\ a.channel = 0
      BY <2>1, <2>3 DEF Quiet
    <3>2. a.pipe["stdout"] = 0 /\ a.pipe["stderr"] = 0
      BY <3>1 DEF NoLines, Stream
    <3>3. a.replies \in Seq(Reply) /\ a.lost \in Nat
      BY <2>1 DEF Activation
    <3>4. LineCount(a.replies) \in Nat
      BY <3>3, LineFacts
    <3>5. Total(a) = a.lines
      BY <2>1, <2>3 DEF Replied
    <3> QED BY <3>1, <3>2, <3>3, <3>4, <3>5 DEF Total
  <2> QED BY <2>1, <2>2, <2>3 DEF Replied, LineCount
<1> QED BY <1>1, ActInvariant, PTL
=============================================================================
