------------------------ MODULE DeployCommandProofs ------------------------
(***************************************************************************)
(* Proofs about `sower deploy`, for any command lines, artifacts and rows, *)
(* and for ssh output of any length.                                       *)
(*                                                                         *)
(* The exit status is about a row that the server changes between the      *)
(* polls: Waiting says what the command knows of its row and what of it    *)
(* stays true.  The result of a sudo deployment is about bytes that the    *)
(* remote end wrote some steps before: until the activator has answered a  *)
(* request with exit code 0 there is no such byte between it and the       *)
(* decoder, whatever the chunks (Flow).  What the terminal shows is about  *)
(* bytes that are still on their way: each of them that is meant for the   *)
(* terminal has its place in what the remote end wrote for it (Screened).  *)
(***************************************************************************)
EXTENDS DeployCommand, SequenceTheorems, FiniteSetTheorems, TLAPS

-----------------------------------------------------------------------------
(* The inductive invariant *)

\* The activator completed the last request with exit code 0.
Answered == <<Last(asked), "complete0">> \in answers

\* The bytes there may be on their way.
Trusted == IF Answered THEN Token ELSE Token \ {"complete0"}

Flow ==
  /\ pipe \in Seq(Trusted) /\ pending \in Seq(Trusted)
  /\ completion = "0" => Answered
  /\ sudoResult \in {"0", "ok"} => Answered

AnySid == [given: BOOLEAN, of: SUBSET Registered]

\* What is true of the rows: no command or server has seen an absent one, and
\* a success is remembered.
Rows ==
  /\ rowSeed \in [Id -> AnySid] /\ seedSid \in AnySid
  /\ \A d \in Id : shown[d] = "absent" => outcome[d] = "none" /\ d \notin created
  /\ \A d \in Id : shown[d] = "completed" /\ outcome[d] = "success" => d \in succeeded

\* What the command knows of the row it waits for.
Waiting ==
  /\ pc \in {"posted", "created", "wait"}
       => dep \in Id /\ rowSeed[dep] = seedSid /\ shown[dep] # "absent"
  /\ pc \in {"created", "wait"}
       => /\ info.state \in OpenStates \cup EndStates \cup {"absent"}
          /\ info.state = "completed" /\ info.result = "success" => dep \in succeeded
  /\ pc # "exit" => exit = "none"
  /\ ExitTruth

\* What the artifact in hand has passed.
Passed ==
  /\ pc \in {"precheck", "copy", "prepared", "ssh"}
       => /\ artifact # {}
          /\ args.sudo /\ args.action = "restart" => seedType = "nixos"
  /\ pc \in {"copy", "prepared"}
       => \A art \in artifact : art.kind = seedType /\ seedType # "nix-darwin"
  /\ pc \in {"prepared", "ssh"} /\ args.copy # "none" => artifact \subseteq copied
  /\ pc = "post" => \/ seedSid = Given /\ args.target = "seed"
                    \/ \E seed \in seeds : seedSid = Sid(seed)
  /\ Prepared

\* Where a sudo deployment can be, and that no other one talks to a host.
SudoPath ==
  /\ args.sudo => /\ args.copy # "none"
                  /\ pc \in {"start", "prepare", "precheck", "copy", "prepared", "ssh", "exit"}
  /\ ~args.sudo => pc # "ssh"
  /\ asked # <<>> => pc \in {"ssh", "exit"}
  /\ pc = "ssh" => asked # <<>>
  /\ ssh # "none" => pc = "ssh"
  /\ SudoTruth

DeployInv == Flow /\ Rows /\ Waiting /\ Passed /\ SudoPath

-----------------------------------------------------------------------------
(* Sequences *)

LEMMA SubSeqType ==
  ASSUME NEW S, NEW q \in Seq(S), NEW m \in Nat, m > 0, NEW n \in Int, n <= Len(q)
  PROVE  SubSeq(q, m, n) \in Seq(S)
<1>1. \A i \in m..n : i \in 1..Len(q)
  <2>1. Len(q) \in Nat
    OBVIOUS
  <2>2. \A l \in Nat : n <= l => \A i \in m..n : i \in 1..l
    OBVIOUS
  <2> QED BY <2>1, <2>2
<1>2. \A i \in m..n : q[i] \in S
  BY <1>1
<1> QED BY <1>2, SubSeqProperties

LEMMA SeqSubset ==
  ASSUME NEW S, NEW T, S \subseteq T, NEW q \in Seq(S)
  PROVE  q \in Seq(T)
<1>1. q \in [1..Len(q) -> S] /\ Len(q) \in Nat
  OBVIOUS
<1>2. q \in [1..Len(q) -> T]
  BY <1>1
<1> QED BY <1>1, <1>2

LEMMA TwoRequests == Append(<<"activate">>, "reboot") = <<"activate", "reboot">>
<1> DEFINE S == {"activate", "reboot"}
           A == Append(<<"activate">>, "reboot")
<1>1. <<"activate">> \in Seq(S) /\ Len(<<"activate">>) = 1
      /\ <<"activate", "reboot">> \in Seq(S) /\ Len(<<"activate", "reboot">>) = 2
  OBVIOUS
<1>2. A \in Seq(S) /\ Len(A) = 2 /\ A[1] = "activate" /\ A[2] = "reboot"
  BY <1>1, AppendProperties
<1>3. <<"activate", "reboot">>[1] = "activate" /\ <<"activate", "reboot">>[2] = "reboot"
  OBVIOUS
<1>4. \A i \in 1..2 : A[i] = <<"activate", "reboot">>[i]
  BY <1>2, <1>3
<1> QED BY <1>1, <1>2, <1>4, SeqEqual

\* What EmitText holds back is part of what it has.
LEMMA RetainedBound ==
  ASSUME NEW S, NEW q \in Seq(S)
  PROVE  Retained(q) \in 0..Len(q)
<1> DEFINE R == {0} \cup {n \in 1..2 : IsSuffix(SubSeq(FramePrefix, 1, n), q)}
<1>1. \A n \in R : n \in 0..Len(q)
  <2> SUFFICES ASSUME NEW n \in 1..2, IsSuffix(SubSeq(FramePrefix, 1, n), q)
               PROVE  n \in 0..Len(q)
    OBVIOUS
  <2> DEFINE p == SubSeq(FramePrefix, 1, n)
  <2>1. FramePrefix \in Seq(Token) /\ Len(FramePrefix) = 3
    BY DEF FramePrefix, Token, Text
  <2>2. \A i \in 1..n : FramePrefix[i] \in Token
    <3>1. \A i \in 1..3 : FramePrefix[i] \in Token
      <4>1. DOMAIN FramePrefix = 1..3
        BY <2>1, LenProperties
      <4>2. \A z \in Seq(Token) : \A i \in DOMAIN z : z[i] \in Token
        OBVIOUS
      <4> QED BY <2>1, <4>1, <4>2
    <3> QED BY <3>1
  <2>3. p \in Seq(Token) /\ Len(p) = n
    BY <2>2, SubSeqProperties
  <2> HIDE DEF p
  <2>4. Len(Reverse(p)) = n
    BY <2>3 DEF Reverse
  <2>5. Len(Reverse(q)) = Len(q)
    BY DEF Reverse
  <2>6. Len(Reverse(p)) <= Len(Reverse(q))
    BY DEF IsSuffix, IsPrefix, p
  <2> QED BY <2>4, <2>5, <2>6
<1>2. R \subseteq 0..2 /\ 0 \in R
  OBVIOUS
<1>3. \E x \in R : \A y \in R : x >= y
  BY <1>2
<1>4. Max(R) \in R
  BY <1>3 DEF Max
<1> QED BY <1>1, <1>4 DEF Retained

-----------------------------------------------------------------------------
(* The bytes of a response *)

LEMMA TrustedTokens ==
  /\ Trusted \subseteq Token
  /\ Token \ {"complete0"} \subseteq Trusted
  /\ {"rs", "text", "name", "us", "nl", "output", "other", "complete1", "invalid"} \subseteq Trusted
  /\ Answered => Trusted = Token
  /\ "complete0" \in Trusted => Answered
  /\ FramePrefix \in Seq(Trusted)
<1>1. /\ Trusted \subseteq Token
      /\ Token \ {"complete0"} \subseteq Trusted
      /\ Answered => Trusted = Token
      /\ "complete0" \in Trusted => Answered
  BY DEF Trusted
<1>2. {"rs", "text", "name", "us", "nl", "output", "other", "complete1", "invalid"}
        \subseteq Token \ {"complete0"}
  BY DEF Token, Text, Body
<1>3. "rs" \in Trusted /\ "name" \in Trusted /\ "us" \in Trusted
  BY <1>1, <1>2
<1>4. FramePrefix \in Seq(Trusted)
  BY <1>3 DEF FramePrefix
<1> QED BY <1>1, <1>2, <1>4

\* What the activator has answered, it has answered.
LEMMA TrustGrows ==
  ASSUME asked' = asked, answers \subseteq answers'
  PROVE  (Answered => Answered') /\ Trusted \subseteq Trusted'
BY DEF Answered, Trusted

SudoTypes == SudoTypeOK /\ Flow

LEMMA RunSshFlow ==
  ASSUME NEW r, RunSsh(r), Append(asked, r) \in {<<"activate">>, <<"activate", "reboot">>}
  PROVE  SudoTypes'
<1>1. pipe' = <<>> /\ pending' = <<>> /\ screen' = <<>>
  BY DEF RunSsh
<1>2. \A S : <<>> \in Seq(S)
  OBVIOUS
<1>3. Flow'
  BY <1>1, <1>2 DEF Flow, RunSsh
<1> QED BY <1>1, <1>2, <1>3 DEF SudoTypes, SudoTypeOK, RunSsh

LEMMA RemoteFlow == ASSUME SudoTypes, RemoteStep PROVE SudoTypes'
<1>0. /\ SudoTypeOK /\ Flow /\ pipe \in Seq(Trusted) /\ pending \in Seq(Trusted)
      /\ screen \in Seq(Token)
  BY DEF SudoTypes, SudoTypeOK, Flow
<1>1. ASSUME UNCHANGED <<asked, decoderVars, sudoResult>>, answers \subseteq answers',
             ssh' \in {"none", "running", "success", "failure"}, pipe' \in Seq(Trusted')
      PROVE  SudoTypes'
  <2>1. (Answered => Answered') /\ Trusted \subseteq Trusted'
    BY <1>1, TrustGrows
  <2>2. pending' \in Seq(Trusted') /\ pipe' \in Seq(Trusted')
    <3>1. pending' = pending
      BY <1>1 DEF decoderVars
    <3> QED BY <1>0, <1>1, <2>1, <3>1, SeqSubset
  <2>3. (Trusted \subseteq Token)'
    BY DEF Trusted
  <2>4. pipe' \in Seq(Token) /\ pending' \in Seq(Token)
    BY <2>2, <2>3, SeqSubset
  <2>5. Flow'
    BY <1>0, <1>1, <2>1, <2>2 DEF Flow, decoderVars
  <2>6. SudoTypeOK'
    BY <1>0, <1>1, <2>4 DEF SudoTypeOK, decoderVars
  <2> QED BY <2>5, <2>6 DEF SudoTypes
<1>2. ASSUME NEW c \in Text, Echo(c) PROVE SudoTypes'
  <2>1. c \in Trusted
    BY <1>2, TrustedTokens DEF Text
  <2>2. pipe' \in Seq(Trusted)
    <3>1. Append(pipe, c) \in Seq(Trusted)
      BY <1>0, <2>1, AppendProperties
    <3> QED BY <1>2, <3>1 DEF Echo
  <2>3. asked' = asked /\ answers' = answers /\ ssh' = ssh
    BY <1>2 DEF Echo
  <2>4. Trusted' = Trusted
    BY <2>3 DEF Trusted, Answered
  <2> QED BY <1>0, <1>1, <1>2, <2>2, <2>3, <2>4 DEF Echo, SudoTypeOK
<1>3. ASSUME NEW b \in Body, Respond(b) PROVE SudoTypes'
  <2>1. asked' = asked /\ answers \subseteq answers' /\ ssh' = ssh
    BY <1>3 DEF Respond
  <2>2. Trusted \subseteq Trusted'
    BY <2>1, TrustGrows
  <2>3. b \in Trusted'
    <3>1. CASE b = "complete0"
      <4>1. Answered'
        BY <1>3, <2>1, <3>1 DEF Respond, Answered
      <4> QED BY <1>3, <4>1 DEF Trusted, Token
    <3>2. CASE b # "complete0"
      BY <1>3, <3>2 DEF Trusted, Token
    <3> QED BY <3>1, <3>2
  <2>4. "nl" \in Trusted' /\ FramePrefix \in Seq(Trusted') /\ pipe \in Seq(Trusted')
    <3>1. FramePrefix \in Seq(Trusted) /\ "nl" \in Trusted
      BY TrustedTokens
    <3> QED BY <1>0, <2>2, <3>1, SeqSubset
  <2>5. <<b, "nl">> \in Seq(Trusted')
    BY <2>3, <2>4
  <2>6. pipe \o FramePrefix \in Seq(Trusted')
    BY <2>4, ConcatProperties
  <2>7. (pipe \o FramePrefix) \o <<b, "nl">> \in Seq(Trusted')
    BY <2>5, <2>6, ConcatProperties
  <2>8. pipe' \in Seq(Trusted')
    BY <1>3, <2>7 DEF Respond
  <2> QED BY <1>0, <1>1, <1>3, <2>1, <2>8 DEF Respond, SudoTypeOK
<1>4. CASE EndSsh
  <2>1. asked' = asked /\ answers' = answers
    BY <1>4 DEF EndSsh, remoteVars
  <2>2. Trusted' = Trusted
    BY <2>1 DEF Trusted, Answered
  <2>3. pipe' \in Seq(Trusted)
    <3>1. ASSUME NEW n \in 0..Len(pipe) PROVE SubSeq(pipe, 1, n) \in Seq(Trusted)
      BY <1>0, <3>1, SubSeqType
    <3> QED BY <1>0, <1>4, <3>1 DEF EndSsh
  <2> QED BY <1>1, <1>4, <2>1, <2>2, <2>3 DEF EndSsh
<1> QED BY <1>2, <1>3, <1>4 DEF RemoteStep

LEMMA DecoderFlow == ASSUME SudoTypes, DecoderStep \/ StreamBreaks PROVE SudoTypes'
<1>0. /\ SudoTypeOK /\ Flow /\ pipe \in Seq(Trusted) /\ pending \in Seq(Trusted)
      /\ screen \in Seq(Token) /\ Trusted \subseteq Token /\ pending \in Seq(Token)
  BY TrustedTokens DEF SudoTypes, SudoTypeOK, Flow
<1>1. ASSUME asked' = asked, answers' = answers,
             pipe' \in Seq(Trusted), pending' \in Seq(Trusted), screen' \in Seq(Token),
             ssh' \in {"none", "running", "success", "failure"},
             inFrame' \in BOOLEAN, decoding' \in BOOLEAN,
             completion' \in {"none", "0", "1"}, completion' = "0" => Answered,
             sudoResult' \in {"none", "0", "1", "error", "ok"},
             sudoResult' \in {"0", "ok"} => Answered
      PROVE  SudoTypes'
  <2>1. Trusted' = Trusted /\ (Answered <=> Answered')
    BY <1>1 DEF Trusted, Answered
  <2>2. pipe' \in Seq(Token) /\ pending' \in Seq(Token)
    BY <1>0, <1>1, SeqSubset
  <2>3. Flow'
    BY <1>1, <2>1 DEF Flow
  <2>4. SudoTypeOK'
    BY <1>0, <1>1, <2>2 DEF SudoTypeOK
  <2> QED BY <2>3, <2>4 DEF SudoTypes
<1> DEFINE Ready == /\ ssh \in {"none", "running", "success", "failure"}
                    /\ inFrame \in BOOLEAN /\ decoding \in BOOLEAN
                    /\ completion \in {"none", "0", "1"} /\ (completion = "0" => Answered)
                    /\ sudoResult \in {"none", "0", "1", "error", "ok"}
                    /\ (sudoResult \in {"0", "ok"} => Answered)
<1>2. Ready
  BY <1>0 DEF SudoTypeOK, Flow
<1>3. ASSUME NEW n \in 0..Len(pending) PROVE SubSeq(pending, 1, n) \in Seq(Token)
  BY <1>0, <1>3, SubSeqType
<1>4. ASSUME NEW n \in Nat, Consume(n) PROVE pending' \in Seq(Trusted)
  <2>1. n + 1 \in Nat /\ n + 1 > 0 /\ Len(pending) \in Int
    BY <1>0
  <2>2. SubSeq(pending, n + 1, Len(pending)) \in Seq(Trusted)
    BY <1>0, <2>1, SubSeqType
  <2> QED BY <1>4, <2>2 DEF Consume
<1>5. ASSUME NEW n \in 1..Len(pipe), Read(n) PROVE SudoTypes'
  <2>1. SubSeq(pipe, 1, n) \in Seq(Trusted)
    BY <1>0, <1>5, SubSeqType
  <2>2. n + 1 \in Nat /\ n + 1 > 0 /\ Len(pipe) \in Int
    BY <1>0
  <2>3. SubSeq(pipe, n + 1, Len(pipe)) \in Seq(Trusted)
    BY <1>0, <2>2, SubSeqType
  <2>4. pending \o SubSeq(pipe, 1, n) \in Seq(Trusted)
    BY <1>0, <2>1, ConcatProperties
  <2>5. pipe' \in Seq(Trusted) /\ pending' \in Seq(Trusted)
    BY <1>5, <2>3, <2>4 DEF Read
  <2>6. /\ UNCHANGED <<asked, ssh, inFrame, completion, screen, answers, sudoResult>>
        /\ decoding' = TRUE
    BY <1>5 DEF Read, remoteVars
  <2> QED BY <1>0, <1>1, <1>2, <2>5, <2>6
<1>6. ASSUME StreamFails PROVE SudoTypes'
  <2>1. pending' \in Seq(Trusted)
    BY <1>6 DEF StreamFails
  <2>2. /\ UNCHANGED <<asked, pipe, inFrame, completion, screen, answers>>
        /\ decoding' = FALSE /\ sudoResult' = "error"
        /\ ssh' \in {"none", "running", "success", "failure"}
    BY <1>2, <1>6 DEF StreamFails, remoteVars
  <2> QED BY <1>0, <1>1, <1>2, <2>1, <2>2
\* The only place a completion is decoded.
<1>7. ASSUME DecodeFrame, ~Refused(Head(pending)) PROVE SudoTypes'
  <2> DEFINE body == Head(pending)
  <2>1. body \in Trusted
    <3>1. pending # <<>>
      BY <1>7 DEF DecodeFrame, Contains
    <3> QED BY <1>0, <3>1, HeadTailProperties
  <2>2. completion' \in {"none", "0", "1"} /\ (completion' = "0" => Answered)
    <3>1. completion' = CASE body = "complete0" -> "0"
                          [] body = "complete1" -> "1"
                          [] OTHER -> completion
      BY <1>7 DEF DecodeFrame
    <3>2. body = "complete0" => Answered
      BY <2>1, TrustedTokens
    <3> HIDE DEF body
    <3> QED BY <1>2, <3>1, <3>2
  <2>3. Consume(2)
    BY <1>7 DEF DecodeFrame
  <2>4. pending' \in Seq(Trusted)
    BY <1>4, <2>3
  <2>5. screen' \in Seq(Token)
    <3>1. Append(screen, body) \in Seq(Token)
      BY <1>0, <2>1, AppendProperties
    <3>2. screen' = Append(screen, body) \/ screen' = screen
      BY <1>7 DEF DecodeFrame
    <3> QED BY <1>0, <3>1, <3>2
  <2>6. UNCHANGED <<asked, ssh, pipe, decoding, answers, sudoResult>> /\ inFrame' = FALSE
    BY <1>7 DEF DecodeFrame, remoteVars
  <2> QED BY <1>0, <1>1, <1>2, <2>2, <2>4, <2>5, <2>6
<1>8. CASE FindPrefix
  <2>1. PICK start \in 1..Len(pending) - 2 :
          /\ screen' = screen \o SubSeq(pending, 1, start - 1)
          /\ Consume(start + 2)
    BY <1>8 DEF FindPrefix
  <2>2. start + 2 \in Nat /\ start - 1 \in 0..Len(pending)
    <3>1. \A l \in Nat : \A i \in 1..l - 2 : i + 2 \in Nat /\ i - 1 \in 0..l
      OBVIOUS
    <3>2. Len(pending) \in Nat
      BY <1>0
    <3> QED BY <3>1, <3>2
  <2>3. pending' \in Seq(Trusted)
    BY <1>4, <2>1, <2>2
  <2>4. screen' \in Seq(Token)
    <3>1. SubSeq(pending, 1, start - 1) \in Seq(Token)
      BY <1>3, <2>2
    <3>2. screen \o SubSeq(pending, 1, start - 1) \in Seq(Token)
      BY <1>0, <3>1, ConcatProperties
    <3> QED BY <2>1, <3>2
  <2>5. UNCHANGED <<asked, ssh, pipe, completion, decoding, answers, sudoResult>> /\ inFrame' = TRUE
    BY <1>8 DEF FindPrefix, remoteVars
  <2> QED BY <1>0, <1>1, <1>2, <2>3, <2>4, <2>5
<1>9. CASE EmitText
  <2> DEFINE emitted == Len(pending) - Retained(pending)
  <2>1. emitted \in 0..Len(pending) /\ emitted \in Nat
    <3>1. \A l \in Nat : \A r \in 0..l : l - r \in 0..l /\ l - r \in Nat
      OBVIOUS
    <3>2. Retained(pending) \in 0..Len(pending) /\ Len(pending) \in Nat
      BY <1>0, RetainedBound
    <3> QED BY <3>1, <3>2
  <2>2. screen' = screen \o SubSeq(pending, 1, emitted) /\ Consume(emitted)
    BY <1>9 DEF EmitText
  <2> HIDE DEF emitted
  <2>3. pending' \in Seq(Trusted)
    BY <1>4, <2>1, <2>2
  <2>4. screen' \in Seq(Token)
    <3>1. SubSeq(pending, 1, emitted) \in Seq(Token)
      BY <1>3, <2>1
    <3>2. screen \o SubSeq(pending, 1, emitted) \in Seq(Token)
      BY <1>0, <3>1, ConcatProperties
    <3> QED BY <2>2, <3>2
  <2>5. UNCHANGED <<asked, ssh, pipe, completion, inFrame, answers, sudoResult>> /\ decoding' = FALSE
    BY <1>9 DEF EmitText, remoteVars
  <2> QED BY <1>0, <1>1, <1>2, <2>3, <2>4, <2>5
<1>10. CASE AwaitMore
  <2>1. /\ UNCHANGED <<asked, ssh, pipe, pending, inFrame, completion, screen, answers, sudoResult>>
        /\ decoding' = FALSE
    BY <1>10 DEF AwaitMore, remoteVars
  <2> QED BY <1>0, <1>1, <1>2, <2>1
<1>11. CASE FinishStream
  <2>1. UNCHANGED <<asked, ssh, pipe, inFrame, completion, decoding, answers>>
    BY <1>11 DEF FinishStream, remoteVars
  <2>2. pending' \in Seq(Trusted) /\ screen' \in Seq(Token)
    <3>1. screen \o pending \in Seq(Token)
      BY <1>0, ConcatProperties
    <3>2. <<>> \in Seq(Trusted)
      OBVIOUS
    <3> QED BY <1>0, <1>11, <3>1, <3>2 DEF FinishStream
  <2>3. sudoResult' \in {"error", completion} /\ sudoResult' # "none"
    BY <1>11 DEF FinishStream
  <2> QED BY <1>0, <1>1, <1>2, <2>1, <2>2, <2>3
<1>12. CASE WaitSsh
  <2>1. UNCHANGED <<asked, pipe, pending, inFrame, completion, decoding, screen, answers>>
    BY <1>12 DEF WaitSsh, decoderVars, remoteVars
  <2>2. ssh' = "none" /\ sudoResult' \in {"ok", "error"} /\ (sudoResult' = "ok" => sudoResult = "0")
    BY <1>12 DEF WaitSsh, RunOutcome
  <2> QED BY <1>0, <1>1, <1>2, <2>1, <2>2
<1> QED BY <1>5, <1>6, <1>7, <1>8, <1>9, <1>10, <1>11, <1>12 DEF DecoderStep, StreamBreaks,
  DecodeFrame

-----------------------------------------------------------------------------
(* Which actions touch what *)

\* Only a request of its own changes the server's rows ...
LEMMA ServerUntouched ==
  ASSUME CommandStep, ~ \E d \in Id : PostNew(d)
  PROVE  UNCHANGED <<shown, outcome, rowSeed, created, succeeded>>
BY DEF CommandStep, Progress, Start, Warm, GivenSeed, PrepareFirst, Build, BuildFails, Precheck,
  Copy, Register, RegisterFails, PostMatches, PostRefused, Answer, NoWait, Conclude, Poll,
  PollFails, SudoActivate, SudoReboot, SudoDone, SudoStep, SudoBreaks, Fails, serverVars

\* ... and only three actions concern ssh.
LEMMA SudoUntouched ==
  ASSUME CommandStep, ~(pc = "prepared" /\ args.sudo), pc # "ssh"
  PROVE  UNCHANGED sudoVars
BY DEF CommandStep, Progress, Start, Warm, GivenSeed, PrepareFirst, Build, BuildFails, Precheck,
  Copy, Register, RegisterFails, PostNew, PostMatches, PostRefused, Answer, NoWait, Conclude,
  Poll, PollFails, SudoActivate, SudoReboot, SudoDone, SudoStep, SudoBreaks, Fails

\* What the server does meanwhile.
LEMMA ServerSteps ==
  ASSUME ServerStep
  PROVE  /\ UNCHANGED <<pc, args, exit, cliVars, waitVars, sudoVars, created>>
         /\ Watching
BY DEF ServerStep, OtherRow, HandRow, ResolveRow, Unseen

-----------------------------------------------------------------------------
(* Types *)

LEMMA SudoTypesStep ==
  ASSUME SudoTypes, SudoPath, [DeployNext]_vars
  PROVE  SudoTypes'
<1>1. ASSUME UNCHANGED sudoVars PROVE SudoTypes'
  BY <1>1 DEF SudoTypes, SudoTypeOK, Flow, Trusted, Answered, sudoVars, decoderVars, remoteVars
<1>2. CASE CommandStep
  <2>1. CASE pc = "prepared" /\ args.sudo
    <3>1. SudoActivate
      BY <1>2, <2>1 DEF CommandStep, Progress, Start, Warm, GivenSeed, PrepareFirst, Build,
        BuildFails, Precheck, Copy, Register, RegisterFails, PostNew, PostMatches, PostRefused,
        Answer, NoWait, Conclude, Poll, PollFails, SudoReboot, SudoDone, SudoStep, SudoBreaks
    <3>2. CASE UNCHANGED sudoVars
      BY <1>1, <3>2
    <3>3. CASE RunSsh("activate")
      <4>1. asked = <<>>
        BY <2>1 DEF SudoPath
      <4>2. Append(<<>>, "activate") = <<"activate">>
        OBVIOUS
      <4> QED BY <3>3, <4>1, <4>2, RunSshFlow
    <3> QED BY <3>1, <3>2, <3>3 DEF SudoActivate, Fails
  <2>2. CASE pc = "ssh"
    <3>1. SudoReboot \/ SudoDone \/ SudoStep \/ SudoBreaks
      BY <1>2, <2>2 DEF CommandStep, Progress, Start, Warm, GivenSeed, PrepareFirst, Build,
        BuildFails, Precheck, Copy, Register, RegisterFails, PostNew, PostMatches, PostRefused,
        Answer, NoWait, Conclude, Poll, PollFails, SudoActivate
    <3>2. CASE UNCHANGED sudoVars
      BY <1>1, <3>2
    <3>3. CASE RunSsh("reboot") /\ asked = <<"activate">>
      <4>1. Append(<<"activate">>, "reboot") = <<"activate", "reboot">>
        BY TwoRequests
      <4> QED BY <3>3, <4>1, RunSshFlow
    <3>4. CASE SudoStep \/ SudoBreaks
      BY <3>4, DecoderFlow DEF SudoStep, SudoBreaks
    <3> QED BY <3>1, <3>2, <3>3, <3>4 DEF SudoReboot, SudoDone, Fails
  <2> QED BY <1>1, <1>2, <2>1, <2>2, SudoUntouched
<1>3. CASE Remote
  BY <1>3, RemoteFlow DEF Remote
<1>4. CASE ServerStep \/ UNCHANGED vars
  BY <1>1, <1>4, ServerSteps DEF vars
<1> QED BY <1>2, <1>3, <1>4 DEF DeployNext

LEMMA RowTypesStep == ASSUME RowTypeOK, [DeployNext]_vars PROVE RowTypeOK'
<1>1. ASSUME UNCHANGED <<shown, outcome>> PROVE RowTypeOK'
  BY <1>1 DEF RowTypeOK
<1>2. ASSUME NEW d \in Id, Appear(d) PROVE RowTypeOK'
  BY <1>2 DEF RowTypeOK, Appear, OpenStates
<1>3. CASE CommandStep
  BY <1>1, <1>2, <1>3, ServerUntouched DEF PostNew
<1>4. CASE Remote \/ UNCHANGED vars
  BY <1>1, <1>4 DEF Remote, vars, serverVars
<1>5. CASE ServerStep
  BY <1>2, <1>5 DEF ServerStep, OtherRow, HandRow, ResolveRow, Hand, Resolve, RowTypeOK
<1> QED BY <1>3, <1>4, <1>5 DEF DeployNext

\* The command's own variables.
CliTypes ==
  /\ args \in Args /\ artifact \in SUBSET Artifacts /\ copied \subseteq Artifacts
  /\ seedType \in SeedType /\ named \in BOOLEAN
  /\ seeds \subseteq Registered
  /\ created \subseteq Id /\ succeeded \subseteq Id /\ dep \in Id \cup {NoId}
  /\ exit \in {"none", "ok", "error"}

LEMMA CliTypesStep == ASSUME CliTypes, [DeployNext]_vars PROVE CliTypes'
<1>1. ASSUME NEW art \in Artifacts, Build(art) PROVE CliTypes'
  <2>1. TypeOf(args, art) \in SeedType
    BY DeployAssumption DEF CliTypes, TypeOf, ArgRec, Artifact, SeedType
  <2>2. Named(args, art) \in BOOLEAN
    BY DEF Named
  <2> QED BY <1>1, <2>1, <2>2 DEF CliTypes, Build, Goto, serverVars, waitVars
<1>2. ASSUME NEW art \in Artifacts, Register(art) PROVE CliTypes'
  BY <1>2 DEF CliTypes, Register, Goto, Exit, Registered, serverVars, waitVars
<1>3. ASSUME NEW d \in Id, PostNew(d) \/ PostMatches(d) PROVE CliTypes'
  BY <1>3 DEF CliTypes, PostNew, PostMatches, Goto, cliVars, serverVars
<1>4. CASE Copy \/ GivenSeed \/ Answer \/ Poll \/ PollFails
  BY <1>4 DEF CliTypes, Copy, GivenSeed, Answer, Poll, PollFails, Goto, Fails, Exit, cliVars,
    serverVars, waitVars
<1>5. CASE Start \/ Warm \/ PrepareFirst \/ BuildFails \/ Precheck \/ RegisterFails \/ PostRefused
           \/ NoWait \/ Conclude
  BY <1>5 DEF CliTypes, Start, Warm, PrepareFirst, BuildFails, Precheck, RegisterFails, PostRefused,
    NoWait, Conclude, Goto, Fails, Exit, cliVars, serverVars, waitVars
<1>6. CASE SudoActivate \/ SudoReboot \/ SudoDone \/ SudoStep \/ SudoBreaks
           \/ Remote \/ UNCHANGED vars
  BY <1>6 DEF CliTypes, SudoActivate, SudoReboot, SudoDone, SudoStep, SudoBreaks, Remote, Goto,
    Fails, Exit, vars, cliVars, serverVars, waitVars
<1>7. CASE ServerStep
  BY <1>7 DEF CliTypes, ServerStep, OtherRow, HandRow, ResolveRow, Unseen, cliVars, waitVars
<1> QED BY <1>1, <1>2, <1>3, <1>4, <1>5, <1>6, <1>7 DEF DeployNext, CommandStep, Progress

-----------------------------------------------------------------------------
(* Rows *)

LEMMA RowsStep ==
  ASSUME RowTypeOK, CliTypes, Rows, [DeployNext]_vars
  PROVE  Rows'
<1>0. Given \in AnySid /\ \A seed \in Registered : Sid(seed) \in AnySid
  BY DEF Given, Sid, AnySid
<1>1. seedSid' \in AnySid
  <2>1. ASSUME NEW art \in Artifacts, Register(art) PROVE seedSid' \in AnySid
    <3>1. [artifact |-> art, type |-> seedType] \in Registered
      BY DEF CliTypes, Registered
    <3> QED BY <1>0, <2>1, <3>1 DEF Register, Rows
  <2>2. CASE GivenSeed
    BY <1>0, <2>2 DEF GivenSeed
  <2>3. \/ UNCHANGED seedSid \/ GivenSeed \/ \E art \in Artifacts : Register(art)
    BY DEF DeployNext, CommandStep, Progress, Start, Warm, PrepareFirst, Build, BuildFails,
      Precheck, Copy, RegisterFails, PostNew, PostMatches, PostRefused, Answer, NoWait,
      Conclude, Poll, PollFails, SudoActivate, SudoReboot, SudoDone, SudoStep, SudoBreaks, Fails,
      Remote, ServerStep, OtherRow, HandRow, ResolveRow, Unseen, vars, cliVars
  <2> QED BY <2>1, <2>2, <2>3 DEF Rows
<1>2. ASSUME UNCHANGED <<shown, outcome, rowSeed, created, succeeded>> PROVE Rows'
  BY <1>1, <1>2 DEF Rows
<1>3. ASSUME NEW d \in Id, PostNew(d) PROVE Rows'
  <2>1. /\ shown' = [shown EXCEPT ![d] = "dispatched"] /\ outcome' = outcome
        /\ rowSeed' = [rowSeed EXCEPT ![d] = seedSid] /\ created' = created \cup {d}
        /\ succeeded' = succeeded
    BY <1>3 DEF PostNew, Appear
  <2> QED BY <1>1, <2>1 DEF Rows, RowTypeOK
<1>4. ASSUME NEW d \in Id, OtherRow(d) PROVE Rows'
  <2>1. PICK s \in AnySid : rowSeed' = [rowSeed EXCEPT ![d] = s]
    BY <1>0, <1>4 DEF OtherRow, CliTypes
  <2>2. /\ shown' = [shown EXCEPT ![d] = "dispatched"] /\ outcome' = outcome
        /\ created' = created /\ succeeded' = succeeded
    BY <1>4 DEF OtherRow, Appear, Unseen
  <2> QED BY <1>1, <2>1, <2>2 DEF Rows, RowTypeOK
<1>5. ASSUME NEW d \in Id, HandRow(d) PROVE Rows'
  <2>1. PICK s \in OpenStates : Hand({d}, s)
    BY <1>5 DEF HandRow
  <2>2. /\ shown[d] \in OpenStates /\ outcome' = outcome
        /\ \A e \in Id : shown'[e] = IF e = d THEN s ELSE shown[e]
        /\ UNCHANGED <<rowSeed, created, succeeded>>
    BY <1>5, <2>1 DEF HandRow, Hand, Unseen
  <2>3. s # "absent" /\ s # "completed" /\ shown[d] # "absent"
    BY <2>1, <2>2 DEF OpenStates
  <2> QED BY <1>1, <2>2, <2>3 DEF Rows
<1>6. ASSUME NEW d \in Id, ResolveRow(d) PROVE Rows'
  <2>1. PICK s \in EndStates, r \in Outcomes :
          /\ Resolve(d, s, r)
          /\ succeeded' = IF s = "completed" /\ r = "success" THEN succeeded \cup {d} ELSE succeeded
    BY <1>6 DEF ResolveRow
  <2>2. /\ shown' = [shown EXCEPT ![d] = s] /\ outcome' = [outcome EXCEPT ![d] = r]
        /\ UNCHANGED <<rowSeed, created>> /\ s # "absent"
    BY <1>6, <2>1 DEF ResolveRow, Resolve, Unseen, EndStates
  <2> QED BY <1>1, <2>1, <2>2 DEF Rows, RowTypeOK
<1>7. CASE CommandStep
  BY <1>2, <1>3, <1>7, ServerUntouched
<1>8. CASE Remote \/ UNCHANGED vars
  BY <1>2, <1>8 DEF Remote, vars, serverVars
<1>9. CASE ServerStep
  BY <1>4, <1>5, <1>6, <1>9 DEF ServerStep
<1> QED BY <1>7, <1>8, <1>9 DEF DeployNext

-----------------------------------------------------------------------------
(* The row the command waits for *)

\* The command keeps its row, and goes on from one place to another.
LEMMA WaitingStep ==
  ASSUME RowTypeOK, CliTypes, Rows, Waiting, SudoPath, [DeployNext]_vars
  PROVE  Waiting'
<1>0. \A d \in Id : Shows(d).state = shown[d] /\ Shows(d).result = outcome[d]
                    /\ shown[d] \in OpenStates \cup EndStates \cup {"absent"}
  BY DEF Shows, RowTypeOK
\* Elsewhere there is nothing to know.
<1>1. ASSUME pc' \notin {"posted", "created", "wait", "exit"}, exit' = "none" PROVE Waiting'
  BY <1>1 DEF Waiting, ExitTruth
<1>2. ASSUME exit' = "error" , pc' = "exit" PROVE Waiting'
  BY <1>2 DEF Waiting, ExitTruth
<1>3. ASSUME args.sudo, args' = args, pc' \in {"prepared", "ssh", "exit"}, pc' # "exit" => exit' = "none"
      PROVE  Waiting'
  BY <1>3 DEF Waiting, ExitTruth
<1>4. ASSUME Fails PROVE Waiting'
  BY <1>2, <1>4 DEF Fails, Exit
<1>5. CASE Start \/ Warm \/ GivenSeed \/ PrepareFirst \/ BuildFails \/ Precheck \/ Copy
           \/ RegisterFails \/ PostRefused
  <2>1. Fails \/ (pc' \notin {"posted", "created", "wait", "exit"} /\ exit' = exit /\ pc # "exit")
    BY <1>5 DEF Start, Warm, GivenSeed, PrepareFirst, BuildFails, Precheck, Copy, RegisterFails,
      PostRefused, Goto
  <2> QED BY <1>1, <1>4, <2>1 DEF Waiting
<1>6. ASSUME NEW art \in Artifacts, Build(art) \/ Register(art) PROVE Waiting'
  <2>1. \/ pc' = "exit" /\ exit' = "error"
        \/ pc' \notin {"posted", "created", "wait", "exit"} /\ exit' = exit /\ pc # "exit"
    BY <1>6 DEF Build, Register, Goto, Exit
  <2> QED BY <1>1, <1>2, <2>1 DEF Waiting
<1>7. ASSUME NEW d \in Id, PostNew(d) PROVE Waiting'
  <2>1. /\ pc = "post" /\ pc' = "posted" /\ exit' = exit /\ dep' = d
        /\ shown' = [shown EXCEPT ![d] = "dispatched"]
        /\ rowSeed' = [rowSeed EXCEPT ![d] = seedSid] /\ seedSid' = seedSid
    BY <1>7 DEF PostNew, Appear, Goto, cliVars
  <2>2. shown'[d] = "dispatched" /\ rowSeed'[d] = seedSid
    BY <2>1 DEF RowTypeOK, Rows
  <2>3. exit' = "none"
    BY <2>1 DEF Waiting
  <2> QED BY <2>1, <2>2, <2>3 DEF Waiting, ExitTruth
<1>8. ASSUME NEW d \in Id, PostMatches(d) PROVE Waiting'
  <2>1. /\ pc = "post" /\ pc' = "posted" /\ exit' = exit /\ dep' = d
        /\ UNCHANGED <<shown, rowSeed, seedSid>> /\ rowSeed[d] = seedSid
    BY <1>8 DEF PostMatches, Goto, cliVars, serverVars
  <2>2. shown[d] # "absent"
    BY <1>8 DEF PostMatches, OpenStates, Rows
  <2>3. exit' = "none"
    BY <2>1 DEF Waiting
  <2> QED BY <2>1, <2>2, <2>3 DEF Waiting, ExitTruth
\* A read shows the row as it is now.
<1>9. CASE Answer \/ Poll \/ PollFails
  <2>1. CASE Fails
    BY <1>4, <2>1
  <2>2. CASE ~Fails
    <3>1. /\ pc \in {"posted", "wait"} /\ pc' \in {"created", "wait"} /\ exit' = exit
          /\ info' = Shows(dep)
          /\ UNCHANGED <<dep, shown, rowSeed, seedSid, succeeded>>
      BY <1>9, <2>2 DEF Answer, Poll, PollFails, Goto, cliVars, serverVars
    <3>2. dep \in Id /\ rowSeed[dep] = seedSid /\ shown[dep] # "absent" /\ exit' = "none"
      BY <3>1 DEF Waiting
    <3>3. info'.state = shown[dep] /\ info'.result = outcome[dep]
          /\ shown[dep] \in OpenStates \cup EndStates \cup {"absent"}
      BY <1>0, <3>1, <3>2
    <3>4. shown[dep] = "completed" /\ outcome[dep] = "success" => dep \in succeeded
      BY <3>2 DEF Rows
    <3> QED BY <3>1, <3>2, <3>3, <3>4 DEF Waiting, ExitTruth
  <2> QED BY <2>1, <2>2
<1>10. CASE NoWait
  <2>1. /\ pc = "created"
        /\ \/ args.noWait /\ pc' = "exit" /\ exit' = "ok"
           \/ ~args.noWait /\ pc' = "wait" /\ exit' = exit
        /\ UNCHANGED <<args, dep, info, shown, rowSeed, seedSid, succeeded>>
    BY <1>10 DEF NoWait, Goto, Exit, cliVars, serverVars, waitVars
  <2> QED BY <2>1 DEF Waiting, ExitTruth
\* Success is concluded from a completed row only.
<1>11. CASE Conclude
  <2>1. /\ pc = "wait" /\ pc' = "exit"
        /\ exit' = IF TerminalResult(info) = "success" THEN "ok" ELSE "error"
        /\ UNCHANGED <<args, dep, info, shown, rowSeed, seedSid, succeeded>>
    BY <1>11 DEF Conclude, Exit, cliVars, serverVars, waitVars
  <2>2. info.state \in OpenStates \cup EndStates \cup {"absent"}
    BY <2>1 DEF Waiting
  <2>3. TerminalResult(info) = "success" => info.state = "completed" /\ info.result = "success"
    BY <2>2 DEF TerminalResult, OpenStates, EndStates
  <2> QED BY <2>1, <2>3 DEF Waiting, ExitTruth
<1>12. CASE SudoActivate \/ SudoReboot \/ SudoDone \/ SudoStep \/ SudoBreaks
  <2>1. args.sudo /\ args' = args /\ pc # "exit"
    BY <1>12 DEF SudoActivate, SudoReboot, SudoDone, SudoStep, SudoBreaks, SudoPath, Goto, Fails
  <2>2. pc' \in {"ssh", "exit"} /\ (pc' # "exit" => exit' = exit)
    BY <1>12 DEF SudoActivate, SudoReboot, SudoDone, SudoStep, SudoBreaks, Goto, Fails, Exit
  <2> QED BY <1>3, <2>1, <2>2 DEF Waiting
<1>13. CASE Remote \/ UNCHANGED vars
  <2>1. UNCHANGED <<pc, args, exit, dep, info, shown, rowSeed, seedSid, succeeded>>
    BY <1>13 DEF Remote, vars, cliVars, serverVars, waitVars
  <2> QED BY <2>1 DEF Waiting, ExitTruth
\* The server changes no row's seed and forgets no success.
<1>14. CASE ServerStep
  <2>1. UNCHANGED <<pc, args, exit, dep, info, seedSid>> /\ pc # "exit"
    BY <1>14, ServerSteps DEF cliVars, waitVars, Watching
  <2>2. succeeded \subseteq succeeded'
    BY <1>14 DEF ServerStep, OtherRow, HandRow, ResolveRow
  <2>3. ASSUME NEW e \in Id, shown[e] # "absent" PROVE shown'[e] # "absent" /\ rowSeed'[e] = rowSeed[e]
    <3>1. PICK d \in Id : OtherRow(d) \/ HandRow(d) \/ ResolveRow(d)
      BY <1>14 DEF ServerStep
    <3>2. CASE OtherRow(d)
      BY <2>3, <3>2 DEF OtherRow, Appear, RowTypeOK, Rows
    <3>3. CASE HandRow(d)
      BY <2>3, <3>3 DEF HandRow, Hand, OpenStates
    <3>4. CASE ResolveRow(d)
      BY <2>3, <3>4 DEF ResolveRow, Resolve, EndStates, RowTypeOK
    <3> QED BY <3>1, <3>2, <3>3, <3>4
  <2>4. exit' = "none"
    BY <2>1 DEF Waiting
  <2> QED BY <2>1, <2>2, <2>3, <2>4 DEF Waiting, ExitTruth
<1> QED BY <1>5, <1>6, <1>7, <1>8, <1>9, <1>10, <1>11, <1>12, <1>13, <1>14
  DEF DeployNext, CommandStep, Progress

-----------------------------------------------------------------------------
(* What the server gets to know *)

LEMMA PassedStep ==
  ASSUME CliTypes, RowTypeOK, Rows, Passed, SudoPath, [DeployNext]_vars
  PROVE  Passed'
<1> DEFINE Kept == UNCHANGED <<args, artifact, seedType, copied, seeds, seedSid>>
           SameRows == UNCHANGED <<created, rowSeed>>
\* Prepared is about the registered seeds and the created rows.
<1>1. ASSUME args' = args, copied \subseteq copied', seeds' = seeds, SameRows PROVE Prepared'
  BY <1>1 DEF Passed, Prepared
<1>2. ASSUME Kept, SameRows,
             \/ pc' = "exit" \/ pc' = pc
             \/ pc' \in {"warm", "resolve", "prepare", "posted", "created", "wait"}
             \/ pc = "prepared" /\ pc' = "ssh"
      PROVE  Passed'
  <2>1. Prepared'
    BY <1>1, <1>2
  <2> QED BY <1>2, <2>1 DEF Passed
<1>3. CASE Start \/ Warm \/ PrepareFirst \/ BuildFails \/ RegisterFails \/ PostRefused
           \/ Answer \/ NoWait \/ Conclude \/ Poll \/ PollFails
  <2>1. /\ Kept /\ SameRows
        /\ pc' \in {"exit", "warm", "resolve", "prepare", "created", "wait"}
    BY <1>3 DEF Start, Warm, PrepareFirst, BuildFails, RegisterFails, PostRefused,
      Answer, NoWait, Conclude, Poll, PollFails, Fails, Exit, Goto, cliVars, serverVars
  <2> QED BY <1>2, <2>1
<1>4. CASE SudoActivate \/ SudoReboot \/ SudoDone \/ SudoStep \/ SudoBreaks
           \/ Remote \/ UNCHANGED vars
  <2>1. /\ Kept /\ SameRows
        /\ pc' = "exit" \/ pc' = pc \/ (pc = "prepared" /\ pc' = "ssh")
    BY <1>4 DEF SudoActivate, SudoReboot, SudoDone, SudoStep, SudoBreaks, Remote, Fails, Exit,
      Goto, vars, cliVars, serverVars
  <2> QED BY <1>2, <2>1
<1>5. CASE GivenSeed
  <2>1. /\ UNCHANGED <<args, artifact, seedType, copied, seeds>> /\ SameRows
        /\ seedSid' = Given /\ args.target = "seed" /\ pc' = "post"
    BY <1>5 DEF GivenSeed, Goto, serverVars
  <2>2. Prepared'
    BY <1>1, <2>1
  <2> QED BY <2>1, <2>2 DEF Passed
<1>6. ASSUME NEW art \in Artifacts, Build(art) PROVE Passed'
  <2>1. /\ UNCHANGED <<args, copied, seeds>> /\ SameRows /\ pc' = "precheck"
        /\ artifact' = {art}
        /\ args.sudo /\ args.action = "restart" => seedType' = "nixos"
    BY <1>6 DEF Build, Goto, serverVars
  <2>2. Prepared'
    BY <1>1, <2>1
  <2> QED BY <2>1, <2>2 DEF Passed
<1>7. CASE Precheck
  <2>1. CASE Fails
    <3>1. Kept /\ SameRows /\ pc' = "exit"
      BY <2>1 DEF Fails, Exit, cliVars, serverVars
    <3> QED BY <1>2, <3>1
  <2>2. CASE ~Fails
    <3>1. /\ pc = "precheck" /\ Kept /\ SameRows
          /\ \A art \in artifact : HasMarker(art, seedType)
          /\ pc' = IF args.copy = "none" THEN "prepared" ELSE "copy"
      BY <1>7, <2>2 DEF Precheck, Goto, cliVars, serverVars
    <3>2. Prepared'
      BY <1>1, <3>1
    <3> QED BY <3>1, <3>2 DEF Passed, HasMarker
  <2> QED BY <2>1, <2>2
<1>8. CASE Copy
  <2>1. CASE Fails
    <3>1. Kept /\ SameRows /\ pc' = "exit"
      BY <2>1 DEF Fails, Exit, cliVars, serverVars
    <3> QED BY <1>2, <3>1
  <2>2. CASE ~Fails
    <3>1. /\ pc = "copy" /\ pc' = "prepared" /\ UNCHANGED <<args, artifact, seedType, seeds, seedSid>>
          /\ SameRows /\ copied' = copied \cup artifact
      BY <1>8, <2>2 DEF Copy, Goto, serverVars
    <3>2. Prepared'
      BY <1>1, <3>1
    <3> QED BY <3>1, <3>2 DEF Passed
  <2> QED BY <2>1, <2>2
\* The seed that is registered has passed the check and the copy.
<1>9. ASSUME NEW art \in Artifacts, Register(art) PROVE Passed'
  <2> DEFINE seed == [artifact |-> art, type |-> seedType]
  <2>1. /\ pc = "prepared" /\ art \in artifact /\ seeds' = seeds \cup {seed}
        /\ UNCHANGED <<args, artifact, seedType, copied>> /\ SameRows
        /\ \/ pc' = "post" /\ seedSid' = Sid(seed)
           \/ pc' = "exit"
    BY <1>9 DEF Register, Goto, Exit, serverVars
  <2>2. /\ art.kind = seedType /\ seedType # "nix-darwin"
        /\ args.copy # "none" => art \in copied
    BY <2>1 DEF Passed
  <2>3. seed.artifact = art /\ seed.type = seedType
    OBVIOUS
  <2>4. seed \in seeds'
    BY <2>1
  <2> HIDE DEF seed
  <2>5. Prepared'
    BY <2>1, <2>2, <2>3 DEF Passed, Prepared
  <2> QED BY <2>1, <2>4, <2>5 DEF Passed
\* The row that is created is for the seed in hand.
<1>10. ASSUME NEW d \in Id, PostNew(d) PROVE Passed'
  <2>1. /\ pc = "post" /\ pc' = "posted" /\ Kept /\ created' = created \cup {d}
        /\ rowSeed' = [rowSeed EXCEPT ![d] = seedSid] /\ shown[d] = "absent"
    BY <1>10 DEF PostNew, Goto, Appear, cliVars
  <2>2. rowSeed'[d] = seedSid /\ \A e \in Id : e # d => rowSeed'[e] = rowSeed[e]
    BY <2>1 DEF Rows
  <2>3. IF seedSid.given THEN args.target = "seed"
        ELSE seedSid.of # {} /\ seedSid.of \subseteq seeds
    <3>1. CASE seedSid = Given /\ args.target = "seed"
      BY <3>1 DEF Given
    <3>2. ASSUME NEW seed \in seeds, seedSid = Sid(seed)
          PROVE  ~seedSid.given /\ seedSid.of # {} /\ seedSid.of \subseteq seeds
      BY <3>2 DEF Sid
    <3> QED BY <2>1, <3>1, <3>2 DEF Passed
  <2>4. created \subseteq Id
    BY DEF CliTypes
  <2>5. Prepared'
    BY <2>1, <2>2, <2>3, <2>4 DEF Passed, Prepared
  <2> QED BY <2>1, <2>5 DEF Passed
<1>11. ASSUME NEW d \in Id, PostMatches(d) PROVE Passed'
  <2>1. Kept /\ SameRows /\ pc' = "posted"
    BY <1>11 DEF PostMatches, Goto, cliVars, serverVars
  <2> QED BY <1>2, <2>1
\* Rows the server inserts are not among those the command created.
<1>12. CASE ServerStep
  <2>1. Kept /\ UNCHANGED <<pc, created>>
    BY <1>12, ServerSteps DEF cliVars
  <2>2. \A e \in created : rowSeed'[e] = rowSeed[e]
    <3>1. PICK d \in Id : OtherRow(d) \/ HandRow(d) \/ ResolveRow(d)
      BY <1>12 DEF ServerStep
    <3>2. CASE OtherRow(d)
      <4>1. d \notin created /\ \A e \in Id : e # d => rowSeed'[e] = rowSeed[e]
        BY <3>2 DEF OtherRow, Appear, Rows
      <4> QED BY <4>1 DEF CliTypes
    <3>3. CASE HandRow(d) \/ ResolveRow(d)
      BY <3>3 DEF HandRow, ResolveRow
    <3> QED BY <3>1, <3>2, <3>3
  <2>3. Prepared'
    BY <2>1, <2>2 DEF Passed, Prepared
  <2> QED BY <2>1, <2>3 DEF Passed
<1> QED BY <1>3, <1>4, <1>5, <1>6, <1>7, <1>8, <1>9, <1>10, <1>11, <1>12
  DEF DeployNext, CommandStep, Progress

-----------------------------------------------------------------------------
(* Deployments over ssh *)

LEMMA SudoPathStep ==
  ASSUME CliTypes, SudoTypes, Waiting, Passed, SudoPath, [DeployNext]_vars
  PROVE  SudoPath'
\* Before ssh is started.
<1>1. ASSUME UNCHANGED <<asked, ssh>>, args' = args, pc \notin {"ssh", "exit"}, pc' # "ssh",
             args.sudo => /\ pc' \in {"start", "prepare", "precheck", "copy", "prepared", "exit"}
                          /\ exit' = "ok" => args.action = "stage"
                          /\ UNCHANGED <<seeds, created>>
      PROVE  SudoPath'
  <2>1. asked = <<>> /\ ssh = "none"
    BY <1>1 DEF SudoPath
  <2>2. SudoTruth'
    BY <1>1, <2>1 DEF SudoPath, SudoTruth
  <2> QED BY <1>1, <2>1, <2>2 DEF SudoPath
<1>2. pc # "exit" => exit = "none"
  BY DEF Waiting
<1>3. CASE Start \/ Warm \/ GivenSeed \/ PrepareFirst \/ BuildFails \/ Precheck \/ Copy
           \/ RegisterFails \/ PostRefused \/ Answer \/ NoWait \/ Conclude \/ Poll \/ PollFails
  <2>1. UNCHANGED <<asked, ssh>> /\ args' = args /\ pc \notin {"ssh", "exit"} /\ pc' # "ssh"
    BY <1>3 DEF Start, Warm, GivenSeed, PrepareFirst, BuildFails, Precheck, Copy, RegisterFails,
      PostRefused, Answer, NoWait, Conclude, Poll, PollFails, Fails, Exit, Goto, sudoVars
  <2>2. ASSUME args.sudo
        PROVE  /\ pc' \in {"start", "prepare", "precheck", "copy", "prepared", "exit"}
               /\ exit' # "ok" /\ UNCHANGED <<seeds, created>>
    <3>1. Start \/ BuildFails \/ Precheck \/ Copy
      BY <1>3, <2>2 DEF Warm, GivenSeed, PrepareFirst, RegisterFails,
        PostRefused, Answer, NoWait, Conclude, Poll, PollFails, SudoPath
    <3> QED BY <1>2, <2>2, <3>1
      DEF Start, BuildFails, Precheck, Copy, Fails, Exit, Goto, cliVars, serverVars
  <2> QED BY <1>1, <2>1, <2>2
<1>4. ASSUME NEW art \in Artifacts, Build(art) \/ Register(art) PROVE SudoPath'
  <2>1. UNCHANGED <<asked, ssh>> /\ args' = args /\ pc \notin {"ssh", "exit"} /\ pc' # "ssh"
    BY <1>4 DEF Build, Register, Goto, Exit, sudoVars
  <2>2. ASSUME args.sudo
        PROVE  pc' = "precheck" /\ exit' = exit /\ UNCHANGED <<seeds, created>>
    BY <1>4, <2>2 DEF Build, Register, Goto, serverVars
  <2> QED BY <1>1, <1>2, <2>1, <2>2
<1>5. ASSUME NEW d \in Id, PostNew(d) \/ PostMatches(d) PROVE SudoPath'
  <2>1. UNCHANGED <<asked, ssh>> /\ args' = args /\ pc = "post" /\ pc' # "ssh"
    BY <1>5 DEF PostNew, PostMatches, Goto, sudoVars
  <2>2. ~args.sudo
    BY <2>1 DEF SudoPath
  <2> QED BY <1>1, <2>1, <2>2
\* The first request: the closure has been copied.
<1>6. CASE SudoActivate
  <2>1. args.sudo /\ pc = "prepared"
    BY <1>6 DEF SudoActivate
  <2>2. CASE RunSsh("activate")
    <3>1. /\ asked' = Append(asked, "activate") /\ ssh' = "running" /\ pc' = "ssh"
          /\ UNCHANGED <<args, exit, artifact, seedType, copied, seeds, created>>
      BY <1>6, <2>2 DEF SudoActivate, RunSsh, Goto, Exit, Fails, sudoVars, cliVars, serverVars
    <3>2. asked' = <<"activate">>
      <4>1. asked = <<>>
        BY <2>1 DEF SudoPath
      <4>2. Append(<<>>, "activate") = <<"activate">>
        OBVIOUS
      <4> QED BY <3>1, <4>1, <4>2
    <3>3. artifact # {} /\ artifact \subseteq copied
      BY <2>1 DEF Passed, SudoPath
    <3>4. SudoTruth'
      BY <1>2, <2>1, <3>1, <3>2, <3>3 DEF SudoPath, SudoTruth
    <3> QED BY <2>1, <3>1, <3>2, <3>4 DEF SudoPath
  <2>3. CASE ~RunSsh("activate")
    <3>1. UNCHANGED <<asked, ssh, args, seeds, created>> /\ pc' = "exit"
          /\ (exit' = "ok" => args.action = "stage")
      BY <1>6, <2>3 DEF SudoActivate, Exit, Fails, sudoVars, cliVars, serverVars
    <3> QED BY <1>1, <2>1, <3>1
  <2> QED BY <2>2, <2>3
\* Once ssh was started.
<1>7. ASSUME pc = "ssh", pc' \in {"ssh", "exit"}, ssh' # "none" => pc' = "ssh",
             UNCHANGED <<args, artifact, seedType, copied, seeds, created, asked>>,
             answers \subseteq answers', exit' \in {"none", "error"}
      PROVE  SudoPath'
  <2>1. SudoTruth'
    BY <1>7 DEF SudoPath, SudoTruth
  <2> QED BY <1>7, <2>1 DEF SudoPath
\* The reboot: the activation was completed with exit code 0.
<1>8. CASE SudoReboot
  <2>1. /\ args.sudo /\ pc = "ssh" /\ asked = <<"activate">> /\ args.action = "restart"
        /\ sudoResult = "ok" /\ ssh = "none"
    BY <1>8 DEF SudoReboot, SudoPath
  <2>2. CASE RunSsh("reboot")
    <3>1. /\ asked' = Append(asked, "reboot") /\ ssh' = "running" /\ pc' = pc
          /\ UNCHANGED <<args, exit, artifact, seedType, copied, seeds, created, answers>>
      BY <1>8, <2>2, <2>1 DEF SudoReboot, RunSsh, Exit, Fails, sudoVars, cliVars, serverVars
    <3>2. asked' = <<"activate", "reboot">>
      BY <2>1, <3>1, TwoRequests
    <3>3. <<"activate", "complete0">> \in answers
      <4>1. Answered
        BY <2>1 DEF SudoTypes, Flow
      <4>2. Last(<<"activate">>) = "activate"
        BY DEF Last
      <4> QED BY <2>1, <4>1, <4>2 DEF Answered
    <3>4. seedType = "nixos" /\ artifact # {} /\ artifact \subseteq copied
      BY <2>1 DEF Passed, SudoPath
    <3>5. SudoTruth'
      BY <1>2, <2>1, <3>1, <3>2, <3>3, <3>4 DEF SudoPath, SudoTruth
    <3> QED BY <2>1, <3>1, <3>2, <3>5 DEF SudoPath
  <2>3. CASE ~RunSsh("reboot")
    <3>1. /\ UNCHANGED <<args, artifact, seedType, copied, seeds, created, asked, answers, ssh>>
          /\ pc' = "exit" /\ exit' = "error"
      BY <1>8, <2>3 DEF SudoReboot, Exit, Fails, sudoVars, remoteVars, cliVars, serverVars
    <3> QED BY <1>7, <2>1, <3>1
  <2> QED BY <2>2, <2>3
<1>9. CASE SudoDone
  <2>1. /\ args.sudo /\ pc = "ssh" /\ asked # <<>> /\ ssh = "none" /\ pc' = "exit"
        /\ UNCHANGED <<args, artifact, seedType, copied, seeds, created, asked, answers, ssh>>
    BY <1>9 DEF SudoDone, SudoPath, Exit, sudoVars, remoteVars, cliVars, serverVars
  <2>2. CASE exit' = "error"
    BY <1>7, <2>1, <2>2
  <2>3. CASE exit' # "error"
    <3>1. sudoResult = "ok" /\ (args.action = "restart" => Last(asked) = "reboot")
      BY <1>9, <2>3 DEF SudoDone, Exit
    <3>2. <<Last(asked), "complete0">> \in answers
      BY <3>1 DEF SudoTypes, Flow, Answered
    <3>3. asked \in {<<"activate">>, <<"activate", "reboot">>}
      BY <2>1 DEF SudoTypes, SudoTypeOK
    <3>4. /\ \A i \in 1..Len(asked) : <<asked[i], "complete0">> \in answers
          /\ args.action = "restart" => Len(asked) = 2
      <4>1. CASE asked = <<"activate">>
        <5>1. Len(asked) = 1 /\ Last(asked) = "activate" /\ asked[1] = "activate"
          BY <4>1 DEF Last
        <5> QED BY <3>1, <3>2, <5>1
      <4>2. CASE asked = <<"activate", "reboot">>
        <5>1. Len(asked) = 2 /\ Last(asked) = "reboot" /\ asked[1] = "activate" /\ asked[2] = "reboot"
          BY <4>2 DEF Last
        <5>2. <<"activate", "complete0">> \in answers
          BY <2>1, <5>1 DEF SudoPath, SudoTruth
        <5>3. \A i \in 1..2 : i = 1 \/ i = 2
          OBVIOUS
        <5> QED BY <3>2, <5>1, <5>2, <5>3
      <4> QED BY <3>3, <4>1, <4>2
    <3>5. SudoTruth'
      BY <2>1, <3>4 DEF SudoPath, SudoTruth
    <3> QED BY <2>1, <3>5 DEF SudoPath
  <2> QED BY <2>2, <2>3
<1>10. CASE SudoStep \/ SudoBreaks
  <2>1. pc = "ssh" /\ UNCHANGED <<pc, args, exit, artifact, seedType, copied, seeds, created>>
    BY <1>10 DEF SudoStep, SudoBreaks, cliVars, serverVars
  <2>2. UNCHANGED <<asked, answers>>
    BY <1>10 DEF SudoStep, SudoBreaks, StreamBreaks, DecoderStep, Read, DecodeFrame, FindPrefix,
      EmitText, AwaitMore, StreamFails, FinishStream, WaitSsh, remoteVars
  <2> QED BY <1>2, <1>7, <2>1, <2>2
<1>11. CASE Remote
  <2>1. pc = "ssh" /\ UNCHANGED <<pc, args, exit, artifact, seedType, copied, seeds, created>>
    BY <1>11 DEF Remote, RemoteStep, Echo, Respond, EndSsh, SudoPath, cliVars, serverVars
  <2>2. asked' = asked /\ answers \subseteq answers'
    BY <1>11 DEF Remote, RemoteStep, Echo, Respond, EndSsh, remoteVars
  <2> QED BY <1>2, <1>7, <2>1, <2>2
<1>12. CASE ServerStep
  <2>1. UNCHANGED <<asked, ssh, pc, args>> /\ pc \in {"post", "posted", "created", "wait"}
    BY <1>12, ServerSteps DEF Watching, sudoVars
  <2>2. ~args.sudo
    BY <2>1 DEF SudoPath
  <2> QED BY <1>1, <2>1, <2>2
<1>13. CASE UNCHANGED vars
  <2>1. UNCHANGED <<pc, args, exit, artifact, seedType, copied, seeds, created, asked, answers, ssh>>
    BY <1>13 DEF vars, cliVars, serverVars, sudoVars, remoteVars
  <2> QED BY <2>1 DEF SudoPath, SudoTruth
<1> QED BY <1>3, <1>4, <1>5, <1>6, <1>8, <1>9, <1>10, <1>11, <1>12, <1>13
  DEF DeployNext, CommandStep, Progress

-----------------------------------------------------------------------------
(* What the terminal shows *)

\* What follows what in the rest of the output: a frame is a prefix, a body and
\* a newline, and text is between frames.  The rest starts with a body when the
\* decoder is in a frame, and it may end anywhere.
Framing(r, framed) ==
  /\ \A i \in 1..Len(r) :
       /\ r[i] = "name" => i > 1 /\ r[i - 1] = "rs"
       /\ r[i] = "us" => i > 1 /\ r[i - 1] = "name"
       /\ r[i] \in Body => IF i = 1 THEN framed ELSE r[i - 1] = "us"
       /\ r[i] = "nl" => i > 1 /\ r[i - 1] \in Body
  /\ \A i \in 1..Len(r) : i < Len(r) =>
       /\ r[i] = "name" => r[i + 1] = "us"
       /\ r[i] = "us" => r[i + 1] \in Body
       /\ r[i] \in Body => r[i + 1] = "nl"
  /\ framed /\ Len(r) > 0 => r[1] \in Body

\* A rest that is whole ends where a frame does, or with text.
EndsWhole(r, framed) ==
  IF Len(r) = 0 THEN ~framed ELSE r[Len(r)] \in Text \cup {"nl"}

\* The positions of what is for the terminal: text, and the activator's output.
\* The first byte of a prefix is text if no prefix follows; where the rest was
\* cut, nobody can tell.
ForScreen(r, end) ==
  {i \in 1..Len(r) :
     \/ r[i] \in {"text", "output"}
     \/ r[i] = "rs" /\ (IF i = Len(r) THEN end = "whole" ELSE r[i + 1] # "name")}

\* How much of the first j bytes is for the terminal.
Due(r, end, j) == Cardinality(ForScreen(r, end) \cap (1..j))

\* What is on the terminal is the beginning of what was meant, and whatever the
\* rest has for the terminal has its place there; a whole rest completes it.
Faithful(r, framed, end, scr, mnt) ==
  /\ Framing(r, framed)
  /\ end = "whole" => EndsWhole(r, framed)
  /\ Len(scr) <= Len(mnt) /\ \A k \in 1..Len(scr) : scr[k] = mnt[k]
  /\ \A j \in ForScreen(r, end) :
       /\ Len(scr) + Due(r, end, j) <= Len(mnt)
       /\ mnt[Len(scr) + Due(r, end, j)] = r[j]
  /\ end = "whole" => Len(scr) + Due(r, end, Len(r)) = Len(mnt)

\* ssh delivers all that is written, unless its connection breaks.
Ending == IF ssh = "failure" THEN "cut" ELSE "whole"

\* The bytes that are on their way to the terminal.
Unread == pending \o pipe

\* What the terminal shows, and what it will.
Screened ==
  /\ meant \in Seq(Token)
  /\ Streaming => Faithful(Unread, inFrame, Ending, screen, meant)
  /\ Streaming /\ ~decoding /\ ~inFrame => pending \in {<<>>, <<"rs">>, <<"rs", "name">>}
  /\ decoding => Streaming
  /\ sudoResult # "none" => ssh # "running"
  /\ sudoResult = "ok" => ssh = "none"
  /\ sudoResult \in {"0", "ok"} /\ ssh # "failure" => screen = meant

-----------------------------------------------------------------------------
(* Counting what is for the terminal *)

LEMMA DueType ==
  ASSUME NEW r, NEW w, NEW j \in Nat
  PROVE  /\ IsFiniteSet(ForScreen(r, w) \cap (1..j))
         /\ Due(r, w, j) \in Nat /\ Due(r, w, j) <= j
<1>1. IsFiniteSet(1..j) /\ Cardinality(1..j) = j
  BY FS_Interval
<1>2. ForScreen(r, w) \cap (1..j) \in SUBSET (1..j)
  OBVIOUS
<1>3. /\ IsFiniteSet(ForScreen(r, w) \cap (1..j))
      /\ Cardinality(ForScreen(r, w) \cap (1..j)) <= j
  BY <1>1, <1>2, FS_Subset
<1> QED BY <1>3, FS_CardinalityType DEF Due

\* Where everything is for the terminal, nothing is left out.
LEMMA DueAll ==
  ASSUME NEW r, NEW w, NEW n \in Nat, 1..n \subseteq ForScreen(r, w)
  PROVE  \A j \in 0..n : Due(r, w, j) = j
<1> SUFFICES ASSUME NEW j \in 0..n PROVE Due(r, w, j) = j
  OBVIOUS
<1>1. ForScreen(r, w) \cap (1..j) = 1..j
  OBVIOUS
<1>2. Cardinality(1..j) = j
  <2>1. j \in Nat /\ j \in Int
    OBVIOUS
  <2> QED BY <2>1, FS_Interval
<1> QED BY <1>1, <1>2 DEF Due

\* What is for the terminal beyond the first n bytes.
Later(r, w, n, j) == ForScreen(r, w) \cap (n + 1..j)

\* The count after a position that is for the terminal, and after one that is not.
LEMMA DueSplit ==
  ASSUME NEW r, NEW w, NEW n \in Nat, NEW j \in Nat, n <= j
  PROVE  /\ IsFiniteSet(Later(r, w, n, j))
         /\ Cardinality(Later(r, w, n, j)) \in Nat
         /\ Due(r, w, j) = Due(r, w, n) + Cardinality(Later(r, w, n, j))
<1> DEFINE A == ForScreen(r, w) \cap (1..n)
           B == Later(r, w, n, j)
<1>1. A \cup B = ForScreen(r, w) \cap (1..j) /\ A \cap B = {}
  BY DEF Later
<1>2. IsFiniteSet(A) /\ IsFiniteSet(B)
  <2>1. IsFiniteSet(n + 1..j)
    BY FS_Interval
  <2>2. B \in SUBSET (n + 1..j)
    BY DEF Later
  <2> QED BY <2>1, <2>2, DueType, FS_Subset
<1>3. Cardinality(A \cup B) = Cardinality(A) + Cardinality(B) - Cardinality(A \cap B)
  BY <1>2, FS_Union
<1>4. Cardinality(A \cap B) = 0 /\ Cardinality(A) \in Nat /\ Cardinality(B) \in Nat
  BY <1>1, <1>2, FS_EmptySet, FS_CardinalityType
<1> HIDE DEF A, B
<1>5. Cardinality(A \cup B) = Cardinality(A) + Cardinality(B)
  BY <1>3, <1>4
<1>6. Due(r, w, n) = Cardinality(A) /\ Due(r, w, j) = Cardinality(A \cup B)
  BY <1>1 DEF Due, A
<1> QED BY <1>2, <1>4, <1>5, <1>6 DEF B

\* The rest after n bytes.
Rest(r, n, t) ==
  /\ n \in 0..Len(r) /\ Len(t) = Len(r) - n
  /\ \A i \in 1..Len(t) : t[i] = r[n + i]

\* The rest of the output beyond the first n bytes: the same bytes are for the
\* terminal, and the count goes on from where it was.
LEMMA RestScreen ==
  ASSUME NEW r, Len(r) \in Nat, NEW w, NEW n, NEW t, Len(t) \in Nat, Rest(r, n, t)
  PROVE  /\ \A i \in 1..Len(t) : i \in ForScreen(t, w) <=> n + i \in ForScreen(r, w)
         /\ \A j \in 0..Len(t) : Due(r, w, n + j) = Due(r, w, n) + Due(t, w, j)
<1>0. /\ Len(r) \in Nat /\ Len(t) \in Nat /\ n \in Nat /\ n <= Len(r) /\ Len(t) = Len(r) - n
      /\ \A i \in 1..Len(t) : t[i] = r[n + i]
  BY DEF Rest
<1>1. ASSUME NEW i \in 1..Len(t) PROVE i \in ForScreen(t, w) <=> n + i \in ForScreen(r, w)
  <2>1. n + i \in 1..Len(r) /\ t[i] = r[n + i] /\ (i = Len(t) <=> n + i = Len(r))
    BY <1>0
  <2>2. i # Len(t) => t[i + 1] = r[n + i + 1]
    <3>1. n \in Nat /\ i \in Nat /\ Len(t) \in Nat /\ 1 <= i /\ i <= Len(t)
      BY <1>0
    <3>2. i # Len(t) => i + 1 \in 1..Len(t)
      BY <3>1
    <3>3. n + (i + 1) = n + i + 1
      BY <3>1
    <3>4. i # Len(t) => t[i + 1] = r[n + (i + 1)]
      BY <1>0, <3>2
    <3> QED BY <3>3, <3>4
  <2> QED BY <2>1, <2>2 DEF ForScreen
<1>2. ASSUME NEW j \in 0..Len(t)
      PROVE  Due(r, w, n + j) = Due(r, w, n) + Due(t, w, j)
  <2> DEFINE A == ForScreen(t, w) \cap (1..j)
             B == Later(r, w, n, n + j)
             f == [i \in A |-> n + i]
  <2>0. j \in Nat /\ n + j \in Nat /\ n <= n + j
    BY <1>0
  <2>1. f \in Bijection(A, B)
    <3>1. \A i \in A : n + i \in B
      BY <1>0, <1>1 DEF Later
    <3>2. \A i, k \in A : n + i = n + k => i = k
      BY <1>0
    <3>3. ASSUME NEW k \in B PROVE \E i \in A : n + i = k
      <4>1. k - n \in 1..Len(t) /\ k - n \in 1..j /\ n + (k - n) = k
        BY <1>0 DEF Later
      <4>2. k - n \in ForScreen(t, w)
        BY <1>1, <4>1 DEF Later
      <4> QED BY <4>1, <4>2
    <3>4. f \in [A -> B] /\ \A i \in A : f[i] = n + i
      BY <3>1
    <3> HIDE DEF f, A, B
    <3>5. f \in Injection(A, B)
      BY <3>2, <3>4 DEF Injection, IsInjective
    <3>6. f \in Surjection(A, B)
      BY <3>3, <3>4 DEF Surjection
    <3> QED BY <3>5, <3>6 DEF Bijection
  <2>2. ExistsBijection(A, B)
    BY <2>1 DEF ExistsBijection
  <2>3. IsFiniteSet(A)
    BY <2>0, DueType
  <2>4. Cardinality(B) = Cardinality(A)
    BY <2>2, <2>3, FS_Bijection
  <2>5. Due(r, w, n + j) = Due(r, w, n) + Cardinality(B)
    <3>1. \A k \in Nat : n <= k =>
            Due(r, w, k) = Due(r, w, n) + Cardinality(Later(r, w, n, k))
      BY <1>0, DueSplit
    <3> QED BY <2>0, <3>1
  <2> QED BY <2>4, <2>5 DEF Due
<1> QED BY <1>1, <1>2

\* A longer output whose beginning is the same has the same count there.
LEMMA DueBeginning ==
  ASSUME NEW r, NEW w, NEW t, NEW v, NEW n \in Nat,
         \A i \in 1..n : i \in ForScreen(r, w) <=> i \in ForScreen(t, v)
  PROVE  \A j \in 0..n : Due(r, w, j) = Due(t, v, j)
<1> SUFFICES ASSUME NEW j \in 0..n PROVE Due(r, w, j) = Due(t, v, j)
  OBVIOUS
<1>1. ForScreen(r, w) \cap (1..j) = ForScreen(t, v) \cap (1..j)
  OBVIOUS
<1> QED BY <1>1 DEF Due

-----------------------------------------------------------------------------
(* What the remote end writes *)

\* The output grows to t: what it had keeps its place.
Grows(r, t) ==
  /\ Len(r) <= Len(t) /\ \A i \in 1..Len(r) : t[i] = r[i]
  /\ Len(t) > Len(r) => t[Len(r) + 1] # "name"

\* At most one of the new bytes is for the terminal, and it is meant to be.
MeantToo(r, t, m, b) ==
  \/ Later(t, "whole", Len(r), Len(t)) = {} /\ b = m
  \/ \E x \in Len(r) + 1..Len(t) :
       /\ Later(t, "whole", Len(r), Len(t)) = {x}
       /\ Len(b) = Len(m) + 1 /\ b[Len(m) + 1] = t[x] /\ \A k \in 1..Len(m) : b[k] = m[k]

LEMMA Extended ==
  ASSUME NEW r, NEW f, NEW s, NEW m, NEW t, NEW b,
         Len(r) \in Nat, Len(s) \in Nat, Len(m) \in Nat, Len(t) \in Nat,
         Faithful(r, f, "whole", s, m),
         Grows(r, t), Framing(t, f), EndsWhole(t, f), MeantToo(r, t, m, b)
  PROVE  Faithful(t, f, "whole", s, b)
<1>0. Len(r) \in Nat /\ Len(t) \in Nat /\ Len(s) \in Nat /\ Len(m) \in Nat /\ Len(r) <= Len(t)
  BY DEF Grows
<1>1. \A i \in 1..Len(r) : i \in ForScreen(r, "whole") <=> i \in ForScreen(t, "whole")
  <2> SUFFICES ASSUME NEW i \in 1..Len(r)
               PROVE  i \in ForScreen(r, "whole") <=> i \in ForScreen(t, "whole")
    OBVIOUS
  <2>1. i \in 1..Len(t) /\ t[i] = r[i]
    BY <1>0 DEF Grows
  <2>2. CASE i < Len(r)
    <3>1. t[i + 1] = r[i + 1] /\ i # Len(r) /\ i # Len(t)
      BY <1>0, <2>2 DEF Grows
    <3> QED BY <2>1, <3>1 DEF ForScreen
  <2>3. CASE i = Len(r)
    <3>1. i = Len(t) \/ t[i + 1] # "name"
      BY <1>0, <2>3 DEF Grows
    <3> QED BY <2>1, <2>3, <3>1 DEF ForScreen
  <2> QED BY <1>0, <2>2, <2>3
<1>2. \A j \in 0..Len(r) : Due(t, "whole", j) = Due(r, "whole", j)
  BY <1>0, <1>1, DueBeginning
<1>3. /\ Due(r, "whole", Len(r)) \in Nat /\ Len(s) + Due(r, "whole", Len(r)) = Len(m)
      /\ Len(s) <= Len(m) /\ \A k \in 1..Len(s) : s[k] = m[k]
      /\ \A j \in ForScreen(r, "whole") : /\ Len(s) + Due(r, "whole", j) <= Len(m)
                                       /\ m[Len(s) + Due(r, "whole", j)] = r[j]
  BY <1>0, DueType DEF Faithful
<1>4. \A j \in Nat : Len(r) <= j =>
        Due(t, "whole", j) = Due(r, "whole", Len(r)) + Cardinality(Later(t, "whole", Len(r), j))
  <2>1. \A j \in Nat : Len(r) <= j =>
          Due(t, "whole", j) = Due(t, "whole", Len(r)) + Cardinality(Later(t, "whole", Len(r), j))
    BY <1>0, DueSplit
  <2> QED BY <1>0, <1>2, <2>1
\* What was there already.
<1>5. ASSUME NEW j \in ForScreen(t, "whole"), j <= Len(r)
      PROVE  /\ Len(s) + Due(t, "whole", j) <= Len(m)
             /\ Len(s) + Due(t, "whole", j) >= 1
             /\ m[Len(s) + Due(t, "whole", j)] = t[j]
  <2>1. j \in 1..Len(r)
    BY <1>0, <1>5 DEF ForScreen
  <2>2. j \in ForScreen(r, "whole") /\ Due(t, "whole", j) = Due(r, "whole", j) /\ t[j] = r[j]
    BY <1>0, <1>1, <1>2, <2>1 DEF Grows
  <2>3. Due(r, "whole", j) >= 1
    <3>1. Later(r, "whole", j - 1, j) = {j}
      BY <1>0, <2>1, <2>2 DEF Later
    <3>2. j - 1 \in Nat /\ j \in Nat /\ j - 1 <= j
      BY <1>0, <2>1
    <3>3. Due(r, "whole", j) = Due(r, "whole", j - 1) + Cardinality(Later(r, "whole", j - 1, j))
      BY <3>2, DueSplit
    <3>4. Due(r, "whole", j - 1) \in Nat
      BY <3>2, DueType
    <3>5. Cardinality(Later(r, "whole", j - 1, j)) = 1
      BY <3>1, FS_Singleton
    <3> QED BY <3>3, <3>4, <3>5
  <2>4. Due(r, "whole", j) \in Nat
    <3>1. j \in Nat
      BY <1>0, <2>1
    <3> QED BY <3>1, DueType
  <2> QED BY <1>0, <1>3, <2>2, <2>3, <2>4
<1>6. CASE Later(t, "whole", Len(r), Len(t)) = {} /\ b = m
  <2>1. \A j \in ForScreen(t, "whole") : j <= Len(r)
    BY <1>0, <1>6 DEF Later, ForScreen
  <2>2. Due(t, "whole", Len(t)) = Due(r, "whole", Len(r))
    <3>1. Cardinality(Later(t, "whole", Len(r), Len(t))) = 0
      BY <1>6, FS_EmptySet
    <3> QED BY <1>0, <1>3, <1>4, <3>1
  <2> QED BY <1>0, <1>3, <1>5, <1>6, <2>1, <2>2 DEF Faithful
<1>7. ASSUME NEW x \in Len(r) + 1..Len(t),
             Later(t, "whole", Len(r), Len(t)) = {x},
             Len(b) = Len(m) + 1, b[Len(m) + 1] = t[x], \A k \in 1..Len(m) : b[k] = m[k]
      PROVE  Faithful(t, f, "whole", s, b)
  <2>1. x \in Nat /\ Len(r) <= x
    BY <1>0
  <2>2. /\ Len(b) = Len(m) + 1 /\ b[Len(m) + 1] = t[x]
        /\ \A k \in 1..Len(m) : b[k] = m[k]
    BY <1>7
  <2>3. Later(t, "whole", Len(r), x) = {x}
    BY <1>0, <1>7 DEF Later
  <2>4. Cardinality({x}) = 1
    BY FS_Singleton
  <2>5. Due(t, "whole", x) = Due(r, "whole", Len(r)) + 1 /\ Due(t, "whole", Len(t)) = Due(r, "whole", Len(r)) + 1
    BY <1>0, <1>4, <1>7, <2>1, <2>3, <2>4
  <2>6. \A j \in ForScreen(t, "whole") : j <= Len(r) \/ j = x
    BY <1>0, <1>7 DEF Later, ForScreen
  <2>7. ASSUME NEW j \in ForScreen(t, "whole")
        PROVE  /\ Len(s) + Due(t, "whole", j) <= Len(b)
               /\ b[Len(s) + Due(t, "whole", j)] = t[j]
    <3>1. CASE j <= Len(r)
      <4>1. /\ Len(s) + Due(t, "whole", j) <= Len(m) /\ Len(s) + Due(t, "whole", j) >= 1
            /\ m[Len(s) + Due(t, "whole", j)] = t[j]
        BY <1>5, <3>1
      <4>2. j \in Nat /\ Due(t, "whole", j) \in Nat
        <5>1. j \in Nat
          BY <1>0 DEF ForScreen
        <5> QED BY <5>1, DueType
      <4>3. Len(s) + Due(t, "whole", j) \in 1..Len(m)
        BY <1>0, <4>1, <4>2
      <4> QED BY <1>0, <2>2, <4>1, <4>3
    <3>2. CASE j = x
      BY <1>0, <1>3, <2>2, <2>5, <3>2
    <3> QED BY <2>6, <3>1, <3>2
  <2>8. Len(s) + Due(t, "whole", Len(t)) = Len(b) /\ Len(s) <= Len(b)
        /\ \A k \in 1..Len(s) : s[k] = b[k]
    BY <1>0, <1>3, <2>2, <2>5
  <2> QED BY <2>7, <2>8 DEF Faithful
<1> QED BY <1>6, <1>7 DEF MeantToo

\* Text on the remote end's terminal.
LEMMA Echoed ==
  ASSUME NEW r \in Seq(Token), NEW f, NEW s \in Seq(Token), NEW m \in Seq(Token),
         Faithful(r, f, "whole", s, m), NEW c \in Text
  PROVE  Faithful(Append(r, c), f, "whole", s, Append(m, c))
<1> DEFINE t == Append(r, c)
           b == Append(m, c)
<1>0. Len(r) \in Nat /\ c \in Token /\ c \in {"text", "rs"}
  BY DEF Token, Text
<1>1. /\ t \in Seq(Token) /\ b \in Seq(Token) /\ Len(t) = Len(r) + 1 /\ t[Len(r) + 1] = c
      /\ \A i \in 1..Len(r) : t[i] = r[i]
  BY <1>0, AppendProperties
<1>2. Framing(r, f) /\ EndsWhole(r, f)
  BY DEF Faithful
<1> HIDE DEF t
<1>3. EndsWhole(t, f)
  BY <1>0, <1>1 DEF EndsWhole, Text
<1>4. Framing(t, f)
  <2>1. c \notin Body \cup {"name", "us", "nl"}
    BY <1>0 DEF Body
  <2>2. Len(r) = 0 => ~f
    BY <1>2 DEF EndsWhole
  <2>3. Len(r) > 0 => r[Len(r)] \in {"text", "rs", "nl"}
    BY <1>0, <1>2 DEF EndsWhole, Text
  <2>4. "nl" \notin Body /\ "text" \notin Body /\ "rs" \notin Body
    BY DEF Body
  <2>5. ASSUME NEW i \in 1..Len(t)
        PROVE  /\ t[i] = "name" => i > 1 /\ t[i - 1] = "rs"
               /\ t[i] = "us" => i > 1 /\ t[i - 1] = "name"
               /\ t[i] \in Body => IF i = 1 THEN f ELSE t[i - 1] = "us"
               /\ t[i] = "nl" => i > 1 /\ t[i - 1] \in Body
    <3>1. CASE i = Len(r) + 1
      BY <1>1, <2>1, <3>1
    <3>2. CASE i \in 1..Len(r)
      <4>1. t[i] = r[i] /\ (i > 1 => t[i - 1] = r[i - 1])
        BY <1>0, <1>1, <3>2
      <4> QED BY <1>2, <3>2, <4>1 DEF Framing
    <3> QED BY <1>0, <1>1, <3>1, <3>2
  <2>6. ASSUME NEW i \in 1..Len(t), i < Len(t)
        PROVE  /\ t[i] = "name" => t[i + 1] = "us"
               /\ t[i] = "us" => t[i + 1] \in Body
               /\ t[i] \in Body => t[i + 1] = "nl"
    <3>1. i \in 1..Len(r) /\ t[i] = r[i]
      BY <1>0, <1>1, <2>6
    <3>2. CASE i < Len(r)
      <4>1. t[i + 1] = r[i + 1]
        BY <1>0, <1>1, <3>1, <3>2
      <4> QED BY <1>2, <3>1, <3>2, <4>1 DEF Framing
    <3>3. CASE i = Len(r)
      BY <1>0, <2>3, <2>4, <3>1, <3>3
    <3> QED BY <1>0, <3>1, <3>2, <3>3
  <2>7. f /\ Len(t) > 0 => t[1] \in Body
    BY <1>0, <1>1, <1>2, <2>2 DEF Framing
  <2> QED BY <2>5, <2>6, <2>7 DEF Framing
<1>5. Later(t, "whole", Len(r), Len(t)) = {Len(r) + 1}
  BY <1>0, <1>1 DEF Later, ForScreen
<1>6. Len(r) + 1 \in Len(r) + 1..Len(t) /\ t[Len(r) + 1] # "name" /\ Len(r) <= Len(t)
  BY <1>0, <1>1
<1>7. /\ Len(b) = Len(m) + 1 /\ b[Len(m) + 1] = t[Len(r) + 1]
      /\ \A k \in 1..Len(m) : b[k] = m[k]
  BY <1>0, <1>1, AppendProperties
<1>8. Len(r) \in Nat /\ Len(s) \in Nat /\ Len(m) \in Nat /\ Len(t) \in Nat
  BY <1>1
<1> HIDE DEF b
<1>9. Grows(r, t) /\ MeantToo(r, t, m, b)
  BY <1>1, <1>5, <1>6, <1>7 DEF Grows, MeantToo
<1> QED BY <1>3, <1>4, <1>8, <1>9, Extended DEF t, b

\* A response of the activator, as a frame.
LEMMA Responded ==
  ASSUME NEW r \in Seq(Token), NEW f, NEW s \in Seq(Token), NEW m \in Seq(Token),
         Faithful(r, f, "whole", s, m), NEW a \in Body,
         NEW t \in Seq(Token), Len(t) = Len(r) + 5, \A i \in 1..Len(r) : t[i] = r[i],
         t[Len(r) + 1] = "rs", t[Len(r) + 2] = "name", t[Len(r) + 3] = "us",
         t[Len(r) + 4] = a, t[Len(r) + 5] = "nl"
  PROVE  Faithful(t, f, "whole", s, IF a = "output" THEN Append(m, a) ELSE m)
<1> DEFINE n == Len(r)
           b == IF a = "output" THEN Append(m, a) ELSE m
<1>0. n \in Nat /\ a \in Token /\ Len(t) = n + 5
  BY DEF Token
<1>1. b \in Seq(Token)
  BY <1>0, AppendProperties
<1>2. Framing(r, f) /\ EndsWhole(r, f)
  BY DEF Faithful
<1>3. /\ t[n + 1] = "rs" /\ t[n + 2] = "name" /\ t[n + 3] = "us" /\ t[n + 4] = a /\ t[n + 5] = "nl"
      /\ \A i \in 1..n : t[i] = r[i]
  OBVIOUS
<1>4. n = 0 => ~f
  BY <1>2 DEF EndsWhole
<1>5. n > 0 => r[n] \in {"text", "rs", "nl"}
  BY <1>0, <1>2 DEF EndsWhole, Text
<1>6. /\ \A q \in {"text", "rs", "nl", "name", "us"} : q \notin Body
      /\ a \notin {"text", "rs", "nl", "name", "us"}
  BY DEF Body
<1>7. f /\ n > 0 => r[1] \in Body
  BY <1>2 DEF Framing
<1> HIDE DEF n
<1>8. EndsWhole(t, f)
  BY <1>0, <1>3 DEF EndsWhole
<1>9. \A i \in 1..Len(t) : i \in 1..n \/ i = n + 1 \/ i = n + 2 \/ i = n + 3 \/ i = n + 4 \/ i = n + 5
  BY <1>0
<1>10. Framing(t, f)
  <2>1. ASSUME NEW i \in 1..Len(t)
        PROVE  /\ t[i] = "name" => i > 1 /\ t[i - 1] = "rs"
               /\ t[i] = "us" => i > 1 /\ t[i - 1] = "name"
               /\ t[i] \in Body => IF i = 1 THEN f ELSE t[i - 1] = "us"
               /\ t[i] = "nl" => i > 1 /\ t[i - 1] \in Body
    <3>1. CASE i \in 1..n
      <4>1. t[i] = r[i] /\ (i > 1 => t[i - 1] = r[i - 1])
        BY <1>0, <1>3, <3>1
      <4> QED BY <1>2, <3>1, <4>1 DEF Framing, n
    <3>2. CASE i = n + 1
      BY <1>3, <1>6, <3>2
    <3>3. CASE i = n + 2
      <4>1. i > 1 /\ i - 1 = n + 1
        BY <1>0, <3>3
      <4> QED BY <1>3, <1>6, <3>3, <4>1
    <3>4. CASE i = n + 3
      <4>1. i > 1 /\ i - 1 = n + 2
        BY <1>0, <3>4
      <4> QED BY <1>3, <1>6, <3>4, <4>1
    <3>5. CASE i = n + 4
      <4>1. i > 1 /\ i # 1 /\ i - 1 = n + 3
        BY <1>0, <3>5
      <4> QED BY <1>3, <1>6, <3>5, <4>1
    <3>6. CASE i = n + 5
      <4>1. i > 1 /\ i - 1 = n + 4
        BY <1>0, <3>6
      <4> QED BY <1>3, <1>6, <3>6, <4>1
    <3> QED BY <1>9, <3>1, <3>2, <3>3, <3>4, <3>5, <3>6
  <2>2. ASSUME NEW i \in 1..Len(t), i < Len(t)
        PROVE  /\ t[i] = "name" => t[i + 1] = "us"
               /\ t[i] = "us" => t[i + 1] \in Body
               /\ t[i] \in Body => t[i + 1] = "nl"
    <3>1. CASE i \in 1..n /\ i < n
      <4>1. t[i] = r[i] /\ t[i + 1] = r[i + 1]
        BY <1>0, <1>3, <3>1
      <4> QED BY <1>2, <3>1, <4>1 DEF Framing, n
    <3>2. CASE i = n
      <4>1. t[i] \in {"text", "rs", "nl"}
        BY <1>0, <1>3, <1>5, <3>2
      <4> QED BY <1>6, <4>1
    <3>3. CASE i \in {n + 1, n + 2, n + 3, n + 4}
      <4>1. n + 1 + 1 = n + 2 /\ n + 2 + 1 = n + 3 /\ n + 3 + 1 = n + 4 /\ n + 4 + 1 = n + 5
        BY <1>0
      <4> QED BY <1>3, <1>6, <3>3, <4>1
    <3>4. i # n + 5
      BY <1>0, <2>2
    <3>5. i \in 1..n => i < n \/ i = n
      BY <1>0
    <3> QED BY <1>9, <3>1, <3>2, <3>3, <3>4, <3>5
  <2>3. f /\ Len(t) > 0 => t[1] \in Body
    BY <1>0, <1>3, <1>4, <1>7
  <2> QED BY <2>1, <2>2, <2>3 DEF Framing
<1>11. Later(t, "whole", n, Len(t)) = IF a = "output" THEN {n + 4} ELSE {}
  <2>1. ASSUME NEW i \in n + 1..Len(t)
        PROVE  i \in ForScreen(t, "whole") <=> i = n + 4 /\ a = "output"
    <3>1. i \in 1..Len(t) /\ i \in {n + 1, n + 2, n + 3, n + 4, n + 5}
      BY <1>0
    <3>2. n + 1 # Len(t) /\ n + 1 + 1 = n + 2
      BY <1>0
    <3>3. /\ n + 1 # n + 4 /\ n + 2 # n + 4 /\ n + 3 # n + 4 /\ n + 5 # n + 4
      BY <1>0
    <3>4. i \in ForScreen(t, "whole") <=>
            t[i] \in {"text", "output"} \/ (t[i] = "rs" /\ (i = Len(t) \/ t[i + 1] # "name"))
      BY <3>1 DEF ForScreen
    <3>5. CASE i = n + 1
      BY <1>3, <3>2, <3>3, <3>4, <3>5
    <3>6. CASE i = n + 4
      BY <1>3, <1>6, <3>4, <3>6
    <3>7. CASE i \in {n + 2, n + 3, n + 5}
      BY <1>3, <3>3, <3>4, <3>7
    <3> QED BY <3>1, <3>5, <3>6, <3>7
  <2>2. n + 4 \in n + 1..Len(t)
    BY <1>0
  <2> QED BY <2>1, <2>2 DEF Later
<1>12. /\ n <= Len(t) /\ n + 4 \in n + 1..Len(t) /\ t[n + 4] = a /\ t[n + 1] # "name"
  BY <1>0, <1>3
<1>13. \/ Later(t, "whole", n, Len(t)) = {} /\ b = m
       \/ \E x \in n + 1..Len(t) :
            /\ Later(t, "whole", n, Len(t)) = {x}
            /\ Len(b) = Len(m) + 1 /\ b[Len(m) + 1] = t[x] /\ \A k \in 1..Len(m) : b[k] = m[k]
  <2>1. CASE a = "output"
    <3>1. /\ Len(b) = Len(m) + 1 /\ b[Len(m) + 1] = a
          /\ \A k \in 1..Len(m) : b[k] = m[k]
      BY <1>0, <2>1, AppendProperties
    <3> QED BY <1>11, <1>12, <2>1, <3>1
  <2>2. CASE a # "output"
    BY <1>11, <2>2
  <2> QED BY <2>1, <2>2
<1>15. Len(r) \in Nat /\ Len(s) \in Nat /\ Len(m) \in Nat /\ Len(t) \in Nat
  OBVIOUS
<1> HIDE DEF b
<1>14. Faithful(t, f, "whole", s, b)
  <2>1. Grows(r, t) /\ MeantToo(r, t, m, b)
    BY <1>3, <1>12, <1>13 DEF Grows, MeantToo, n
  <2> QED BY <1>8, <1>10, <1>15, <2>1, Extended
<1> QED BY <1>14 DEF b

\* The connection breaks, and the end of the output with it.
LEMMA Shortened ==
  ASSUME NEW r, NEW f, NEW s, NEW m, NEW t,
         Len(r) \in Nat, Len(s) \in Nat, Len(m) \in Nat, Len(t) \in Nat,
         Faithful(r, f, "whole", s, m),
         Len(t) <= Len(r), \A i \in 1..Len(t) : t[i] = r[i]
  PROVE  Faithful(t, f, "cut", s, m)
<1>1. Framing(t, f)
  <2>1. ASSUME NEW i \in 1..Len(t)
        PROVE  /\ i \in 1..Len(r) /\ t[i] = r[i] /\ (i > 1 => t[i - 1] = r[i - 1])
               /\ (i < Len(t) => i < Len(r) /\ t[i + 1] = r[i + 1])
    OBVIOUS
  <2>2. f /\ Len(t) > 0 => t[1] \in Body
    BY DEF Faithful, Framing
  <2> QED BY <2>1, <2>2 DEF Faithful, Framing
<1>2. ASSUME NEW j \in ForScreen(t, "cut")
      PROVE  /\ j \in ForScreen(r, "whole") /\ t[j] = r[j]
             /\ Due(t, "cut", j) = Due(r, "whole", j)
  <2>1. j \in 1..Len(t) /\ j \in 1..Len(r) /\ t[j] = r[j] /\ j \in Nat
    BY DEF ForScreen
  <2>2. ASSUME NEW i \in 1..Len(t), i < Len(t)
        PROVE  i \in ForScreen(t, "cut") <=> i \in ForScreen(r, "whole")
    <3>1. i \in 1..Len(r) /\ t[i] = r[i] /\ t[i + 1] = r[i + 1] /\ i # Len(t) /\ i # Len(r)
      BY <2>2
    <3> QED BY <3>1 DEF ForScreen
  <2>3. j \in ForScreen(r, "whole")
    <3>1. CASE j < Len(t)
      BY <2>1, <2>2, <3>1
    <3>2. CASE j = Len(t)
      BY <2>1, <3>2 DEF ForScreen
    <3> QED BY <2>1, <3>1, <3>2
  <2>4. \A i \in 1..j : i \in ForScreen(t, "cut") <=> i \in ForScreen(r, "whole")
    <3> SUFFICES ASSUME NEW i \in 1..j
                 PROVE  i \in ForScreen(t, "cut") <=> i \in ForScreen(r, "whole")
      OBVIOUS
    <3>1. i = j \/ (i \in 1..Len(t) /\ i < Len(t))
      BY <2>1
    <3> QED BY <2>2, <2>3, <3>1
  <2>5. ForScreen(t, "cut") \cap (1..j) = ForScreen(r, "whole") \cap (1..j)
    BY <2>4
  <2> QED BY <2>1, <2>3, <2>5 DEF Due
<1> QED BY <1>1, <1>2 DEF Faithful

-----------------------------------------------------------------------------
(* What the decoder consumes *)

\* What the first n bytes have for the terminal.
Emits(r, end, n, e) ==
  /\ Len(e) = Due(r, end, n)
  /\ \A k \in 1..Len(e) : \E j \in ForScreen(r, end) : j <= n /\ Due(r, end, j) = k /\ e[k] = r[j]

\* The terminal shows u once e is printed after s.
Prints(s, e, u) ==
  /\ Len(u) = Len(s) + Len(e) /\ \A k \in 1..Len(s) : u[k] = s[k]
  /\ \A k \in 1..Len(e) : u[Len(s) + k] = e[k]

\* The rest starts where the decoder believes it does.
StartsIn(t, g) ==
  Len(t) > 0 => t[1] \notin {"name", "us", "nl"} /\ (t[1] \in Body <=> g)

LEMMA RestFraming ==
  ASSUME NEW r, NEW f, NEW n, NEW t, NEW g, Len(r) \in Nat, Len(t) \in Nat,
         Framing(r, f), Rest(r, n, t), StartsIn(t, g)
  PROVE  Framing(t, g)
<1>1. ASSUME NEW i \in 1..Len(t)
      PROVE  /\ n + i \in 1..Len(r) /\ t[i] = r[n + i]
             /\ i > 1 => t[i - 1] = r[n + i - 1] /\ n + i > 1
             /\ i < Len(t) => t[i + 1] = r[n + i + 1] /\ n + i < Len(r)
  <2>1. /\ n \in Nat /\ n <= Len(r) /\ Len(t) = Len(r) - n /\ i \in Nat /\ i >= 1 /\ i <= Len(t)
        /\ \A k \in 1..Len(t) : t[k] = r[n + k]
    BY DEF Rest
  <2>2. i > 1 => i - 1 \in 1..Len(t) /\ n + (i - 1) = n + i - 1 /\ n + i > 1
    BY <2>1
  <2>3. i < Len(t) => i + 1 \in 1..Len(t) /\ n + (i + 1) = n + i + 1 /\ n + i < Len(r)
    BY <2>1
  <2>4. n + i \in 1..Len(r) /\ t[i] = r[n + i]
    BY <2>1
  <2>5. i > 1 => t[i - 1] = r[n + (i - 1)]
    BY <2>1, <2>2
  <2>6. i < Len(t) => t[i + 1] = r[n + (i + 1)]
    BY <2>1, <2>3
  <2>7. i > 1 => t[i - 1] = r[n + i - 1]
    BY <2>2, <2>5
  <2>8. i < Len(t) => t[i + 1] = r[n + i + 1]
    BY <2>3, <2>6
  <2> QED BY <2>2, <2>3, <2>4, <2>7, <2>8
<1>2. ASSUME NEW i \in 1..Len(t), i > 1
      PROVE  /\ t[i] = "name" => t[i - 1] = "rs"
             /\ t[i] = "us" => t[i - 1] = "name"
             /\ t[i] \in Body => t[i - 1] = "us"
             /\ t[i] = "nl" => t[i - 1] \in Body
  <2>1. n + i \in 1..Len(r) /\ t[i] = r[n + i] /\ t[i - 1] = r[n + i - 1] /\ n + i > 1
    BY <1>1, <1>2
  <2>2. n + i # 1
    BY <2>1
  <2>3. \A k \in 1..Len(r) : k # 1 =>
          /\ r[k] = "name" => r[k - 1] = "rs"
          /\ r[k] = "us" => r[k - 1] = "name"
          /\ r[k] \in Body => r[k - 1] = "us"
          /\ r[k] = "nl" => r[k - 1] \in Body
    BY DEF Framing
  <2> DEFINE at == n + i
  <2>4. at \in 1..Len(r) /\ at # 1
    BY <2>1, <2>2
  <2>5. t[i] = r[at]
    BY <2>1
  <2>6. t[i - 1] = r[at - 1]
    <3>1. n \in Nat /\ i \in Nat
      BY DEF Rest
    <3>2. at - 1 = n + (i - 1)
      BY <3>1
    <3> QED BY <2>1, <3>2
  <2> HIDE DEF at
  <2> QED BY <2>3, <2>4, <2>5, <2>6
<1>3. ASSUME NEW i \in 1..Len(t), i < Len(t)
      PROVE  /\ t[i] = "name" => t[i + 1] = "us"
             /\ t[i] = "us" => t[i + 1] \in Body
             /\ t[i] \in Body => t[i + 1] = "nl"
  <2>1. n + i \in 1..Len(r) /\ t[i] = r[n + i] /\ t[i + 1] = r[n + i + 1] /\ n + i < Len(r)
    BY <1>1, <1>3
  <2> QED BY <2>1 DEF Framing
<1>4. ASSUME NEW i \in 1..Len(t), i = 1
      PROVE  t[i] \notin {"name", "us", "nl"} /\ (t[i] \in Body => g)
  BY <1>4 DEF StartsIn
<1>5. g /\ Len(t) > 0 => t[1] \in Body
  BY DEF StartsIn
<1>6. ASSUME NEW i \in 1..Len(t)
      PROVE  /\ t[i] = "name" => i > 1 /\ t[i - 1] = "rs"
             /\ t[i] = "us" => i > 1 /\ t[i - 1] = "name"
             /\ t[i] \in Body => IF i = 1 THEN g ELSE t[i - 1] = "us"
             /\ t[i] = "nl" => i > 1 /\ t[i - 1] \in Body
  <2>1. CASE i = 1
    BY <1>4, <2>1
  <2>2. CASE i > 1
    BY <1>2, <2>2
  <2> QED BY <2>1, <2>2
<1> QED BY <1>3, <1>5, <1>6 DEF Framing

\* The decoder consumes n bytes and prints what they have for the terminal.
LEMMA Advanced ==
  ASSUME NEW r, NEW f, NEW end, NEW s, NEW m, NEW n, NEW t, NEW e, NEW g, NEW u,
         Len(r) \in Nat, Len(s) \in Nat, Len(m) \in Nat, Len(t) \in Nat,
         Faithful(r, f, end, s, m), Rest(r, n, t), Emits(r, end, n, e),
         StartsIn(t, g), Len(t) = 0 /\ end = "whole" => ~g,
         Prints(s, e, u)
  PROVE  Faithful(t, g, end, u, m)
<1>1. Framing(t, g)
  BY RestFraming DEF Faithful
<1>2. end = "whole" => EndsWhole(t, g)
  <2>1. CASE Len(t) = 0
    BY <2>1 DEF EndsWhole
  <2>2. CASE Len(t) # 0
    <3>1. Len(t) \in 1..Len(t) /\ n + Len(t) = Len(r) /\ Len(r) # 0
      BY <2>2 DEF Rest
    <3>2. t[Len(t)] = r[Len(r)]
      BY <3>1 DEF Rest
    <3> QED BY <2>2, <3>1, <3>2 DEF Faithful, EndsWhole
  <2> QED BY <2>1, <2>2
<1>3. n \in 0..Len(r) /\ n \in Nat /\ Len(e) = Due(r, end, n) /\ Due(r, end, n) \in Nat
  <2>1. n \in Nat /\ n \in 0..Len(r)
    BY DEF Rest
  <2> QED BY <2>1, DueType DEF Emits
<1>4. /\ \A i \in 1..Len(t) : i \in ForScreen(t, end) <=> n + i \in ForScreen(r, end)
      /\ \A j \in 0..Len(t) : Due(r, end, n + j) = Due(r, end, n) + Due(t, end, j)
  BY RestScreen
<1>5. /\ Len(s) <= Len(m) /\ \A k \in 1..Len(s) : s[k] = m[k]
      /\ \A j \in ForScreen(r, end) : /\ Len(s) + Due(r, end, j) <= Len(m)
                                      /\ m[Len(s) + Due(r, end, j)] = r[j]
      /\ end = "whole" => Len(s) + Due(r, end, Len(r)) = Len(m)
  BY DEF Faithful
<1>6. ASSUME NEW k \in 1..Len(e)
      PROVE  Len(s) + k <= Len(m) /\ m[Len(s) + k] = e[k]
  <2>1. PICK j \in ForScreen(r, end) : j <= n /\ Due(r, end, j) = k /\ e[k] = r[j]
    BY DEF Emits
  <2> QED BY <1>5, <2>1
<1>7. Len(u) <= Len(m) /\ \A k \in 1..Len(u) : u[k] = m[k]
  <2>1. Len(e) \in Nat /\ Len(u) = Len(s) + Len(e)
    BY <1>3 DEF Prints
  <2>2. Len(u) <= Len(m)
    <3>1. CASE Len(e) = 0
      BY <1>5, <2>1, <3>1
    <3>2. CASE Len(e) > 0
      <4>1. Len(e) \in 1..Len(e)
        BY <2>1, <3>2
      <4> QED BY <1>6, <2>1, <4>1
    <3> QED BY <2>1, <3>1, <3>2
  <2>3. ASSUME NEW k \in 1..Len(u) PROVE u[k] = m[k]
    <3>1. CASE k <= Len(s)
      <4>1. k \in 1..Len(s)
        BY <2>1, <3>1
      <4> QED BY <1>5, <4>1 DEF Prints
    <3>2. CASE k > Len(s)
      <4>1. k - Len(s) \in 1..Len(e) /\ Len(s) + (k - Len(s)) = k
        BY <2>1, <3>2
      <4>2. u[Len(s) + (k - Len(s))] = e[k - Len(s)]
        BY <4>1 DEF Prints
      <4> QED BY <1>6, <4>1, <4>2
    <3> QED BY <2>1, <3>1, <3>2
  <2> QED BY <2>2, <2>3
<1>8. ASSUME NEW j \in ForScreen(t, end)
      PROVE  Len(u) + Due(t, end, j) <= Len(m) /\ m[Len(u) + Due(t, end, j)] = t[j]
  <2>1. j \in 1..Len(t) /\ j \in 0..Len(t) /\ j \in Nat /\ t[j] = r[n + j]
    BY DEF ForScreen, Rest
  <2>2. n + j \in ForScreen(r, end) /\ Due(r, end, n + j) = Due(r, end, n) + Due(t, end, j)
    BY <1>4, <2>1
  <2>3. Due(t, end, j) \in Nat
    BY <2>1, DueType
  <2>4. Len(u) + Due(t, end, j) = Len(s) + Due(r, end, n + j)
    BY <1>3, <2>2, <2>3 DEF Prints
  <2> QED BY <1>5, <2>1, <2>2, <2>4
<1>9. end = "whole" => Len(u) + Due(t, end, Len(t)) = Len(m)
  <2>1. Len(t) \in 0..Len(t) /\ n + Len(t) = Len(r)
    BY <1>3 DEF Rest
  <2>2. Due(r, end, Len(r)) = Due(r, end, n) + Due(t, end, Len(t))
    BY <1>4, <2>1
  <2>3. Due(t, end, Len(t)) \in Nat
    BY DueType
  <2> QED BY <1>3, <1>5, <2>2, <2>3 DEF Prints
<1> QED BY <1>1, <1>2, <1>7, <1>8, <1>9 DEF Faithful

\* The prefix of a frame, byte by byte.
PrefixAt(q, i) == q[i] = "rs" /\ q[i + 1] = "name" /\ q[i + 2] = "us"

\* No prefix is complete within the first n bytes.
NoPrefixIn(q, n) == \A i \in 1..n - 2 : ~PrefixAt(q, i)

\* Where no prefix is complete there is text, or one about to be completed.
LEMMA TextFirst ==
  ASSUME NEW r \in Seq(Token), NEW f, ~f, Framing(r, f), NEW n \in 0..Len(r), NoPrefixIn(r, n)
  PROVE  \A i \in 1..n : r[i] \in {"text", "rs"} \/ (r[i] = "name" /\ i = n)
<1> SUFFICES ASSUME NEW i \in 1..n
             PROVE  r[i] \in {"text", "rs"} \/ (r[i] = "name" /\ i = n)
  OBVIOUS
<1>0. /\ Len(r) \in Nat /\ n \in Nat /\ n <= Len(r)
      /\ \A k \in 1..n - 2 : ~(r[k] = "rs" /\ r[k + 1] = "name" /\ r[k + 2] = "us")
  BY DEF NoPrefixIn, PrefixAt
<1>1. ASSUME NEW j \in 1..n PROVE r[j] # "us"
  <2> SUFFICES ASSUME r[j] = "us" PROVE FALSE
    OBVIOUS
  <2>1. j \in 1..Len(r) /\ j > 1 /\ r[j - 1] = "name"
    BY DEF Framing
  <2>2. j - 1 \in 1..Len(r) /\ j - 1 > 1 /\ r[j - 1 - 1] = "rs"
    BY <2>1 DEF Framing
  <2>3. j - 2 \in 1..n - 2 /\ r[j - 2] = "rs" /\ r[j - 2 + 1] = "name" /\ r[j - 2 + 2] = "us"
    BY <1>0, <2>1, <2>2
  <2> QED BY <1>0, <2>3
<1>2. ASSUME NEW j \in 1..n PROVE r[j] \notin Body
  <2> SUFFICES ASSUME r[j] \in Body PROVE FALSE
    OBVIOUS
  <2>1. j \in 1..Len(r) /\ j > 1 /\ r[j - 1] = "us"
    BY DEF Framing
  <2>2. j - 1 \in 1..n
    BY <2>1
  <2> QED BY <1>1, <2>1, <2>2
<1>3. r[i] # "nl"
  <2> SUFFICES ASSUME r[i] = "nl" PROVE FALSE
    OBVIOUS
  <2>1. i \in 1..Len(r) /\ i > 1 /\ r[i - 1] \in Body
    BY DEF Framing
  <2>2. i - 1 \in 1..n
    BY <2>1
  <2> QED BY <1>2, <2>1, <2>2
<1>4. r[i] = "name" => i = n
  <2> SUFFICES ASSUME r[i] = "name", i # n PROVE FALSE
    OBVIOUS
  <2>1. i \in 1..Len(r) /\ i < Len(r) /\ i > 1 /\ r[i - 1] = "rs" /\ r[i + 1] = "us"
    BY DEF Framing
  <2>2. i - 1 \in 1..n - 2 /\ i - 1 + 1 = i /\ i - 1 + 2 = i + 1
    BY <2>1
  <2>3. r[i - 1 + 1] = "name" /\ r[i - 1 + 2] = "us"
    BY <2>1, <2>2
  <2> QED BY <1>0, <2>1, <2>2, <2>3
<1>5. r[i] \in Token
  OBVIOUS
<1> QED BY <1>1, <1>2, <1>3, <1>4, <1>5 DEF Token, Text

-----------------------------------------------------------------------------
(* Parts of sequences *)

LEMMA Beginning ==
  ASSUME NEW S, NEW q \in Seq(S), NEW n \in 0..Len(q)
  PROVE  /\ SubSeq(q, 1, n) \in Seq(S) /\ Len(SubSeq(q, 1, n)) = n
         /\ \A i \in 1..n : SubSeq(q, 1, n)[i] = q[i]
<1>1. n \in Nat /\ n <= Len(q) /\ Len(q) \in Nat
  OBVIOUS
<1>2. \A i \in 1..n : q[i] \in S
  BY <1>1
<1>3. /\ SubSeq(q, 1, n) \in Seq(S)
      /\ Len(SubSeq(q, 1, n)) = IF 1 <= n THEN n - 1 + 1 ELSE 0
      /\ \A i \in 1..(n - 1 + 1) : SubSeq(q, 1, n)[i] = q[1 + i - 1]
  BY <1>1, <1>2, SubSeqProperties
<1>4. n - 1 + 1 = n /\ (1 <= n \/ n = 0) /\ \A i \in Int : 1 + i - 1 = i
  BY <1>1
<1> QED BY <1>1, <1>3, <1>4

LEMMA Remainder ==
  ASSUME NEW S, NEW q \in Seq(S), NEW n \in 0..Len(q)
  PROVE  /\ SubSeq(q, n + 1, Len(q)) \in Seq(S) /\ Len(SubSeq(q, n + 1, Len(q))) = Len(q) - n
         /\ \A i \in 1..Len(q) - n : SubSeq(q, n + 1, Len(q))[i] = q[n + i]
<1> DEFINE l == Len(q)
           a == n + 1
<1>1. n \in Nat /\ n <= l /\ l \in Nat /\ a \in Nat /\ a = n + 1
  OBVIOUS
<1>2. \A i \in a..l : q[i] \in S
  BY <1>1
<1> HIDE DEF a, l
<1>3. /\ SubSeq(q, a, l) \in Seq(S)
      /\ Len(SubSeq(q, a, l)) = IF a <= l THEN l - a + 1 ELSE 0
      /\ \A i \in 1..(l - a + 1) : SubSeq(q, a, l)[i] = q[a + i - 1]
  BY <1>1, <1>2, SubSeqProperties
<1>4. l - a + 1 = l - n /\ (a <= l \/ l - n = 0) /\ \A i \in Int : a + i - 1 = n + i
  BY <1>1
<1>5. Len(SubSeq(q, a, l)) = l - n
  BY <1>3, <1>4
<1>6. \A i \in 1..(l - n) : SubSeq(q, a, l)[i] = q[n + i]
  BY <1>3, <1>4
<1> QED BY <1>3, <1>5, <1>6 DEF a, l

LEMMA PrefixTokens ==
  /\ FramePrefix \in Seq(Token) /\ Len(FramePrefix) = 3
  /\ FramePrefix[1] = "rs" /\ FramePrefix[2] = "name" /\ FramePrefix[3] = "us"
BY DEF FramePrefix, Token, Text

LEMMA PrefixBytes ==
  ASSUME NEW q \in Seq(Token), NEW i \in 1..Len(q) - 2
  PROVE  SubSeq(q, i, i + 2) = FramePrefix <=> PrefixAt(q, i)
<1> DEFINE z == i + 2
           p == SubSeq(q, i, z)
<1>1. i \in Nat /\ z \in Nat /\ i <= z /\ z - i + 1 = 3 /\ z <= Len(q) /\ Len(q) \in Nat /\ i >= 1
  OBVIOUS
<1>2. \A k \in i..z : q[k] \in Token
  BY <1>1
<1> HIDE DEF z
<1>3. /\ p \in Seq(Token) /\ Len(p) = 3
      /\ \A k \in 1..3 : p[k] = q[i + k - 1]
  BY <1>1, <1>2, SubSeqProperties
<1>4. i + 1 - 1 = i /\ i + 2 - 1 = i + 1 /\ i + 3 - 1 = i + 2
  BY <1>1
<1>5. p[1] = q[i] /\ p[2] = q[i + 1] /\ p[3] = q[i + 2]
  BY <1>3, <1>4
<1>6. \A k \in 1..3 : k = 1 \/ k = 2 \/ k = 3
  OBVIOUS
<1>7. PrefixAt(q, i) => p = FramePrefix
  <2> HIDE DEF p
  <2> SUFFICES ASSUME PrefixAt(q, i) PROVE p = FramePrefix
    OBVIOUS
  <2>1. \A k \in 1..3 : p[k] = FramePrefix[k]
    BY <1>5, <1>6, PrefixTokens DEF PrefixAt
  <2> QED BY <1>3, <2>1, PrefixTokens, SeqEqual
<1>8. p = FramePrefix => PrefixAt(q, i)
  BY <1>5, PrefixTokens DEF PrefixAt
<1> QED BY <1>7, <1>8 DEF z

LEMMA NoPrefix ==
  ASSUME NEW q \in Seq(Token), ~HasPrefix(q)
  PROVE  NoPrefixIn(q, Len(q))
BY PrefixBytes DEF HasPrefix, NoPrefixIn

\* What the end of the output may be held back for.
LEMMA SuffixBytes ==
  ASSUME NEW q \in Seq(Token), NEW n \in 1..2
  PROVE  IsSuffix(SubSeq(FramePrefix, 1, n), q)
           <=> /\ n <= Len(q)
               /\ IF n = 1 THEN q[Len(q)] = "rs"
                  ELSE q[Len(q) - 1] = "rs" /\ q[Len(q)] = "name"
<1> DEFINE p == SubSeq(FramePrefix, 1, n)
           b == Reverse(p)
           z == Reverse(q)
           l == Len(q)
<1>1. n \in Nat /\ n \in 1..3 /\ l \in Nat /\ (n = 1 \/ n = 2)
  OBVIOUS
<1>2. p \in Seq(Token) /\ Len(p) = n /\ p[1] = "rs" /\ (n = 2 => p[2] = "name")
  <2>1. n \in 0..Len(FramePrefix)
    BY <1>1, PrefixTokens
  <2>2. /\ p \in Seq(Token) /\ Len(p) = n /\ \A i \in 1..n : p[i] = FramePrefix[i]
    BY <2>1, PrefixTokens, Beginning
  <2>3. 1 \in 1..n /\ (n = 2 => 2 \in 1..n)
    BY <1>1
  <2> QED BY <2>2, <2>3, PrefixTokens
<1> HIDE DEF p
<1>3. b \in Seq(Token) /\ Len(b) = n /\ b[n] = "rs" /\ (n = 2 => b[1] = "name")
  <2>1. b = [i \in 1..n |-> p[n - i + 1]]
    BY <1>2 DEF Reverse
  <2>2. \A i \in 1..n : n - i + 1 \in 1..n /\ p[n - i + 1] \in Token
    BY <1>1, <1>2
  <2>3. b \in [1..n -> Token]
    BY <2>1, <2>2
  <2>4. n \in 1..n /\ n - n + 1 = 1 /\ 1 \in 1..n /\ (n = 2 => n - 1 + 1 = 2)
    BY <1>1
  <2>5. b[n] = p[1] /\ (n = 2 => b[1] = p[2])
    BY <2>1, <2>4
  <2> HIDE DEF b
  <2> QED BY <1>1, <1>2, <2>3, <2>5
<1>4. z \in Seq(Token) /\ Len(z) = l /\ (l >= 1 => z[1] = q[l]) /\ (l >= 2 => z[2] = q[l - 1])
  <2>1. z = [i \in 1..l |-> q[l - i + 1]]
    BY DEF Reverse
  <2> HIDE DEF l
  <2>2. \A i \in 1..l : l - i + 1 \in 1..l
    BY <1>1
  <2>3. z \in [1..l -> Token]
    BY <2>1, <2>2 DEF l
  <2>4. /\ l >= 1 => 1 \in 1..l /\ l - 1 + 1 = l
        /\ l >= 2 => 2 \in 1..l /\ l - 2 + 1 = l - 1
    BY <1>1
  <2>5. (l >= 1 => z[1] = q[l]) /\ (l >= 2 => z[2] = q[l - 1])
    BY <2>1, <2>4
  <2> HIDE DEF z
  <2> QED BY <1>1, <2>3, <2>5
<1> HIDE DEF b, z, l
<1>5. IsSuffix(p, q) <=> n <= l /\ SubSeq(b, 1, n) = SubSeq(z, 1, n)
  BY <1>3, <1>4 DEF IsSuffix, IsPrefix, b, z
<1>6. ASSUME n <= l
      PROVE  SubSeq(b, 1, n) = SubSeq(z, 1, n) <=> \A i \in 1..n : b[i] = z[i]
  <2> DEFINE c == SubSeq(b, 1, n)
             d == SubSeq(z, 1, n)
  <2>1. c \in Seq(Token) /\ Len(c) = n /\ \A i \in 1..n : c[i] = b[i]
    BY <1>1, <1>3, Beginning
  <2>2. d \in Seq(Token) /\ Len(d) = n /\ \A i \in 1..n : d[i] = z[i]
    <3>1. n \in 0..Len(z)
      BY <1>1, <1>4, <1>6
    <3> QED BY <1>4, <3>1, Beginning
  <2> HIDE DEF c, d
  <2>3. (\A i \in 1..n : b[i] = z[i]) => c = d
    <3>1. (\A i \in 1..n : b[i] = z[i]) => \A i \in 1..n : c[i] = d[i]
      BY <2>1, <2>2
    <3> QED BY <2>1, <2>2, <3>1, SeqEqual
  <2>4. c = d => \A i \in 1..n : b[i] = z[i]
    BY <2>1, <2>2
  <2> QED BY <2>3, <2>4 DEF c, d
<1>7. CASE n = 1
  <2>1. (\A i \in 1..n : b[i] = z[i]) <=> b[1] = z[1]
    BY <1>7
  <2>2. l >= 1 <=> n <= l
    BY <1>1, <1>7
  <2> QED BY <1>3, <1>4, <1>5, <1>6, <1>7, <2>1, <2>2 DEF l, p
<1>8. CASE n = 2
  <2>1. (\A i \in 1..n : b[i] = z[i]) <=> b[1] = z[1] /\ b[2] = z[2]
    BY <1>8
  <2>2. (n <= l <=> l >= 2) /\ (l >= 2 => l >= 1)
    BY <1>1, <1>8
  <2>3. n # 1
    BY <1>8
  <2> QED BY <1>3, <1>4, <1>5, <1>6, <1>8, <2>1, <2>2, <2>3 DEF l, p
<1> QED BY <1>1, <1>7, <1>8

LEMMA RetainedBytes ==
  ASSUME NEW q \in Seq(Token), NEW l, l = Len(q), NEW n, n = Retained(q)
  PROVE  /\ n \in 0..2 /\ n <= l
         /\ n = 1 => q[l] = "rs"
         /\ n = 2 => q[l - 1] = "rs" /\ q[l] = "name"
         /\ l >= 1 /\ q[l] = "rs" => n >= 1
         /\ l >= 2 /\ q[l - 1] = "rs" /\ q[l] = "name" => n = 2
<1> DEFINE R == {0} \cup {k \in 1..2 : IsSuffix(SubSeq(FramePrefix, 1, k), q)}
<1>0. l \in Nat
  OBVIOUS
<1>1. R \subseteq 0..2 /\ 0 \in R
  OBVIOUS
<1>2. n \in R /\ \A y \in R : n >= y
  <2>1. \E x \in R : \A y \in R : x >= y
    BY <1>1
  <2>2. n = Max(R)
    BY DEF Retained
  <2> HIDE DEF R
  <2> QED BY <2>1, <2>2 DEF Max
<1>3. 1 \in R <=> 1 <= l /\ q[l] = "rs"
  <2>1. 1 \in 1..2
    OBVIOUS
  <2> QED BY <2>1, SuffixBytes
<1>4. 2 \in R <=> 2 <= l /\ q[l - 1] = "rs" /\ q[l] = "name"
  <2>1. 2 \in 1..2 /\ 2 # 1
    OBVIOUS
  <2>2. IsSuffix(SubSeq(FramePrefix, 1, 2), q)
           <=> /\ 2 <= Len(q)
               /\ IF 2 = 1 THEN q[Len(q)] = "rs"
                  ELSE q[Len(q) - 1] = "rs" /\ q[Len(q)] = "name"
    BY <2>1, SuffixBytes
  <2>3. 2 \in R <=> IsSuffix(SubSeq(FramePrefix, 1, 2), q)
    BY <2>1
  <2> QED BY <2>1, <2>2, <2>3
<1> HIDE DEF R
<1>5. n \in 0..2 /\ (n = 0 \/ n = 1 \/ n = 2)
  BY <1>1, <1>2
<1> QED BY <1>0, <1>2, <1>3, <1>4, <1>5

-----------------------------------------------------------------------------
(* What the decoder makes of the output *)

\* The first l bytes.
Copies(r, l, e) == Len(e) = l /\ \A k \in 1..l : e[k] = r[k]

LEMMA EmitsText ==
  ASSUME NEW r, NEW end, NEW n \in Nat, NEW l \in 0..n, NEW e,
         \A j \in 1..n : j \in ForScreen(r, end) <=> j <= l, Copies(r, l, e)
  PROVE  Emits(r, end, n, e)
<1>0. l \in Nat /\ l <= n
  OBVIOUS
<1>1. ForScreen(r, end) \cap (1..n) = 1..l
  BY <1>0
<1>2. Due(r, end, n) = l
  <2>1. l \in Nat /\ l \in Int
    BY <1>0
  <2>2. Cardinality(1..l) = l
    BY <2>1, FS_Interval
  <2> QED BY <1>1, <2>2 DEF Due
<1>3. 1..l \subseteq ForScreen(r, end)
  BY <1>1
<1>4. \A j \in 0..l : Due(r, end, j) = j
  BY <1>0, <1>3, DueAll
<1>5. ASSUME NEW k \in 1..l
      PROVE  \E j \in ForScreen(r, end) : j <= n /\ Due(r, end, j) = k /\ e[k] = r[j]
  <2>1. k \in ForScreen(r, end) /\ k <= n /\ k \in 0..l /\ e[k] = r[k]
    BY <1>0, <1>3 DEF Copies
  <2>2. Due(r, end, k) = k
    BY <1>4, <2>1
  <2> QED BY <2>1, <2>2
<1> QED BY <1>2, <1>5 DEF Emits, Copies

\* The first bytes of the rest of some output whose next byte is x.
LEMMA RestFirst ==
  ASSUME NEW r, Len(r) \in Nat, NEW n \in Nat, NEW t, Len(t) \in Nat, Rest(r, n, t), Len(t) > 0
  PROVE  t[1] = r[n + 1] /\ n + 1 \in 1..Len(r) /\ n + 1 > n
<1>1. 1 \in 1..Len(t) /\ Len(t) = Len(r) - n
  BY DEF Rest
<1> QED BY <1>1 DEF Rest

\* What may stand where, given the byte before it.
LEMMA After ==
  ASSUME NEW r, Len(r) \in Nat, NEW f, Framing(r, f),
         NEW n \in Nat, n > 0, NEW k \in 1..Len(r), k = n + 1
  PROVE  /\ r[k] = "name" => r[n] = "rs"
         /\ r[k] = "us" <=> r[n] = "name"
         /\ r[k] \in Body <=> r[n] = "us"
         /\ r[k] = "nl" <=> r[n] \in Body
<1>1. k \in 1..Len(r) /\ k # 1 /\ k > 1 /\ k - 1 = n /\ n \in 1..Len(r) /\ n < Len(r)
  OBVIOUS
<1>2. /\ r[k] = "name" => r[k - 1] = "rs"
      /\ r[k] = "us" => r[k - 1] = "name"
      /\ r[k] \in Body => r[k - 1] = "us"
      /\ r[k] = "nl" => r[k - 1] \in Body
  BY <1>1 DEF Framing
<1>3. /\ r[n] = "name" => r[n + 1] = "us"
      /\ r[n] = "us" => r[n + 1] \in Body
      /\ r[n] \in Body => r[n + 1] = "nl"
  BY <1>1 DEF Framing
<1> QED BY <1>1, <1>2, <1>3

LEMMA BodyDecoded ==
  ASSUME NEW r \in Seq(Token), NEW f, NEW end, NEW s \in Seq(Token), NEW m \in Seq(Token),
         Faithful(r, f, end, s, m), Len(r) >= 2, r[1] \in Body,
         NEW c, c = 2, NEW t \in Seq(Token), Rest(r, c, t), NEW g, ~g,
         NEW u, u = IF r[1] = "output" THEN Append(s, r[1]) ELSE s
  PROVE  Faithful(t, g, end, u, m)
<1>0. /\ Len(r) \in Nat /\ Len(s) \in Nat /\ Len(m) \in Nat /\ Len(t) \in Nat
      /\ 1 \in 1..Len(r) /\ 1 < Len(r) /\ c \in 1..Len(r) /\ c \in Nat /\ c > 0 /\ c = 1 + 1
  OBVIOUS
<1>1. Framing(r, f)
  BY DEF Faithful
<1>2. r[1] \in Body /\ r[c] = "nl"
  <2>1. r[1 + 1] = "nl"
    BY <1>0, <1>1 DEF Framing
  <2> QED BY <1>0, <2>1
<1>3. /\ \A q \in {"text", "rs", "nl", "name", "us"} : q \notin Body
      /\ r[1] \in Token /\ r[1] \notin {"text", "rs"}
  BY <1>2 DEF Body, Token
<1>4. StartsIn(t, g)
  <2> SUFFICES ASSUME Len(t) > 0
               PROVE  t[1] \notin {"name", "us", "nl"} /\ t[1] \notin Body
    BY DEF StartsIn
  <2>1. t[1] = r[c + 1] /\ c + 1 \in 1..Len(r)
    BY <1>0, RestFirst
  <2> QED BY <1>0, <1>1, <1>2, <1>3, <2>1, After
<1> DEFINE l == IF r[1] = "output" THEN 1 ELSE 0
           e == IF r[1] = "output" THEN <<r[1]>> ELSE <<>>
<1>5. Len(e) = l /\ (r[1] = "output" => e[1] = r[1]) /\ l \in 0..c /\ l \in Nat
  OBVIOUS
<1>6. Emits(r, end, c, e)
  <2>1. \A j \in 1..c : j = 1 \/ j = 2
    OBVIOUS
  <2>2. 1 \in ForScreen(r, end) <=> r[1] = "output"
    BY <1>0, <1>3 DEF ForScreen
  <2>3. 2 \notin ForScreen(r, end)
    BY <1>2 DEF ForScreen
  <2>4. \A j \in 1..c : j \in ForScreen(r, end) <=> j <= l
    BY <2>1, <2>2, <2>3
  <2>5. Copies(r, l, e)
    BY DEF Copies
  <2> HIDE DEF l, e
  <2> QED BY <1>5, <2>4, <2>5, EmitsText
<1>7. Prints(s, e, u)
  <2>1. CASE r[1] = "output"
    <3>1. u = Append(s, r[1]) /\ Len(e) = 1 /\ e[1] = r[1]
      BY <2>1
    <3>2. Len(u) = Len(s) + 1 /\ u[Len(s) + 1] = r[1] /\ \A k \in 1..Len(s) : u[k] = s[k]
      BY <1>3, <3>1, AppendProperties
    <3> HIDE DEF e
    <3>3. \A k \in 1..Len(e) : k = 1
      BY <3>1
    <3> QED BY <3>1, <3>2, <3>3 DEF Prints
  <2>2. CASE r[1] # "output"
    BY <1>0, <2>2 DEF Prints
  <2> QED BY <2>1, <2>2
<1> HIDE DEF e, l
<1> QED BY <1>0, <1>4, <1>6, <1>7, Advanced

LEMMA FrameFound ==
  ASSUME NEW r \in Seq(Token), NEW f, ~f, NEW end, NEW s \in Seq(Token), NEW m \in Seq(Token),
         Faithful(r, f, end, s, m),
         NEW i \in 1..Len(r) - 2, PrefixAt(r, i), NoPrefixIn(r, i + 1),
         NEW t \in Seq(Token), Rest(r, i + 2, t), NEW g, g,
         NEW u, NEW e, Copies(r, i - 1, e),
         Prints(s, e, u)
  PROVE  Faithful(t, g, end, u, m)
<1> DEFINE n == i + 1
           a == i + 2
           l == i - 1
<1>0. /\ Len(r) \in Nat /\ Len(s) \in Nat /\ Len(m) \in Nat /\ Len(t) \in Nat
      /\ i \in Nat /\ n \in Nat /\ a \in Nat /\ l \in Nat /\ i >= 1 /\ a <= Len(r)
      /\ n \in 0..Len(r) /\ l \in 0..a
  OBVIOUS
<1>1. Framing(r, f) /\ (end = "whole" => EndsWhole(r, f))
  BY DEF Faithful
<1>2. \A k \in 1..n : r[k] \in {"text", "rs"} \/ (r[k] = "name" /\ k = n)
  <2>1. NoPrefixIn(r, n)
    OBVIOUS
  <2> HIDE DEF n
  <2> QED BY <1>0, <1>1, <2>1, TextFirst
<1>3. r[i] = "rs" /\ r[n] = "name" /\ r[a] = "us"
  BY DEF PrefixAt
<1>4. \A j \in 1..a : j \in ForScreen(r, end) <=> j <= l
  <2> SUFFICES ASSUME NEW j \in 1..a PROVE j \in ForScreen(r, end) <=> j <= l
    OBVIOUS
  <2>1. j \in 1..Len(r) /\ j \in Nat
    BY <1>0
  <2>2. CASE j <= l
    <3>1. j \in 1..n /\ j + 1 \in 1..n /\ j # n /\ j + 1 # n /\ j # Len(r)
      BY <1>0, <2>1, <2>2
    <3>2. r[j] \in {"text", "rs"} /\ r[j + 1] # "name"
      BY <1>2, <3>1
    <3> QED BY <2>1, <2>2, <3>1, <3>2 DEF ForScreen
  <2>3. CASE j = i
    <3>1. ~(j <= l) /\ j # Len(r) /\ r[j] = "rs" /\ r[j + 1] = "name"
      BY <1>0, <1>3, <2>3
    <3> QED BY <3>1 DEF ForScreen
  <2>4. CASE j = n \/ j = a
    <3>1. ~(j <= l) /\ r[j] \in {"name", "us"}
      BY <1>0, <1>3, <2>4
    <3> QED BY <3>1 DEF ForScreen
  <2>5. j <= l \/ j = i \/ j = n \/ j = a
    BY <1>0, <2>1
  <2> QED BY <2>2, <2>3, <2>4, <2>5
<1>5. Emits(r, end, a, e)
  <2>1. Copies(r, l, e)
    OBVIOUS
  <2> HIDE DEF l, a
  <2> QED BY <1>0, <1>4, <2>1, EmitsText
<1>6. Rest(r, a, t)
  OBVIOUS
<1> HIDE DEF a, n, l
<1>7. \A q \in {"nl", "name", "us"} : q \notin Body
  BY DEF Body
<1>8. StartsIn(t, g)
  <2> SUFFICES ASSUME Len(t) > 0
               PROVE  t[1] \notin {"name", "us", "nl"} /\ t[1] \in Body
    BY DEF StartsIn
  <2>1. t[1] = r[a + 1] /\ a + 1 \in 1..Len(r)
    BY <1>0, <1>6, RestFirst
  <2>2. a > 0
    BY <1>0 DEF a
  <2>3. r[a + 1] \in Body
    BY <1>0, <1>1, <1>3, <2>1, <2>2, After
  <2> QED BY <1>7, <2>1, <2>3
<1>9. Len(t) = 0 /\ end = "whole" => ~g
  <2> SUFFICES ASSUME Len(t) = 0, end = "whole" PROVE FALSE
    OBVIOUS
  <2>1. a = Len(r) /\ Len(r) # 0
    BY <1>0, <1>6 DEF Rest
  <2>2. r[Len(r)] \in Text \cup {"nl"}
    BY <1>1, <2>1 DEF EndsWhole
  <2> QED BY <1>3, <2>1, <2>2 DEF Text
<1> QED BY <1>0, <1>5, <1>6, <1>8, <1>9, Advanced DEF Faithful

\* Of the first n bytes, those after the l-th may be the beginning of a prefix.
HeldBack(r, n, l) ==
  /\ l \in 0..n /\ n - l <= 2
  /\ n - l = 1 => r[n] = "rs"
  /\ n - l = 2 => r[n - 1] = "rs" /\ r[n] = "name"
  /\ n >= 1 /\ r[n] = "rs" => n - l >= 1
  /\ n >= 2 /\ r[n - 1] = "rs" /\ r[n] = "name" => n - l = 2

\* All but what may be the beginning of a prefix.
LEMMA TextEmitted ==
  ASSUME NEW r \in Seq(Token), NEW f, ~f, NEW end, NEW s \in Seq(Token), NEW m \in Seq(Token),
         Faithful(r, f, end, s, m),
         NEW n \in 1..Len(r), NoPrefixIn(r, n),
         NEW l, HeldBack(r, n, l),
         NEW t \in Seq(Token), Rest(r, l, t), NEW g, ~g,
         NEW u, NEW e, Copies(r, l, e),
         Prints(s, e, u)
  PROVE  Faithful(t, g, end, u, m)
<1> DEFINE h == n - l
<1>0. /\ Len(r) \in Nat /\ Len(s) \in Nat /\ Len(m) \in Nat /\ Len(t) \in Nat
      /\ n \in Nat /\ n >= 1 /\ n <= Len(r) /\ n \in 0..Len(r) /\ l \in Nat /\ l <= n /\ l \in 0..l
      /\ h \in Nat /\ (h = 0 \/ h = 1 \/ h = 2)
  BY DEF HeldBack
<1>9. l = n - h /\ h = n - l
  BY <1>0
<1>8. /\ h = 1 => r[n] = "rs"
      /\ h = 2 => r[n - 1] = "rs" /\ r[n] = "name"
      /\ r[n] = "rs" => h >= 1
      /\ n >= 2 /\ r[n - 1] = "rs" /\ r[n] = "name" => h = 2
  BY <1>0 DEF HeldBack
<1> HIDE DEF h
<1>1. Framing(r, f)
  BY DEF Faithful
<1>2. \A k \in 1..n : r[k] \in {"text", "rs"} \/ (r[k] = "name" /\ k = n)
  BY <1>0, <1>1, TextFirst
\* The last byte is no "name", unless it is held back with the one before it.
<1>3. r[n] = "name" => h = 2
  <2> SUFFICES ASSUME r[n] = "name" PROVE h = 2
    OBVIOUS
  <2>1. n \in 1..Len(r) /\ n > 1 /\ r[n - 1] = "rs"
    BY <1>0, <1>1 DEF Framing
  <2>2. n >= 2
    BY <1>0, <2>1
  <2> QED BY <1>8, <2>1, <2>2
<1>4. \A j \in 1..l : j \in ForScreen(r, end) <=> j <= l
  <2> SUFFICES ASSUME NEW j \in 1..l PROVE j \in ForScreen(r, end)
    OBVIOUS
  <2>1. j \in 1..Len(r) /\ j \in Nat /\ j \in 1..n
    BY <1>0
  <2>2. r[j] \in {"text", "rs"}
    <3>1. CASE j = n
      <4>1. h = 0 /\ h # 2
        BY <1>0, <1>9, <2>1, <3>1
      <4> QED BY <1>2, <1>3, <2>1, <3>1, <4>1
    <3> QED BY <1>2, <2>1, <3>1
  <2>3. ASSUME r[j] = "rs" PROVE j # Len(r) /\ r[j + 1] # "name"
    <3>1. j # n
      <4> SUFFICES ASSUME j = n PROVE FALSE
        OBVIOUS
      <4>1. h = 0
        BY <1>0, <1>9, <2>1
      <4> QED BY <1>8, <2>3, <4>1
    <3>2. j + 1 \in 1..n /\ j # Len(r)
      BY <1>0, <2>1, <3>1
    <3>3. ASSUME r[j + 1] = "name" PROVE FALSE
      <4>1. j + 1 = n
        BY <1>2, <3>2, <3>3
      <4>2. h = 2
        BY <1>3, <3>3, <4>1
      <4> QED BY <1>0, <1>9, <2>1, <4>1, <4>2
    <3> QED BY <3>2, <3>3
  <2> QED BY <2>1, <2>2, <2>3 DEF ForScreen
<1>5. Emits(r, end, l, e)
  BY <1>0, <1>4, EmitsText
<1>6. \A q \in {"text", "rs", "nl", "name", "us"} : q \notin Body
  BY DEF Body
<1>7. StartsIn(t, g)
  <2> SUFFICES ASSUME Len(t) > 0
               PROVE  t[1] \notin {"name", "us", "nl"} /\ t[1] \notin Body
    BY DEF StartsIn
  <2>1. t[1] = r[l + 1] /\ l + 1 \in 1..Len(r)
    BY <1>0, RestFirst
  <2>2. CASE h = 0
    <3>1. l = n /\ n > 0 /\ r[n] \in {"text", "rs", "name"} /\ r[n] # "rs" /\ r[n] # "name"
      <4>1. l = n /\ n > 0 /\ h # 2 /\ ~(h >= 1) /\ n \in 1..n
        BY <1>0, <1>9, <2>2
      <4> QED BY <1>2, <1>3, <1>8, <4>1
    <3>2. r[n] \notin Body /\ r[n] # "us"
      BY <1>6, <3>1
    <3> QED BY <1>0, <1>1, <2>1, <3>1, <3>2, After
  <2>3. CASE h = 1
    <3>1. l + 1 = n
      BY <1>0, <1>9, <2>3
    <3> QED BY <1>6, <1>8, <2>1, <2>3, <3>1
  <2>4. CASE h = 2
    <3>1. l + 1 = n - 1
      BY <1>0, <1>9, <2>4
    <3> QED BY <1>6, <1>8, <2>1, <2>4, <3>1
  <2> QED BY <1>0, <2>2, <2>3, <2>4
<1> QED BY <1>0, <1>5, <1>7, Advanced

-----------------------------------------------------------------------------
(* The steps of ssh and of the decoder *)

\* r is p and then q.
Joined(p, q, r) == r = p \o q

LEMMA ConcatBytes ==
  ASSUME NEW p \in Seq(Token), NEW q \in Seq(Token), NEW r, Joined(p, q, r)
  PROVE  /\ r \in Seq(Token) /\ Len(r) = Len(p) + Len(q)
         /\ Len(r) \in Nat /\ Len(p) \in Nat /\ Len(q) \in Nat
         /\ \A i \in 1..Len(p) : r[i] = p[i]
         /\ \A i \in 1..Len(q) : r[Len(p) + i] = q[i]
<1>1. Len(p) \in Nat /\ Len(q) \in Nat
  OBVIOUS
<1>2. /\ r \in Seq(Token) /\ Len(r) = Len(p) + Len(q)
      /\ \A i \in 1..Len(p) + Len(q) : r[i] = IF i <= Len(p) THEN p[i] ELSE q[i - Len(p)]
  BY ConcatProperties DEF Joined
<1>3. \A i \in 1..Len(p) : r[i] = p[i]
  BY <1>1, <1>2
<1>4. \A i \in 1..Len(q) : r[Len(p) + i] = q[i]
  <2> SUFFICES ASSUME NEW i \in 1..Len(q) PROVE r[Len(p) + i] = q[i]
    OBVIOUS
  <2>1. /\ Len(p) + i \in 1..Len(p) + Len(q)
        /\ ~(Len(p) + i <= Len(p)) /\ Len(p) + i - Len(p) = i
    BY <1>1
  <2> QED BY <1>2, <2>1
<1> QED BY <1>1, <1>2, <1>3, <1>4

LEMMA UnreadBytes ==
  ASSUME SudoTypes
  PROVE  /\ Unread \in Seq(Token) /\ pending \in Seq(Token) /\ pipe \in Seq(Token)
         /\ screen \in Seq(Token)
         /\ Len(Unread) = Len(pending) + Len(pipe)
         /\ Len(Unread) \in Nat /\ Len(pending) \in Nat /\ Len(pipe) \in Nat
         /\ \A i \in 1..Len(pending) : Unread[i] = pending[i]
         /\ \A i \in 1..Len(pipe) : Unread[Len(pending) + i] = pipe[i]
<1>1. pending \in Seq(Token) /\ pipe \in Seq(Token) /\ screen \in Seq(Token)
  BY DEF SudoTypes, SudoTypeOK
<1>2. Joined(pending, pipe, Unread)
  BY DEF Joined, Unread
<1> QED BY <1>1, <1>2, ConcatBytes

LEMMA Consumed ==
  ASSUME SudoTypes, SudoTypes', NEW n \in 0..Len(pending), Consume(n), pipe' = pipe
  PROVE  Rest(Unread, n, Unread')
<1>1. /\ Len(pending) \in Nat /\ Len(pipe) \in Nat /\ Len(Unread) = Len(pending) + Len(pipe)
      /\ pending \in Seq(Token)
      /\ \A i \in 1..Len(pending) : Unread[i] = pending[i]
      /\ \A i \in 1..Len(pipe) : Unread[Len(pending) + i] = pipe[i]
  BY UnreadBytes
<1>2. /\ Len(pending') \in Nat /\ Len(Unread') = Len(pending') + Len(pipe)
      /\ \A i \in 1..Len(pending') : Unread'[i] = pending'[i]
      /\ \A i \in 1..Len(pipe) : Unread'[Len(pending') + i] = pipe[i]
  <2>1. pending' \in Seq(Token) /\ pipe' \in Seq(Token) /\ Joined(pending', pipe', Unread')
    BY DEF SudoTypes, SudoTypeOK, Unread, Joined
  <2>2. /\ Len(pending') \in Nat /\ Len(Unread') = Len(pending') + Len(pipe')
        /\ \A i \in 1..Len(pending') : Unread'[i] = pending'[i]
        /\ \A i \in 1..Len(pipe') : Unread'[Len(pending') + i] = pipe'[i]
    BY <2>1, ConcatBytes
  <2> QED BY <2>2
<1>3. Len(pending') = Len(pending) - n /\ \A i \in 1..Len(pending) - n : pending'[i] = pending[n + i]
  BY <1>1, Remainder DEF Consume
<1> DEFINE r == Unread
           t == Unread'
           p == Len(pending)
           z == Len(pending')
           l == Len(pipe)
<1>4. /\ p \in Nat /\ l \in Nat /\ z \in Nat /\ n \in Nat /\ n <= p /\ z = p - n
      /\ Len(r) = p + l /\ Len(t) = z + l
  BY <1>1, <1>2, <1>3
<1>5. /\ \A i \in 1..p : r[i] = pending[i]
      /\ \A i \in 1..l : r[p + i] = pipe[i]
      /\ \A i \in 1..z : t[i] = pending'[i]
      /\ \A i \in 1..l : t[z + i] = pipe[i]
      /\ \A i \in 1..z : pending'[i] = pending[n + i]
  BY <1>1, <1>2, <1>3
<1> HIDE DEF r, t, p, z, l
<1>6. ASSUME NEW i \in 1..Len(t) PROVE t[i] = r[n + i]
  <2>1. CASE i <= z
    <3>1. i \in 1..z /\ n + i \in 1..p
      BY <1>4, <2>1
    <3> QED BY <1>5, <3>1
  <2>2. CASE i > z
    <3>1. i - z \in 1..l /\ z + (i - z) = i /\ p + (i - z) = n + i
      BY <1>4, <2>2
    <3>2. t[z + (i - z)] = pipe[i - z] /\ r[p + (i - z)] = pipe[i - z]
      BY <1>5, <3>1
    <3> QED BY <3>1, <3>2
  <2> QED BY <1>4, <2>1, <2>2
<1>7. n \in 0..Len(r) /\ Len(t) = Len(r) - n
  BY <1>4
<1> QED BY <1>6, <1>7 DEF Rest, r, t

LEMMA Printed ==
  ASSUME NEW s \in Seq(Token), NEW e \in Seq(Token)
  PROVE  Prints(s, e, s \o e)
<1> DEFINE u == s \o e
<1>1. Len(s) \in Nat /\ Len(e) \in Nat
  OBVIOUS
<1>2. /\ Len(u) = Len(s) + Len(e)
      /\ \A i \in 1..Len(s) + Len(e) : u[i] = IF i <= Len(s) THEN s[i] ELSE e[i - Len(s)]
  BY ConcatProperties
<1> HIDE DEF u
<1>3. \A k \in 1..Len(s) : u[k] = s[k]
  BY <1>1, <1>2
<1>4. \A k \in 1..Len(e) : u[Len(s) + k] = e[k]
  <2> SUFFICES ASSUME NEW k \in 1..Len(e) PROVE u[Len(s) + k] = e[k]
    OBVIOUS
  <2>1. /\ Len(s) + k \in 1..Len(s) + Len(e) /\ ~(Len(s) + k <= Len(s))
        /\ Len(s) + k - Len(s) = k
    BY <1>1
  <2> QED BY <1>2, <2>1
<1> QED BY <1>2, <1>3, <1>4 DEF Prints, u

\* z is q with a frame after it.
Framed(q, b, z) ==
  \E p, e \in Seq(Token) :
    /\ Joined(q, FramePrefix, p) /\ Joined(p, e, z)
    /\ Len(e) = 2 /\ e[1] = b /\ e[2] = "nl"

LEMMA FrameBytes ==
  ASSUME NEW q \in Seq(Token), NEW b, NEW z, Framed(q, b, z)
  PROVE  /\ z \in Seq(Token) /\ Len(z) = Len(q) + 5 /\ \A i \in 1..Len(q) : z[i] = q[i]
         /\ z[Len(q) + 1] = "rs" /\ z[Len(q) + 2] = "name" /\ z[Len(q) + 3] = "us"
         /\ z[Len(q) + 4] = b /\ z[Len(q) + 5] = "nl"
<1> DEFINE l == Len(q)
<1>1. PICK p \in Seq(Token), e \in Seq(Token) :
        /\ Joined(q, FramePrefix, p) /\ Joined(p, e, z)
        /\ Len(e) = 2 /\ e[1] = b /\ e[2] = "nl"
  BY DEF Framed
<1>3. /\ Len(p) = l + 3
      /\ \A i \in 1..l : p[i] = q[i]
      /\ \A i \in 1..3 : p[l + i] = FramePrefix[i]
  <2>1. FramePrefix \in Seq(Token)
    BY PrefixTokens
  <2>2. /\ Len(p) = l + Len(FramePrefix)
        /\ \A i \in 1..l : p[i] = q[i]
        /\ \A i \in 1..Len(FramePrefix) : p[l + i] = FramePrefix[i]
    BY <1>1, <2>1, ConcatBytes
  <2> QED BY <2>2, PrefixTokens
<1>4. /\ z \in Seq(Token) /\ Len(z) = Len(p) + 2
      /\ \A i \in 1..Len(p) : z[i] = p[i]
      /\ \A i \in 1..2 : z[Len(p) + i] = e[i]
  <2>1. p \in Seq(Token) /\ e \in Seq(Token) /\ Joined(p, e, z)
    BY <1>1
  <2>2. /\ z \in Seq(Token) /\ Len(z) = Len(p) + Len(e)
        /\ \A i \in 1..Len(p) : z[i] = p[i]
        /\ \A i \in 1..Len(e) : z[Len(p) + i] = e[i]
    BY <2>1, ConcatBytes
  <2> QED BY <1>1, <2>2
<1>5. l \in Nat
  OBVIOUS
<1> HIDE DEF l
<1>6. /\ \A i \in 1..l : i \in 1..Len(p)
      /\ l + 1 \in 1..Len(p) /\ l + 2 \in 1..Len(p) /\ l + 3 \in 1..Len(p)
      /\ Len(p) + 1 = l + 4 /\ Len(p) + 2 = l + 5
  BY <1>3, <1>5
<1>7. \A i \in 1..l : z[i] = q[i]
  BY <1>3, <1>4, <1>6
<1>8. z[l + 1] = FramePrefix[1] /\ z[l + 2] = FramePrefix[2] /\ z[l + 3] = FramePrefix[3]
  <2>1. 1 \in 1..3 /\ 2 \in 1..3 /\ 3 \in 1..3
    OBVIOUS
  <2>2. p[l + 1] = FramePrefix[1] /\ p[l + 2] = FramePrefix[2] /\ p[l + 3] = FramePrefix[3]
    BY <1>3, <2>1
  <2> QED BY <1>4, <1>6, <2>2
<1>9. z[Len(p) + 1] = b /\ z[Len(p) + 2] = "nl"
  <2>1. 1 \in 1..2 /\ 2 \in 1..2
    OBVIOUS
  <2> QED BY <1>1, <1>4, <2>1
<1>10. Len(z) = l + 5
  BY <1>3, <1>4, <1>5
<1> QED BY <1>4, <1>6, <1>7, <1>8, <1>9, <1>10, PrefixTokens DEF l

LEMMA RemoteScreened ==
  ASSUME SudoTypes, Screened, RemoteStep
  PROVE  Screened'
<1>1. ssh = "running" /\ UNCHANGED <<decoderVars, sudoResult>>
  BY DEF RemoteStep, Echo, Respond, EndSsh
<1>2. sudoResult = "none" /\ Streaming /\ Ending = "whole"
  BY <1>1 DEF Screened, Streaming, Ending
<1>3. /\ meant \in Seq(Token) /\ Faithful(Unread, inFrame, "whole", screen, meant)
      /\ ~decoding /\ ~inFrame => pending \in {<<>>, <<"rs">>, <<"rs", "name">>}
  BY <1>2 DEF Screened
<1>4. /\ Unread \in Seq(Token) /\ pending \in Seq(Token) /\ pipe \in Seq(Token)
      /\ screen \in Seq(Token) /\ Len(Unread) \in Nat /\ Len(screen) \in Nat /\ Len(meant) \in Nat
  BY <1>3, UnreadBytes
<1>5. ASSUME meant' \in Seq(Token), Faithful(Unread', inFrame', Ending', screen', meant'),
             ssh' # "none"
      PROVE  Screened'
  BY <1>1, <1>2, <1>3, <1>5 DEF Screened, Streaming, decoderVars
<1>6. ASSUME NEW c \in Text, Echo(c) PROVE Screened'
  <2>1. /\ c \in Token /\ ssh' = ssh /\ meant' = Append(meant, c) /\ pipe' = Append(pipe, c)
        /\ UNCHANGED <<pending, inFrame, screen>>
    BY <1>6 DEF Echo, Token, decoderVars
  <2>2. Unread' = Append(Unread, c)
    <3>1. Append(pipe, c) = pipe \o <<c>> /\ Append(Unread, c) = Unread \o <<c>>
      BY <1>4, <2>1, AppendIsConcat
    <3>2. <<c>> \in Seq(Token)
      BY <2>1
    <3>3. (pending \o pipe) \o <<c>> = pending \o (pipe \o <<c>>)
      BY <1>4, <3>2, ConcatAssociative
    <3> QED BY <2>1, <3>1, <3>3 DEF Unread
  <2>3. Ending' = "whole"
    BY <1>1, <2>1 DEF Ending
  <2>4. Faithful(Append(Unread, c), inFrame, "whole", screen, Append(meant, c))
    BY <1>3, <1>4, Echoed
  <2>5. meant' \in Seq(Token)
    BY <1>3, <2>1, AppendProperties
  <2> QED BY <1>1, <1>5, <2>1, <2>2, <2>3, <2>4, <2>5
<1>7. ASSUME NEW b \in Body, Respond(b) PROVE Screened'
  <2>1. /\ b \in Token /\ ssh' = ssh /\ meant' = (IF b = "output" THEN Append(meant, b) ELSE meant)
        /\ pipe' = pipe \o FramePrefix \o <<b, "nl">>
        /\ UNCHANGED <<pending, inFrame, screen>>
    BY <1>7 DEF Respond, Token, decoderVars
  <2>2. Framed(Unread, b, Unread')
    <3> DEFINE e == <<b, "nl">>
               p == Unread \o FramePrefix
    <3>1. e \in Seq(Token) /\ Len(e) = 2 /\ e[1] = b /\ e[2] = "nl"
      <4>1. "nl" \in Token
        BY DEF Token
      <4> QED BY <2>1, <4>1
    <3>2. pending \in Seq(Token) /\ pipe \in Seq(Token) /\ FramePrefix \in Seq(Token)
      BY <1>4, PrefixTokens
    <3>3. p \in Seq(Token)
      BY <1>4, <3>2, ConcatProperties
    <3>4. Unread' = pending \o (pipe \o FramePrefix \o e)
      BY <2>1 DEF Unread
    <3>5. Unread \o FramePrefix = pending \o (pipe \o FramePrefix)
      BY <3>2, ConcatAssociative DEF Unread
    <3>6. \A a, c, d \in Seq(Token) : (a \o c) \o d = a \o (c \o d)
      BY ConcatAssociative
    <3>7. pipe \o FramePrefix \in Seq(Token)
      BY <3>2, ConcatProperties
    <3>8. Joined(Unread, FramePrefix, p)
      BY DEF Joined
    <3> HIDE DEF e
    <3>9. (pending \o (pipe \o FramePrefix)) \o e = pending \o (pipe \o FramePrefix \o e)
      BY <3>1, <3>2, <3>6, <3>7
    <3>10. Joined(p, e, Unread')
      BY <3>4, <3>5, <3>9 DEF Joined
    <3> HIDE DEF p
    <3> QED BY <3>1, <3>3, <3>8, <3>10 DEF Framed
  <2>3. Ending' = "whole"
    BY <1>1, <2>1 DEF Ending
  <2> DEFINE t == Unread'
             r == Unread
  <2> HIDE DEF t, r
  <2>7. r \in Seq(Token) /\ Framed(r, b, t)
    BY <1>4, <2>2 DEF t, r
  <2>4. /\ t \in Seq(Token) /\ Len(t) = Len(r) + 5 /\ \A i \in 1..Len(r) : t[i] = r[i]
        /\ t[Len(r) + 1] = "rs" /\ t[Len(r) + 2] = "name" /\ t[Len(r) + 3] = "us"
        /\ t[Len(r) + 4] = b /\ t[Len(r) + 5] = "nl"
    BY <2>7, FrameBytes
  <2>5. Faithful(t, inFrame, "whole", screen, IF b = "output" THEN Append(meant, b) ELSE meant)
    <3>1. Faithful(r, inFrame, "whole", screen, meant)
      BY <1>3 DEF r
    <3> QED BY <1>3, <1>4, <2>4, <2>7, <3>1, Responded
  <2>6. meant' \in Seq(Token)
    BY <1>3, <2>1, AppendProperties
  <2> QED BY <1>1, <1>5, <2>1, <2>3, <2>5, <2>6 DEF t
<1>8. CASE EndSsh
  <2>1. meant' = meant /\ UNCHANGED <<pending, inFrame, screen>>
    BY <1>8 DEF EndSsh, decoderVars, remoteVars
  <2>2. CASE ssh' = "success" /\ pipe' = pipe
    <3>1. Unread' = Unread /\ Ending' = "whole"
      BY <2>1, <2>2 DEF Unread, Ending
    <3> QED BY <1>3, <1>5, <2>1, <2>2, <3>1
  <2>3. ASSUME ssh' = "failure", NEW n \in 0..Len(pipe), pipe' = SubSeq(pipe, 1, n)
        PROVE  Screened'
    <3>1. /\ pipe' \in Seq(Token) /\ Len(pipe') = n /\ \A i \in 1..n : pipe'[i] = pipe[i]
      BY <1>4, <2>3, Beginning
    <3>2. Unread' = pending \o pipe'
      BY <2>1 DEF Unread
    <3> DEFINE t == Unread'
               q == pipe'
    <3> HIDE DEF t, q
    <3>3. /\ Len(t) = Len(pending) + Len(q) /\ Len(t) \in Nat /\ Len(q) \in Nat
          /\ \A i \in 1..Len(pending) : t[i] = pending[i]
          /\ \A i \in 1..Len(q) : t[Len(pending) + i] = q[i]
      <4>1. pending \in Seq(Token) /\ q \in Seq(Token) /\ Joined(pending, q, t)
        BY <1>4, <3>1, <3>2 DEF t, q, Joined
      <4> QED BY <4>1, ConcatBytes
    <3>4. /\ Len(Unread) = Len(pending) + Len(pipe) /\ Len(pending) \in Nat /\ Len(pipe) \in Nat
          /\ \A i \in 1..Len(pending) : Unread[i] = pending[i]
          /\ \A i \in 1..Len(pipe) : Unread[Len(pending) + i] = pipe[i]
      BY UnreadBytes
    <3>5. Len(q) = n /\ n <= Len(pipe) /\ n \in Nat /\ \A i \in 1..n : q[i] = pipe[i]
      BY <1>4, <3>1 DEF q
    <3>6. \A i \in 1..Len(t) : t[i] = Unread[i]
      <4> SUFFICES ASSUME NEW i \in 1..Len(t) PROVE t[i] = Unread[i]
        OBVIOUS
      <4>1. CASE i <= Len(pending)
        BY <3>3, <3>4, <4>1
      <4>2. CASE i > Len(pending)
        <5>1. /\ i - Len(pending) \in 1..n /\ i - Len(pending) \in 1..Len(pipe)
              /\ Len(pending) + (i - Len(pending)) = i
          BY <3>3, <3>4, <3>5, <4>2
        <5>2. t[Len(pending) + (i - Len(pending))] = Unread[Len(pending) + (i - Len(pending))]
          BY <3>3, <3>4, <3>5, <5>1
        <5> QED BY <5>1, <5>2
      <4> QED BY <3>3, <3>4, <4>1, <4>2
    <3>7. Len(t) <= Len(Unread)
      BY <3>3, <3>4, <3>5
    <3>8. Faithful(t, inFrame, "cut", screen, meant)
      BY <1>3, <1>4, <3>3, <3>6, <3>7, Shortened
    <3>9. Ending' = "cut"
      BY <2>3 DEF Ending
    <3> QED BY <1>3, <1>5, <2>1, <2>3, <3>8, <3>9 DEF t
  <2> QED BY <1>8, <2>2, <2>3 DEF EndSsh
<1> QED BY <1>6, <1>7, <1>8 DEF RemoteStep

LEMMA DecoderScreened ==
  ASSUME SudoTypes, Screened, DecoderStep \/ StreamBreaks
  PROVE  Screened'
<1>0. SudoTypes'
  BY DecoderFlow
<1>1. /\ Unread \in Seq(Token) /\ pending \in Seq(Token) /\ pipe \in Seq(Token)
      /\ screen \in Seq(Token) /\ meant \in Seq(Token) /\ Unread' \in Seq(Token)
  <2>1. /\ Unread \in Seq(Token) /\ pending \in Seq(Token) /\ pipe \in Seq(Token)
        /\ screen \in Seq(Token) /\ meant \in Seq(Token)
    BY UnreadBytes DEF Screened
  <2>2. pending' \in Seq(Token) /\ pipe' \in Seq(Token)
    BY <1>0 DEF SudoTypes, SudoTypeOK
  <2>3. Unread' \in Seq(Token)
    BY <2>2, ConcatProperties DEF Unread
  <2> QED BY <2>1, <2>3
\* A step of push: it consumes and prints, and it goes on or holds something back.
<1>2. ASSUME Streaming, UNCHANGED <<ssh, meant, sudoResult>>,
             Faithful(Unread', inFrame', Ending, screen', meant),
             ~decoding' /\ ~inFrame' => pending' \in {<<>>, <<"rs">>, <<"rs", "name">>}
      PROVE  Screened'
  BY <1>1, <1>2 DEF Screened, Streaming, Ending
<1>3. decoding => Streaming
  BY DEF Screened
<1>4. Streaming => Faithful(Unread, inFrame, Ending, screen, meant)
  BY DEF Screened
<1>5. CASE Streaming /\ StreamFails
  <2>1. /\ sudoResult' = "error" /\ ~decoding' /\ ssh' # "running" /\ meant' = meant
    BY <1>5 DEF StreamFails, remoteVars
  <2> QED BY <1>1, <2>1 DEF Screened, Streaming
<1>6. ASSUME NEW n \in 1..Len(pipe), Read(n) PROVE Screened'
  <2>1. Unread' = Unread
    <3> DEFINE a == SubSeq(pipe, 1, n)
               b == SubSeq(pipe, n + 1, Len(pipe))
    <3>0. Len(pipe) \in Nat /\ n \in Nat /\ n <= Len(pipe) /\ n \in 0..Len(pipe)
      BY <1>1
    <3>1. a \in Seq(Token) /\ Len(a) = n /\ \A i \in 1..n : a[i] = pipe[i]
      BY <1>1, <3>0, Beginning
    <3>2. /\ b \in Seq(Token) /\ Len(b) = Len(pipe) - n
          /\ \A i \in 1..Len(pipe) - n : b[i] = pipe[n + i]
      BY <1>1, <3>0, Remainder
    <3>3. Unread' = (pending \o a) \o b
      BY <1>6 DEF Read, Unread
    <3> HIDE DEF a, b
    <3>4. (pending \o a) \o b = pending \o (a \o b)
      <4>1. pending \in Seq(Token) /\ a \in Seq(Token) /\ b \in Seq(Token)
        BY <1>1, <3>1, <3>2
      <4> QED BY <4>1, ConcatAssociative
    <3>5. a \o b = pipe
      <4> DEFINE z == a \o b
      <4>1. Joined(a, b, z)
        BY DEF Joined
      <4> HIDE DEF z
      <4>2. /\ z \in Seq(Token) /\ Len(z) = Len(a) + Len(b)
            /\ \A i \in 1..Len(a) : z[i] = a[i]
            /\ \A i \in 1..Len(b) : z[Len(a) + i] = b[i]
        <5>1. a \in Seq(Token) /\ b \in Seq(Token) /\ Joined(a, b, z)
          BY <3>1, <3>2, <4>1
        <5>2. /\ z \in Seq(Token) /\ Len(z) = Len(a) + Len(b)
              /\ Len(z) \in Nat /\ Len(a) \in Nat /\ Len(b) \in Nat
              /\ \A i \in 1..Len(a) : z[i] = a[i]
              /\ \A i \in 1..Len(b) : z[Len(a) + i] = b[i]
          BY <5>1, ConcatBytes
        <5> QED BY <5>2
      <4>3. Len(z) = Len(pipe)
        BY <3>0, <3>1, <3>2, <4>2
      <4>4. ASSUME NEW i \in 1..Len(z) PROVE z[i] = pipe[i]
        <5>1. CASE i <= n
          BY <3>0, <3>1, <4>2, <4>3, <5>1
        <5>2. CASE i > n
          <6>1. i - n \in 1..Len(pipe) - n /\ n + (i - n) = i
            BY <3>0, <4>3, <5>2
          <6>2. z[n + (i - n)] = b[i - n] /\ b[i - n] = pipe[n + (i - n)]
            BY <3>1, <3>2, <4>2, <6>1
          <6> QED BY <6>1, <6>2
        <5> QED BY <3>0, <4>3, <5>1, <5>2
      <4>5. z = pipe
        BY <1>1, <4>2, <4>3, <4>4, SeqEqual
      <4> QED BY <4>5 DEF z
    <3> QED BY <3>3, <3>4, <3>5 DEF Unread
  <2>2. Streaming /\ decoding' /\ UNCHANGED <<ssh, inFrame, screen, meant, sudoResult>>
    BY <1>6 DEF Read, remoteVars
  <2> QED BY <1>2, <1>4, <2>1, <2>2
<1>7. CASE DecodeFrame
  <2>1. decoding /\ inFrame /\ Streaming
    BY <1>3, <1>7 DEF DecodeFrame
  <2>2. PICK k \in 1..Len(pending) : pending[k] = "nl"
    BY <1>7 DEF DecodeFrame, Contains
  <2>3. /\ Len(pending) \in Nat /\ Len(pipe) \in Nat /\ Len(Unread) = Len(pending) + Len(pipe)
        /\ \A i \in 1..Len(pending) : Unread[i] = pending[i]
    BY UnreadBytes
  <2>4. Len(pending) > 0 /\ Len(Unread) > 0 /\ 1 \in 1..Len(pending) /\ Len(Unread) \in Nat
    BY <2>2, <2>3
  <2>5. Unread[1] \in Body
    BY <1>4, <2>1, <2>4 DEF Faithful, Framing
  <2>6. k # 1
    BY <2>2, <2>3, <2>4, <2>5 DEF Body
  <2>7. Len(pending) >= 2
    BY <2>2, <2>3, <2>6
  <2>8. Head(pending) = Unread[1]
    <3>1. Head(pending) = pending[1]
      BY <1>1, <2>4
    <3> QED BY <2>3, <2>4, <3>1
  <2>9. CASE Refused(Head(pending))
    <3>1. StreamFails
      BY <1>7, <2>9 DEF DecodeFrame
    <3> QED BY <1>5, <2>1, <3>1
  <2>10. CASE ~Refused(Head(pending))
    <3>1. /\ Consume(2) /\ inFrame' = FALSE
          /\ screen' = (IF Unread[1] = "output" THEN Append(screen, Unread[1]) ELSE screen)
          /\ UNCHANGED <<ssh, pipe, decoding, meant, sudoResult>>
      BY <1>7, <2>8, <2>10 DEF DecodeFrame, remoteVars
    <3>2. 2 \in 0..Len(pending)
      BY <2>3, <2>7
    <3>3. Rest(Unread, 2, Unread')
      BY <1>0, <3>1, <3>2, Consumed
    <3> DEFINE r == Unread
               t == Unread'
    <3>4. Len(Unread) >= 2 /\ ~inFrame'
      BY <2>3, <2>7, <3>1
    <3>5. Faithful(Unread, inFrame, Ending, screen, meant)
      BY <1>4, <2>1
    <3> HIDE DEF r, t
    <3>6. Faithful(Unread', inFrame', Ending, screen', meant)
      BY <1>1, <2>5, <3>1, <3>3, <3>4, <3>5, BodyDecoded
    <3> QED BY <1>2, <2>1, <3>1, <3>6
  <2> QED BY <2>9, <2>10
<1>8. CASE FindPrefix
  <2>1. decoding /\ ~inFrame /\ Streaming /\ inFrame'
        /\ UNCHANGED <<ssh, pipe, decoding, meant, sudoResult>>
    BY <1>3, <1>8 DEF FindPrefix, remoteVars
  <2>2. PICK i \in 1..Len(pending) - 2 :
          /\ SubSeq(pending, i, i + 2) = FramePrefix
          /\ ~HasPrefix(SubSeq(pending, 1, i + 1))
          /\ screen' = screen \o SubSeq(pending, 1, i - 1)
          /\ Consume(i + 2)
    BY <1>8 DEF FindPrefix
  <2>3. /\ Len(pending) \in Nat /\ Len(pipe) \in Nat /\ Len(Unread) = Len(pending) + Len(pipe)
        /\ \A k \in 1..Len(pending) : Unread[k] = pending[k]
    BY UnreadBytes
  <2>4. /\ i \in 1..Len(Unread) - 2 /\ i - 1 \in 0..Len(pending) /\ i + 1 \in 0..Len(pending)
        /\ i + 2 \in 0..Len(pending) /\ i \in Nat
        /\ i \in 1..Len(pending) /\ i + 1 \in 1..Len(pending) /\ i + 2 \in 1..Len(pending)
    BY <2>3
  <2>5. PrefixAt(Unread, i)
    <3>1. PrefixAt(pending, i)
      BY <1>1, <2>2, PrefixBytes
    <3> QED BY <2>3, <2>4, <3>1 DEF PrefixAt
  <2>6. NoPrefixIn(Unread, i + 1)
    <3> DEFINE p == SubSeq(pending, 1, i + 1)
    <3>1. p \in Seq(Token) /\ Len(p) = i + 1 /\ \A k \in 1..i + 1 : p[k] = pending[k]
      BY <1>1, <2>4, Beginning
    <3>2. ~HasPrefix(p)
      BY <2>2
    <3> HIDE DEF p
    <3>3. NoPrefixIn(p, i + 1)
      BY <3>1, <3>2, NoPrefix
    <3>4. ASSUME NEW k \in 1..i + 1 - 2 PROVE ~PrefixAt(Unread, k)
      <4>1. /\ k \in 1..i + 1 /\ k + 1 \in 1..i + 1 /\ k + 2 \in 1..i + 1
            /\ k \in 1..Len(pending) /\ k + 1 \in 1..Len(pending) /\ k + 2 \in 1..Len(pending)
        BY <2>3, <2>4
      <4>2. p[k] = Unread[k] /\ p[k + 1] = Unread[k + 1] /\ p[k + 2] = Unread[k + 2]
        BY <2>3, <3>1, <4>1
      <4>3. ~PrefixAt(p, k)
        BY <3>3 DEF NoPrefixIn
      <4> QED BY <4>2, <4>3 DEF PrefixAt
    <3> QED BY <3>4 DEF NoPrefixIn
  <2> DEFINE e == SubSeq(pending, 1, i - 1)
  <2>7. e \in Seq(Token) /\ Len(e) = i - 1 /\ \A k \in 1..i - 1 : e[k] = pending[k]
    BY <1>1, <2>4, Beginning
  <2>8. screen' = screen \o e
    BY <2>2
  <2> HIDE DEF e
  <2>9. Copies(Unread, i - 1, e)
    <3>1. \A k \in 1..i - 1 : k \in 1..Len(pending)
      BY <2>3, <2>4
    <3> QED BY <2>3, <2>7, <3>1 DEF Copies
  <2>10. Prints(screen, e, screen')
    BY <1>1, <2>7, <2>8, Printed
  <2>11. Rest(Unread, i + 2, Unread')
    BY <1>0, <2>1, <2>2, <2>4, Consumed
  <2>12. Faithful(Unread, inFrame, Ending, screen, meant)
    BY <1>4, <2>1
  <2>13. Faithful(Unread', inFrame', Ending, screen', meant)
    BY <1>1, <2>1, <2>4, <2>5, <2>6, <2>7, <2>9, <2>10, <2>11, <2>12, FrameFound
  <2> QED BY <1>2, <2>1, <2>13
<1>9. CASE EmitText
  <2> DEFINE n == Len(pending)
             h == Retained(pending)
             l == n - h
             e == SubSeq(pending, 1, l)
  <2>1. /\ decoding /\ ~inFrame /\ Streaming /\ pending # <<>> /\ ~HasPrefix(pending)
        /\ screen' = screen \o e /\ Consume(l) /\ ~decoding'
        /\ UNCHANGED <<ssh, pipe, inFrame, meant, sudoResult>>
    BY <1>3, <1>9 DEF EmitText, remoteVars
  <2>2. n \in Nat /\ n > 0
    BY <1>1, <2>1
  <2>3. /\ Len(pipe) \in Nat /\ Len(Unread) = n + Len(pipe)
        /\ \A k \in 1..n : Unread[k] = pending[k]
    BY UnreadBytes
  <2>4. /\ h \in 0..2 /\ h <= n
        /\ h = 1 => pending[n] = "rs"
        /\ h = 2 => pending[n - 1] = "rs" /\ pending[n] = "name"
        /\ n >= 1 /\ pending[n] = "rs" => h >= 1
        /\ n >= 2 /\ pending[n - 1] = "rs" /\ pending[n] = "name" => h = 2
    BY <1>1, RetainedBytes
  <2>5. NoPrefixIn(pending, n)
    BY <1>1, <2>1, NoPrefix
  <2> HIDE DEF h, n
  <2>6. l \in 0..n /\ l \in Nat /\ h \in Nat /\ (h = 0 \/ h = 1 \/ h = 2) /\ l = n - h
    BY <2>2, <2>4
  <2>7. e \in Seq(Token) /\ Len(e) = l /\ \A k \in 1..l : e[k] = pending[k]
    BY <1>1, <2>6, Beginning DEF n
  <2>8. /\ pending' \in Seq(Token) /\ Len(pending') = n - l
        /\ \A k \in 1..n - l : pending'[k] = pending[l + k]
    BY <1>1, <2>1, <2>6, Remainder DEF Consume, n
  <2>9. Rest(Unread, l, Unread')
    BY <1>0, <2>1, <2>6, Consumed DEF n
  <2>10. Prints(screen, e, screen')
    BY <1>1, <2>1, <2>7, Printed
  <2> HIDE DEF e, l
  <2>11. NoPrefixIn(Unread, n)
    <3>1. ASSUME NEW k \in 1..n - 2 PROVE ~PrefixAt(Unread, k)
      <4>1. k \in 1..n /\ k + 1 \in 1..n /\ k + 2 \in 1..n
        BY <2>2
      <4>2. ~PrefixAt(pending, k)
        BY <2>5 DEF NoPrefixIn
      <4> QED BY <2>3, <4>1, <4>2 DEF PrefixAt
    <3> QED BY <3>1 DEF NoPrefixIn
  <2>12. /\ n \in 1..Len(Unread) /\ n >= 1 /\ n \in 1..n /\ (n >= 2 => n - 1 \in 1..n)
    BY <2>2, <2>3
  <2>13. HeldBack(Unread, n, l)
    <3>1. n - l = h
      BY <2>2, <2>6
    <3> QED BY <2>3, <2>4, <2>6, <2>12, <3>1 DEF HeldBack
  <2>14. Copies(Unread, l, e)
    BY <2>2, <2>3, <2>6, <2>7 DEF Copies
  <2>15. Faithful(Unread, inFrame, Ending, screen, meant) /\ ~inFrame' /\ ~inFrame
    BY <1>4, <2>1
  <2>16. Faithful(Unread', inFrame', Ending, screen', meant)
    <3>1. n \in 1..Len(Unread)
      BY <2>12
    <3> QED BY <1>1, <2>9, <2>10, <2>11, <2>13, <2>14, <2>15, <3>1, TextEmitted
  <2>17. pending' \in {<<>>, <<"rs">>, <<"rs", "name">>}
    <3>1. "rs" \in Token /\ "name" \in Token
      BY DEF Token, Text
    <3>2. CASE h = 0
      <4>1. Len(pending') = 0
        BY <2>2, <2>6, <2>8, <3>2
      <4> QED BY <2>8, <4>1
    <3>3. CASE h = 1
      <4> DEFINE z == <<"rs">>
      <4>1. z \in Seq(Token) /\ Len(z) = 1 /\ z[1] = "rs"
        BY <3>1
      <4>2. Len(pending') = 1 /\ l + 1 = n /\ n - l = 1 /\ 1 \in 1..1
        BY <2>2, <2>6, <2>8, <3>3
      <4>3. pending'[1] = "rs"
        BY <2>4, <2>8, <3>3, <4>2
      <4> HIDE DEF z
      <4>4. \A k \in 1..1 : pending'[k] = z[k]
        BY <4>1, <4>3
      <4>5. pending' = z
        BY <2>8, <4>1, <4>2, <4>4, SeqEqual
      <4> QED BY <4>5 DEF z
    <3>4. CASE h = 2
      <4> DEFINE z == <<"rs", "name">>
      <4>1. z \in Seq(Token) /\ Len(z) = 2 /\ z[1] = "rs" /\ z[2] = "name"
        BY <3>1
      <4>2. Len(pending') = 2 /\ l + 1 = n - 1 /\ l + 2 = n /\ n - l = 2 /\ 1 \in 1..2 /\ 2 \in 1..2
        BY <2>2, <2>6, <2>8, <3>4
      <4>3. pending'[1] = "rs" /\ pending'[2] = "name"
        BY <2>4, <2>8, <3>4, <4>2
      <4> HIDE DEF z
      <4>4. \A k \in 1..2 : pending'[k] = z[k]
        <5>1. \A k \in 1..2 : k = 1 \/ k = 2
          OBVIOUS
        <5> QED BY <4>1, <4>3, <5>1
      <4>5. pending' = z
        BY <2>8, <4>1, <4>2, <4>4, SeqEqual
      <4> QED BY <4>5 DEF z
    <3> QED BY <2>6, <3>2, <3>3, <3>4
  <2> QED BY <1>2, <2>1, <2>16, <2>17
<1>10. CASE AwaitMore
  <2>1. /\ Streaming /\ UNCHANGED <<ssh, pipe, pending, inFrame, screen, meant, sudoResult>>
        /\ pending = <<>> \/ inFrame
    BY <1>3, <1>10 DEF AwaitMore, remoteVars
  <2>2. Unread' = Unread
    BY <2>1 DEF Unread
  <2> QED BY <1>2, <1>4, <2>1, <2>2
<1>11. CASE FinishStream
  <2>1. /\ Streaming /\ ~decoding /\ ssh # "running" /\ pipe = <<>> /\ ~decoding'
        /\ ssh' = ssh /\ meant' = meant
    BY <1>11 DEF FinishStream, remoteVars
  <2>2. sudoResult' # "none" /\ sudoResult' # "ok"
    BY <1>11 DEF FinishStream, SudoTypes, SudoTypeOK
  <2>3. ASSUME sudoResult' \in {"0", "ok"}, ssh # "failure" PROVE screen' = meant
    <3>1. ~inFrame /\ screen' = screen \o pending
      BY <1>11, <2>3 DEF FinishStream
    <3>2. pending \in {<<>>, <<"rs">>, <<"rs", "name">>}
      BY <2>1, <3>1 DEF Screened
    <3>3. Ending = "whole"
      BY <2>3 DEF Ending
    <3>4. Unread = pending
      <4>1. pending \o <<>> = pending
        BY <1>1, ConcatEmptySeq
      <4> QED BY <2>1, <4>1 DEF Unread
    <3>5. Faithful(pending, inFrame, "whole", screen, meant)
      BY <1>4, <2>1, <3>3, <3>4
    <3>6. EndsWhole(pending, inFrame)
      BY <3>5 DEF Faithful
    <3>7. pending # <<"rs", "name">>
      <4> SUFFICES ASSUME pending = <<"rs", "name">> PROVE FALSE
        OBVIOUS
      <4>1. Len(pending) = 2 /\ pending[2] = "name"
        OBVIOUS
      <4> QED BY <3>6, <4>1 DEF EndsWhole, Text
    <3> DEFINE n == Len(pending)
    <3>8. n \in Nat /\ Len(screen) \in Nat /\ Len(meant) \in Nat /\ n \in 0..n
      BY <1>1
    <3>9. \A k \in 1..n : k = n /\ pending[k] = "rs"
      <4>1. CASE pending = <<>>
        BY <4>1
      <4>2. CASE pending = <<"rs">>
        <5>1. n = 1 /\ pending[1] = "rs"
          BY <4>2
        <5> QED BY <5>1
      <4> QED BY <3>2, <3>7, <4>1, <4>2
    <3> HIDE DEF n
    <3>10. 1..n \subseteq ForScreen(pending, "whole")
      BY <3>9 DEF ForScreen, n
    <3>11. \A j \in 0..n : Due(pending, "whole", j) = j
      BY <3>8, <3>10, DueAll
    <3>12. /\ Len(screen) + n = Len(meant)
           /\ \A k \in 1..Len(screen) : screen[k] = meant[k]
           /\ \A j \in 1..n : meant[Len(screen) + j] = pending[j]
      <4>1. /\ \A k \in 1..Len(screen) : screen[k] = meant[k]
            /\ \A j \in ForScreen(pending, "whole") :
                 meant[Len(screen) + Due(pending, "whole", j)] = pending[j]
            /\ Len(screen) + Due(pending, "whole", n) = Len(meant)
        BY <3>5 DEF Faithful, n
      <4>2. Due(pending, "whole", n) = n
        BY <3>8, <3>11
      <4>3. \A j \in 1..n : j \in ForScreen(pending, "whole") /\ Due(pending, "whole", j) = j
        BY <3>8, <3>10, <3>11
      <4> QED BY <4>1, <4>2, <4>3
    <3>13. /\ Len(screen') = Len(screen) + n /\ screen' \in Seq(Token)
           /\ \A k \in 1..Len(screen) : screen'[k] = screen[k]
           /\ \A k \in 1..n : screen'[Len(screen) + k] = pending[k]
      BY <1>0, <1>1, <3>1, Printed DEF Prints, n, SudoTypes, SudoTypeOK
    <3> DEFINE u == screen'
    <3> HIDE DEF u
    <3>14. /\ Len(u) = Len(meant) /\ u \in Seq(Token) /\ Len(u) = Len(screen) + n
           /\ \A k \in 1..Len(screen) : u[k] = meant[k]
           /\ \A k \in 1..n : u[Len(screen) + k] = meant[Len(screen) + k]
      BY <3>8, <3>12, <3>13 DEF u
    <3>15. ASSUME NEW k \in 1..Len(u) PROVE u[k] = meant[k]
      <4>1. CASE k <= Len(screen)
        BY <3>8, <3>14, <4>1
      <4>2. CASE k > Len(screen)
        <5>1. k - Len(screen) \in 1..n /\ Len(screen) + (k - Len(screen)) = k
          BY <3>8, <3>14, <4>2
        <5>2. u[Len(screen) + (k - Len(screen))] = meant[Len(screen) + (k - Len(screen))]
          BY <3>14, <5>1
        <5> QED BY <5>1, <5>2
      <4> QED BY <3>8, <3>14, <4>1, <4>2
    <3>16. u = meant
      BY <1>1, <3>14, <3>15, SeqEqual
    <3> QED BY <3>16 DEF u
  <2> QED BY <1>1, <2>1, <2>2, <2>3 DEF Screened, Streaming
<1>12. CASE WaitSsh
  <2>1. /\ sudoResult # "none" /\ ssh' = "none" /\ meant' = meant /\ decoding' = decoding
        /\ screen' = screen
        /\ sudoResult' # "none"
        /\ sudoResult' \in {"0", "ok"} => sudoResult = "0" /\ ssh # "failure"
    BY <1>12 DEF WaitSsh, RunOutcome, decoderVars, remoteVars
  <2> QED BY <1>1, <2>1 DEF Screened, Streaming
<1> QED BY <1>5, <1>6, <1>7, <1>8, <1>9, <1>10, <1>11, <1>12 DEF DecoderStep, StreamBreaks

LEMMA RunSshScreened == ASSUME NEW request, RunSsh(request) PROVE Screened'
<1>1. /\ ssh' = "running" /\ pipe' = <<>> /\ pending' = <<>> /\ inFrame' = FALSE /\ ~decoding'
      /\ sudoResult' = "none" /\ screen' = <<>> /\ meant' = <<>>
  BY DEF RunSsh
<1>2. Unread' = <<>>
  <2>1. <<>> \o <<>> = <<>>
    OBVIOUS
  <2> QED BY <1>1, <2>1 DEF Unread
<1>3. Ending' = "whole" /\ <<>> \in Seq(Token) /\ Len(<<>>) = 0
  BY <1>1 DEF Ending
<1> DEFINE r == <<>>
<1>4. r \in Seq(Token) /\ Len(r) = 0 /\ Len(r) \in Nat
  OBVIOUS
<1> HIDE DEF r
<1>5. ForScreen(r, "whole") = {}
  BY <1>4 DEF ForScreen
<1>6. Due(r, "whole", Len(r)) = 0
  BY <1>5, FS_EmptySet DEF Due
<1>7. Framing(r, inFrame') /\ EndsWhole(r, inFrame')
  BY <1>1, <1>4 DEF Framing, EndsWhole
<1>8. Faithful(r, inFrame', "whole", r, r)
  BY <1>4, <1>5, <1>6, <1>7 DEF Faithful
<1> QED BY <1>1, <1>2, <1>3, <1>8 DEF Screened, Streaming, r

LEMMA ScreenedStep ==
  ASSUME SudoTypes, SudoPath, Screened, [DeployNext]_vars
  PROVE  Screened'
<1>1. ASSUME UNCHANGED sudoVars PROVE Screened'
  <2>1. Unread' = Unread
    BY <1>1 DEF Unread, sudoVars, decoderVars
  <2> QED BY <1>1, <2>1 DEF Screened, Streaming, Ending, sudoVars, decoderVars, remoteVars
<1>2. CASE CommandStep
  <2>1. CASE pc = "prepared" /\ args.sudo
    <3>1. SudoActivate
      BY <1>2, <2>1 DEF CommandStep, Progress, Start, Warm, GivenSeed, PrepareFirst, Build,
        BuildFails, Precheck, Copy, Register, RegisterFails, PostNew, PostMatches, PostRefused,
        Answer, NoWait, Conclude, Poll, PollFails, SudoReboot, SudoDone, SudoStep, SudoBreaks
    <3> QED BY <1>1, <1>2, <2>1, <3>1, RunSshScreened DEF SudoActivate, BuildFails, Fails
  <2>2. CASE pc = "ssh"
    <3>1. SudoReboot \/ SudoDone \/ SudoStep \/ SudoBreaks
      BY <1>2, <2>2 DEF CommandStep, Progress, Start, Warm, GivenSeed, PrepareFirst, Build,
        BuildFails, Precheck, Copy, Register, RegisterFails, PostNew, PostMatches, PostRefused,
        Answer, NoWait, Conclude, Poll, PollFails, SudoActivate
    <3>2. CASE SudoStep \/ SudoBreaks
      BY <3>2, DecoderScreened DEF SudoStep, SudoBreaks
    <3> QED BY <1>1, <3>1, <3>2, RunSshScreened DEF SudoReboot, SudoDone, Fails
  <2> QED BY <1>1, <1>2, <2>1, <2>2, SudoUntouched
<1>3. CASE Remote
  BY <1>3, RemoteScreened DEF Remote
<1>4. CASE ServerStep \/ UNCHANGED vars
  BY <1>1, <1>4, ServerSteps DEF vars
<1> QED BY <1>2, <1>3, <1>4 DEF DeployNext

LEMMA ScreenedInitial == DeployInit => Screened
<1>1. <<>> \in Seq(Token)
  OBVIOUS
<1> QED BY <1>1 DEF DeployInit, SudoInit, Screened, Streaming

-----------------------------------------------------------------------------
(* Theorems *)

LEMMA DeployInitial == DeployInit => DeployTypeOK /\ DeployInv
<1> SUFFICES ASSUME DeployInit PROVE DeployTypeOK /\ DeployInv
  OBVIOUS
<1>1. RowTypeOK
  BY DEF DeployInit, RowInit, RowTypeOK
<1>2. SudoTypeOK /\ Flow
  <2>1. \A S : <<>> \in Seq(S)
    OBVIOUS
  <2> QED BY <2>1 DEF DeployInit, SudoInit, SudoTypeOK, Flow
<1>3. CliTypes
  BY DEF DeployInit, CliTypes, SeedType
<1>4. Rows
  <2>1. NoSeed \in AnySid
    BY DEF NoSeed, AnySid
  <2> QED BY <2>1 DEF DeployInit, RowInit, Rows
<1>5. Waiting
  BY DEF DeployInit, Waiting, ExitTruth
<1>6. Passed
  BY DEF DeployInit, Passed, Prepared
<1>7. SudoPath
  BY DEF DeployInit, SudoInit, SudoPath, SudoTruth, Parsed
<1> QED BY <1>1, <1>2, <1>3, <1>4, <1>5, <1>6, <1>7 DEF DeployTypeOK, DeployInv, CliTypes

LEMMA DeployInvStep == DeployTypeOK /\ DeployInv /\ [DeployNext]_vars => (DeployTypeOK /\ DeployInv)'
<1> SUFFICES ASSUME DeployTypeOK, DeployInv, [DeployNext]_vars PROVE (DeployTypeOK /\ DeployInv)'
  OBVIOUS
<1>1. RowTypeOK /\ CliTypes /\ SudoTypes /\ Rows /\ Waiting /\ Passed /\ SudoPath
  BY DEF DeployTypeOK, DeployInv, CliTypes, SudoTypes
<1>2. RowTypeOK' /\ CliTypes' /\ SudoTypes'
  BY <1>1, RowTypesStep, CliTypesStep, SudoTypesStep
<1>3. Rows' /\ Waiting' /\ Passed' /\ SudoPath'
  BY <1>1, RowsStep, WaitingStep, PassedStep, SudoPathStep
<1> QED BY <1>2, <1>3 DEF DeployTypeOK, DeployInv, CliTypes, SudoTypes

\* The inductive invariant of the command.
THEOREM DeployInvariant == DeploySpec => [](DeployTypeOK /\ DeployInv)
BY DeployInitial, DeployInvStep, PTL DEF DeploySpec

\* The state keeps its types.
THEOREM DeployTypes == DeploySpec => []DeployTypeOK
BY DeployInvariant, PTL

\* A command that waited and exits with 0 has a deployment of its own seed
\* that was completed with success, for any number of rows and polls.
THEOREM DeployExitTruth == DeploySpec => []ExitTruth
<1>1. DeployInv => ExitTruth
  BY DEF DeployInv, Waiting
<1> QED BY <1>1, DeployInvariant, PTL

\* Every registered seed was checked and copied, and every created row is for
\* such a seed or for the one that was given, for any command line.
THEOREM DeployPrepared == DeploySpec => []Prepared
<1>1. DeployInv => Prepared
  BY DEF DeployInv, Passed
<1> QED BY <1>1, DeployInvariant, PTL

\* A sudo deployment that reports success had every request completed with
\* exit code 0, and reboots only after that of its activation: for ssh output
\* of any length and any cut into chunks.
THEOREM DeploySudoTruth == DeploySpec => []SudoTruth
<1>1. DeployInv => SudoTruth
  BY DEF DeployInv, SudoPath
<1> QED BY <1>1, DeployInvariant, PTL

\* The terminal and what is on its way to it.
THEOREM DeployScreenInvariant == DeploySpec => []Screened
<1>1. DeployTypeOK /\ DeployInv /\ Screened /\ [DeployNext]_vars => Screened'
  BY ScreenedStep DEF DeployTypeOK, DeployInv, SudoTypes
<1> QED BY <1>1, ScreenedInitial, DeployInvariant, PTL DEF DeploySpec

\* However ssh's output is cut into chunks, the terminal shows the beginning of
\* what was written for it, and all of it when the deployment succeeds: for
\* output of any length.
THEOREM DeployScreen == DeploySpec => []ScreenFaithful
<1>1. DeployTypeOK /\ DeployInv /\ Screened => ScreenFaithful
  <2> SUFFICES ASSUME DeployTypeOK, DeployInv, Screened PROVE ScreenFaithful
    OBVIOUS
  <2>1. screen \in Seq(Token) /\ meant \in Seq(Token)
    BY DEF DeployTypeOK, SudoTypeOK, Screened
  <2>2. ASSUME Streaming PROVE IsPrefix(screen, meant)
    <3>1. Len(screen) <= Len(meant) /\ \A k \in 1..Len(screen) : screen[k] = meant[k]
      BY <2>2 DEF Screened, Faithful
    <3> DEFINE n == Len(screen)
               a == SubSeq(screen, 1, n)
               b == SubSeq(meant, 1, n)
    <3>2. n \in 0..Len(screen) /\ n \in 0..Len(meant) /\ n \in Nat
      BY <2>1, <3>1
    <3>3. a \in Seq(Token) /\ Len(a) = n /\ \A i \in 1..n : a[i] = screen[i]
      BY <2>1, <3>2, Beginning
    <3>4. b \in Seq(Token) /\ Len(b) = n /\ \A i \in 1..n : b[i] = meant[i]
      BY <2>1, <3>2, Beginning
    <3> HIDE DEF a, b
    <3>5. \A i \in 1..n : a[i] = b[i]
      BY <3>1, <3>3, <3>4
    <3>6. a = b
      BY <3>3, <3>4, <3>5, SeqEqual
    <3> QED BY <3>1, <3>6 DEF IsPrefix, a, b
  <2>3. ASSUME sudoResult = "ok" PROVE screen = meant
    <3>1. ssh # "failure"
      BY <2>3 DEF Screened
    <3> QED BY <2>3, <3>1 DEF Screened
  <2> QED BY <2>2, <2>3 DEF ScreenFaithful
<1> QED BY <1>1, DeployInvariant, DeployScreenInvariant, PTL
=============================================================================
