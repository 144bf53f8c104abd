---------------------------- MODULE SudoDeploy -----------------------------
(***************************************************************************)
(* `sower deploy --sudo`, once the closure is copied (deploy_sudo in       *)
(* commands/deploy.rs, and commands/deploy/sudo.rs): one ssh process per   *)
(* request, whose terminal output carries the activator's responses as     *)
(* frames between whatever else the remote shell prints.                   *)
(*                                                                         *)
(* Three parties take steps: the command, which reads the output in chunks *)
(* of any size and decodes it; the remote end, which prints text and       *)
(* frames; and ssh, which may end at any point and lose what it had not    *)
(* delivered.  A byte is a token: the frame prefix has three, a response   *)
(* is one, and text is "text" or the prefix's first byte on its own.       *)
(***************************************************************************)
EXTENDS Naturals, Sequences, SequencesExt

CONSTANTS
  MaxText,    \* bound: tokens of text the remote end prints per request
  MaxFrames   \* bound: responses the remote end sends per request

ASSUME SudoAssumption == MaxText \in Nat /\ MaxFrames \in Nat

FramePrefix == <<"rs", "name", "us">>
Text == {"text", "rs"}
\* Responses to this request; "other" has another id, like the activator's
\* refusals, "invalid" is no response or a completion without an exit code.
Body == {"output", "other", "complete0", "complete1", "invalid"}
Token == Text \cup Body \cup {"name", "us", "nl"}

VARIABLES
  asked,      \* the requests sent so far
  ssh,        \* the ssh process: "none", "running", "success" or "failure"
  pipe,       \* its output that the command has not read
  budget,     \* tokens of text and responses the remote end may still print
  pending, inFrame, completion,   \* Decoder
  decoding,   \* push is in its loop
  sudoResult, \* what stream or run returned: "none", "0", "1", "error", "ok"
  screen,     \* what this request wrote to the user's terminal
  meant,      \* what the remote end wrote for the terminal
  answers     \* the completions it sent, with their requests

decoderVars == <<pending, inFrame, completion, decoding, screen>>
remoteVars == <<meant, answers, budget>>
sudoVars == <<asked, ssh, pipe, decoderVars, remoteVars, sudoResult>>

SudoInit ==
  /\ asked = <<>> /\ ssh = "none" /\ pipe = <<>>
  /\ budget = [text |-> MaxText, frames |-> MaxFrames]
  /\ pending = <<>> /\ inFrame = FALSE /\ completion = "none" /\ decoding = FALSE
  /\ sudoResult = "none" /\ screen = <<>> /\ meant = <<>> /\ answers = {}

SudoTypeOK ==
  /\ asked \in {<<>>, <<"activate">>, <<"activate", "reboot">>}
  /\ ssh \in {"none", "running", "success", "failure"}
  /\ pipe \in Seq(Token) /\ pending \in Seq(Token) /\ screen \in Seq(Token)
  /\ inFrame \in BOOLEAN /\ decoding \in BOOLEAN
  /\ completion \in {"none", "0", "1"}
  /\ sudoResult \in {"none", "0", "1", "error", "ok"}

\* sudo::run up to the spawn of ssh.
RunSsh(request) ==
  /\ asked' = Append(asked, request)
  /\ ssh' = "running" /\ pipe' = <<>>
  /\ budget' = [text |-> MaxText, frames |-> MaxFrames]
  /\ pending' = <<>> /\ inFrame' = FALSE /\ completion' = "none" /\ decoding' = FALSE
  /\ sudoResult' = "none" /\ screen' = <<>> /\ meant' = <<>>
  /\ UNCHANGED answers

-----------------------------------------------------------------------------
(* The remote end and ssh *)

Echo(c) ==
  /\ ssh = "running" /\ budget.text > 0
  /\ pipe' = Append(pipe, c) /\ meant' = Append(meant, c)
  /\ budget' = [budget EXCEPT !.text = @ - 1]
  /\ UNCHANGED <<asked, ssh, decoderVars, answers, sudoResult>>

\* One line of the activator, which REMOTE_SCRIPT turns into a frame.
Respond(body) ==
  /\ ssh = "running" /\ budget.frames > 0
  /\ pipe' = pipe \o FramePrefix \o <<body, "nl">>
  /\ meant' = IF body = "output" THEN Append(meant, body) ELSE meant
  /\ answers' = IF body \in {"complete0", "complete1"}
                THEN answers \cup {<<Last(asked), body>>} ELSE answers
  /\ budget' = [budget EXCEPT !.frames = @ - 1]
  /\ UNCHANGED <<asked, ssh, decoderVars, sudoResult>>

\* ssh ends.  With success it has delivered everything; a connection that
\* breaks loses the rest.
EndSsh ==
  /\ ssh = "running"
  /\ \/ ssh' = "success" /\ pipe' = pipe
     \/ ssh' = "failure" /\ \E n \in 0..Len(pipe) : pipe' = SubSeq(pipe, 1, n)
  /\ UNCHANGED <<asked, decoderVars, remoteVars, sudoResult>>

RemoteStep == (\E c \in Text : Echo(c)) \/ (\E b \in Body : Respond(b)) \/ EndSsh

-----------------------------------------------------------------------------
(* stream and Decoder *)

Streaming == ssh # "none" /\ sudoResult = "none"

Read(n) ==
  /\ Streaming /\ ~decoding
  /\ pending' = pending \o SubSeq(pipe, 1, n)
  /\ pipe' = SubSeq(pipe, n + 1, Len(pipe))
  /\ decoding' = TRUE
  /\ UNCHANGED <<asked, ssh, inFrame, completion, screen, remoteVars, sudoResult>>

\* push or a read or a write fails, so stream does, and run asks ssh to
\* terminate.
StreamFails ==
  /\ sudoResult' = "error" /\ decoding' = FALSE /\ pending' = <<>>
  /\ ssh' = IF ssh = "running" THEN "failure" ELSE ssh
  /\ UNCHANGED <<asked, pipe, inFrame, completion, screen, remoteVars>>

\* A read of ssh's output or a write to the terminal fails, at any time.
StreamBreaks == Streaming /\ StreamFails

Consume(n) == pending' = SubSeq(pending, n + 1, Len(pending))

\* The body of a complete frame, once its newline is there.
Refused(body) ==
  \/ body = "invalid"
  \/ body # "other" /\ completion # "none"

DecodeFrame ==
  /\ decoding /\ inFrame /\ Contains(pending, "nl")
  /\ LET body == Head(pending)
     IN  IF Refused(body) THEN StreamFails
         ELSE /\ Consume(2) /\ inFrame' = FALSE
              /\ completion' = CASE body = "complete0" -> "0"
                                 [] body = "complete1" -> "1"
                                 [] OTHER -> completion
              /\ screen' = IF body = "output" THEN Append(screen, body) ELSE screen
              /\ UNCHANGED <<asked, ssh, pipe, decoding, remoteVars, sudoResult>>

HasPrefix(s) == \E i \in 1..Len(s) - 2 : SubSeq(s, i, i + 2) = FramePrefix

\* The first occurrence of the prefix: what precedes it is text.
FindPrefix ==
  /\ decoding /\ ~inFrame /\ HasPrefix(pending)
  /\ \E start \in 1..Len(pending) - 2 :
       /\ SubSeq(pending, start, start + 2) = FramePrefix
       /\ ~HasPrefix(SubSeq(pending, 1, start + 1))
       /\ screen' = screen \o SubSeq(pending, 1, start - 1)
       /\ Consume(start + 2)
  /\ inFrame' = TRUE
  /\ UNCHANGED <<asked, ssh, pipe, completion, decoding, remoteVars, sudoResult>>

\* Faulty variant of Retained: nothing is held back.
RetainedNothing(s) == 0

\* How much of the end of s may be the beginning of a prefix.
Retained(s) == Max({0} \cup {n \in 1..2 : IsSuffix(SubSeq(FramePrefix, 1, n), s)})

EmitText ==
  /\ decoding /\ ~inFrame /\ pending # <<>> /\ ~HasPrefix(pending)
  /\ LET emitted == Len(pending) - Retained(pending)
     IN  /\ screen' = screen \o SubSeq(pending, 1, emitted)
         /\ Consume(emitted)
  /\ decoding' = FALSE
  /\ UNCHANGED <<asked, ssh, pipe, inFrame, completion, remoteVars, sudoResult>>

\* push returns: the rest of a frame is not there yet, or nothing is left.
AwaitMore ==
  /\ decoding
  /\ pending = <<>> \/ (inFrame /\ ~Contains(pending, "nl"))
  /\ decoding' = FALSE
  /\ UNCHANGED <<asked, ssh, pipe, pending, inFrame, completion, screen, remoteVars, sudoResult>>

\* End of file, and finish.
FinishStream ==
  /\ Streaming /\ ~decoding /\ ssh # "running" /\ pipe = <<>>
  /\ IF inFrame THEN sudoResult' = "error" /\ UNCHANGED <<pending, screen>>
     ELSE /\ screen' = screen \o pending /\ pending' = <<>>
          /\ sudoResult' = IF completion = "none" THEN "error" ELSE completion
  /\ UNCHANGED <<asked, ssh, pipe, inFrame, completion, decoding, remoteVars>>

\* Faulty variant of RunOutcome: ssh's own status is taken for the result.
RunOutcomeOfSsh == IF ssh = "success" THEN "ok" ELSE "error"

\* The end of run: stream's error first, then ssh's status, then the exit code.
RunOutcome == IF sudoResult = "0" /\ ssh = "success" THEN "ok" ELSE "error"

WaitSsh ==
  /\ sudoResult \in {"0", "1", "error"} /\ ssh \in {"success", "failure"}
  /\ sudoResult' = RunOutcome /\ ssh' = "none"
  /\ UNCHANGED <<asked, pipe, decoderVars, remoteVars>>

DecoderStep ==
  \/ \E n \in 1..Len(pipe) : Read(n)
  \/ DecodeFrame \/ FindPrefix \/ EmitText \/ AwaitMore
  \/ FinishStream \/ WaitSsh
=============================================================================
