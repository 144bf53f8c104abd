-------------------------- MODULE GuestAgentProofs --------------------------
(***************************************************************************)
(* Proofs about the guest agent, for any number of processes, any amount   *)
(* of output and any number of connections.                                *)
(*                                                                         *)
(* NoReuse rests on the shape of the process tree: an unreaped process     *)
(* hangs below Guest or below a live process with a smaller number, so the *)
(* smallest unreaped process is a child of Guest, and waitpid's "no child" *)
(* means that nothing is left.  ExitedComplete counts every chunk once: in *)
(* the pipe, in the buffer or whole on the wire.  WireWellFormed needs to  *)
(* know when the wire ends in a part of a frame and when it ends for good. *)
(***************************************************************************)
EXTENDS GuestAgent, FiniteSetTheorems, SequenceTheorems, WellFoundedInduction, TLAPS

\* serve_connection has a command; a cleanup is under way.
Cleaning == pc \in {"killGroup", "enumerate", "kill", "reap"}
Serving == Cleaning \/ pc \in {"control", "exited", "flush", "pull"}

\* A cleanup knows where to go on, and nothing else does.
ResumeInv ==
  IF Cleaning THEN resume \in {"end", "exited", "flush"} ELSE resume = None

\* Everything unreaped hangs below the guest, each process below an older
\* live one.
Forest ==
  \A p \in Proc : Unreaped(p) =>
    \/ proc[p].parent = Guest
    \/ proc[p].parent \in Proc /\ Live(proc[p].parent) /\ proc[p].parent < p

\* CommandTree.clean and CommandTree.status tell the truth while it matters.
TreeInv ==
  /\ pc \in {"accept", "request", "report"} => tree.clean
  /\ tree.clean /\ pc # "dead" => \A p \in Proc : ~Unreaped(p)
  /\ tree.status => proc[root].state = "reaped"
  /\ Forest
  /\ KillsOwnChildren
  /\ pc # "kill" => snapshot = {}

\* The chunk of s that is buffered.
Buffered(s) == IF output = s THEN 1 ELSE 0

\* Every chunk the command wrote is in one place, a closed stream has nothing
\* to come, and the last frame is built when nothing is left.
FlowInv ==
  /\ Serving => /\ \A s \in Stream : SentOf(s) + held[s] + Buffered(s) = written[s]
                /\ \A s \in Stream \ open : held[s] = 0 /\ \A p \in Proc : ~Live(p)
  /\ terminal => /\ Serving /\ tree.clean /\ output \notin Stream
                 /\ \A s \in Stream : held[s] = 0
  /\ output = "exited" => terminal

\* What is on the wire at every point of an exchange.
FrameInv ==
  /\ pc \in {"request", "report"} => wire = <<Frame("ready", TRUE)>>
  /\ partial => Serving
  /\ Serving =>
       /\ wire # <<>> /\ wire[1] = Frame("ready", TRUE)
       /\ \A i \in DOMAIN wire : i > 1 => wire[i].kind \in Stream \cup {"exited"}
       /\ \A i \in DOMAIN wire : i < Len(wire) \/ ~partial => wire[i].whole
       /\ \A i \in DOMAIN wire : wire[i].kind = "exited" =>
            i = Len(wire) /\ (partial \/ resume = "end")
       /\ partial => /\ ~wire[Len(wire)].whole /\ wire[Len(wire)].kind = output
                     /\ output # None
  /\ WireWellFormed

GuestInv == ResumeInv /\ TreeInv /\ FlowInv /\ FrameInv

-----------------------------------------------------------------------------
(* Types *)

\* The records the agent and the command write, and the changes they make to
\* them.
LEMMA Records ==
  /\ Unborn \in ProcRec /\ Reaped \in ProcRec
  /\ [Unborn EXCEPT !.state = "live"] \in ProcRec
  /\ \A r \in ProcRec, b \in BOOLEAN : [r EXCEPT !.killed = b] \in ProcRec
  /\ \A r \in ProcRec : /\ [r EXCEPT !.parent = Guest] \in ProcRec
                        /\ [Unborn EXCEPT !.state = "zombie", !.parent = r.parent] \in ProcRec
  /\ \A r \in FrameRec, b \in BOOLEAN : [r EXCEPT !.whole = b] \in FrameRec
  /\ \A k \in Stream \cup {"ready", "exited", "error"}, b \in BOOLEAN : Frame(k, b) \in FrameRec
  /\ \A t \in TreeRec, b \in BOOLEAN :
       [t EXCEPT !.clean = b] \in TreeRec /\ [t EXCEPT !.status = b] \in TreeRec
  /\ \A a, b \in BOOLEAN : [status |-> a, clean |-> b] \in TreeRec
<1>1. /\ Unborn \in ProcRec /\ Reaped \in ProcRec
      /\ [Unborn EXCEPT !.state = "live"] \in ProcRec
  BY DEF Unborn, Reaped, ProcRec
<1>2. /\ \A r \in ProcRec, b \in BOOLEAN : [r EXCEPT !.killed = b] \in ProcRec
      /\ \A r \in ProcRec : [r EXCEPT !.parent = Guest] \in ProcRec
  BY DEF ProcRec
<1>3. \A r \in ProcRec : [Unborn EXCEPT !.state = "zombie", !.parent = r.parent] \in ProcRec
  BY DEF ProcRec, Unborn
<1>4. \A r \in FrameRec, b \in BOOLEAN : [r EXCEPT !.whole = b] \in FrameRec
  BY DEF FrameRec
<1>5. \A k \in Stream \cup {"ready", "exited", "error"}, b \in BOOLEAN : Frame(k, b) \in FrameRec
  BY DEF FrameRec, Frame
<1>6. \A t \in TreeRec, b \in BOOLEAN :
       [t EXCEPT !.clean = b] \in TreeRec /\ [t EXCEPT !.status = b] \in TreeRec
  BY DEF TreeRec
<1>7. \A a, b \in BOOLEAN : [status |-> a, clean |-> b] \in TreeRec
  BY DEF TreeRec
<1> QED BY <1>1, <1>2, <1>3, <1>4, <1>5, <1>6, <1>7

\* Sequences of one and of two elements.
LEMMA SeqOfOne == ASSUME NEW S, NEW x \in S PROVE <<x>> \in Seq(S)
OBVIOUS

LEMMA SeqOfTwo == ASSUME NEW x, NEW y PROVE Append(<<x>>, y) = <<x, y>>
<1> DEFINE S == {x, y}
<1>1. <<x>> \in Seq(S) /\ Len(<<x>>) = 1 /\ <<x, y>> \in Seq(S) /\ Len(<<x, y>>) = 2
  OBVIOUS
<1>2. /\ Append(<<x>>, y) \in Seq(S) /\ Len(Append(<<x>>, y)) = 2
      /\ Append(<<x>>, y)[1] = x /\ Append(<<x>>, y)[2] = y
  BY <1>1, AppendProperties
<1>3. <<x, y>>[1] = x /\ <<x, y>>[2] = y
  OBVIOUS
<1>4. \A i \in 1..2 : Append(<<x>>, y)[i] = <<x, y>>[i]
  BY <1>2, <1>3
<1> QED BY <1>1, <1>2, <1>4, SeqEqual

\* A signal is marked in the record of the process, and changes nothing else.
LEMMA KilledType ==
  ASSUME GuestTypeOK, NEW hit \in [Proc -> BOOLEAN]
  PROVE  [p \in Proc |-> [proc[p] EXCEPT !.killed = @ \/ hit[p]]] \in [Proc -> ProcRec]
<1>1. ASSUME NEW p \in Proc PROVE [proc[p] EXCEPT !.killed = @ \/ hit[p]] \in ProcRec
  <2>1. proc[p] \in ProcRec /\ proc[p].killed \in BOOLEAN
    BY DEF GuestTypeOK, ProcRec
  <2> QED BY <2>1, Records
<1> QED BY <1>1

\* serve_connection's end leaves well-typed state.
LEMMA LeaveType ==
  ASSUME GuestTypeOK, NEW where \in {"accept", "dead"}, Leave(where),
         failed' \in BOOLEAN, proc' = proc, wire' \in Seq(FrameRec)
  PROVE  GuestTypeOK'
<1>1. tree' \in TreeRec
  BY Records DEF Leave
<1>2. inbox' \in Seq(Piece) /\ written' \in [Stream -> Nat] /\ held' \in [Stream -> Nat]
  BY DEF Leave
<1> QED BY <1>1, <1>2 DEF GuestTypeOK, Leave

\* What Send makes of the wire.
LEMMA SendType ==
  ASSUME GuestTypeOK, output # None, NEW b \in BOOLEAN
  PROVE  Send(output, b) \in Seq(FrameRec)
<1>1. wire \in Seq(FrameRec) /\ Frame(output, b) \in FrameRec
  BY Records DEF GuestTypeOK
<1>2. ASSUME partial PROVE [wire EXCEPT ![Len(wire)].whole = b] \in Seq(FrameRec)
  <2> DEFINE w == [wire EXCEPT ![Len(wire)] = [wire[Len(wire)] EXCEPT !.whole = b]]
  <2>1. CASE Len(wire) \in 1..Len(wire)
    <3>1. wire[Len(wire)] \in FrameRec
      BY <1>1, <2>1, ElementOfSeq
    <3>2. [wire[Len(wire)] EXCEPT !.whole = b] \in FrameRec
      BY <3>1, Records
    <3> QED BY <1>1, <2>1, <3>2, ExceptSeq
  <2>2. CASE Len(wire) \notin 1..Len(wire)
    <3>1. w = wire
      BY <1>1, <2>2
    <3> QED BY <1>1, <3>1
  <2> QED BY <2>1, <2>2
<1> QED BY <1>1, <1>2 DEF Send

\* Every step keeps the types.
LEMMA TypeStep == GuestTypeOK /\ ResumeInv /\ [Next]_vars => GuestTypeOK'
<1> SUFFICES ASSUME GuestTypeOK, ResumeInv, [Next]_vars PROVE GuestTypeOK'
  OBVIOUS
<1>1. CASE Accept
  <2>1. CASE failed' = TRUE /\ Leave("dead") /\ UNCHANGED <<wire, proc>>
    BY <2>1, LeaveType DEF GuestTypeOK
  <2>2. CASE pc' = "request"
    <3>1. Frame("ready", TRUE) \in FrameRec
      BY Records
    <3>2. <<Frame("ready", TRUE)>> \in Seq(FrameRec)
      BY <3>1, SeqOfOne
    <3>3. pc = "accept" /\ hostOpen' = TRUE /\ wire' = <<Frame("ready", TRUE)>>
          /\ UNCHANGED <<resume, failed, version, inbox, control, treeVars, pipeVars, open,
                       output, partial, terminal, proc>>
      BY <1>1, <2>2 DEF Accept, Leave
    <3> QED BY <2>2, <3>2, <3>3 DEF GuestTypeOK, treeVars, pipeVars
  <2> QED BY <1>1, <2>1, <2>2 DEF Accept
<1>2. CASE Request
  BY <1>2 DEF Request, GuestTypeOK, treeVars, pipeVars, ioVars
<1>3. CASE Spawn
  <2>1. PICK p \in Proc : /\ root' = p
          /\ proc' = [q \in Proc |-> IF q = p THEN [Unborn EXCEPT !.state = "live"]
                                     ELSE IF Unreaped(q) THEN proc[q] ELSE Unborn]
    BY <1>3 DEF Spawn
  <2>2. proc' \in [Proc -> ProcRec]
    BY <2>1, Records DEF GuestTypeOK
  <2>3. inbox \in Seq(Piece) /\ inbox # <<>> /\ inbox' = Tail(inbox)
    BY <1>3 DEF Spawn, GuestTypeOK
  <2>4. inbox' \in Seq(Piece) /\ tree' \in TreeRec
    <3>1. inbox' \in Seq(Piece)
      BY <2>3, HeadTailProperties
    <3>2. tree' \in TreeRec
      BY <1>3, Records DEF Spawn
    <3> QED BY <3>1, <3>2
  <2>5. written' \in [Stream -> Nat] /\ held' \in [Stream -> Nat]
    BY <1>3 DEF Spawn
  <2> QED BY <1>3, <2>1, <2>2, <2>4, <2>5 DEF Spawn, GuestTypeOK
<1>4. CASE Report
  <2>1. Frame("error", TRUE) \in FrameRec
    BY Records
  <2>2. wire' \in Seq(FrameRec)
    BY <1>4, <2>1, AppendProperties DEF Report, GuestTypeOK
  <2> QED BY <1>4, <2>2, LeaveType, ZenonT(60) DEF Report, GuestTypeOK
<1>5. CASE Control
  <2>1. inbox' \in Seq(Piece)
    BY <1>5, HeadTailProperties, ZenonT(60) DEF Control, GuestTypeOK
  <2>2. /\ pc' \in {"control", "exited", "killGroup"} /\ control' \in {"header", "body"}
        /\ resume' \in {resume, "end", "exited"}
    BY <1>5 DEF Control, EndRun, GuestTypeOK
  <2> QED BY <1>5, <2>1, <2>2 DEF Control, GuestTypeOK, treeVars, pipeVars
<1>6. CASE RootExited
  <2>1. proc' \in [Proc -> ProcRec] /\ tree' \in TreeRec
    BY <1>6, Records DEF RootExited, GuestTypeOK
  <2> QED BY <1>6, <2>1 DEF RootExited, GuestTypeOK, connVars, pipeVars
<1>7. CASE Flush
  <2>1. pc = "flush" /\ pc' \in {"pull", "killGroup"} /\ resume' \in {resume, "end"}
        /\ output' \in {output, None} /\ partial' \in BOOLEAN
        /\ (wire' = wire \/ (output # None /\ \E b \in BOOLEAN : wire' = Send(output, b)))
    BY <1>7 DEF Flush, EndRun, GuestTypeOK
  <2>2. wire' \in Seq(FrameRec)
    BY <2>1, SendType DEF GuestTypeOK
  <2> QED BY <1>7, <2>1, <2>2 DEF Flush, GuestTypeOK, connVars, treeVars, pipeVars
<1>8. CASE Pull
  <2>1. CASE terminal \/ output # None
    BY <1>8, <2>1 DEF Pull, GuestTypeOK, connVars, treeVars
  <2>2. CASE ~(terminal \/ output # None)
    <3>1. PICK out \in Stream \cup {None}, left \in SUBSET open :
            /\ out # None => HasData(out)
            /\ open' = left
            /\ held' = [s \in Stream |-> IF s = out THEN held[s] - 1 ELSE held[s]]
            /\ terminal' = Drained(left, out)
            /\ output' = IF Drained(left, out) THEN "exited" ELSE out
      <4>1. PICK first \in Stream :
              LET second == CHOOSE s \in Stream : s # first
                  out    == IF HasData(first) THEN first ELSE IF HasData(second) THEN second ELSE None
                  left   == open \ {s \in Stream : AtEof(s) /\ (s = first \/ ~HasData(first))}
              IN
              /\ open' = left
              /\ held' = [s \in Stream |-> IF s = out THEN held[s] - 1 ELSE held[s]]
              /\ terminal' = Drained(left, out)
              /\ output' = IF Drained(left, out) THEN "exited" ELSE out
        BY <1>8, <2>2 DEF Pull
      <4>2. (CHOOSE s \in Stream : s # first) \in Stream
        BY DEF Stream
      <4> QED BY <4>1, <4>2
    <3>2. held' \in [Stream -> Nat]
      <4>1. ASSUME NEW s \in Stream PROVE held'[s] \in Nat
        <5>1. held[s] \in Nat
          BY DEF GuestTypeOK
        <5> QED BY <3>1, <5>1 DEF HasData, Stream, None
      <4> QED BY <3>1, <4>1
    <3>3. Drained(left, out) \in BOOLEAN
      BY DEF Drained, GuestTypeOK
    <3> QED BY <1>8, <2>2, <3>1, <3>2, <3>3 DEF Pull, GuestTypeOK, connVars, treeVars
  <2> QED BY <2>1, <2>2
<1>9. CASE RunError
  BY <1>9 DEF RunError, EndRun, GuestTypeOK, connVars, treeVars, pipeVars, ioVars
<1>10. ASSUME NEW after \in TreeRec, Return(after),
              failed' = failed, wire' = wire, proc' = proc,
              pc \in {"killGroup", "reap"}
       PROVE  GuestTypeOK'
  <2>1. CASE resume = "end" /\ Leave("accept")
    BY <1>10, <2>1, LeaveType DEF GuestTypeOK
  <2>2. CASE resume # "end"
    BY <1>10, <2>2 DEF Return, GuestTypeOK, connVars, pipeVars, ResumeInv, Cleaning
  <2> QED BY <1>10, <2>1, <2>2 DEF Return
<1>11. CASE KillGroup
  <2>1. CASE tree.clean
    BY <1>10, <1>11, <2>1 DEF KillGroup, GuestTypeOK
  <2>2. CASE ~tree.clean
    <3>1. proc' = [p \in Proc |->
            [proc[p] EXCEPT !.killed = @ \/ (Live(p) /\ proc[p].group /\ ~tree.status)]]
      BY <1>11, <2>2 DEF KillGroup
    <3>2. proc' \in [Proc -> ProcRec]
      <4> DEFINE hit == [p \in Proc |-> Live(p) /\ proc[p].group /\ ~tree.status]
      <4>1. hit \in [Proc -> BOOLEAN]
        BY DEF Live
      <4>2. proc' = [p \in Proc |-> [proc[p] EXCEPT !.killed = @ \/ hit[p]]]
        BY <3>1
      <4> HIDE DEF hit
      <4> QED BY <4>1, <4>2, KilledType
    <3> QED BY <1>11, <2>2, <3>2 DEF KillGroup, GuestTypeOK, connVars, treeVars, pipeVars
  <2> QED BY <2>1, <2>2
<1>12. CASE Enumerate
  BY <1>12 DEF Enumerate, Children, GuestTypeOK, connVars, pipeVars, ioVars
<1>13. CASE Kill
  <2>1. proc' = [p \in Proc |-> [proc[p] EXCEPT !.killed = @ \/ (p \in snapshot /\ Live(p))]]
    BY <1>13 DEF Kill
  <2>2. proc' \in [Proc -> ProcRec]
    <3> DEFINE hit == [p \in Proc |-> p \in snapshot /\ Live(p)]
    <3>1. hit \in [Proc -> BOOLEAN]
      BY DEF Live
    <3>2. proc' = [p \in Proc |-> [proc[p] EXCEPT !.killed = @ \/ hit[p]]]
      BY <2>1
    <3> HIDE DEF hit
    <3> QED BY <3>1, <3>2, KilledType
  <2> QED BY <1>13, <2>2 DEF Kill, GuestTypeOK, connVars, pipeVars, ioVars
<1>14. CASE Reap
  <2>1. ASSUME NEW p \in Children, proc' = [proc EXCEPT ![p] = Reaped],
               tree' = [tree EXCEPT !.status = @ \/ p = root],
               UNCHANGED <<pc, resume, failed, connVars, root, snapshot, pipeVars,
                           open, output, partial, terminal, wire>>
        PROVE  GuestTypeOK'
    <3>1. proc' \in [Proc -> ProcRec] /\ tree' \in TreeRec
      BY <2>1, Records DEF GuestTypeOK, Children
    <3> QED BY <2>1, <3>1 DEF GuestTypeOK, connVars, pipeVars
  <2>2. CASE pc' = "enumerate" /\ UNCHANGED <<resume, failed, proc, tree, connVars, root,
                        snapshot, pipeVars, open, output, partial, terminal, wire>>
    BY <2>2 DEF GuestTypeOK, connVars, pipeVars
  <2>3. CASE Return([tree EXCEPT !.clean = TRUE]) /\ UNCHANGED <<failed, proc, wire>>
    <3>1. [tree EXCEPT !.clean = TRUE] \in TreeRec
      BY Records DEF GuestTypeOK
    <3> QED BY <1>10, <1>14, <2>3, <3>1 DEF Reap
  <2>4. CASE failed' = TRUE /\ Leave("dead") /\ UNCHANGED <<proc, wire>>
    BY <2>4, LeaveType DEF GuestTypeOK
  <2> QED BY <1>14, <2>1, <2>2, <2>3, <2>4 DEF Reap
<1>15. CASE Deadline
  BY <1>15, LeaveType DEF Deadline, GuestTypeOK
<1>16. CASE HostWrite
  BY <1>16 DEF HostWrite, GuestTypeOK, guestVars, treeVars, pipeVars, ioVars
<1>17. CASE HostClose
  BY <1>17, ZenonT(60) DEF HostClose, GuestTypeOK, guestVars, treeVars, pipeVars, ioVars
<1>18. ASSUME NEW p \in Proc, NEW q \in Proc, Fork(p, q) PROVE GuestTypeOK'
  <2>1. PICK g \in {FALSE, proc[p].group} :
          proc' = [proc EXCEPT ![q] = [state |-> "live", parent |-> p, group |-> g, killed |-> FALSE]]
    BY <1>18 DEF Fork
  <2>2. [state |-> "live", parent |-> p, group |-> g, killed |-> FALSE] \in ProcRec
    <3>1. proc[p] \in ProcRec
      BY DEF GuestTypeOK
    <3> QED BY <3>1 DEF ProcRec
  <2>3. proc' \in [Proc -> ProcRec]
    BY <2>1, <2>2 DEF GuestTypeOK
  <2> QED BY <1>18, <2>3 DEF Fork, GuestTypeOK, guestVars, connVars, treeVars, pipeVars, ioVars
<1>19. ASSUME NEW p \in Proc, Exit(p) PROVE GuestTypeOK'
  <2>1. proc' \in [Proc -> ProcRec]
    BY <1>19, Records DEF Exit, GuestTypeOK
  <2> QED BY <1>19, <2>1 DEF Exit, GuestTypeOK, guestVars, connVars, treeVars, pipeVars, ioVars
<1>20. ASSUME NEW p \in Proc, Collect(p) PROVE GuestTypeOK'
  <2>1. proc' \in [Proc -> ProcRec]
    BY <1>20, Records DEF Collect, GuestTypeOK
  <2> QED BY <1>20, <2>1 DEF Collect, GuestTypeOK, guestVars, connVars, treeVars, pipeVars, ioVars
<1>21. ASSUME NEW s \in Stream, WriteOut(s) PROVE GuestTypeOK'
  BY <1>21 DEF WriteOut, GuestTypeOK, guestVars, connVars, treeVars, ioVars
<1>22. CASE UNCHANGED vars
  BY <1>22 DEF vars, GuestTypeOK, guestVars, connVars, treeVars, pipeVars, ioVars
<1> QED
  BY <1>1, <1>2, <1>3, <1>4, <1>5, <1>6, <1>7, <1>8, <1>9, <1>11, <1>12, <1>13, <1>14, <1>15,
     <1>16, <1>17, <1>18, <1>19, <1>20, <1>21, <1>22 DEF Next, Agent, Command

-----------------------------------------------------------------------------
(* Where a cleanup goes on *)

LEMMA ResumeStep == GuestTypeOK /\ ResumeInv /\ [Next]_vars => ResumeInv'
<1> SUFFICES ASSUME GuestTypeOK, ResumeInv, [Next]_vars PROVE ResumeInv'
  OBVIOUS
<1> USE DEF ResumeInv, Cleaning
<1>1. ASSUME NEW where \in {"accept", "dead"}, Leave(where) PROVE ResumeInv'
  BY <1>1 DEF Leave
<1>2. ASSUME NEW after, Return(after), Cleaning PROVE ResumeInv'
  BY <1>1, <1>2 DEF Return
<1>3. CASE Accept \/ Request \/ Spawn \/ Report
  BY <1>1, <1>3 DEF Accept, Request, Spawn, Report
<1>4. CASE Control \/ RootExited \/ Flush \/ Pull \/ RunError
  BY <1>4 DEF Control, RootExited, Flush, Pull, RunError, EndRun
<1>5. CASE KillGroup \/ Enumerate \/ Kill
  BY <1>2, <1>5 DEF KillGroup, Enumerate, Kill
<1>6. CASE Reap \/ Deadline
  BY <1>1, <1>2, <1>6 DEF Reap, Deadline
<1>7. CASE HostWrite \/ HostClose
  BY <1>7 DEF HostWrite, HostClose, guestVars
<1>8. CASE Command
  BY <1>8 DEF Command, Fork, Exit, Collect, WriteOut, guestVars
<1>9. CASE UNCHANGED vars
  BY <1>9 DEF vars, guestVars
<1> QED BY <1>3, <1>4, <1>5, <1>6, <1>7, <1>8, <1>9 DEF Next, Agent

-----------------------------------------------------------------------------
(* The process tree *)

\* A non-empty set of natural numbers has a least element.
LEMMA Least ==
  ASSUME NEW T, T \subseteq Nat, T # {}
  PROVE  \E x \in T : \A y \in T : ~(y < x)
<1>1. \E x \in T : \A y \in T : ~(<<y, x>> \in OpToRel(<, Nat))
  BY NatLessThanWellFounded, WFMin, Zenon
<1> QED BY <1>1 DEF OpToRel

\* waitpid's ECHILD says more than it seems to: without a child of the guest
\* no process of the command is left at all, since every other one would
\* descend from a child.
LEMMA NothingLeft ==
  ASSUME GuestTypeOK, Forest, NoChildLeft
  PROVE  \A p \in Proc : ~Unreaped(p)
<1> DEFINE T == {p \in Proc : Unreaped(p)}
<1>1. ASSUME T # {} PROVE FALSE
  <2>1. T \subseteq Nat
    BY GuestAssumption
  <2>2. PICK x \in T : \A y \in T : ~(y < x)
    BY <1>1, <2>1, Least
  <2>3. proc[x].parent # Guest
    BY <2>2 DEF NoChildLeft, Children
  <2>4. proc[x].parent \in T /\ proc[x].parent < x
    BY <2>2, <2>3 DEF Forest, Live, Unreaped
  <2> QED BY <2>2, <2>4
<1> QED BY <1>1

\* What a step keeps if it changes neither states nor parents of processes.
LEMMA SameShape ==
  ASSUME GuestTypeOK, TreeInv, GuestTypeOK',
         \A p \in Proc : /\ proc'[p].state = proc[p].state
                         /\ proc'[p].parent = proc[p].parent
  PROVE  /\ \A p \in Proc : Unreaped(p)' <=> Unreaped(p)
         /\ Forest'
         /\ \A p \in snapshot : Unreaped(p)' /\ proc'[p].parent = Guest
         /\ tree.status => proc'[root].state = "reaped"
<1>1. \A p \in Proc : (Unreaped(p)' <=> Unreaped(p)) /\ (Live(p)' <=> Live(p))
  BY DEF Unreaped, Live
<1>2. Forest'
  BY <1>1 DEF Forest, TreeInv
<1> QED BY <1>1, <1>2 DEF TreeInv, KillsOwnChildren, GuestTypeOK

\* A connection ends with nothing left, or the agent stops.
LEMMA LeaveTree ==
  ASSUME GuestTypeOK, TreeInv, NEW where \in {"accept", "dead"}, Leave(where), proc' = proc,
         where = "accept" => \A p \in Proc : ~Unreaped(p)
  PROVE  TreeInv'
BY DEF TreeInv, Leave, Forest, KillsOwnChildren, Unreaped, Live

\* Steps that leave the tree alone.
LEMMA QuietTree ==
  ASSUME TreeInv, UNCHANGED <<proc, treeVars>>, pc # "dead",
         (pc' # "kill" /\ pc # "kill") \/ pc' = pc,
         pc' \in {"accept", "request", "report"} => tree.clean
  PROVE  TreeInv'
BY DEF TreeInv, Forest, KillsOwnChildren, Unreaped, Live, treeVars

LEMMA TreeStep ==
  GuestTypeOK /\ GuestTypeOK' /\ ResumeInv /\ TreeInv /\ [Next]_vars => TreeInv'
<1> SUFFICES ASSUME GuestTypeOK, GuestTypeOK', ResumeInv, TreeInv, [Next]_vars PROVE TreeInv'
  OBVIOUS
<1>1. CASE Accept
  BY <1>1, LeaveTree, QuietTree DEF Accept, TreeInv
<1>2. CASE Request
  BY <1>2, QuietTree DEF Request, TreeInv
<1>3. CASE Spawn
  <2>1. \A p \in Proc : ~Unreaped(p)
    BY <1>3 DEF Spawn, TreeInv
  <2>2. PICK p \in Proc : /\ root' = p
          /\ proc' = [q \in Proc |-> IF q = p THEN [Unborn EXCEPT !.state = "live"]
                                     ELSE IF Unreaped(q) THEN proc[q] ELSE Unborn]
    BY <1>3 DEF Spawn
  <2>3. \A q \in Proc : proc'[q].parent = Guest
    BY <2>1, <2>2 DEF Unborn
  <2>4. Forest'
    BY <2>3 DEF Forest
  <2> QED BY <1>3, <2>4 DEF Spawn, TreeInv, KillsOwnChildren
<1>4. CASE Report
  <2>1. \A p \in Proc : ~Unreaped(p)
    BY <1>4 DEF Report, TreeInv
  <2> QED BY <1>4, <2>1, LeaveTree DEF Report
<1>5. CASE Control
  BY <1>5, QuietTree DEF Control, EndRun
<1>6. CASE RootExited
  <2>1. CASE ~(~tree.clean /\ (tree.status \/ proc[root].state = "zombie"))
    BY <1>6, <2>1, QuietTree DEF RootExited, treeVars
  <2>2. CASE ~tree.clean /\ (tree.status \/ proc[root].state = "zombie")
    <3>1. /\ proc' = [proc EXCEPT ![root] = Reaped] /\ tree' = [tree EXCEPT !.status = TRUE]
          /\ pc = "exited" /\ pc' = "killGroup" /\ UNCHANGED <<root, snapshot>>
      BY <1>6, <2>2 DEF RootExited
    <3>2. root \in Proc /\ ~Live(root) /\ proc \in [Proc -> ProcRec] /\ tree \in TreeRec
      BY <2>2 DEF TreeInv, Live, GuestTypeOK
    <3>3. /\ proc'[root].state = "reaped"
          /\ \A q \in Proc : q # root => proc'[q] = proc[q]
      BY <3>1, <3>2 DEF Reaped, Unborn
    <3>4. Forest'
      <4>1. ASSUME NEW q \in Proc, Unreaped(q)' PROVE q # root /\ proc'[q] = proc[q] /\ Unreaped(q)
        BY <3>3, <4>1 DEF Unreaped
      <4>2. ASSUME NEW q \in Proc, Live(q) PROVE Live(q)'
        BY <3>2, <3>3, <4>2 DEF Live
      <4> QED BY <4>1, <4>2 DEF Forest, TreeInv
    <3>5. ~tree'.clean /\ snapshot' = {}
      BY <2>2, <3>1, <3>2 DEF TreeInv, TreeRec
    <3> QED BY <3>1, <3>3, <3>4, <3>5 DEF TreeInv, KillsOwnChildren
  <2> QED BY <2>1, <2>2
<1>7. CASE Flush
  BY <1>7, QuietTree DEF Flush, EndRun
<1>8. CASE Pull
  BY <1>8, QuietTree DEF Pull
<1>9. CASE RunError
  BY <1>9, QuietTree DEF RunError, EndRun
<1>10. ASSUME NEW after \in TreeRec, Return(after), proc' = proc, pc \in {"killGroup", "reap"},
              \A p \in Proc : ~Unreaped(p), after.status => tree.status
       PROVE  TreeInv'
  <2>1. CASE resume = "end" /\ Leave("accept")
    BY <1>10, <2>1, LeaveTree
  <2>2. CASE resume # "end"
    <3>1. pc' \in {"exited", "flush"} /\ tree' = after /\ UNCHANGED <<root, snapshot>>
      BY <1>10, <2>2 DEF Return, ResumeInv, Cleaning
    <3> QED BY <1>10, <3>1 DEF TreeInv, Forest, KillsOwnChildren, Unreaped, Live
  <2> QED BY <1>10, <2>1, <2>2 DEF Return
<1>11. CASE KillGroup
  <2>1. CASE tree.clean
    <3>1. \A p \in Proc : ~Unreaped(p)
      BY <1>11, <2>1 DEF KillGroup, TreeInv
    <3>2. Return(tree) /\ proc' = proc /\ pc = "killGroup" /\ tree \in TreeRec
      BY <1>11, <2>1 DEF KillGroup, GuestTypeOK
    <3> QED BY <1>10, <3>1, <3>2
  <2>2. CASE ~tree.clean
    <3>1. \A p \in Proc : /\ proc'[p].state = proc[p].state
                          /\ proc'[p].parent = proc[p].parent
      BY <1>11, <2>2 DEF KillGroup, GuestTypeOK, ProcRec
    <3> QED BY <1>11, <2>2, <3>1, SameShape DEF KillGroup, TreeInv, treeVars, KillsOwnChildren
  <2> QED BY <2>1, <2>2
<1>12. CASE Enumerate
  BY <1>12 DEF Enumerate, TreeInv, Forest, KillsOwnChildren, Children, Unreaped, Live
<1>13. CASE Kill
  <2>1. \A p \in Proc : /\ proc'[p].state = proc[p].state
                        /\ proc'[p].parent = proc[p].parent
    BY <1>13 DEF Kill, GuestTypeOK, ProcRec
  <2> QED BY <1>13, <2>1, SameShape DEF Kill, TreeInv, KillsOwnChildren
<1>14. CASE Reap
  <2>1. ASSUME NEW p \in Children, proc[p].state = "zombie", proc' = [proc EXCEPT ![p] = Reaped],
               tree' = [tree EXCEPT !.status = @ \/ p = root], UNCHANGED <<pc, root, snapshot>>
        PROVE  TreeInv'
    <3>1. p \in Proc /\ ~Live(p) /\ proc \in [Proc -> ProcRec] /\ tree \in TreeRec
      BY <2>1 DEF Children, Live, GuestTypeOK
    <3>2. /\ proc'[p].state = "reaped"
          /\ \A q \in Proc : q # p => proc'[q] = proc[q]
      BY <2>1, <3>1 DEF Reaped, Unborn
    <3>3. Forest'
      <4>1. ASSUME NEW q \in Proc, Unreaped(q)' PROVE q # p /\ proc'[q] = proc[q] /\ Unreaped(q)
        BY <3>2, <4>1 DEF Unreaped
      <4>2. ASSUME NEW q \in Proc, Live(q) PROVE Live(q)'
        BY <3>1, <3>2, <4>2 DEF Live
      <4> QED BY <4>1, <4>2 DEF Forest, TreeInv
    <3>4. tree'.clean = tree.clean /\ (tree'.status => tree.status \/ p = root) /\ snapshot = {}
      BY <1>14, <2>1, <3>1 DEF TreeInv, TreeRec, Reap
    <3>5. tree'.status => proc'[root].state = "reaped"
      BY <3>2, <3>4 DEF TreeInv, GuestTypeOK
    <3>6. \A q \in Proc : Unreaped(q)' => Unreaped(q)
      BY <3>2 DEF Unreaped
    <3> QED BY <1>14, <2>1, <3>3, <3>4, <3>5, <3>6 DEF Reap, TreeInv, KillsOwnChildren
  <2>2. CASE pc' = "enumerate" /\ UNCHANGED <<proc, tree, root, snapshot>>
    BY <1>14, <2>2, QuietTree DEF Reap, treeVars
  <2>3. CASE NoChildLeft /\ Return([tree EXCEPT !.clean = TRUE]) /\ UNCHANGED proc
    <3>1. [tree EXCEPT !.clean = TRUE] \in TreeRec /\ [tree EXCEPT !.clean = TRUE].status = tree.status
      BY Records DEF GuestTypeOK, TreeRec
    <3>2. \A p \in Proc : ~Unreaped(p)
      BY <2>3, NothingLeft DEF TreeInv
    <3> QED BY <1>10, <1>14, <2>3, <3>1, <3>2 DEF Reap
  <2>4. CASE Leave("dead") /\ UNCHANGED proc
    BY <2>4, LeaveTree
  <2> QED BY <1>14, <2>1, <2>2, <2>3, <2>4 DEF Reap
<1>15. CASE Deadline
  BY <1>15, LeaveTree DEF Deadline
<1>16. CASE HostWrite \/ HostClose
  BY <1>16, QuietTree DEF HostWrite, HostClose, guestVars, TreeInv
<1>17. ASSUME NEW p \in Proc, NEW q \in Proc, Fork(p, q), pc # "dead" PROVE TreeInv'
  <2>1. /\ proc'[q].state = "live" /\ proc'[q].parent = p
        /\ \A r \in Proc : r # q => proc'[r] = proc[r]
    BY <1>17 DEF Fork, GuestTypeOK
  <2>2. Live(p) /\ proc[q].state = "unborn" /\ q > p /\ p # q
    BY <1>17, GuestAssumption DEF Fork, Live
  <2>3. \A r \in Proc : Live(r) => Live(r)'
    BY <2>1, <2>2 DEF Live
  <2>4. Forest'
    <3>1. ASSUME NEW r \in Proc, Unreaped(r)', r # q PROVE Unreaped(r) /\ proc'[r] = proc[r]
      BY <2>1, <3>1 DEF Unreaped
    <3>2. p < q /\ Live(p)'
      BY <2>2, <2>3, GuestAssumption
    <3> QED BY <2>1, <2>3, <3>1, <3>2 DEF Forest, TreeInv
  <2>5. \A r \in snapshot : r # q
    BY <2>2 DEF TreeInv, KillsOwnChildren, Unreaped
  <2>6. ~tree.clean /\ (tree.status => root # q)
    BY <1>17, <2>2 DEF TreeInv, Unreaped, Live
  <2> QED BY <1>17, <2>1, <2>4, <2>5, <2>6
    DEF Fork, TreeInv, KillsOwnChildren, Unreaped, guestVars, treeVars, GuestTypeOK
<1>18. ASSUME NEW p \in Proc, Exit(p), pc # "dead" PROVE TreeInv'
  <2>1. /\ proc'[p].state = "zombie" /\ proc'[p].parent = proc[p].parent
        /\ \A r \in Proc \ {p} : /\ proc'[r].state = proc[r].state
                                 /\ proc'[r].parent = IF proc[r].parent = p THEN Guest ELSE proc[r].parent
    BY <1>18 DEF Exit, GuestTypeOK, ProcRec, Unborn
  <2>2. Live(p)
    BY <1>18 DEF Exit
  <2>3. \A r \in Proc : Unreaped(r)' <=> Unreaped(r)
    BY <2>1, <2>2 DEF Unreaped, Live
  <2>4. Forest'
    <3>1. \A r \in Proc : Live(r) /\ r # p => Live(r)'
      BY <2>1 DEF Live
    <3>2. proc[p].parent # p
      BY <2>2, GuestAssumption DEF TreeInv, Forest, Unreaped, Live
    <3> QED BY <2>1, <2>2, <2>3, <3>1, <3>2 DEF Forest, TreeInv
  <2>5. ~tree.clean /\ (tree.status => root # p)
    BY <1>18, <2>2 DEF TreeInv, Unreaped, Live
  <2>6. \A r \in snapshot : Unreaped(r)' /\ proc'[r].parent = Guest
    BY <2>1, <2>3 DEF TreeInv, KillsOwnChildren, GuestTypeOK
  <2> QED BY <1>18, <2>1, <2>4, <2>5, <2>6, ZenonT(60)
    DEF Exit, TreeInv, KillsOwnChildren, guestVars, treeVars, GuestTypeOK
<1>19. ASSUME NEW p \in Proc, Collect(p), pc # "dead" PROVE TreeInv'
  <2>1. /\ proc'[p].state = "reaped"
        /\ \A r \in Proc : r # p => proc'[r] = proc[r]
    BY <1>19 DEF Collect, GuestTypeOK, Reaped, Unborn
  <2>2. proc[p].state = "zombie" /\ p \notin snapshot
    BY <1>19 DEF Collect, TreeInv, KillsOwnChildren
  <2>3. \A r \in Proc : /\ Live(r) => Live(r)'
                        /\ Unreaped(r)' => Unreaped(r) /\ r # p
    BY <2>1, <2>2 DEF Live, Unreaped
  <2>4. Forest'
    BY <2>1, <2>3 DEF Forest, TreeInv
  <2>5. \A r \in snapshot : proc'[r] = proc[r]
    BY <2>1, <2>2 DEF GuestTypeOK
  <2> QED BY <1>19, <2>1, <2>2, <2>3, <2>4, <2>5
    DEF Collect, TreeInv, KillsOwnChildren, Unreaped, guestVars, treeVars, GuestTypeOK
<1>20. ASSUME NEW s \in Stream, WriteOut(s), pc # "dead" PROVE TreeInv'
  BY <1>20, QuietTree DEF WriteOut, guestVars, TreeInv
<1>21. CASE UNCHANGED vars
  BY <1>21 DEF vars, guestVars, treeVars, TreeInv, Forest, KillsOwnChildren, Unreaped, Live
<1> QED
  BY <1>1, <1>2, <1>3, <1>4, <1>5, <1>6, <1>7, <1>8, <1>9, <1>11, <1>12, <1>13, <1>14, <1>15,
     <1>16, <1>17, <1>18, <1>19, <1>20, <1>21 DEF Next, Agent, Command

-----------------------------------------------------------------------------
(* The wire *)

\* Output.flush only touches the end of the wire: the buffered frame is the
\* last one there, and all others are whole.
LEMMA SendFrames ==
  ASSUME GuestTypeOK, Serving, FrameInv, output # None, NEW b \in BOOLEAN,
         NEW w, w = Send(output, b),
         NEW n, n = IF partial THEN Len(wire) ELSE Len(wire) + 1
  PROVE  /\ w \in Seq(FrameRec) /\ n \in Nat /\ n > 1 /\ Len(w) = n
         /\ w[n].kind = output /\ (w[n].whole <=> b)
         /\ \A i \in 1..n - 1 : i \in 1..Len(wire) /\ w[i] = wire[i] /\ wire[i].whole
<1>1. wire \in Seq(FrameRec) /\ wire # <<>> /\ Len(wire) \in Nat /\ Len(wire) > 0
      /\ DOMAIN wire = 1..Len(wire)
  BY DEF GuestTypeOK, FrameInv
<1>2. w \in Seq(FrameRec)
  BY SendType
<1>3. CASE ~partial
  <2>1. w = Append(wire, Frame(output, b)) /\ n = Len(wire) + 1
    BY <1>3 DEF Send
  <2>2. Frame(output, b) \in FrameRec
    BY Records DEF GuestTypeOK
  <2>3. Len(w) = n /\ w[n] = Frame(output, b) /\ \A i \in 1..n - 1 : w[i] = wire[i]
    <3> DEFINE f == Frame(output, b)
    <3>1. f \in FrameRec /\ wire \in Seq(FrameRec) /\ Len(wire) \in Nat
      BY <1>1, <2>2
    <3> HIDE DEF f
    <3>2. /\ Len(Append(wire, f)) = Len(wire) + 1
          /\ \A i \in 1..Len(wire) : Append(wire, f)[i] = wire[i]
          /\ Append(wire, f)[Len(wire) + 1] = f
      BY <3>1, AppendProperties
    <3>3. w = Append(wire, f) /\ n - 1 = Len(wire)
      BY <2>1, <3>1 DEF f
    <3> QED BY <2>1, <3>2, <3>3 DEF f
  <2>4. \A i \in 1..n - 1 : i \in 1..Len(wire) /\ wire[i].whole
    BY <1>1, <1>3, <2>1 DEF FrameInv
  <2>5. Frame(output, b).kind = output /\ Frame(output, b).whole = b
    BY DEF Frame
  <2>6. n \in Nat /\ n > 1
    <3>1. \A k \in Nat : k > 0 => k + 1 \in Nat /\ k + 1 > 1
      OBVIOUS
    <3> QED BY <1>1, <2>1, <3>1
  <2> QED BY <1>2, <2>3, <2>4, <2>5, <2>6
<1>4. CASE partial
  <2> DEFINE e == [wire[Len(wire)] EXCEPT !.whole = b]
  <2>1. Len(wire) \in 1..Len(wire) /\ n = Len(wire)
    BY <1>1, <1>4
  <2>2. wire[n] \in FrameRec
    BY <1>1, <2>1, ElementOfSeq
  <2>3. e \in FrameRec /\ e.kind = output /\ e.whole = b
    BY <1>4, <2>1, <2>2, Records DEF FrameInv, FrameRec
  <2>4. w = [wire EXCEPT ![n] = e]
    BY <1>4, <2>1 DEF Send
  <2> HIDE DEF e
  <2>5. Len(w) = n /\ w[n] = e /\ \A i \in 1..n - 1 : w[i] = wire[i]
    <3>1. /\ Len([wire EXCEPT ![n] = e]) = Len(wire)
          /\ \A j \in 1..Len(wire) : [wire EXCEPT ![n] = e][j] = IF j = n THEN e ELSE wire[j]
      BY <1>1, <2>1, <2>3, ExceptSeq
    <3>2. Len(w) = n /\ \A j \in 1..n : w[j] = IF j = n THEN e ELSE wire[j]
      BY <2>1, <2>4, <3>1
    <3>3. n \in 1..n /\ \A j \in 1..n - 1 : j \in 1..n /\ j # n
      <4>1. \A k \in Nat : k > 0 => k \in 1..k /\ \A j \in 1..k - 1 : j \in 1..k /\ j # k
        OBVIOUS
      <4> QED BY <1>1, <2>1, <4>1
    <3> QED BY <3>2, <3>3
  <2>6. \A i \in 1..n - 1 : i \in 1..Len(wire) /\ wire[i].whole
    BY <1>1, <2>1 DEF FrameInv
  <2>7. n # 1
    BY <1>4, <2>1 DEF FrameInv, Frame
  <2>8. n \in Nat /\ n > 1
    BY <1>1, <2>1, <2>7
  <2> QED BY <1>2, <2>3, <2>5, <2>6, <2>8
<1> QED BY <1>3, <1>4

\* Steps within an exchange that write nothing to the wire.
LEMMA QuietFrame ==
  ASSUME FrameInv, Serving, Serving', UNCHANGED <<wire, partial>>, partial => output' = output,
         resume = "end" => resume' = "end"
  PROVE  FrameInv'
<1>1. pc' \notin {"request", "report"}
  BY DEF Serving, Cleaning
<1>2. WireWellFormed'
  BY DEF FrameInv, WireWellFormed
<1> QED BY <1>1, <1>2 DEF FrameInv

\* The end of a connection writes nothing either, except for the error report.
LEMMA LeaveFrame ==
  ASSUME NEW where \in {"accept", "dead"}, Leave(where), WireWellFormed'
  PROVE  FrameInv'
<1>1. pc' = where /\ partial' = FALSE
  BY DEF Leave
<1>2. ~Serving'
  BY <1>1 DEF Serving, Cleaning
<1> QED BY <1>1, <1>2 DEF FrameInv

LEMMA FrameStep ==
  GuestTypeOK /\ ResumeInv /\ FlowInv /\ FrameInv /\ [Next]_vars => FrameInv'
<1> SUFFICES ASSUME GuestTypeOK, ResumeInv, FlowInv, FrameInv, [Next]_vars PROVE FrameInv'
  OBVIOUS
<1>1. ASSUME NEW where \in {"accept", "dead"}, Leave(where), wire' = wire PROVE FrameInv'
  <2>1. WireWellFormed'
    BY <1>1 DEF FrameInv, WireWellFormed
  <2> QED BY <1>1, <2>1, LeaveFrame
<1>2. ASSUME NEW after, Return(after), wire' = wire, pc \in {"killGroup", "reap"} PROVE FrameInv'
  <2>1. CASE resume = "end" /\ Leave("accept")
    BY <1>1, <1>2, <2>1
  <2>2. CASE resume # "end"
    BY <1>2, <2>2, QuietFrame DEF Return, ResumeInv, Serving, Cleaning
  <2> QED BY <1>2, <2>1, <2>2 DEF Return
<1>3. CASE Accept
  <2>1. CASE Leave("dead") /\ wire' = wire
    BY <1>1, <2>1
  <2>2. CASE pc' = "request"
    <3>1. wire' = <<Frame("ready", TRUE)>> /\ ~partial'
      <4>1. pc = "accept" /\ wire' = <<Frame("ready", TRUE)>> /\ partial' = partial
        BY <1>3, <2>2 DEF Accept, Leave
      <4> QED BY <4>1 DEF FrameInv, Serving, Cleaning
    <3>2. WireWellFormed'
      BY <3>1 DEF WireWellFormed, Frame
    <3> QED BY <2>2, <3>1, <3>2 DEF FrameInv, Serving, Cleaning
  <2> QED BY <1>3, <2>1, <2>2 DEF Accept
<1>4. CASE Request
  <2>1. WireWellFormed' /\ wire' = wire /\ partial' = partial /\ pc = "request" /\ pc' = "report"
    BY <1>4 DEF Request, ioVars, FrameInv, WireWellFormed
  <2> QED BY <2>1 DEF FrameInv, Serving, Cleaning
<1>5. CASE Spawn
  <2>1. wire' = <<Frame("ready", TRUE)>> /\ ~partial' /\ pc' = "control"
    BY <1>5 DEF Spawn, FrameInv
  <2>2. WireWellFormed'
    BY <1>5 DEF Spawn, FrameInv, WireWellFormed
  <2> QED BY <2>1, <2>2 DEF FrameInv, Serving, Cleaning, Frame
<1>6. CASE Report
  <2>1. wire = <<Frame("ready", TRUE)>> /\ Leave("accept")
    BY <1>6 DEF Report, FrameInv
  <2>2. wire' = wire \/ wire' = <<Frame("ready", TRUE), Frame("error", TRUE)>>
    BY <1>6, <2>1, SeqOfTwo DEF Report
  <2>3. WireWellFormed'
    <3>1. CASE wire' = wire
      BY <3>1 DEF FrameInv, WireWellFormed
    <3>2. CASE wire' = <<Frame("ready", TRUE), Frame("error", TRUE)>>
      <4>1. DOMAIN wire' = {1, 2} /\ Len(wire') = 2
        BY <3>2
      <4>2. /\ wire'[1].kind = "ready" /\ wire'[1].whole
            /\ wire'[2].kind = "error" /\ wire'[2].whole
        BY <3>2 DEF Frame
      <4> QED BY <4>1, <4>2 DEF WireWellFormed
    <3> QED BY <2>2, <3>1, <3>2
  <2> QED BY <2>1, <2>3, LeaveFrame
<1>7. CASE Control
  BY <1>7, QuietFrame DEF Control, EndRun, ResumeInv, Serving, Cleaning, None
<1>8. CASE RootExited
  BY <1>8, QuietFrame DEF RootExited, ResumeInv, Serving, Cleaning, None
<1>9. CASE Flush
  <2>0. Serving /\ Serving' /\ pc = "flush" /\ resume = None
    BY <1>9 DEF Flush, EndRun, Serving, Cleaning, ResumeInv
  <2>1. CASE wire' = wire /\ partial' = partial /\ output' = output
    BY <2>0, <2>1, QuietFrame DEF None
  <2>2. ASSUME NEW b \in BOOLEAN, output # None, wire' = Send(output, b), partial' <=> ~b,
               ~b => output' = output, b /\ terminal => resume' = "end"
        PROVE  FrameInv'
    <3> DEFINE n == IF partial THEN Len(wire) ELSE Len(wire) + 1
    <3>1. /\ wire' \in Seq(FrameRec) /\ n \in Nat /\ n > 1 /\ Len(wire') = n
          /\ wire'[n].kind = output /\ (wire'[n].whole <=> b)
          /\ \A i \in 1..n - 1 : i \in 1..Len(wire) /\ wire'[i] = wire[i] /\ wire[i].whole
      <4> DEFINE w == wire'
      <4>1. n = IF partial THEN Len(wire) ELSE Len(wire) + 1
        OBVIOUS
      <4>2. w = Send(output, b) /\ Serving /\ output # None
        BY <2>0, <2>2
      <4> HIDE DEF n, w
      <4>3. /\ w \in Seq(FrameRec) /\ n \in Nat /\ n > 1 /\ Len(w) = n
            /\ w[n].kind = output /\ (w[n].whole <=> b)
            /\ \A i \in 1..n - 1 : i \in 1..Len(wire) /\ w[i] = wire[i] /\ wire[i].whole
        BY <4>1, <4>2, SendFrames
      <4> QED BY <4>3 DEF w
    <3>2. DOMAIN wire' = 1..n /\ DOMAIN wire = 1..Len(wire)
      BY <3>1 DEF GuestTypeOK
    <3>3. wire[1] = Frame("ready", TRUE) /\ Len(wire) \in Nat
      <4>1. wire \in Seq(FrameRec)
        BY DEF GuestTypeOK
      <4>2. wire[1] = Frame("ready", TRUE)
        BY <2>0 DEF FrameInv
      <4> QED BY <4>1, <4>2
    <3>4. \A i \in 1..n - 1 : wire[i].kind # "exited" /\ (i > 1 => wire[i].kind \in Stream)
      <4>1. ASSUME NEW i \in 1..n - 1, wire[i].kind = "exited" PROVE FALSE
        <5>1. i = Len(wire) /\ partial
          BY <2>0, <3>1, <3>2, <4>1 DEF FrameInv, None
        <5> QED BY <3>1, <3>3, <4>1, <5>1
      <4> QED BY <2>0, <3>1, <3>2, <4>1 DEF FrameInv
    <3>5. output \in Stream \cup {"exited"}
      BY <2>2 DEF GuestTypeOK
    <3> HIDE DEF n
    <3>6. \A i \in DOMAIN wire' : i > 1 => wire'[i].kind \in Stream \cup {"exited"}
      BY <3>1, <3>2, <3>4, <3>5
    <3>7. \A i \in DOMAIN wire' : i < Len(wire') \/ ~partial' => wire'[i].whole
      BY <2>2, <3>1, <3>2
    <3>8. \A i \in DOMAIN wire' : wire'[i].kind = "exited" =>
            i = Len(wire') /\ (partial' \/ resume' = "end")
      BY <2>2, <3>1, <3>2, <3>4 DEF FlowInv
    <3>9. partial' => ~wire'[Len(wire')].whole /\ wire'[Len(wire')].kind = output' /\ output' # None
      BY <2>2, <3>1
    <3>10. wire' # <<>> /\ wire'[1] = Frame("ready", TRUE)
      <4>1. 1 \in 1..n - 1
        BY <3>1
      <4>2. wire'[1] = Frame("ready", TRUE)
        BY <3>1, <3>3, <4>1
      <4>3. wire' # <<>>
        BY <3>1
      <4> QED BY <4>2, <4>3
    <3>11. WireWellFormed'
      <4>1. ASSUME NEW i \in DOMAIN wire' PROVE wire'[i].kind = "ready" <=> i = 1
        BY <3>2, <3>6, <3>10, <4>1 DEF Frame, Stream
      <4>2. ASSUME NEW i \in DOMAIN wire' PROVE wire'[i].kind # "error"
        BY <3>2, <3>6, <3>10, <4>2 DEF Frame, Stream
      <4> QED BY <3>1, <3>2, <3>7, <3>8, <4>1, <4>2 DEF WireWellFormed
    <3>12. pc' \notin {"request", "report"}
      BY <2>0 DEF Serving, Cleaning
    <3> QED BY <2>0, <3>6, <3>7, <3>8, <3>9, <3>10, <3>11, <3>12 DEF FrameInv
  <2> QED BY <1>9, <2>1, <2>2 DEF Flush, EndRun
<1>10. CASE Pull
  BY <1>10, QuietFrame DEF Pull, Serving, Cleaning, FrameInv
<1>11. CASE RunError
  BY <1>11, QuietFrame DEF RunError, EndRun, Serving, Cleaning, ioVars
<1>12. CASE KillGroup
  BY <1>2, <1>12, QuietFrame DEF KillGroup, Serving, Cleaning
<1>13. CASE Enumerate \/ Kill
  BY <1>13, QuietFrame DEF Enumerate, Kill, Serving, Cleaning, ioVars
<1>14. CASE Reap
  <2>1. CASE pc' \in {"reap", "enumerate"} /\ UNCHANGED <<resume, output, partial, wire>>
    BY <1>14, <2>1, QuietFrame DEF Reap, Serving, Cleaning
  <2> QED BY <1>1, <1>2, <1>14, <2>1 DEF Reap
<1>15. CASE Deadline
  BY <1>1, <1>15 DEF Deadline
<1>16. CASE UNCHANGED <<guestVars, ioVars>>
  BY <1>16 DEF guestVars, ioVars, FrameInv, WireWellFormed, Serving, Cleaning
<1>17. CASE HostWrite \/ HostClose \/ Command \/ UNCHANGED vars
  BY <1>16, <1>17 DEF HostWrite, HostClose, Command, Fork, Exit, Collect, WriteOut, vars
<1> QED
  BY <1>3, <1>4, <1>5, <1>6, <1>7, <1>8, <1>9, <1>10, <1>11, <1>12, <1>13, <1>14, <1>15, <1>17
  DEF Next, Agent

-----------------------------------------------------------------------------
(* The output *)

\* The frames SentOf counts.
SentFrames(s) == {i \in DOMAIN wire : wire[i].kind = s /\ wire[i].whole}

\* What Output.flush does to the count: a whole frame adds one, a part none.
LEMMA SendCounts ==
  ASSUME GuestTypeOK, Serving, FrameInv, output # None, NEW b \in BOOLEAN,
         wire' = Send(output, b), NEW s \in Stream
  PROVE  /\ SentOf(s) \in Nat
         /\ SentOf(s)' = IF b /\ output = s THEN SentOf(s) + 1 ELSE SentOf(s)
<1> DEFINE n == IF partial THEN Len(wire) ELSE Len(wire) + 1
<1>1. /\ wire' \in Seq(FrameRec) /\ n \in Nat /\ n > 1 /\ Len(wire') = n
      /\ wire'[n].kind = output /\ (wire'[n].whole <=> b)
      /\ \A i \in 1..n - 1 : i \in 1..Len(wire) /\ wire'[i] = wire[i] /\ wire[i].whole
  <2>1. \A k : k = n => /\ wire' \in Seq(FrameRec) /\ k \in Nat /\ k > 1 /\ Len(wire') = k
      /\ wire'[k].kind = output /\ (wire'[k].whole <=> b)
      /\ \A i \in 1..k - 1 : i \in 1..Len(wire) /\ wire'[i] = wire[i] /\ wire[i].whole
    BY SendFrames
  <2> HIDE DEF n
  <2> QED BY <2>1
<1>2. DOMAIN wire' = 1..n /\ DOMAIN wire = 1..Len(wire) /\ Len(wire) \in Nat
  BY <1>1 DEF GuestTypeOK
<1>3. \A i \in 1..Len(wire) : i \in 1..n - 1 \/ (i = n /\ ~wire[i].whole)
  <2>1. CASE ~partial
    BY <1>2, <2>1
  <2>2. CASE partial
    <3>1. n = Len(wire) /\ ~wire[Len(wire)].whole
      BY <2>2 DEF FrameInv
    <3>2. \A i \in 1..Len(wire) : i \in 1..Len(wire) - 1 \/ i = Len(wire)
      <4>1. \A k \in Nat : \A i \in 1..k : i \in 1..k - 1 \/ i = k
        OBVIOUS
      <4> QED BY <1>2, <4>1
    <3> QED BY <3>1, <3>2
  <2> QED BY <2>1, <2>2
<1>4. n \notin SentFrames(s)
  <2>1. CASE ~partial
    BY <1>2, <2>1 DEF SentFrames
  <2>2. CASE partial
    BY <1>2, <2>2 DEF FrameInv, SentFrames
  <2> QED BY <2>1, <2>2
<1>5. IsFiniteSet(SentFrames(s)) /\ SentFrames(s) \subseteq 1..Len(wire)
  <2>1. IsFiniteSet(1..Len(wire))
    BY <1>2, FS_Interval
  <2>2. SentFrames(s) \subseteq 1..Len(wire)
    BY <1>2 DEF SentFrames
  <2> QED BY <2>1, <2>2, FS_Subset
<1> HIDE DEF n
<1>6. SentFrames(s)' = IF b /\ output = s THEN SentFrames(s) \cup {n} ELSE SentFrames(s)
  <2>1. ASSUME NEW i, i \in SentFrames(s) PROVE i \in SentFrames(s)'
    <3>1. i \in 1..n - 1
      BY <1>2, <1>3, <2>1 DEF SentFrames
    <3> QED BY <1>1, <1>2, <2>1, <3>1 DEF SentFrames
  <2>2. ASSUME NEW i \in SentFrames(s)', i # n PROVE i \in SentFrames(s)
    <3>1. i \in 1..n - 1
      BY <1>1, <1>2, <2>2 DEF SentFrames
    <3> QED BY <1>1, <1>2, <2>2, <3>1 DEF SentFrames
  <2>3. n \in SentFrames(s)' <=> b /\ output = s
    BY <1>1, <1>2 DEF SentFrames
  <2>4. CASE b /\ output = s
    BY <2>1, <2>2, <2>3, <2>4
  <2>5. CASE ~(b /\ output = s)
    BY <1>4, <2>1, <2>2, <2>3, <2>5
  <2> QED BY <2>4, <2>5
<1>7. SentOf(s) = Cardinality(SentFrames(s)) /\ SentOf(s)' = Cardinality(SentFrames(s)')
  BY DEF SentOf, SentFrames
<1>8. /\ Cardinality(SentFrames(s)) \in Nat
      /\ Cardinality(SentFrames(s) \cup {n}) = Cardinality(SentFrames(s)) + 1
  BY <1>4, <1>5, FS_AddElement, FS_CardinalityType
<1> QED BY <1>6, <1>7, <1>8

\* The count is a number.
LEMMA SentNat == ASSUME GuestTypeOK, NEW s \in Stream PROVE SentOf(s) \in Nat
<1>1. DOMAIN wire = 1..Len(wire) /\ Len(wire) \in Nat
  BY DEF GuestTypeOK
<1>2. IsFiniteSet(SentFrames(s))
  <2>1. IsFiniteSet(1..Len(wire))
    BY <1>1, FS_Interval
  <2>2. SentFrames(s) \subseteq 1..Len(wire)
    BY <1>1 DEF SentFrames
  <2> QED BY <2>1, <2>2, FS_Subset
<1> QED BY <1>2, FS_CardinalityType DEF SentOf, SentFrames

\* No frame is counted before there is one.
LEMMA NothingSent ==
  ASSUME wire' = <<Frame("ready", TRUE)>>, NEW s \in Stream
  PROVE  SentOf(s)' = 0
<1>1. DOMAIN wire' = {1} /\ wire'[1].kind = "ready"
  BY DEF Frame
<1>2. {i \in DOMAIN wire' : wire'[i].kind = s /\ wire'[i].whole} = {}
  BY <1>1 DEF Stream
<1> QED BY <1>2, FS_EmptySet DEF SentOf

\* Steps within an exchange that move no output, and start no process once
\* none is left.
LEMMA QuietFlow ==
  ASSUME FlowInv, Serving, Serving', UNCHANGED <<wire, held, written, open, output, terminal>>,
         terminal => tree'.clean,
         (\A p \in Proc : ~Live(p)) => (\A p \in Proc : ~Live(p)')
  PROVE  FlowInv'
<1>1. \A s \in Stream : SentOf(s)' = SentOf(s) /\ Buffered(s)' = Buffered(s)
  BY DEF SentOf, Buffered
<1> QED BY <1>1 DEF FlowInv

\* Between two commands there is nothing to say.
LEMMA IdleFlow == ASSUME ~Serving', ~terminal', output' # "exited" PROVE FlowInv'
BY DEF FlowInv

LEMMA FlowStep ==
  GuestTypeOK /\ GuestTypeOK' /\ GuestInv /\ [Next]_vars => FlowInv'
<1> SUFFICES ASSUME GuestTypeOK, GuestTypeOK', ResumeInv, TreeInv, FlowInv, FrameInv, [Next]_vars
             PROVE  FlowInv'
  BY DEF GuestInv
<1>1. ASSUME NEW where \in {"accept", "dead"}, Leave(where) PROVE FlowInv'
  BY <1>1, IdleFlow DEF Leave, Serving, Cleaning, None
<1>2. proc' = proc => ((\A p \in Proc : ~Live(p)) => (\A p \in Proc : ~Live(p)'))
  BY DEF Live
<1>3. ASSUME NEW after, Return(after), UNCHANGED <<wire, proc>>, pc \in {"killGroup", "reap"},
             tree.clean => after.clean
      PROVE  FlowInv'
  <2>1. CASE resume = "end" /\ Leave("accept")
    BY <1>1, <2>1
  <2>2. CASE resume # "end"
    <3>1. Serving /\ Serving' /\ tree' = after /\ UNCHANGED <<held, written, open, output, terminal>>
      BY <1>3, <2>2 DEF Return, ResumeInv, Serving, Cleaning, pipeVars
    <3> QED BY <1>2, <1>3, <3>1, QuietFlow DEF FlowInv
  <2> QED BY <1>3, <2>1, <2>2 DEF Return
<1>4. CASE Accept
  <2>1. CASE Leave("dead")
    BY <1>1, <2>1
  <2>2. CASE pc' = "request"
    BY <1>4, <2>2, IdleFlow DEF Accept, Leave, FlowInv, Serving, Cleaning
  <2> QED BY <1>4, <2>1, <2>2 DEF Accept
<1>5. CASE Request
  BY <1>5, IdleFlow DEF Request, ioVars, FlowInv, Serving, Cleaning
<1>6. CASE Spawn
  <2>1. wire' = <<Frame("ready", TRUE)>>
    BY <1>6 DEF Spawn, FrameInv
  <2>2. \A s \in Stream : SentOf(s)' = 0
    BY <2>1, NothingSent
  <2>3. /\ \A s \in Stream : written'[s] = 0 /\ held'[s] = 0 /\ Buffered(s)' = 0
        /\ open' = Stream /\ terminal' = FALSE /\ output' = None
    BY <1>6 DEF Spawn, Buffered, Stream, None
  <2> QED BY <2>2, <2>3 DEF FlowInv, None
<1>7. CASE Report
  BY <1>1, <1>7 DEF Report
<1>8. CASE Control
  <2>1. Serving /\ Serving'
    BY <1>8 DEF Control, EndRun, Serving, Cleaning
  <2> QED BY <1>2, <1>8, <2>1, QuietFlow DEF Control, pipeVars, treeVars, FlowInv
<1>9. CASE RootExited
  <2>1. Serving /\ Serving' /\ UNCHANGED <<wire, held, written, open, output, terminal>>
    BY <1>9 DEF RootExited, Serving, Cleaning, pipeVars
  <2>2. tree'.clean = tree.clean
    BY <1>9 DEF RootExited, GuestTypeOK, TreeRec
  <2>3. (\A p \in Proc : ~Live(p)) => (\A p \in Proc : ~Live(p)')
    BY <1>9 DEF RootExited, GuestTypeOK, Live, Reaped, Unborn
  <2> QED BY <2>1, <2>2, <2>3, QuietFlow DEF FlowInv
<1>10. CASE Flush
  <2>0. Serving /\ Serving' /\ UNCHANGED <<held, written, open, terminal, proc, tree>>
    BY <1>10 DEF Flush, EndRun, Serving, Cleaning, pipeVars, treeVars
  <2>1. CASE wire' = wire /\ output' = output
    BY <1>2, <2>0, <2>1, QuietFlow DEF FlowInv
  <2>2. ASSUME NEW b \in BOOLEAN, output # None, wire' = Send(output, b),
               output' = IF b THEN None ELSE output
        PROVE  FlowInv'
    <3>1. ASSUME NEW s \in Stream
          PROVE  SentOf(s)' + held'[s] + Buffered(s)' = written'[s]
      <4>1. /\ SentOf(s) \in Nat
            /\ SentOf(s)' = IF b /\ output = s THEN SentOf(s) + 1 ELSE SentOf(s)
        BY <2>0, <2>2, SendCounts
      <4>2. Buffered(s)' = IF b /\ output = s THEN 0 ELSE Buffered(s)
        BY <2>2 DEF Buffered, Stream, None
      <4>3. held[s] \in Nat /\ SentOf(s) + held[s] + Buffered(s) = written[s]
        BY <2>0 DEF FlowInv, GuestTypeOK
      <4>4. output = s => Buffered(s) = 1
        BY DEF Buffered
      <4>5. CASE b /\ output = s
        BY <2>0, <4>1, <4>2, <4>3, <4>4, <4>5
      <4>6. CASE ~(b /\ output = s)
        BY <2>0, <4>1, <4>2, <4>3, <4>6
      <4> QED BY <4>5, <4>6
    <3>2. \A s \in Stream \ open' : held'[s] = 0 /\ \A p \in Proc : ~Live(p)'
      BY <2>0 DEF FlowInv, Live
    <3> QED BY <2>0, <2>2, <3>1, <3>2 DEF FlowInv, Stream, None
  <2> QED BY <1>10, <2>1, <2>2 DEF Flush
<1>11. CASE Pull
  <2>0. Serving /\ Serving' /\ UNCHANGED <<wire, written, proc, tree>>
    BY <1>11 DEF Pull, Serving, Cleaning, treeVars
  <2>1. CASE terminal \/ output # None
    BY <1>2, <1>11, <2>0, <2>1, QuietFlow DEF Pull, FlowInv
  <2>2. CASE ~(terminal \/ output # None)
    <3>1. PICK out \in Stream \cup {None}, left \in SUBSET open :
            /\ out # None => HasData(out)
            /\ \A s \in open \ left : AtEof(s)
            /\ open' = left
            /\ held' = [s \in Stream |-> IF s = out THEN held[s] - 1 ELSE held[s]]
            /\ terminal' = Drained(left, out)
            /\ output' = IF Drained(left, out) THEN "exited" ELSE out
      <4>1. PICK first \in Stream :
              LET second == CHOOSE s \in Stream : s # first
                  out    == IF HasData(first) THEN first ELSE IF HasData(second) THEN second ELSE None
                  left   == open \ {s \in Stream : AtEof(s) /\ (s = first \/ ~HasData(first))}
              IN
              /\ open' = left
              /\ held' = [s \in Stream |-> IF s = out THEN held[s] - 1 ELSE held[s]]
              /\ terminal' = Drained(left, out)
              /\ output' = IF Drained(left, out) THEN "exited" ELSE out
        BY <1>11, <2>2 DEF Pull
      <4>2. (CHOOSE s \in Stream : s # first) \in Stream
        BY DEF Stream
      <4> QED BY <4>1, <4>2
    <3>2. ASSUME NEW s \in Stream \ left PROVE held[s] = 0 /\ s # out /\ \A p \in Proc : ~Live(p)
      <4>1. held[s] = 0 /\ \A p \in Proc : ~Live(p)
        BY <2>0, <3>1, <3>2 DEF FlowInv, AtEof
      <4>2. s # out
        BY <3>1, <4>1 DEF HasData, Stream, None
      <4> QED BY <4>1, <4>2
    <3>3. ASSUME NEW s \in Stream PROVE SentOf(s)' + held'[s] + Buffered(s)' = written'[s]
      <4>1. SentOf(s)' = SentOf(s)
        BY <2>0 DEF SentOf
      <4>2. held[s] \in Nat /\ SentOf(s) + held[s] = written[s] /\ SentOf(s) \in Nat
        <5>1. Buffered(s) = 0 /\ held[s] \in Nat /\ SentOf(s) + held[s] + Buffered(s) = written[s]
          BY <2>0, <2>2 DEF FlowInv, Buffered, Stream, None, GuestTypeOK
        <5>2. SentOf(s) \in Nat
          BY SentNat
        <5> QED BY <5>1, <5>2
      <4>3. CASE s = out
        <5>1. ~Drained(left, out) /\ output' = s
          BY <3>1, <4>3 DEF Drained, Stream, None
        <5>2. Buffered(s)' = 1 /\ held'[s] = held[s] - 1
          BY <3>1, <4>3, <5>1 DEF Buffered
        <5> QED BY <2>0, <4>1, <4>2, <5>2
      <4>4. CASE s # out
        <5>1. Buffered(s)' = 0 /\ held'[s] = held[s]
          BY <3>1, <4>4 DEF Buffered, Stream
        <5> QED BY <2>0, <4>1, <4>2, <5>1
      <4> QED BY <4>3, <4>4
    <3>4. \A s \in Stream \ open' : held'[s] = 0 /\ \A p \in Proc : ~Live(p)'
      BY <1>2, <2>0, <3>1, <3>2
    <3>5. terminal' => /\ Serving' /\ tree'.clean /\ output' \notin Stream
                       /\ \A s \in Stream : held'[s] = 0
      <4>1. ASSUME terminal' PROVE tree.clean /\ left = {} /\ output' = "exited"
        BY <3>1, <4>1 DEF Drained
      <4> QED BY <2>0, <3>1, <3>4, <4>1 DEF Stream
    <3>6. output' = "exited" => terminal'
      BY <3>1 DEF Stream, None
    <3> QED BY <2>0, <3>3, <3>4, <3>5, <3>6 DEF FlowInv
  <2> QED BY <2>1, <2>2
<1>12. CASE RunError
  <2>1. Serving /\ Serving'
    BY <1>12 DEF RunError, EndRun, Serving, Cleaning
  <2> QED BY <1>2, <1>12, <2>1, QuietFlow DEF RunError, ioVars, pipeVars, treeVars, FlowInv
<1>13. CASE KillGroup
  <2>1. CASE tree.clean
    BY <1>3, <1>13, <2>1 DEF KillGroup
  <2>2. CASE ~tree.clean
    <3>1. (\A p \in Proc : ~Live(p)) => (\A p \in Proc : ~Live(p)')
      BY <1>13, <2>2 DEF KillGroup, GuestTypeOK, ProcRec, Live
    <3>2. Serving /\ Serving'
      BY <1>13, <2>2 DEF KillGroup, Serving, Cleaning
    <3> QED BY <1>13, <2>2, <3>1, <3>2, QuietFlow DEF KillGroup, treeVars, pipeVars, FlowInv
  <2> QED BY <2>1, <2>2
<1>14. CASE Enumerate
  BY <1>2, <1>14, QuietFlow DEF Enumerate, Serving, Cleaning, ioVars, pipeVars, FlowInv
<1>15. CASE Kill
  <2>1. (\A p \in Proc : ~Live(p)) => (\A p \in Proc : ~Live(p)')
    BY <1>15 DEF Kill, GuestTypeOK, ProcRec, Live
  <2> QED BY <1>15, <2>1, QuietFlow DEF Kill, Serving, Cleaning, ioVars, pipeVars, FlowInv
<1>16. CASE Reap
  <2>0. pc = "reap" /\ Serving
    BY <1>16 DEF Reap, Serving, Cleaning
  <2>1. ASSUME NEW p \in Children, proc' = [proc EXCEPT ![p] = Reaped],
               tree' = [tree EXCEPT !.status = @ \/ p = root],
               UNCHANGED <<pc, pipeVars, open, output, terminal, wire>>
        PROVE  FlowInv'
    <3>1. (\A q \in Proc : ~Live(q)) => (\A q \in Proc : ~Live(q)')
      BY <2>1 DEF GuestTypeOK, Live, Reaped, Unborn
    <3>2. tree'.clean = tree.clean /\ Serving'
      BY <2>0, <2>1 DEF GuestTypeOK, TreeRec, Serving, Cleaning
    <3> QED BY <2>0, <2>1, <3>1, <3>2, QuietFlow DEF pipeVars, FlowInv
  <2>2. CASE pc' = "enumerate" /\ UNCHANGED <<proc, tree, pipeVars, open, output, terminal, wire>>
    <3>1. Serving'
      BY <2>2 DEF Serving, Cleaning
    <3> QED BY <1>2, <2>0, <2>2, <3>1, QuietFlow DEF pipeVars, FlowInv
  <2>3. CASE Return([tree EXCEPT !.clean = TRUE]) /\ UNCHANGED <<proc, wire>>
    <3>1. [tree EXCEPT !.clean = TRUE].clean
      BY DEF GuestTypeOK, TreeRec
    <3> QED BY <1>3, <2>0, <2>3, <3>1
  <2>4. CASE Leave("dead")
    BY <1>1, <2>4
  <2> QED BY <1>16, <2>1, <2>2, <2>3, <2>4 DEF Reap
<1>17. CASE Deadline
  BY <1>1, <1>17 DEF Deadline
<1>18. ASSUME UNCHANGED <<guestVars, tree, pipeVars, ioVars>>,
              Serving => ((\A p \in Proc : ~Live(p)) => (\A p \in Proc : ~Live(p)'))
       PROVE  FlowInv'
  <2>1. CASE Serving
    <3>1. Serving'
      BY <1>18, <2>1 DEF Serving, Cleaning, guestVars
    <3> QED BY <1>18, <2>1, <3>1, QuietFlow DEF pipeVars, ioVars, FlowInv
  <2>2. CASE ~Serving
    BY <1>18, <2>2, IdleFlow DEF Serving, Cleaning, guestVars, ioVars, FlowInv
  <2> QED BY <2>1, <2>2
<1>19. CASE HostWrite \/ HostClose
  BY <1>2, <1>18, <1>19 DEF HostWrite, HostClose, treeVars
<1>20. ASSUME NEW p \in Proc, NEW q \in Proc, Fork(p, q) PROVE FlowInv'
  BY <1>18, <1>20 DEF Fork, treeVars
<1>21. ASSUME NEW p \in Proc, Exit(p) PROVE FlowInv'
  BY <1>18, <1>21 DEF Exit, treeVars
<1>22. ASSUME NEW p \in Proc, Collect(p) PROVE FlowInv'
  <2>1. (\A q \in Proc : ~Live(q)) => (\A q \in Proc : ~Live(q)')
    BY <1>22 DEF Collect, GuestTypeOK, Live, Reaped, Unborn
  <2> QED BY <1>18, <1>22, <2>1 DEF Collect, treeVars
<1>23. ASSUME NEW s \in Stream, WriteOut(s), pc # "dead" PROVE FlowInv'
  <2>1. /\ written' = [written EXCEPT ![s] = @ + 1] /\ held' = [held EXCEPT ![s] = @ + 1]
        /\ UNCHANGED <<pc, proc, tree, open, output, terminal, wire>>
    BY <1>23 DEF WriteOut, guestVars, treeVars, ioVars
  <2>2. ~\A p \in Proc : ~Live(p)
    BY <1>23 DEF WriteOut
  <2>3. ~terminal
    BY <1>23, <2>2 DEF FlowInv, TreeInv, Unreaped, Live
  <2>4. CASE ~Serving
    BY <2>1, <2>3, <2>4, IdleFlow DEF Serving, Cleaning, FlowInv
  <2>5. CASE Serving
    <3>1. Stream \ open = {}
      BY <2>2, <2>5 DEF FlowInv
    <3>2. ASSUME NEW x \in Stream PROVE SentOf(x)' + held'[x] + Buffered(x)' = written'[x]
      <4>1. SentOf(x)' = SentOf(x) /\ Buffered(x)' = Buffered(x)
        BY <2>1 DEF SentOf, Buffered
      <4>2. SentOf(x) \in Nat /\ Buffered(x) \in Nat /\ held[x] \in Nat /\ written[x] \in Nat
        BY SentNat DEF Buffered, GuestTypeOK
      <4>3. SentOf(x) + held[x] + Buffered(x) = written[x]
        BY <2>5 DEF FlowInv
      <4>4. held'[x] = (IF x = s THEN held[x] + 1 ELSE held[x])
            /\ written'[x] = (IF x = s THEN written[x] + 1 ELSE written[x])
        BY <2>1 DEF GuestTypeOK
      <4> QED BY <4>1, <4>2, <4>3, <4>4
    <3> QED BY <2>1, <2>3, <3>1, <3>2 DEF FlowInv
  <2> QED BY <2>4, <2>5
<1>24. CASE UNCHANGED vars
  BY <1>2, <1>18, <1>24 DEF vars, treeVars
<1> QED
  BY <1>4, <1>5, <1>6, <1>7, <1>8, <1>9, <1>10, <1>11, <1>12, <1>13, <1>14, <1>15, <1>16, <1>17,
     <1>19, <1>20, <1>21, <1>22, <1>23, <1>24 DEF Next, Agent, Command

-----------------------------------------------------------------------------
(* Theorems *)

LEMMA InitInv == Init => GuestTypeOK /\ GuestInv
<1> SUFFICES ASSUME Init PROVE GuestTypeOK /\ GuestInv
  OBVIOUS
<1>1. GuestTypeOK
  <2>1. tree \in TreeRec /\ proc \in [Proc -> ProcRec]
    BY Records DEF Init
  <2>2. inbox \in Seq(Piece) /\ wire \in Seq(FrameRec)
    BY DEF Init
  <2>3. written \in [Stream -> Nat] /\ held \in [Stream -> Nat]
    BY DEF Init
  <2> QED BY <2>1, <2>2, <2>3 DEF Init, GuestTypeOK
<1>2. ~Serving /\ ~Cleaning
  BY DEF Init, Serving, Cleaning
<1>3. \A p \in Proc : ~Unreaped(p)
  BY DEF Init, Unreaped, Unborn
<1>4. WireWellFormed
  BY DEF Init, WireWellFormed
<1> QED BY <1>1, <1>2, <1>3, <1>4
  DEF Init, GuestInv, ResumeInv, TreeInv, Forest, KillsOwnChildren, FlowInv, FrameInv, None

\* The inductive invariant holds in every state.
THEOREM GuestInvariant == Spec => [](GuestTypeOK /\ GuestInv)
<1>1. GuestTypeOK /\ GuestInv /\ [Next]_vars => GuestTypeOK' /\ GuestInv'
  BY TypeStep, ResumeStep, TreeStep, FlowStep, FrameStep DEF GuestInv
<1> QED BY InitInv, <1>1, PTL DEF Spec

\* Every variable of the agent keeps its type.
THEOREM GuestTypes == Spec => []GuestTypeOK
BY GuestInvariant, PTL

\* serve_connection's promise: whenever the guest waits for a connection or a
\* request, no process of an earlier command exists, however deep its tree
\* was and whichever of its processes left the group.
THEOREM GuestNoReuse == Spec => []NoReuse
<1>1. GuestInv => NoReuse
  BY DEF GuestInv, TreeInv, NoReuse
<1> QED BY GuestInvariant, <1>1, PTL

\* The comment of cleanup_inner: between listing the children and killing them
\* nothing that was listed is reaped, so every signal goes to a child.
THEOREM GuestKillsOwnChildren == Spec => []KillsOwnChildren
<1>1. GuestInv => KillsOwnChildren
  BY DEF GuestInv, TreeInv
<1> QED BY GuestInvariant, <1>1, PTL

\* When the last frame of run is built, every process is gone and every chunk
\* the command wrote is on the wire.
THEOREM GuestExitedComplete == Spec => []ExitedComplete
<1>1. ASSUME GuestTypeOK, GuestInv, terminal PROVE ExitedComplete
  <2>1. Serving /\ tree.clean /\ pc # "dead"
    BY <1>1 DEF GuestInv, FlowInv, Serving, Cleaning
  <2>2. \A p \in Proc : ~Unreaped(p)
    BY <1>1, <2>1 DEF GuestInv, TreeInv
  <2>3. ASSUME NEW s \in Stream PROVE SentOf(s) = written[s]
    <3>1. held[s] = 0 /\ Buffered(s) = 0 /\ SentOf(s) + held[s] + Buffered(s) = written[s]
      BY <1>1, <2>1 DEF GuestInv, FlowInv, Buffered
    <3>2. SentOf(s) \in Nat
      BY <1>1, SentNat
    <3> QED BY <3>1, <3>2
  <2> QED BY <2>2, <2>3 DEF ExitedComplete
<1>2. GuestTypeOK /\ GuestInv => ExitedComplete
  BY <1>1 DEF ExitedComplete
<1> QED BY GuestInvariant, <1>2, PTL

\* What the host reads is ready, output frames and at most one last frame; only
\* the last one can be cut off, and an error follows nothing but ready.
THEOREM GuestWire == Spec => []WireWellFormed
<1>1. GuestInv => WireWellFormed
  BY DEF GuestInv, FrameInv
<1> QED BY GuestInvariant, <1>1, PTL
=============================================================================
