----------------------------- MODULE GuestAgent -----------------------------
(***************************************************************************)
(* sower-guest, the agent inside a builder VM (guest/src): it serves one   *)
(* vsock connection after the other, each running at most one command.     *)
(*                                                                         *)
(* Three parties take steps: the guest's only thread, whose loop never     *)
(* blocks; the host, which sends its request and cancel frames in pieces   *)
(* and may disconnect at any point; and the command, a tree of processes   *)
(* that fork, escape the process group, write output and exit.  The guest  *)
(* is a subreaper: a process whose parent dies becomes a child of Guest.   *)
(*                                                                         *)
(* Payloads, chunk sizes and exit codes are abstract: a frame is its kind, *)
(* and whether all of it has been written.  Time is the deadline of a      *)
(* cleanup, which may pass at any iteration.                               *)
(***************************************************************************)
EXTENDS Naturals, Sequences, FiniteSets

CONSTANTS
  Proc,       \* processes of one command, numbered in the order of creation
  Guest,      \* the agent, as a parent
  MaxChunks,  \* bound: chunks a command writes to one stream
  MaxInbox    \* bound: pieces from the host that are unread at a time

ASSUME GuestAssumption ==
  /\ Proc \subseteq Nat /\ Proc # {} /\ Guest \notin Proc
  /\ MaxChunks \in Nat /\ MaxInbox \in Nat

Stream == {"stdout", "stderr"}
\* What the host may have written: a whole request, or a piece of a frame.
\* Out of place, each of them is an invalid request or an invalid frame.
Piece == {"execute1", "execute2", "header", "cancel"}
None == "none"

VARIABLES
  pc,        \* where serve_connection stands
  resume,    \* where run or serve_connection goes on after a cleanup
  failed,    \* FAILED
  version,   \* the protocol version of the request
  inbox,     \* pieces the host wrote that the guest has not read
  hostOpen,  \* the host has not closed the connection
  control,   \* Control: which part of a frame is read next
  root,      \* CommandTree.root
  tree,      \* CommandTree.status (is known) and CommandTree.clean
  snapshot,  \* the children a cleanup listed and is about to kill
  proc,      \* Proc -> the operating system's record of a process
  written,   \* Stream -> chunks the command wrote
  held,      \* Stream -> chunks in the pipe
  open,      \* streams the guest still reads
  output,    \* Output: the one buffered frame
  partial,   \* Output.sent > 0: a part of the frame is on the wire
  terminal,
  wire       \* the frames of the latest connection, as the host reads them

guestVars == <<pc, resume, failed>>
connVars == <<version, inbox, hostOpen, control>>
treeVars == <<root, tree, snapshot>>
pipeVars == <<written, held>>
ioVars == <<open, output, partial, terminal, wire>>
vars == <<guestVars, connVars, treeVars, proc, pipeVars, ioVars>>

Unborn == [state |-> "unborn", parent |-> Guest, group |-> TRUE, killed |-> FALSE]
Reaped == [Unborn EXCEPT !.state = "reaped"]
Live(p) == proc[p].state = "live"
Unreaped(p) == proc[p].state \in {"live", "zombie"}
Children == {p \in Proc : Unreaped(p) /\ proc[p].parent = Guest}
Frame(kind, whole) == [kind |-> kind, whole |-> whole]

Init ==
  /\ pc = "accept" /\ resume = None /\ failed = FALSE
  /\ version = 2 /\ inbox = <<>> /\ hostOpen = FALSE /\ control = "header"
  /\ root \in Proc /\ tree = [status |-> FALSE, clean |-> TRUE] /\ snapshot = {}
  /\ proc = [p \in Proc |-> Unborn]
  /\ written = [s \in Stream |-> 0] /\ held = [s \in Stream |-> 0]
  /\ open = {} /\ output = None /\ partial = FALSE
  /\ terminal = FALSE /\ wire = <<>>

\* serve_connection returns: its locals and the connection are dropped.  main
\* goes on after Ok and stops after Err.
Leave(where) ==
  /\ pc' = where /\ resume' = None
  /\ version' = 2 /\ inbox' = <<>> /\ hostOpen' = FALSE /\ control' = "header"
  /\ root' = root /\ tree' = [status |-> FALSE, clean |-> TRUE] /\ snapshot' = {}
  /\ written' = [s \in Stream |-> 0] /\ held' = [s \in Stream |-> 0]
  /\ open' = {} /\ output' = None /\ partial' = FALSE
  /\ terminal' = FALSE

-----------------------------------------------------------------------------
(* serve_connection up to the start of the command.                        *)

\* main accepts and serves a connection; readiness is written first, and a
\* host that is gone by then costs nothing.  prctl may fail, and then the
\* runtime counts as failed.
Accept ==
  /\ pc = "accept"
  /\ \/ /\ failed' = TRUE /\ Leave("dead") /\ UNCHANGED wire
     \/ /\ ~failed /\ pc' = "request" /\ hostOpen' = TRUE
        /\ wire' = <<Frame("ready", TRUE)>>
        /\ UNCHANGED <<resume, failed, version, inbox, control, treeVars, pipeVars, open,
                       output, partial, terminal>>
  /\ UNCHANGED proc

\* request and spawn: a connection that ends early, a request that does not
\* validate and a program that cannot be started are all reported.
Request ==
  /\ pc = "request"
  /\ inbox # <<>> \/ ~hostOpen
  /\ pc' = "report"
  /\ inbox' = IF inbox = <<>> THEN inbox ELSE Tail(inbox)
  /\ UNCHANGED <<resume, failed, version, hostOpen, control, treeVars, proc, pipeVars, ioVars>>

Spawn ==
  /\ pc = "request" /\ inbox # <<>>
  /\ Head(inbox) \in {"execute1", "execute2"}
  /\ version' = IF Head(inbox) = "execute1" THEN 1 ELSE 2
  /\ inbox' = Tail(inbox)
  /\ \E p \in Proc :
       /\ ~Unreaped(p) /\ \A q \in Proc : q < p => Unreaped(q)
       /\ root' = p
       /\ proc' = [q \in Proc |-> IF q = p THEN [Unborn EXCEPT !.state = "live"]
                                  ELSE IF Unreaped(q) THEN proc[q] ELSE Unborn]
  /\ tree' = [status |-> FALSE, clean |-> FALSE] /\ snapshot' = {}
  /\ written' = [s \in Stream |-> 0] /\ held' = [s \in Stream |-> 0]
  /\ open' = Stream /\ output' = None /\ partial' = FALSE
  /\ terminal' = FALSE
  /\ pc' = "control"
  /\ UNCHANGED <<resume, failed, hostOpen, control, wire>>

\* The error metadata; a write that fails is ignored, and so is the reason.
Report ==
  /\ pc = "report"
  /\ wire' = IF hostOpen THEN Append(wire, Frame("error", TRUE)) ELSE wire
  /\ Leave("accept") /\ UNCHANGED <<failed, proc>>

-----------------------------------------------------------------------------
(* run: one iteration is Control, RootExited, Flush, Pull.                 *)

\* run returned, whatever its result: serve_connection cleans up.
EndRun == pc' = "killGroup" /\ resume' = "end"

\* Faulty variant of Pending: the end of the stream counts as "nothing yet".
PendingAtEof == inbox = <<>>

\* A read would block.
Pending == inbox = <<>> /\ hostOpen

\* Control.read: pieces are gathered over several calls, so that a slow host
\* never blocks the loop.
Control ==
  /\ pc = "control"
  /\ \/ /\ Pending
        /\ pc' = "exited" /\ UNCHANGED <<resume, inbox, control>>
     \/ /\ inbox = <<>> /\ ~hostOpen                         \* Disconnected
        /\ EndRun /\ UNCHANGED <<inbox, control>>
     \/ /\ inbox # <<>> /\ inbox' = Tail(inbox)
        /\ \/ /\ control = "header" /\ Head(inbox) = "header"
              /\ control' = "body" /\ UNCHANGED <<pc, resume>>
           \/ /\ control = "body" /\ Head(inbox) = "cancel" /\ version = 2
              /\ control' = "header"
              /\ pc' = "killGroup" /\ resume' = "exited"
           \/ /\ \/ control = "header" /\ Head(inbox) # "header"
                 \/ control = "body" /\ (Head(inbox) # "cancel" \/ version # 2)
              /\ EndRun /\ UNCHANGED control
  /\ UNCHANGED <<failed, version, hostOpen, treeVars, proc, pipeVars,
                 open, output, partial, terminal, wire>>

\* root_exited: the root is reaped as soon as it is dead, then its
\* descendants are cleaned up.
RootExited ==
  /\ pc = "exited"
  /\ IF ~tree.clean /\ (tree.status \/ proc[root].state = "zombie")
     THEN /\ proc' = [proc EXCEPT ![root] = Reaped]
          /\ tree' = [tree EXCEPT !.status = TRUE]
          /\ pc' = "killGroup" /\ resume' = "flush"
     ELSE pc' = "flush" /\ UNCHANGED <<resume, proc, tree>>
  /\ UNCHANGED <<failed, connVars, root, snapshot, pipeVars,
                 open, output, partial, terminal, wire>>

\* The wire with the next part of frame k, of which a part may be there.
Send(k, whole) ==
  IF partial THEN [wire EXCEPT ![Len(wire)].whole = whole]
             ELSE Append(wire, Frame(k, whole))

\* Output.flush writes what the socket takes; a closed socket ends run.
Flush ==
  /\ pc = "flush"
  /\ \/ /\ output = None /\ pc' = "pull"
        /\ UNCHANGED <<resume, output, partial, wire>>
     \/ /\ output # None /\ ~hostOpen /\ EndRun
        /\ UNCHANGED <<output, partial, wire>>
     \/ /\ output # None /\ hostOpen
        /\ \/ /\ wire' = Send(output, TRUE) /\ output' = None /\ partial' = FALSE
              /\ IF terminal THEN EndRun ELSE pc' = "pull" /\ UNCHANGED resume
           \/ /\ wire' = Send(output, FALSE) /\ partial' = TRUE
              /\ pc' = "pull" /\ UNCHANGED <<resume, output>>
           \/ /\ pc' = "pull" /\ UNCHANGED <<resume, output, partial, wire>>
  /\ UNCHANGED <<failed, connVars, treeVars, proc, pipeVars, open, terminal>>

\* A read of stream s returns 0: it is empty and has no writer left.
AtEof(s) == s \in open /\ held[s] = 0 /\ \A p \in Proc : ~Live(p)

HasData(s) == s \in open /\ held[s] > 0

\* Faulty variant of Drained: the exit is reported as soon as the tree is
\* gone, in place of the chunk that was just read.
DrainedAtOnce(left, out) == tree.clean

\* The last frame may be built: the tree is gone, and so is the output.
Drained(left, out) == tree.clean /\ left = {} /\ out = None

\* The loop's second half: feed the input, which changes nothing the guest
\* acts on; read one chunk; and build the last frame when nothing can follow
\* it.  The streams take turns in being read first; idle iterations make the
\* turn arbitrary.
Pull ==
  /\ pc = "pull" /\ pc' = "control"
  /\ IF terminal \/ output # None
     THEN UNCHANGED <<output, open, held, terminal>>
     ELSE \E first \in Stream :
       LET second == CHOOSE s \in Stream : s # first
           out    == IF HasData(first) THEN first ELSE IF HasData(second) THEN second ELSE None
           \* the second pipe is not read once the first has filled the buffer
           left   == open \ {s \in Stream : AtEof(s) /\ (s = first \/ ~HasData(first))}
       IN
       /\ open' = left
       /\ held' = [s \in Stream |-> IF s = out THEN held[s] - 1 ELSE held[s]]
       /\ terminal' = Drained(left, out)
       /\ output' = IF Drained(left, out) THEN "exited" ELSE out
  /\ UNCHANGED <<resume, failed, connVars, treeVars, proc, written, partial, wire>>

\* Setup, pipe, poll and socket errors: run returns with whatever is done.
RunError ==
  /\ pc \in {"control", "flush", "pull"}
  /\ EndRun
  /\ UNCHANGED <<failed, connVars, treeVars, proc, pipeVars, ioVars>>

-----------------------------------------------------------------------------
(* CommandTree.cleanup.                                                    *)

\* Faulty variant of Return: an error of run is reported like one of request.
ReturnReporting(treeAfter) ==
  /\ pc' = IF resume = "end" THEN "report" ELSE resume
  /\ resume' = None /\ tree' = treeAfter
  /\ UNCHANGED <<connVars, root, snapshot, pipeVars, open, output, partial, terminal>>

\* The way back from a successful cleanup: into run's loop, or out of
\* serve_connection, whose own call covers every way out of run.
Return(treeAfter) ==
  \/ resume = "end" /\ Leave("accept")
  \/ /\ resume # "end" /\ pc' = resume /\ resume' = None /\ tree' = treeAfter
     /\ UNCHANGED <<connVars, root, snapshot, pipeVars, open, output, partial, terminal>>

KillGroup ==
  /\ pc = "killGroup"
  /\ IF tree.clean
     THEN Return(tree) /\ UNCHANGED proc
     ELSE /\ pc' = "enumerate"
          /\ proc' = [p \in Proc |->
               [proc[p] EXCEPT !.killed = @ \/ (Live(p) /\ proc[p].group /\ ~tree.status)]]
          /\ UNCHANGED <<resume, connVars, treeVars, pipeVars, open, output, partial, terminal>>
  /\ UNCHANGED <<failed, wire>>

\* Faulty variant of Enumerate: zombies are reaped while the children are
\* listed.
EnumerateReaping ==
  /\ pc = "enumerate" /\ pc' = "kill"
  /\ snapshot' = Children
  /\ proc' = [p \in Proc |->
       IF p \in Children /\ proc[p].state = "zombie" THEN Reaped ELSE proc[p]]
  /\ tree' = [tree EXCEPT !.status = @ \/ proc[root].state = "zombie"]
  /\ UNCHANGED <<resume, failed, connVars, root, pipeVars, ioVars>>

\* Read /proc/self/task/*/children.
Enumerate ==
  /\ pc = "enumerate" /\ pc' = "kill"
  /\ snapshot' = Children
  /\ UNCHANGED <<resume, failed, connVars, root, tree, proc, pipeVars, ioVars>>

Kill ==
  /\ pc = "kill" /\ pc' = "reap"
  /\ proc' = [p \in Proc |-> [proc[p] EXCEPT !.killed = @ \/ (p \in snapshot /\ Live(p))]]
  /\ snapshot' = {}
  /\ UNCHANGED <<resume, failed, connVars, root, tree, pipeVars, ioVars>>

\* Faulty variant of NoChildLeft: an empty list of the children this pass
\* could reap stands for the absence of children.
NoChildLeftBySnapshot == \A p \in Children : proc[p].state # "zombie"

\* waitpid(-1) fails with ECHILD.
NoChildLeft == Children = {}

\* waitpid(-1) until nothing is left to reap: then either there is no child
\* (the tree is clean, if the root's status was seen) or another pass.
Reap ==
  LET Rest == <<connVars, root, snapshot, pipeVars, open, output, partial, terminal>>
  IN
  /\ pc = "reap"
  /\ \/ \E p \in Children :
          /\ proc[p].state = "zombie"
          /\ proc' = [proc EXCEPT ![p] = Reaped]
          /\ tree' = [tree EXCEPT !.status = @ \/ p = root]
          /\ UNCHANGED <<pc, resume, failed, Rest>>
     \/ /\ \A p \in Children : proc[p].state # "zombie"
        /\ ~NoChildLeft
        /\ pc' = "enumerate" /\ UNCHANGED <<resume, failed, proc, tree, Rest>>
     \/ /\ NoChildLeft /\ tree.status
        /\ Return([tree EXCEPT !.clean = TRUE]) /\ UNCHANGED <<failed, proc>>
     \/ /\ NoChildLeft /\ ~tree.status
        /\ failed' = TRUE /\ Leave("dead") /\ UNCHANGED proc
  /\ UNCHANGED wire

\* The deadline passes, or a call of a cleanup fails: the failure is
\* remembered, both callers return it, and main stops.
Deadline ==
  /\ pc \in {"killGroup", "enumerate", "kill", "reap"} /\ ~tree.clean
  /\ failed' = TRUE /\ Leave("dead")
  /\ UNCHANGED <<proc, wire>>

Agent ==
  \/ Accept \/ Request \/ Spawn \/ Report
  \/ Control \/ RootExited \/ Flush \/ Pull \/ RunError
  \/ KillGroup \/ Enumerate \/ Kill \/ Reap

-----------------------------------------------------------------------------
(* The host and the command.                                               *)

\* The host's steps are only noticed where the guest uses the socket, so they
\* are taken there.
HostWrite ==
  /\ hostOpen /\ pc \in {"request", "control"} /\ Len(inbox) < MaxInbox
  /\ \E x \in Piece : inbox' = Append(inbox, x)
  /\ UNCHANGED <<guestVars, version, hostOpen, control, treeVars, proc, pipeVars, ioVars>>

HostClose ==
  /\ hostOpen /\ pc \in {"request", "report", "control", "flush"}
  /\ hostOpen' = FALSE
  /\ UNCHANGED <<guestVars, version, inbox, control, treeVars, proc, pipeVars, ioVars>>

\* The child stays in the group of its parent or starts one of its own.
Fork(p, q) ==
  /\ Live(p) /\ ~proc[p].killed /\ proc[q].state = "unborn" /\ q > p
  /\ \E g \in {FALSE, proc[p].group} :
       proc' = [proc EXCEPT ![q] = [state |-> "live", parent |-> p, group |-> g, killed |-> FALSE]]
  /\ UNCHANGED <<guestVars, connVars, treeVars, pipeVars, ioVars>>

\* An exit, by itself or by a signal; the children are adopted by the guest.
Exit(p) ==
  /\ Live(p)
  /\ proc' = [q \in Proc |-> IF q = p THEN [Unborn EXCEPT !.state = "zombie", !.parent = proc[p].parent]
                             ELSE IF proc[q].parent = p THEN [proc[q] EXCEPT !.parent = Guest]
                             ELSE proc[q]]
  /\ UNCHANGED <<guestVars, connVars, treeVars, pipeVars, ioVars>>

\* A process of the command reaps a child of its own.
Collect(p) ==
  /\ proc[p].state = "zombie" /\ proc[p].parent # Guest
  /\ proc' = [proc EXCEPT ![p] = Reaped]
  /\ UNCHANGED <<guestVars, connVars, treeVars, pipeVars, ioVars>>

WriteOut(s) ==
  /\ \E p \in Proc : Live(p) /\ ~proc[p].killed
  /\ written[s] < MaxChunks
  /\ written' = [written EXCEPT ![s] = @ + 1]
  /\ held' = [held EXCEPT ![s] = @ + 1]
  /\ UNCHANGED <<guestVars, connVars, treeVars, proc, ioVars>>

Command ==
  \/ \E p, q \in Proc : Fork(p, q)
  \/ \E p \in Proc : Exit(p) \/ Collect(p)
  \/ \E s \in Stream : WriteOut(s)

\* What happens after the agent has stopped is not followed.
Next == Agent \/ Deadline \/ HostWrite \/ HostClose \/ (pc # "dead" /\ Command)

Spec == Init /\ [][Next]_vars

\* The guest's thread is scheduled; the clock passes the deadline of a
\* cleanup that comes back to its check again and again.
FairSpec ==
  Spec /\ WF_vars(Agent) /\ SF_vars(Deadline)

-----------------------------------------------------------------------------
(* Properties.                                                             *)

ProcRec == [state : {"unborn", "live", "zombie", "reaped"},
            parent : Proc \cup {Guest}, group : BOOLEAN, killed : BOOLEAN]
FrameRec == [kind : Stream \cup {"ready", "exited", "error"}, whole : BOOLEAN]
TreeRec == [status : BOOLEAN, clean : BOOLEAN]

\* Every variable has its type.
GuestTypeOK ==
  /\ pc \in {"accept", "request", "report", "control", "exited", "flush", "pull",
             "killGroup", "enumerate", "kill", "reap", "dead"}
  /\ resume \in {None, "end", "exited", "flush"}
  /\ failed \in BOOLEAN
  /\ version \in {1, 2} /\ inbox \in Seq(Piece) /\ hostOpen \in BOOLEAN
  /\ control \in {"header", "body"}
  /\ root \in Proc /\ tree \in TreeRec
  /\ snapshot \subseteq Proc
  /\ proc \in [Proc -> ProcRec]
  /\ written \in [Stream -> Nat] /\ held \in [Stream -> Nat]
  /\ open \subseteq Stream
  /\ output \in Stream \cup {"exited", None} /\ partial \in BOOLEAN
  /\ terminal \in BOOLEAN
  /\ wire \in Seq(FrameRec)

\* The doc of serve_connection: Ok means all descendants of the command are
\* gone, also those that left its process group; so whenever the guest waits
\* for a connection or a request, no process of an earlier command exists.
NoReuse == pc \in {"accept", "request", "report"} => \A p \in Proc : ~Unreaped(p)

\* When the exit is reported, every process is gone and every chunk the
\* command wrote is on the wire before the report.
SentOf(s) == Cardinality({i \in DOMAIN wire : wire[i].kind = s /\ wire[i].whole})
ExitedComplete ==
  terminal => /\ \A p \in Proc : ~Unreaped(p)
              /\ \A s \in Stream : SentOf(s) = written[s]

\* What the host reads is ready, output frames, and at most one last frame;
\* only the last frame can be cut off, and an error never follows a part of
\* another frame.
WireWellFormed ==
  \A i \in DOMAIN wire :
    /\ (i = 1) <=> (wire[i].kind = "ready")
    /\ i < Len(wire) => wire[i].whole /\ wire[i].kind \notin {"exited", "error"}
    /\ wire[i].kind = "error" => i = 2

\* The comment of cleanup_inner: nothing is reaped between listing the
\* children and killing them, so no signal goes to a number that may have
\* been given to another process.
KillsOwnChildren == \A p \in snapshot : Unreaped(p) /\ proc[p].parent = Guest

\* A host that disconnects, at whatever point of the exchange, frees the
\* guest: it becomes ready for the next connection or it stops.
DisconnectEnds == (~hostOpen) ~> (pc \in {"accept", "dead"})
=============================================================================
