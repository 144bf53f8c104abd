----------------------------- MODULE Activator -----------------------------
(***************************************************************************)
(* `sower activator` (commands/activator): systemd starts one process per  *)
(* connection, as root, so several run at a time; each authorizes its      *)
(* peer, reads one request, runs the commands it stands for, relays their  *)
(* output and answers with their exit code.                                *)
(*                                                                         *)
(* Steps are those of the activators, of the commands they run, of clients *)
(* that disconnect, and of whatever kills an activator with its command.    *)
(* The services profiles and the links to them are shared files.  The      *)
(* effect of a network request is module NetworkLease; here it only has an *)
(* answer.  Commands are external: they print, fail or succeed.            *)
(***************************************************************************)
EXTENDS Naturals, Sequences, FiniteSets

CONSTANTS
  Proc,      \* the activator processes
  Seed,      \* service seeds; a services profile is a set of them
  Requests,  \* Proc -> the requests a client may send it, with its peer
  MaxLines,  \* bound: Proc -> lines the commands of its request print
  MaxFaults  \* bound: activators that are killed and clients that disconnect

Stream == {"stdout", "stderr"}
Kind == {"garbage", "network", "invalid", "reboot", "home-manager", "nixos", "services"}
\* The peer by its credentials: no allowed group, one that is only
\* supplementary and counts for networks, or a primary one, without and with
\* a network policy.
Peer == {"none", "network", "activation", "both"}
Request == [peer: Peer, kind: Kind, seeds: Seq(Seed)]

ASSUME ActivatorAssumption ==
  /\ Requests \in [Proc -> SUBSET Request]
  /\ \A p \in Proc : \A r \in Requests[p] : r.kind = "services" => r.seeds # <<>>
  /\ MaxLines \in [Proc -> Nat] /\ MaxFaults \in Nat

VARIABLES
  act,       \* Proc -> an activator's state and its connection
  files,     \* profile -> seed -> what its directory has of the seed's units
  current,   \* the profile the current link names, {} if there is none
  tmp,       \* the one current.new names
  units,     \* the seeds whose units systemd runs
  switched,  \* the profiles that some sd-switch succeeded for
  disturbed, \* services runs overlapped, failed to switch or to link, or were killed
  faults

shared == <<files, current, tmp, units, switched, disturbed>>
vars == <<act, shared, faults>>

\* The profile directory is named by content_hash: order and names are not in it.
Profile == (SUBSET Seed) \ {{}}
ContentHash(seeds) == {seeds[i] : i \in 1..Len(seeds)}

Running == 2  \* no exit code yet
NoLines == [s \in Stream |-> 0]
NoRequest == [peer |-> "none", kind |-> "garbage", seeds |-> <<>>]
NewProc == [at |-> "listening", req |-> NoRequest, old |-> {}, todo |-> <<>>,
            cmd |-> "none", fresh |-> FALSE, code |-> Running, open |-> FALSE, pipe |-> NoLines,
            deaf |-> {}, channel |-> 0, lines |-> 0, lost |-> 0, ran |-> <<>>,
            replies |-> <<>>, gone |-> FALSE]

Commands == {"nix-env", "switch-to-configuration", "activate", "reboot", "cp", "sd-switch"}
Reply == {"line", "note", "warning", "error", "complete0", "complete1"}

Place == {"listening", "read", "next", "stream", "resolve", "remove", "symlink", "rename",
          "failed", "stuck", "done"}
Code == {0, 1, Running}
Exited == Commands \X {0, 1}

\* Of the lines in the pipes and in the channel only the number matters.
Activation ==
  [at: Place, req: Request, old: SUBSET Seed, todo: Seq(Commands),
   cmd: Commands \cup {"none"}, fresh: BOOLEAN, code: Code, open: BOOLEAN,
   pipe: [Stream -> Nat], deaf: SUBSET Stream, channel: Nat, lines: Nat, lost: Nat,
   ran: Seq(Exited), replies: Seq(Reply), gone: BOOLEAN]

ActTypeOK ==
  /\ act \in [Proc -> Activation] /\ \A p \in Proc : act[p].lines <= MaxLines[p]
  /\ files \in [Profile -> [Seed -> {"absent", "partial", "full"}]]
  /\ current \subseteq Seed /\ tmp \subseteq Seed /\ units \subseteq Seed
  /\ switched \subseteq Profile /\ disturbed \in BOOLEAN /\ faults \in 0..MaxFaults

Init ==
  /\ act = [p \in Proc |-> NewProc]
  /\ files = [h \in Profile |-> [s \in Seed |-> "absent"]]
  /\ current = {} /\ tmp = {} /\ units = {} /\ switched = {}
  /\ disturbed = FALSE /\ faults = 0

\* The output callback ignores that a client is gone, and so does send_response
\* where its log has no callback; where it has one, see SendError.
Sent(p, kinds) == IF act[p].gone THEN act[p].replies ELSE act[p].replies \o kinds

\* The request is over, and with it what the process holds for it; its
\* connection and its history stay.
Leave(p, at, kinds) ==
  [NewProc EXCEPT !.at = at, !.req = act[p].req, !.lines = act[p].lines,
                  !.lost = act[p].lost, !.ran = act[p].ran, !.gone = act[p].gone, !.replies = Sent(p, kinds)]
\* The process answers and exits.
Over(p, kinds) == Leave(p, "done", kinds)
Ends(p, kinds) == act' = [act EXCEPT ![p] = Over(p, kinds)]
\* activate::run failed, and its error went to the client through the log.
Failed(p) == Leave(p, "failed", <<"error">>)
Errs(p) == act' = [act EXCEPT ![p] = Failed(p)]

-----------------------------------------------------------------------------
(* run_socket and run_with_network *)

\* A peer whose credentials cannot be had, or without any of the allowed
\* groups, is turned away; without an answer if its groups cannot be had.
Accept(p, r) ==
  LET Goes(at, replies) ==
        act' = [act EXCEPT ![p] = [NewProc EXCEPT !.at = at, !.req = r, !.replies = replies]]
  IN
  /\ act[p].at = "listening" /\ r \in Requests[p]
  /\ \/ Goes("done", <<"error">>)
     \/ r.peer \in {"none", "network"} /\ Goes("done", <<>>)
     \/ r.peer # "none" /\ Goes("read", <<>>)
  /\ UNCHANGED <<shared, faults>>

NetworkRequest(p) ==
  /\ act[p].at = "read" /\ act[p].req.kind = "network"
  /\ \/ Ends(p, <<"error", "complete1">>)
     \/ /\ act[p].req.peer \in {"network", "both"}
        /\ Ends(p, <<"note", "complete0">>) \/ Ends(p, <<"complete0">>)
  /\ UNCHANGED <<shared, faults>>

\* Faulty variant of Authorized: a peer that may have networks may activate.
AuthorizedForAny(peer) == peer # "none"

Authorized(peer) == peer \in {"activation", "both"}

\* A request that cannot be read, may not be made or does not validate.
Refuse(p) ==
  /\ act[p].at = "read" /\ act[p].req.kind # "network"
  /\ act[p].req.kind \in {"garbage", "invalid"} \/ ~Authorized(act[p].req.peer)
  /\ Ends(p, <<"error">>)
  /\ UNCHANGED <<shared, faults>>

\* The commands activate::run and services::run start, in order.
PlanOf(r) ==
  CASE r.kind = "nixos" -> <<"nix-env", "switch-to-configuration">>
    [] r.kind = "home-manager" -> <<"activate">>
    [] r.kind = "reboot" -> <<"reboot">>
    [] OTHER -> [i \in 1..Len(r.seeds) + 1 |-> IF i <= Len(r.seeds) THEN "cp" ELSE "sd-switch"]

Begin(p) ==
  /\ act[p].at = "read" /\ Authorized(act[p].req.peer)
  /\ act[p].req.kind \in {"nixos", "home-manager", "reboot", "services"}
  /\ act' = [act EXCEPT ![p].todo = PlanOf(act[p].req),
                        ![p].at = IF act[p].req.kind = "services" THEN "resolve" ELSE "next"]
  /\ UNCHANGED <<shared, faults>>

-----------------------------------------------------------------------------
(* services::run *)

Hash(p) == ContentHash(act[p].req.seeds)
\* The seed whose units the cp at the head of the plan copies.
SeedOfCp(p) == act[p].req.seeds[Len(act[p].req.seeds) + 2 - Len(act[p].todo)]

InServices(p) == /\ act[p].req.kind = "services"
                 /\ act[p].at \in {"next", "stream", "remove", "symlink", "rename"}

\* Read the current link; nothing to do if it names this profile already.
\* Otherwise the directory is created; either may fail.
ResolveCurrent(p) ==
  /\ act[p].at = "resolve"
  /\ \/ /\ current = Hash(p)
        /\ Ends(p, <<"note", "note", "complete0">>)
        /\ UNCHANGED disturbed
     \/ /\ current # Hash(p)
        /\ act' = [act EXCEPT ![p].at = "next", ![p].old = current]
        /\ disturbed' = (disturbed \/ \E q \in Proc \ {p} : InServices(q))
     \/ Errs(p) /\ UNCHANGED disturbed
  /\ UNCHANGED <<files, current, tmp, units, switched, faults>>

\* Faulty variant of OldUnits: the empty directory is used in any case.
OldUnitsEmpty(p) == {}

\* old_units_path: an empty directory if there was no current profile.
OldUnits(p) == act[p].old

\* What sd-switch makes of the running units.
SdSwitch(old, new) == (units \ (old \ new)) \cup (new \ old)

\* update_current, three system calls on names that all activators share.  It
\* ignores that the removal failed, and first creates the parent, which may fail.
RemoveTmp(p) ==
  /\ act[p].at = "remove"
  /\ \/ /\ tmp' \in {{}, tmp}
        /\ act' = [act EXCEPT ![p].at = "symlink"] /\ UNCHANGED disturbed
     \/ Errs(p) /\ disturbed' = TRUE /\ UNCHANGED tmp
  /\ UNCHANGED <<files, current, units, switched, faults>>

Symlink(p) ==
  /\ act[p].at = "symlink"
  /\ \/ /\ tmp = {} /\ tmp' = Hash(p)
        /\ act' = [act EXCEPT ![p].at = "rename"] /\ UNCHANGED disturbed
     \/ Errs(p) /\ disturbed' = TRUE /\ UNCHANGED tmp
  /\ UNCHANGED <<files, current, units, switched, faults>>

Rename(p) ==
  /\ act[p].at = "rename"
  /\ \/ /\ tmp # {} /\ current' = tmp /\ tmp' = {}
        /\ Ends(p, <<"complete0">>) /\ UNCHANGED disturbed
     \/ Errs(p) /\ disturbed' = TRUE /\ UNCHANGED <<current, tmp>>
  /\ UNCHANGED <<files, units, switched, faults>>

-----------------------------------------------------------------------------
(* activate::stream and its two pump threads *)

\* warn_collisions and the spawn: seeds after the first may have files of the
\* same names, reported by callback and log.  cp --no-clobber starts with the
\* first file that is not there yet.
Spawn(p) ==
  /\ act[p].at = "next" /\ act[p].todo # <<>>
  /\ LET cmd == Head(act[p].todo)
         fresh == cmd = "cp" /\ files[Hash(p)][SeedOfCp(p)] = "absent"
         collides == IF cmd = "cp" /\ act[p].ran # <<>> THEN BOOLEAN ELSE {FALSE}
     IN  /\ \E c \in collides :
              act' = [act EXCEPT ![p].at = "stream", ![p].cmd = cmd, ![p].code = Running,
                                 ![p].fresh = fresh, ![p].open = TRUE,
                                 ![p].replies = Sent(p, IF c THEN <<"warning", "warning">>
                                                             ELSE <<>>)]
         /\ files' = IF fresh THEN [files EXCEPT ![Hash(p)][SeedOfCp(p)] = "partial"] ELSE files
  /\ UNCHANGED <<current, tmp, units, switched, disturbed, faults>>

SpawnFails(p) ==
  /\ act[p].at = "next" /\ act[p].todo # <<>>
  /\ Errs(p)
  /\ UNCHANGED <<shared, faults>>

\* The command, or whatever it left running, prints a line to a stream.
WriteLine(p, s) ==
  /\ act[p].open /\ s \notin act[p].deaf /\ act[p].lines < MaxLines[p]
  /\ act' = [act EXCEPT ![p].pipe[s] = @ + 1, ![p].lines = @ + 1]
  /\ UNCHANGED <<shared, faults>>

\* Nothing holds the streams any more, which may be before the command exits,
\* or after.
Close(p) ==
  /\ act[p].open
  /\ act' = [act EXCEPT ![p].open = FALSE]
  /\ UNCHANGED <<shared, faults>>

\* status.code().unwrap_or(1)
ExitCode(status) == IF status = "ok" THEN 0 ELSE 1

ExitCommand(p, status) ==
  /\ act[p].cmd # "none" /\ act[p].code = Running
  /\ act' = [act EXCEPT ![p].code = ExitCode(status),
                        ![p].ran = Append(@, <<act[p].cmd, ExitCode(status)>>)]
  /\ files' = IF act[p].fresh /\ status = "ok"
              THEN [files EXCEPT ![Hash(p)][SeedOfCp(p)] = "full"] ELSE files
  /\ IF act[p].cmd = "sd-switch"
     THEN IF status = "ok"
          THEN /\ units' = SdSwitch(OldUnits(p), Hash(p))
               /\ switched' = switched \cup {Hash(p)} /\ UNCHANGED disturbed
          ELSE /\ units' \in {units, SdSwitch(OldUnits(p), Hash(p))}
               /\ disturbed' = TRUE /\ UNCHANGED switched
     ELSE UNCHANGED <<units, switched, disturbed>>
  /\ UNCHANGED <<current, tmp, faults>>

\* pump: the next line of a stream goes to the channel.
Pump(p, s) ==
  /\ act[p].pipe[s] > 0
  /\ act' = [act EXCEPT ![p].pipe[s] = @ - 1, ![p].channel = @ + 1]
  /\ UNCHANGED <<shared, faults>>

\* The next line of a stream is not UTF-8: its pump ends and drops the stream,
\* so what is in the pipe is lost and nothing more can be written to it.
PumpStops(p, s) ==
  /\ act[p].pipe[s] > 0
  /\ act' = [act EXCEPT ![p].pipe[s] = 0, ![p].deaf = @ \cup {s},
                        ![p].lost = @ + act[p].pipe[s]]
  /\ UNCHANGED <<shared, faults>>

Relay(p) ==
  /\ act[p].at = "stream" /\ act[p].channel > 0
  /\ act' = [act EXCEPT ![p].channel = @ - 1, ![p].replies = Sent(p, <<"line">>)]
  /\ UNCHANGED <<shared, faults>>

\* Faulty variant of Drained: the command's exit ends the stream.
DrainedAtExit(p) == TRUE

\* Faulty variant of Drained: the receiver keeps a sender of its own.
DrainedHoldingSender(p) == FALSE

\* Both pumps are done with their stream and dropped their senders.
Drained(p) ==
  /\ ~act[p].open \/ act[p].deaf = Stream
  /\ act[p].pipe = NoLines /\ act[p].channel = 0

\* Faulty variant of Succeeded: the exit code of sd-switch is not looked at.
SucceededOrSwitch(p) == act[p].code = 0 \/ act[p].cmd = "sd-switch"

Succeeded(p) == act[p].code = 0

\* stream returns, and run goes on: a cp that failed is an error, any other
\* failure is the answer, and the last command of a profile updates the link.
EndStream(p) ==
  /\ act[p].at = "stream" /\ Drained(p) /\ act[p].code # Running
  /\ LET rest == Tail(act[p].todo)
         goOn(where) == [act[p] EXCEPT !.at = where, !.cmd = "none", !.fresh = FALSE,
                                       !.todo = rest, !.code = Running, !.open = FALSE,
                                       !.pipe = NoLines, !.deaf = {}, !.channel = 0]
     IN  act' = [act EXCEPT ![p] =
                   CASE ~Succeeded(p) /\ act[p].cmd = "cp" -> Failed(p)
                     [] ~Succeeded(p) /\ act[p].cmd # "cp" -> Over(p, <<"complete1">>)
                     [] Succeeded(p) /\ rest # <<>> -> goOn("next")
                     [] Succeeded(p) /\ rest = <<>> ->
                          IF act[p].cmd = "sd-switch" THEN goOn("remove")
                          ELSE Over(p, <<"complete0">>)]
  /\ UNCHANGED <<shared, faults>>

-----------------------------------------------------------------------------
(* The end of run_with_network *)

\* The error is sent, then the completion.  The callback of the log is still in
\* its slot, and send_response logs its own failure while it holds the writer
\* that this callback locks: if the client is gone, it waits for itself.
SendError(p) ==
  /\ act[p].at = "failed"
  /\ IF act[p].gone THEN act' = [act EXCEPT ![p].at = "stuck"]
                    ELSE Ends(p, <<"error", "complete1">>)
  /\ UNCHANGED <<shared, faults>>

-----------------------------------------------------------------------------
(* Faults *)

\* The client's timeout passes, or it dies.
Disconnect(p) ==
  /\ act[p].at \notin {"listening", "done"} /\ ~act[p].gone /\ faults < MaxFaults
  /\ act' = [act EXCEPT ![p].gone = TRUE]
  /\ faults' = faults + 1
  /\ UNCHANGED shared

\* The activator and its command are killed, the latter halfway.
Kill(p) ==
  /\ act[p].at \notin {"listening", "done"} /\ faults < MaxFaults
  /\ act' = [act EXCEPT ![p] = [Over(p, <<>>) EXCEPT !.gone = TRUE]]
  /\ faults' = faults + 1
  /\ disturbed' = (disturbed \/ InServices(p))
  /\ UNCHANGED <<files, current, tmp, units, switched>>

-----------------------------------------------------------------------------
ActivatorStep(p) ==
  \/ NetworkRequest(p) \/ Refuse(p) \/ Begin(p)
  \/ ResolveCurrent(p) \/ RemoveTmp(p) \/ Symlink(p) \/ Rename(p)
  \/ Spawn(p) \/ SpawnFails(p) \/ Relay(p) \/ EndStream(p) \/ SendError(p)
  \/ \E s \in Stream : Pump(p, s) \/ PumpStops(p, s)

CommandStep(p) ==
  \/ Close(p)
  \/ \E status \in {"ok", "failed", "signaled"} : ExitCommand(p, status)

Next == \E p \in Proc :
  \/ \E r \in Requests[p] : Accept(p, r)
  \/ ActivatorStep(p) \/ CommandStep(p)
  \/ \E s \in Stream : WriteLine(p, s)
  \/ Disconnect(p) \/ Kill(p)

Spec == Init /\ [][Next]_vars

\* Activators run on; commands exit and their streams are closed in the end.
FairSpec == Spec /\ \A p \in Proc : WF_vars(ActivatorStep(p)) /\ WF_vars(CommandStep(p))

-----------------------------------------------------------------------------
(* Properties *)

Completions == {"complete0", "complete1"}

\* The client reads everything: if it stayed connected to an activator that
\* was not killed, every line the commands printed, up to the first of a stream
\* that is not UTF-8, precedes the one completion, which is the last response
\* (the pump threads and the channel in activate::stream).
RepliesComplete ==
  \A p \in Proc :
    LET r == act[p].replies
        At(k) == {i \in 1..Len(r) : r[i] \in k}
    IN  /\ \A i \in At(Completions) : i = Len(r)
        /\ act[p].at = "done" /\ ~act[p].gone => Cardinality(At({"line"})) + act[p].lost = act[p].lines

\* An exit code of 0 tells the truth: every command of the request ran and
\* succeeded, unless the services profile was current already.  No command
\* runs after one that failed, nor for a peer that may not activate; and the
\* system profile is set before the switch, so that a host that reboots in
\* between boots what it was switching to.
ClientTruth ==
  \A p \in Proc :
    LET ran == act[p].ran
        plan == PlanOf(act[p].req)
        read == {act[p].replies[i] : i \in 1..Len(act[p].replies)}
    IN  /\ "complete0" \in read /\ "note" \notin read /\ act[p].req.kind # "network"
             => ran = [i \in 1..Len(plan) |-> <<plan[i], 0>>]
        /\ ran # <<>> => act[p].req.peer \in {"activation", "both"}
        /\ \A i \in 1..Len(ran) :
             /\ i < Len(ran) => ran[i][2] = 0
             /\ ran[i][1] = "switch-to-configuration" => i = 2 /\ ran[1][1] = "nix-env"

\* The current link only ever names a profile that sd-switch succeeded for and
\* that has units of every seed, whichever activators overlap, fail or are
\* killed between the three system calls of update_current.
CurrentSwitched ==
  current # {} => current \in switched /\ \A s \in current : files[current][s] # "absent"

\* While no services run overlapped another, failed to switch or to link or
\* was killed, systemd runs exactly the units of the current profile between two runs.
UnitsFollowCurrent ==
  ~disturbed /\ (\A p \in Proc : ~InServices(p)) => units = current

\* Every connection is answered or dropped, whatever fails in the meantime, if
\* the commands end: no order of exit, close and output leaves the receiver
\* or the pumps waiting.  The one exception is an activation that fails after
\* its client has gone: sending its error may block on the writer for ever.
RequestsEnd ==
  \A p \in Proc :
    act[p].at = "read" ~> act[p].at = "done" \/ (act[p].at = "stuck" /\ act[p].gone)
=============================================================================
