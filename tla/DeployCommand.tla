--------------------------- MODULE DeployCommand ---------------------------
(***************************************************************************)
(* `sower deploy` (commands/deploy.rs): one run of the command, from its   *)
(* arguments to its exit status, next to the server and its deployments.   *)
(*                                                                         *)
(* The server is what module DeploymentRow promises of it, so its rows     *)
(* change while the command works and between two polls; requests may be   *)
(* refused, and answers may get lost after they took effect.  The path     *)
(* with --sudo ends in module SudoDeploy.  Nix (build, copy) is external:  *)
(* it may fail, and a build yields any artifact.                           *)
(***************************************************************************)
EXTENDS DeploymentRow, SudoDeploy

CONSTANTS
  Args,      \* the command lines that are explored
  Artifacts, \* the store paths a build or --path may yield
  NoId       \* no deployment

SeedType == {"nixos", "home-manager", "nix-darwin", "service"}

\* What stands on the command line.  A flake reference is a bare host, a
\* canonical job, nixosConfigurations.x..., another output, or has no usable
\* attribute; connects: an endpoint and a token can be resolved.
ArgRec == [target: {"none", "seed", "path", "host", "job", "configuration", "output", "noattr"},
           to: BOOLEAN, name: BOOLEAN, type: SeedType \cup {"none"},
           tags: {"none", "good", "bad"}, action: {"none", "stage", "activate", "restart"},
           copy: {"none", "ssh", "store"}, sudo: BOOLEAN, force: BOOLEAN, override: BOOLEAN,
           reason: BOOLEAN, noWait: BOOLEAN, connects: BOOLEAN]

\* manifest: what seed.json is; type: the type it names; kind: the seed type
\* whose marker file the artifact has; host: infer_name finds a host in it.
Artifact == [manifest: {"missing", "invalid", "valid"}, type: SeedType,
             kind: SeedType \cup {"other"}, host: BOOLEAN]

ASSUME DeployAssumption ==
  Args \subseteq ArgRec /\ Artifacts \subseteq Artifact /\ NoId \notin Id

VARIABLES
  pc, args,
  artifact,   \* the artifact in hand, a set of at most one
  seedType, named,
  copied,     \* the artifacts that were copied to --copy-to
  seeds,      \* the seeds this command registered
  seedSid,    \* the seed it deploys
  rowSeed,    \* Id -> what the row deploys
  created,    \* the rows its requests inserted
  dep,        \* the row it waits for
  info,       \* DeploymentInfo: the state and the result it last read
  exit,
  succeeded   \* the rows that were ever completed with success

cliVars == <<artifact, seedType, named, copied, seeds, seedSid>>
serverVars == <<shown, outcome, rowSeed, created, succeeded>>
waitVars == <<dep, info>>
vars == <<pc, args, exit, cliVars, serverVars, waitVars, sudoVars>>

NoInfo == [state |-> "none", result |-> "none"]
Registered == [artifact: Artifacts, type: SeedType]
\* A seed's sid: the one of --seed, or of what was registered.
NoSeed == [given |-> FALSE, of |-> {}]
Given == [given |-> TRUE, of |-> {}]
Sid(seed) == [given |-> FALSE, of |-> {seed}]

DeployTypeOK ==
  /\ RowTypeOK /\ SudoTypeOK
  /\ args \in Args /\ artifact \in SUBSET Artifacts /\ copied \subseteq Artifacts
  /\ seedType \in SeedType /\ named \in BOOLEAN
  /\ seeds \subseteq Registered
  /\ created \subseteq Id /\ succeeded \subseteq Id /\ dep \in Id \cup {NoId}
  /\ exit \in {"none", "ok", "error"}

\* Clap's conflicts_with and requires.
Parsed(a) ==
  /\ a.target = "seed" => a.copy = "none" /\ a.tags = "none"
  /\ a.sudo => /\ a.copy # "none" /\ a.target # "seed" /\ a.tags = "none"
               /\ ~a.to /\ ~a.name /\ ~a.force /\ ~a.override /\ ~a.reason /\ ~a.noWait

DeployInit ==
  /\ RowInit /\ SudoInit
  /\ pc = "start" /\ args \in {a \in Args : Parsed(a)} /\ exit = "none"
  /\ artifact = {} /\ seedType = "nixos" /\ named = FALSE
  /\ copied = {} /\ seeds = {} /\ seedSid = NoSeed
  /\ rowSeed = [d \in Id |-> NoSeed] /\ created = {} /\ succeeded = {}
  /\ dep = NoId /\ info = NoInfo

Exit(status) == pc' = "exit" /\ exit' = status
Fails == Exit("error") /\ UNCHANGED <<args, cliVars, serverVars, waitVars, sudoVars>>
Goto(where) == pc' = where /\ UNCHANGED <<args, exit>>

Flake(a) == a.target \in {"host", "job", "configuration", "output", "noattr"}
Sudoable == {"nixos", "home-manager"}

-----------------------------------------------------------------------------
(* run, validate, resolve_garden, authenticated_client *)

\* sudo::Target::parse accepts ssh and ssh-ng URIs that are only an authority.
SshTarget(copy) == copy = "ssh"

Valid(a) ==
  /\ a.target # "none"
  /\ a.override => a.reason /\ a.action # "none"
  /\ a.sudo => SshTarget(a.copy) /\ a.type \in Sudoable \cup {"none"}

GardenKnown(a) == a.to \/ a.target \in {"host", "job"}

Start ==
  /\ pc = "start"
  /\ IF Valid(args) /\ (args.sudo \/ (GardenKnown(args) /\ args.connects))
     THEN /\ Goto(IF args.sudo THEN "prepare" ELSE "warm")
          /\ UNCHANGED <<cliVars, serverVars, waitVars, sudoVars>>
     ELSE Fails

\* warm_seed: best effort, so whether it is skipped, finds nothing, downloads
\* the garden's previous seed or fails, the command goes on.
Warm ==
  /\ pc = "warm"
  /\ Goto("resolve")
  /\ UNCHANGED <<cliVars, serverVars, waitVars, sudoVars>>

\* resolve_seed with --seed.
GivenSeed ==
  /\ pc = "resolve" /\ args.target = "seed"
  /\ seedSid' = Given
  /\ Goto("post")
  /\ UNCHANGED <<artifact, seedType, named, copied, seeds, serverVars, waitVars, sudoVars>>

PrepareFirst ==
  /\ pc = "resolve" /\ args.target # "seed"
  /\ Goto("prepare")
  /\ UNCHANGED <<cliVars, serverVars, waitVars, sudoVars>>

-----------------------------------------------------------------------------
(* prepare_artifact *)

\* A manifest counts for a canonical job and for a path that has one.
Canonical(a, art) ==
  a.target = "job" \/ (a.target = "path" /\ art.manifest # "missing")

TypeOf(a, art) ==
  IF a.type # "none" THEN a.type
  ELSE IF Canonical(a, art) THEN art.type ELSE "nixos"

\* The name the flake reference or the manifest implies.
Named(a, art) == Canonical(a, art) \/ a.target \in {"host", "configuration"}

\* The build, or the path; then the tags, the manifest and the type.
Build(art) ==
  /\ pc = "prepare"
  /\ args.target # "noattr" /\ args.tags # "bad"
  /\ Canonical(args, art) => art.manifest = "valid"
  /\ args.sudo => /\ TypeOf(args, art) \in Sudoable
                  /\ args.action = "restart" => TypeOf(args, art) = "nixos"
  /\ artifact' = {art} /\ seedType' = TypeOf(args, art) /\ named' = Named(args, art)
  /\ Goto("precheck")
  /\ UNCHANGED <<copied, seeds, seedSid, serverVars, waitVars, sudoVars>>

\* No attribute to build, bad tags, nix failed, the manifest is missing or
\* invalid, or the type is not one that --sudo activates.
BuildFails == pc = "prepare" /\ Fails

\* Faulty variant of HasMarker: a missing marker is only a warning.
HasMarkerOrNot(art, type) == type # "nix-darwin"

\* seed::precheck: the marker file of the type; nix-darwin has none.
HasMarker(art, type) == type # "nix-darwin" /\ art.kind = type

Precheck ==
  /\ pc = "precheck"
  /\ IF \A art \in artifact : HasMarker(art, seedType)
     THEN /\ Goto(IF args.copy = "none" THEN "prepared" ELSE "copy")
          /\ UNCHANGED <<cliVars, serverVars, waitVars, sudoVars>>
     ELSE Fails

Copy ==
  /\ pc = "copy"
  /\ \/ /\ copied' = copied \cup artifact
        /\ Goto("prepared")
        /\ UNCHANGED <<artifact, seedType, named, seeds, seedSid, serverVars, waitVars, sudoVars>>
     \/ Fails

-----------------------------------------------------------------------------
(* resolve_seed, deploy *)

SeedName(art) == args.name \/ named \/ art.host

\* POST /seeds.  An answer that gets lost fails the command, not the server.
Register(art) ==
  /\ pc = "prepared" /\ ~args.sudo /\ art \in artifact
  /\ SeedName(art)
  /\ LET seed == [artifact |-> art, type |-> seedType]
     IN  /\ seeds' = seeds \cup {seed}
         /\ \/ seedSid' = Sid(seed) /\ Goto("post")
            \/ seedSid' = seedSid /\ Exit("error") /\ UNCHANGED args
  /\ UNCHANGED <<artifact, seedType, named, copied, serverVars, waitVars, sudoVars>>

\* No name can be inferred, or the server refuses.
RegisterFails == pc = "prepared" /\ ~args.sudo /\ Fails

Shows(d) == [state |-> shown[d], result |-> outcome[d]]

\* POST /deployments: the server inserts a row ...
PostNew(d) ==
  /\ pc = "post"
  /\ Appear(d)
  /\ rowSeed' = [rowSeed EXCEPT ![d] = seedSid] /\ created' = created \cup {d}
  /\ dep' = d /\ Goto("posted")
  /\ UNCHANGED <<info, cliVars, succeeded, sudoVars>>

\* ... or matches one with the same content that is open or succeeded ...
PostMatches(d) ==
  /\ pc = "post" /\ ~args.force
  /\ rowSeed[d] = seedSid
  /\ shown[d] \in OpenStates \/ outcome[d] = "success"
  /\ dep' = d /\ Goto("posted")
  /\ UNCHANGED <<info, cliVars, serverVars, sudoVars>>

\* ... or refuses: permissions, policy, an unknown garden or seed.
PostRefused == pc = "post" /\ Fails

\* The answer is the row as it is some time later; without an answer the
\* command fails.
Answer ==
  /\ pc = "posted"
  /\ \/ /\ info' = Shows(dep) /\ Goto("created")
        /\ UNCHANGED <<dep, cliVars, serverVars, sudoVars>>
     \/ Fails

NoWait ==
  /\ pc = "created"
  /\ IF args.noWait THEN Exit("ok") /\ UNCHANGED args ELSE Goto("wait")
  /\ UNCHANGED <<cliVars, serverVars, waitVars, sudoVars>>

-----------------------------------------------------------------------------
(* wait *)

\* Faulty variants of TerminalResult: a completed deployment succeeded; a
\* stale one may still complete.
TerminalIfCompleted(i) ==
  CASE i.state \in {"created", "dispatched", "acknowledged"} -> "none"
    [] i.state = "completed" -> "success"
    [] OTHER -> i.state
TerminalUnlessStale(i) ==
  CASE i.state \in {"created", "dispatched", "acknowledged", "stale"} -> "none"
    [] i.state = "completed" -> IF i.result = "none" THEN "failure" ELSE i.result
    [] OTHER -> i.state

TerminalResult(i) ==
  CASE i.state \in {"created", "dispatched", "acknowledged"} -> "none"
    [] i.state = "completed" -> IF i.result = "none" THEN "failure" ELSE i.result
    [] OTHER -> i.state

\* A terminal result ends the loop; anything but success ends it in an error,
\* after one more read for the logs.
Conclude ==
  /\ pc = "wait" /\ TerminalResult(info) # "none"
  /\ Exit(IF TerminalResult(info) = "success" THEN "ok" ELSE "error")
  /\ UNCHANGED <<args, cliVars, serverVars, waitVars, sudoVars>>

Poll ==
  /\ pc = "wait" /\ TerminalResult(info) = "none"
  /\ info' = Shows(dep) /\ Goto("wait")
  /\ UNCHANGED <<dep, cliVars, serverVars, sudoVars>>

\* One failed request ends the wait.
PollFails == pc = "wait" /\ TerminalResult(info) = "none" /\ Fails

-----------------------------------------------------------------------------
(* deploy_sudo *)

\* --action stage only copies; the others activate over ssh, if the endpoint
\* can be read and ssh can be started.
SudoActivate ==
  /\ pc = "prepared" /\ args.sudo
  /\ IF args.action = "stage"
     THEN Exit("ok") /\ UNCHANGED <<args, cliVars, serverVars, waitVars, sudoVars>>
     ELSE \/ /\ RunSsh("activate") /\ Goto("ssh")
             /\ UNCHANGED <<cliVars, serverVars, waitVars>>
          \/ Fails

\* The reboot request of --action restart, after a boot activation.
SudoReboot ==
  /\ pc = "ssh" /\ ssh = "none" /\ sudoResult = "ok"
  /\ asked = <<"activate">> /\ args.action = "restart"
  /\ \/ RunSsh("reboot") /\ UNCHANGED <<pc, args, exit, cliVars, serverVars, waitVars>>
     \/ Fails

SudoDone ==
  /\ pc = "ssh" /\ ssh = "none"
  /\ \/ sudoResult = "error" /\ Exit("error")
     \/ /\ sudoResult = "ok" /\ (args.action = "restart" => Last(asked) = "reboot")
        /\ Exit("ok")
  /\ UNCHANGED <<args, cliVars, serverVars, waitVars, sudoVars>>

SudoStep ==
  /\ pc = "ssh" /\ DecoderStep
  /\ UNCHANGED <<pc, args, exit, cliVars, serverVars, waitVars>>

SudoBreaks ==
  /\ pc = "ssh" /\ StreamBreaks
  /\ UNCHANGED <<pc, args, exit, cliVars, serverVars, waitVars>>

Remote == RemoteStep /\ UNCHANGED <<pc, args, exit, cliVars, serverVars, waitVars>>

-----------------------------------------------------------------------------
\* What the command does next, whatever the outcome ...
Progress ==
  \/ Start \/ Warm \/ GivenSeed \/ PrepareFirst
  \/ (\E art \in Artifacts : Build(art)) \/ BuildFails \/ Precheck \/ Copy
  \/ (\E art \in Artifacts : Register(art)) \/ RegisterFails
  \/ (\E d \in Id : PostNew(d) \/ PostMatches(d)) \/ PostRefused \/ Answer
  \/ NoWait \/ Conclude \/ Poll
  \/ SudoActivate \/ SudoReboot \/ SudoDone \/ SudoStep

\* ... and the failures that may happen while it waits, or may not.
CommandStep == Progress \/ PollFails \/ SudoBreaks

\* The server meanwhile: subscriptions may deploy the seed that was just
\* registered, rows are handed out and resolved.
Unseen == UNCHANGED <<pc, args, exit, cliVars, waitVars, sudoVars, created>>

OtherRow(d) ==
  /\ Appear(d)
  /\ \E s \in {Given} \cup {Sid(seed) : seed \in seeds} : rowSeed' = [rowSeed EXCEPT ![d] = s]
  /\ UNCHANGED succeeded /\ Unseen

HandRow(d) ==
  /\ \E s \in OpenStates : Hand({d}, s)
  /\ UNCHANGED <<rowSeed, succeeded>> /\ Unseen

ResolveRow(d) ==
  /\ \E s \in EndStates, r \in Outcomes :
       /\ Resolve(d, s, r)
       /\ succeeded' = IF s = "completed" /\ r = "success"
                       THEN succeeded \cup {d} ELSE succeeded
  /\ UNCHANGED rowSeed /\ Unseen

\* The rows matter from the request to the last poll; what they were before
\* can as well happen just before the request.
Watching == pc \in {"post", "posted", "created", "wait"}

ServerStep == Watching /\ \E d \in Id : OtherRow(d) \/ HandRow(d) \/ ResolveRow(d)

DeployNext == CommandStep \/ Remote \/ ServerStep

\* The command runs on and its calls return, with whatever outcome; but no
\* failure of a poll or of the stream from ssh is promised, nor that ssh ends.
\* The server resolves its rows (ImplementsFairRows of module Deployments).
DeployFairness ==
  /\ WF_vars(Progress)
  /\ \A d \in Id : WF_vars(Watching /\ shown[d] \in OpenStates /\ ResolveRow(d))

DeploySpec == DeployInit /\ [][DeployNext]_vars /\ DeployFairness

-----------------------------------------------------------------------------
(* Properties *)

\* The exit status tells the truth: a command that waited and exits with 0
\* has a deployment of its own seed that was completed with success, however
\* the row changed between the polls and whichever row its request matched;
\* with --no-wait it has a deployment at least.
ExitTruth ==
  exit = "ok" /\ ~args.sudo =>
    /\ dep \in Id /\ rowSeed[dep] = seedSid
    /\ ~args.noWait => dep \in succeeded

\* What the server gets to know is fit to be deployed: every registered seed
\* has the marker of the type it is registered with, and its closure is at
\* the copy target if there is one; every row the command created is for such
\* a seed or for the one it was given, even when an answer got lost.
Prepared ==
  /\ \A s \in seeds : /\ s.artifact.kind = s.type /\ s.type # "nix-darwin"
                      /\ args.copy # "none" => s.artifact \in copied
  /\ \A d \in created : IF rowSeed[d].given THEN args.target = "seed"
                         ELSE rowSeed[d].of # {} /\ rowSeed[d].of \subseteq seeds

\* A sudo deployment that reports success had every request it made completed
\* with exit code 0; the host is asked to reboot only after that of a boot
\* activation of a NixOS closure that was copied; and the server never hears
\* of it.
SudoTruth ==
  args.sudo =>
    /\ exit = "ok" /\ args.action # "stage"
         => \A i \in 1..Len(asked) : <<asked[i], "complete0">> \in answers
    /\ exit = "ok" /\ args.action = "restart" => Len(asked) = 2
    /\ Len(asked) = 2 => /\ <<"activate", "complete0">> \in answers
                         /\ seedType = "nixos" /\ args.action = "restart"
    /\ asked # <<>> => artifact # {} /\ artifact \subseteq copied
    /\ seeds = {} /\ created = {}

\* However ssh's output is cut into chunks, the user's terminal shows the text
\* and the activator's output in order, with no part of a frame among it, and
\* all of it when the deployment succeeds.
ScreenFaithful ==
  /\ Streaming => IsPrefix(screen, meant)
  /\ sudoResult = "ok" => screen = meant

\* The command ends without the help of a failure, unless ssh hangs: every row
\* it may wait for is resolved, every state that a resolved row can show ends
\* the loop, and whatever ssh printed before its end is decoded.  There is no
\* timeout for an ssh that runs for ever.
DeployEnds == <>(pc = "exit") \/ <>[](ssh = "running")
=============================================================================
