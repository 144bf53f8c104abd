---------------------------- MODULE NetworkLease ----------------------------
(***************************************************************************)
(* The activator's execution networks: leases of a /30 slot, with a        *)
(* journal, a TAP device and nftables tables.                              *)
(*                                                                         *)
(* Every request is a process of its own (the socket is Accept=true).  It  *)
(* may be killed between any two commands, any command may fail, and a     *)
(* failed save may or may not have renamed the journal file.  A request    *)
(* holds the lock of its execution while it changes a lease; the           *)
(* host-wide lock is held only for single reads and writes of the journal, *)
(* which are atomic steps here.                                            *)
(***************************************************************************)
EXTENDS Naturals, FiniteSets

CONSTANTS
  Token,       \* lease tokens, each drawn once
  Slots,       \* number of slots of the address pool
  Execution,   \* execution ids
  Instance,    \* the configured garden units
  Owner,       \* garden processes: uid, pid and start time
  InstanceOf,  \* Owner -> Instance, from the cgroup
  Bucket,      \* Execution -> the lock file its hash selects
  Request,     \* activator processes
  Mortal,      \* bound: the owners whose exit is explored
  NoOne        \* no owner (the root hook's cleanup), no lease

ASSUME LeaseAssumption ==
  /\ Slots \in Nat \ {0}
  /\ InstanceOf \in [Owner -> Instance]
  /\ NoOne \notin Owner /\ NoOne \notin Token
  /\ "none" \notin Token /\ "unmarked" \notin Token
  /\ Execution # {} /\ Owner # {} /\ Instance # {}

VARIABLES
  phase,     \* Token -> the journal's phase, or "unused", or "gone"
  lease,     \* Token -> slot, execution and owner in the journal
  tap,       \* Slot -> the token in the alias of the slot's TAP
  up,        \* slots whose TAP is up
  attached,  \* slots whose TAP a VMM has open
  doomed,    \* slots whose TAP goes when the VMM closes it
  guard,     \* Token -> its inet table: without or with the accept rules
  ingress,   \* tokens with a netdev table
  flows,     \* Slot -> leases whose connections are still tracked
  alive,     \* owners that are running
  req        \* Request -> what it is doing

lvars == <<phase, lease, tap, up, attached, doomed, guard, ingress, flows, alive, req>>
host == <<tap, up, attached, doomed, guard, ingress, flows>>

Slot == 0..(Slots - 1)

Held == {"reserved", "allocated", "active", "revoked", "quarantined"}
Phase == Held \cup {"unused", "gone"}

NoTap == "none"
Unmarked == "unmarked"

Lease == [slot: Slot, execution: Execution, owner: Owner]

Pc == {"idle", "lock", "find", "reserve", "check", "allocate", "deny", "purge",
       "add_tap", "mark_tap", "ingress", "activate", "open", "set_up",
       "reload", "revoke", "down", "close", "delete_tap", "purge_again",
       "delete_tables", "remove", "quarantine", "next"}

ReqRec ==
  [pc: Pc, op: {"provision", "revoke", "release", "cleanup"},
   instance: Instance, owner: Owner \cup {NoOne}, execution: Execution, token: Token \cup {NoOne},
   mem: Held,        \* the phase of the lease in memory
   ok: BOOLEAN,      \* no step of revoke has failed
   locked: BOOLEAN,  \* holds the lock of execution
   todo: SUBSET Token]

AnyLease == [slot |-> 0, execution |-> CHOOSE e \in Execution : TRUE,
             owner |-> CHOOSE o \in Owner : TRUE]

IdleReq ==
  [pc |-> "idle", op |-> "provision", instance |-> CHOOSE i \in Instance : TRUE,
   owner |-> NoOne, execution |-> CHOOSE e \in Execution : TRUE,
   token |-> NoOne, mem |-> "reserved", ok |-> TRUE, locked |-> FALSE, todo |-> {}]

LeaseTypeOK ==
  /\ phase \in [Token -> Phase]
  /\ lease \in [Token -> Lease]
  /\ tap \in [Slot -> Token \cup {NoTap, Unmarked}]
  /\ up \subseteq Slot /\ attached \subseteq Slot /\ doomed \subseteq Slot
  /\ guard \in [Token -> {"none", "closed", "open"}]
  /\ ingress \subseteq Token
  /\ flows \in [Slot -> SUBSET Token]
  /\ alive \subseteq Owner
  /\ req \in [Request -> ReqRec]

LeaseInit ==
  /\ phase = [t \in Token |-> "unused"]
  /\ lease = [t \in Token |-> AnyLease]
  /\ tap = [s \in Slot |-> NoTap]
  /\ up = {} /\ attached = {} /\ doomed = {}
  /\ guard = [t \in Token |-> "none"]
  /\ ingress = {}
  /\ flows = [s \in Slot |-> {}]
  /\ alive = Owner
  /\ req = [r \in Request |-> IdleReq]

-----------------------------------------------------------------------------
(* The journal and the locks *)

InJournal(t) == phase[t] \in Held
InstanceOfLease(t) == InstanceOf[lease[t].owner]

\* records_in: the leases of one instance's directory.
Records(i) == {t \in Token : InJournal(t) /\ InstanceOfLease(t) = i}

\* Faulty variant of Occupied: only the request's own directory is read.
OccupiedHere(i) == {lease[t].slot : t \in Records(i)}

\* all_records: the slots of every instance's leases.
Occupied(i) == {lease[t].slot : t \in {u \in Token : InJournal(u)}}

HasLease(i, e) == \E t \in Records(i) : lease[t].execution = e

\* save: write a temporary file, rename, sync the directory.  An error is
\* reported before or after the rename.
Save(t, ph, ok) ==
  \/ phase' = [phase EXCEPT ![t] = ph]
  \/ ~ok /\ UNCHANGED phase

\* Faulty variant of LockFree: the execution lock excludes nobody.
LockAlwaysFree(i, e) == TRUE

\* flock on the execution's lock file.
LockFree(i, e) ==
  \A q \in Request : ~(req[q].locked /\ req[q].instance = i
                       /\ Bucket[req[q].execution] = Bucket[e])

At(r, pc) == req[r].pc = pc
Go(r, pc) == req' = [req EXCEPT ![r].pc = pc]
SlotOf(r) == lease[req[r].token].slot

\* The request returns, or cleanup goes on to its next lease; the lock file is
\* closed either way.
Done(r) ==
  req' = [req EXCEPT ![r] = IF @.op = "cleanup"
                            THEN [@ EXCEPT !.pc = "next", !.locked = FALSE]
                            ELSE IdleReq]

-----------------------------------------------------------------------------
(* provision *)

Provision(r, o, e) ==
  /\ At(r, "idle")
  /\ o \in alive
  /\ req' = [req EXCEPT ![r] = [IdleReq EXCEPT !.pc = "lock", !.owner = o,
                                  !.instance = InstanceOf[o], !.execution = e]]
  /\ UNCHANGED <<phase, lease, host, alive>>

LockExecution(r) ==
  /\ At(r, "lock")
  /\ LockFree(req[r].instance, req[r].execution)
  /\ req' = [req EXCEPT ![r].locked = TRUE,
                        ![r].pc = IF req[r].op = "provision" THEN "find" ELSE "reload"]
  /\ UNCHANGED <<phase, lease, host, alive>>

\* An execution that has a lease gets no second one: an active lease of this
\* owner is returned again, any other is an error.
Find(r) ==
  /\ At(r, "find")
  /\ IF HasLease(req[r].instance, req[r].execution)
     THEN Done(r)
     ELSE Go(r, "reserve")
  /\ UNCHANGED <<phase, lease, host, alive>>

InPool(s) == s < Slots

\* reserve, under the host-wide lock: the first free slot and a new token.
Reserve(r, t, s, ok) ==
  /\ At(r, "reserve")
  /\ req[r].owner \in alive
  /\ phase[t] = "unused"
  /\ ~HasLease(req[r].instance, req[r].execution)
  /\ InPool(s)
  /\ s \notin Occupied(req[r].instance)
  /\ \A n \in 0..(s - 1) : n \in Occupied(req[r].instance)
  /\ lease' = [lease EXCEPT ![t] = [slot |-> s, execution |-> req[r].execution,
                                    owner |-> req[r].owner]]
  /\ Save(t, "reserved", ok)
  /\ IF ok
     THEN req' = [req EXCEPT ![r].pc = "check", ![r].token = t, ![r].mem = "reserved"]
     ELSE Done(r)
  /\ UNCHANGED <<host, alive>>

\* The owner exited, the execution has a lease, or the pool is exhausted.
ReserveRefused(r) ==
  /\ At(r, "reserve")
  /\ \/ req[r].owner \notin alive
     \/ HasLease(req[r].instance, req[r].execution)
     \/ Slot \subseteq Occupied(req[r].instance)
  /\ Done(r)
  /\ UNCHANGED <<phase, lease, host, alive>>

\* The next command of the setup closure, or its error path.
Setup(r, here, next, ok) ==
  /\ At(r, here)
  /\ Go(r, IF ok THEN next ELSE "revoke")

\* No route overlaps the subnet and no interface has the name.
CheckHost(r, ok) ==
  /\ Setup(r, "check", "allocate", ok)
  /\ ok => tap[SlotOf(r)] = NoTap
  /\ UNCHANGED <<phase, lease, host, alive>>

\* The phase changes in memory before it is saved.
SavePhase(r, here, next, ph, ok) ==
  /\ At(r, here)
  /\ Save(req[r].token, ph, ok)
  /\ req' = [req EXCEPT ![r].pc = IF ok THEN next ELSE "revoke", ![r].mem = ph]
  /\ UNCHANGED <<lease, host, alive>>

SaveAllocated(r, ok) == SavePhase(r, "allocate", "deny", "allocated", ok)
SaveActive(r, ok) == SavePhase(r, "activate", "open", "active", ok)

\* install_guard replaces the lease's table in one nft transaction; the accept
\* rules are those of an active lease.
GuardOf(r) == IF req[r].mem = "active" THEN "open" ELSE "closed"

InstallGuard(r, ok) ==
  /\ guard' = IF ok THEN [guard EXCEPT ![req[r].token] = GuardOf(r)] ELSE guard
  /\ UNCHANGED <<phase, lease, tap, up, attached, doomed, ingress, flows, alive>>

Deny(r, ok) == Setup(r, "deny", "purge", ok) /\ InstallGuard(r, ok)
OpenGuard(r, ok) == Setup(r, "open", "set_up", ok) /\ InstallGuard(r, ok)

\* purge_connections deletes and checks again.
PurgeConnections(r, ok) ==
  /\ flows' = IF ok THEN [flows EXCEPT ![SlotOf(r)] = {}] ELSE flows
  /\ UNCHANGED <<phase, lease, tap, up, attached, doomed, guard, ingress, alive>>

Purge(r, ok) == Setup(r, "purge", "add_tap", ok) /\ PurgeConnections(r, ok)

\* create_tap: the device first, then the alias that marks its owner.
AddTap(r, ok) ==
  /\ Setup(r, "add_tap", "mark_tap", ok)
  /\ ok => tap[SlotOf(r)] = NoTap
  /\ tap' = IF ok THEN [tap EXCEPT ![SlotOf(r)] = Unmarked] ELSE tap
  /\ UNCHANGED <<phase, lease, up, attached, doomed, guard, ingress, flows, alive>>

MarkTap(r, ok) ==
  /\ Setup(r, "mark_tap", "ingress", ok)
  /\ ok => tap[SlotOf(r)] = Unmarked
  /\ tap' = IF ok THEN [tap EXCEPT ![SlotOf(r)] = req[r].token] ELSE tap
  /\ UNCHANGED <<phase, lease, up, attached, doomed, guard, ingress, flows, alive>>

\* The rest of create_tap, the save of the device's MAC, install_ingress.
InstallIngress(r, ok) ==
  /\ Setup(r, "ingress", "activate", ok)
  /\ ok => tap[SlotOf(r)] = req[r].token
  /\ ingress' = IF ok THEN ingress \cup {req[r].token} ELSE ingress
  /\ UNCHANGED <<phase, lease, tap, up, attached, doomed, guard, flows, alive>>

SetUp(r, ok) ==
  /\ At(r, "set_up")
  /\ ok => tap[SlotOf(r)] = req[r].token
  /\ IF ok THEN Done(r) /\ up' = up \cup {SlotOf(r)} ELSE Go(r, "revoke") /\ up' = up
  /\ UNCHANGED <<phase, lease, tap, attached, doomed, guard, ingress, flows, alive>>

-----------------------------------------------------------------------------
(* revoke and release, for operate, cleanup and a failed provision *)

\* operate: the lease is loaded without its execution lock ...
Operate(r, o, t, op) ==
  /\ At(r, "idle")
  /\ o \in alive
  /\ InJournal(t)
  /\ lease[t].owner = o
  /\ req' = [req EXCEPT ![r] = [IdleReq EXCEPT !.pc = "lock", !.op = op, !.owner = o,
                                  !.instance = InstanceOf[o], !.token = t,
                                  !.execution = lease[t].execution]]
  /\ UNCHANGED <<phase, lease, host, alive>>

\* Faulty variant of Spared: the owner is not asked for.
SparedNever(r, t) == FALSE

\* A cleanup asked for by a garden leaves the active leases of running owners.
Spared(r, t) ==
  req[r].owner # NoOne /\ phase[t] = "active" /\ lease[t].owner \in alive

\* ... and again with it.
Reload(r) ==
  /\ At(r, "reload")
  /\ LET t == req[r].token
         refused == \/ ~InJournal(t)
                    \/ req[r].op = "release" /\ phase[t] \in {"allocated", "active"}
                    \/ req[r].op = "cleanup" /\ Spared(r, t)
     IN  IF refused THEN Done(r)
         ELSE req' = [req EXCEPT ![r].pc = "revoke", ![r].mem = phase[t], ![r].ok = TRUE]
  /\ UNCHANGED <<phase, lease, host, alive>>

Released(r) == req[r].op # "revoke"

\* A lease that is only reserved has nothing to revoke or to delete.
RevokeReserved(r) ==
  /\ At(r, "revoke")
  /\ req[r].mem = "reserved"
  /\ IF Released(r) THEN Go(r, "remove") ELSE Done(r)
  /\ UNCHANGED <<phase, lease, host, alive>>

RevokeSave(r, ok) ==
  /\ At(r, "revoke")
  /\ req[r].mem # "reserved"
  /\ Save(req[r].token, "revoked", ok)
  /\ req' = [req EXCEPT ![r].pc = "down", ![r].mem = "revoked", ![r].ok = ok]
  /\ UNCHANGED <<lease, host, alive>>

\* set_down refuses a TAP whose alias is not this lease's.
RevokeDown(r, ok) ==
  /\ At(r, "down")
  /\ ok => tap[SlotOf(r)] \in {NoTap, req[r].token}
  /\ up' = IF ok THEN up \ {SlotOf(r)} ELSE up
  /\ req' = [req EXCEPT ![r].pc = "close", ![r].ok = @ /\ ok]
  /\ UNCHANGED <<phase, lease, tap, attached, doomed, guard, ingress, flows, alive>>

\* Whatever failed before, the accept rules are taken away.
RevokeGuard(r, ok) ==
  /\ At(r, "close")
  /\ IF req[r].ok /\ ok /\ Released(r) THEN Go(r, "delete_tap") ELSE Done(r)
  /\ InstallGuard(r, ok)

\* The next command of remove_resources, or the quarantine.
Teardown(r, here, next, ok) ==
  /\ At(r, here)
  /\ Go(r, IF ok THEN next ELSE "quarantine")

\* Faulty variant of DeleteTap: nobody looks whether the TAP is gone.
DeleteTapUnchecked(r, ok) ==
  LET s == SlotOf(r)
      mine == tap[s] = req[r].token
  IN  /\ Teardown(r, "delete_tap", "purge_again", ok)
      /\ ok => tap[s] = NoTap \/ mine
      /\ tap' = IF ok /\ s \notin attached THEN [tap EXCEPT ![s] = NoTap] ELSE tap
      /\ up' = IF ok THEN up \ {s} ELSE up
      /\ doomed' = IF mine /\ s \in attached THEN doomed \cup {s} ELSE doomed
      /\ UNCHANGED <<phase, lease, attached, guard, ingress, flows, alive>>

\* Deleting a TAP that a VMM has open only makes it go with the VMM, and the
\* check that it is gone fails.
DeleteTap(r, ok) ==
  LET s == SlotOf(r)
      mine == tap[s] = req[r].token
  IN  /\ Teardown(r, "delete_tap", "purge_again", ok)
      /\ ok => tap[s] = NoTap \/ (mine /\ s \notin attached)
      /\ tap' = IF ok THEN [tap EXCEPT ![s] = NoTap] ELSE tap
      /\ up' = IF ok THEN up \ {s} ELSE up
      /\ \/ ~ok /\ mine /\ s \in attached /\ doomed' = doomed \cup {s}
         \/ doomed' = doomed
      /\ UNCHANGED <<phase, lease, attached, guard, ingress, flows, alive>>

\* Faulty variant of PurgeAgain: connections are left to expire.
PurgeSkipped(r, ok) ==
  /\ Teardown(r, "purge_again", "delete_tables", ok)
  /\ UNCHANGED <<phase, lease, host, alive>>

PurgeAgain(r, ok) == Teardown(r, "purge_again", "delete_tables", ok) /\ PurgeConnections(r, ok)

DeleteTables(r, ok) ==
  /\ Teardown(r, "delete_tables", "remove", ok)
  /\ guard' = IF ok THEN [guard EXCEPT ![req[r].token] = "none"] ELSE guard
  /\ ingress' = IF ok THEN ingress \ {req[r].token} ELSE ingress
  /\ UNCHANGED <<phase, lease, tap, up, attached, doomed, flows, alive>>

Quarantine(r, ok) ==
  /\ At(r, "quarantine")
  /\ Save(req[r].token, "quarantined", ok)
  /\ Done(r)
  /\ UNCHANGED <<lease, host, alive>>

\* remove_file, under the host-wide lock.
Remove(r, ok) ==
  /\ At(r, "remove")
  /\ phase' = IF ok THEN [phase EXCEPT ![req[r].token] = "gone"] ELSE phase
  /\ Done(r)
  /\ UNCHANGED <<lease, host, alive>>

-----------------------------------------------------------------------------
(* cleanup *)

\* Asked for by a running garden, or by the root hook (NoOne) of the unit.
Cleanup(r, i, o) ==
  /\ At(r, "idle")
  /\ o = NoOne \/ (o \in alive /\ InstanceOf[o] = i)
  /\ req' = [req EXCEPT ![r] = [IdleReq EXCEPT !.pc = "next", !.op = "cleanup",
                                  !.owner = o, !.instance = i, !.todo = Records(i)]]
  /\ UNCHANGED <<phase, lease, host, alive>>

\* A lease whose execution is locked is skipped.
CleanupLease(r, t) ==
  /\ At(r, "next")
  /\ t \in req[r].todo
  /\ LET q == req[r]
         rest == q.todo \ {t}
     IN  req' = [req EXCEPT ![r] =
                   IF LockFree(q.instance, lease[t].execution)
                   THEN [q EXCEPT !.pc = "reload", !.token = t, !.locked = TRUE,
                                  !.execution = lease[t].execution, !.todo = rest]
                   ELSE [q EXCEPT !.todo = rest]]
  /\ UNCHANGED <<phase, lease, host, alive>>

EndCleanup(r) ==
  /\ At(r, "next")
  /\ req[r].todo = {}
  /\ req' = [req EXCEPT ![r] = IdleReq]
  /\ UNCHANGED <<phase, lease, host, alive>>

-----------------------------------------------------------------------------
(* Environment *)

\* The request's process is killed; the kernel closes its lock file.
Kill(r) ==
  /\ ~At(r, "idle")
  /\ req' = [req EXCEPT ![r] = IdleReq]
  /\ UNCHANGED <<phase, lease, host, alive>>

OwnerExits(o) ==
  /\ o \in Mortal \cap alive
  /\ alive' = alive \ {o}
  /\ UNCHANGED <<phase, lease, host, req>>

\* A VMM opens the TAP it was given, and closes it when it exits.
Attach(s) ==
  /\ tap[s] \in Token
  /\ lease[tap[s]].owner \in alive
  /\ s \notin attached
  /\ attached' = attached \cup {s}
  /\ UNCHANGED <<phase, lease, tap, up, doomed, guard, ingress, flows, alive, req>>

Detach(s) ==
  /\ s \in attached
  /\ attached' = attached \ {s}
  /\ doomed' = doomed \ {s}
  /\ tap' = IF s \in doomed THEN [tap EXCEPT ![s] = NoTap] ELSE tap
  /\ up' = IF s \in doomed THEN up \ {s} ELSE up
  /\ UNCHANGED <<phase, lease, guard, ingress, flows, alive, req>>

\* A guest's packet passes when its lease's table accepts it and no other
\* table on that TAP name drops it; its connection is tracked until it expires.
Traffic(s) ==
  /\ s \in up \cap attached
  /\ tap[s] \in ingress
  /\ guard[tap[s]] = "open"
  /\ \A t \in Token : guard[t] = "closed" => lease[t].slot # s
  /\ flows' = [flows EXCEPT ![s] = @ \cup {tap[s]}]
  /\ UNCHANGED <<phase, lease, tap, up, attached, doomed, guard, ingress, alive, req>>

Expire(s) ==
  /\ flows[s] # {}
  /\ flows' = [flows EXCEPT ![s] = {}]
  /\ UNCHANGED <<phase, lease, tap, up, attached, doomed, guard, ingress, alive, req>>

-----------------------------------------------------------------------------
Command(r, ok) ==
  \/ \E t \in Token, s \in 0..Slots : Reserve(r, t, s, ok)
  \/ CheckHost(r, ok) \/ SaveAllocated(r, ok) \/ Deny(r, ok) \/ Purge(r, ok)
  \/ AddTap(r, ok) \/ MarkTap(r, ok) \/ InstallIngress(r, ok)
  \/ SaveActive(r, ok) \/ OpenGuard(r, ok) \/ SetUp(r, ok)
  \/ RevokeSave(r, ok) \/ RevokeDown(r, ok) \/ RevokeGuard(r, ok)
  \/ DeleteTap(r, ok) \/ PurgeAgain(r, ok) \/ DeleteTables(r, ok)
  \/ Quarantine(r, ok) \/ Remove(r, ok)

RequestStep(r) ==
  \/ LockExecution(r) \/ Find(r) \/ ReserveRefused(r)
  \/ Reload(r) \/ RevokeReserved(r)
  \/ \E t \in Token : CleanupLease(r, t)
  \/ EndCleanup(r)
  \/ \E ok \in BOOLEAN : Command(r, ok)

NewRequest(r) ==
  \/ \E o \in Owner, e \in Execution : Provision(r, o, e)
  \/ \E o \in Owner, t \in Token, op \in {"revoke", "release"} : Operate(r, o, t, op)
  \/ \E i \in Instance, o \in Owner \cup {NoOne} : Cleanup(r, i, o)

LeaseNext ==
  \/ \E r \in Request : RequestStep(r) \/ NewRequest(r) \/ Kill(r)
  \/ \E o \in Owner : OwnerExits(o)
  \/ \E s \in Slot : Attach(s) \/ Detach(s) \/ Traffic(s) \/ Expire(s)

LeaseSpec == LeaseInit /\ [][LeaseNext]_lvars

-----------------------------------------------------------------------------
(* Properties *)

\* Two leases in the journal, of whatever gardens, never share a slot, and an
\* execution of a garden never has two leases.
LeasesExclusive ==
  \A t, u \in Token :
    InJournal(t) /\ InJournal(u) /\ t # u =>
      /\ lease[t].slot # lease[u].slot
      /\ InstanceOfLease(t) = InstanceOfLease(u) => lease[t].execution # lease[u].execution

\* "Keep deny protection until its interfaces are gone": a TAP, marked or not,
\* belongs to a lease in the journal whose inet table exists, and it is up
\* only with the ingress table in place, whatever failed or was killed.
DenyProtected ==
  \A s \in Slot :
    /\ tap[s] # NoTap =>
         \E t \in Token : /\ InJournal(t) /\ lease[t].slot = s /\ guard[t] # "none"
                          /\ tap[s] \in {t, Unmarked}
    /\ s \in up => tap[s] \in ingress

\* Accept rules exist only for a lease that is still in the journal, so only
\* the current holder of a slot can ever be reachable.
OpenOnlyWhileHeld ==
  \A t \in Token : guard[t] = "open" => phase[t] \in {"active", "revoked", "quarantined"}

\* "Do not reuse addresses while stale flows could authorize traffic": the
\* tracked connections of an address are those of the lease that holds it.
NoStaleFlows ==
  \A s \in Slot : \A t \in flows[s] : InJournal(t) /\ lease[t].slot = s

\* The active lease of a running garden loses its phase only to a request of
\* its own owner or to the root hook.
ActiveKept ==
  [][\A t \in Token :
       phase[t] = "active" /\ phase'[t] # "active" /\ lease[t].owner \in alive =>
         \E r \in Request : /\ req[r].token = t /\ req[r].pc = "revoke"
                            /\ \/ req[r].owner = NoOne
                               \/ req[r].owner = lease[t].owner /\ req[r].op # "cleanup"]_lvars

\* "release the execution's TAP, routes, namespace, firewall and
\* connection-tracking state": a lease leaves the journal with nothing left.
ReleaseRemovesAll ==
  [][\A t \in Token :
       InJournal(t) /\ ~InJournal(t)' =>
         guard[t] = "none" /\ t \notin ingress /\ \A s \in Slot : tap[s] # t]_lvars
-----------------------------------------------------------------------------
(* The inductive invariant of module NetworkLeaseProofs *)

SettingUp == {"check", "allocate", "deny", "purge", "add_tap", "mark_tap", "ingress",
              "activate", "open", "set_up"}
Revoking == {"revoke", "down", "close"}
Deleting == {"delete_tap", "purge_again", "delete_tables", "quarantine"}
Working == SettingUp \cup Revoking \cup Deleting \cup {"remove"}

\* A request holds a lock from the moment it waits for none, and no two
\* requests hold the same lock file.
Locks ==
  /\ \A r \in Request : req[r].pc \in Working \cup {"find", "reserve", "reload"} => req[r].locked
  /\ \A q, r \in Request :
       /\ req[q].locked /\ req[r].locked
       /\ req[q].instance = req[r].instance
       /\ Bucket[req[q].execution] = Bucket[req[r].execution]
       => q = r

\* What a request knows of the lease it was given or has read.
Knows(r, t) ==
  /\ phase[t] # "unused"
  /\ lease[t].execution = req[r].execution
  /\ InstanceOfLease(t) = req[r].instance
  /\ req[r].op # "cleanup" => lease[t].owner = req[r].owner

ClaimsAt(r) ==
  /\ req[r].pc \in {"lock", "find", "reserve"} /\ req[r].op = "provision" =>
       req[r].owner \in Owner /\ InstanceOf[req[r].owner] = req[r].instance
  /\ req[r].pc \in SettingUp \cup {"find", "reserve"} => req[r].op = "provision"
  /\ req[r].pc \in Working \cup {"reload"} \/ (req[r].pc = "lock" /\ req[r].op # "provision") =>
       req[r].token \in Token /\ Knows(r, req[r].token)
  /\ req[r].pc = "next" => req[r].op = "cleanup"
  /\ \A t \in req[r].todo : phase[t] # "unused" /\ InstanceOfLease(t) = req[r].instance

\* The journal and the memory of a request at work, from step to step.
JournalledAt(r) ==
  LET q == req[r]
      t == req[r].token
  IN  /\ q.pc \in Working => InJournal(t)
      /\ q.pc \in {"check", "allocate"} => phase[t] = "reserved" /\ q.mem = "reserved"
      /\ q.pc \in {"deny", "purge", "add_tap", "mark_tap", "ingress", "activate"} =>
           phase[t] = "allocated" /\ q.mem = "allocated"
      /\ q.pc \in {"open", "set_up"} => phase[t] = "active" /\ q.mem = "active"
      /\ q.pc = "revoke" /\ q.mem = "reserved" => phase[t] = "reserved"
      /\ q.pc \in {"down", "close"} => q.mem = "revoked" /\ (q.ok => phase[t] = "revoked")
      /\ q.pc \in Deleting => phase[t] = "revoked"
      /\ q.pc = "remove" => phase[t] \in {"reserved", "revoked"}
      /\ /\ q.pc = "revoke" /\ q.op = "cleanup" /\ q.owner # NoOne /\ phase[t] = "active"
         => lease[t].owner \notin alive

\* The host as a request at work has made it.
HostReadyAt(r) ==
  LET q == req[r]
      t == req[r].token
  IN  /\ q.pc \in {"purge", "add_tap", "mark_tap", "ingress", "activate", "open", "set_up"} =>
           guard[t] # "none"
      /\ q.pc \in {"activate", "open", "set_up"} => t \in ingress
      /\ q.pc \in {"purge_again", "delete_tables", "remove"} => tap[lease[t].slot] = NoTap
      /\ q.pc \in {"delete_tables", "remove"} => t \notin flows[lease[t].slot]
      /\ q.pc = "remove" => guard[t] # "open"

\* DenyProtected and NoStaleFlows for one slot, with the phase its lease has by
\* then.
Installed(t) == InJournal(t) /\ phase[t] # "reserved"

TapHeldAt(s) ==
  /\ tap[s] # NoTap =>
       \E t \in Token : Installed(t) /\ lease[t].slot = s /\ guard[t] # "none"
                        /\ tap[s] \in {t, Unmarked}
  /\ s \in up => tap[s] \in ingress

FlowsHeldAt(s) == \A t \in flows[s] : Installed(t) /\ lease[t].slot = s

RequestsInv == \A r \in Request : ClaimsAt(r) /\ JournalledAt(r) /\ HostReadyAt(r)
SlotsInv == \A s \in Slot : TapHeldAt(s) /\ FlowsHeldAt(s)

\* A request at work holds the only lock of its lease, which stays in the
\* journal under it, and at every step the host is exactly as far as the
\* request and the journal say: this is what the re-read under the execution
\* lock in operate and cleanup is for, and what every other invariant rests on.
LeaseInv == LeaseTypeOK /\ Locks /\ LeasesExclusive /\ RequestsInv /\ SlotsInv /\ OpenOnlyWhileHeld
=============================================================================
