------------------------------- MODULE Upgrade -------------------------------
(***************************************************************************)
(* The upgrade of one agent: the command the console sends or parks, the   *)
(* files the agent renames, the acknowledgement, the restart, and the      *)
(* record in Redis that follows it all.  A call that changes the record    *)
(* reads it and writes it back in two requests, and so does a call that    *)
(* only wants to know it; calls interleave between the two.                *)
(***************************************************************************)
EXTENDS Integers, Sequences, FiniteSets

CONSTANTS
  Newest,       \* packaged versions run from 1, which the agent starts with, to Newest
  MaxUpgrades,  \* bound: upgrade commands
  MaxMail,      \* bound: messages of the agent under way
  MaxUpgradeFaults     \* bound: steps that fail, and crashes

ASSUME UpgradeAssumption ==
  /\ Newest \in Nat \ {0} /\ MaxUpgrades \in Nat /\ MaxMail \in Nat \ {0} /\ MaxUpgradeFaults \in Nat

Versions == 1 .. Newest
None == 0                     \* no version, no file, no process, no command
Upgrades == 1 .. MaxUpgrades
Callers == {"router", "receiver", "poller"}
Paths == {"exec", "old", "older", "oldest"}
Backup == [exec |-> "old", old |-> "older", older |-> "oldest", oldest |-> "oldest"]

VARIABLES
  packaged,  \* version the console offers
  known,     \* agent_version in the host row
  record,    \* agent:upgrade of the agent: state, target_version, ack_received
  at,        \* where the call of each caller is
  snap,      \* record as the caller read it
  change,    \* what the caller will change in it
  received,     \* commands the agent has not handled
  parked,    \* command parked for the agent
  messages,      \* messages of the agent the console has not handled
  target,    \* version of each command
  commands,  \* number of commands so far
  running,   \* version of the process
  online,    \* the process has its WebSocket
  disk,      \* version of the binary at each path
  mine,      \* path of the binary the process was started from, as it is now
  kept,      \* whether that binary is still there
  follows,   \* whether os.Executable follows the binary when it is renamed
  worker,    \* the handler of upgrades: its step, and the path it works on
  applying,  \* restart of each handled command: its step, and the path it works on
  raced,     \* history: callers whose view of the record was written over
  stale,     \* history: one of them wrote
  broken,    \* history: a rollback failed, or a crash cut the renames short
  handled,   \* history: upgrades this process has handled, 0 again when the only one was undone
  ran, acked,\* history: versions that ran, and that were acknowledged as staged
  upgradeFaults     \* history: failures so far

book   == <<record, at, snap, change, raced, stale>>
files  == <<disk, mine, kept>>
agent  == <<running, online, follows, ran>>
duty   == <<worker, applying, broken, handled>>
orders == <<packaged, parked, target, commands>>
upgradeVars   == <<book, known, files, agent, duty, orders, received, messages, acked, upgradeFaults>>

Blank == [state |-> "idle", target |-> None, ack |-> FALSE]
Records == [state : {"idle", "sent", "queued", "restarting", "failed", "confirmed"},
            target : {None} \cup Versions, ack : BOOLEAN]

UpgradeTypeOK ==
  /\ packaged \in Versions /\ known \in Versions /\ record \in Records
  /\ at \in [Callers -> {"idle", "get", "put", "read", "write"}]
  /\ snap \in [Callers -> Records]
  /\ \A i \in DOMAIN received : received[i] \in Upgrades
  /\ parked \in {None} \cup Upgrades
  /\ \A i \in DOMAIN messages : messages[i] \in [kind : {"ack", "beat"}, version : Versions, ok : BOOLEAN]
  /\ target \in [Upgrades -> {None} \cup Versions] /\ commands \in 0 .. MaxUpgrades
  /\ running \in {None} \cup Versions /\ online \in BOOLEAN
  /\ disk \in [Paths -> {None} \cup Versions] /\ mine \in Paths /\ kept \in BOOLEAN
  /\ follows \in BOOLEAN
  /\ worker \in [step : {"idle", "staged", "cleared", "moved", "undo"}, path : Paths]
  /\ applying \in [Upgrades -> [step : {"none", "restart", "remove", "restore"}, path : Paths]]
  /\ raced \subseteq Callers /\ stale \in BOOLEAN /\ broken \in BOOLEAN
  /\ handled \in 0 .. MaxUpgrades /\ ran \subseteq Versions /\ acked \subseteq Versions
  /\ upgradeFaults \in 0 .. MaxUpgradeFaults

Rest == [step |-> "idle", path |-> "exec"]
NoRestart == [c \in Upgrades |-> [step |-> "none", path |-> "exec"]]

UpgradeInit ==
  /\ packaged = 1 /\ known = 1 /\ record = Blank
  /\ at = [p \in Callers |-> "idle"] /\ snap = [p \in Callers |-> Blank]
  /\ change = [p \in Callers |-> <<>>]
  /\ received = <<>> /\ parked = None /\ messages = <<>>
  /\ target = [c \in Upgrades |-> None] /\ commands = 0
  /\ running = 1 /\ online = TRUE
  /\ disk = [p \in Paths |-> IF p = "exec" THEN 1 ELSE None] /\ mine = "exec" /\ kept = TRUE
  /\ follows \in BOOLEAN
  /\ worker = Rest /\ applying = NoRestart
  /\ raced = {} /\ stale = FALSE /\ broken = FALSE /\ handled = 0
  /\ ran = {1} /\ acked = {} /\ upgradeFaults = 0

UpgradeFault == upgradeFaults < MaxUpgradeFaults /\ upgradeFaults' = upgradeFaults + 1

----------------------------------------------------------------------------
(* The record.  A missing one reads as an empty one; reading writes it back. *)

Jump(p, to) == at' = [at EXCEPT ![p] = to]
Begin(p, to, ch) == Jump(p, to) /\ change' = [change EXCEPT ![p] = ch]

\* _redis_update, the GET
Read(p) ==
  /\ at[p] \in {"get", "read"}
  /\ snap' = [snap EXCEPT ![p] = record]
  /\ Jump(p, IF at[p] = "get" THEN "put" ELSE "write")
  /\ UNCHANGED <<record, change, raced, stale, known, files, agent, duty, orders, received, messages,
                 acked, upgradeFaults>>

\* What the caller goes on with depends on the record as it read it.
Informed(q) == at[q] \in {"put", "write"} \/ (at[q] = "read" /\ q # "router")

\* _redis_update, the SET
Write(p, new) ==
  /\ record' = new
  /\ stale' = (stale \/ p \in raced)
  /\ raced' = (raced \ {p}) \cup
              IF new = record THEN {} ELSE {q \in Callers \ {p} : Informed(q)}

Merged(rec, changes) == [f \in DOMAIN rec |-> IF f \in DOMAIN changes THEN changes[f] ELSE rec[f]]

Put(p) ==
  /\ at[p] = "write"
  /\ Write(p, Merged(snap[p], change[p]))
  /\ Jump(p, "idle")
  /\ change' = [change EXCEPT ![p] = <<>>] /\ snap' = [snap EXCEPT ![p] = Blank]
  /\ UNCHANGED <<known, files, agent, duty, orders, received, messages, acked, upgradeFaults>>

\* get_upgrade_status ends: the caller decides on what it read.
Look(p, then, ch) ==
  /\ at[p] = "put"
  /\ Write(p, snap[p])
  /\ Begin(p, then, ch)
  /\ snap' = [snap EXCEPT ![p] = IF then = "idle" THEN Blank ELSE @]
  /\ UNCHANGED <<files, agent, duty, orders, received, acked, upgradeFaults>>

\* api_upgrade_status
Poll ==
  /\ at["poller"] = "idle" /\ Jump("poller", "get")
  /\ UNCHANGED <<record, snap, change, raced, stale, known, files, agent, duty, orders, received,
                 messages, acked, upgradeFaults>>

PollEnds == Look("poller", "idle", <<>>) /\ UNCHANGED <<known, messages>>

----------------------------------------------------------------------------
(* The console *)

Publish ==
  /\ packaged < Newest /\ packaged' = packaged + 1
  /\ UNCHANGED <<book, known, files, agent, duty, parked, target, commands, received, messages, acked,
                 upgradeFaults>>

\* api_upgrade_agent: nothing when the host is current; the command first, then
\* the record.
Upgrade ==
  /\ at["router"] = "idle" /\ known < packaged /\ commands < MaxUpgrades
  /\ commands' = commands + 1
  /\ target' = [target EXCEPT ![commands'] = packaged]
  /\ IF online THEN received' = Append(received, commands') /\ UNCHANGED parked
     ELSE parked' = commands' /\ UNCHANGED received
  /\ Begin("router", "read", [state |-> IF online THEN "sent" ELSE "queued", target |-> packaged])
  /\ UNCHANGED <<packaged, record, snap, raced, stale, known, files, agent, duty, messages, acked,
                 upgradeFaults>>

\* An acknowledgement or a heartbeat: the row takes the version of a heartbeat, and
\* record_upgrade_ack and confirm_upgrade_from_heartbeat begin alike.
Receive ==
  /\ at["receiver"] = "idle" /\ messages # <<>>
  /\ Jump("receiver", "get")
  /\ known' = IF Head(messages).kind = "beat" THEN Head(messages).version ELSE known
  /\ UNCHANGED <<record, snap, change, raced, stale, files, agent, duty, orders, received,
                 messages, acked, upgradeFaults>>

\* record_upgrade_ack: one for another version is ignored.
Ack ==
  /\ messages # <<>> /\ Head(messages).kind = "ack" /\ messages' = Tail(messages)
  /\ IF Head(messages).version = snap["receiver"].target
     THEN Look("receiver", "read",
               [state |-> IF Head(messages).ok THEN "restarting" ELSE "failed", ack |-> TRUE])
     ELSE Look("receiver", "idle", <<>>)
  /\ UNCHANGED known

\* confirm_upgrade_from_heartbeat: an upgrade that was acknowledged is confirmed
\* when the version is the one it was for.
Beat ==
  /\ messages # <<>> /\ Head(messages).kind = "beat" /\ messages' = Tail(messages)
  /\ IF snap["receiver"].state = "restarting" /\ snap["receiver"].ack
     THEN Look("receiver", "read", IF Head(messages).version = snap["receiver"].target
                                   THEN [state |-> "confirmed"] ELSE <<>>)
     ELSE Look("receiver", "idle", <<>>)
  /\ UNCHANGED known

----------------------------------------------------------------------------
(* Files *)

Exe == IF follows THEN mine ELSE "exec"

Unlink(p) ==
  /\ disk' = [disk EXCEPT ![p] = None]
  /\ kept' = (kept /\ mine # p) /\ UNCHANGED mine

Place(v, p) ==
  /\ disk' = [disk EXCEPT ![p] = v]
  /\ kept' = (kept /\ mine # p) /\ UNCHANGED mine

Rename(p, q) ==
  /\ disk' = [disk EXCEPT ![q] = disk[p], ![p] = None]
  /\ mine' = (IF mine = p /\ kept THEN q ELSE mine)
  /\ kept' = (kept /\ mine # q)

----------------------------------------------------------------------------
(* HandleUpgrade, and the handler around it *)

Order == Head(received)

\* The handler sends its acknowledgement and takes the next command.
Answer(ok) ==
  /\ messages' = IF online THEN Append(messages, [kind |-> "ack", version |-> target[Order], ok |-> ok])
             ELSE messages
  /\ received' = Tail(received)
  /\ worker' = Rest
  /\ acked' = IF ok THEN acked \cup {target[Order]} ELSE acked

Refuse == Answer(FALSE) /\ UNCHANGED <<applying, broken, handled>>
To(step) == worker' = [worker EXCEPT !.step = step] /\ UNCHANGED <<applying, broken, handled>>
RoomForMessage == Len(messages) < MaxMail

\* The binary that is offered now must have the signature of the one the command
\* was made for.
Stage ==
  /\ worker.step = "idle" /\ received # <<>> /\ RoomForMessage
  /\ IF packaged = target[Order]
     THEN \/ /\ worker' = [step |-> "staged", path |-> Exe]
             /\ UNCHANGED <<applying, broken, handled, received, messages, acked, upgradeFaults>>
          \/ UpgradeFault /\ Refuse
     ELSE Refuse /\ UNCHANGED upgradeFaults
  /\ UNCHANGED <<book, known, files, agent, orders>>

ClearBackup ==
  /\ worker.step = "staged" /\ RoomForMessage
  /\ \/ Unlink(Backup[worker.path]) /\ To("cleared") /\ UNCHANGED <<received, messages, acked, upgradeFaults>>
     \/ UpgradeFault /\ Refuse /\ UNCHANGED files
  /\ UNCHANGED <<book, known, agent, orders>>

MoveAside ==
  /\ worker.step = "cleared" /\ RoomForMessage
  /\ \/ /\ disk[worker.path] # None
        /\ Rename(worker.path, Backup[worker.path])
        /\ To("moved") /\ UNCHANGED <<received, messages, acked, upgradeFaults>>
     \/ disk[worker.path] = None /\ Refuse /\ UNCHANGED <<files, upgradeFaults>>
     \/ UpgradeFault /\ Refuse /\ UNCHANGED files
  /\ UNCHANGED <<book, known, agent, orders>>

\* Defect: the acknowledgement is sent although the new binary is not in place.
InstallUnseen ==
  /\ worker.step = "moved" /\ RoomForMessage
  /\ Answer(TRUE) /\ handled' = handled + 1
  /\ applying' = [applying EXCEPT ![Order] = [step |-> "restart", path |-> "exec"]]
  /\ (Place(target[Order], worker.path) /\ UNCHANGED upgradeFaults) \/ (UpgradeFault /\ UNCHANGED files)
  /\ UNCHANGED <<book, known, agent, orders, broken>>

Install ==
  /\ worker.step = "moved" /\ RoomForMessage
  /\ \/ /\ Place(target[Order], worker.path)
        /\ Answer(TRUE) /\ handled' = handled + 1
        /\ applying' = [applying EXCEPT ![Order] = [step |-> "restart", path |-> "exec"]]
        /\ UNCHANGED <<broken, upgradeFaults>>
     \/ UpgradeFault /\ To("undo") /\ UNCHANGED <<received, messages, acked, files>>
  /\ UNCHANGED <<book, known, agent, orders>>

PutBack ==
  /\ worker.step = "undo" /\ RoomForMessage
  /\ \/ /\ disk[Backup[worker.path]] # None
        /\ Rename(Backup[worker.path], worker.path)
        /\ Refuse /\ UNCHANGED upgradeFaults
     \/ /\ disk[Backup[worker.path]] = None \/ UpgradeFault
        /\ broken' = TRUE /\ Answer(FALSE) /\ UNCHANGED <<files, applying, handled>>
        /\ disk[Backup[worker.path]] = None => UNCHANGED upgradeFaults
  /\ UNCHANGED <<book, known, agent, orders>>

----------------------------------------------------------------------------
(* ApplyStagedAndRestart, a goroutine of its own *)

Apply(c, step, path) == applying' = [applying EXCEPT ![c] = [step |-> step, path |-> path]]

\* The process is gone and systemd starts what is at the path: what the agent
\* had received is lost, and of what it sent the end may be.
Replaced ==
  /\ running' = disk["exec"] /\ online' = FALSE /\ UNCHANGED follows
  /\ ran' = ran \cup ({disk["exec"]} \ {None})
  /\ mine' = "exec" /\ kept' = TRUE /\ UNCHANGED disk
  /\ received' = <<>> /\ worker' = Rest /\ applying' = NoRestart /\ handled' = 0
  /\ \E k \in 0 .. Len(messages) :
       (at["receiver"] # "idle" => k > 0) /\ messages' = SubSeq(messages, 1, k)
  /\ broken' = (broken \/ worker.step \in {"moved", "undo"}
                  \/ \E c \in Upgrades : applying[c].step = "restore")
  /\ UNCHANGED <<book, known, orders, acked>>

Restart(c) == applying[c].step = "restart" /\ Replaced /\ UNCHANGED upgradeFaults

\* systemctl cannot be started: rollbackBinary, where the executable is now.
RestartFails(c) ==
  /\ applying[c].step = "restart" /\ UpgradeFault
  /\ Apply(c, "remove", Exe)
  /\ UNCHANGED <<book, known, files, agent, orders, worker, broken, handled, received, messages, acked>>

\* Nothing to restore when there is no backup.
RollBack(c) ==
  /\ applying[c].step = "remove"
  /\ LET p == applying[c].path
     IN IF disk[Backup[p]] = None THEN Apply(c, "none", p) /\ UNCHANGED files
        ELSE Unlink(p) /\ Apply(c, "restore", p)
  /\ UNCHANGED <<book, known, agent, orders, worker, broken, handled, received, messages, acked, upgradeFaults>>

Restore(c) ==
  /\ applying[c].step = "restore"
  /\ LET p == applying[c].path
     IN IF disk[Backup[p]] = None
        THEN broken' = TRUE /\ UNCHANGED <<files, handled>>
        ELSE /\ Rename(Backup[p], p) /\ UNCHANGED broken
             /\ handled' = IF p = "exec" /\ handled = 1 THEN 0 ELSE handled
  /\ Apply(c, "none", applying[c].path)
  /\ UNCHANGED <<book, known, agent, orders, worker, received, messages, acked, upgradeFaults>>

----------------------------------------------------------------------------
(* The process and its connection *)

AgentCrash == running # None /\ UpgradeFault /\ Replaced

\* A parked command is delivered as the agent connects.
Connect ==
  /\ running # None /\ ~online
  /\ online' = TRUE
  /\ received' = IF parked = None THEN received ELSE Append(received, parked)
  /\ parked' = None
  /\ UNCHANGED <<book, known, files, running, follows, ran, duty, packaged, target, commands,
                 messages, acked, upgradeFaults>>

Disconnect ==
  /\ online /\ UpgradeFault /\ online' = FALSE
  /\ UNCHANGED <<book, known, files, running, follows, ran, duty, orders, received, messages, acked>>

Heartbeat ==
  /\ online /\ RoomForMessage
  /\ messages' = Append(messages, [kind |-> "beat", version |-> running, ok |-> TRUE])
  /\ UNCHANGED <<book, known, files, agent, duty, orders, received, acked, upgradeFaults>>

UpgradeNext == \/ \E p \in Callers : Read(p) \/ Put(p)
        \/ Poll \/ PollEnds \/ Publish \/ Upgrade \/ Receive \/ Ack \/ Beat
        \/ Stage \/ ClearBackup \/ MoveAside \/ Install \/ PutBack
        \/ \E c \in Upgrades : Restart(c) \/ RestartFails(c) \/ RollBack(c) \/ Restore(c)
        \/ AgentCrash \/ Connect \/ Disconnect \/ Heartbeat

UpgradeSpec == UpgradeInit /\ [][UpgradeNext]_upgradeVars

----------------------------------------------------------------------------
(* Properties *)

\* A confirmed upgrade is for a version that ran, and one that is restarting is for a
\* version that was acknowledged as staged, unless a call wrote over the record of
\* another.  (api_upgrade_agent, record_upgrade_ack, confirm_upgrade_from_heartbeat)
RecordIsTruthful ==
  ~stale => /\ record.state = "confirmed" => record.target \in ran
            /\ record.state = "restarting" => record.target \in acked

\* A process that has no handled upgrade behind it finds its own binary where it was
\* started from, but in the middle of one, and unless a rollback failed.  (HandleUpgrade,
\* rollbackBinary)
OwnBinaryStays ==
  (running # None /\ handled = 0 /\ ~broken /\ worker.step \notin {"moved", "undo"}
   /\ \A c \in Upgrades : applying[c].step = "none") => disk["exec"] = running

\* There is always an executable to start, but between two renames, or unless a rollback
\* failed or was cut short.  (HandleUpgrade, rollbackBinary)
ExecutableIsThere ==
  disk["exec"] = None =>
     \/ worker.step \in {"moved", "undo"} \/ broken
     \/ \E c \in Upgrades : applying[c].step = "restore"

\* The agent never goes back to a version older than one that ran.  (HandleUpgrade,
\* prepare_upgrade)
NoDowngrade == running # None => \A v \in ran : v <= running

\* The process only waits for a restart, or rolls back, with the new binary in place:
\* the acknowledgement was sent for something, unless a rollback failed.  (HandleUpgrade,
\* OnAgentUpgrade)
AckedIsInPlace ==
  \A c \in Upgrades :
    (applying[c].step = "restart" /\ handled = 1 /\ worker.step = "idle" /\ ~broken)
      => disk["exec"] = target[c]

UpgradeInv == /\ UpgradeTypeOK /\ RecordIsTruthful /\ OwnBinaryStays /\ ExecutableIsThere
              /\ NoDowngrade /\ AckedIsInPlace
=============================================================================
