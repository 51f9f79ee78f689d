------------------------------- MODULE RulePacks -------------------------------
(***************************************************************************)
(* Rule packs from the feeds to an agent.  Synchronisations and imports    *)
(* publish signed packs: the pack is stored under the second in which the  *)
(* call began (sync) or published (import), then the pointer to the        *)
(* current version is set.  Heartbeats report the version an agent runs;   *)
(* the server sends the current one when they differ.  The agent downloads *)
(* it, checks the signature, loads it, keeps it on disk and reports it.    *)
(*                                                                         *)
(* Each connection of the agent has a worker that handles its commands in  *)
(* order; the worker of a lost connection still finishes what it was       *)
(* given, beside the worker of the new one.                                *)
(***************************************************************************)
EXTENDS RuleMatch

CONSTANTS
  Calls,        \* calls of the rules router that publish a pack
  Baseline,     \* rules built in and from BASELINE_RULES_FILE
  NvdPages,     \* what the NVD answers: a sequence of sets of CVEs
  Advisories,   \* what is in GitHub's database of advisories
  Archives,     \* archives an operator may import
  Installed,    \* releases a host may have installed
  MaxTime,      \* bound: seconds in which something is published
  MaxFaults     \* bound: failures, crashes, lost connections and messages,
                \*   updates sent by hand

ASSUME RulePacksAssumption ==
  /\ IsFiniteSet(Calls)
  /\ Baseline # {}
  /\ MaxTime \in Nat \ {0} /\ MaxFaults \in Nat

VARIABLES
  now,        \* the clock's second
  call,       \* publishing calls: where each is, its version and rules
  packs,      \* index vulnscan-rules: version -> rules
  current,    \* Redis rules:current_version, 0 when unset
  beats,      \* versions heartbeats reported, not yet looked at
  conn,       \* the worker of the agent's connection, 0 when there is none
  inbox,      \* handlerCh of each worker: rule_update commands
  worker,     \* the command each worker is at
  up,         \* whether the agent process runs
  loaded,     \* the agent's rules in memory, with their version
  disk,       \* its rules.json
  config,     \* rule_version of its config.json
  reported,   \* client.ruleVersion, what heartbeats report
  signed,     \* history: bodies signed for each version
  overlap,    \* history: two publications were under way at once or in the
              \*   same second, or one died half way
  crossed,    \* history: two workers were loading at once
  blank,      \* history: enrolled with a version, or failed to write rules.json
  faults      \* history: how many of MaxFaults have happened

server == <<now, call, packs, current>>
wire   == <<beats, conn, inbox>>
agent  == <<worker, up, loaded, disk, config, reported>>
past   == <<signed, overlap, crossed, blank>>
vars   == <<server, wire, agent, past, faults>>

Versions == 1 .. MaxTime
Workers  == {1, 2}
MaxInbox == 1   \* bound: commands that wait for one worker
NoRules  == [version |-> 0, rules |-> {}]
Idle     == [pc |-> "idle", version |-> 0, body |-> {}]

Contents ==
  {Baseline \union TransformCves(FetchNvd(NvdPages, n)) : n \in 0 .. Len(NvdPages)}
    \union {Baseline \union TransformAdvisories(FetchAdvisories(Advisories, got, listed)) :
              got \in SUBSET Advisories, listed \in BOOLEAN}
    \union {ParseImport(z) : z \in Archives}

TypeOK ==
  /\ now \in Versions
  /\ call \in [Calls -> [pc : {"idle", "fetch", "store", "point", "done"},
                         version : 0 .. MaxTime, rules : Contents \union {{}}]]
  /\ packs \in [Versions -> Contents \union {{}}]
  /\ current \in 0 .. MaxTime
  /\ beats \subseteq 0 .. MaxTime
  /\ conn \in 0 .. 2
  /\ \A w \in Workers :
       /\ Len(inbox[w]) <= MaxInbox
       /\ worker[w] \in [pc : {"idle", "load", "persist", "report", "save"},
                         version : 0 .. MaxTime, body : Contents \union {{}}]
  /\ {loaded, disk} \subseteq [version : 0 .. MaxTime, rules : Contents \union {{}}]
  /\ config \in 0 .. MaxTime /\ reported \in 0 .. MaxTime
  /\ {up, overlap, crossed, blank} \subseteq BOOLEAN
  /\ faults \in 0 .. MaxFaults

Init ==
  /\ now = 1
  /\ call = [c \in Calls |-> [pc |-> "idle", version |-> 0, rules |-> {}]]
  /\ packs = [v \in Versions |-> {}] /\ current = 0
  /\ beats = {} /\ conn = 0
  /\ inbox = [w \in Workers |-> <<>>] /\ worker = [w \in Workers |-> Idle]
  /\ up = FALSE /\ loaded = NoRules /\ disk = NoRules
  /\ config = 0 /\ reported = 0
  /\ signed = [v \in Versions |-> {}]
  /\ overlap = FALSE /\ crossed = FALSE /\ blank = FALSE
  /\ faults = 0

Fault   == faults < MaxFaults /\ faults' = faults + 1
NoFault == UNCHANGED faults

-----------------------------------------------------------------------------
(* Publishing *)

Active(c)  == call[c].pc \in {"fetch", "store", "point"}
Alone(c)   == \A d \in Calls \ {c} : ~Active(d)
SetCall(c, pc, v, rules) ==
  call' = [call EXCEPT ![c] = [pc |-> pc, version |-> v, rules |-> rules]]

Tick ==
  /\ now < MaxTime /\ now' = now + 1
  /\ UNCHANGED <<call, packs, current, wire, agent, past, faults>>

\* sync_rules takes its version before it asks the feed.
StartSync(c) ==
  /\ call[c].pc = "idle"
  /\ SetCall(c, "fetch", now, {})
  /\ overlap' = (overlap \/ ~Alone(c))
  /\ UNCHANGED <<now, packs, current, wire, agent, signed, crossed, blank, faults>>

\* What the feed gave before it failed, if it did, with the baseline rules.
Fetched(c, rules) ==
  /\ call[c].pc = "fetch"
  /\ SetCall(c, "store", call[c].version, Baseline \union rules)
  /\ UNCHANGED <<now, packs, current, wire, agent, past>>

\* source=nvd
Fetch(c) ==
  \E n \in 0 .. Len(NvdPages) :
    /\ Fetched(c, TransformCves(FetchNvd(NvdPages, n)))
    /\ IF n = Len(NvdPages) THEN NoFault ELSE Fault

\* source=github
FetchFromGithub(c) ==
  \E got \in SUBSET Advisories, listed \in BOOLEAN :
    /\ Fetched(c, TransformAdvisories(FetchAdvisories(Advisories, got, listed)))
    /\ IF listed /\ got = Advisories THEN NoFault ELSE Fault

\* An import is parsed, and published under the second in which it is; one
\* without a rule is refused.
StartImport(c) ==
  /\ call[c].pc = "idle"
  /\ \E z \in Archives :
       ParseImport(z) # {} /\ SetCall(c, "store", now, ParseImport(z))
  /\ overlap' = (overlap \/ ~Alone(c))
  /\ UNCHANGED <<now, packs, current, wire, agent, signed, crossed, blank, faults>>

\* The signed pack replaces one of the same second.
Store(c) ==
  /\ call[c].pc = "store"
  /\ packs' = [packs EXCEPT ![call[c].version] = call[c].rules]
  /\ overlap' = (overlap \/ packs[call[c].version] # {})
  /\ SetCall(c, "point", call[c].version, call[c].rules)
  /\ UNCHANGED <<now, current, wire, agent, signed, crossed, blank, faults>>

Point(c) ==
  /\ call[c].pc = "point"
  /\ current' = call[c].version
  /\ SetCall(c, "done", 0, {})
  /\ UNCHANGED <<now, packs, wire, agent, past, faults>>

\* Elasticsearch or Redis refuses, an answer of the feed cannot be read, or the
\* server dies.
PublishFails(c) ==
  /\ Active(c) /\ Fault
  /\ overlap' = (overlap \/ call[c].pc = "point")
  /\ SetCall(c, "done", 0, {})
  /\ UNCHANGED <<now, packs, current, wire, agent, signed, crossed, blank>>

-----------------------------------------------------------------------------
(* Distribution *)

Heartbeat ==
  /\ up /\ conn # 0 /\ beats = {}
  /\ beats' = {reported}
  /\ UNCHANGED <<server, conn, inbox, agent, past, faults>>

\* The stored pack, as it is signed and as it is served.
Body(v) == packs[v]

\* A command with a fresh signature of the current pack's body, put on the
\* connection or lost on the way.
Send ==
  LET body == Body(current)
  IN /\ signed' = [signed EXCEPT ![current] = @ \union {body}]
     /\ \/ /\ conn # 0 /\ Len(inbox[conn]) < MaxInbox
           /\ inbox' = [inbox EXCEPT ![conn] =
                          Append(@, [version |-> current, signature |-> body])]
           /\ NoFault
        \/ UNCHANGED inbox /\ IF conn = 0 THEN NoFault ELSE Fault

\* Defect: an agent that reports no version is passed over.
TriggerUnlessEmpty ==
  /\ beats # {} /\ beats' = {}
  /\ \E v \in beats :
       IF current \notin {0, v} /\ v # 0
       THEN Send
       ELSE UNCHANGED <<inbox, signed, faults>>
  /\ UNCHANGED <<server, conn, agent, overlap, crossed, blank>>

\* diff_versions: nothing to do when the versions are the same, or when there
\* is no pack.
TriggerUpdate ==
  /\ beats # {} /\ beats' = {}
  /\ \E v \in beats :
       IF current \notin {0, v}
       THEN Send
       ELSE UNCHANGED <<inbox, signed, faults>>
  /\ UNCHANGED <<server, conn, agent, overlap, crossed, blank>>

\* The router sends the current pack to every agent that is online.
ForceUpdate ==
  /\ conn # 0 /\ current # 0
  /\ Fault /\ Len(inbox[conn]) < MaxInbox
  /\ inbox' = [inbox EXCEPT ![conn] =
                 Append(@, [version |-> current, signature |-> Body(current)])]
  /\ signed' = [signed EXCEPT ![current] = @ \union {Body(current)}]
  /\ UNCHANGED <<server, beats, conn, agent, overlap, crossed, blank>>

\* GET /rules/pack/{version}.
DownloadPack(v) == Body(v)

-----------------------------------------------------------------------------
(* The agent *)

\* The installer writes the server's current version into config.json; an
\* agent that enrols itself writes none.
Enroll ==
  /\ ~up /\ config = 0 /\ disk = NoRules
  /\ current # 0 /\ config' = current /\ blank' = TRUE
  /\ UNCHANGED <<server, wire, worker, up, loaded, disk, reported, signed,
                 overlap, crossed, faults>>

\* The rules on disk say what is reported; without them config.json does.
StartAgent ==
  /\ ~up /\ up' = TRUE
  /\ loaded' = disk
  /\ reported' = IF disk.version # 0 THEN disk.version ELSE config
  /\ config' = IF disk.version # 0 THEN disk.version ELSE config
  /\ UNCHANGED <<server, wire, worker, disk, past, faults>>

\* A new connection has a new worker.
Connect ==
  /\ up /\ conn = 0
  /\ \E w \in Workers : /\ worker[w] = Idle /\ inbox[w] = <<>>
                        /\ conn' = w
  /\ UNCHANGED <<server, beats, inbox, agent, past, faults>>

\* The old worker keeps what it was given.
Disconnect ==
  /\ conn # 0 /\ Fault /\ conn' = 0
  /\ UNCHANGED <<server, beats, inbox, agent, past>>

SetWorker(w, pc, v, b) ==
  worker' = [worker EXCEPT ![w] = [pc |-> pc, version |-> v, body |-> b]]

\* Defect: the signature is compared with the version, not the body.
HandleUnsigned(w) ==
  /\ up /\ worker[w] = Idle /\ inbox[w] # <<>>
  /\ inbox' = [inbox EXCEPT ![w] = Tail(@)]
  /\ LET req == Head(inbox[w])
     IN SetWorker(w, "load", req.version, DownloadPack(req.version))
  /\ UNCHANGED <<server, beats, conn, up, loaded, disk, config, reported, past, faults>>

\* The body that is downloaded has to be the one that was signed.
HandleRuleUpdate(w) ==
  /\ up /\ worker[w] = Idle /\ inbox[w] # <<>>
  /\ inbox' = [inbox EXCEPT ![w] = Tail(@)]
  /\ LET req  == Head(inbox[w])
         body == DownloadPack(req.version)
     IN \/ /\ body = req.signature
           /\ SetWorker(w, "load", req.version, body) /\ NoFault
        \/ /\ IF body = req.signature THEN Fault ELSE NoFault
           /\ UNCHANGED worker
  /\ UNCHANGED <<server, beats, conn, up, loaded, disk, config, reported, past>>

LoadRules(w) ==
  /\ up /\ worker[w].pc = "load"
  /\ loaded' = [version |-> worker[w].version, rules |-> worker[w].body]
  /\ crossed' = (crossed \/ \E x \in Workers \ {w} : worker[x] # Idle)
  /\ SetWorker(w, "persist", worker[w].version, worker[w].body)
  /\ UNCHANGED <<server, wire, up, disk, config, reported, signed, overlap, blank, faults>>

\* A file that cannot be written does not undo the load.
PersistRules(w) ==
  /\ up /\ worker[w].pc = "persist"
  /\ \/ /\ disk' = [version |-> worker[w].version, rules |-> worker[w].body]
        /\ NoFault /\ UNCHANGED blank
     \/ Fault /\ blank' = TRUE /\ UNCHANGED disk
  /\ SetWorker(w, "report", worker[w].version, {})
  /\ UNCHANGED <<server, wire, up, loaded, config, reported, signed, overlap, crossed>>

\* OnRuleUpdate: what the heartbeat reports, then config.json.
Report(w) ==
  /\ up /\ worker[w].pc = "report"
  /\ reported' = worker[w].version
  /\ SetWorker(w, "save", worker[w].version, {})
  /\ UNCHANGED <<server, wire, up, loaded, disk, config, past, faults>>

SaveConfig(w) ==
  /\ up /\ worker[w].pc = "save"
  /\ \/ config' = worker[w].version /\ NoFault
     \/ Fault /\ UNCHANGED config
  /\ worker' = [worker EXCEPT ![w] = Idle]
  /\ UNCHANGED <<server, wire, up, loaded, disk, reported, past>>

CrashAgent ==
  /\ up /\ Fault /\ up' = FALSE
  /\ conn' = 0 /\ inbox' = [w \in Workers |-> <<>>]
  /\ worker' = [w \in Workers |-> Idle]
  /\ loaded' = NoRules /\ reported' = 0
  /\ UNCHANGED <<server, beats, disk, config, past>>

-----------------------------------------------------------------------------

Next ==
  \/ \E c \in Calls :
       \/ StartSync(c) \/ Fetch(c) \/ FetchFromGithub(c) \/ StartImport(c)
       \/ Store(c) \/ Point(c) \/ PublishFails(c)
  \/ Tick \/ Heartbeat \/ TriggerUpdate \/ ForceUpdate
  \/ Enroll \/ StartAgent \/ Connect \/ Disconnect \/ CrashAgent
  \/ \E w \in Workers :
       \/ HandleRuleUpdate(w) \/ LoadRules(w) \/ PersistRules(w)
       \/ Report(w) \/ SaveConfig(w)

\* systemd restarts the agent, which reconnects and sends heartbeats; the
\* server's tasks and the agent's workers run.
Fairness ==
  /\ WF_vars(StartAgent) /\ WF_vars(Connect)
  /\ WF_vars(Heartbeat) /\ WF_vars(TriggerUpdate)
  /\ \A w \in Workers :
       /\ WF_vars(HandleRuleUpdate(w)) /\ WF_vars(LoadRules(w))
       /\ WF_vars(PersistRules(w)) /\ WF_vars(Report(w)) /\ WF_vars(SaveConfig(w))

Spec     == Init /\ [][Next]_vars
FairSpec == Spec /\ Fairness

-----------------------------------------------------------------------------
(* Properties *)

\* The pointer never names a version that is not stored (_publish_pack stores,
\* then points), and it names the newest one unless publications overlapped.
PointerIsNewest ==
  /\ current # 0 => packs[current] # {}
  /\ ~overlap /\ (\A c \in Calls : ~Active(c)) =>
       \A v \in Versions : packs[v] # {} => v <= current

\* An agent's rules were signed under their version, whatever was published,
\* downloaded or restarted in between (HandleRuleUpdate).
OnlySignedRules ==
  \A p \in {loaded, disk} : p.version # 0 => p.rules \in signed[p.version]

\* What an agent reports is what it has loaded, at rest, unless two workers
\* loaded at once (OnRuleUpdate); and it reports a version without having any
\* rules only if config.json came with one or rules.json was not written.
ReportIsLoaded ==
  up /\ (\A w \in Workers : worker[w] = Idle) =>
    /\ loaded.version # 0 /\ ~crossed => reported = loaded.version
    /\ loaded.version = 0 /\ reported # 0 => blank

\* The three above, about the publisher, the channel and the agent, and the
\* types: the invariant of the distribution of rules.
RulesInv == TypeOK /\ PointerIsNewest /\ OnlySignedRules /\ ReportIsLoaded

\* The agent comes to report the current pack, and to run its rules unless
\* they were published twice in a second, it had none to begin with, or two
\* workers crossed (trigger_update_if_outdated on every heartbeat).
AgentCatchesUp ==
  <>[](current # 0 =>
         /\ reported = current
         /\ loaded.rules = packs[current] \/ overlap \/ crossed \/ blank)

\* What the feeds and the archives say.
AllStatements ==
  Statements(UNION Range(NvdPages) \union UNION {UNION Range(z.nvd) : z \in Archives},
             Advisories \union UNION {z.advisories : z \in Archives})

\* A published rule finds the releases its feed says are affected, all but those
\* that LeftOut names, and others only where the feed gives a list: with epochs,
\* numbers of several digits, candidates and revisions (_transform_cves_to_rules,
\* _advisory_version_threshold, compareVersions).
FindsTheAffected ==
  [][\A c \in Calls : call[c].pc # "store" /\ call'[c].pc = "store" =>
       \A s \in AllStatements, r \in call'[c].rules : r.id = s.id /\ r.name = s.name =>
         \A here \in Installed :
           LET found == Match({Package(s.name, Version(here))}, {r}) # {}
           IN IF Affected(s, here) THEN found <=> ~LeftOut(s, here) ELSE found => s.listed # {}]_vars
=============================================================================
