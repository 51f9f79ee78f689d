----------------------------- MODULE NucleiContent -----------------------------
(***************************************************************************)
(* What the nuclei scanner runs on.  On the server, the template library:  *)
(* synchronisations rebuild it in a new index and swap the alias, under a  *)
(* lock with a time to live, while templates are edited through the alias. *)
(* On an agent, the binary and the template bundle: each is staged beside  *)
(* the installed one and swapped in by two renames.  Heartbeats report the *)
(* binary's version, and the server sends an upgrade when it is not the    *)
(* configured one, at most one per agent in the time of a cooldown key.    *)
(***************************************************************************)
EXTENDS Integers, FiniteSets

CONSTANTS
  Syncs,        \* calls that synchronise or import the library
  MaxSecond,    \* bound: seconds in which libraries are built
  MaxUpdates,   \* bound: template updates sent to the agent
  MaxTrouble    \* bound: failures, crashes, expired locks, edits

ASSUME NucleiAssumption ==
  /\ IsFiniteSet(Syncs)
  /\ MaxSecond \in Nat \ {0}
  /\ {MaxUpdates, MaxTrouble} \subseteq Nat

VARIABLES
  second,     \* the server's clock
  syncLock,   \* the lock key of the synchronisations
  sync,       \* synchronisations: where each is, its index and the one it replaces
  index,      \* backing indices: "none", "part" or "full", by the second of their name
  alias,      \* indices the alias nuclei-templates points to
  concrete,   \* an index is itself called nuclei-templates
  library,    \* Redis: the version of the library, as the second it was built
  cooldown,   \* Redis: agent:nuclei_upgrade of the agent
  copies,       \* the agent's files: installed, kept as .old, staged
  task,       \* what the agent's worker is at
  agentRuns,    \* whether the agent runs
  reports,    \* the nuclei binary its heartbeats report
  behind,     \* the version that is configured is not the installed binary's
  updates,    \* template updates sent so far
  disturbed,  \* history: a lock ran out under a call, or a call died
  untidy,     \* history: what failures have left to be put right: "alias" (two indices
              \*   behind it), "index" (one too many), "version" or "lock"
  ever,       \* history: what has ever been installed
  bared,      \* history: what lost its kept copy while nothing was in place
  trouble     \* history: how many of MaxTrouble have happened

serverVars == <<second, syncLock, sync, index, alias, concrete, library, disturbed, untidy>>
agentVars  == <<copies, task, agentRuns, reports, behind, updates, ever, bared>>
nucleiVars == <<serverVars, cooldown, agentVars, trouble>>

Seconds == 1 .. MaxSecond
Kinds   == {"binary", "templates"}
Files   == {"none", "part", "full"}
Resting == [kind |-> "binary", pc |-> "idle"]
NoSync  == [pc |-> "idle", name |-> 0, old |-> 0]

NucleiTypeOK ==
  /\ second \in Seconds /\ library \in 0 .. MaxSecond
  /\ {syncLock, concrete, cooldown, agentRuns, behind, disturbed} \subseteq BOOLEAN
  /\ sync \in [Syncs -> [pc : {"idle", "fetch", "create", "bulk", "alias", "swap", "drop",
                                "version", "release", "done", "dead"},
                         name : 0 .. MaxSecond, old : 0 .. MaxSecond]]
  /\ index \in [Seconds -> Files] /\ alias \subseteq Seconds
  /\ copies \in [Kinds -> [here : Files, old : Files, staged : Files]]
  /\ task \in [kind : Kinds, pc : {"idle", "stage", "clear", "backup", "swap"}]
  /\ reports \in Files
  /\ updates \in 0 .. MaxUpdates /\ ever \subseteq Kinds /\ bared \subseteq Kinds
  /\ untidy \subseteq {"alias", "index", "version", "lock"}
  /\ trouble \in 0 .. MaxTrouble

NucleiInit ==
  /\ second = 1 /\ syncLock = FALSE
  /\ sync = [s \in Syncs |-> NoSync]
  /\ index = [n \in Seconds |-> "none"] /\ alias = {} /\ concrete = FALSE
  /\ library = 0 /\ cooldown = FALSE
  /\ copies = [k \in Kinds |-> [here |-> "none", old |-> "none", staged |-> "none"]]
  /\ task = Resting /\ agentRuns = FALSE /\ reports = "none"
  /\ behind = FALSE /\ updates = 0 /\ disturbed = FALSE /\ untidy = {} /\ ever = {} /\ bared = {}
  /\ trouble = 0

Trouble   == trouble < MaxTrouble /\ trouble' = trouble + 1
NoTrouble == UNCHANGED trouble

-----------------------------------------------------------------------------
(* The library *)

GoTo(s, pc)   == sync' = [sync EXCEPT ![s].pc = pc]
Existing      == {n \in Seconds : index[n] # "none"}
Syncing(s)    == sync[s].pc \notin {"idle", "done", "dead"}

\* A failure that leaves something behind.  A failing request may have been
\* carried out all the same.
Leaving(what) == Trouble /\ untidy' = untidy \union what
Cleanly       == UNCHANGED untidy

NextSecond ==
  /\ second < MaxSecond /\ second' = second + 1
  /\ UNCHANGED <<syncLock, sync, index, alias, concrete, library, disturbed, untidy,
                 cooldown, agentVars, trouble>>

\* A call that finds the lock taken is refused, and one that hears nothing fails.
AcquireLock(s) ==
  /\ sync[s].pc = "idle" /\ ~syncLock
  /\ syncLock' = TRUE
  /\ \/ GoTo(s, "fetch") /\ NoTrouble /\ Cleanly
     \/ GoTo(s, "done") /\ Leaving({"lock"})
  /\ UNCHANGED <<second, index, alias, concrete, library, disturbed, cooldown, agentVars>>

\* The bundle is downloaded, or was uploaded, and parsed; one that is broken, too
\* large or without a template is refused.
ParseTemplatesZip(s) ==
  /\ sync[s].pc = "fetch"
  /\ \/ GoTo(s, "create") /\ NoTrouble
     \/ GoTo(s, "release") /\ Trouble
  /\ UNCHANGED <<second, syncLock, index, alias, concrete, library, disturbed, untidy, cooldown,
                 agentVars>>

\* The new index has the second as its name, and one of that name must not exist.
CreateIndex(s) ==
  LET Made == index' = [index EXCEPT ![second] = "part"]
  IN /\ sync[s].pc = "create"
     /\ \/ /\ index[second] = "none" /\ Made /\ NoTrouble /\ Cleanly
           /\ sync' = [sync EXCEPT ![s] = [pc |-> "bulk", name |-> second, old |-> 0]]
        \/ index[second] # "none" /\ GoTo(s, "release") /\ NoTrouble /\ Cleanly /\ UNCHANGED index
        \/ index[second] = "none" /\ GoTo(s, "release") /\ Made /\ Leaving({"index"})
        \/ GoTo(s, "release") /\ Trouble /\ Cleanly /\ UNCHANGED index
     /\ UNCHANGED <<second, syncLock, alias, concrete, library, disturbed, cooldown, agentVars>>

\* A failing bulk request drops the index, if that can be done.
Bulk(s) ==
  LET n == sync[s].name
  IN /\ sync[s].pc = "bulk"
     /\ \/ index' = [index EXCEPT ![n] = "full"] /\ GoTo(s, "alias") /\ NoTrouble /\ Cleanly
        \/ index' = [index EXCEPT ![n] = "none"] /\ GoTo(s, "release") /\ Trouble /\ Cleanly
        \/ UNCHANGED index /\ GoTo(s, "release") /\ Leaving({"index"})
     /\ UNCHANGED <<second, syncLock, alias, concrete, library, disturbed, cooldown, agentVars>>

\* _alias_backing: one of the indices behind the alias, or none when that cannot be
\* read; then the new index comes to the old one's side.
AliasBacking(s) ==
  /\ sync[s].pc = "alias"
  /\ \/ /\ NoTrouble /\ Cleanly
        /\ \E n \in IF alias = {} THEN {0} ELSE alias :
             sync' = [sync EXCEPT ![s].old = n, ![s].pc = "swap"]
     \/ /\ alias # {} /\ Leaving({"alias", "version"})
        /\ sync' = [sync EXCEPT ![s].old = 0, ![s].pc = "swap"]
  /\ UNCHANGED <<second, syncLock, index, alias, concrete, library, disturbed, cooldown, agentVars>>

\* update_aliases is one step; it is refused when the old index is no longer
\* behind the alias, or when an index has the alias's name.  When it fails the new
\* index goes, if that can be done, also when the alias has moved to it.
SwapAlias(s) ==
  LET old == sync[s].old  new == sync[s].name
      possible == ~concrete /\ old \in alias \union {0}
      without  == [index EXCEPT ![new] = "none"]
  IN /\ sync[s].pc = "swap"
     /\ \/ /\ possible /\ alias' = (alias \ {old}) \union {new}
           /\ GoTo(s, "drop") /\ NoTrouble /\ Cleanly /\ UNCHANGED index
        \/ /\ index' = without /\ GoTo(s, "release") /\ Cleanly /\ UNCHANGED alias
           /\ IF possible THEN Trouble ELSE NoTrouble
        \/ GoTo(s, "release") /\ Leaving({"index"}) /\ UNCHANGED <<index, alias>>
        \/ /\ possible /\ GoTo(s, "release") /\ Leaving({"index", "version"})
           /\ \/ index' = without /\ alias' = alias \ {old}
              \/ UNCHANGED index /\ alias' = (alias \ {old}) \union {new}
     /\ UNCHANGED <<second, syncLock, concrete, library, disturbed, cooldown, agentVars>>

\* When that fails the call does, before it records the version.
DropOld(s) ==
  LET old == sync[s].old
      without == [n \in Seconds |-> IF n = old THEN "none" ELSE index[n]]
  IN /\ sync[s].pc = "drop"
     /\ alias' = alias \ {old}
     /\ \/ index' = without /\ GoTo(s, "version") /\ NoTrouble /\ Cleanly
        \/ old # 0 /\ index' = without /\ GoTo(s, "release") /\ Leaving({"version"})
        \/ old # 0 /\ UNCHANGED index /\ GoTo(s, "release") /\ Leaving({"index", "version"})
     /\ UNCHANGED <<second, syncLock, concrete, library, disturbed, cooldown, agentVars>>

\* A recorded version is that of the index, unless that has another beside it.
SetVersion(s) ==
  /\ sync[s].pc = "version" /\ GoTo(s, "release")
  /\ \/ /\ library' = sync[s].name /\ NoTrouble
        /\ untidy' = IF "alias" \in untidy THEN untidy ELSE untidy \ {"version"}
     \/ UNCHANGED library /\ Leaving({"version"})
  /\ UNCHANGED <<second, syncLock, index, alias, concrete, disturbed, cooldown, agentVars>>

\* The key is deleted, whoever holds it by now; or it stays until it runs out.
ReleaseLock(s) ==
  /\ sync[s].pc = "release" /\ GoTo(s, "done")
  /\ \/ syncLock' = FALSE /\ NoTrouble /\ Cleanly
     \/ UNCHANGED syncLock /\ Leaving({"lock"})
  /\ UNCHANGED <<second, index, alias, concrete, library, disturbed, cooldown, agentVars>>

\* The lock's time runs out, perhaps under a call that is still at work.
LockExpires ==
  /\ syncLock /\ syncLock' = FALSE
  /\ untidy' = untidy \ {"lock"}
  /\ IF \E s \in Syncs : Syncing(s) THEN Trouble /\ disturbed' = TRUE
                                 ELSE NoTrouble /\ UNCHANGED disturbed
  /\ UNCHANGED <<second, sync, index, alias, concrete, library, cooldown, agentVars>>

ServerDies ==
  /\ \E s \in Syncs : Syncing(s)
  /\ Trouble /\ disturbed' = TRUE
  /\ sync' = [s \in Syncs |-> IF Syncing(s) THEN [sync[s] EXCEPT !.pc = "dead"] ELSE sync[s]]
  /\ UNCHANGED <<second, syncLock, index, alias, concrete, library, untidy, cooldown, agentVars>>

\* save_template writes through the alias; without one Elasticsearch creates an
\* index of that name.
SaveTemplate ==
  /\ alias = {} /\ ~concrete /\ Trouble
  /\ concrete' = TRUE
  /\ UNCHANGED <<second, syncLock, sync, index, alias, library, disturbed, untidy, cooldown, agentVars>>

-----------------------------------------------------------------------------
(* The agent *)

\* At start the version of the installed binary is what is reported.
StartNucleiAgent ==
  /\ ~agentRuns /\ agentRuns' = TRUE
  /\ reports' = copies["binary"].here
  /\ UNCHANGED <<serverVars, cooldown, copies, task, behind, updates, ever, bared, trouble>>

\* Another version is configured, and each API worker takes it over; during an
\* upgrade this is as good as right after it.
ReloadSettings ==
  /\ task = Resting /\ behind' = TRUE
  /\ UNCHANGED <<serverVars, cooldown, copies, task, agentRuns, reports, updates, ever, bared, trouble>>

\* manager.heartbeat, then trigger_nuclei_upgrade: the key is taken, the
\* command sent, and the key deleted when it could not be.
HeartbeatUpgrade ==
  /\ agentRuns /\ (reports # "full" \/ behind) /\ ~cooldown
  /\ \/ /\ task = Resting /\ cooldown' = TRUE
        /\ task' = [kind |-> "binary", pc |-> "stage"] /\ NoTrouble
     \/ Trouble /\ UNCHANGED <<cooldown, task>>
     \/ Trouble /\ cooldown' = TRUE /\ UNCHANGED task
  /\ UNCHANGED <<serverVars, copies, agentRuns, reports, behind, updates, ever, bared>>

CooldownExpires ==
  /\ cooldown /\ cooldown' = FALSE
  /\ UNCHANGED <<serverVars, agentVars, trouble>>

\* The router sends the bundle to the agents that are online.
SyncTemplates ==
  /\ agentRuns /\ task = Resting /\ updates < MaxUpdates
  /\ updates' = updates + 1
  /\ task' = [kind |-> "templates", pc |-> "stage"]
  /\ UNCHANGED <<serverVars, cooldown, copies, agentRuns, reports, behind, ever, bared, trouble>>

AtFile(k, pc) == agentRuns /\ task = [kind |-> k, pc |-> pc]
ToFile(k, pc) == task' = [kind |-> k, pc |-> pc]
OnlyFiles     == UNCHANGED <<serverVars, cooldown, agentRuns, updates>>
NothingNew    == UNCHANGED <<reports, behind, ever, bared>>

\* HandleNucleiUpgrade: download, and extract into a temporary file, which a
\* failure removes.
StageBinary ==
  /\ AtFile("binary", "stage")
  /\ \/ /\ copies' = [copies EXCEPT !["binary"].staged = "full"]
        /\ ToFile("binary", "clear") /\ NoTrouble
     \/ copies' = [copies EXCEPT !["binary"].staged = "none"] /\ task' = Resting /\ Trouble
  /\ OnlyFiles /\ NothingNew

\* Defect: the bundle is extracted over the installed one.
StageInPlace ==
  /\ AtFile("templates", "stage") /\ task' = Resting
  /\ \/ copies' = [copies EXCEPT !["templates"].here = "full"] /\ NoTrouble
     \/ copies' = [copies EXCEPT !["templates"].here = "part"] /\ Trouble
  /\ OnlyFiles /\ NothingNew

\* HandleNucleiTemplatesUpdate: download, and extract into a clean directory,
\* where a failure leaves what it has written.
StageTemplates ==
  /\ AtFile("templates", "stage")
  /\ \/ /\ copies' = [copies EXCEPT !["templates"].staged = "full"]
        /\ ToFile("templates", "clear") /\ NoTrouble
     \/ copies' = [copies EXCEPT !["templates"].staged = "part"] /\ task' = Resting /\ Trouble
  /\ OnlyFiles /\ NothingNew

\* The copy of the update before is removed, whether or not there is one in place.
ClearOld(k) ==
  /\ AtFile(k, "clear")
  /\ copies' = [copies EXCEPT ![k].old = "none"]
  /\ bared' = IF copies[k].here = "none" THEN bared \union {k} ELSE bared
  /\ ToFile(k, "backup")
  /\ OnlyFiles /\ UNCHANGED <<reports, behind, ever, trouble>>

\* What a failure leaves of the staged copy: the temporary file is removed.
LeftOver(k) == IF k = "binary" THEN "none" ELSE copies[k].staged

\* The first rename, when there is something to keep.
KeepOld(k) ==
  /\ AtFile(k, "backup")
  /\ \/ /\ copies' = [copies EXCEPT ![k].old = copies[k].here, ![k].here = "none"]
        /\ ToFile(k, "swap") /\ NoTrouble
     \/ /\ copies[k].here # "none" /\ task' = Resting /\ Trouble
        /\ copies' = [copies EXCEPT ![k].staged = LeftOver(k)]
  /\ OnlyFiles /\ NothingNew

\* What a failed second rename leaves: the first is taken back, if that succeeds.
TakenBack(k) ==
  {[copies[k] EXCEPT !.here = copies[k].old, !.old = "none", !.staged = LeftOver(k)],
   [copies[k] EXCEPT !.staged = LeftOver(k)]}

\* The second rename.  The version is asked for anew, and nothing is reported if
\* the binary does not answer in time.
SwapIn(k) ==
  /\ AtFile(k, "swap") /\ task' = Resting
  /\ \/ /\ copies' = [copies EXCEPT ![k].here = copies[k].staged, ![k].staged = "none"]
        /\ ever' = ever \union {k} /\ bared' = bared \ {k}
        /\ IF k = "binary"
             THEN /\ behind' = FALSE
                  /\ \/ reports' = copies[k].staged /\ NoTrouble
                     \/ reports' = "none" /\ Trouble
             ELSE UNCHANGED <<reports, behind>> /\ NoTrouble
     \/ /\ Trouble /\ NothingNew
        /\ \E left \in TakenBack(k) : copies' = [copies EXCEPT ![k] = left]
  /\ OnlyFiles

AgentDies ==
  /\ agentRuns /\ Trouble
  /\ agentRuns' = FALSE /\ task' = Resting /\ reports' = "none"
  /\ UNCHANGED <<serverVars, cooldown, copies, behind, updates, ever, bared>>

-----------------------------------------------------------------------------

LibraryNext ==
  \/ NextSecond \/ LockExpires \/ ServerDies \/ SaveTemplate
  \/ \E s \in Syncs :
       \/ AcquireLock(s) \/ ParseTemplatesZip(s) \/ CreateIndex(s) \/ Bulk(s) \/ AliasBacking(s)
       \/ SwapAlias(s) \/ DropOld(s) \/ SetVersion(s) \/ ReleaseLock(s)

FilesNext ==
  \/ StartNucleiAgent \/ ReloadSettings \/ HeartbeatUpgrade \/ CooldownExpires \/ SyncTemplates \/ AgentDies
  \/ StageBinary \/ StageTemplates
  \/ \E k \in Kinds : ClearOld(k) \/ KeepOld(k) \/ SwapIn(k)

NucleiSpec == NucleiInit /\ [][LibraryNext \/ FilesNext]_nucleiVars

-----------------------------------------------------------------------------
(* Properties *)

\* Whatever fails, dies or runs twice, a search meets complete libraries only
\* (rebuild_manifest: the alias is swapped in one step).
LibraryComplete == \A n \in alias : index[n] = "full"

\* Unless a lock ran out or a call died, the alias names one index, nothing
\* else is left behind, the version is the one of that index and the lock is free:
\* each of these, when no failure has left it otherwise since.
LibraryTidy ==
  ~disturbed /\ (\A s \in Syncs : ~Syncing(s)) =>
    /\ "alias" \in untidy \/ Cardinality(alias) <= 1
    /\ "index" \in untidy \/ Existing = alias
    /\ "version" \in untidy \/ \A n \in alias : library = n
    /\ "lock" \in untidy \/ ~syncLock

\* Once installed, a complete copy is in place or kept beside it at every moment,
\* and what is in place is complete - except where an update found nothing in
\* place and removed the kept copy.  (swapTemplatesZip, extractNucleiBinary)
CopySurvives ==
  \A k \in Kinds :
    /\ copies[k].here # "part"
    /\ k \in ever \ bared => "full" \in {copies[k].here, copies[k].old}

\* The three above and the types: the invariant of the library and the files.
NucleiInv == NucleiTypeOK /\ LibraryComplete /\ LibraryTidy /\ CopySurvives
=============================================================================
