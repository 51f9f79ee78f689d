---------------------------- MODULE ContentProofs ----------------------------
(***************************************************************************)
(* What the platform hands out.  Part one: the template library under any  *)
(* number of synchronisations, failures and expired locks, and the         *)
(* scanner's files under any number of updates.  Part two: the rule packs  *)
(* under any number of publications, workers, pushes and faults.           *)
(***************************************************************************)
EXTENDS NucleiContent, RulePacks, FiniteSetTheorems, TLAPS

(* The library.  Whoever builds an index owns it until the alias names it,  *)
(* and whoever took one from behind the alias owns it until it is dropped.  *)

Building(s) == sync[s].pc \in {"bulk", "alias", "swap"}
Dropping(s) == sync[s].pc = "drop"

Fates ==
  \A s \in Syncs :
    /\ Building(s) => /\ sync[s].name \in Seconds \ alias
                      /\ index[sync[s].name] = IF sync[s].pc = "bulk" THEN "part" ELSE "full"
    /\ Dropping(s) => /\ sync[s].old \notin alias
                      /\ sync[s].old # 0 => index[sync[s].old] = "full"

Apart ==
  \A s, t \in Syncs : s # t =>
    /\ Building(s) /\ Building(t) => sync[s].name # sync[t].name
    /\ Building(s) /\ Dropping(t) => sync[s].name # sync[t].old
    /\ Dropping(s) /\ Dropping(t) /\ sync[s].old # 0 => sync[s].old # sync[t].old

OwnedInd == NucleiTypeOK /\ LibraryComplete /\ Fates /\ Apart

(* While no lock ran out and no call died there is one synchronisation at a *)
(* time, which accounts for all that exists, what failures left aside.      *)

Beside(s) ==
  IF Building(s) THEN {sync[s].name} ELSE IF Dropping(s) THEN {sync[s].old} ELSE {}

Orderly ==
  /\ \A s, t \in Syncs : Syncing(s) /\ Syncing(t) => s = t
  /\ \A s \in Syncs : Syncing(s) => syncLock
  /\ "lock" \in untidy \/ (syncLock => \E s \in Syncs : Syncing(s))
  /\ "index" \in untidy \/ \A n \in Existing : n \in alias \/ \E s \in Syncs : n \in Beside(s)
  /\ \/ "version" \in untidy
     \/ (\A s \in Syncs : sync[s].pc \notin {"drop", "version"}) => \A n \in alias : library = n
  /\ \A s \in Syncs :
       /\ sync[s].pc \in {"drop", "version"} => sync[s].name \in alias
       /\ sync[s].pc = "swap" => sync[s].old = 0 \/ sync[s].old \in alias
  /\ \/ "alias" \in untidy
     \/ /\ \A m, n \in alias : m = n
        /\ \A s \in Syncs : sync[s].pc = "swap" /\ sync[s].old = 0 => alias = {}
  /\ "alias" \in untidy => "version" \in untidy

OrderInd == ~disturbed => Orderly

(* The files.  An update that found a copy in place keeps it until the new  *)
(* one is there.                                                            *)

FilesInd ==
  \A k \in Kinds :
    LET c == copies[k]
    IN /\ c.here # "part" /\ c.old # "part"
       /\ task.kind = k /\ task.pc \in {"clear", "backup", "swap"} => c.staged = "full"
       /\ k \in ever \ bared =>
            /\ "full" \in {c.here, c.old}
            /\ task.kind = k /\ task.pc = "backup" => c.here = "full"
            /\ task.kind = k /\ task.pc = "swap" => c.old = "full"

-----------------------------------------------------------------------------
(* Types *)

Steps == {"idle", "fetch", "create", "bulk", "alias", "swap", "drop", "version", "release", "done", "dead"}
Sync  == [pc : Steps, name : 0 .. MaxSecond, old : 0 .. MaxSecond]

ServerTyped ==
  /\ second \in Seconds /\ library \in 0 .. MaxSecond
  /\ syncLock \in BOOLEAN /\ concrete \in BOOLEAN /\ disturbed \in BOOLEAN
  /\ sync \in [Syncs -> Sync]
  /\ index \in [Seconds -> Files] /\ alias \subseteq Seconds
  /\ untidy \subseteq {"alias", "index", "version", "lock"}

AgentTyped ==
  /\ cooldown \in BOOLEAN /\ agentRuns \in BOOLEAN /\ behind \in BOOLEAN
  /\ copies \in [Kinds -> [here : Files, old : Files, staged : Files]]
  /\ task \in [kind : Kinds, pc : {"idle", "stage", "clear", "backup", "swap"}]
  /\ reports \in Files
  /\ updates \in 0 .. MaxUpdates /\ ever \subseteq Kinds /\ bared \subseteq Kinds

LEMMA TypesAre == NucleiTypeOK <=> ServerTyped /\ AgentTyped /\ trouble \in 0 .. MaxTrouble
BY DEF NucleiTypeOK, ServerTyped, AgentTyped, Sync, Steps

LEMMA Bounds == MaxSecond \in Nat /\ MaxUpdates \in Nat /\ MaxTrouble \in Nat
BY NucleiAssumption

\* A synchronisation that goes on keeps its index and the one it replaces.
LEMMA GoesOn ==
  ASSUME sync \in [Syncs -> Sync], NEW s \in Syncs, NEW p \in Steps, GoTo(s, p)
  PROVE  /\ sync' \in [Syncs -> Sync] /\ sync'[s].pc = p
         /\ sync'[s].name = sync[s].name /\ sync'[s].old = sync[s].old
         /\ \A t \in Syncs \ {s} : sync'[t] = sync[t]
BY DEF GoTo, Sync

LEMMA TroubleTyped ==
  ASSUME trouble \in 0 .. MaxTrouble, Trouble \/ NoTrouble
  PROVE  trouble' \in 0 .. MaxTrouble
BY Bounds DEF Trouble, NoTrouble

SyncStep(s) ==
  \/ AcquireLock(s) \/ ParseTemplatesZip(s) \/ CreateIndex(s) \/ Bulk(s) \/ AliasBacking(s)
  \/ SwapAlias(s) \/ DropOld(s) \/ SetVersion(s) \/ ReleaseLock(s)

LEMMA SyncTyped ==
  ASSUME NucleiTypeOK, Fates, NEW s \in Syncs, SyncStep(s)
  PROVE  NucleiTypeOK'
<1>1. ServerTyped /\ AgentTyped /\ trouble \in 0 .. MaxTrouble
  BY TypesAre
<1>2. AgentTyped' /\ trouble' \in 0 .. MaxTrouble
  BY <1>1, TroubleTyped
     DEF SyncStep, AcquireLock, ParseTemplatesZip, CreateIndex, Bulk, AliasBacking, SwapAlias,
         DropOld, SetVersion, ReleaseLock, agentVars, NoTrouble, AgentTyped, Leaving
<1>3. /\ second' \in Seconds /\ library' \in 0 .. MaxSecond
      /\ syncLock' \in BOOLEAN /\ concrete' \in BOOLEAN /\ disturbed' \in BOOLEAN
      /\ untidy' \subseteq {"alias", "index", "version", "lock"}
  <2>1. sync[s].name \in 0 .. MaxSecond
    BY <1>1 DEF ServerTyped, Sync
  <2> QED
    BY <1>1, <2>1
       DEF SyncStep, AcquireLock, ParseTemplatesZip, CreateIndex, Bulk, AliasBacking, SwapAlias,
           DropOld, SetVersion, ReleaseLock, ServerTyped, Leaving, Cleanly
<1>4. sync' \in [Syncs -> Sync]
  <2>1. sync \in [Syncs -> Sync] /\ second \in Seconds /\ alias \subseteq Seconds
    BY <1>1 DEF ServerTyped
  <2>2. CASE CreateIndex(s)
    BY <2>1, <2>2, GoesOn, Bounds DEF CreateIndex, Sync, Steps, Seconds
  <2>3. CASE AliasBacking(s)
    <3>1. PICK n \in alias \union {0} : sync' = [sync EXCEPT ![s].old = n, ![s].pc = "swap"]
      BY <2>3 DEF AliasBacking
    <3>2. n \in 0 .. MaxSecond
      BY <2>1, Bounds DEF Seconds
    <3>3. [sync[s] EXCEPT !.old = n, !.pc = "swap"] \in Sync
      BY <2>1, <3>2 DEF Sync, Steps
    <3>4. sync' = [sync EXCEPT ![s] = [sync[s] EXCEPT !.old = n, !.pc = "swap"]]
      BY <2>1, <3>1 DEF Sync
    <3> QED BY <2>1, <3>3, <3>4
  <2>4. CASE ~CreateIndex(s) /\ ~AliasBacking(s)
    <3>1. \E p \in Steps : GoTo(s, p)
      BY <2>4 DEF SyncStep, AcquireLock, ParseTemplatesZip, Bulk, SwapAlias, DropOld, SetVersion,
                  ReleaseLock, Steps
    <3> QED BY <2>1, <3>1, GoesOn
  <2> QED BY <2>2, <2>3, <2>4
<1>5. index' \in [Seconds -> Files]
  <2>1. index \in [Seconds -> Files]
    BY <1>1 DEF ServerTyped
  <2> QED
    BY <2>1
       DEF SyncStep, AcquireLock, ParseTemplatesZip, CreateIndex, Bulk, AliasBacking, SwapAlias,
           DropOld, SetVersion, ReleaseLock, Files
<1>6. alias' \subseteq Seconds
  <2>1. alias \subseteq Seconds /\ sync[s].name \in 0 .. MaxSecond
    BY <1>1 DEF ServerTyped, Sync
  <2>2. CASE SwapAlias(s)
    BY <2>1, <2>2 DEF SwapAlias, Fates, Building
  <2>3. CASE ~SwapAlias(s)
    BY <2>1, <2>3
       DEF SyncStep, AcquireLock, ParseTemplatesZip, CreateIndex, Bulk, AliasBacking,
           DropOld, SetVersion, ReleaseLock
  <2> QED BY <2>2, <2>3
<1>7. ServerTyped'
  BY <1>3, <1>4, <1>5, <1>6 DEF ServerTyped
<1> QED BY <1>2, <1>7 DEF NucleiTypeOK, ServerTyped, AgentTyped, Sync, Steps

-----------------------------------------------------------------------------
(* Who owns an index *)

\* Nothing changes for the indices while s is at work elsewhere.
LEMMA Elsewhere ==
  ASSUME LibraryComplete, Fates, Apart, NEW s \in Syncs, UNCHANGED <<index, alias>>,
         \A t \in Syncs \ {s} : sync'[t] = sync[t], ~Dropping(s)',
         Building(s)' => /\ Building(s) /\ sync'[s].name = sync[s].name
                         /\ sync'[s].pc # "bulk" /\ sync[s].pc # "bulk"
  PROVE  LibraryComplete' /\ Fates' /\ Apart'
<1>1. \A t \in Syncs : /\ Building(t)' => /\ Building(t) /\ sync'[t].name = sync[t].name
                                          /\ (sync'[t].pc = "bulk" <=> sync[t].pc = "bulk")
                       /\ Dropping(t)' => Dropping(t) /\ sync'[t].old = sync[t].old
  BY DEF Building, Dropping
<1>2. Fates'
  BY <1>1 DEF Fates, Seconds
<1>3. Apart'
  BY <1>1 DEF Apart
<1> QED BY <1>2, <1>3 DEF LibraryComplete

\* Where an index leaves the hands of s, the others' are not touched.
Others(s) ==
  /\ \A t \in Syncs \ {s} : sync'[t] = sync[t]
  /\ \A t \in Syncs \ {s} : Building(t) => /\ sync[t].name \notin alias'
                                           /\ index'[sync[t].name] = index[sync[t].name]
  /\ \A t \in Syncs \ {s} : Dropping(t) => /\ sync[t].old \notin alias'
                                           /\ sync[t].old # 0 => index'[sync[t].old] = index[sync[t].old]

LEMMA OthersKept ==
  ASSUME Fates, Apart, NEW s \in Syncs, Others(s), ~Building(s)',
         Dropping(s)' => /\ sync'[s].old \notin alias'
                         /\ sync'[s].old # 0 => index'[sync'[s].old] = "full"
                         /\ \A t \in Syncs \ {s} : /\ Building(t) => sync[t].name # sync'[s].old
                                                   /\ Dropping(t) /\ sync'[s].old # 0 => sync[t].old # sync'[s].old
  PROVE  Fates' /\ Apart'
<1>1. \A t \in Syncs \ {s} : (Building(t)' <=> Building(t)) /\ (Dropping(t)' <=> Dropping(t))
  BY DEF Others, Building, Dropping
<1>2. Fates'
  <2> SUFFICES ASSUME NEW t \in Syncs
               PROVE  /\ Building(t)' => /\ sync'[t].name \in Seconds \ alias'
                                         /\ index'[sync'[t].name] = IF sync'[t].pc = "bulk" THEN "part" ELSE "full"
                      /\ Dropping(t)' => /\ sync'[t].old \notin alias'
                                         /\ sync'[t].old # 0 => index'[sync'[t].old] = "full"
    BY DEF Fates, Seconds
  <2> QED BY <1>1 DEF Others, Fates
<1>3. Apart'
  BY <1>1 DEF Others, Apart
<1> QED BY <1>2, <1>3

LEMMA CreateIndexOwned ==
  ASSUME OwnedInd, NEW s \in Syncs, CreateIndex(s)
  PROVE  LibraryComplete' /\ Fates' /\ Apart'
<1>0. ServerTyped /\ LibraryComplete /\ Fates /\ Apart
  BY TypesAre DEF OwnedInd
<1>1. CASE GoTo(s, "release") /\ UNCHANGED index
  <2>1. ~Building(s)' /\ ~Dropping(s)' /\ \A t \in Syncs \ {s} : sync'[t] = sync[t]
    BY <1>0, <1>1, GoesOn DEF ServerTyped, Steps, Building, Dropping
  <2> QED BY <1>0, <1>1, <2>1, Elsewhere DEF CreateIndex
<1>2. CASE /\ index[second] = "none" /\ index' = [index EXCEPT ![second] = "part"]
           /\ sync' = [sync EXCEPT ![s] = [pc |-> "bulk", name |-> second, old |-> 0]]
  <2>1. /\ alias' = alias /\ second \in Seconds /\ alias \subseteq Seconds
        /\ index' \in [Seconds -> Files] /\ index'[second] = "part"
        /\ \A n \in Seconds \ {second} : index'[n] = index[n]
    BY <1>0, <1>2 DEF CreateIndex, ServerTyped, Files
  <2>2. /\ sync'[s] = [pc |-> "bulk", name |-> second, old |-> 0]
        /\ \A t \in Syncs \ {s} : sync'[t] = sync[t]
    BY <1>0, <1>2 DEF ServerTyped
  <2>3. second \notin alias
    BY <1>0, <1>2 DEF LibraryComplete
  <2>4. \A t \in Syncs : /\ Building(t) => sync[t].name # second
                         /\ Dropping(t) => sync[t].old # second
    BY <1>0, <1>2, <2>1, Bounds DEF Fates, Seconds
  <2>5. LibraryComplete'
    BY <1>0, <2>1, <2>3 DEF LibraryComplete
  <2>6. ~Dropping(s)' /\ Building(s)'
    BY <2>2 DEF Building, Dropping
  <2>7. \A t \in Syncs \ {s} : (Building(t)' <=> Building(t)) /\ (Dropping(t)' <=> Dropping(t))
    BY <2>2 DEF Building, Dropping
  <2>8. Fates'
    <3> SUFFICES ASSUME NEW t \in Syncs
                 PROVE  /\ Building(t)' => /\ sync'[t].name \in Seconds \ alias'
                                           /\ index'[sync'[t].name] = IF sync'[t].pc = "bulk" THEN "part" ELSE "full"
                        /\ Dropping(t)' => /\ sync'[t].old \notin alias'
                                           /\ sync'[t].old # 0 => index'[sync'[t].old] = "full"
      BY DEF Fates, Seconds
    <3>1. CASE t = s
      BY <3>1, <2>1, <2>2, <2>3, <2>6
    <3>2. CASE t # s
      <4>1. Dropping(t) /\ sync[t].old # 0 => sync[t].old \in Seconds
        BY <1>0, Bounds DEF ServerTyped, Sync, Seconds
      <4> QED BY <1>0, <3>2, <4>1, <2>1, <2>2, <2>4, <2>7 DEF Fates
    <3> QED BY <3>1, <3>2
  <2>9. Apart'
    BY <1>0, <2>2, <2>4, <2>6, <2>7 DEF Apart
  <2> QED BY <2>5, <2>8, <2>9
<1>3. CASE index[second] = "none" /\ index' = [index EXCEPT ![second] = "part"] /\ GoTo(s, "release")
  <2>1. /\ ~Building(s)' /\ ~Dropping(s)' /\ \A t \in Syncs \ {s} : sync'[t] = sync[t]
        /\ alias' = alias /\ \A n \in Seconds \ {second} : index'[n] = index[n]
    BY <1>0, <1>3, GoesOn DEF CreateIndex, ServerTyped, Steps, Building, Dropping
  <2>2. second \notin alias
    BY <1>0, <1>3 DEF LibraryComplete
  <2>3. \A t \in Syncs : /\ Building(t) => sync[t].name \in Seconds \ {second}
                         /\ Dropping(t) => sync[t].old \notin alias /\ sync[t].old # second
                         /\ sync[t].old # 0 => sync[t].old \in Seconds
    BY <1>0, <1>3, Bounds DEF Fates, Seconds, ServerTyped, Sync
  <2>4. Others(s)
    BY <1>0, <2>1, <2>3 DEF Others, Fates
  <2>5. LibraryComplete'
    BY <1>0, <2>1, <2>2 DEF LibraryComplete, ServerTyped
  <2> QED BY <1>0, <2>1, <2>4, <2>5, OthersKept
<1> QED BY <1>1, <1>2, <1>3 DEF CreateIndex

LEMMA BulkOwned ==
  ASSUME OwnedInd, NEW s \in Syncs, Bulk(s)
  PROVE  LibraryComplete' /\ Fates' /\ Apart'
<1> DEFINE n == sync[s].name
<1>0. ServerTyped /\ LibraryComplete /\ Fates /\ Apart
  BY TypesAre DEF OwnedInd
<1>1. /\ Building(s) /\ alias' = alias /\ n \in Seconds \ alias
      /\ \/ index' = [index EXCEPT ![n] = "full"] /\ GoTo(s, "alias")
         \/ index' = [index EXCEPT ![n] = "none"] /\ GoTo(s, "release")
         \/ UNCHANGED index /\ GoTo(s, "release")
  BY <1>0 DEF Bulk, Building, Fates
<1>2. /\ \A m \in Seconds \ {n} : index'[m] = index[m]
      /\ \A t \in Syncs \ {s} : sync'[t] = sync[t]
  BY <1>0, <1>1, GoesOn DEF ServerTyped, Steps
<1>3. LibraryComplete'
  BY <1>0, <1>1, <1>2 DEF LibraryComplete, ServerTyped
<1>4. Others(s)
  <2>1. \A t \in Syncs \ {s} : /\ Building(t) => sync[t].name \in Seconds \ alias /\ sync[t].name # n
                               /\ Dropping(t) => sync[t].old \notin alias /\ sync[t].old # n
    BY <1>0, <1>1 DEF Fates, Apart
  <2>2. \A t \in Syncs : sync[t].old # 0 => sync[t].old \in Seconds
    BY <1>0, Bounds DEF ServerTyped, Sync, Seconds
  <2> QED BY <1>1, <1>2, <2>1, <2>2 DEF Others
<1>5. CASE GoTo(s, "release")
  <2>1. ~Building(s)' /\ ~Dropping(s)'
    BY <1>0, <1>5, GoesOn DEF ServerTyped, Steps, Building, Dropping
  <2> QED BY <1>0, <1>3, <1>4, <2>1, OthersKept
<1>6. CASE index' = [index EXCEPT ![n] = "full"] /\ GoTo(s, "alias")
  <2>1. sync'[s].pc = "alias" /\ sync'[s].name = n /\ ~Dropping(s)'
    BY <1>0, <1>6, GoesOn DEF ServerTyped, Steps, Dropping
  <2>2. index'[n] = "full"
    BY <1>0, <1>1, <1>6 DEF ServerTyped
  <2>3. \A t \in Syncs \ {s} : (Building(t)' <=> Building(t)) /\ (Dropping(t)' <=> Dropping(t))
    BY <1>2 DEF Building, Dropping
  <2>4. Fates'
    <3> SUFFICES ASSUME NEW t \in Syncs
                 PROVE  /\ Building(t)' => /\ sync'[t].name \in Seconds \ alias'
                                           /\ index'[sync'[t].name] = IF sync'[t].pc = "bulk" THEN "part" ELSE "full"
                        /\ Dropping(t)' => /\ sync'[t].old \notin alias'
                                           /\ sync'[t].old # 0 => index'[sync'[t].old] = "full"
      BY DEF Fates, Seconds
    <3> QED BY <1>0, <1>1, <1>4, <2>1, <2>2, <2>3 DEF Others, Fates
  <2>5. Apart'
    BY <1>0, <1>1, <1>2, <2>1, <2>3 DEF Apart
  <2> QED BY <1>3, <2>4, <2>5
<1> QED BY <1>1, <1>5, <1>6

LEMMA SwapAliasOwned ==
  ASSUME OwnedInd, NEW s \in Syncs, SwapAlias(s)
  PROVE  LibraryComplete' /\ Fates' /\ Apart'
<1> DEFINE new == sync[s].name
           old == sync[s].old
<1>0. ServerTyped /\ LibraryComplete /\ Fates /\ Apart
  BY TypesAre DEF OwnedInd
<1>1. /\ Building(s) /\ sync[s].pc = "swap" /\ new \in Seconds \ alias /\ index[new] = "full"
      /\ old \in 0 .. MaxSecond
  BY <1>0 DEF SwapAlias, Building, Fates, ServerTyped, Sync
<1>2. \A t \in Syncs \ {s} : /\ Building(t) => sync[t].name \in Seconds \ alias /\ sync[t].name # new
                             /\ Dropping(t) => sync[t].old \notin alias /\ sync[t].old # new
                             /\ sync[t].old # 0 => sync[t].old \in Seconds
  <2>1. \A t \in Syncs : sync[t].old # 0 => sync[t].old \in Seconds
    BY <1>0, Bounds DEF ServerTyped, Sync, Seconds
  <2> QED BY <1>0, <1>1, <2>1 DEF Fates, Apart
<1>3. CASE /\ old \in alias \union {0} /\ alias' = (alias \ {old}) \union {new}
           /\ GoTo(s, "drop") /\ index' = index
  <2>1. /\ sync'[s].pc = "drop" /\ sync'[s].old = old /\ ~Building(s)'
        /\ \A t \in Syncs \ {s} : sync'[t] = sync[t]
    BY <1>0, <1>3, GoesOn DEF ServerTyped, Steps, Building
  <2>2. 0 \notin Seconds
    BY Bounds DEF Seconds
  <2>3. old # new
    BY <1>1, <1>3, <2>2
  <2>4. Others(s)
    BY <1>2, <1>3, <2>1 DEF Others
  <2>5. /\ old \notin alias' /\ (old # 0 => index'[old] = "full")
        /\ \A t \in Syncs \ {s} : /\ Building(t) => sync[t].name # old
                                  /\ Dropping(t) /\ old # 0 => sync[t].old # old
    BY <1>0, <1>2, <1>3, <2>2, <2>3 DEF LibraryComplete
  <2>6. LibraryComplete'
    BY <1>0, <1>1, <1>3 DEF LibraryComplete
  <2> QED BY <1>0, <2>1, <2>4, <2>5, <2>6, OthersKept
<1>4. CASE /\ GoTo(s, "release") /\ index' \in {index, [index EXCEPT ![new] = "none"]}
           /\ alias' \subseteq alias \union {new} /\ (new \in alias' => index' = index)
  <2>1. /\ ~Building(s)' /\ ~Dropping(s)'
        /\ \A t \in Syncs \ {s} : sync'[t] = sync[t]
    BY <1>0, <1>4, GoesOn DEF ServerTyped, Steps, Building, Dropping
  <2>2. \A m \in Seconds \ {new} : index'[m] = index[m]
    BY <1>0, <1>4 DEF ServerTyped
  <2>3. Others(s)
    BY <1>2, <1>4, <2>1, <2>2 DEF Others
  <2>4. LibraryComplete'
    BY <1>0, <1>1, <1>4, <2>2 DEF LibraryComplete, ServerTyped
  <2> QED BY <1>0, <2>1, <2>3, <2>4, OthersKept
<1> QED
  <2>1. \/ /\ old \in alias \union {0} /\ alias' = (alias \ {old}) \union {new}
           /\ GoTo(s, "drop") /\ index' = index
        \/ /\ GoTo(s, "release") /\ index' \in {index, [index EXCEPT ![new] = "none"]}
           /\ alias' \subseteq alias \union {new} /\ (new \in alias' => index' = index)
    BY <1>1 DEF SwapAlias
  <2> QED BY <1>3, <1>4, <2>1

LEMMA DropOldOwned ==
  ASSUME OwnedInd, NEW s \in Syncs, DropOld(s)
  PROVE  LibraryComplete' /\ Fates' /\ Apart'
<1> DEFINE old == sync[s].old
<1>0. ServerTyped /\ LibraryComplete /\ Fates /\ Apart
  BY TypesAre DEF OwnedInd
<1>1. Dropping(s) /\ old \notin alias
  BY <1>0 DEF DropOld, Dropping, Fates
<1>2. \E p \in {"version", "release"} : GoTo(s, p)
  BY DEF DropOld
<1>3. /\ ~Building(s)' /\ ~Dropping(s)'
      /\ \A t \in Syncs \ {s} : sync'[t] = sync[t]
  BY <1>0, <1>2, GoesOn DEF ServerTyped, Steps, Building, Dropping
<1>4. /\ alias' = alias
      /\ \A m \in Seconds : m # old => index'[m] = index[m]
  BY <1>1 DEF DropOld
<1>5. Others(s)
  <2>1. \A t \in Syncs : sync[t].old # 0 => sync[t].old \in Seconds
    BY <1>0, Bounds DEF ServerTyped, Sync, Seconds
  <2>2. \A t \in Syncs \ {s} : /\ Building(t) => sync[t].name \in Seconds \ alias /\ sync[t].name # old
                               /\ Dropping(t) => /\ sync[t].old \notin alias
                                                 /\ sync[t].old # 0 => sync[t].old # old
    BY <1>0, <1>1 DEF Fates, Apart
  <2> QED BY <1>3, <1>4, <2>1, <2>2 DEF Others
<1>6. LibraryComplete'
  BY <1>0, <1>1, <1>4 DEF LibraryComplete, ServerTyped
<1> QED BY <1>0, <1>3, <1>5, <1>6, OthersKept

\* What is left of a step: s reads, waits or ends.
LEMMA SyncOwned ==
  ASSUME OwnedInd, NEW s \in Syncs, SyncStep(s)
  PROVE  OwnedInd'
<1>0. ServerTyped /\ LibraryComplete /\ Fates /\ Apart
  BY TypesAre DEF OwnedInd
<1>1. NucleiTypeOK'
  BY SyncTyped DEF OwnedInd
<1>2. CASE CreateIndex(s) \/ Bulk(s) \/ SwapAlias(s) \/ DropOld(s)
  BY <1>1, <1>2, CreateIndexOwned, BulkOwned, SwapAliasOwned, DropOldOwned DEF OwnedInd
<1>3. CASE AliasBacking(s)
  <2>1. PICK n \in alias \union {0} : sync' = [sync EXCEPT ![s].old = n, ![s].pc = "swap"]
    BY <1>3 DEF AliasBacking
  <2>2. /\ sync'[s].pc = "swap" /\ sync'[s].name = sync[s].name
        /\ \A t \in Syncs \ {s} : sync'[t] = sync[t]
    BY <1>0, <2>1 DEF ServerTyped, Sync
  <2>3. ~Dropping(s)' /\ Building(s) /\ sync[s].pc = "alias"
    BY <1>3, <2>2 DEF AliasBacking, Building, Dropping
  <2> QED BY <1>0, <1>1, <1>3, <2>2, <2>3, Elsewhere DEF AliasBacking, OwnedInd
<1>4. CASE AcquireLock(s) \/ ParseTemplatesZip(s) \/ SetVersion(s) \/ ReleaseLock(s)
  <2>1. \E p \in {"fetch", "create", "release", "done"} : GoTo(s, p)
    BY <1>4 DEF AcquireLock, ParseTemplatesZip, SetVersion, ReleaseLock
  <2>2. /\ ~Building(s)' /\ ~Dropping(s)'
        /\ \A t \in Syncs \ {s} : sync'[t] = sync[t]
    BY <1>0, <2>1, GoesOn DEF ServerTyped, Steps, Building, Dropping
  <2>3. UNCHANGED <<index, alias>>
    BY <1>4 DEF AcquireLock, ParseTemplatesZip, SetVersion, ReleaseLock
  <2> QED BY <1>0, <1>1, <2>2, <2>3, Elsewhere DEF OwnedInd
<1> QED BY <1>2, <1>3, <1>4 DEF SyncStep

-----------------------------------------------------------------------------
(* One at a time *)

\* With nobody else at work s accounts for all.
SoleSync(s) ==
  /\ \A t \in Syncs \ {s} : ~Syncing(t)
  /\ Syncing(s) => syncLock
  /\ "lock" \in untidy \/ (syncLock => Syncing(s))
  /\ "index" \in untidy \/ Existing \subseteq alias \union Beside(s)
  /\ "version" \in untidy \/ sync[s].pc \in {"drop", "version"} \/ \A n \in alias : library = n
  /\ sync[s].pc \in {"drop", "version"} => sync[s].name \in alias
  /\ sync[s].pc = "swap" => sync[s].old = 0 \/ sync[s].old \in alias
  /\ \/ "alias" \in untidy
     \/ (\A m, n \in alias : m = n) /\ (sync[s].pc = "swap" /\ sync[s].old = 0 => alias = {})
  /\ "alias" \in untidy => "version" \in untidy

LEMMA OrderlyAlone ==
  ASSUME Orderly, NEW s \in Syncs, Syncing(s) \/ ~syncLock
  PROVE  SoleSync(s)
<1>1. \A t \in Syncs \ {s} : ~Syncing(t)
  BY DEF Orderly
<1>2. \A t \in Syncs : ~Syncing(t) => Beside(t) = {} /\ sync[t].pc \notin {"drop", "version", "swap"}
  BY DEF Syncing, Beside, Building, Dropping
<1>3. "index" \in untidy \/ Existing \subseteq alias \union Beside(s)
  BY <1>1, <1>2 DEF Orderly
<1>4. "version" \in untidy \/ sync[s].pc \in {"drop", "version"} \/ \A n \in alias : library = n
  BY <1>1, <1>2 DEF Orderly
<1>5. "lock" \in untidy \/ (syncLock => Syncing(s))
  BY DEF Orderly
<1> QED BY <1>1, <1>3, <1>4, <1>5 DEF Orderly, SoleSync

LEMMA AloneOrderly == ASSUME NEW s \in Syncs, SoleSync(s)' PROVE Orderly'
<1>1. \A t \in Syncs \ {s} : sync'[t].pc \notin {"drop", "version", "swap"}
  BY DEF SoleSync, Syncing
<1>2. \A t, u \in Syncs : Syncing(t)' /\ Syncing(u)' => t = u
  BY DEF SoleSync
<1>3. "index" \in untidy' \/ \A n \in Existing' : n \in alias' \/ \E t \in Syncs : n \in Beside(t)'
  BY DEF SoleSync
<1>4. \/ "version" \in untidy'
      \/ (\A t \in Syncs : sync'[t].pc \notin {"drop", "version"}) => \A n \in alias' : library' = n
  BY DEF SoleSync
<1> QED BY <1>1, <1>2, <1>3, <1>4 DEF SoleSync, Orderly

\* A step of s while it is alone.
LEMMA AloneStays ==
  ASSUME OwnedInd, NEW s \in Syncs, SoleSync(s), SyncStep(s)
  PROVE  SoleSync(s)'
<1> DEFINE name == sync[s].name
           old  == sync[s].old
<1>0. ServerTyped /\ LibraryComplete /\ Fates
  BY TypesAre DEF OwnedInd
<1>1. \A t \in Syncs \ {s} : sync'[t] = sync[t]
  BY <1>0
     DEF SyncStep, AcquireLock, ParseTemplatesZip, CreateIndex, Bulk, AliasBacking, SwapAlias,
         DropOld, SetVersion, ReleaseLock, GoTo, ServerTyped
<1>2. \A t \in Syncs \ {s} : ~Syncing(t)'
  BY <1>1 DEF SoleSync, Syncing
<1>3. CASE AcquireLock(s)
  <2>1. PICK p \in {"fetch", "done"} : GoTo(s, p) /\ (p = "done" => "lock" \in untidy')
    BY <1>3 DEF AcquireLock, Leaving
  <2>2. sync'[s].pc = p /\ (Syncing(s)' <=> p = "fetch") /\ Beside(s)' = {} /\ Beside(s) = {} /\ ~Syncing(s)
    BY <1>0, <1>3, <2>1, GoesOn DEF AcquireLock, ServerTyped, Steps, Syncing, Beside, Building, Dropping
  <2>3. /\ Existing' = Existing /\ alias' = alias /\ library' = library /\ syncLock' = TRUE
        /\ untidy' \in {untidy, untidy \union {"lock"}} /\ sync[s].pc = "idle"
    BY <1>3 DEF AcquireLock, Existing, Leaving, Cleanly
  <2> QED BY <1>2, <2>1, <2>2, <2>3 DEF SoleSync
<1>4. CASE ParseTemplatesZip(s)
  <2>1. PICK p \in {"create", "release"} : GoTo(s, p)
    BY <1>4 DEF ParseTemplatesZip
  <2>2. /\ sync'[s].pc = p /\ Syncing(s)' /\ sync[s].pc = "fetch" /\ Syncing(s)
        /\ Beside(s) = {} /\ Beside(s)' = {}
    BY <1>0, <1>4, <2>1, GoesOn
       DEF ServerTyped, Steps, Syncing, ParseTemplatesZip, Beside, Building, Dropping
  <2>3. /\ Existing' = Existing /\ alias' = alias /\ library' = library /\ syncLock' = syncLock
        /\ untidy' = untidy
    BY <1>4 DEF ParseTemplatesZip, Existing
  <2> QED BY <1>2, <2>2, <2>3 DEF SoleSync
<1>5. CASE CreateIndex(s)
  <2>1. /\ alias' = alias /\ library' = library /\ syncLock' = syncLock /\ sync[s].pc = "create"
        /\ Beside(s) = {} /\ Syncing(s)
    BY <1>5 DEF CreateIndex, Beside, Building, Dropping, Syncing
  <2>2. CASE /\ GoTo(s, "release") /\ untidy' \in {untidy, untidy \union {"index"}}
             /\ "index" \in untidy' \/ UNCHANGED index
    <3>1. /\ sync'[s].pc = "release" /\ Syncing(s)' /\ Beside(s)' = {}
          /\ "index" \in untidy' \/ Existing' = Existing
      BY <1>0, <2>2, GoesOn DEF ServerTyped, Steps, Syncing, Existing, Beside, Building, Dropping
    <3> QED BY <1>2, <2>1, <2>2, <3>1 DEF SoleSync
  <2>3. CASE /\ index' = [index EXCEPT ![second] = "part"] /\ Cleanly
             /\ sync' = [sync EXCEPT ![s] = [pc |-> "bulk", name |-> second, old |-> 0]]
    <3>1. sync'[s].pc = "bulk" /\ sync'[s].name = second
      BY <1>0, <2>3 DEF ServerTyped
    <3>2. Syncing(s)' /\ Beside(s)' = {second} /\ untidy' = untidy
      BY <2>3, <3>1, <1>5 DEF Syncing, Beside, Building, CreateIndex, Cleanly
    <3>3. Existing' \subseteq Existing \union {second}
      BY <1>0, <2>3 DEF ServerTyped, Existing
    <3> QED BY <1>2, <2>1, <3>1, <3>2, <3>3 DEF SoleSync
  <2> QED BY <1>5, <2>2, <2>3 DEF CreateIndex, Leaving, Cleanly
<1>6. CASE Bulk(s)
  <2>1. /\ alias' = alias /\ library' = library /\ syncLock' = syncLock /\ sync[s].pc = "bulk"
        /\ Beside(s) = {name} /\ Syncing(s)
    BY <1>6 DEF Bulk, Beside, Building, Syncing
  <2>2. CASE index' = [index EXCEPT ![name] = "full"] /\ GoTo(s, "alias") /\ Cleanly
    <3>1. sync'[s].pc = "alias" /\ sync'[s].name = name /\ untidy' = untidy
      BY <1>0, <2>2, GoesOn DEF ServerTyped, Steps, Cleanly
    <3>2. Syncing(s)' /\ Beside(s)' = {name}
      BY <3>1 DEF Syncing, Beside, Building
    <3>3. Existing' \subseteq Existing \union {name}
      BY <1>0, <2>2 DEF ServerTyped, Existing
    <3> QED BY <1>2, <2>1, <3>1, <3>2, <3>3 DEF SoleSync
  <2>3. CASE /\ GoTo(s, "release") /\ untidy' \in {untidy, untidy \union {"index"}}
             /\ "index" \in untidy' \/ index' = [index EXCEPT ![name] = "none"]
    <3>1. sync'[s].pc = "release" /\ Syncing(s)' /\ Beside(s)' = {}
      BY <1>0, <2>3, GoesOn DEF ServerTyped, Steps, Syncing, Beside, Building, Dropping
    <3>2. "index" \in untidy' \/ Existing' \subseteq Existing \ {name}
      BY <1>0, <2>3 DEF ServerTyped, Existing
    <3> QED BY <1>2, <2>1, <2>3, <3>1, <3>2 DEF SoleSync
  <2> QED BY <1>6, <2>2, <2>3 DEF Bulk, Leaving, Cleanly
<1>7. CASE AliasBacking(s)
  <2>1. PICK n \in alias \union {0} :
          /\ sync' = [sync EXCEPT ![s].old = n, ![s].pc = "swap"]
          /\ \/ untidy' = untidy /\ (n = 0 => alias = {})
             \/ untidy' = untidy \union {"alias", "version"}
    <3>1. 0 \notin alias
      BY <1>0, Bounds DEF ServerTyped, Seconds
    <3> QED BY <1>7, <3>1 DEF AliasBacking, Leaving, Cleanly
  <2>2. sync'[s].pc = "swap" /\ sync'[s].name = name /\ sync'[s].old = n
    BY <1>0, <2>1, Bounds DEF ServerTyped, Sync, Seconds
  <2>3. Syncing(s)' /\ Syncing(s) /\ Beside(s)' = {name} /\ Beside(s) = {name}
    BY <1>7, <2>2 DEF Syncing, Beside, Building, AliasBacking
  <2>4. /\ Existing' = Existing /\ alias' = alias /\ library' = library /\ syncLock' = syncLock
        /\ sync[s].pc = "alias"
    BY <1>7 DEF AliasBacking, Existing
  <2> QED BY <1>2, <2>1, <2>2, <2>3, <2>4 DEF SoleSync
<1>8. CASE SwapAlias(s)
  <2>1. /\ library' = library /\ syncLock' = syncLock /\ sync[s].pc = "swap"
        /\ Beside(s) = {name} /\ Syncing(s)
    BY <1>8 DEF SwapAlias, Beside, Building, Syncing
  <2>2. CASE alias' = (alias \ {old}) \union {name} /\ GoTo(s, "drop") /\ UNCHANGED index /\ Cleanly
    <3>1. sync'[s].pc = "drop" /\ sync'[s].name = name /\ sync'[s].old = old /\ untidy' = untidy
      BY <1>0, <2>2, GoesOn DEF ServerTyped, Steps, Cleanly
    <3>2. Syncing(s)' /\ Beside(s)' = {old} /\ Existing' = Existing
      BY <2>2, <3>1 DEF Syncing, Beside, Building, Dropping, Existing
    <3>3. "alias" \in untidy \/ alias' = {name}
      BY <2>1, <2>2 DEF SoleSync
    <3>4. "index" \in untidy \/ Existing' \subseteq alias' \union Beside(s)'
      BY <2>1, <2>2, <3>2 DEF SoleSync
    <3> QED BY <1>2, <2>1, <2>2, <3>1, <3>2, <3>3, <3>4 DEF SoleSync
  <2>3. CASE /\ GoTo(s, "release") /\ untidy' = untidy /\ alias' = alias
             /\ index' = [index EXCEPT ![name] = "none"]
    <3>1. sync'[s].pc = "release" /\ Syncing(s)' /\ Beside(s)' = {}
      BY <1>0, <2>3, GoesOn DEF ServerTyped, Steps, Syncing, Beside, Building, Dropping
    <3>2. Existing' \subseteq Existing \ {name}
      BY <1>0, <2>3 DEF ServerTyped, Existing
    <3> QED BY <1>2, <2>1, <2>3, <3>1, <3>2 DEF SoleSync
  <2>4. CASE GoTo(s, "release") /\ untidy' = untidy \union {"index"} /\ alias' = alias
    <3>1. sync'[s].pc = "release" /\ Syncing(s)'
      BY <1>0, <2>4, GoesOn DEF ServerTyped, Steps, Syncing
    <3> QED BY <1>2, <2>1, <2>4, <3>1 DEF SoleSync
  <2>5. CASE /\ GoTo(s, "release") /\ untidy' = untidy \union {"index", "version"}
             /\ alias' \subseteq (alias \ {old}) \union {name}
    <3>1. sync'[s].pc = "release" /\ Syncing(s)'
      BY <1>0, <2>5, GoesOn DEF ServerTyped, Steps, Syncing
    <3>2. "alias" \in untidy \/ \A m, n \in alias' : m = n
      BY <2>1, <2>5 DEF SoleSync
    <3> QED BY <1>2, <2>1, <2>5, <3>1, <3>2 DEF SoleSync
  <2> QED BY <1>8, <2>2, <2>3, <2>4, <2>5 DEF SwapAlias, Leaving, Cleanly
<1>9. CASE DropOld(s)
  <2>1. /\ library' = library /\ syncLock' = syncLock /\ sync[s].pc = "drop" /\ Syncing(s)
        /\ Beside(s) = {old} /\ old \notin alias
    BY <1>0, <1>9 DEF DropOld, Beside, Building, Dropping, Fates, Syncing
  <2>2. PICK p \in {"version", "release"} :
          /\ alias' = alias /\ GoTo(s, p)
          /\ untidy' \in {untidy, untidy \union {"version"}, untidy \union {"index", "version"}}
          /\ p = "release" => "version" \in untidy'
          /\ "index" \in untidy' \/ index' = [n \in Seconds |-> IF n = old THEN "none" ELSE index[n]]
    BY <1>9, <2>1 DEF DropOld, Leaving, Cleanly
  <2>3. sync'[s].pc = p /\ sync'[s].name = name /\ Syncing(s)' /\ Beside(s)' = {}
    BY <1>0, <2>2, GoesOn DEF ServerTyped, Steps, Syncing, Beside, Building, Dropping
  <2>4. "index" \in untidy' \/ Existing' \subseteq Existing \ {old}
    BY <1>0, <2>2 DEF ServerTyped, Existing
  <2> QED BY <1>2, <2>1, <2>2, <2>3, <2>4 DEF SoleSync
<1>10. CASE SetVersion(s)
  <2>1. /\ alias' = alias /\ syncLock' = syncLock /\ Existing' = Existing
        /\ sync[s].pc = "version" /\ Syncing(s) /\ Beside(s) = {} /\ GoTo(s, "release")
    BY <1>10 DEF SetVersion, Beside, Building, Dropping, Existing, Syncing
  <2>2. sync'[s].pc = "release" /\ Syncing(s)' /\ Beside(s)' = {}
    BY <1>0, <2>1, GoesOn DEF ServerTyped, Steps, Syncing, Beside, Building, Dropping
  <2>3. \/ untidy' = untidy \union {"version"}
        \/ untidy' = untidy /\ "alias" \in untidy
        \/ "alias" \notin untidy /\ untidy' = untidy \ {"version"} /\ library' = name
    BY <1>10 DEF SetVersion, Leaving
  <2> QED BY <1>2, <2>1, <2>2, <2>3 DEF SoleSync
<1>11. CASE ReleaseLock(s)
  <2>1. /\ library' = library /\ alias' = alias /\ Existing' = Existing
        /\ sync[s].pc = "release" /\ Syncing(s) /\ Beside(s) = {} /\ GoTo(s, "done")
        /\ \/ syncLock' = FALSE /\ untidy' = untidy
           \/ untidy' = untidy \union {"lock"}
    BY <1>11 DEF ReleaseLock, Beside, Building, Dropping, Existing, Syncing, Leaving, Cleanly
  <2>2. sync'[s].pc = "done" /\ ~Syncing(s)' /\ Beside(s)' = {}
    BY <1>0, <2>1, GoesOn DEF ServerTyped, Steps, Syncing, Beside, Building, Dropping
  <2> QED BY <1>2, <2>1, <2>2 DEF SoleSync
<1> QED BY <1>3, <1>4, <1>5, <1>6, <1>7, <1>8, <1>9, <1>10, <1>11 DEF SyncStep

LEMMA SyncOrderly ==
  ASSUME OwnedInd, OrderInd, NEW s \in Syncs, SyncStep(s)
  PROVE  OrderInd'
<1> SUFFICES ASSUME ~disturbed' PROVE Orderly'
  BY DEF OrderInd
<1>1. Orderly
  BY DEF SyncStep, AcquireLock, ParseTemplatesZip, CreateIndex, Bulk, AliasBacking, SwapAlias,
         DropOld, SetVersion, ReleaseLock, OrderInd
<1>2. Syncing(s) \/ ~syncLock
  BY DEF SyncStep, AcquireLock, ParseTemplatesZip, CreateIndex, Bulk, AliasBacking, SwapAlias,
         DropOld, SetVersion, ReleaseLock, Syncing
<1>3. SoleSync(s)'
  BY <1>1, <1>2, OrderlyAlone, AloneStays
<1> QED BY <1>3, AloneOrderly

\* The clock, the lock's expiry, the death of a process and a template saved
\* without an alias.
LEMMA ServerKept ==
  ASSUME OwnedInd, OrderInd, NextSecond \/ LockExpires \/ ServerDies \/ SaveTemplate
  PROVE  OwnedInd' /\ OrderInd'
<1>0. ServerTyped /\ AgentTyped /\ trouble \in 0 .. MaxTrouble /\ LibraryComplete /\ Fates /\ Apart
  BY TypesAre DEF OwnedInd
<1>1. CASE ServerDies
  <2>1. /\ index' = index /\ alias' = alias
        /\ \A t \in Syncs : /\ sync'[t].pc = IF Syncing(t) THEN "dead" ELSE sync[t].pc
                            /\ sync'[t].name = sync[t].name /\ sync'[t].old = sync[t].old
    BY <1>0, <1>1 DEF ServerDies, ServerTyped, Sync
  <2>2. \A t \in Syncs : ~Building(t)' /\ ~Dropping(t)'
    BY <2>1 DEF Syncing, Building, Dropping
  <2>3. LibraryComplete' /\ Fates' /\ Apart'
    BY <1>0, <2>1, <2>2 DEF LibraryComplete, Fates, Apart
  <2>4. sync' \in [Syncs -> Sync]
    BY <1>0, <1>1 DEF ServerDies, ServerTyped, Sync, Steps
  <2>5. trouble' \in 0 .. MaxTrouble
    BY <1>0, <1>1, TroubleTyped DEF ServerDies
  <2>6. NucleiTypeOK'
    BY <1>0, <1>1, <2>4, <2>5
       DEF ServerDies, agentVars, NucleiTypeOK, ServerTyped, AgentTyped, Sync, Steps
  <2>7. OrderInd'
    BY <1>1 DEF ServerDies, OrderInd
  <2> QED BY <2>3, <2>6, <2>7 DEF OwnedInd
<1>2. CASE ~ServerDies
  <2>1. UNCHANGED <<sync, index, alias, library, agentVars, cooldown>>
    BY <1>2 DEF NextSecond, LockExpires, SaveTemplate
  <2>2. LibraryComplete' /\ Fates' /\ Apart'
    BY <1>0, <2>1 DEF LibraryComplete, Fates, Apart, Building, Dropping, Seconds
  <2>3. /\ second' \in Seconds /\ syncLock' \in BOOLEAN /\ concrete' \in BOOLEAN /\ disturbed' \in BOOLEAN
        /\ untidy' \subseteq {"alias", "index", "version", "lock"}
    <3>1. CASE NextSecond
      BY <1>0, <3>1, Bounds DEF NextSecond, ServerTyped, Seconds
    <3>2. CASE LockExpires
      BY <1>0, <3>2 DEF LockExpires, ServerTyped
    <3>3. CASE SaveTemplate
      BY <1>0, <3>3 DEF SaveTemplate, ServerTyped
    <3> QED BY <1>2, <3>1, <3>2, <3>3
  <2>4. trouble' \in 0 .. MaxTrouble
    BY <1>0, <1>2, TroubleTyped DEF NextSecond, LockExpires, SaveTemplate, NoTrouble
  <2>5. NucleiTypeOK'
    BY <1>0, <2>1, <2>3, <2>4 DEF agentVars, NucleiTypeOK, ServerTyped, AgentTyped, Sync, Steps, Seconds
  <2>6. ASSUME Orderly, ~disturbed' PROVE Orderly'
    <3>1. CASE LockExpires
      <4>1. \A s \in Syncs : ~Syncing(s)
        BY <1>2, <2>6, <3>1 DEF LockExpires
      <4>2. /\ UNCHANGED <<sync, index, alias, library>>
            /\ syncLock' = FALSE /\ untidy' = untidy \ {"lock"}
        BY <3>1 DEF LockExpires
      <4> QED BY <2>6, <4>1, <4>2 DEF Orderly, Syncing, Existing, Beside, Building, Dropping, Seconds
    <3>2. CASE ~LockExpires
      <4>1. UNCHANGED <<sync, index, alias, library, syncLock, untidy>>
        BY <1>2, <2>1, <3>2 DEF NextSecond, SaveTemplate
      <4> QED BY <2>6, <4>1 DEF Orderly, Syncing, Existing, Beside, Building, Dropping, Seconds
    <3> QED BY <3>1, <3>2
  <2>7. disturbed => disturbed'
    BY <1>2 DEF NextSecond, LockExpires, SaveTemplate
  <2> QED BY <2>2, <2>5, <2>6, <2>7 DEF OwnedInd, OrderInd
<1> QED BY <1>1, <1>2

-----------------------------------------------------------------------------
(* Files *)

FileSets == [here : Files, old : Files, staged : Files]

\* Of one kind: its copies, how far its update is, and whether one must be there.
Sound(c, pc, owed) ==
  /\ c.here # "part" /\ c.old # "part"
  /\ pc \in {"clear", "backup", "swap"} => c.staged = "full"
  /\ owed => /\ "full" \in {c.here, c.old}
             /\ pc = "backup" => c.here = "full"
             /\ pc = "swap" => c.old = "full"

At(k) == IF task.kind = k THEN task.pc ELSE "idle"

LEMMA FilesAre == FilesInd <=> \A k \in Kinds : Sound(copies[k], At(k), k \in ever \ bared)
BY DEF FilesInd, Sound, At

\* What has to be shown of a step in the update of one kind.
LEMMA OneKind ==
  ASSUME NucleiTypeOK, FilesInd, NEW k \in Kinds, NEW c \in FileSets,
         NEW p \in {"idle", "stage", "clear", "backup", "swap"},
         copies' = [copies EXCEPT ![k] = c],
         task.kind = k \/ task.pc = "idle",
         task' = [kind |-> k, pc |-> p] \/ (p = "idle" /\ task' = Resting),
         ever \subseteq ever', ever' \subseteq ever \union {k}, ever' \subseteq Kinds,
         bared \ {k} \subseteq bared', bared' \subseteq Kinds,
         Sound(c, p, k \in ever' \ bared')
  PROVE  /\ \A q \in Kinds : Sound(copies'[q], At(q)', q \in ever' \ bared')
         /\ copies' \in [Kinds -> FileSets]
         /\ task' \in [kind : Kinds, pc : {"idle", "stage", "clear", "backup", "swap"}]
<1>0. copies \in [Kinds -> FileSets]
  BY DEF NucleiTypeOK, FileSets
<1>1. /\ copies' \in [Kinds -> FileSets] /\ copies'[k] = c
      /\ \A q \in Kinds \ {k} : copies'[q] = copies[q]
  BY <1>0
<1>2. At(k)' = p
  BY DEF At, Resting
<1>3. ASSUME NEW q \in Kinds \ {k} PROVE At(q)' = "idle"
  BY DEF At, Resting
<1>4. ASSUME NEW q \in Kinds \ {k} PROVE Sound(copies'[q], At(q)', q \in ever' \ bared')
  <2>1. Sound(copies[q], At(q), q \in ever \ bared)
    BY FilesAre
  <2>2. q \in ever' \ bared' => q \in ever \ bared
    OBVIOUS
  <2> QED BY <1>1, <1>3, <1>4, <2>1, <2>2 DEF Sound
<1>5. Sound(copies'[k], At(k)', k \in ever' \ bared')
  BY <1>1, <1>2
<1>6. task' \in [kind : Kinds, pc : {"idle", "stage", "clear", "backup", "swap"}]
  BY DEF Resting, Kinds
<1> QED BY <1>1, <1>4, <1>5, <1>6

Copying(k) ==
  ClearOld(k) \/ KeepOld(k) \/ SwapIn(k) \/ (k = "binary" /\ StageBinary) \/ (k = "templates" /\ StageTemplates)

\* A step of an update that has begun.
LEMMA CopyingKeeps ==
  ASSUME NucleiTypeOK, FilesInd, NEW k \in Kinds, Copying(k)
  PROVE  /\ \A q \in Kinds : Sound(copies'[q], At(q)', q \in ever' \ bared')
         /\ copies' \in [Kinds -> FileSets]
         /\ task' \in [kind : Kinds, pc : {"idle", "stage", "clear", "backup", "swap"}]
         /\ ever' \subseteq Kinds /\ bared' \subseteq Kinds
<1> DEFINE f == copies[k]
           owed == k \in ever \ bared
<1>0. /\ copies \in [Kinds -> FileSets] /\ f \in FileSets
      /\ ever \subseteq Kinds /\ bared \subseteq Kinds
      /\ f = [here |-> f.here, old |-> f.old, staged |-> f.staged]
  BY DEF NucleiTypeOK, FileSets
<1>1. task.kind = k /\ At(k) = task.pc
  BY DEF Copying, StageBinary, StageTemplates, ClearOld, KeepOld, SwapIn, AtFile, At
<1>2. Sound(f, task.pc, owed)
  BY <1>1, FilesAre
<1>3. CASE (k = "binary" /\ StageBinary) \/ (k = "templates" /\ StageTemplates)
  <2>1. ever' = ever /\ bared' = bared
    BY <1>3 DEF StageBinary, StageTemplates, NothingNew
  <2>2. PICK x \in {"none", "part", "full"} :
          /\ copies' = [copies EXCEPT ![k].staged = x]
          /\ task' = Resting \/ (x = "full" /\ task' = [kind |-> k, pc |-> "clear"])
    BY <1>3 DEF StageBinary, StageTemplates, ToFile
  <2> DEFINE c == [f EXCEPT !.staged = x]
  <2>3. copies' = [copies EXCEPT ![k] = c] /\ c \in FileSets
    BY <1>0, <2>2 DEF FileSets, Files
  <2>4. Sound(c, "idle", owed) /\ (x = "full" => Sound(c, "clear", owed))
    BY <1>0, <1>2 DEF Sound, FileSets
  <2> HIDE DEF c
  <2>5. CASE task' = Resting
    BY <1>0, <1>1, <2>1, <2>3, <2>4, <2>5, OneKind
  <2>6. CASE x = "full" /\ task' = [kind |-> k, pc |-> "clear"]
    BY <1>0, <1>1, <2>1, <2>3, <2>4, <2>6, OneKind
  <2> QED BY <2>2, <2>5, <2>6, <1>0, <2>1
<1>4. CASE ClearOld(k)
  <2> DEFINE c == [f EXCEPT !.old = "none"]
  <2>1. /\ copies' = [copies EXCEPT ![k] = c] /\ c \in FileSets
        /\ task.pc = "clear" /\ task' = [kind |-> k, pc |-> "backup"] /\ ever' = ever
        /\ bared' = IF f.here = "none" THEN bared \union {k} ELSE bared
    BY <1>0, <1>4 DEF ClearOld, AtFile, ToFile, FileSets, Files
  <2>2. Sound(c, "backup", k \in ever' \ bared')
    BY <1>0, <1>2, <2>1 DEF Sound, FileSets, Files
  <2> HIDE DEF c
  <2> QED BY <1>0, <1>1, <2>1, <2>2, OneKind
<1>5. CASE KeepOld(k)
  <2>1. ever' = ever /\ bared' = bared /\ task.pc = "backup"
    BY <1>5 DEF KeepOld, NothingNew, AtFile
  <2>2. CASE copies' = [copies EXCEPT ![k].old = copies[k].here, ![k].here = "none"] /\ ToFile(k, "swap")
    <3> DEFINE c == [f EXCEPT !.old = f.here, !.here = "none"]
    <3>1. copies' = [copies EXCEPT ![k] = c] /\ c \in FileSets /\ task' = [kind |-> k, pc |-> "swap"]
      BY <1>0, <2>2 DEF ToFile, FileSets, Files
    <3>2. Sound(c, "swap", owed)
      BY <1>0, <1>2, <2>1 DEF Sound, FileSets
    <3> HIDE DEF c
    <3> QED BY <1>0, <1>1, <2>1, <3>1, <3>2, OneKind
  <2>3. CASE copies' = [copies EXCEPT ![k].staged = LeftOver(k)] /\ task' = Resting
    <3> DEFINE c == [f EXCEPT !.staged = LeftOver(k)]
    <3>1. copies' = [copies EXCEPT ![k] = c] /\ c \in FileSets
      BY <1>0, <2>3 DEF LeftOver, FileSets, Files
    <3>2. Sound(c, "idle", owed)
      BY <1>0, <1>2 DEF Sound, FileSets
    <3> HIDE DEF c
    <3> QED BY <1>0, <1>1, <2>1, <2>3, <3>1, <3>2, OneKind
  <2> QED BY <1>5, <2>2, <2>3 DEF KeepOld
<1>6. CASE SwapIn(k)
  <2>1. task.pc = "swap" /\ task' = Resting /\ f.staged = "full"
    BY <1>2, <1>6 DEF SwapIn, AtFile, Sound
  <2>2. CASE /\ copies' = [copies EXCEPT ![k].here = copies[k].staged, ![k].staged = "none"]
             /\ ever' = ever \union {k} /\ bared' = bared \ {k}
    <3> DEFINE c == [f EXCEPT !.here = f.staged, !.staged = "none"]
    <3>1. copies' = [copies EXCEPT ![k] = c] /\ c \in FileSets
      BY <1>0, <2>2 DEF FileSets, Files
    <3>2. Sound(c, "idle", k \in ever' \ bared')
      BY <1>0, <1>2, <2>1 DEF Sound, FileSets
    <3> HIDE DEF c
    <3> QED BY <1>0, <1>1, <2>1, <2>2, <3>1, <3>2, OneKind
  <2>3. CASE ever' = ever /\ bared' = bared /\ \E left \in TakenBack(k) : copies' = [copies EXCEPT ![k] = left]
    <3>1. PICK c \in TakenBack(k) : copies' = [copies EXCEPT ![k] = c]
      BY <2>3
    <3>2. c \in FileSets /\ Sound(c, "idle", owed)
      BY <1>0, <1>2, <2>1 DEF TakenBack, LeftOver, Sound, FileSets, Files
    <3> QED BY <1>0, <1>1, <2>1, <2>3, <3>1, <3>2, OneKind
  <2> QED BY <1>6, <2>2, <2>3 DEF SwapIn, NothingNew
<1> QED BY <1>3, <1>4, <1>5, <1>6 DEF Copying

\* The rest: an update begins, or ends with the agent, and the files stay.
LEMMA QuietFiles ==
  ASSUME NucleiTypeOK, FilesInd,
         StartNucleiAgent \/ ReloadSettings \/ HeartbeatUpgrade \/ CooldownExpires \/ SyncTemplates \/ AgentDies
  PROVE  /\ \A q \in Kinds : Sound(copies'[q], At(q)', q \in ever' \ bared')
         /\ copies' \in [Kinds -> FileSets]
         /\ task' \in [kind : Kinds, pc : {"idle", "stage", "clear", "backup", "swap"}]
         /\ ever' \subseteq Kinds /\ bared' \subseteq Kinds
<1>1. /\ copies' = copies /\ ever' = ever /\ bared' = bared
      /\ \/ task' = task \/ task' = Resting
         \/ \E k \in Kinds : task' = [kind |-> k, pc |-> "stage"]
  BY DEF StartNucleiAgent, ReloadSettings, HeartbeatUpgrade, CooldownExpires, SyncTemplates, AgentDies,
         agentVars, Kinds
<1>2. \A q \in Kinds : Sound(copies[q], At(q), q \in ever \ bared)
  BY FilesAre
<1>3. \A q \in Kinds : At(q)' \in {At(q), "idle", "stage"}
  BY <1>1 DEF At, Resting
<1>4. \A q \in Kinds : Sound(copies'[q], At(q)', q \in ever' \ bared')
  BY <1>1, <1>2, <1>3 DEF Sound
<1>5. task' \in [kind : Kinds, pc : {"idle", "stage", "clear", "backup", "swap"}]
  BY <1>1 DEF NucleiTypeOK, Resting, Kinds
<1> QED BY <1>1, <1>4, <1>5 DEF NucleiTypeOK, FileSets

LEMMA FilesKept ==
  ASSUME NucleiTypeOK, FilesInd, FilesNext
  PROVE  NucleiTypeOK' /\ FilesInd' /\ UNCHANGED serverVars
<1>1. ServerTyped /\ AgentTyped /\ trouble \in 0 .. MaxTrouble
  BY TypesAre
<1>2. \/ \E k \in Kinds : Copying(k)
      \/ StartNucleiAgent \/ ReloadSettings \/ HeartbeatUpgrade \/ CooldownExpires \/ SyncTemplates \/ AgentDies
  <2>1. CASE StageBinary
    <3>1. Copying("binary") /\ "binary" \in Kinds
      BY <2>1 DEF Copying, Kinds
    <3> QED BY <3>1
  <2>2. CASE StageTemplates
    <3>1. Copying("templates") /\ "templates" \in Kinds
      BY <2>2 DEF Copying, Kinds
    <3> QED BY <3>1
  <2>3. CASE \E k \in Kinds : ClearOld(k) \/ KeepOld(k) \/ SwapIn(k)
    BY <2>3 DEF Copying
  <2> QED BY <2>1, <2>2, <2>3 DEF FilesNext
<1>3. /\ \A q \in Kinds : Sound(copies'[q], At(q)', q \in ever' \ bared')
      /\ copies' \in [Kinds -> FileSets]
      /\ task' \in [kind : Kinds, pc : {"idle", "stage", "clear", "backup", "swap"}]
      /\ ever' \subseteq Kinds /\ bared' \subseteq Kinds
  BY <1>2, CopyingKeeps, QuietFiles
<1>4. FilesInd'
  BY <1>3 DEF FilesInd, Sound, At
<1>5. /\ UNCHANGED serverVars /\ trouble' \in 0 .. MaxTrouble
      /\ cooldown' \in BOOLEAN /\ agentRuns' \in BOOLEAN /\ behind' \in BOOLEAN
      /\ reports' \in Files /\ updates' \in 0 .. MaxUpdates
  <2> USE <1>1, TroubleTyped, Bounds DEF AgentTyped, NoTrouble, agentVars, OnlyFiles, NothingNew
  <2>1. CASE \E k \in Kinds : Copying(k)
    <3>1. PICK k \in Kinds : Copying(k)
      BY <2>1
    <3>2. copies[k].staged \in Files /\ "none" \in Files
      BY DEF Files
    <3>3. CASE StageBinary \/ StageTemplates
      BY <3>3 DEF StageBinary, StageTemplates
    <3>4. CASE ClearOld(k)
      BY <3>4 DEF ClearOld
    <3>5. CASE KeepOld(k)
      BY <3>5 DEF KeepOld
    <3>6. CASE SwapIn(k)
      <4>1. OnlyFiles /\ (Trouble \/ NoTrouble)
        BY <3>6 DEF SwapIn
      <4>2. (behind' = FALSE \/ behind' = behind) /\ reports' \in {copies[k].staged, "none", reports}
        BY <3>6 DEF SwapIn
      <4> QED BY <3>2, <4>1, <4>2
    <3> QED BY <3>1, <3>3, <3>4, <3>5, <3>6 DEF Copying
  <2>2. CASE StartNucleiAgent
    BY <2>2 DEF StartNucleiAgent, Kinds
  <2>3. CASE ReloadSettings
    BY <2>3 DEF ReloadSettings
  <2>4. CASE HeartbeatUpgrade
    BY <2>4 DEF HeartbeatUpgrade
  <2>5. CASE CooldownExpires
    BY <2>5 DEF CooldownExpires
  <2>6. CASE SyncTemplates
    BY <2>6 DEF SyncTemplates
  <2>7. CASE AgentDies
    BY <2>7 DEF AgentDies, Files
  <2> QED BY <1>2, <2>1, <2>2, <2>3, <2>4, <2>5, <2>6, <2>7
<1>6. NucleiTypeOK'
  BY <1>1, <1>3, <1>5
     DEF serverVars, NucleiTypeOK, ServerTyped, AgentTyped, FileSets, Sync, Steps, Seconds
<1> QED BY <1>4, <1>5, <1>6

-----------------------------------------------------------------------------
NucleiInd == OwnedInd /\ OrderInd /\ FilesInd

LEMMA NucleiStarts == NucleiInit => NucleiInd
<1> SUFFICES ASSUME NucleiInit PROVE NucleiInd
  OBVIOUS
<1> USE DEF NucleiInit
<1>1. sync \in [Syncs -> Sync] /\ \A s \in Syncs : sync[s].pc = "idle"
  BY Bounds DEF NoSync, Sync, Steps
<1>2. second \in Seconds
  BY NucleiAssumption DEF Seconds
<1>3. NucleiTypeOK
  <2>1. ServerTyped
    <3>1. 0 \in 0 .. MaxSecond /\ "none" \in Files
      BY Bounds DEF Files
    <3>2. index \in [Seconds -> Files]
      BY <3>1
    <3> QED BY <1>1, <1>2, <3>1, <3>2 DEF ServerTyped
  <2>2. AgentTyped
    <3>1. copies \in [Kinds -> FileSets] /\ task \in [kind : Kinds, pc : {"idle", "stage", "clear", "backup", "swap"}]
      BY DEF FileSets, Files, Resting, Kinds
    <3>2. 0 \in 0 .. MaxUpdates /\ "none" \in Files
      BY Bounds DEF Files
    <3>3. copies \in [Kinds -> [here : Files, old : Files, staged : Files]]
      BY <3>1 DEF FileSets
    <3> HIDE DEF NucleiInit
    <3>4. /\ cooldown = FALSE /\ agentRuns = FALSE /\ behind = FALSE /\ reports = "none"
          /\ updates = 0 /\ ever = {} /\ bared = {}
      BY DEF NucleiInit
    <3> QED BY <3>1, <3>2, <3>3, <3>4 DEF AgentTyped
  <2> QED BY <2>1, <2>2, TypesAre, Bounds
<1>4. \A s \in Syncs : ~Building(s) /\ ~Dropping(s) /\ ~Syncing(s) /\ sync[s].pc \notin {"drop", "version", "swap"}
  BY <1>1 DEF Building, Dropping, Syncing
<1>5. OwnedInd
  BY <1>3, <1>4 DEF OwnedInd, LibraryComplete, Fates, Apart
<1>6. OrderInd
  BY <1>4 DEF OrderInd, Orderly, Existing
<1>7. FilesInd
  BY DEF FilesInd, Resting
<1> QED BY <1>5, <1>6, <1>7 DEF NucleiInd

LEMMA NucleiSteps == NucleiInd /\ [LibraryNext \/ FilesNext]_nucleiVars => NucleiInd'
<1> SUFFICES ASSUME NucleiInd, [LibraryNext \/ FilesNext]_nucleiVars PROVE NucleiInd'
  OBVIOUS
<1>1. CASE LibraryNext
  <2>1. ASSUME NEW s \in Syncs, SyncStep(s) PROVE OwnedInd' /\ OrderInd'
    BY <2>1, SyncOwned, SyncOrderly DEF NucleiInd
  <2>2. ASSUME NextSecond \/ LockExpires \/ ServerDies \/ SaveTemplate
        PROVE  OwnedInd' /\ OrderInd'
    BY <2>2, ServerKept DEF NucleiInd
  <2>3. OwnedInd' /\ OrderInd'
    BY <1>1, <2>1, <2>2 DEF LibraryNext, SyncStep
  <2>4. UNCHANGED <<copies, task, ever, bared>>
    BY <1>1 DEF LibraryNext, SyncStep, AcquireLock, ParseTemplatesZip, CreateIndex, Bulk, AliasBacking, SwapAlias,
                DropOld, SetVersion, ReleaseLock, NextSecond, LockExpires, ServerDies, SaveTemplate, agentVars
  <2> QED BY <2>3, <2>4 DEF NucleiInd, FilesInd
<1>2. CASE FilesNext
  <2>1. NucleiTypeOK' /\ FilesInd' /\ UNCHANGED serverVars
    BY <1>2, FilesKept DEF NucleiInd, OwnedInd
  <2> QED BY <2>1 DEF NucleiInd, OwnedInd, OrderInd, serverVars, LibraryComplete, Fates, Apart, Orderly,
                      Building, Dropping, Syncing, Beside, Existing, Seconds
<1>3. CASE UNCHANGED nucleiVars
  BY <1>3 DEF nucleiVars, serverVars, agentVars, NucleiInd, OwnedInd, OrderInd, FilesInd, LibraryComplete,
              Fates, Apart, Orderly, Building, Dropping, Syncing, Beside, Existing, Seconds, NucleiTypeOK
<1> QED BY <1>1, <1>2, <1>3

\* The library is whole at every moment and tidy unless a lock ran out, and a copy
\* of what an agent has installed survives, for any number of synchronisations,
\* updates and failures.  (rebuild_manifest, extractNucleiBinary, swapTemplatesZip)
THEOREM NucleiInvHolds == NucleiSpec => []NucleiInv
<1>1. NucleiInd => NucleiInv
  <2> SUFFICES ASSUME NucleiInd PROVE NucleiInv
    OBVIOUS
  <2>1. LibraryTidy
    <3> SUFFICES ASSUME ~disturbed, \A s \in Syncs : ~Syncing(s)
                 PROVE  /\ "alias" \in untidy \/ Cardinality(alias) <= 1
                        /\ "index" \in untidy \/ Existing = alias
                        /\ "version" \in untidy \/ \A n \in alias : library = n
                        /\ "lock" \in untidy \/ ~syncLock
      BY DEF LibraryTidy
    <3>1. Orderly /\ alias \subseteq Seconds /\ LibraryComplete
      BY DEF NucleiInd, OrderInd, OwnedInd, NucleiTypeOK
    <3>2. \A s \in Syncs : Beside(s) = {} /\ sync[s].pc \notin {"drop", "version"}
      BY DEF Syncing, Beside, Building, Dropping
    <3>3. ASSUME "alias" \notin untidy PROVE Cardinality(alias) <= 1
      <4>1. CASE alias = {}
        BY <4>1, FS_EmptySet
      <4>2. ASSUME NEW n \in alias PROVE Cardinality(alias) <= 1
        <5>1. alias = {n}
          BY <3>1, <3>3 DEF Orderly
        <5> QED BY <5>1, FS_Singleton
      <4> QED BY <4>1, <4>2
    <3>4. "index" \in untidy \/ Existing = alias
      BY <3>1, <3>2 DEF Orderly, Existing, LibraryComplete
    <3> QED BY <3>1, <3>2, <3>3, <3>4 DEF Orderly
  <2>2. CopySurvives
    BY DEF NucleiInd, FilesInd, CopySurvives
  <2> QED BY <2>1, <2>2 DEF NucleiInd, OwnedInd, NucleiInv
<1> QED BY <1>1, NucleiStarts, NucleiSteps, PTL DEF NucleiSpec

-----------------------------------------------------------------------------
(* Publishing.  What is stored has rules.  As long as publications follow    *)
(* each other the one under way has the newest version of all.              *)

NonEmpty(v) == packs[v] # {}

PublishedInd ==
  /\ current # 0 => NonEmpty(current)
  /\ \A c \in Calls :
       /\ Active(c) => call[c].version \in 1 .. now
       /\ call[c].pc \in {"store", "point"} => call[c].rules # {}
       /\ call[c].pc = "point" => NonEmpty(call[c].version)

NewestInd ==
  /\ \A v \in Versions : NonEmpty(v) => v <= now
  /\ ~overlap =>
       /\ \A c, d \in Calls : Active(c) /\ Active(d) => c = d
       /\ \A c \in Calls : Active(c) => \A v \in Versions : NonEmpty(v) => v <= call[c].version
       /\ (\A c \in Calls : call[c].pc # "point") => \A v \in Versions : NonEmpty(v) => v <= current

(* The agent.  Whatever goes through a worker was signed under its version,  *)
(* and the worker that loaded last is the one that reports.                 *)

SignedAs(bodies, v, rules) == v \in Versions /\ rules \in bodies[v]

SignedInd ==
  /\ \A p \in {loaded, disk} : p.version # 0 => SignedAs(signed, p.version, p.rules)
  /\ \A w \in Workers :
       /\ \A i \in DOMAIN inbox[w] : SignedAs(signed, inbox[w][i].version, inbox[w][i].signature)
       /\ worker[w].pc \in {"load", "persist"} => SignedAs(signed, worker[w].version, worker[w].body)
       /\ worker[w].pc # "idle" => worker[w].version # 0

Loaded(w) == worker[w].pc \in {"persist", "report", "save"}
Telling(w) == worker[w].pc \in {"persist", "report"}

ReportInd ==
  /\ \A w \in Workers : Loaded(w) => up /\ loaded.version # 0
  /\ \A w \in Workers : worker[w].pc \in {"report", "save"} => disk.version # 0 \/ blank
  /\ config # 0 => disk.version # 0 \/ blank
  /\ loaded.version = 0 /\ reported # 0 => blank
  /\ ~crossed =>
       /\ \A w, x \in Workers : Loaded(w) /\ Loaded(x) => w = x
       /\ \A w \in Workers : Telling(w) => worker[w].version = loaded.version
       /\ loaded.version # 0 /\ (\A w \in Workers : ~Telling(w)) => reported = loaded.version

Message == [version : Versions, signature : Contents \cup {{}}]

WiresTyped ==
  /\ inbox \in [Workers -> Seq(Message)]
  /\ worker \in [Workers -> [pc : {"idle", "load", "persist", "report", "save"},
                             version : 0 .. MaxTime, body : Contents \cup {{}}]]
  /\ signed \in [Versions -> SUBSET (Contents \cup {{}})]
  /\ \A w \in Workers : worker[w].pc = "idle" => worker[w] = Idle

RulesInd == TypeOK /\ WiresTyped /\ PublishedInd /\ NewestInd /\ SignedInd /\ ReportInd
-----------------------------------------------------------------------------
(* Types *)

RulesServerTyped ==
  /\ now \in Versions
  /\ call \in [Calls -> [pc : {"idle", "fetch", "store", "point", "done"},
                         version : 0 .. MaxTime, rules : Contents \cup {{}}]]
  /\ packs \in [Versions -> Contents \cup {{}}]
  /\ current \in 0 .. MaxTime /\ overlap \in BOOLEAN

RulesAgentTyped ==
  /\ beats \subseteq 0 .. MaxTime /\ conn \in 0 .. 2
  /\ {loaded, disk} \subseteq [version : 0 .. MaxTime, rules : Contents \cup {{}}]
  /\ config \in 0 .. MaxTime /\ reported \in 0 .. MaxTime
  /\ up \in BOOLEAN /\ crossed \in BOOLEAN /\ blank \in BOOLEAN

RulesTypes ==
  /\ RulesServerTyped /\ RulesAgentTyped /\ WiresTyped
  /\ \A w \in Workers : Len(inbox[w]) <= MaxInbox
  /\ faults \in 0 .. MaxFaults

LEMMA RulesParts ==
  /\ TypeOK /\ WiresTyped <=> RulesTypes
  /\ RulesTypes' => (TypeOK /\ WiresTyped)'
BY DEF TypeOK, RulesTypes, RulesServerTyped, RulesAgentTyped, WiresTyped

LEMMA RulesBounds ==
  /\ MaxTime \in Nat \ {0} /\ MaxFaults \in Nat /\ Baseline # {}
  /\ Versions \subseteq 0 .. MaxTime /\ Versions \subseteq Nat /\ 0 \notin Versions
  /\ 0 \in 0 .. MaxTime
BY RulePacksAssumption DEF Versions

FetchStep(c) == Fetch(c) \/ FetchFromGithub(c)

\* A fetch ends with rules of the feed beside the baseline.
LEMMA FetchedContents ==
  ASSUME NEW c \in Calls, FetchStep(c)
  PROVE  \E rules : /\ Fetched(c, rules)
                    /\ Baseline \cup rules \in Contents /\ Baseline \cup rules # {}
<1>1. CASE Fetch(c)
  <2>1. PICK n \in 0 .. Len(NvdPages) : Fetched(c, TransformCves(FetchNvd(NvdPages, n)))
    BY <1>1 DEF Fetch
  <2>2. Baseline \cup TransformCves(FetchNvd(NvdPages, n)) \in Contents
    BY DEF Contents
  <2> QED BY <2>1, <2>2, RulesBounds
<1>2. CASE FetchFromGithub(c)
  <2>1. PICK got \in SUBSET Advisories, listed \in BOOLEAN :
          Fetched(c, TransformAdvisories(FetchAdvisories(Advisories, got, listed)))
    BY <1>2 DEF FetchFromGithub
  <2>2. Baseline \cup TransformAdvisories(FetchAdvisories(Advisories, got, listed)) \in Contents
    BY DEF Contents
  <2> QED BY <2>1, <2>2, RulesBounds
<1> QED BY <1>1, <1>2 DEF FetchStep

LEMMA ImportedContents ==
  ASSUME NEW z \in Archives
  PROVE  ParseImport(z) \in Contents
BY DEF Contents

-----------------------------------------------------------------------------
(* Publishing *)

PublishStep ==
  \/ \E c \in Calls : \/ StartSync(c) \/ FetchStep(c) \/ StartImport(c)
                      \/ Store(c) \/ Point(c) \/ PublishFails(c)
  \/ Tick

LEMMA FaultTyped ==
  ASSUME faults \in 0 .. MaxFaults, Fault \/ NoFault
  PROVE  faults' \in 0 .. MaxFaults
BY RulesBounds DEF Fault, NoFault

LEMMA PublishFrame ==
  ASSUME PublishStep, faults \in 0 .. MaxFaults
  PROVE  /\ UNCHANGED <<wire, agent, signed, crossed, blank>>
         /\ faults' \in 0 .. MaxFaults
<1>1. CASE Tick
  BY <1>1 DEF Tick, past
<1>2. ASSUME NEW c \in Calls, StartSync(c) \/ FetchStep(c) \/ StartImport(c)
      PROVE  UNCHANGED <<wire, agent, signed, crossed, blank>> /\ faults' \in 0 .. MaxFaults
  BY <1>2, FaultTyped
     DEF StartSync, FetchStep, Fetch, FetchFromGithub, Fetched, StartImport, past, NoFault
<1>3. ASSUME NEW c \in Calls, Store(c) \/ Point(c) \/ PublishFails(c)
      PROVE  UNCHANGED <<wire, agent, signed, crossed, blank>> /\ faults' \in 0 .. MaxFaults
  BY <1>3, FaultTyped DEF Store, Point, PublishFails, past, NoFault
<1> QED BY <1>1, <1>2, <1>3 DEF PublishStep

\* A call that begins.
LEMMA CallBegun ==
  ASSUME RulesServerTyped, PublishedInd, NewestInd, NEW c \in Calls, NEW pc \in {"fetch", "store"},
         NEW rules \in Contents \cup {{}}, pc = "store" => rules # {},
         call[c].pc = "idle", SetCall(c, pc, now, rules),
         overlap' = (overlap \/ ~Alone(c)), UNCHANGED <<now, packs, current>>
  PROVE  RulesServerTyped' /\ PublishedInd' /\ NewestInd'
<1> USE RulesBounds DEF RulesServerTyped
<1>1. /\ call'[c] = [pc |-> pc, version |-> now, rules |-> rules]
      /\ \A d \in Calls \ {c} : call'[d] = call[d]
  BY DEF SetCall
<1>2. RulesServerTyped'
  BY DEF SetCall
<1>3. PublishedInd'
  BY <1>1 DEF PublishedInd, Active, NonEmpty, Versions
<1>4. \A v \in Versions : NonEmpty(v)' <=> NonEmpty(v)
  BY DEF NonEmpty
<1>5. ASSUME ~overlap'
      PROVE  /\ \A d \in Calls \ {c} : ~Active(d)
             /\ \A d \in Calls \ {c} : ~Active(d)'
  BY <1>1, <1>5 DEF Alone, Active
<1>6. ASSUME ~overlap'
      PROVE  /\ \A x, d \in Calls : Active(x)' /\ Active(d)' => x = d
             /\ \A x \in Calls : Active(x)' => \A v \in Versions : NonEmpty(v)' => v <= call'[x].version
             /\ \A v \in Versions : NonEmpty(v)' => v <= current'
  <2>1. \A v \in Versions : NonEmpty(v) => v <= now
    BY DEF NewestInd
  <2>2. \A x \in Calls : call[x].pc # "point"
    BY <1>5, <1>6 DEF Active
  <2>3. \A v \in Versions : NonEmpty(v) => v <= current
    BY <1>6, <2>2 DEF NewestInd
  <2> QED BY <1>1, <1>4, <1>5, <1>6, <2>1, <2>3
<1>7. NewestInd'
  BY <1>4, <1>6 DEF NewestInd
<1> QED BY <1>2, <1>3, <1>7

LEMMA PublishKeeps ==
  ASSUME RulesTypes, PublishedInd, NewestInd, PublishStep
  PROVE  RulesServerTyped' /\ PublishedInd' /\ NewestInd'
<1> RulesServerTyped
  BY DEF RulesTypes
<1> USE RulesBounds DEF RulesServerTyped
<1>1. CASE Tick
  <2>1. now' = now + 1 /\ UNCHANGED <<call, packs, current, overlap>> /\ now < MaxTime
    BY <1>1 DEF Tick, past
  <2>2. RulesServerTyped'
    BY <2>1 DEF Versions
  <2>3. PublishedInd'
    BY <2>1 DEF PublishedInd, Active, NonEmpty, Versions
  <2>4. NewestInd'
    BY <2>1 DEF NewestInd, Active, NonEmpty
  <2> QED BY <2>2, <2>3, <2>4
<1>2. ASSUME NEW c \in Calls, StartSync(c)
      PROVE  RulesServerTyped' /\ PublishedInd' /\ NewestInd'
  <2>1. call[c].pc = "idle" /\ SetCall(c, "fetch", now, {})
        /\ overlap' = (overlap \/ ~Alone(c)) /\ UNCHANGED <<now, packs, current>>
    BY <1>2 DEF StartSync
  <2> QED BY <2>1, CallBegun
<1>3. ASSUME NEW c \in Calls, StartImport(c)
      PROVE  RulesServerTyped' /\ PublishedInd' /\ NewestInd'
  <2>1. PICK z \in Archives : ParseImport(z) # {} /\ SetCall(c, "store", now, ParseImport(z))
    BY <1>3 DEF StartImport
  <2>2. call[c].pc = "idle" /\ overlap' = (overlap \/ ~Alone(c)) /\ UNCHANGED <<now, packs, current>>
    BY <1>3 DEF StartImport
  <2> QED BY <2>1, <2>2, ImportedContents, CallBegun
<1>4. ASSUME NEW c \in Calls, FetchStep(c)
      PROVE  RulesServerTyped' /\ PublishedInd' /\ NewestInd'
  <2>0. PICK more : Fetched(c, more) /\ Baseline \cup more \in Contents /\ Baseline \cup more # {}
    BY <1>4, FetchedContents
  <2> DEFINE rules == Baseline \cup more
  <2>1. rules \in Contents /\ rules # {} /\ SetCall(c, "store", call[c].version, rules)
    BY <2>0 DEF Fetched
  <2>2. /\ call'[c] = [pc |-> "store", version |-> call[c].version, rules |-> rules]
        /\ \A d \in Calls \ {c} : call'[d] = call[d]
        /\ call[c].pc = "fetch" /\ UNCHANGED <<now, packs, current, overlap>>
    BY <2>0, <2>1 DEF SetCall, Fetched, past
  <2> HIDE DEF rules
  <2>3. RulesServerTyped'
    BY <2>1, <2>2 DEF SetCall
  <2>4. PublishedInd'
    BY <2>1, <2>2 DEF PublishedInd, Active, NonEmpty
  <2>5. /\ \A d \in Calls : (Active(d)' <=> Active(d)) /\ call'[d].version = call[d].version
        /\ \A d \in Calls : (call'[d].pc = "point" <=> call[d].pc = "point")
        /\ \A v \in Versions : NonEmpty(v)' <=> NonEmpty(v)
    BY <2>2 DEF Active, NonEmpty
  <2>6. NewestInd'
    BY <2>2, <2>5 DEF NewestInd
  <2> QED BY <2>3, <2>4, <2>6
<1>5. ASSUME NEW c \in Calls, Store(c)
      PROVE  RulesServerTyped' /\ PublishedInd' /\ NewestInd'
  <2> DEFINE v0 == call[c].version
  <2>1. v0 \in Versions /\ v0 <= now /\ call[c].rules # {}
    BY <1>5 DEF Store, PublishedInd, Active, Versions
  <2>2. /\ call'[c] = [pc |-> "point", version |-> v0, rules |-> call[c].rules]
        /\ \A d \in Calls \ {c} : call'[d] = call[d]
        /\ call[c].pc = "store" /\ UNCHANGED <<now, current>>
        /\ overlap' = (overlap \/ NonEmpty(v0))
        /\ packs'[v0] = call[c].rules /\ \A v \in Versions \ {v0} : packs'[v] = packs[v]
    BY <1>5, <2>1 DEF SetCall, Store, NonEmpty
  <2>3. RulesServerTyped'
    BY <1>5, <2>1 DEF Store, SetCall
  <2>4. /\ \A v \in Versions : NonEmpty(v)' <=> NonEmpty(v) \/ v = v0
        /\ \A d \in Calls : (Active(d)' <=> Active(d)) /\ call'[d].version = call[d].version
    BY <2>1, <2>2 DEF NonEmpty, Active
  <2> HIDE DEF v0
  <2>5. \A d \in Calls : Active(d) => call[d].version \in Versions
    BY DEF PublishedInd, Versions
  <2>6. PublishedInd'
    <3>1. current' # 0 => NonEmpty(current)'
      BY <2>2, <2>4 DEF PublishedInd, Versions
    <3>2. ASSUME NEW d \in Calls
          PROVE  /\ Active(d)' => call'[d].version \in 1 .. now'
                 /\ call'[d].pc \in {"store", "point"} => call'[d].rules # {}
                 /\ call'[d].pc = "point" => packs'[call'[d].version] # {}
      <4>1. CASE d = c
        <5>1. /\ call'[d].version = v0 /\ call'[d].rules # {}
              /\ packs'[v0] # {}
          BY <2>1, <2>2, <4>1
        <5>2. v0 \in 1 .. now'
          BY <2>1, <2>2 DEF Versions
        <5> QED BY <5>1, <5>2
      <4>2. CASE d # c
        BY <2>1, <2>2, <2>4, <2>5, <4>2 DEF PublishedInd, NonEmpty, Active
      <4> QED BY <4>1, <4>2
    <3> QED BY <3>1, <3>2 DEF PublishedInd, NonEmpty
  <2>7. NewestInd'
    <3>1. \A v \in Versions : NonEmpty(v)' => v <= now'
      BY <2>1, <2>2, <2>4 DEF NewestInd
    <3>2. ASSUME ~overlap'
          PROVE  /\ \A d, x \in Calls : Active(d)' /\ Active(x)' => d = x
                 /\ \A d \in Calls : Active(d)' => \A v \in Versions : NonEmpty(v)' => v <= call'[d].version
      <4>1. ~overlap /\ Active(c) /\ call[c].version = v0
        BY <2>2, <3>2 DEF Active, v0
      <4>2. \A d \in Calls : Active(d) => d = c
        BY <4>1 DEF NewestInd
      <4>3. \A v \in Versions : NonEmpty(v) => v <= v0
        BY <4>1 DEF NewestInd
      <4> QED BY <2>1, <2>4, <4>1, <4>2, <4>3
    <3>3. ~(\A d \in Calls : call'[d].pc # "point")
      BY <2>2
    <3> QED BY <3>1, <3>2, <3>3 DEF NewestInd
  <2> QED BY <2>3, <2>6, <2>7
<1>6. ASSUME NEW c \in Calls, Point(c) \/ PublishFails(c)
      PROVE  RulesServerTyped' /\ PublishedInd' /\ NewestInd'
  <2>1. /\ call'[c].pc = "done" /\ \A d \in Calls \ {c} : call'[d] = call[d]
        /\ UNCHANGED <<now, packs>> /\ Active(c)
    BY <1>6 DEF Point, PublishFails, SetCall, Active
  <2>2. \/ current' = call[c].version /\ overlap' = overlap /\ call[c].pc = "point"
        \/ current' = current /\ overlap' = overlap /\ call[c].pc # "point"
        \/ current' = current /\ overlap' = TRUE
    BY <1>6 DEF Point, PublishFails, Active, past
  <2>0. SetCall(c, "done", 0, {})
    BY <1>6 DEF Point, PublishFails
  <2>3. RulesServerTyped'
    <3>1. call' \in [Calls -> [pc : {"idle", "fetch", "store", "point", "done"},
                              version : 0 .. MaxTime, rules : Contents \cup {{}}]]
      BY <2>0 DEF SetCall
    <3>2. current' \in 0 .. MaxTime /\ overlap' \in BOOLEAN
      BY <2>2
    <3> QED BY <2>1, <3>1, <3>2
  <2>4. /\ \A v \in Versions : NonEmpty(v)' <=> NonEmpty(v)
        /\ \A d \in Calls : Active(d)' => Active(d) /\ d # c
        /\ \A d \in Calls : packs'[call'[d].version] # {} <=> packs[call'[d].version] # {}
    BY <2>1 DEF NonEmpty, Active
  <2>5. PublishedInd'
    <3>1. current' # 0 => NonEmpty(current)'
      BY <2>1, <2>2 DEF PublishedInd, NonEmpty
    <3>2. ASSUME NEW d \in Calls
          PROVE  /\ Active(d)' => call'[d].version \in 1 .. now'
                 /\ call'[d].pc \in {"store", "point"} => call'[d].rules # {}
                 /\ call'[d].pc = "point" => packs'[call'[d].version] # {}
      BY <2>1, <2>4 DEF PublishedInd, NonEmpty, Active
    <3> QED BY <3>1, <3>2 DEF PublishedInd, NonEmpty
  <2>6. NewestInd'
    <3>1. \A v \in Versions : NonEmpty(v)' => v <= now'
      BY <2>1, <2>4 DEF NewestInd
    <3>2. ASSUME ~overlap'
          PROVE  /\ \A d, x \in Calls : Active(d)' /\ Active(x)' => d = x
                 /\ \A d \in Calls : Active(d)' => \A v \in Versions : NonEmpty(v)' => v <= call'[d].version
                 /\ \A v \in Versions : NonEmpty(v)' => v <= current'
      <4>1. ~overlap /\ \A d \in Calls : Active(d) => d = c
        BY <2>1, <2>2, <3>2 DEF NewestInd
      <4>2. \A d \in Calls : ~Active(d)'
        BY <2>4, <4>1
      <4>3. CASE call[c].pc = "point"
        <5>1. current' = call[c].version
          BY <2>2, <3>2, <4>3
        <5>2. \A v \in Versions : NonEmpty(v) => v <= call[c].version
          BY <2>1, <4>1 DEF NewestInd
        <5> QED BY <2>4, <4>2, <5>1, <5>2
      <4>4. CASE call[c].pc # "point"
        <5>1. \A d \in Calls : call[d].pc # "point"
          BY <4>1, <4>4 DEF Active
        <5> QED BY <2>2, <2>4, <3>2, <4>1, <4>2, <4>4, <5>1 DEF NewestInd
      <4> QED BY <4>3, <4>4
    <3> QED BY <3>1, <3>2 DEF NewestInd
  <2> QED BY <2>3, <2>5, <2>6
<1> QED BY <1>1, <1>2, <1>3, <1>4, <1>5, <1>6 DEF PublishStep

LEMMA AgentStays ==
  ASSUME UNCHANGED <<wire, agent, signed, crossed, blank>>
  PROVE  /\ RulesAgentTyped => RulesAgentTyped'
         /\ WiresTyped => WiresTyped'
         /\ SignedInd => SignedInd'
         /\ ReportInd => ReportInd'
<1>1. UNCHANGED <<beats, conn, inbox, worker, up, loaded, disk, config, reported, signed, crossed, blank>>
  BY DEF wire, agent
<1>2. RulesAgentTyped => RulesAgentTyped'
  BY <1>1 DEF RulesAgentTyped
<1>3. WiresTyped => WiresTyped'
  BY <1>1 DEF WiresTyped
<1>4. SignedInd => SignedInd'
  BY <1>1 DEF SignedInd, SignedAs
<1>5. ReportInd => ReportInd'
  BY <1>1 DEF ReportInd, Loaded, Telling
<1> QED BY <1>2, <1>3, <1>4, <1>5

LEMMA ServerStays ==
  ASSUME UNCHANGED <<server, overlap>>
  PROVE  /\ RulesServerTyped => RulesServerTyped'
         /\ PublishedInd => PublishedInd'
         /\ NewestInd => NewestInd'
<1>1. UNCHANGED <<now, call, packs, current, overlap>>
  BY DEF server
<1>2. PublishedInd => PublishedInd'
  BY <1>1 DEF PublishedInd, Active, NonEmpty
<1>3. NewestInd => NewestInd'
  BY <1>1 DEF NewestInd, Active, NonEmpty
<1> QED BY <1>1, <1>2, <1>3 DEF RulesServerTyped

-----------------------------------------------------------------------------
(* The agent and its connections *)

AgentSide == RulesAgentTyped /\ WiresTyped /\ SignedInd /\ ReportInd

InboxesShort == \A w \in Workers : Len(inbox[w]) <= MaxInbox

LEMMA Sent ==
  ASSUME RulesTypes, SignedInd, current # 0,
         signed' = [signed EXCEPT ![current] = @ \cup {Body(current)}],
         \/ inbox' = inbox
         \/ /\ conn # 0 /\ Len(inbox[conn]) < MaxInbox
            /\ inbox' = [inbox EXCEPT ![conn] =
                           Append(@, [version |-> current, signature |-> Body(current)])],
         UNCHANGED <<worker, loaded, disk>>
  PROVE  WiresTyped' /\ SignedInd' /\ InboxesShort'
<1> USE DEF RulesTypes
<1>1. current \in Versions /\ Body(current) \in Contents \cup {{}}
  BY RulesBounds DEF RulesServerTyped, Body, Versions
<1>2. /\ signed' \in [Versions -> SUBSET (Contents \cup {{}})]
      /\ Body(current) \in signed'[current]
      /\ \A v \in Versions : signed[v] \subseteq signed'[v]
  BY <1>1 DEF WiresTyped
<1> DEFINE m == [version |-> current, signature |-> Body(current)]
<1>3. m \in Message
  BY <1>1 DEF Message
<1>4. ASSUME NEW w \in Workers
      PROVE  /\ inbox'[w] \in Seq(Message) /\ Len(inbox'[w]) <= MaxInbox
             /\ \A i \in DOMAIN inbox'[w] : (i \in DOMAIN inbox[w] /\ inbox'[w][i] = inbox[w][i]) \/ inbox'[w][i] = m
  <2>1. inbox[w] \in Seq(Message) /\ Len(inbox[w]) <= MaxInbox
    BY DEF WiresTyped
  <2>2. CASE inbox'[w] = inbox[w]
    BY <2>1, <2>2
  <2>3. CASE Len(inbox[w]) < MaxInbox /\ inbox'[w] = Append(inbox[w], m)
    <3> HIDE DEF m
    <3> QED BY <1>3, <2>1, <2>3 DEF MaxInbox
  <2>4. inbox'[w] = inbox[w] \/ (Len(inbox[w]) < MaxInbox /\ inbox'[w] = Append(inbox[w], m))
    BY DEF WiresTyped
  <2> QED BY <2>2, <2>3, <2>4
<1>5. inbox' \in [Workers -> Seq(Message)]
  <2>1. DOMAIN inbox' = Workers /\ inbox' = [w \in Workers |-> inbox'[w]]
    BY DEF WiresTyped
  <2> QED BY <1>4, <2>1
<1>6. WiresTyped'
  BY <1>2, <1>5 DEF WiresTyped
<1>7. \A v, rules : SignedAs(signed, v, rules) => SignedAs(signed', v, rules)
  BY <1>2 DEF SignedAs
<1>8. SignedAs(signed', m.version, m.signature)
  BY <1>1, <1>2 DEF SignedAs
<1>9. ASSUME NEW w \in Workers, NEW i \in DOMAIN inbox'[w]
      PROVE  SignedAs(signed', inbox'[w][i].version, inbox'[w][i].signature)
  <2>1. CASE i \in DOMAIN inbox[w] /\ inbox'[w][i] = inbox[w][i]
    BY <1>7, <2>1 DEF SignedInd
  <2>2. CASE inbox'[w][i] = m
    BY <1>8, <2>2
  <2> QED BY <1>4, <2>1, <2>2
<1>10. SignedInd'
  BY <1>7, <1>9 DEF SignedInd
<1> QED BY <1>4, <1>6, <1>10 DEF InboxesShort
AgentSideKept == RulesAgentTyped' /\ WiresTyped' /\ SignedInd' /\ ReportInd' /\ InboxesShort'

\* What is neither published nor heard of by a worker.
LEMMA LinkKeeps ==
  ASSUME RulesTypes, SignedInd, ReportInd,
         Heartbeat \/ TriggerUpdate \/ ForceUpdate \/ Connect \/ Disconnect
  PROVE  AgentSideKept /\ UNCHANGED <<server, overlap>> /\ faults' \in 0 .. MaxFaults
<1> USE DEF RulesTypes, past
<1>1. UNCHANGED <<worker, up, loaded, disk, config, reported, crossed, blank, server, overlap>>
  BY DEF Heartbeat, TriggerUpdate, ForceUpdate, Connect, Disconnect, agent
<1>2. ReportInd'
  BY <1>1 DEF ReportInd, Loaded, Telling
<1>3. beats' \subseteq 0 .. MaxTime /\ conn' \in 0 .. 2
  <2>1. beats' \in {beats, {}, {reported}}
    BY DEF Heartbeat, TriggerUpdate, ForceUpdate, Connect, Disconnect, agent
  <2>2. conn' = conn \/ conn' = 0 \/ conn' \in Workers
    BY DEF Heartbeat, TriggerUpdate, ForceUpdate, Connect, Disconnect, agent
  <2> QED BY <2>1, <2>2 DEF RulesAgentTyped, Workers
<1>4. RulesAgentTyped'
  BY <1>1, <1>3 DEF RulesAgentTyped
<1>5. CASE Heartbeat \/ Connect \/ Disconnect
  <2>1. UNCHANGED <<inbox, worker, signed, loaded, disk>> /\ (Fault \/ NoFault)
    BY <1>5 DEF Heartbeat, Connect, Disconnect, agent, NoFault
  <2>2. WiresTyped' /\ SignedInd' /\ InboxesShort'
    BY <2>1 DEF WiresTyped, SignedInd, InboxesShort
  <2> QED BY <1>1, <1>2, <1>4, <2>1, <2>2, FaultTyped DEF AgentSideKept
<1>6. ASSUME TriggerUpdate \/ ForceUpdate
      PROVE  WiresTyped' /\ SignedInd' /\ InboxesShort' /\ (Fault \/ NoFault)
  <2>1. CASE TriggerUpdate /\ UNCHANGED <<inbox, signed, faults>>
    <3>1. WiresTyped' /\ SignedInd' /\ InboxesShort'
      BY <1>1, <2>1 DEF WiresTyped, SignedInd, InboxesShort
    <3> QED BY <2>1, <3>1 DEF NoFault
  <2>2. CASE TriggerUpdate /\ Send /\ current # 0
    <3>1. /\ signed' = [signed EXCEPT ![current] = @ \cup {Body(current)}]
          /\ \/ inbox' = inbox
             \/ /\ conn # 0 /\ Len(inbox[conn]) < MaxInbox
                /\ inbox' = [inbox EXCEPT ![conn] =
                               Append(@, [version |-> current, signature |-> Body(current)])]
          /\ (Fault \/ NoFault)
      BY <2>2 DEF Send
    <3> QED BY <1>1, <2>2, <3>1, Sent
  <2>3. CASE ForceUpdate
    BY <1>1, <2>3, Sent DEF ForceUpdate
  <2>4. TriggerUpdate => UNCHANGED <<inbox, signed, faults>> \/ (Send /\ current # 0)
    BY DEF TriggerUpdate
  <2> QED BY <1>6, <2>1, <2>2, <2>3, <2>4
<1> QED BY <1>1, <1>2, <1>4, <1>5, <1>6, FaultTyped DEF AgentSideKept

LEMMA ProcessKeeps ==
  ASSUME RulesTypes, SignedInd, ReportInd, Enroll \/ StartAgent \/ CrashAgent
  PROVE  AgentSideKept /\ UNCHANGED <<server, overlap>> /\ faults' \in 0 .. MaxFaults
<1> RulesServerTyped /\ RulesAgentTyped /\ WiresTyped
  BY DEF RulesTypes
<1> USE RulesBounds DEF past, wire
<1>1. CASE Enroll
  <2>1. /\ UNCHANGED <<beats, conn, inbox, worker, up, loaded, disk, reported, signed, crossed>>
        /\ config' = current /\ blank' = TRUE /\ UNCHANGED <<server, overlap, faults>>
    BY <1>1 DEF Enroll
  <2>2. RulesAgentTyped'
    BY <2>1 DEF RulesAgentTyped, RulesServerTyped
  <2>3. WiresTyped' /\ SignedInd' /\ InboxesShort'
    BY <2>1 DEF WiresTyped, SignedInd, InboxesShort, RulesTypes
  <2>4. ReportInd'
    BY <2>1 DEF ReportInd, Loaded, Telling
  <2> QED BY <2>1, <2>2, <2>3, <2>4 DEF AgentSideKept, RulesTypes
<1>2. CASE StartAgent
  <2>1. /\ UNCHANGED <<beats, conn, inbox, worker, disk, signed, crossed, blank>>
        /\ ~up /\ up' = TRUE /\ loaded' = disk /\ UNCHANGED <<server, overlap, faults>>
        /\ reported' = (IF disk.version # 0 THEN disk.version ELSE config)
        /\ config' = (IF disk.version # 0 THEN disk.version ELSE config)
    BY <1>2 DEF StartAgent
  <2>2. RulesAgentTyped'
    BY <2>1 DEF RulesAgentTyped
  <2>3. WiresTyped' /\ InboxesShort'
    BY <2>1 DEF WiresTyped, InboxesShort, RulesTypes
  <2>4. SignedInd'
    BY <2>1 DEF SignedInd
  <2>5. \A w \in Workers : ~Loaded(w) /\ ~Telling(w)
    BY <2>1 DEF ReportInd, Loaded, Telling
  <2>6. ReportInd'
    BY <2>1, <2>5 DEF ReportInd, Loaded, Telling
  <2> QED BY <2>1, <2>2, <2>3, <2>4, <2>6 DEF AgentSideKept, RulesTypes
<1>3. CASE CrashAgent
  <2>1. /\ UNCHANGED <<beats, disk, config, signed, crossed, blank, server, overlap>>
        /\ up' = FALSE /\ conn' = 0 /\ loaded' = NoRules /\ reported' = 0 /\ Fault
        /\ inbox' = [w \in Workers |-> <<>>] /\ worker' = [w \in Workers |-> Idle]
    BY <1>3 DEF CrashAgent
  <2>2. RulesAgentTyped'
    <3>1. NoRules \in [version : 0 .. MaxTime, rules : Contents \cup {{}}]
      <4>1. {} \in Contents \cup {{}}
        OBVIOUS
      <4> QED BY <4>1 DEF NoRules
    <3>2. up' \in BOOLEAN /\ crossed' \in BOOLEAN /\ blank' \in BOOLEAN
      BY <2>1 DEF RulesAgentTyped
    <3>3. beats' \subseteq 0 .. MaxTime /\ conn' \in 0 .. 2 /\ config' \in 0 .. MaxTime /\ reported' \in 0 .. MaxTime
      BY <2>1 DEF RulesAgentTyped
    <3>4. {loaded, disk}' \subseteq [version : 0 .. MaxTime, rules : Contents \cup {{}}]
      BY <2>1, <3>1 DEF RulesAgentTyped
    <3> QED BY <3>2, <3>3, <3>4 DEF RulesAgentTyped
  <2>3. WiresTyped' /\ InboxesShort'
    BY <2>1 DEF WiresTyped, InboxesShort, Idle, MaxInbox
  <2>4. SignedInd'
    BY <2>1 DEF SignedInd, NoRules, Idle
  <2>5. ReportInd'
    BY <2>1 DEF ReportInd, Loaded, Telling, NoRules, Idle
  <2> QED BY <2>1, <2>2, <2>3, <2>4, <2>5, FaultTyped DEF AgentSideKept, RulesTypes
<1> QED BY <1>1, <1>2, <1>3

\* One worker takes a step.
LEMMA WorkerMoves ==
  ASSUME WiresTyped, NEW w \in Workers, NEW pc \in {"load", "persist", "report", "save"},
         NEW v \in 0 .. MaxTime, NEW b \in Contents \cup {{}}, SetWorker(w, pc, v, b), inbox' = inbox, signed' = signed
  PROVE  /\ WiresTyped'
         /\ worker'[w] = [pc |-> pc, version |-> v, body |-> b]
         /\ \A x \in Workers \ {w} : worker'[x] = worker[x]
<1>1. /\ worker'[w] = [pc |-> pc, version |-> v, body |-> b]
      /\ \A x \in Workers \ {w} : worker'[x] = worker[x]
  BY DEF SetWorker, WiresTyped
<1>2. worker' \in [Workers -> [pc : {"idle", "load", "persist", "report", "save"},
                               version : 0 .. MaxTime, body : Contents \cup {{}}]]
  BY DEF SetWorker, WiresTyped
<1>3. ASSUME NEW x \in Workers, worker'[x].pc = "idle"
      PROVE  worker'[x] = Idle
  <2>1. worker'[w].pc = pc
    BY <1>1
  <2>2. x # w
    BY <1>3, <2>1
  <2> QED BY <1>1, <1>3, <2>2 DEF WiresTyped
<1> QED BY <1>1, <1>2, <1>3 DEF WiresTyped

LEMMA WorkerKeeps ==
  ASSUME RulesTypes, SignedInd, ReportInd, NEW w \in Workers,
         LoadRules(w) \/ PersistRules(w) \/ Report(w) \/ SaveConfig(w)
  PROVE  AgentSideKept /\ UNCHANGED <<server, overlap>> /\ faults' \in 0 .. MaxFaults
<1> RulesServerTyped /\ RulesAgentTyped /\ WiresTyped /\ InboxesShort
  BY DEF RulesTypes, InboxesShort
<1> USE RulesBounds DEF past, wire
<1> DEFINE v == worker[w].version
           b == worker[w].body
<1>1. v \in 0 .. MaxTime /\ b \in Contents \cup {{}} /\ {} \in Contents \cup {{}}
  BY DEF WiresTyped
<1>2. UNCHANGED <<beats, conn, inbox, up, signed, server, overlap>> /\ up /\ (Fault \/ NoFault)
  BY DEF LoadRules, PersistRules, Report, SaveConfig, NoFault
<1>3. InboxesShort'
  BY <1>2 DEF InboxesShort
<1>4. worker[w].pc # "idle" => v # 0
  BY DEF SignedInd
<1>5. CASE LoadRules(w)
  <2>1. /\ worker[w].pc = "load" /\ SetWorker(w, "persist", v, b)
        /\ loaded' = [version |-> v, rules |-> b]
        /\ crossed' = (crossed \/ \E x \in Workers \ {w} : worker[x] # Idle)
        /\ UNCHANGED <<disk, config, reported, blank>>
    BY <1>5 DEF LoadRules
  <2> HIDE DEF v, b
  <2>2. /\ WiresTyped' /\ worker'[w] = [pc |-> "persist", version |-> v, body |-> b]
        /\ \A x \in Workers \ {w} : worker'[x] = worker[x]
    BY <1>1, <1>2, <2>1, WorkerMoves
  <2>3. RulesAgentTyped'
    BY <1>1, <1>2, <2>1 DEF RulesAgentTyped
  <2>4. SignedAs(signed, v, b)
    BY <2>1 DEF SignedInd, v, b
  <2>5. SignedInd'
    BY <1>2, <1>4, <2>1, <2>2, <2>4 DEF SignedInd
  <2>0. Idle.pc = "idle"
    BY DEF Idle
  <2>6. ~crossed' => \A x \in Workers \ {w} : worker[x].pc = "idle"
    BY <2>0, <2>1
  <2>7. ReportInd'
    BY <1>2, <1>4, <2>1, <2>2, <2>6 DEF ReportInd, Loaded, Telling
  <2> QED BY <1>2, <1>3, <2>2, <2>3, <2>5, <2>7, FaultTyped DEF AgentSideKept, RulesTypes
<1>6. CASE PersistRules(w)
  <2>1. /\ worker[w].pc = "persist" /\ SetWorker(w, "report", v, {})
        /\ \/ disk' = [version |-> v, rules |-> b] /\ blank' = blank
           \/ disk' = disk /\ blank' = TRUE
        /\ UNCHANGED <<loaded, config, reported, crossed>>
    BY <1>6 DEF PersistRules
  <2> HIDE DEF v, b
  <2>2. /\ WiresTyped' /\ worker'[w] = [pc |-> "report", version |-> v, body |-> {}]
        /\ \A x \in Workers \ {w} : worker'[x] = worker[x]
    <3> DEFINE e == {}
    <3>1. e \in Contents \cup {{}}
      OBVIOUS
    <3>2. SetWorker(w, "report", v, e) /\ inbox' = inbox /\ signed' = signed
      BY <1>2, <2>1
    <3> HIDE DEF e
    <3>3. WiresTyped' /\ worker'[w] = [pc |-> "report", version |-> v, body |-> e]
          /\ \A x \in Workers \ {w} : worker'[x] = worker[x]
      BY <1>1, <3>1, <3>2, WorkerMoves
    <3> QED BY <3>3 DEF e
  <2>3. RulesAgentTyped'
    <3>1. [version |-> v, rules |-> b] \in [version : 0 .. MaxTime, rules : Contents \cup {{}}]
      BY <1>1
    <3>2. disk' \in [version : 0 .. MaxTime, rules : Contents \cup {{}}] /\ blank' \in BOOLEAN
      BY <2>1, <3>1 DEF RulesAgentTyped
    <3> QED BY <1>2, <2>1, <3>2 DEF RulesAgentTyped
  <2>4. SignedAs(signed, v, b)
    BY <2>1 DEF SignedInd, v, b
  <2>5. SignedInd'
    BY <1>2, <1>4, <2>1, <2>2, <2>4 DEF SignedInd
  <2>6. disk'.version # 0 \/ blank'
    BY <1>4, <2>1
  <2>7. disk.version # 0 \/ blank => disk'.version # 0 \/ blank'
    BY <1>4, <2>1
  <2>8. /\ blank => blank'
        /\ \A x \in Workers : (Loaded(x)' <=> Loaded(x)) /\ (Telling(x)' <=> Telling(x))
        /\ \A x \in Workers : worker'[x].version = worker[x].version
    BY <2>1, <2>2 DEF Loaded, Telling, v
  <2>9. ReportInd'
    <3>1. /\ \A x \in Workers : Loaded(x)' => up' /\ loaded'.version # 0
          /\ \A x \in Workers : worker'[x].pc \in {"report", "save"} => disk'.version # 0 \/ blank'
          /\ config' # 0 => disk'.version # 0 \/ blank'
          /\ loaded'.version = 0 /\ reported' # 0 => blank'
      BY <1>2, <2>1, <2>6, <2>8 DEF ReportInd
    <3>2. ~crossed' =>
           /\ \A x, y \in Workers : Loaded(x)' /\ Loaded(y)' => x = y
           /\ \A x \in Workers : Telling(x)' => worker'[x].version = loaded'.version
           /\ loaded'.version # 0 /\ (\A x \in Workers : ~Telling(x)') => reported' = loaded'.version
      BY <2>1, <2>8 DEF ReportInd
    <3> QED BY <3>1, <3>2 DEF ReportInd
  <2> QED BY <1>2, <1>3, <2>2, <2>3, <2>5, <2>9, FaultTyped DEF AgentSideKept, RulesTypes
<1>7. CASE Report(w)
  <2>1. /\ worker[w].pc = "report" /\ SetWorker(w, "save", v, {}) /\ reported' = v
        /\ UNCHANGED <<loaded, disk, config, crossed, blank>>
    BY <1>7 DEF Report
  <2> HIDE DEF v, b
  <2>2. /\ WiresTyped' /\ worker'[w] = [pc |-> "save", version |-> v, body |-> {}]
        /\ \A x \in Workers \ {w} : worker'[x] = worker[x]
    <3> DEFINE e == {}
    <3>1. e \in Contents \cup {{}}
      OBVIOUS
    <3>2. SetWorker(w, "save", v, e) /\ inbox' = inbox /\ signed' = signed
      BY <1>2, <2>1
    <3> HIDE DEF e
    <3>3. WiresTyped' /\ worker'[w] = [pc |-> "save", version |-> v, body |-> e]
          /\ \A x \in Workers \ {w} : worker'[x] = worker[x]
      BY <1>1, <3>1, <3>2, WorkerMoves
    <3> QED BY <3>3 DEF e
  <2>3. RulesAgentTyped'
    BY <1>1, <1>2, <2>1 DEF RulesAgentTyped
  <2>4. SignedInd'
    BY <1>2, <1>4, <2>1, <2>2 DEF SignedInd
  <2>5. Loaded(w) /\ Telling(w) /\ loaded.version # 0
    BY <2>1 DEF ReportInd, Loaded, Telling
  <2>6. ~crossed => v = loaded.version
    BY <2>5 DEF ReportInd, v
  <2>7. ReportInd'
    BY <1>2, <2>1, <2>2, <2>5, <2>6 DEF ReportInd, Loaded, Telling
  <2> QED BY <1>2, <1>3, <2>2, <2>3, <2>4, <2>7, FaultTyped DEF AgentSideKept, RulesTypes
<1>8. CASE SaveConfig(w)
  <2>1. /\ worker[w].pc = "save" /\ worker' = [worker EXCEPT ![w] = Idle]
        /\ config' \in {v, config}
        /\ UNCHANGED <<loaded, disk, reported, crossed, blank>>
    BY <1>8 DEF SaveConfig
  <2> HIDE DEF v, b
  <2>2. worker'[w] = Idle /\ \A x \in Workers \ {w} : worker'[x] = worker[x]
    BY <2>1 DEF WiresTyped
  <2>3. WiresTyped'
    <3>1. Idle \in [pc : {"idle", "load", "persist", "report", "save"},
                    version : 0 .. MaxTime, body : Contents \cup {{}}]
      BY DEF Idle
    <3> QED BY <1>2, <2>1, <2>2, <3>1 DEF WiresTyped
  <2>4. RulesAgentTyped'
    BY <1>1, <1>2, <2>1 DEF RulesAgentTyped
  <2>5. SignedInd'
    BY <1>2, <2>1, <2>2 DEF SignedInd, Idle
  <2>6. disk.version # 0 \/ blank
    BY <2>1 DEF ReportInd
  <2>7. ReportInd'
    BY <1>2, <2>1, <2>2, <2>6 DEF ReportInd, Loaded, Telling, Idle
  <2> QED BY <1>2, <1>3, <2>3, <2>4, <2>5, <2>7, FaultTyped DEF AgentSideKept, RulesTypes
<1> QED BY <1>5, <1>6, <1>7, <1>8

\* A command is taken, and its pack downloaded.
LEMMA HandleKeeps ==
  ASSUME RulesTypes, SignedInd, ReportInd, NEW w \in Workers, HandleRuleUpdate(w)
  PROVE  AgentSideKept /\ UNCHANGED <<server, overlap>> /\ faults' \in 0 .. MaxFaults
<1> RulesServerTyped /\ RulesAgentTyped /\ WiresTyped /\ InboxesShort
  BY DEF RulesTypes, InboxesShort
<1> USE RulesBounds DEF past
<1> DEFINE req == Head(inbox[w])
<1>1. /\ UNCHANGED <<beats, conn, up, loaded, disk, config, reported, signed, crossed, blank, server, overlap>>
      /\ worker[w] = Idle /\ inbox[w] # <<>> /\ (Fault \/ NoFault)
      /\ inbox' = [inbox EXCEPT ![w] = Tail(@)]
  BY DEF HandleRuleUpdate
<1>2. \/ UNCHANGED worker
      \/ DownloadPack(req.version) = req.signature /\ SetWorker(w, "load", req.version, req.signature)
  BY DEF HandleRuleUpdate
<1>3. inbox[w] \in Seq(Message)
  BY DEF WiresTyped
<1>4. /\ req \in Message /\ 1 \in DOMAIN inbox[w] /\ req = inbox[w][1]
      /\ Tail(inbox[w]) \in Seq(Message) /\ Len(Tail(inbox[w])) <= Len(inbox[w])
      /\ \A i \in DOMAIN Tail(inbox[w]) : i + 1 \in DOMAIN inbox[w] /\ Tail(inbox[w])[i] = inbox[w][i + 1]
  BY <1>1, <1>3
<1> HIDE DEF req
<1>5. /\ inbox'[w] = Tail(inbox[w]) /\ \A x \in Workers \ {w} : inbox'[x] = inbox[x]
      /\ inbox' \in [Workers -> Seq(Message)]
  BY <1>1, <1>4 DEF WiresTyped
<1>6. InboxesShort'
  <2>1. Len(inbox[w]) \in Nat /\ Len(Tail(inbox[w])) \in Nat /\ Len(inbox[w]) <= MaxInbox
    BY <1>3, <1>4 DEF InboxesShort
  <2>2. Len(inbox'[w]) <= MaxInbox
    BY <1>4, <1>5, <2>1 DEF MaxInbox
  <2> QED BY <1>5, <2>2 DEF InboxesShort
<1>7. SignedAs(signed, req.version, req.signature) /\ req.version \in Versions
      /\ req.signature \in Contents \cup {{}}
  BY <1>4 DEF SignedInd, Message
<1>8. \A x \in Workers : \A i \in DOMAIN inbox'[x] : SignedAs(signed, inbox'[x][i].version, inbox'[x][i].signature)
  <2>1. \A i \in DOMAIN inbox[w] : SignedAs(signed, inbox[w][i].version, inbox[w][i].signature)
    BY DEF SignedInd
  <2>2. \A i \in DOMAIN inbox'[w] : SignedAs(signed, inbox'[w][i].version, inbox'[w][i].signature)
    BY <1>4, <1>5, <2>1
  <2> QED BY <1>5, <2>2 DEF SignedInd
<1>9. /\ \A x \in Workers \ {w} : worker'[x] = worker[x]
      /\ \/ worker'[w] = worker[w]
         \/ worker'[w] = [pc |-> "load", version |-> req.version, body |-> req.signature]
  BY <1>2 DEF SetWorker, WiresTyped
<1>10. WiresTyped'
  <2>1. worker' \in [Workers -> [pc : {"idle", "load", "persist", "report", "save"},
                                 version : 0 .. MaxTime, body : Contents \cup {{}}]]
    <3>1. [pc |-> "load", version |-> req.version, body |-> req.signature]
            \in [pc : {"idle", "load", "persist", "report", "save"},
                version : 0 .. MaxTime, body : Contents \cup {{}}]
      BY <1>7
    <3> QED BY <1>2, <3>1 DEF SetWorker, WiresTyped
  <2>2. \A x \in Workers : worker'[x].pc = "idle" => worker'[x] = Idle
    <3>1. ~([pc |-> "load", version |-> req.version, body |-> req.signature].pc = "idle")
      OBVIOUS
    <3> QED BY <1>9, <3>1 DEF WiresTyped
  <2> QED BY <1>1, <1>5, <2>1, <2>2 DEF WiresTyped
<1>11. RulesAgentTyped'
  BY <1>1 DEF RulesAgentTyped
<1>12. SignedInd'
  BY <1>1, <1>7, <1>8, <1>9 DEF SignedInd
<1>13. \A x \in Workers : /\ Loaded(x)' <=> Loaded(x)
                          /\ Telling(x)' <=> Telling(x)
                          /\ Telling(x) => worker'[x] = worker[x]
                          /\ worker'[x].pc \in {"report", "save"} => worker'[x] = worker[x]
  BY <1>1, <1>9 DEF Loaded, Telling, Idle
<1>14. ReportInd'
  BY <1>1, <1>13 DEF ReportInd
<1> QED BY <1>1, <1>6, <1>10, <1>11, <1>12, <1>14, FaultTyped DEF AgentSideKept, RulesTypes

-----------------------------------------------------------------------------
(* The theorem *)

LEMMA RulesStart == Init => RulesInd
<1> SUFFICES ASSUME Init PROVE RulesInd
  OBVIOUS
<1> USE RulesBounds DEF Init
<1>1. 1 \in Versions
  BY DEF Versions
<1>2. RulesServerTyped
  BY <1>1 DEF RulesServerTyped
<1>3. RulesAgentTyped
  <2>1. NoRules \in [version : 0 .. MaxTime, rules : Contents \cup {{}}]
    <3>1. {} \in Contents \cup {{}}
      OBVIOUS
    <3> QED BY <3>1 DEF NoRules
  <2>2. beats \subseteq 0 .. MaxTime /\ conn \in 0 .. 2 /\ config \in 0 .. MaxTime /\ reported \in 0 .. MaxTime
    OBVIOUS
  <2>3. up \in BOOLEAN /\ crossed \in BOOLEAN /\ blank \in BOOLEAN
    OBVIOUS
  <2>4. {loaded, disk} \subseteq [version : 0 .. MaxTime, rules : Contents \cup {{}}]
    BY <2>1
  <2> QED BY <2>2, <2>3, <2>4 DEF RulesAgentTyped
<1>4. WiresTyped
  BY DEF WiresTyped, Idle, Message
<1>5. RulesTypes
  BY <1>2, <1>3, <1>4 DEF RulesTypes, MaxInbox
<1>6. PublishedInd /\ NewestInd
  BY DEF PublishedInd, NewestInd, Active, NonEmpty
<1>7. SignedInd
  BY DEF SignedInd, NoRules, Idle
<1>8. ReportInd
  BY DEF ReportInd, Loaded, Telling, NoRules, Idle
<1> QED BY <1>5, <1>6, <1>7, <1>8, RulesParts DEF RulesInd

LEMMA RulesStable == RulesInd /\ [Next]_vars => RulesInd'
<1> SUFFICES ASSUME RulesInd, [Next]_vars PROVE RulesInd'
  OBVIOUS
<1> RulesTypes /\ PublishedInd /\ NewestInd /\ SignedInd /\ ReportInd
  BY RulesParts DEF RulesInd
<1>1. ASSUME AgentSideKept, UNCHANGED <<server, overlap>>, faults' \in 0 .. MaxFaults
      PROVE  RulesInd'
  <2>1. RulesServerTyped' /\ PublishedInd' /\ NewestInd'
    BY <1>1, ServerStays DEF RulesTypes
  <2>2. RulesTypes'
    BY <1>1, <2>1 DEF RulesTypes, AgentSideKept, InboxesShort
  <2> QED BY <1>1, <2>1, <2>2, RulesParts DEF RulesInd, AgentSideKept
<1>2. CASE UNCHANGED vars
  <2>1. UNCHANGED <<wire, agent, signed, crossed, blank>> /\ UNCHANGED <<server, overlap, faults, inbox>>
    BY <1>2 DEF vars, past, wire
  <2>2. AgentSideKept
    BY <2>1, AgentStays DEF AgentSideKept, RulesTypes, InboxesShort
  <2> QED BY <1>1, <2>1, <2>2 DEF RulesTypes
<1>3. CASE PublishStep
  <2>1. UNCHANGED <<wire, agent, signed, crossed, blank>> /\ faults' \in 0 .. MaxFaults
    BY <1>3, PublishFrame DEF RulesTypes
  <2>2. RulesAgentTyped' /\ WiresTyped' /\ SignedInd' /\ ReportInd' /\ inbox' = inbox
    BY <2>1, AgentStays DEF RulesTypes, wire
  <2>3. RulesServerTyped' /\ PublishedInd' /\ NewestInd'
    BY <1>3, PublishKeeps
  <2>4. RulesTypes'
    BY <2>1, <2>2, <2>3 DEF RulesTypes
  <2> QED BY <2>2, <2>3, <2>4, RulesParts DEF RulesInd
<1>4. CASE Heartbeat \/ TriggerUpdate \/ ForceUpdate \/ Connect \/ Disconnect
  BY <1>1, <1>4, LinkKeeps
<1>5. CASE Enroll \/ StartAgent \/ CrashAgent
  BY <1>1, <1>5, ProcessKeeps
<1>6. ASSUME NEW w \in Workers, LoadRules(w) \/ PersistRules(w) \/ Report(w) \/ SaveConfig(w)
      PROVE  RulesInd'
  BY <1>1, <1>6, WorkerKeeps
<1>7. ASSUME NEW w \in Workers, HandleRuleUpdate(w)
      PROVE  RulesInd'
  BY <1>1, <1>7, HandleKeeps
<1> QED BY <1>2, <1>3, <1>4, <1>5, <1>6, <1>7 DEF Next, PublishStep, FetchStep

LEMMA RulesMean == RulesInd => RulesInv
<1> SUFFICES ASSUME RulesInd PROVE RulesInv
  OBVIOUS
<1>1. PointerIsNewest
  <2>1. current # 0 => packs[current] # {}
    BY DEF RulesInd, PublishedInd, NonEmpty
  <2>2. (\A c \in Calls : ~Active(c)) => \A c \in Calls : call[c].pc # "point"
    BY DEF Active
  <2>3. ~overlap /\ (\A c \in Calls : ~Active(c)) => \A v \in Versions : packs[v] # {} => v <= current
    BY <2>2 DEF RulesInd, NewestInd, NonEmpty
  <2> QED BY <2>1, <2>3 DEF PointerIsNewest
<1>2. OnlySignedRules
  BY DEF RulesInd, SignedInd, SignedAs, OnlySignedRules
<1>3. (\A w \in Workers : worker[w] = Idle) => \A w \in Workers : ~Telling(w)
  BY DEF Telling, Idle
<1>4. ReportIsLoaded
  BY <1>3 DEF RulesInd, ReportInd, ReportIsLoaded
<1> QED BY <1>1, <1>2, <1>4 DEF RulesInv, RulesInd

\* The pointer names a stored pack, the newest when publications follow each
\* other; an agent's rules were signed under their version; and what it reports
\* is what it runs.  (_publish_pack, HandleRuleUpdate, OnRuleUpdate)
THEOREM RulesInvHolds == Spec => []RulesInv
<1>1. RulesInd /\ [Next]_vars => RulesInd'
  BY RulesStable
<1> QED BY <1>1, RulesStart, RulesMean, PTL DEF Spec

=============================================================================
