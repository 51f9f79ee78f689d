-------------------------------- MODULE Fleet --------------------------------
(***************************************************************************)
(* The hosts the console manages: enrolment with a token of limited uses,  *)
(* the credential of each agent, online and offline, groups,               *)
(* decommissioning and purging.  A host has a row in PostgreSQL, which     *)
(* counts, and a document in Elasticsearch, which mirrors it, is read when *)
(* PostgreSQL has nothing to say, and is what the offline sweep searches.  *)
(* No call holds a lock or a transaction over more than one write: a call  *)
(* is the list of the writes it still has to make, all to one host at a    *)
(* time, and the hosts it has still to come to; calls interleave between   *)
(* any two writes.                                                         *)
(***************************************************************************)
EXTENDS Integers, Sequences, FiniteSets

CONSTANTS
  Hosts,     \* agent ids, one for each enrolment ever begun
  Ips,       \* addresses hosts enrol from
  Admins,    \* requests of operators that may be under way at once
  Sweepers,  \* API workers: each runs the offline check
  Grouped,   \* whether the enrolment token names the group
  Uses,      \* uses the enrolment token is created with
  MaxFaults, \* bound: writes that fail, and calls that die
  MaxOps,    \* bound: requests of operators
  MaxBusy    \* bound: calls under way at once

ASSUME FleetAssumption ==
  /\ IsFiniteSet(Hosts) /\ IsFiniteSet(Ips)
  /\ Hosts \cap Admins = {} /\ Hosts \cap Sweepers = {} /\ Admins \cap Sweepers = {}
  /\ Grouped \in BOOLEAN
  /\ Uses \in Nat \ {0} /\ MaxFaults \in Nat /\ MaxOps \in Nat /\ MaxBusy \in Nat

Procs == Hosts \cup Admins \cup Sweepers

VARIABLES
  left,     \* uses_remaining of the enrolment token, -1 once the row is gone
  pg,       \* status in the row of each host
  es,       \* status in the document of each host
  member,   \* hosts with the group in their row
  fresh,    \* hosts whose last_heartbeat is recent, in both stores
  cred,     \* agent_tokens of each host
  group,    \* the row of the group in host_groups is there
  link,     \* hosts with a WebSocket
  todo,     \* what the call of each process has still to write, and for which host
  coming,   \* hosts the loop in the call of each process has still to come to
  stage,    \* how far each host is: "new", "enrolling", "out" or "in"
  addr,     \* address each host gave, and the one it was seen to call from
  earlier,  \* history: hosts that were in when the host began to enrol
  loose,    \* history: hosts a write for which failed, or for which two calls
            \* had writes to make at the same time
  strays,   \* history: hosts a deletion of the group did not or could not count
  unreached,\* history: hosts written offline because an upgrade did not reach them
  quiet,    \* history: hosts that were retired with nothing under way
  ops,      \* history: requests of operators so far
  faults    \* history: failures so far

store == <<left, pg, es, fresh, cred, member, group>>
past  == <<earlier, strays, unreached>>
calls == <<todo, coming>>
fleetVars  == <<store, link, calls, stage, addr, past, quiet, loose, ops, faults>>

Status == {"none", "online", "offline", "decommissioned"}
Names  == {"pg", "es", "keys", "revoke", "revokeOnly", "drop", "dropEs", "spend", "dedup",
           "save", "saveEs", "token", "expire", "search", "count", "ungroup"}
Calls  == [writes : Seq(Names), host : Procs, st : Status \cup {"same", "join", "leave"}]

FleetTypeOK ==
  /\ left \in -1 .. Uses
  /\ pg \in [Hosts -> Status] /\ es \in [Hosts -> Status]
  /\ fresh \subseteq Hosts /\ member \subseteq Hosts
  /\ cred \in [Hosts -> {"none", "active", "revoked"}]
  /\ group \in BOOLEAN /\ link \subseteq Hosts
  /\ todo \in [Procs -> Calls] /\ coming \in [Procs -> SUBSET Hosts]
  /\ stage \in [Hosts -> {"new", "enrolling", "out", "in"}]
  /\ addr \in [Hosts -> [said : Ips, seen : Ips]]
  /\ earlier \in [Hosts -> SUBSET Hosts]
  /\ strays \subseteq Hosts /\ unreached \subseteq Hosts
  /\ quiet \subseteq Hosts /\ loose \subseteq Hosts /\ ops \in 0 .. MaxOps /\ faults \in 0 .. MaxFaults

----------------------------------------------------------------------------
(* The writes a call consists of *)

Call(writes, h, s) == [writes |-> writes, host |-> h, st |-> s]
NoCall(p) == Call(<<>>, p, "same")

\* update_host: PostgreSQL, then Elasticsearch.
Update(h, s) == Call(<<"pg", "es">>, h, s)

\* decommission_host
Retire(h) == Call(<<"pg", "es", "keys", "revoke">>, h, "decommissioned")

\* The end of api_enroll_host
Admit(h) == Call(<<"save", "saveEs", "token">>, h, "same")

Idle(p) == todo[p].writes = <<>>
Free(p) == Idle(p) /\ Cardinality({q \in Procs : ~Idle(q)}) < MaxBusy
At(p, what) == ~Idle(p) /\ Head(todo[p].writes) = what
Target(p) == todo[p].host

Then(p, c) == todo' = [todo EXCEPT ![p] = c] /\ coming' = [coming EXCEPT ![p] = {}]

\* What a call does for each host of a loop, and after the loop.
Body(p, h) == IF p \in Hosts THEN Retire(h) ELSE Update(h, "offline")
After(p) == IF p \in Hosts /\ stage[p] = "enrolling" THEN Admit(p) ELSE NoCall(p)

\* It comes to the hosts of S in any order.
Loop(p, S) ==
  \/ S = {} /\ Then(p, After(p))
  \/ \E h \in S : /\ todo' = [todo EXCEPT ![p] = Body(p, h)]
                 /\ coming' = [coming EXCEPT ![p] = S \ {h}]

Rest(p) == IF Len(todo[p].writes) = 1 THEN Loop(p, coming[p])
           ELSE todo' = [todo EXCEPT ![p].writes = Tail(@)] /\ coming' = coming

FleetInit ==
  /\ left = Uses /\ group = TRUE
  /\ pg = [h \in Hosts |-> "none"] /\ es = [h \in Hosts |-> "none"]
  /\ fresh = {} /\ member = {}
  /\ cred = [h \in Hosts |-> "none"] /\ link = {}
  /\ todo = [p \in Procs |-> NoCall(p)] /\ coming = [p \in Procs |-> {}]
  /\ stage = [h \in Hosts |-> "new"]
  /\ addr \in [Hosts -> [said : Ips, seen : Ips]]
  /\ earlier = [h \in Hosts |-> {}]
  /\ strays = {} /\ unreached = {} /\ quiet = {} /\ loose = {}
  /\ ops = 0 /\ faults = 0

Fault == faults < MaxFaults /\ faults' = faults + 1
Operator == ops < MaxOps /\ ops' = ops + 1

----------------------------------------------------------------------------
(* Enrolment *)

\* A token that is used up, expired or gone turns the host away.
BeginEnroll(h) ==
  /\ stage[h] = "new" /\ Free(h) /\ left > 0
  /\ stage' = [stage EXCEPT ![h] = "enrolling"]
  /\ earlier' = [earlier EXCEPT ![h] = {g \in Hosts : stage[g] = "in"}]
  /\ Then(h, Call(<<"spend", "dedup">>, h, "same"))
  /\ UNCHANGED <<store, link, addr, strays, unreached, ops, faults>>

\* The row may have lost its last use since it was read: the call goes on.
Spend(p) ==
  /\ At(p, "spend") /\ Rest(p)
  /\ left' = IF left > 1 THEN left - 1 ELSE -1
  /\ UNCHANGED <<member, pg, fresh, es, cred, group, link, stage, addr, past, ops, faults>>

\* Defect: the row the address was given with is not compared.
DedupNothing(p) ==
  /\ At(p, "dedup")
  /\ Then(p, Admit(p))
  /\ UNCHANGED <<store, link, stage, addr, past, ops, faults>>

SameIp(h) == {g \in Hosts : pg[g] \in {"online", "offline"} /\ addr[g].said = addr[h].seen}

\* decommission_host_by_ip
Dedup(p) ==
  /\ At(p, "dedup") /\ Loop(p, SameIp(p))
  /\ UNCHANGED <<store, link, stage, addr, past, ops, faults>>

\* The token brings its group, whether or not there is one by now.
Deleting == \E p \in Admins : At(p, "ungroup")
Joins(h) == IF group /\ ~Deleting THEN strays ELSE strays \cup {h}

Save(p) ==
  /\ At(p, "save") /\ Rest(p)
  /\ pg' = [pg EXCEPT ![p] = "online"]
  /\ member' = IF Grouped THEN member \cup {p} ELSE member
  /\ strays' = IF Grouped THEN Joins(p) ELSE strays
  /\ fresh' = fresh \cup {p}
  /\ UNCHANGED <<left, es, cred, group, link, stage, addr, earlier, unreached, ops, faults>>

SaveEs(p) ==
  /\ At(p, "saveEs") /\ Rest(p)
  /\ es' = [es EXCEPT ![p] = "online"]
  /\ UNCHANGED <<member, left, fresh, pg, cred, group, link, stage, addr, past, ops, faults>>

Token(p) ==
  /\ At(p, "token") /\ Then(p, NoCall(p))
  /\ cred' = [cred EXCEPT ![p] = "active"] /\ stage' = [stage EXCEPT ![p] = "in"]
  /\ UNCHANGED <<member, left, fresh, pg, es, group, link, addr, past, ops, faults>>

----------------------------------------------------------------------------
(* Writes of update_host, delete_host and revoke_agent *)

\* A change of group leaves the status as it is; a host that is gone is not put back.
Written(was, s) == IF was = "none" \/ s \notin Status THEN was ELSE s

WritePg(p) ==
  /\ At(p, "pg") /\ Rest(p)
  /\ LET w == todo[p] IN
     /\ pg' = [pg EXCEPT ![w.host] = Written(@, w.st)]
     /\ member' = CASE w.st = "join" /\ pg[w.host] # "none" -> member \cup {w.host}
                    [] w.st = "leave" -> member \ {w.host}
                    [] OTHER -> member
     /\ fresh' = IF w.st = "online" THEN fresh \cup {w.host} ELSE fresh
     /\ strays' = IF w.st = "join" THEN Joins(w.host) ELSE strays
     /\ unreached' = IF p \in Admins /\ w.st = "offline" THEN unreached \cup {w.host} ELSE unreached
  /\ UNCHANGED <<left, es, cred, group, link, stage, addr, earlier, ops, faults>>

WriteEs(p) ==
  /\ At(p, "es") /\ Rest(p)
  /\ es' = [es EXCEPT ![Target(p)] = Written(@, todo[p].st)]
  /\ UNCHANGED <<member, left, fresh, pg, cred, group, link, stage, addr, past, ops, faults>>

DropPg(p) ==
  /\ At(p, "drop") /\ Rest(p)
  /\ pg' = [pg EXCEPT ![Target(p)] = "none"]
  /\ member' = member \ {Target(p)}
  /\ UNCHANGED <<left, fresh, es, cred, group, link, stage, addr, past, ops, faults>>

DropEs(p) ==
  /\ At(p, "dropEs") /\ Rest(p)
  /\ es' = [es EXCEPT ![Target(p)] = "none"]
  /\ UNCHANGED <<member, left, fresh, pg, cred, group, link, stage, addr, past, ops, faults>>

\* The online mark and the route in Redis: Gateway.
Keys(p) ==
  /\ At(p, "keys") /\ Rest(p)
  /\ UNCHANGED <<store, link, stage, addr, past, ops, faults>>

Revoke(p) ==
  /\ At(p, "revoke") \/ At(p, "revokeOnly")
  /\ Rest(p)
  /\ LET h == Target(p) IN
     /\ cred' = [cred EXCEPT ![h] = IF @ = "active" THEN "revoked" ELSE @]
     /\ link' = link \ {h}
  /\ UNCHANGED <<member, left, fresh, pg, es, group, stage, addr, past, ops, faults>>

Tolerated == {"pg", "es", "drop", "dropEs", "saveEs", "revoke", "expire"}

\* A failed write that update_host, delete_host, save_host, decommission_host or
\* mark_offline_expired logs and leaves at that.
WriteFails(p) ==
  /\ \E what \in Tolerated : At(p, what)
  /\ Rest(p) /\ Fault
  /\ UNCHANGED <<store, link, stage, addr, past, ops>>

\* A failure that ends the call.  In an enrolment that was clearing out others
\* it ends the clearing.
CallFails(p) ==
  /\ \E what \in Names \ Tolerated : At(p, what)
  /\ Fault
  /\ IF p \in Hosts /\ (At(p, "keys") \/ At(p, "dedup"))
     THEN Then(p, Admit(p)) /\ stage' = stage
     ELSE /\ Then(p, NoCall(p))
          /\ stage' = IF p \in Hosts /\ stage[p] = "enrolling" THEN [stage EXCEPT ![p] = "out"] ELSE stage
  /\ UNCHANGED <<store, link, addr, past, ops>>

----------------------------------------------------------------------------
(* The agent *)

\* register_online behind an authenticated handshake
Connect(h) ==
  /\ stage[h] = "in" /\ Free(h) /\ h \notin link /\ cred[h] = "active"
  /\ link' = link \cup {h} /\ Then(h, Update(h, "online"))
  /\ UNCHANGED <<store, stage, addr, past, ops, faults>>

\* It leaves the status as it is.
Heartbeat(h) ==
  /\ h \in link /\ pg[h] # "none"
  /\ fresh' = fresh \cup {h}
  /\ UNCHANGED <<member, left, pg, es, cred, group, link, calls, stage, addr, past, ops, faults>>

HangUp(h) ==
  /\ h \in link /\ link' = link \ {h}
  /\ UNCHANGED <<store, calls, stage, addr, past, ops, faults>>

\* Two intervals and 30 s without a heartbeat.
Age(h) ==
  /\ h \in fresh /\ fresh' = fresh \ {h}
  /\ IF h \in link THEN Fault ELSE faults' = faults
  /\ UNCHANGED <<member, left, pg, es, cred, group, link, calls, stage, addr, past, ops>>

----------------------------------------------------------------------------
(* The sweep for silent hosts *)

Silent(table) == {h \in Hosts : table[h] = "online" /\ h \notin fresh}

BeginSweep(p) ==
  /\ p \in Sweepers /\ Free(p) /\ Silent(pg) \cup Silent(es) # {}
  /\ Then(p, Call(<<"expire", "search">>, p, "same"))
  /\ UNCHANGED <<store, link, stage, addr, past, ops, faults>>

Expire(p) ==
  /\ At(p, "expire") /\ Rest(p)
  /\ pg' = [h \in Hosts |-> IF h \in Silent(pg) THEN "offline" ELSE pg[h]]
  /\ UNCHANGED <<member, left, fresh, es, cred, group, link, stage, addr, past, ops, faults>>

\* What Elasticsearch finds is written to both, whatever PostgreSQL says by then.
Search(p) ==
  /\ At(p, "search") /\ Loop(p, Silent(es))
  /\ UNCHANGED <<store, link, stage, addr, past, ops, faults>>

----------------------------------------------------------------------------
(* Operators *)

\* get_host: the document stands in for a row that is not there.
Found(h) == IF pg[h] # "none" THEN pg[h] ELSE es[h]

\* Deleting a host retires it and revokes its credential once more.
Decommission(p, h) ==
  /\ p \in Admins /\ Free(p) /\ Operator /\ Found(h) # "none"
  /\ Then(p, [Retire(h) EXCEPT !.writes = Append(@, "revokeOnly")])
  /\ UNCHANGED <<store, link, stage, addr, past, faults>>

Purge(p, h) ==
  /\ p \in Admins /\ Free(p) /\ Operator /\ Found(h) = "decommissioned"
  /\ Then(p, Call(<<"drop", "dropEs", "keys", "revoke">>, h, "same"))
  /\ UNCHANGED <<store, link, stage, addr, past, faults>>

\* An upgrade that reached nobody writes the host offline, whatever it was.
Upgrade(p, h) ==
  /\ p \in Admins /\ Free(p) /\ Operator /\ Found(h) # "none" /\ h \notin link
  /\ Then(p, Update(h, "offline"))
  /\ UNCHANGED <<store, link, stage, addr, past, faults>>

MoveGroup(p, h) ==
  /\ p \in Admins /\ Free(p) /\ Operator /\ Found(h) # "none"
  /\ \E s \in {"join", "leave"} : Then(p, Update(h, s))
  /\ UNCHANGED <<store, link, stage, addr, past, faults>>

CreateGroup ==
  /\ ~group /\ group' = TRUE /\ Operator
  /\ UNCHANGED <<member, left, fresh, pg, es, cred, link, calls, stage, addr, past, faults>>

DeleteGroup(p) ==
  /\ p \in Admins /\ Free(p) /\ Operator /\ group
  /\ Then(p, Call(<<"count", "ungroup">>, p, "same"))
  /\ UNCHANGED <<store, link, stage, addr, past, faults>>

Members == {h \in member : pg[h] \notin {"none", "decommissioned"}}

CountMembers(p) ==
  /\ At(p, "count")
  /\ IF Members # {}
     THEN Then(p, NoCall(p)) /\ strays' = strays
     ELSE Rest(p) /\ strays' = strays \cup member
  /\ UNCHANGED <<store, link, stage, addr, earlier, unreached, ops, faults>>

Ungroup(p) ==
  /\ At(p, "ungroup") /\ Rest(p) /\ group' = FALSE
  /\ UNCHANGED <<member, left, fresh, pg, es, cred, link, stage, addr, past, ops, faults>>

----------------------------------------------------------------------------

Write(p) ==
  \/ Spend(p) \/ Dedup(p) \/ Save(p) \/ SaveEs(p) \/ Token(p) \/ WritePg(p) \/ WriteEs(p)
  \/ DropPg(p) \/ DropEs(p) \/ Keys(p) \/ Revoke(p) \/ Expire(p) \/ Search(p)
  \/ CountMembers(p) \/ Ungroup(p)

Step ==
  \/ \E h \in Hosts : \/ BeginEnroll(h) \/ Connect(h) \/ Heartbeat(h) \/ HangUp(h) \/ Age(h)
                      \/ \E p \in Admins : \/ Decommission(p, h) \/ Purge(p, h)
                                           \/ Upgrade(p, h) \/ MoveGroup(p, h)
  \/ \E p \in Procs : Write(p) \/ WriteFails(p) \/ CallFails(p) \/ BeginSweep(p) \/ DeleteGroup(p)
  \/ CreateGroup

\* The calls a host is in: the one that writes for it, those that come to it
\* yet, and its own enrolment.
Busy(h) == {p \in Procs : \/ ~Idle(p) /\ Target(p) = h
                          \/ h \in coming[p]
                          \/ p = h /\ stage[h] = "enrolling"}
Pending(h) == Busy(h) # {}

\* A host is retired when both stores say so, its credential is revoked, and no
\* call that is under way has a write for it.
Retired(h) == /\ pg[h] = "decommissioned" /\ es[h] = "decommissioned"
              /\ cred[h] = "revoked" /\ ~Pending(h)

\* The hosts of a call that lost a write, or all it had still to do.
Dropped == {h \in Hosts : \E p \in Busy(h) : todo'[p] # todo[p]}

Remember == /\ quiet' = quiet \cup {h \in Hosts : Retired(h)'}
            /\ loose' = loose \cup {h \in Hosts : \E p, q \in Busy(h)' : p # q}
                            \cup IF faults' > faults THEN Dropped ELSE {}

FleetNext == Step /\ Remember

FleetSpec == FleetInit /\ [][FleetNext]_fleetVars

----------------------------------------------------------------------------
(* Properties *)

\* A host that was retired with nothing under way is never online or offline
\* again, unless an operator tries to upgrade it.  (register_online, heartbeat,
\* mark_offline_expired, api_upgrade_agent)
RetiredForGood ==
  \A h \in quiet : pg[h] \in {"none", "decommissioned"} \/ h \in unreached

\* An enrolment that is over has locked out every host that was in before it
\* began and gave the address it was seen to call from, unless a write failed or
\* another call was or is still at it.  (api_enroll_host, decommission_host_by_ip)
ReplacedIsLockedOut ==
  \A h \in Hosts : \A g \in earlier[h] :
    (stage[h] = "in" /\ addr[g].said = addr[h].seen /\ {g, h} \cap loose = {})
      => (cred[g] # "active" \/ Pending(g))

\* A host without a row that no call is busy with holds no valid credential,
\* unless a write for it failed or it was deleted while it enrolled.
\* (delete_host_permanently)
GoneIsLockedOut ==
  \A h \in Hosts : (stage[h] = "in" /\ pg[h] = "none" /\ ~Pending(h)
                    /\ h \notin loose)
                     => cred[h] = "revoked"

\* list_hosts, which asks Elasticsearch when PostgreSQL has no rows for it.
Listed == LET Seen(table) == {h \in Hosts : table[h] \in {"online", "offline"}}
          IN IF Seen(pg) # {} THEN Seen(pg) ELSE Seen(es)

\* The list shows a host that is decommissioned or gone only while a call is busy
\* with it, after a write for it failed, or after two calls wrote to the two
\* stores in opposite orders.  (list_hosts, update_host, delete_host)
ListsOnlyCurrent ==
  \A h \in Listed : pg[h] \in {"online", "offline"} \/ Pending(h)
                     \/ h \in loose

\* A member of a group that is gone joined it after the members were counted, or
\* was decommissioned then and came back.  (delete_group)
OrphansCameLate == group \/ Members \subseteq strays

FleetInv == /\ FleetTypeOK /\ RetiredForGood /\ ReplacedIsLockedOut /\ GoneIsLockedOut
            /\ ListsOnlyCurrent /\ OrphansCameLate
=============================================================================
