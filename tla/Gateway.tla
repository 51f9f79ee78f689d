------------------------------- MODULE Gateway -------------------------------
(***************************************************************************)
(* How a command reaches an agent.  Every API worker keeps the WebSockets  *)
(* it accepted in a local table; Redis holds the worker an agent is        *)
(* connected to, a channel every connection of the agent subscribes to,    *)
(* and one slot for a command that found nobody.  Connections are set up   *)
(* and torn down by coroutines that await between any two steps, so that   *)
(* an old connection is still being closed while the agent is back on      *)
(* another one; a revocation is told to all workers by pub/sub.            *)
(*                                                                         *)
(* There is one agent: agents share nothing but the workers.               *)
(***************************************************************************)
EXTENDS Integers, FiniteSets, Sequences, Functions

CONSTANTS
  Workers,   \* API workers
  None,      \* no worker
  MaxConns,  \* bound: connections the agent ever opens
  MaxCmds,   \* bound: commands ever sent
  MaxGatewayFaults  \* bound: broken links, failed Redis or database calls, crashes

ASSUME GatewayAssumption ==
  /\ IsFiniteSet(Workers) /\ None \notin Workers
  /\ MaxConns \in Nat \ {0} /\ MaxCmds \in Nat /\ MaxGatewayFaults \in Nat

Conns == 1 .. MaxConns
Cmds  == 1 .. MaxCmds

VARIABLES
  home,     \* worker each connection was opened to, None before
  hand,     \* how far the worker's coroutine is with it
  wire,     \* connections whose link to the agent is up
  slot,     \* _conns of each worker, 0 for no entry
  subs,     \* connections subscribed to the channel of the agent
  inbox,    \* what was published to each and not forwarded yet
  barred,   \* workers with the agent in _revoked_conns
  route,    \* agent:conn, the worker said to hold the agent
  parked,   \* agent:pending_cmd, 0 for none
  token,    \* agent_tokens: "active" or "revoked"
  revoke,   \* how far the call that revokes the agent is
  notices,  \* workers the revocation was published to
  call,     \* per command: worker, step, and subscribers it was published to
  status,   \* response_action:status of each command
  got,      \* history: times the agent received each command
  vetted,   \* history: connections let in while the token was active
  overtaken,\* history: connections whose _conns entry a later accept replaced
  botched,  \* history: connections whose registration or teardown raised
  replays,  \* history: commands a delivery left in the pending slot for another
  diverted, \* history: connections whose route another one wrote over or deleted
  gatewayFaults    \* history: disruptions so far

linkState  == <<home, hand, wire, slot, subs, inbox>>
redis == <<route, diverted, parked, status>>
ban   == <<barred, token, revoke, notices>>
gatewayPast  == <<got, vetted, overtaken, botched, replays>>
gatewayVars  == <<linkState, redis, ban, call, gatewayPast, gatewayFaults>>

Hand == {"free", "auth", "accept", "register", "subscribe", "deliver", "clear", "open",
         "check", "unroute", "unsub", "closed", "leaked"}
NotSent == [at |-> None, step |-> "new", heard |-> 0]

GatewayTypeOK ==
  /\ home \in [Conns -> Workers \cup {None}] /\ hand \in [Conns -> Hand]
  /\ wire \subseteq Conns /\ subs \subseteq Conns
  /\ slot \in [Workers -> 0 .. MaxConns]
  /\ inbox \in [Conns -> Seq(Cmds)]
  /\ barred \subseteq Workers /\ notices \subseteq Workers
  /\ route \in Workers \cup {None} /\ parked \in 0 .. MaxCmds
  /\ token \in {"active", "revoked"}
  /\ revoke \in {"no", "keys", "token", "publish", "done"}
  /\ call \in [Cmds -> [at : Workers \cup {None}, heard : 0 .. MaxConns,
                        step : {"new", "look", "owner", "park", "yes", "no"}]]
  /\ status \in [Cmds -> {"none", "dispatched", "succeeded"}]
  /\ got \in [Cmds -> Nat] /\ replays \subseteq Cmds
  /\ vetted \subseteq Conns /\ overtaken \subseteq Conns /\ botched \subseteq Conns
  /\ diverted \subseteq Conns
  /\ gatewayFaults \in 0 .. MaxGatewayFaults

GatewayInit ==
  /\ home = [c \in Conns |-> None] /\ hand = [c \in Conns |-> "free"]
  /\ wire = {} /\ subs = {}
  /\ slot = [w \in Workers |-> 0]
  /\ inbox = [c \in Conns |-> <<>>]
  /\ barred = {} /\ token = "active" /\ revoke = "no" /\ notices = {}
  /\ route = None /\ parked = 0
  /\ call = [k \in Cmds |-> NotSent] /\ status = [k \in Cmds |-> "none"]
  /\ got = [k \in Cmds |-> 0] /\ replays = {}
  /\ vetted = {} /\ overtaken = {} /\ botched = {} /\ diverted = {}
  /\ gatewayFaults = 0

Disruption == gatewayFaults < MaxGatewayFaults /\ gatewayFaults' = gatewayFaults + 1
Goto(c, step) == hand[c] # "free" /\ hand' = [hand EXCEPT ![c] = step]

\* The agent gets k if the link is up; a write to a dead link may go unnoticed.
Reaches(c, k) == got' = [got EXCEPT ![k] = IF c \in wire THEN @ + 1 ELSE @]

----------------------------------------------------------------------------
(* A connection *)

\* The agent connects again once its side of the last link is gone.
Open(c, w) ==
  /\ hand[c] = "free" /\ wire = {} /\ \A d \in 1 .. c - 1 : hand[d] # "free"
  /\ home' = [home EXCEPT ![c] = w]
  /\ hand' = [hand EXCEPT ![c] = "auth"]
  /\ wire' = {c}
  /\ UNCHANGED <<slot, subs, inbox, redis, ban, call, gatewayPast, gatewayFaults>>

Valid(w) == w \notin barred /\ token = "active"

Authenticate(c) ==
  /\ hand[c] = "auth"
  /\ IF Valid(home[c])
     THEN Goto(c, "accept") /\ wire' = wire
     ELSE Goto(c, "closed") /\ wire' = wire \ {c}
  /\ vetted' = IF token = "active" THEN vetted \cup {c} ELSE vetted
  /\ UNCHANGED <<home, slot, subs, inbox, redis, ban, call, got, overtaken, botched, replays, gatewayFaults>>

\* The database cannot be asked: the agent is turned away.
AuthenticateFails(c) ==
  /\ hand[c] = "auth"
  /\ Goto(c, "closed") /\ wire' = wire \ {c}
  /\ Disruption
  /\ UNCHANGED <<home, slot, subs, inbox, redis, ban, call, gatewayPast>>

\* A link that is down may or may not be noticed here.
Accept(c) ==
  /\ hand[c] = "accept"
  /\ \/ /\ slot' = [slot EXCEPT ![home[c]] = c] /\ Goto(c, "register")
        /\ overtaken' = overtaken \cup ({slot[home[c]]} \ {0})
     \/ /\ c \notin wire
        /\ Goto(c, "closed") /\ UNCHANGED <<slot, overtaken>>
  /\ UNCHANGED <<home, wire, subs, inbox, redis, ban, call, got, vetted, botched, replays, gatewayFaults>>

\* Connections whose worker has written itself into the route.
Routed == {c \in Conns : hand[c] \in {"subscribe", "deliver", "clear", "open"}}

\* Whoever registers while an older connection is between reading the key and
\* deleting it may lose it again.
Register(c) ==
  /\ hand[c] = "register"
  /\ route' = home[c] /\ Goto(c, "subscribe")
  /\ diverted' = diverted \cup {d \in Routed : home[d] # home[c]}
                         \cup {d \in {c} : \E old \in Conns : hand[old] = "unroute"}
  /\ UNCHANGED <<home, wire, slot, subs, inbox, parked, status, ban, call, gatewayPast, gatewayFaults>>

\* Redis fails before ws.state knows the agent: the handler ends and
\* disconnect, which goes by that name, cleans nothing up.
RegisterFails(c) ==
  /\ hand[c] \in {"register", "subscribe"}
  /\ Goto(c, "closed") /\ wire' = wire \ {c}
  /\ botched' = botched \cup {c} /\ Disruption
  /\ UNCHANGED <<home, slot, subs, inbox, redis, ban, call, got, vetted, overtaken, replays>>

Subscribe(c) ==
  /\ hand[c] = "subscribe"
  /\ subs' = subs \cup {c} /\ Goto(c, "deliver")
  /\ UNCHANGED <<home, wire, slot, inbox, redis, ban, call, gatewayPast, gatewayFaults>>

\* Deliveries that have sent the parked command and not emptied the slot.
Clearing == {c \in Conns : hand[c] = "clear"}

DeliverPending(c) ==
  /\ hand[c] = "deliver"
  /\ \/ parked # 0 /\ Goto(c, "clear") /\ Reaches(c, parked)
     \/ (parked = 0 \/ c \notin wire) /\ Goto(c, "open") /\ got' = got
  /\ replays' = IF Clearing = {} THEN replays ELSE replays \cup ({parked} \ {0})
  /\ UNCHANGED <<home, wire, slot, subs, inbox, redis, ban, call, vetted, overtaken, botched, gatewayFaults>>

ClearPending(c) ==
  /\ hand[c] = "clear"
  /\ parked' = 0 /\ Goto(c, "open")
  /\ UNCHANGED <<home, wire, slot, subs, inbox, route, diverted, status, ban, call, gatewayPast, gatewayFaults>>

ClearFails(c) ==
  /\ hand[c] = "clear"
  /\ Goto(c, "open") /\ Disruption
  /\ replays' = replays \cup ({parked} \ {0})
  /\ UNCHANGED <<home, wire, slot, subs, inbox, redis, ban, call, got, vetted, overtaken, botched>>

\* _pubsub_consumer: whatever connection the worker has by now gets it.
Forward(c) ==
  /\ inbox[c] # <<>> /\ c \in subs /\ hand[c] \notin {"free", "closed"}
  /\ inbox' = [inbox EXCEPT ![c] = Tail(@)]
  /\ IF slot[home[c]] = 0 THEN got' = got ELSE Reaches(slot[home[c]], Head(inbox[c]))
  /\ UNCHANGED <<home, hand, wire, slot, subs, redis, ban, call, vetted, overtaken, botched, replays, gatewayFaults>>

Break ==
  /\ wire # {} /\ wire' = {}
  /\ Disruption
  /\ UNCHANGED <<home, hand, slot, subs, inbox, redis, ban, call, gatewayPast>>

\* Defect: the entry is dropped whichever connection it is of.
DropEntry(c) ==
  /\ hand[c] = "open" /\ c \notin wire
  /\ slot' = [slot EXCEPT ![home[c]] = 0] /\ Goto(c, "check")
  /\ UNCHANGED <<home, wire, subs, inbox, redis, ban, call, gatewayPast, gatewayFaults>>

Disconnect(c) ==
  /\ hand[c] = "open" /\ c \notin wire
  /\ IF slot[home[c]] = c
     THEN slot' = [slot EXCEPT ![home[c]] = 0] /\ Goto(c, "check")
     ELSE slot' = slot /\ Goto(c, "unsub")
  /\ UNCHANGED <<home, wire, subs, inbox, redis, ban, call, gatewayPast, gatewayFaults>>

CheckRoute(c) ==
  /\ hand[c] = "check"
  /\ Goto(c, IF route = home[c] THEN "unroute" ELSE "unsub")
  /\ UNCHANGED <<home, wire, slot, subs, inbox, redis, ban, call, gatewayPast, gatewayFaults>>

DeleteRoute(c) ==
  /\ hand[c] = "unroute"
  /\ route' = None /\ Goto(c, "unsub")
  /\ diverted' = diverted \cup {d \in Routed : home[d] = home[c]}
  /\ UNCHANGED <<home, wire, slot, subs, inbox, parked, status, ban, call, gatewayPast, gatewayFaults>>

\* Redis fails while disconnect asks for the route: the rest is never done, and
\* the consumer of the connection goes on.
DisconnectFails(c) ==
  /\ hand[c] \in {"check", "unroute"}
  /\ Goto(c, "leaked") /\ botched' = botched \cup {c} /\ Disruption
  /\ UNCHANGED <<home, wire, slot, subs, inbox, redis, ban, call, got, vetted, overtaken, replays>>

Unsubscribe(c) ==
  /\ hand[c] = "unsub"
  /\ subs' = subs \ {c} /\ inbox' = [inbox EXCEPT ![c] = <<>>] /\ Goto(c, "closed")
  /\ UNCHANGED <<home, wire, slot, redis, ban, call, gatewayPast, gatewayFaults>>

Serve(c) ==
  \/ Authenticate(c) \/ Accept(c) \/ Register(c) \/ Subscribe(c) \/ DeliverPending(c)
  \/ ClearPending(c) \/ Forward(c) \/ Disconnect(c) \/ CheckRoute(c) \/ DeleteRoute(c)
  \/ Unsubscribe(c)

----------------------------------------------------------------------------
(* A command: a call of send_to_agent in some worker *)

Dispatch(k, w) ==
  /\ call[k].step = "new" /\ \A j \in 1 .. k - 1 : call[j].step # "new"
  /\ call' = [call EXCEPT ![k] = [NotSent EXCEPT !.at = w, !.step = "look"]]
  /\ status' = [status EXCEPT ![k] = "dispatched"]
  /\ UNCHANGED <<linkState, route, diverted, parked, ban, gatewayPast, gatewayFaults>>

CallTo(k, step) == call' = [call EXCEPT ![k].step = step]

\* The worker holds the agent, or has an entry for it: nothing else is tried.
SendLocal(k) ==
  /\ call[k].step = "look" /\ slot[call[k].at] # 0
  /\ \/ CallTo(k, "yes") /\ Reaches(slot[call[k].at], k)
     \/ slot[call[k].at] \notin wire /\ CallTo(k, "no") /\ got' = got
  /\ UNCHANGED <<linkState, redis, ban, vetted, overtaken, botched, replays, gatewayFaults>>

PublishCommand(k) ==
  /\ call[k].step = "look" /\ slot[call[k].at] = 0
  /\ inbox' = [c \in Conns |-> IF c \in subs THEN Append(inbox[c], k) ELSE inbox[c]]
  /\ call' = [call EXCEPT ![k].step = "owner", ![k].heard = Cardinality(subs)]
  /\ UNCHANGED <<home, hand, wire, slot, subs, redis, ban, gatewayPast, gatewayFaults>>

ReadOwner(k) ==
  /\ call[k].step = "owner"
  /\ CallTo(k, IF call[k].heard > 0 /\ route # None THEN "yes" ELSE "park")
  /\ UNCHANGED <<linkState, redis, ban, gatewayPast, gatewayFaults>>

Park(k) ==
  /\ call[k].step = "park"
  /\ parked' = k /\ CallTo(k, "no")
  /\ UNCHANGED <<linkState, route, diverted, status, ban, gatewayPast, gatewayFaults>>

SendFails(k) ==
  /\ call[k].step \in {"look", "owner", "park"}
  /\ call[k].step = "look" => slot[call[k].at] = 0
  /\ CallTo(k, "no") /\ Disruption
  /\ UNCHANGED <<linkState, redis, ban, gatewayPast>>

SendStep(k) == SendLocal(k) \/ PublishCommand(k) \/ ReadOwner(k) \/ Park(k)

\* The agent's answer to a response action it received.
Acknowledge(k, c) ==
  /\ got[k] > 0 /\ hand[c] = "open" /\ c \in wire
  /\ status' = [status EXCEPT ![k] = "succeeded"]
  /\ UNCHANGED <<linkState, route, diverted, parked, ban, call, gatewayPast, gatewayFaults>>

\* Five minutes without news.
ExpireStatus(k) ==
  /\ status[k] # "none" /\ status' = [status EXCEPT ![k] = "none"]
  /\ UNCHANGED <<linkState, route, diverted, parked, ban, call, gatewayPast, gatewayFaults>>

----------------------------------------------------------------------------
(* Revocation *)

\* decommission_host and delete_host_permanently come here by way of the keys.
RevokeStart ==
  /\ revoke = "no" /\ revoke' = "keys"
  /\ UNCHANGED <<linkState, redis, barred, token, notices, call, gatewayPast, gatewayFaults>>

RevokeKeys ==
  /\ revoke = "keys" /\ revoke' = "token" /\ route' = None
  /\ diverted' = diverted \cup Routed
  /\ UNCHANGED <<linkState, parked, status, barred, token, notices, call, gatewayPast, gatewayFaults>>

RevokeToken ==
  /\ revoke = "token" /\ revoke' = "publish" /\ token' = "revoked"
  /\ UNCHANGED <<linkState, redis, barred, notices, call, gatewayPast, gatewayFaults>>

RevokePublish ==
  /\ revoke = "publish" /\ revoke' = "done" /\ notices' = Workers
  /\ UNCHANGED <<linkState, redis, barred, token, call, gatewayPast, gatewayFaults>>

DropRevoked(w) ==
  /\ w \in notices /\ notices' = notices \ {w}
  /\ barred' = barred \cup {w}
  /\ slot' = [slot EXCEPT ![w] = 0]
  /\ wire' = wire \ {slot[w]}
  /\ UNCHANGED <<home, hand, subs, inbox, redis, token, revoke, call, gatewayPast, gatewayFaults>>

RevokeStep == RevokeKeys \/ RevokeToken \/ RevokePublish \/ \E w \in Workers : DropRevoked(w)

----------------------------------------------------------------------------
(* A worker dies; another process takes its place *)

Crash(w) ==
  /\ \E c \in Conns : home[c] = w /\ hand[c] # "closed"
  /\ hand' = [c \in Conns |-> IF home[c] = w THEN "closed" ELSE hand[c]]
  /\ wire' = {c \in wire : home[c] # w}
  /\ subs' = {c \in subs : home[c] # w}
  /\ inbox' = [c \in Conns |-> IF home[c] = w THEN <<>> ELSE inbox[c]]
  /\ slot' = [slot EXCEPT ![w] = 0]
  /\ barred' = barred \ {w} /\ notices' = notices \ {w}
  /\ call' = [k \in Cmds |-> IF call[k].at = w /\ call[k].step \in {"look", "owner", "park"}
                             THEN [call[k] EXCEPT !.step = "no"] ELSE call[k]]
  /\ replays' = IF \E c \in Clearing : home[c] = w THEN replays \cup ({parked} \ {0}) ELSE replays
  /\ Disruption
  /\ UNCHANGED <<home, redis, token, revoke, got, vetted, overtaken, botched>>

GatewayNext ==
  \/ \E c \in Conns : \/ \E w \in Workers : Open(c, w)
                      \/ Serve(c) \/ AuthenticateFails(c) \/ RegisterFails(c)
                      \/ ClearFails(c) \/ DisconnectFails(c)
  \/ \E k \in Cmds : \/ \E w \in Workers : Dispatch(k, w)
                     \/ SendStep(k) \/ SendFails(k) \/ ExpireStatus(k)
                     \/ \E c \in Conns : Acknowledge(k, c)
  \/ RevokeStart \/ RevokeStep \/ Break \/ \E w \in Workers : Crash(w)

GatewaySpec == GatewayInit /\ [][GatewayNext]_gatewayVars

----------------------------------------------------------------------------
(* Properties *)

Serving == {"register", "subscribe", "deliver", "clear", "open"}

\* A worker that is serving a connection finds it in _conns, unless a later one
\* of the agent replaced it or the agent was revoked there; and an entry names
\* a connection that is over only if its registration raised.  (disconnect)
EntryFollowsOwner ==
  /\ \A c \in Conns : hand[c] \in Serving /\ home[c] \notin barred
                      => (slot[home[c]] = c \/ c \in overtaken)
  /\ \A w \in Workers : slot[w] # 0 => (hand[slot[w]] \in Serving \/ slot[w] \in botched)

\* Whoever asks to be let in after the revocation is written stays out, of the
\* workers that have not heard of it or have been restarted too.  (authenticate)
RevokedStaysOut == \A c \in Conns : hand[c] \in Serving => c \in vetted

\* A command reaches the agent twice only if it was published to two of its
\* connections, or published and parked all the same, or left in the slot by a
\* delivery that failed or was not over when the next began.  (send_to_agent, _deliver_pending, _pubsub_consumer)
TwiceOnlyByTwoWays ==
  \A k \in Cmds : got[k] > 1 =>
                               \/ call[k].heard > 1
                               \/ (call[k].heard = 1 /\ call[k].step = "no")
                               \/ k \in replays

\* The route names the worker of every connection that is served, unless one on
\* another worker registered later, the agent was retired, or an older one of the
\* agent was being closed: on the same worker, or between its look at the key and
\* its deletion when this one registered.  (register_online, disconnect)
RouteFollowsOwner == \A c \in Routed : route = home[c] \/ c \in diverted

GatewayInv ==
  GatewayTypeOK /\ EntryFollowsOwner /\ RevokedStaysOut /\ TwiceOnlyByTwoWays /\ RouteFollowsOwner
=============================================================================
