---------------------------- MODULE GatewayProofs ----------------------------
(***************************************************************************)
(* The connections of an agent and the commands sent to it, for any number *)
(* of workers, connections, commands and disruptions, and the hosts the    *)
(* console manages, for any number of hosts, addresses, operators, sweeps, *)
(* calls at once and failures.                                             *)
(***************************************************************************)
EXTENDS Gateway, Fleet, FiniteSetTheorems, TLAPS

(* The tables.  An entry is made by a connection of that worker, which was  *)
(* let in, and goes before the connection does.                             *)

Served(c) == hand[c] \in Serving

TablesInd ==
  /\ \A c \in Conns :
       /\ hand[c] # "free" => home[c] \in Workers
       /\ hand[c] = "accept" \/ Served(c) => c \in vetted
       /\ Served(c) /\ home[c] \notin barred => slot[home[c]] = c \/ c \in overtaken
  /\ \A w \in Workers : slot[w] # 0 =>
       /\ hand[slot[w]] # "free" /\ home[slot[w]] = w
       /\ Served(slot[w]) \/ slot[w] \in botched

(* A command.  What it was published to says how often it may come.         *)

Waits(box, k) == \E i \in DOMAIN box : box[i] = k

\* It waits in one inbox at most, and not where it came already.
OnceIn(boxes, k, n) ==
  /\ n <= 1
  /\ \A c \in Conns : Waits(boxes[c], k) =>
       /\ n = 0
       /\ \A d \in Conns : Waits(boxes[d], k) => c = d
       /\ \A i, j \in DOMAIN boxes[c] : boxes[c][i] = k /\ boxes[c][j] = k => i = j

\* x is the call, n how often the command came.
Counted(x, boxes, k, n, held, again, clearing) ==
  /\ x.step \in {"new", "look"} => x.heard = 0
  /\ x.heard = 0 /\ x.step \in {"new", "look", "owner", "park"} => n = 0
  /\ held => x.step = "no"
  /\ x.heard = 0 =>
       /\ \A c \in Conns : ~Waits(boxes[c], k)
       /\ again \/ n = 0 \/ (n = 1 /\ (held => clearing))
  /\ x.heard = 1 /\ x.step # "no" => OnceIn(boxes, k, n)

CountsInd ==
  \A k \in Cmds : Counted(call[k], inbox, k, got[k], parked = k, k \in replays, Clearing # {})

(* The route.  Who has seen it name its worker shares that worker with every  *)
(* connection the route still names.                                        *)

RouteInd ==
  /\ RouteFollowsOwner
  /\ \A old \in Conns, c \in Routed :
       hand[old] = "unroute" => home[c] = home[old] \/ c \in diverted

GatewayInd == GatewayTypeOK /\ TablesInd /\ CountsInd /\ RouteInd

-----------------------------------------------------------------------------
(* Types *)

LEMMA GatewayBounds ==
  /\ MaxConns \in Nat \ {0} /\ MaxCmds \in Nat /\ MaxGatewayFaults \in Nat
  /\ None \notin Workers /\ 0 \notin Conns /\ 0 \notin Cmds
  /\ Conns \subseteq 0 .. MaxConns /\ Cmds \subseteq 0 .. MaxCmds
BY GatewayAssumption DEF Conns, Cmds

LinkTyped ==
  /\ home \in [Conns -> Workers \cup {None}] /\ hand \in [Conns -> Hand]
  /\ wire \subseteq Conns /\ subs \subseteq Conns
  /\ slot \in [Workers -> 0 .. MaxConns]
  /\ inbox \in [Conns -> Seq(Cmds)]

SharedTyped ==
  /\ barred \subseteq Workers /\ notices \subseteq Workers
  /\ route \in Workers \cup {None} /\ parked \in 0 .. MaxCmds
  /\ token \in {"active", "revoked"}
  /\ revoke \in {"no", "keys", "token", "publish", "done"}

CmdCall == [at : Workers \cup {None}, heard : 0 .. MaxConns,
         step : {"new", "look", "owner", "park", "yes", "no"}]

CmdsTyped ==
  /\ call \in [Cmds -> CmdCall]
  /\ status \in [Cmds -> {"none", "dispatched", "succeeded"}]
  /\ got \in [Cmds -> Nat]

PastTyped ==
  /\ vetted \subseteq Conns /\ overtaken \subseteq Conns /\ botched \subseteq Conns
  /\ diverted \subseteq Conns /\ replays \subseteq Cmds
  /\ gatewayFaults \in 0 .. MaxGatewayFaults

LEMMA TypedParts ==
  /\ GatewayTypeOK <=> LinkTyped /\ SharedTyped /\ CmdsTyped /\ PastTyped
  /\ (LinkTyped /\ SharedTyped /\ CmdsTyped /\ PastTyped)' => GatewayTypeOK'
BY DEF GatewayTypeOK, LinkTyped, SharedTyped, CmdCall, CmdsTyped, PastTyped

LEMMA SubscribersFinite ==
  ASSUME subs \subseteq Conns
  PROVE  IsFiniteSet(subs) /\ Cardinality(subs) \in 0 .. MaxConns
<1>1. IsFiniteSet(Conns) /\ Cardinality(Conns) = MaxConns
  BY GatewayBounds, FS_Interval DEF Conns
<1>2. IsFiniteSet(subs) /\ Cardinality(subs) <= MaxConns
  BY <1>1, FS_Subset
<1> QED BY <1>2, FS_CardinalityType, GatewayBounds

Homed == \A c \in Conns : hand[c] # "free" => home[c] \in Workers

ConnStep(c) ==
  \/ Serve(c) \/ AuthenticateFails(c) \/ RegisterFails(c) \/ ClearFails(c) \/ DisconnectFails(c)

CmdStep(k) ==
  \/ \E w \in Workers : Dispatch(k, w)
  \/ SendStep(k) \/ SendFails(k) \/ ExpireStatus(k) \/ \E c \in Conns : Acknowledge(k, c)

WorkerStep == RevokeStart \/ RevokeStep \/ Break \/ \E w \in Workers : Crash(w)

LEMMA ConnTyped ==
  ASSUME GatewayTypeOK, Homed, NEW c \in Conns, ConnStep(c) \/ \E w \in Workers : Open(c, w)
  PROVE  GatewayTypeOK'
<1> LinkTyped /\ SharedTyped /\ CmdsTyped /\ PastTyped
  BY TypedParts
<1> USE GatewayBounds DEF Disruption
<1>1. CASE \E w \in Workers : Open(c, w)
  <2>1. LinkTyped'
    BY <1>1 DEF Open, LinkTyped, Hand
  <2>2. SharedTyped' /\ CmdsTyped' /\ PastTyped'
    BY <1>1 DEF Open, SharedTyped, CmdsTyped, PastTyped, redis, ban, gatewayPast
  <2> QED BY <2>1, <2>2, TypedParts
<1>2. CASE Authenticate(c)
  <2>1. LinkTyped'
    BY <1>2 DEF Authenticate, LinkTyped, Goto, Hand, Homed
  <2>2. SharedTyped'
    BY <1>2 DEF Authenticate, SharedTyped, redis, ban, Homed, Goto
  <2>3. CmdsTyped'
    BY <1>2 DEF Authenticate, CmdsTyped, redis, gatewayPast
  <2>4. PastTyped'
    BY <1>2 DEF Authenticate, PastTyped, redis, gatewayPast, Routed
  <2> QED BY <2>1, <2>2, <2>3, <2>4, TypedParts
<1>3. CASE AuthenticateFails(c)
  <2>1. LinkTyped'
    BY <1>3 DEF AuthenticateFails, LinkTyped, Goto, Hand, Homed
  <2>2. SharedTyped'
    BY <1>3 DEF AuthenticateFails, SharedTyped, redis, ban, Homed, Goto
  <2>3. CmdsTyped'
    BY <1>3 DEF AuthenticateFails, CmdsTyped, redis, gatewayPast
  <2>4. PastTyped'
    BY <1>3 DEF AuthenticateFails, PastTyped, redis, gatewayPast, Routed
  <2> QED BY <2>1, <2>2, <2>3, <2>4, TypedParts
<1>4. CASE Accept(c)
  <2>1. LinkTyped'
    BY <1>4 DEF Accept, LinkTyped, Goto, Hand, Homed
  <2>2. SharedTyped'
    BY <1>4 DEF Accept, SharedTyped, redis, ban, Homed, Goto
  <2>3. CmdsTyped'
    BY <1>4 DEF Accept, CmdsTyped, redis, gatewayPast
  <2>4. \A w \in Workers : slot[w] # 0 => slot[w] \in Conns
    BY DEF LinkTyped, Conns
  <2>5. PastTyped'
    BY <1>4, <2>4 DEF Accept, PastTyped, Homed, redis
  <2> QED BY <2>1, <2>2, <2>3, <2>5, TypedParts
<1>5. CASE Register(c)
  <2>1. LinkTyped'
    BY <1>5 DEF Register, LinkTyped, Goto, Hand, Homed
  <2>2. SharedTyped'
    BY <1>5 DEF Register, SharedTyped, redis, ban, Homed, Goto
  <2>3. CmdsTyped'
    BY <1>5 DEF Register, CmdsTyped, redis, gatewayPast
  <2>4. PastTyped'
    BY <1>5 DEF Register, PastTyped, redis, gatewayPast, Routed
  <2> QED BY <2>1, <2>2, <2>3, <2>4, TypedParts
<1>6. CASE RegisterFails(c)
  <2>1. LinkTyped'
    BY <1>6 DEF RegisterFails, LinkTyped, Goto, Hand, Homed
  <2>2. SharedTyped'
    BY <1>6 DEF RegisterFails, SharedTyped, redis, ban, Homed, Goto
  <2>3. CmdsTyped'
    BY <1>6 DEF RegisterFails, CmdsTyped, redis, gatewayPast
  <2>4. PastTyped'
    BY <1>6 DEF RegisterFails, PastTyped, redis, gatewayPast, Routed
  <2> QED BY <2>1, <2>2, <2>3, <2>4, TypedParts
<1>7. CASE Subscribe(c)
  <2>1. LinkTyped'
    BY <1>7 DEF Subscribe, LinkTyped, Goto, Hand, Homed
  <2>2. SharedTyped'
    BY <1>7 DEF Subscribe, SharedTyped, redis, ban, Homed, Goto
  <2>3. CmdsTyped'
    BY <1>7 DEF Subscribe, CmdsTyped, redis, gatewayPast
  <2>4. PastTyped'
    BY <1>7 DEF Subscribe, PastTyped, redis, gatewayPast, Routed
  <2> QED BY <2>1, <2>2, <2>3, <2>4, TypedParts
<1>8. CASE DeliverPending(c)
  <2>1. LinkTyped'
    BY <1>8 DEF DeliverPending, LinkTyped, Goto, Hand, Homed
  <2>2. SharedTyped'
    BY <1>8 DEF DeliverPending, SharedTyped, redis, ban, Homed, Goto
  <2>3. CmdsTyped'
    BY <1>8 DEF DeliverPending, CmdsTyped, Reaches, redis
  <2>4. parked # 0 => parked \in Cmds
    BY DEF SharedTyped, Cmds
  <2>5. PastTyped'
    BY <1>8, <2>4 DEF DeliverPending, PastTyped, redis
  <2> QED BY <2>1, <2>2, <2>3, <2>5, TypedParts
<1>9. CASE ClearPending(c)
  <2>1. LinkTyped'
    BY <1>9 DEF ClearPending, LinkTyped, Goto, Hand, Homed
  <2>2. SharedTyped'
    BY <1>9 DEF ClearPending, SharedTyped, redis, ban, Homed, Goto
  <2>3. CmdsTyped'
    BY <1>9 DEF ClearPending, CmdsTyped, redis, gatewayPast
  <2>4. PastTyped'
    BY <1>9 DEF ClearPending, PastTyped, redis, gatewayPast, Routed
  <2> QED BY <2>1, <2>2, <2>3, <2>4, TypedParts
<1>10. CASE ClearFails(c)
  <2>1. LinkTyped'
    BY <1>10 DEF ClearFails, LinkTyped, Goto, Hand, Homed
  <2>2. SharedTyped'
    BY <1>10 DEF ClearFails, SharedTyped, redis, ban, Homed, Goto
  <2>3. CmdsTyped'
    BY <1>10 DEF ClearFails, CmdsTyped, redis, gatewayPast
  <2>4. parked # 0 => parked \in Cmds
    BY DEF SharedTyped, Cmds
  <2>5. replays' \subseteq Cmds
    BY <1>10, <2>4 DEF ClearFails, PastTyped
  <2>6. PastTyped'
    BY <1>10, <2>5 DEF ClearFails, PastTyped, redis
  <2> QED BY <2>1, <2>2, <2>3, <2>6, TypedParts
<1>11. CASE Forward(c)
  <2>1. LinkTyped'
    BY <1>11 DEF Forward, LinkTyped, Goto, Hand, Homed
  <2>2. SharedTyped'
    BY <1>11 DEF Forward, SharedTyped, redis, ban, Homed, Goto
  <2>3. CmdsTyped'
    BY <1>11 DEF Forward, CmdsTyped, Reaches, redis
  <2>4. PastTyped'
    BY <1>11 DEF Forward, PastTyped, redis, gatewayPast, Routed
  <2> QED BY <2>1, <2>2, <2>3, <2>4, TypedParts
<1>12. CASE Disconnect(c)
  <2>0. hand' \in [Conns -> Hand] /\ slot' \in [Workers -> 0 .. MaxConns]
    <3>1. CASE slot[home[c]] = c
      BY <1>12, <3>1 DEF Disconnect, LinkTyped, Goto, Hand
    <3>2. CASE slot[home[c]] # c
      BY <1>12, <3>2 DEF Disconnect, LinkTyped, Goto, Hand
    <3> QED BY <3>1, <3>2
  <2>1. LinkTyped'
    BY <1>12, <2>0 DEF Disconnect, LinkTyped
  <2>2. SharedTyped'
    BY <1>12 DEF Disconnect, SharedTyped, redis, ban, Homed, Goto
  <2>3. CmdsTyped'
    BY <1>12 DEF Disconnect, CmdsTyped, redis, gatewayPast
  <2>4. PastTyped'
    BY <1>12 DEF Disconnect, PastTyped, redis, gatewayPast, Routed
  <2> QED BY <2>1, <2>2, <2>3, <2>4, TypedParts
<1>13. CASE CheckRoute(c)
  <2>1. LinkTyped'
    BY <1>13 DEF CheckRoute, LinkTyped, Goto, Hand, Homed
  <2>2. SharedTyped'
    BY <1>13 DEF CheckRoute, SharedTyped, redis, ban, Homed, Goto
  <2>3. CmdsTyped'
    BY <1>13 DEF CheckRoute, CmdsTyped, redis, gatewayPast
  <2>4. PastTyped'
    BY <1>13 DEF CheckRoute, PastTyped, redis, gatewayPast, Routed
  <2> QED BY <2>1, <2>2, <2>3, <2>4, TypedParts
<1>14. CASE DeleteRoute(c)
  <2>1. LinkTyped'
    BY <1>14 DEF DeleteRoute, LinkTyped, Goto, Hand, Homed
  <2>2. SharedTyped'
    BY <1>14 DEF DeleteRoute, SharedTyped, redis, ban, Homed, Goto
  <2>3. CmdsTyped'
    BY <1>14 DEF DeleteRoute, CmdsTyped, redis, gatewayPast
  <2>4. PastTyped'
    BY <1>14 DEF DeleteRoute, PastTyped, redis, gatewayPast, Routed
  <2> QED BY <2>1, <2>2, <2>3, <2>4, TypedParts
<1>15. CASE DisconnectFails(c)
  <2>1. LinkTyped'
    BY <1>15 DEF DisconnectFails, LinkTyped, Goto, Hand, Homed
  <2>2. SharedTyped'
    BY <1>15 DEF DisconnectFails, SharedTyped, redis, ban, Homed, Goto
  <2>3. CmdsTyped'
    BY <1>15 DEF DisconnectFails, CmdsTyped, redis, gatewayPast
  <2>4. PastTyped'
    BY <1>15 DEF DisconnectFails, PastTyped, redis, gatewayPast, Routed
  <2> QED BY <2>1, <2>2, <2>3, <2>4, TypedParts
<1>16. CASE Unsubscribe(c)
  <2>1. LinkTyped'
    BY <1>16 DEF Unsubscribe, LinkTyped, Goto, Hand, Homed
  <2>2. SharedTyped'
    BY <1>16 DEF Unsubscribe, SharedTyped, redis, ban, Homed, Goto
  <2>3. CmdsTyped'
    BY <1>16 DEF Unsubscribe, CmdsTyped, redis, gatewayPast
  <2>4. PastTyped'
    BY <1>16 DEF Unsubscribe, PastTyped, redis, gatewayPast, Routed
  <2> QED BY <2>1, <2>2, <2>3, <2>4, TypedParts
<1> QED
  BY <1>1, <1>2, <1>3, <1>4, <1>5, <1>6, <1>7, <1>8, <1>9, <1>10, <1>11, <1>12, <1>13, <1>14, <1>15, <1>16
     DEF ConnStep, Serve

LEMMA CmdTyped ==
  ASSUME GatewayTypeOK, NEW k \in Cmds, CmdStep(k)
  PROVE  GatewayTypeOK'
<1> LinkTyped /\ SharedTyped /\ CmdsTyped /\ PastTyped
  BY TypedParts
<1> USE GatewayBounds DEF Disruption
<1>1. CASE \E w \in Workers : Dispatch(k, w)
  <2>1. LinkTyped' /\ SharedTyped' /\ PastTyped'
    BY <1>1 DEF Dispatch, LinkTyped, SharedTyped, PastTyped, linkState, redis, ban, gatewayPast
  <2>0. PICK w \in Workers : Dispatch(k, w)
    BY <1>1
  <2>4. NotSent \in CmdCall
    <3>1. None \in Workers \cup {None} /\ 0 \in 0 .. MaxConns
      OBVIOUS
    <3> QED BY <3>1 DEF NotSent, CmdCall
  <2>5. \A x \in CmdCall : [x EXCEPT !.at = w, !.step = "look"] \in CmdCall
    BY DEF CmdCall
  <2>3. [NotSent EXCEPT !.at = w, !.step = "look"] \in CmdCall
    BY <2>4, <2>5
  <2>2. CmdsTyped'
    BY <2>0, <2>3 DEF Dispatch, CmdsTyped, gatewayPast
  <2> QED BY <2>1, <2>2, TypedParts
<1>2. CASE SendLocal(k)
  <2>1. LinkTyped' /\ SharedTyped' /\ PastTyped'
    BY <1>2 DEF SendLocal, LinkTyped, SharedTyped, PastTyped, linkState, redis, ban, gatewayPast
  <2>2. CmdsTyped'
    BY <1>2, SMTT(60) DEF SendLocal, CmdsTyped, CmdCall, CallTo, Reaches, redis, gatewayPast
  <2> QED BY <2>1, <2>2, TypedParts
<1>3. CASE PublishCommand(k)
  <2>1. LinkTyped' /\ SharedTyped' /\ PastTyped'
    BY <1>3 DEF PublishCommand, LinkTyped, SharedTyped, PastTyped, linkState, redis, ban, gatewayPast
  <2>4. Cardinality(subs) \in 0 .. MaxConns
    BY SubscribersFinite DEF LinkTyped
  <2>5. [call[k] EXCEPT !.step = "owner", !.heard = Cardinality(subs)] \in CmdCall
    BY <2>4 DEF CmdsTyped, CmdCall
  <2>6. call' = [call EXCEPT ![k] = [call[k] EXCEPT !.step = "owner", !.heard = Cardinality(subs)]]
    BY <1>3 DEF PublishCommand
  <2>2. call' \in [Cmds -> CmdCall]
    BY <2>5, <2>6 DEF CmdsTyped
  <2>3. CmdsTyped'
    BY <1>3, <2>2 DEF PublishCommand, CmdsTyped, redis, gatewayPast
  <2> QED BY <2>1, <2>3, TypedParts
<1>4. CASE ReadOwner(k)
  <2>1. LinkTyped' /\ SharedTyped' /\ PastTyped'
    BY <1>4 DEF ReadOwner, LinkTyped, SharedTyped, PastTyped, linkState, redis, ban, gatewayPast
  <2>2. CmdsTyped'
    BY <1>4 DEF ReadOwner, CmdsTyped, CmdCall, CallTo, redis, gatewayPast
  <2> QED BY <2>1, <2>2, TypedParts
<1>5. CASE Park(k)
  <2>1. LinkTyped' /\ SharedTyped' /\ PastTyped'
    BY <1>5 DEF Park, LinkTyped, SharedTyped, PastTyped, linkState, redis, ban, gatewayPast
  <2>2. CmdsTyped'
    BY <1>5 DEF Park, CmdsTyped, CmdCall, CallTo, redis, gatewayPast
  <2> QED BY <2>1, <2>2, TypedParts
<1>6. CASE SendFails(k)
  <2>1. LinkTyped' /\ SharedTyped' /\ PastTyped'
    BY <1>6 DEF SendFails, LinkTyped, SharedTyped, PastTyped, linkState, redis, ban, gatewayPast
  <2>2. CmdsTyped'
    BY <1>6 DEF SendFails, CmdsTyped, CmdCall, CallTo, redis, gatewayPast
  <2> QED BY <2>1, <2>2, TypedParts
<1>7. CASE ExpireStatus(k) \/ \E c \in Conns : Acknowledge(k, c)
  <2>1. LinkTyped' /\ SharedTyped' /\ PastTyped'
    BY <1>7 DEF ExpireStatus, Acknowledge, LinkTyped, SharedTyped, PastTyped, linkState, ban, gatewayPast
  <2>2. CmdsTyped'
    BY <1>7 DEF ExpireStatus, Acknowledge, CmdsTyped, gatewayPast
  <2> QED BY <2>1, <2>2, TypedParts
<1> QED BY <1>1, <1>2, <1>3, <1>4, <1>5, <1>6, <1>7 DEF CmdStep, SendStep

LEMMA WorkerTyped ==
  ASSUME GatewayTypeOK, WorkerStep
  PROVE  GatewayTypeOK'
<1> LinkTyped /\ SharedTyped /\ CmdsTyped /\ PastTyped
  BY TypedParts
<1> USE GatewayBounds DEF Disruption, linkState, redis, ban, gatewayPast
<1>1. CASE RevokeStart \/ RevokeKeys \/ RevokeToken \/ RevokePublish
  <2>1. LinkTyped' /\ CmdsTyped' /\ PastTyped'
    BY <1>1 DEF RevokeStart, RevokeKeys, RevokeToken, RevokePublish, LinkTyped, CmdsTyped, PastTyped, Routed
  <2>2. SharedTyped'
    BY <1>1 DEF RevokeStart, RevokeKeys, RevokeToken, RevokePublish, SharedTyped
  <2> QED BY <2>1, <2>2, TypedParts
<1>2. CASE Break
  <2>1. LinkTyped' /\ SharedTyped'
    BY <1>2 DEF Break, LinkTyped, SharedTyped
  <2>2. CmdsTyped' /\ PastTyped'
    BY <1>2 DEF Break, CmdsTyped, PastTyped
  <2> QED BY <2>1, <2>2, TypedParts
<1>3. CASE \E w \in Workers : DropRevoked(w)
  <2>0. PICK w \in Workers : DropRevoked(w)
    BY <1>3
  <2>4. slot' \in [Workers -> 0 .. MaxConns]
    BY <2>0 DEF DropRevoked, LinkTyped
  <2>1. LinkTyped'
    BY <2>0, <2>4 DEF DropRevoked, LinkTyped
  <2>2. SharedTyped'
    BY <1>3 DEF DropRevoked, SharedTyped
  <2>3. CmdsTyped' /\ PastTyped'
    BY <1>3 DEF DropRevoked, CmdsTyped, PastTyped
  <2> QED BY <2>1, <2>2, <2>3, TypedParts
<1>4. CASE \E w \in Workers : Crash(w)
  <2>1. PICK w \in Workers : Crash(w)
    BY <1>4
  <2>2. LinkTyped'
    BY <2>1 DEF Crash, LinkTyped, Hand
  <2>3. SharedTyped'
    BY <2>1 DEF Crash, SharedTyped
  <2>4. \A k \in Cmds : [call[k] EXCEPT !.step = "no"] \in CmdCall
    BY DEF CmdsTyped, CmdCall
  <2>5. call' \in [Cmds -> CmdCall]
    BY <2>1, <2>4 DEF Crash, CmdsTyped
  <2>6. CmdsTyped'
    BY <2>1, <2>5 DEF Crash, CmdsTyped
  <2>7. parked # 0 => parked \in Cmds
    BY DEF SharedTyped, Cmds
  <2>8. PastTyped'
    BY <2>1, <2>7 DEF Crash, PastTyped
  <2> QED BY <2>2, <2>3, <2>6, <2>8, TypedParts
<1> QED BY <1>1, <1>2, <1>3, <1>4 DEF WorkerStep, RevokeStep

LEMMA GatewaySplits ==
  GatewayNext => \/ \E c \in Conns : ConnStep(c) \/ \E w \in Workers : Open(c, w)
                 \/ \E k \in Cmds : CmdStep(k)
                 \/ WorkerStep
BY DEF GatewayNext, ConnStep, CmdStep, WorkerStep

-----------------------------------------------------------------------------
(* The tables *)

Grown == vetted \subseteq vetted' /\ overtaken \subseteq overtaken' /\ botched \subseteq botched'

LEMMA TablesStay ==
  ASSUME LinkTyped, TablesInd, Grown,
         home' = home, hand' = hand, slot' = slot, barred' = barred
  PROVE  TablesInd'
BY DEF TablesInd, Served, Grown, Serving

LEMMA TablesGoto ==
  ASSUME LinkTyped, TablesInd, Grown, NEW c \in Conns, NEW step \in Hand \ {"free"},
         hand[c] # "free", hand' = [hand EXCEPT ![c] = step],
         home' = home, slot' = slot, barred' = barred,
         step = "accept" \/ step \in Serving => c \in vetted',
         step \in Serving => Served(c),
         Served(c) /\ step \notin Serving => c \in botched' \/ slot[home[c]] # c
  PROVE  TablesInd'
<1>1. /\ hand'[c] = step
      /\ \A d \in Conns \ {c} : hand'[d] = hand[d]
  BY DEF LinkTyped
<1>2. \A w \in Workers : slot[w] # 0 => slot[w] \in Conns
  BY GatewayBounds DEF LinkTyped, Conns
<1>3. ASSUME NEW d \in Conns
      PROVE  /\ hand'[d] # "free" => home'[d] \in Workers
             /\ hand'[d] = "accept" \/ hand'[d] \in Serving => d \in vetted'
             /\ hand'[d] \in Serving /\ home'[d] \notin barred' => slot'[home'[d]] = d \/ d \in overtaken'
  <2>1. CASE d = c
    BY <1>1, <2>1 DEF TablesInd, Served, Grown
  <2>2. CASE d # c
    BY <1>1, <2>2 DEF TablesInd, Served, Grown
  <2> QED BY <2>1, <2>2
<1>4. ASSUME NEW w \in Workers, slot'[w] # 0
      PROVE  /\ hand'[slot'[w]] # "free" /\ home'[slot'[w]] = w
             /\ hand'[slot'[w]] \in Serving \/ slot'[w] \in botched'
  <2>1. CASE slot[w] = c
    BY <1>1, <1>4, <2>1 DEF TablesInd, Served, Grown
  <2>2. CASE slot[w] # c
    BY <1>1, <1>2, <1>4, <2>2 DEF TablesInd, Served, Grown
  <2> QED BY <2>1, <2>2
<1> QED BY <1>3, <1>4 DEF TablesInd, Served

LEMMA ConnTables ==
  ASSUME GatewayTypeOK, TablesInd, NEW c \in Conns, ConnStep(c)
  PROVE  TablesInd'
<1> LinkTyped
  BY TypedParts
<1> USE DEF Goto, Serving, Hand, Served, Grown, ban, gatewayPast
<1>1. CASE Authenticate(c)
  <2>1. CASE Valid(home[c])
    BY <1>1, <2>1, TablesGoto DEF Authenticate, Valid
  <2>2. CASE ~Valid(home[c])
    BY <1>1, <2>2, TablesGoto DEF Authenticate
  <2> QED BY <2>1, <2>2
<1>2. CASE AuthenticateFails(c)
  BY <1>2, TablesGoto DEF AuthenticateFails
<1>3. CASE Accept(c)
  <2>1. CASE Goto(c, "closed") /\ UNCHANGED <<slot, overtaken>>
    BY <1>3, <2>1, TablesGoto DEF Accept
  <2>2. CASE /\ slot' = [slot EXCEPT ![home[c]] = c] /\ Goto(c, "register")
             /\ overtaken' = overtaken \cup ({slot[home[c]]} \ {0})
    <3>1. /\ home' = home /\ vetted' = vetted /\ botched' = botched /\ barred' = barred
          /\ home[c] \in Workers /\ c \in vetted
      BY <1>3 DEF Accept, TablesInd
    <3>2. /\ hand'[c] = "register" /\ slot'[home[c]] = c
          /\ \A d \in Conns \ {c} : hand'[d] = hand[d]
          /\ \A w \in Workers \ {home[c]} : slot'[w] = slot[w]
      BY <2>2, <3>1 DEF LinkTyped
    <3>3. \A w \in Workers : slot[w] # 0 => slot[w] \in Conns
      BY GatewayBounds DEF LinkTyped, Conns
    <3>4. ASSUME NEW d \in Conns
          PROVE  /\ hand'[d] # "free" => home'[d] \in Workers
                 /\ hand'[d] = "accept" \/ hand'[d] \in Serving => d \in vetted'
                 /\ hand'[d] \in Serving /\ home'[d] \notin barred' => slot'[home'[d]] = d \/ d \in overtaken'
      <4>1. CASE d = c
        BY <3>1, <3>2, <4>1
      <4>2. CASE d # c /\ home[d] = home[c]
        BY <2>2, <3>1, <3>2, <4>2, GatewayBounds DEF TablesInd
      <4>3. CASE d # c /\ home[d] # home[c]
        BY <2>2, <3>1, <3>2, <4>3 DEF TablesInd
      <4> QED BY <4>1, <4>2, <4>3
    <3>5. ASSUME NEW w \in Workers, slot'[w] # 0
          PROVE  /\ hand'[slot'[w]] # "free" /\ home'[slot'[w]] = w
                 /\ hand'[slot'[w]] \in Serving \/ slot'[w] \in botched'
      <4>1. CASE w = home[c]
        BY <3>1, <3>2, <4>1
      <4>2. CASE w # home[c]
        BY <3>1, <3>2, <3>3, <3>5, <4>2 DEF TablesInd
      <4> QED BY <4>1, <4>2
    <3> QED BY <3>4, <3>5 DEF TablesInd
  <2> QED BY <1>3, <2>1, <2>2 DEF Accept
<1>4. CASE Register(c)
  BY <1>4, TablesGoto DEF Register, TablesInd
<1>5. CASE RegisterFails(c)
  BY <1>5, TablesGoto DEF RegisterFails
<1>6. CASE Subscribe(c)
  BY <1>6, TablesGoto DEF Subscribe, TablesInd
<1>7. CASE DeliverPending(c)
  <2>1. c \in vetted /\ UNCHANGED <<home, slot, barred, vetted, overtaken, botched>>
    BY <1>7 DEF DeliverPending, TablesInd
  <2>2. Goto(c, "clear") \/ Goto(c, "open")
    BY <1>7 DEF DeliverPending
  <2> QED BY <1>7, <2>1, <2>2, TablesGoto DEF DeliverPending
<1>8. CASE ClearPending(c)
  BY <1>8, TablesGoto DEF ClearPending, TablesInd
<1>9. CASE ClearFails(c)
  BY <1>9, TablesGoto DEF ClearFails, TablesInd
<1>10. CASE Forward(c)
  BY <1>10, TablesStay DEF Forward
<1>11. CASE Disconnect(c)
  <2>1. CASE slot[home[c]] # c
    BY <1>11, <2>1, TablesGoto DEF Disconnect
  <2>2. CASE slot[home[c]] = c
    <3>1. /\ home' = home /\ vetted' = vetted /\ botched' = botched /\ barred' = barred
          /\ overtaken' = overtaken /\ home[c] \in Workers
      BY <1>11 DEF Disconnect, TablesInd
    <3>2. /\ hand'[c] = "check" /\ slot'[home[c]] = 0
          /\ \A d \in Conns \ {c} : hand'[d] = hand[d]
          /\ \A w \in Workers \ {home[c]} : slot'[w] = slot[w]
      BY <1>11, <2>2, <3>1 DEF Disconnect, LinkTyped
    <3>3. \A w \in Workers : slot[w] # 0 => slot[w] \in Conns
      BY GatewayBounds DEF LinkTyped, Conns
    <3>4. ASSUME NEW d \in Conns
          PROVE  /\ hand'[d] # "free" => home'[d] \in Workers
                 /\ hand'[d] = "accept" \/ hand'[d] \in Serving => d \in vetted'
                 /\ hand'[d] \in Serving /\ home'[d] \notin barred' => slot'[home'[d]] = d \/ d \in overtaken'
      <4>1. CASE d = c
        BY <3>1, <3>2, <4>1
      <4>2. CASE d # c /\ home[d] = home[c]
        BY <2>2, <3>1, <3>2, <4>2 DEF TablesInd
      <4>3. CASE d # c /\ home[d] # home[c]
        BY <3>1, <3>2, <4>3 DEF TablesInd
      <4> QED BY <4>1, <4>2, <4>3
    <3>5. ASSUME NEW w \in Workers, slot'[w] # 0
          PROVE  /\ hand'[slot'[w]] # "free" /\ home'[slot'[w]] = w
                 /\ hand'[slot'[w]] \in Serving \/ slot'[w] \in botched'
      <4>1. w # home[c]
        BY <3>2, <3>5
      <4>2. slot[w] # c
        BY <3>2, <3>5, <4>1 DEF TablesInd
      <4> QED BY <3>1, <3>2, <3>3, <3>5, <4>1, <4>2 DEF TablesInd
    <3> QED BY <3>4, <3>5 DEF TablesInd
  <2> QED BY <2>1, <2>2
<1>12. CASE CheckRoute(c)
  BY <1>12, TablesGoto DEF CheckRoute
<1>13. CASE DeleteRoute(c)
  BY <1>13, TablesGoto DEF DeleteRoute
<1>14. CASE DisconnectFails(c)
  BY <1>14, TablesGoto DEF DisconnectFails
<1>15. CASE Unsubscribe(c)
  BY <1>15, TablesGoto, Zenon DEF Unsubscribe
<1> QED
  BY <1>1, <1>2, <1>3, <1>4, <1>5, <1>6, <1>7, <1>8, <1>9, <1>10, <1>11, <1>12, <1>13, <1>14, <1>15
     DEF ConnStep, Serve

LEMMA OtherTables ==
  ASSUME GatewayTypeOK, TablesInd,
         \/ \E c \in Conns, w \in Workers : Open(c, w)
         \/ \E k \in Cmds : CmdStep(k)
         \/ WorkerStep
  PROVE  TablesInd'
<1> LinkTyped /\ SharedTyped
  BY TypedParts
<1> USE DEF Serving, Served
<1>1. \A w \in Workers : slot[w] # 0 => slot[w] \in Conns
  BY GatewayBounds DEF LinkTyped, Conns
<1>2. CASE \E c \in Conns, w \in Workers : Open(c, w)
  <2>1. PICK c \in Conns, w \in Workers : Open(c, w)
    BY <1>2
  <2>2. /\ hand[c] = "free" /\ hand'[c] = "auth" /\ home'[c] = w
        /\ \A d \in Conns \ {c} : hand'[d] = hand[d] /\ home'[d] = home[d]
        /\ slot' = slot /\ barred' = barred
        /\ vetted' = vetted /\ overtaken' = overtaken /\ botched' = botched
    BY <2>1 DEF Open, LinkTyped, ban, gatewayPast
  <2>3. \A v \in Workers : slot[v] # 0 => slot[v] \in Conns \ {c}
    BY <1>1, <2>2 DEF TablesInd
  <2> QED BY <2>2, <2>3 DEF TablesInd
<1>3. CASE \E k \in Cmds : CmdStep(k)
  <2>1. PICK k \in Cmds : CmdStep(k)
    BY <1>3, Zenon
  <2>2. UNCHANGED <<home, hand, slot, barred, vetted, overtaken, botched>>
    BY <2>1, Zenon DEF CmdStep, SendStep, Dispatch, SendLocal, PublishCommand, ReadOwner, Park, SendFails,
                ExpireStatus, Acknowledge, linkState, ban, gatewayPast
  <2> QED BY <2>2, TablesStay DEF Grown
<1>4. CASE RevokeStart \/ RevokeKeys \/ RevokeToken \/ RevokePublish \/ Break
  <2>1. UNCHANGED <<home, hand, slot, barred, vetted, overtaken, botched>>
    BY <1>4 DEF RevokeStart, RevokeKeys, RevokeToken, RevokePublish, Break, linkState, ban, gatewayPast
  <2> QED BY <2>1, TablesStay DEF Grown
<1>5. CASE \E w \in Workers : DropRevoked(w)
  <2>1. PICK w \in Workers : DropRevoked(w)
    BY <1>5
  <2>2. /\ slot'[w] = 0 /\ \A v \in Workers \ {w} : slot'[v] = slot[v]
        /\ home' = home /\ hand' = hand /\ barred' = barred \cup {w}
        /\ vetted' = vetted /\ overtaken' = overtaken /\ botched' = botched
    BY <2>1 DEF DropRevoked, LinkTyped, gatewayPast
  <2> QED BY <2>2 DEF TablesInd
<1>6. CASE \E w \in Workers : Crash(w)
  <2>1. PICK w \in Workers : Crash(w)
    BY <1>6
  <2>2. /\ slot'[w] = 0 /\ \A v \in Workers \ {w} : slot'[v] = slot[v]
        /\ home' = home /\ barred' = barred \ {w}
        /\ \A c \in Conns : hand'[c] = IF home[c] = w THEN "closed" ELSE hand[c]
        /\ vetted' = vetted /\ overtaken' = overtaken /\ botched' = botched
    BY <2>1 DEF Crash, LinkTyped
  <2>3. ASSUME NEW d \in Conns
        PROVE  /\ hand'[d] # "free" => home'[d] \in Workers
               /\ hand'[d] = "accept" \/ hand'[d] \in Serving => d \in vetted'
               /\ hand'[d] \in Serving /\ home'[d] \notin barred' => slot'[home'[d]] = d \/ d \in overtaken'
    BY <2>1, <2>2 DEF TablesInd
  <2>4. ASSUME NEW v \in Workers, slot'[v] # 0
        PROVE  /\ hand'[slot'[v]] # "free" /\ home'[slot'[v]] = v
               /\ hand'[slot'[v]] \in Serving \/ slot'[v] \in botched'
    BY <1>1, <2>2, <2>4 DEF TablesInd
  <2> QED BY <2>3, <2>4 DEF TablesInd
<1> QED BY <1>2, <1>3, <1>4, <1>5, <1>6 DEF WorkerStep, RevokeStep

-----------------------------------------------------------------------------
(* The counts *)

LEMMA TailWaits ==
  ASSUME NEW box \in Seq(Cmds), box # <<>>
  PROVE  /\ Head(box) \in Cmds /\ 1 \in DOMAIN box /\ box[1] = Head(box)
         /\ \A i \in DOMAIN Tail(box) : i \in Nat \ {0} /\ i + 1 \in DOMAIN box /\ Tail(box)[i] = box[i + 1]
         /\ \A k : Waits(Tail(box), k) => Waits(box, k)
<1>1. /\ Head(box) \in Cmds /\ 1 \in DOMAIN box /\ box[1] = Head(box)
      /\ \A i \in DOMAIN Tail(box) : i \in Nat \ {0} /\ i + 1 \in DOMAIN box /\ Tail(box)[i] = box[i + 1]
  OBVIOUS
<1>2. \A k : Waits(Tail(box), k) => Waits(box, k)
  BY <1>1 DEF Waits
<1> QED BY <1>1, <1>2

LEMMA AppendWaits ==
  ASSUME NEW box \in Seq(Cmds), NEW k \in Cmds
  PROVE  /\ \A j \in Cmds \ {k} :
              /\ Waits(Append(box, k), j) <=> Waits(box, j)
              /\ \A i \in DOMAIN Append(box, k) : Append(box, k)[i] = j => i \in DOMAIN box /\ box[i] = j
         /\ ~Waits(box, k) => \A i \in DOMAIN Append(box, k) : Append(box, k)[i] = k => i = Len(box) + 1
<1>1. /\ DOMAIN Append(box, k) = 1 .. Len(box) + 1 /\ DOMAIN box = 1 .. Len(box) /\ Len(box) \in Nat
      /\ \A i \in 1 .. Len(box) : Append(box, k)[i] = box[i]
      /\ Append(box, k)[Len(box) + 1] = k
  OBVIOUS
<1>2. \A i \in DOMAIN Append(box, k) : i \in DOMAIN box \/ i = Len(box) + 1
  BY <1>1
<1>3. \A i \in DOMAIN box : i \in DOMAIN Append(box, k) /\ Append(box, k)[i] = box[i]
  BY <1>1
<1> QED BY <1>1, <1>2, <1>3 DEF Waits

\* Calls may be given up and inboxes dropped.
LEMMA CountsThin ==
  ASSUME CmdsTyped, CountsInd, NEW k \in Cmds,
         call'[k] = call[k] \/ call'[k] = [call[k] EXCEPT !.step = "no"],
         \A c \in Conns : inbox'[c] = inbox[c] \/ inbox'[c] = <<>>,
         got' = got, parked' = parked, replays \subseteq replays',
         parked = k /\ Clearing # {} => Clearing' # {} \/ parked \in replays'
  PROVE  Counted(call'[k], inbox', k, got'[k], parked' = k, k \in replays', Clearing' # {})
<1> DEFINE old == call[k]
           new == call'[k]
<1>1. Counted(old, inbox, k, got[k], parked = k, k \in replays, Clearing # {})
  BY DEF CountsInd
<1>2. new.heard = old.heard /\ (new.step = old.step \/ new.step = "no")
  BY DEF CmdsTyped, CmdCall
<1>3. \A c \in Conns : Waits(inbox'[c], k) => inbox'[c] = inbox[c]
  BY DEF Waits
<1>4. OnceIn(inbox, k, got[k]) => OnceIn(inbox', k, got'[k])
  BY <1>3 DEF OnceIn
<1> HIDE DEF old, new
<1>6. got'[k] = got[k] /\ ((parked' = k) <=> (parked = k))
  OBVIOUS
<1>7. /\ new.step \in {"new", "look"} => new.heard = 0
      /\ new.heard = 0 /\ new.step \in {"new", "look", "owner", "park"} => got'[k] = 0
      /\ parked' = k => new.step = "no"
  BY <1>1, <1>2, <1>6 DEF Counted
<1>8. new.heard = 0 =>
       /\ \A c \in Conns : ~Waits(inbox'[c], k)
       /\ k \in replays' \/ got'[k] = 0 \/ (got'[k] = 1 /\ (parked' = k => Clearing' # {}))
  BY <1>1, <1>2, <1>3, <1>6 DEF Counted
<1>9. new.heard = 1 /\ new.step # "no" => OnceIn(inbox', k, got'[k])
  BY <1>1, <1>2, <1>4 DEF Counted
<1> QED BY <1>7, <1>8, <1>9 DEF Counted, new

LEMMA CountsStay ==
  ASSUME CmdsTyped, CountsInd, UNCHANGED <<call, inbox, got, parked>>, replays \subseteq replays',
         Clearing # {} /\ parked # 0 => Clearing' # {} \/ parked \in replays'
  PROVE  CountsInd'
<1> SUFFICES ASSUME NEW k \in Cmds
             PROVE  Counted(call'[k], inbox', k, got'[k], parked' = k, k \in replays', Clearing' # {})
  BY DEF CountsInd
<1> QED BY CountsThin, GatewayBounds

\* A connection that moves on leaves the other deliveries as they are.
LEMMA ClearingStays ==
  ASSUME LinkTyped, NEW c \in Conns, NEW step \in Hand, hand' = [hand EXCEPT ![c] = step],
         hand[c] = "clear" => step = "clear"
  PROVE  Clearing \subseteq Clearing'
BY DEF Clearing, LinkTyped

LEMMA ConnCounts ==
  ASSUME GatewayTypeOK, CountsInd, NEW c \in Conns,
         ConnStep(c) \/ \E w \in Workers : Open(c, w)
  PROVE  CountsInd'
<1> LinkTyped /\ SharedTyped /\ CmdsTyped /\ PastTyped
  BY TypedParts
<1> USE DEF Goto, Hand, redis, gatewayPast
<1>1. CASE \E w \in Workers : Open(c, w)
  <2>1. Clearing \subseteq Clearing'
    BY <1>1, ClearingStays DEF Open
  <2> QED BY <1>1, <2>1, CountsStay DEF Open
<1>2. CASE Authenticate(c)
  <2>1. /\ hand[c] # "clear" /\ (Goto(c, "accept") \/ Goto(c, "closed"))
        /\ UNCHANGED <<call, inbox, got, parked, replays>>
    BY <1>2 DEF Authenticate
  <2>2. Clearing \subseteq Clearing'
    BY <2>1, ClearingStays
  <2> QED BY <2>1, <2>2, CountsStay
<1>3. CASE AuthenticateFails(c)
  <2>1. Clearing \subseteq Clearing'
    BY <1>3, ClearingStays DEF AuthenticateFails
  <2> QED BY <1>3, <2>1, CountsStay DEF AuthenticateFails
<1>4. CASE Accept(c)
  <2>1. /\ hand[c] # "clear" /\ (Goto(c, "register") \/ Goto(c, "closed"))
        /\ UNCHANGED <<call, inbox, got, parked, replays>>
    BY <1>4 DEF Accept
  <2>2. Clearing \subseteq Clearing'
    BY <2>1, ClearingStays
  <2> QED BY <2>1, <2>2, CountsStay
<1>5. CASE Register(c)
  <2>1. Clearing \subseteq Clearing'
    BY <1>5, ClearingStays DEF Register
  <2> QED BY <1>5, <2>1, CountsStay DEF Register
<1>6. CASE RegisterFails(c)
  <2>1. Clearing \subseteq Clearing'
    BY <1>6, ClearingStays DEF RegisterFails
  <2> QED BY <1>6, <2>1, CountsStay DEF RegisterFails
<1>7. CASE Subscribe(c)
  <2>1. Clearing \subseteq Clearing'
    BY <1>7, ClearingStays DEF Subscribe
  <2> QED BY <1>7, <2>1, CountsStay DEF Subscribe
<1>8. CASE Disconnect(c)
  <2>1. /\ hand[c] # "clear" /\ (Goto(c, "check") \/ Goto(c, "unsub"))
        /\ UNCHANGED <<call, inbox, got, parked, replays>>
    BY <1>8 DEF Disconnect
  <2>2. Clearing \subseteq Clearing'
    BY <2>1, ClearingStays
  <2> QED BY <2>1, <2>2, CountsStay
<1>9. CASE CheckRoute(c)
  <2>1. /\ hand[c] # "clear" /\ (Goto(c, "unroute") \/ Goto(c, "unsub"))
        /\ UNCHANGED <<call, inbox, got, parked, replays>>
    BY <1>9 DEF CheckRoute
  <2>2. Clearing \subseteq Clearing'
    BY <2>1, ClearingStays
  <2> QED BY <2>1, <2>2, CountsStay
<1>10. CASE DeleteRoute(c)
  <2>1. Clearing \subseteq Clearing'
    BY <1>10, ClearingStays DEF DeleteRoute
  <2> QED BY <1>10, <2>1, CountsStay DEF DeleteRoute
<1>11. CASE DisconnectFails(c)
  <2>1. Clearing \subseteq Clearing'
    BY <1>11, ClearingStays DEF DisconnectFails
  <2> QED BY <1>11, <2>1, CountsStay DEF DisconnectFails
<1>12. CASE DeliverPending(c)
  <2>1. CASE Goto(c, "open") /\ got' = got
    <3>1. Clearing \subseteq Clearing'
      BY <1>12, <2>1, ClearingStays DEF DeliverPending
    <3> QED BY <1>12, <2>1, <3>1, CountsStay DEF DeliverPending
  <2>2. CASE parked # 0 /\ Goto(c, "clear") /\ Reaches(c, parked)
    <3>1. /\ UNCHANGED <<call, inbox, parked>> /\ replays \subseteq replays'
          /\ Clearing # {} => parked \in replays'
      BY <1>12, <2>2 DEF DeliverPending
    <3>2. Clearing' # {}
      BY <2>2 DEF Clearing, LinkTyped
    <3>3. /\ \A k \in Cmds : k # parked => got'[k] = got[k]
          /\ parked \in Cmds /\ got[parked] \in Nat /\ got'[parked] \in {got[parked], got[parked] + 1}
      BY <2>2 DEF Reaches, CmdsTyped, SharedTyped, Cmds
    <3>4. ASSUME NEW k \in Cmds
          PROVE  Counted(call'[k], inbox', k, got'[k], parked' = k, k \in replays', Clearing' # {})
      <4>1. Counted(call[k], inbox, k, got[k], parked = k, k \in replays, Clearing # {})
        BY DEF CountsInd
      <4>2. CASE k # parked
        BY <3>1, <3>3, <4>1, <4>2 DEF Counted
      <4>3. CASE k = parked
        <5>1. call[k].step = "no"
          BY <4>1, <4>3 DEF Counted
        <5>2. call[k].heard = 0 => \A d \in Conns : ~Waits(inbox[d], k)
          BY <4>1 DEF Counted
        <5>3. call[k].heard = 0 => k \in replays' \/ got[k] = 0
          BY <3>1, <4>1, <4>3 DEF Counted
        <5>4. got'[k] = 0 \/ got'[k] = 1 \/ got[k] # 0
          BY <3>3, <4>3
        <5> QED BY <3>1, <3>2, <5>1, <5>2, <5>3, <5>4 DEF Counted
      <4> QED BY <4>2, <4>3
    <3> QED BY <3>4 DEF CountsInd
  <2> QED BY <1>12, <2>1, <2>2 DEF DeliverPending
<1>13. CASE ClearPending(c)
  <2>1. UNCHANGED <<call, inbox, got, replays>> /\ parked' = 0
    BY <1>13 DEF ClearPending
  <2>2. \A k \in Cmds : parked' # k
    BY <2>1, GatewayBounds
  <2>3. ASSUME NEW k \in Cmds
        PROVE  Counted(call'[k], inbox', k, got'[k], parked' = k, k \in replays', Clearing' # {})
    <3>1. Counted(call[k], inbox, k, got[k], parked = k, k \in replays, Clearing # {})
      BY DEF CountsInd
    <3> QED BY <2>1, <2>2, <3>1 DEF Counted
  <2> QED BY <2>3 DEF CountsInd
<1>14. CASE ClearFails(c)
  <2>1. parked # 0 => parked \in replays'
    BY <1>14 DEF ClearFails
  <2> QED BY <1>14, <2>1, CountsStay DEF ClearFails
<1>15. CASE Forward(c)
  <2> DEFINE sent == Head(inbox[c])
  <2>1. inbox[c] \in Seq(Cmds) /\ inbox[c] # <<>>
    BY <1>15 DEF Forward, LinkTyped
  <2>2. /\ UNCHANGED <<call, hand, parked, replays>>
        /\ inbox' = [inbox EXCEPT ![c] = Tail(@)]
    BY <1>15 DEF Forward
  <2>3. /\ sent \in Cmds /\ 1 \in DOMAIN inbox[c] /\ inbox[c][1] = sent
        /\ \A i \in DOMAIN Tail(inbox[c]) :
             i \in Nat \ {0} /\ i + 1 \in DOMAIN inbox[c] /\ Tail(inbox[c])[i] = inbox[c][i + 1]
        /\ \A k : Waits(Tail(inbox[c]), k) => Waits(inbox[c], k)
    BY <2>1, TailWaits
  <2>4. /\ inbox'[c] = Tail(inbox[c])
        /\ \A d \in Conns \ {c} : inbox'[d] = inbox[d]
    BY <2>2 DEF LinkTyped
  <2>5. /\ \A k \in Cmds \ {sent} : got'[k] = got[k]
        /\ got[sent] \in Nat /\ got'[sent] \in {got[sent], got[sent] + 1}
    BY <1>15, <2>3 DEF Forward, Reaches, CmdsTyped
  <2>6. Clearing' = Clearing
    BY <2>2 DEF Clearing
  <2> HIDE DEF sent
  <2>7. \A k \in Cmds, d \in Conns : Waits(inbox'[d], k) => Waits(inbox[d], k)
    BY <2>3, <2>4
  <2>8. Waits(inbox[c], sent)
    BY <2>3 DEF Waits
  <2>9. ASSUME NEW k \in Cmds
        PROVE  Counted(call'[k], inbox', k, got'[k], parked' = k, k \in replays', Clearing' # {})
    <3>1. Counted(call[k], inbox, k, got[k], parked = k, k \in replays, Clearing # {})
      BY DEF CountsInd
    <3>2. CASE k # sent
      <4>1. got'[k] = got[k]
        BY <2>5, <3>2
      <4>2. ASSUME OnceIn(inbox, k, got[k])
            PROVE  OnceIn(inbox', k, got'[k])
        <5>1. ASSUME NEW d \in Conns, Waits(inbox[d], k), NEW i \in DOMAIN inbox'[d], NEW j \in DOMAIN inbox'[d],
                     inbox'[d][i] = k, inbox'[d][j] = k
              PROVE  i = j
          <6>1. CASE d # c
            BY <2>4, <4>2, <5>1, <6>1 DEF OnceIn
          <6>2. CASE d = c
            <7>1. /\ i \in Nat /\ i + 1 \in DOMAIN inbox[c] /\ inbox[c][i + 1] = k
                  /\ j \in Nat /\ j + 1 \in DOMAIN inbox[c] /\ inbox[c][j + 1] = k
              BY <2>3, <2>4, <5>1, <6>2
            <7>2. i + 1 = j + 1
              BY <4>2, <5>1, <6>2, <7>1 DEF OnceIn
            <7> QED BY <7>1, <7>2
          <6> QED BY <6>1, <6>2
        <5> QED BY <2>7, <4>1, <4>2, <5>1 DEF OnceIn
      <4> QED BY <2>2, <2>6, <2>7, <3>1, <4>1, <4>2 DEF Counted
    <3>3. CASE k = sent
      <4>1. call[k].heard # 0
        BY <2>8, <3>1, <3>3 DEF Counted
      <4>2. ASSUME OnceIn(inbox, k, got[k])
            PROVE  OnceIn(inbox', k, got'[k])
        <5>1. got[k] = 0 /\ \A d \in Conns : Waits(inbox[d], k) => c = d
          BY <2>8, <3>3, <4>2 DEF OnceIn
        <5>2. got'[k] <= 1
          BY <2>5, <3>3, <5>1
        <5>3. \A i, j \in DOMAIN inbox[c] : inbox[c][i] = k /\ inbox[c][j] = k => i = j
          BY <2>8, <3>3, <4>2 DEF OnceIn
        <5>4. ~Waits(Tail(inbox[c]), k)
          <6>1. SUFFICES ASSUME NEW i \in DOMAIN Tail(inbox[c]), Tail(inbox[c])[i] = k
                         PROVE  FALSE
            BY DEF Waits
          <6>2. i \in Nat \ {0} /\ i + 1 \in DOMAIN inbox[c] /\ inbox[c][i + 1] = k
            BY <2>3, <6>1
          <6>3. i + 1 = 1
            BY <2>3, <3>3, <5>3, <6>2
          <6> QED BY <6>2, <6>3
        <5>5. \A d \in Conns : ~Waits(inbox'[d], k)
          BY <2>4, <5>1, <5>4
        <5> QED BY <5>2, <5>5 DEF OnceIn
      <4> QED BY <2>2, <3>1, <4>1, <4>2 DEF Counted
    <3> QED BY <3>2, <3>3
  <2> QED BY <2>9 DEF CountsInd
<1>16. CASE Unsubscribe(c)
  <2>1. /\ UNCHANGED <<call, got, parked, replays>>
        /\ \A d \in Conns : inbox'[d] = inbox[d] \/ inbox'[d] = <<>>
    BY <1>16 DEF Unsubscribe, LinkTyped
  <2>2. Clearing \subseteq Clearing'
    BY <1>16, ClearingStays DEF Unsubscribe
  <2>3. ASSUME NEW k \in Cmds
        PROVE  Counted(call'[k], inbox', k, got'[k], parked' = k, k \in replays', Clearing' # {})
    BY <2>1, <2>2, CountsThin
  <2> QED BY <2>3 DEF CountsInd
<1> QED
  BY <1>1, <1>2, <1>3, <1>4, <1>5, <1>6, <1>7, <1>8, <1>9, <1>10, <1>11, <1>12, <1>13, <1>14, <1>15, <1>16
     DEF ConnStep, Serve

\* Only the call moves, and what it was published to stays the same.
LEMMA CallCounts ==
  ASSUME CmdsTyped, CountsInd, NEW k \in Cmds, NEW step \in {"look", "owner", "park", "yes", "no"},
         call[k].step = "look" => step # "park" /\ step # "owner",
         call[k].step \notin {"new", "yes", "no"}, step # "look",
         call' = [call EXCEPT ![k] = [call[k] EXCEPT !.step = step]],
         UNCHANGED <<inbox, got, parked, replays, hand>>
  PROVE  CountsInd'
<1>1. /\ call'[k].step = step /\ call'[k].heard = call[k].heard
      /\ \A j \in Cmds \ {k} : call'[j] = call[j]
  BY DEF CmdsTyped, CmdCall
<1>2. Clearing' = Clearing
  BY DEF Clearing
<1>3. call[k].step \in {"look", "owner", "park"}
  BY DEF CmdsTyped, CmdCall
<1>4. ASSUME NEW j \in Cmds
      PROVE  Counted(call'[j], inbox', j, got'[j], parked' = j, j \in replays', Clearing' # {})
  <2>1. Counted(call[j], inbox, j, got[j], parked = j, j \in replays, Clearing # {})
    BY DEF CountsInd
  <2>2. CASE j # k
    BY <1>1, <1>2, <2>1, <2>2 DEF Counted
  <2>3. CASE j = k
    <3>1. parked # k
      BY <1>3, <2>1, <2>3 DEF Counted
    <3>2. call[k].heard = 0 => got[k] = 0 /\ \A c \in Conns : ~Waits(inbox[c], k)
      BY <1>3, <2>1, <2>3 DEF Counted
    <3>3. call[k].heard = 1 => OnceIn(inbox, k, got[k])
      BY <1>3, <2>1, <2>3 DEF Counted
    <3> QED BY <1>1, <2>3, <3>1, <3>2, <3>3 DEF Counted
  <2> QED BY <2>2, <2>3
<1> QED BY <1>4 DEF CountsInd

LEMMA PublishCounts ==
  ASSUME GatewayTypeOK, CountsInd, NEW k \in Cmds, PublishCommand(k)
  PROVE  CountsInd'
<1> LinkTyped /\ CmdsTyped
  BY TypedParts
<1>1. /\ call[k].step = "look"
      /\ \A c \in Conns : inbox'[c] = IF c \in subs THEN Append(inbox[c], k) ELSE inbox[c]
      /\ UNCHANGED <<got, parked, replays, hand>>
  BY DEF PublishCommand, redis, gatewayPast
<1>2. /\ call'[k].step = "owner" /\ call'[k].heard = Cardinality(subs)
      /\ \A j \in Cmds \ {k} : call'[j] = call[j]
  <2>1. call' = [call EXCEPT ![k] = [call[k] EXCEPT !.step = "owner", !.heard = Cardinality(subs)]]
    BY DEF PublishCommand
  <2> QED BY <2>1 DEF CmdsTyped, CmdCall
<1>3. Clearing' = Clearing
  BY <1>1 DEF Clearing
<1>4. \A c \in Conns : inbox[c] \in Seq(Cmds)
  BY DEF LinkTyped
<1>5. ASSUME NEW j \in Cmds, j # k
      PROVE  Counted(call'[j], inbox', j, got'[j], parked' = j, j \in replays', Clearing' # {})
  <2>1. Counted(call[j], inbox, j, got[j], parked = j, j \in replays, Clearing # {})
    BY DEF CountsInd
  <2>2. ASSUME NEW c \in Conns
        PROVE  /\ Waits(inbox'[c], j) <=> Waits(inbox[c], j)
               /\ \A i \in DOMAIN inbox'[c] : inbox'[c][i] = j => i \in DOMAIN inbox[c] /\ inbox[c][i] = j
    <3>1. CASE c \in subs
      <4>1. inbox'[c] = Append(inbox[c], k) /\ inbox[c] \in Seq(Cmds)
        BY <1>1, <1>4, <3>1
      <4>2. /\ Waits(Append(inbox[c], k), j) <=> Waits(inbox[c], j)
            /\ \A i \in DOMAIN Append(inbox[c], k) :
                 Append(inbox[c], k)[i] = j => i \in DOMAIN inbox[c] /\ inbox[c][i] = j
        BY <1>5, <4>1, AppendWaits
      <4> QED BY <4>1, <4>2
    <3>2. CASE c \notin subs
      BY <1>1, <3>2
    <3> QED BY <3>1, <3>2
  <2>3. OnceIn(inbox, j, got[j]) => OnceIn(inbox', j, got'[j])
    BY <1>1, <2>2 DEF OnceIn
  <2> QED BY <1>1, <1>2, <1>3, <1>5, <2>1, <2>2, <2>3 DEF Counted
<1>6. Counted(call'[k], inbox', k, got'[k], parked' = k, k \in replays', Clearing' # {})
  <2>1. Counted(call[k], inbox, k, got[k], parked = k, k \in replays, Clearing # {})
    BY DEF CountsInd
  <2>2. got[k] = 0 /\ parked # k /\ \A c \in Conns : ~Waits(inbox[c], k)
    BY <1>1, <2>1 DEF Counted
  <2>3. IsFiniteSet(subs)
    BY SubscribersFinite DEF LinkTyped
  <2>4. Cardinality(subs) = 0 => \A c \in Conns : ~Waits(inbox'[c], k)
    BY <1>1, <2>2, <2>3, FS_EmptySet
  <2>5. ASSUME Cardinality(subs) = 1
        PROVE  OnceIn(inbox', k, got'[k])
    <3>1. PICK s : subs = {s}
      BY <2>3, <2>5, FS_Singleton
    <3>2. \A c \in Conns : Waits(inbox'[c], k) => c = s
      BY <1>1, <2>2, <3>1
    <3>3. s \in Conns
      BY <3>1 DEF LinkTyped
    <3>4. \A i \in DOMAIN inbox'[s] : inbox'[s][i] = k => i = Len(inbox[s]) + 1
      <4>1. inbox'[s] = Append(inbox[s], k) /\ inbox[s] \in Seq(Cmds) /\ ~Waits(inbox[s], k)
        BY <1>1, <1>4, <2>2, <3>1, <3>3
      <4>2. \A i \in DOMAIN Append(inbox[s], k) : Append(inbox[s], k)[i] = k => i = Len(inbox[s]) + 1
        BY <4>1, AppendWaits
      <4> QED BY <4>1, <4>2
    <3> QED BY <1>1, <2>2, <3>2, <3>4 DEF OnceIn
  <2> QED BY <1>1, <1>2, <2>2, <2>4, <2>5 DEF Counted
<1> QED BY <1>5, <1>6 DEF CountsInd

LEMMA CmdCounts ==
  ASSUME GatewayTypeOK, CountsInd, NEW k \in Cmds, CmdStep(k)
  PROVE  CountsInd'
<1> LinkTyped /\ CmdsTyped /\ SharedTyped
  BY TypedParts
<1> USE DEF linkState, gatewayPast, CallTo
<1>1. CASE \E w \in Workers : Dispatch(k, w)
  <2>1. PICK w \in Workers : Dispatch(k, w)
    BY <1>1
  <2>2. /\ call[k].step = "new" /\ call'[k].step = "look" /\ call'[k].heard = 0
        /\ \A j \in Cmds \ {k} : call'[j] = call[j]
    BY <2>1 DEF Dispatch, NotSent, CmdsTyped
  <2>3. UNCHANGED <<inbox, got, parked, replays, hand>>
    BY <2>1 DEF Dispatch
  <2>4. Clearing' = Clearing
    BY <2>3 DEF Clearing
  <2>5. ASSUME NEW j \in Cmds
        PROVE  Counted(call'[j], inbox', j, got'[j], parked' = j, j \in replays', Clearing' # {})
    <3>1. Counted(call[j], inbox, j, got[j], parked = j, j \in replays, Clearing # {})
      BY DEF CountsInd
    <3>2. CASE j # k
      BY <2>2, <2>3, <2>4, <3>1, <3>2 DEF Counted
    <3>3. CASE j = k
      BY <2>2, <2>3, <2>4, <3>1, <3>3 DEF Counted
    <3> QED BY <3>2, <3>3
  <2> QED BY <2>5 DEF CountsInd
<1>2. CASE SendLocal(k)
  <2>1. CASE CallTo(k, "no") /\ got' = got
    <3>1. call' = [call EXCEPT ![k] = [call[k] EXCEPT !.step = "no"]]
      BY <2>1
    <3>2. UNCHANGED <<inbox, parked, replays, hand>> /\ call[k].step = "look"
      BY <1>2 DEF SendLocal, redis
    <3> QED BY <2>1, <3>1, <3>2, CallCounts
  <2>2. CASE CallTo(k, "yes") /\ Reaches(slot[call[k].at], k)
    <3>1. /\ call[k].step = "look" /\ call'[k].step = "yes" /\ call'[k].heard = call[k].heard
          /\ \A j \in Cmds \ {k} : call'[j] = call[j] /\ got'[j] = got[j]
          /\ got[k] \in Nat /\ got'[k] \in {got[k], got[k] + 1}
      BY <1>2, <2>2 DEF SendLocal, Reaches, CmdsTyped, CmdCall
    <3>2. UNCHANGED <<inbox, parked, replays, hand>>
      BY <1>2 DEF SendLocal, redis
    <3>3. Clearing' = Clearing
      BY <3>2 DEF Clearing
    <3>4. ASSUME NEW j \in Cmds
          PROVE  Counted(call'[j], inbox', j, got'[j], parked' = j, j \in replays', Clearing' # {})
      <4>1. Counted(call[j], inbox, j, got[j], parked = j, j \in replays, Clearing # {})
        BY DEF CountsInd
      <4>2. CASE j # k
        BY <3>1, <3>2, <3>3, <4>1, <4>2 DEF Counted
      <4>3. CASE j = k
        <5>1. call[k].heard = 0 /\ got[k] = 0 /\ parked # k /\ \A c \in Conns : ~Waits(inbox[c], k)
          BY <3>1, <4>1, <4>3 DEF Counted
        <5>2. got'[k] = 0 \/ got'[k] = 1
          BY <3>1, <5>1
        <5> QED BY <3>1, <3>2, <4>3, <5>1, <5>2 DEF Counted
      <4> QED BY <4>2, <4>3
    <3> QED BY <3>4 DEF CountsInd
  <2> QED BY <1>2, <2>1, <2>2 DEF SendLocal
<1>3. CASE PublishCommand(k)
  BY <1>3, PublishCounts
<1>4. CASE ReadOwner(k)
  <2>1. PICK step \in {"yes", "park"} : CallTo(k, step)
    BY <1>4 DEF ReadOwner
  <2>2. call' = [call EXCEPT ![k] = [call[k] EXCEPT !.step = step]]
    BY <2>1
  <2>3. UNCHANGED <<inbox, got, parked, replays, hand>> /\ call[k].step = "owner"
    BY <1>4 DEF ReadOwner, redis
  <2> QED BY <2>2, <2>3, CallCounts
<1>5. CASE Park(k)
  <2>1. /\ call[k].step = "park" /\ call'[k].step = "no" /\ call'[k].heard = call[k].heard
        /\ \A j \in Cmds \ {k} : call'[j] = call[j]
    BY <1>5 DEF Park, CmdsTyped, CmdCall
  <2>2. UNCHANGED <<inbox, got, replays, hand>> /\ parked' = k
    BY <1>5 DEF Park
  <2>3. Clearing' = Clearing
    BY <2>2 DEF Clearing
  <2>4. ASSUME NEW j \in Cmds
        PROVE  Counted(call'[j], inbox', j, got'[j], parked' = j, j \in replays', Clearing' # {})
    <3>1. Counted(call[j], inbox, j, got[j], parked = j, j \in replays, Clearing # {})
      BY DEF CountsInd
    <3>2. CASE j # k
      BY <2>1, <2>2, <2>3, <3>1, <3>2 DEF Counted
    <3>3. CASE j = k
      <4>1. call[k].heard = 0 => got[k] = 0 /\ \A c \in Conns : ~Waits(inbox[c], k)
        BY <2>1, <3>1, <3>3 DEF Counted
      <4> QED BY <2>1, <2>2, <3>3, <4>1 DEF Counted
    <3> QED BY <3>2, <3>3
  <2> QED BY <2>4 DEF CountsInd
<1>6. CASE SendFails(k)
  <2>1. call' = [call EXCEPT ![k] = [call[k] EXCEPT !.step = "no"]]
    BY <1>6 DEF SendFails
  <2>2. UNCHANGED <<inbox, got, parked, replays, hand>> /\ call[k].step \in {"look", "owner", "park"}
    BY <1>6 DEF SendFails, redis
  <2> QED BY <2>1, <2>2, CallCounts
<1>7. CASE ExpireStatus(k) \/ \E c \in Conns : Acknowledge(k, c)
  <2>1. UNCHANGED <<call, inbox, got, parked, replays, hand>>
    BY <1>7 DEF ExpireStatus, Acknowledge
  <2>2. Clearing' = Clearing
    BY <2>1 DEF Clearing
  <2> QED BY <2>1, <2>2, CountsStay
<1> QED BY <1>1, <1>2, <1>3, <1>4, <1>5, <1>6, <1>7 DEF CmdStep, SendStep

LEMMA WorkerCounts ==
  ASSUME GatewayTypeOK, CountsInd, WorkerStep
  PROVE  CountsInd'
<1> LinkTyped /\ CmdsTyped /\ SharedTyped
  BY TypedParts
<1>1. CASE RevokeStart \/ RevokeKeys \/ RevokeToken \/ RevokePublish \/ Break \/ \E w \in Workers : DropRevoked(w)
  <2>1. UNCHANGED <<call, inbox, got, parked, replays, hand>>
    BY <1>1 DEF RevokeStart, RevokeKeys, RevokeToken, RevokePublish, Break, DropRevoked,
                linkState, redis, gatewayPast
  <2>2. Clearing' = Clearing
    BY <2>1 DEF Clearing
  <2> QED BY <2>1, <2>2, CountsStay
<1>2. CASE \E w \in Workers : Crash(w)
  <2>1. PICK w \in Workers : Crash(w)
    BY <1>2
  <2>2. /\ \A k \in Cmds : call'[k] = call[k] \/ call'[k] = [call[k] EXCEPT !.step = "no"]
        /\ \A c \in Conns : inbox'[c] = inbox[c] \/ inbox'[c] = <<>>
        /\ UNCHANGED <<got, parked>> /\ replays \subseteq replays'
    BY <2>1 DEF Crash, redis
  <2>3. CASE \E c \in Clearing : home[c] = w
    <3>1. parked # 0 => parked \in replays'
      BY <2>1, <2>3 DEF Crash
    <3>2. ASSUME NEW k \in Cmds
          PROVE  Counted(call'[k], inbox', k, got'[k], parked' = k, k \in replays', Clearing' # {})
      BY <2>2, <3>1, CountsThin, GatewayBounds, ZenonT(60)
    <3> QED BY <3>2 DEF CountsInd
  <2>4. CASE \A c \in Clearing : home[c] # w
    <3>1. Clearing \subseteq Clearing'
      BY <2>1, <2>4 DEF Crash, Clearing
    <3>2. ASSUME NEW k \in Cmds
          PROVE  Counted(call'[k], inbox', k, got'[k], parked' = k, k \in replays', Clearing' # {})
      BY <2>2, <3>1, CountsThin
    <3> QED BY <3>2 DEF CountsInd
  <2> QED BY <2>3, <2>4
<1> QED BY <1>1, <1>2 DEF WorkerStep, RevokeStep

-----------------------------------------------------------------------------
(* The route *)

LEMMA RouteStays ==
  ASSUME RouteInd, home' = home, route' = route, diverted' = diverted,
         \A d \in Conns : hand'[d] = "unroute" => hand[d] = "unroute",
         Routed' \subseteq Routed
  PROVE  RouteInd'
BY DEF RouteInd, RouteFollowsOwner

\* A coroutine that moves on, without writing the key.
LEMMA RouteGoto ==
  ASSUME LinkTyped, RouteInd, NEW c \in Conns, NEW step \in Hand \ {"unroute"},
         hand' = [hand EXCEPT ![c] = step],
         step \in {"subscribe", "deliver", "clear", "open"} => c \in Routed,
         home' = home, route' = route, diverted' = diverted
  PROVE  RouteInd'
<1>1. /\ hand'[c] = step
      /\ \A d \in Conns \ {c} : hand'[d] = hand[d]
  BY DEF LinkTyped
<1>2. \A d \in Conns : hand'[d] = "unroute" => hand[d] = "unroute"
  BY <1>1
<1>3. Routed' \subseteq Routed
  BY <1>1 DEF Routed
<1> QED BY <1>2, <1>3, RouteStays

LEMMA ConnRoute ==
  ASSUME GatewayTypeOK, RouteInd, NEW c \in Conns,
         ConnStep(c) \/ \E w \in Workers : Open(c, w)
  PROVE  RouteInd'
<1> LinkTyped
  BY TypedParts
<1> USE DEF Goto, Hand, redis
<1>1. CASE \E w \in Workers : Open(c, w)
  <2>1. /\ hand[c] = "free" /\ hand'[c] = "auth"
        /\ \A d \in Conns \ {c} : hand'[d] = hand[d] /\ home'[d] = home[d]
        /\ route' = route /\ diverted' = diverted
    BY <1>1 DEF Open, LinkTyped
  <2>2. Routed' = Routed /\ c \notin Routed
    BY <2>1 DEF Routed
  <2> QED BY <2>1, <2>2 DEF RouteInd, RouteFollowsOwner, Routed
<1>2. CASE Authenticate(c)
  <2>1. CASE Valid(home[c])
    BY <1>2, <2>1, RouteGoto DEF Authenticate
  <2>2. CASE ~Valid(home[c])
    BY <1>2, <2>2, RouteGoto DEF Authenticate
  <2> QED BY <2>1, <2>2
<1>3. CASE AuthenticateFails(c)
  BY <1>3, RouteGoto DEF AuthenticateFails
<1>4. CASE Accept(c)
  <2>1. /\ Goto(c, "register") \/ Goto(c, "closed")
        /\ home' = home /\ route' = route /\ diverted' = diverted
    BY <1>4 DEF Accept
  <2> QED BY <2>1, RouteGoto
<1>5. CASE Register(c)
  <2>1. /\ hand[c] = "register" /\ hand'[c] = "subscribe"
        /\ \A d \in Conns \ {c} : hand'[d] = hand[d]
        /\ home' = home /\ route' = home[c]
        /\ diverted' = diverted \cup {d \in Routed : home[d] # home[c]}
                               \cup {d \in {c} : \E old \in Conns : hand[old] = "unroute"}
    BY <1>5 DEF Register, LinkTyped
  <2>2. Routed' = Routed \cup {c} /\ Routed \subseteq Conns
    BY <2>1 DEF Routed
  <2>3. RouteFollowsOwner'
    BY <2>1, <2>2 DEF RouteFollowsOwner
  <2>4. ASSUME NEW old \in Conns, hand'[old] = "unroute", NEW d \in Routed'
        PROVE  home'[d] = home'[old] \/ d \in diverted'
    <3>1. hand[old] = "unroute"
      BY <2>1, <2>4
    <3>2. CASE d = c
      BY <2>1, <3>1, <3>2
    <3>3. CASE d # c
      BY <2>1, <2>2, <2>4, <3>1, <3>3 DEF RouteInd
    <3> QED BY <3>2, <3>3
  <2> QED BY <2>3, <2>4 DEF RouteInd
<1>6. CASE RegisterFails(c)
  BY <1>6, RouteGoto DEF RegisterFails
<1>7. CASE Subscribe(c)
  BY <1>7, RouteGoto DEF Subscribe, Routed
<1>8. CASE DeliverPending(c)
  <2>1. /\ hand[c] = "deliver" /\ (Goto(c, "clear") \/ Goto(c, "open"))
        /\ home' = home /\ route' = route /\ diverted' = diverted
    BY <1>8 DEF DeliverPending
  <2> QED BY <2>1, RouteGoto DEF Routed
<1>9. CASE ClearPending(c)
  BY <1>9, RouteGoto DEF ClearPending, Routed
<1>10. CASE ClearFails(c)
  BY <1>10, RouteGoto DEF ClearFails, Routed
<1>11. CASE Forward(c)
  <2>1. UNCHANGED <<home, hand, route, diverted>>
    BY <1>11 DEF Forward
  <2>2. Routed' = Routed
    BY <2>1 DEF Routed
  <2> QED BY <2>1, <2>2, RouteStays
<1>12. CASE Disconnect(c)
  <2>1. /\ Goto(c, "check") \/ Goto(c, "unsub")
        /\ home' = home /\ route' = route /\ diverted' = diverted
    BY <1>12 DEF Disconnect
  <2> QED BY <2>1, RouteGoto
<1>13. CASE CheckRoute(c)
  <2>1. CASE route = home[c]
    <3>1. /\ hand[c] = "check" /\ hand'[c] = "unroute"
          /\ \A d \in Conns \ {c} : hand'[d] = hand[d]
          /\ home' = home /\ route' = route /\ diverted' = diverted
      BY <1>13, <2>1 DEF CheckRoute, LinkTyped
    <3>2. Routed' = Routed
      BY <3>1 DEF Routed
    <3> QED BY <2>1, <3>1, <3>2 DEF RouteInd, RouteFollowsOwner
  <2>2. CASE route # home[c]
    BY <1>13, <2>2, RouteGoto DEF CheckRoute
  <2> QED BY <2>1, <2>2
<1>14. CASE DeleteRoute(c)
  <2>1. /\ hand[c] = "unroute" /\ hand'[c] = "unsub"
        /\ \A d \in Conns \ {c} : hand'[d] = hand[d]
        /\ home' = home /\ diverted' = diverted \cup {d \in Routed : home[d] = home[c]}
    BY <1>14 DEF DeleteRoute, LinkTyped
  <2>2. Routed' = Routed
    BY <2>1 DEF Routed
  <2>3. Routed' \subseteq diverted'
    BY <2>1, <2>2 DEF RouteInd
  <2> QED BY <2>3 DEF RouteInd, RouteFollowsOwner
<1>15. CASE DisconnectFails(c)
  BY <1>15, RouteGoto DEF DisconnectFails
<1>16. CASE Unsubscribe(c)
  BY <1>16, RouteGoto, Zenon DEF Unsubscribe
<1> QED
  BY <1>1, <1>2, <1>3, <1>4, <1>5, <1>6, <1>7, <1>8, <1>9, <1>10, <1>11, <1>12, <1>13, <1>14, <1>15, <1>16
     DEF ConnStep, Serve

LEMMA OtherRoute ==
  ASSUME RouteInd, (\E k \in Cmds : CmdStep(k)) \/ WorkerStep
  PROVE  RouteInd'
<1>1. CASE \E k \in Cmds : CmdStep(k)
  <2>1. PICK k \in Cmds : CmdStep(k)
    BY <1>1, Zenon
  <2>2. UNCHANGED <<home, hand, route, diverted>>
    BY <2>1, Zenon DEF CmdStep, SendStep, Dispatch, SendLocal, PublishCommand, ReadOwner, Park, SendFails,
                ExpireStatus, Acknowledge, linkState, redis
  <2>3. Routed' = Routed
    BY <2>2 DEF Routed
  <2> QED BY <2>2, <2>3, RouteStays
<1>2. CASE RevokeStart \/ RevokeToken \/ RevokePublish \/ Break \/ \E w \in Workers : DropRevoked(w)
  <2>1. UNCHANGED <<home, hand, route, diverted>>
    BY <1>2 DEF RevokeStart, RevokeToken, RevokePublish, Break, DropRevoked, linkState, redis
  <2>2. Routed' = Routed
    BY <2>1 DEF Routed
  <2> QED BY <2>1, <2>2, RouteStays
<1>3. CASE RevokeKeys
  <2>1. home' = home /\ hand' = hand /\ diverted' = diverted \cup Routed
    BY <1>3 DEF RevokeKeys, linkState
  <2>2. Routed' \subseteq diverted'
    BY <2>1 DEF Routed
  <2> QED BY <2>2 DEF RouteInd, RouteFollowsOwner
<1>4. CASE \E w \in Workers : Crash(w)
  <2>1. PICK w \in Workers : Crash(w)
    BY <1>4
  <2>2. /\ home' = home /\ route' = route /\ diverted' = diverted
        /\ \A c \in Conns : hand'[c] = IF home[c] = w THEN "closed" ELSE hand[c]
    BY <2>1 DEF Crash, redis
  <2>3. Routed' \subseteq Routed
    BY <2>2 DEF Routed
  <2>4. \A d \in Conns : hand'[d] = "unroute" => hand[d] = "unroute"
    BY <2>2
  <2> QED BY <2>2, <2>3, <2>4, RouteStays
<1> QED BY <1>1, <1>2, <1>3, <1>4 DEF WorkerStep, RevokeStep

-----------------------------------------------------------------------------
(* The theorem *)

LEMMA GatewayStarts == GatewayInit => GatewayInd
<1> SUFFICES ASSUME GatewayInit PROVE GatewayInd
  OBVIOUS
<1> USE GatewayBounds DEF GatewayInit
<1>1. LinkTyped /\ SharedTyped
  BY DEF LinkTyped, SharedTyped, Hand
<1>2. CmdsTyped /\ PastTyped
  BY DEF CmdsTyped, PastTyped, CmdCall, NotSent
<1>3. TablesInd
  BY DEF TablesInd, Served, Serving
<1>4. CountsInd
  BY DEF CountsInd, Counted, NotSent, Waits
<1>5. RouteInd
  BY DEF RouteInd, RouteFollowsOwner, Routed
<1> QED BY <1>1, <1>2, <1>3, <1>4, <1>5, TypedParts DEF GatewayInd

LEMMA GatewayStable == GatewayInd /\ [GatewayNext]_gatewayVars => GatewayInd'
<1> SUFFICES ASSUME GatewayInd, [GatewayNext]_gatewayVars PROVE GatewayInd'
  OBVIOUS
<1> GatewayTypeOK /\ TablesInd /\ CountsInd /\ RouteInd
  BY DEF GatewayInd
<1>1. CASE UNCHANGED gatewayVars
  <2>1. UNCHANGED <<home, hand, wire, slot, subs, inbox, barred, notices, route, parked, token, revoke,
                    call, status, got, vetted, overtaken, botched, replays, diverted, gatewayFaults>>
    BY <1>1 DEF gatewayVars, linkState, redis, ban, gatewayPast
  <2>2. GatewayTypeOK'
    BY <2>1 DEF GatewayTypeOK
  <2>3. TablesInd'
    BY <2>1, TablesStay, TypedParts DEF Grown
  <2>4. Clearing' = Clearing
    BY <2>1 DEF Clearing
  <2>5. CountsInd'
    BY <2>1, <2>4, CountsStay, TypedParts
  <2>6. RouteInd'
    BY <2>1 DEF RouteInd, RouteFollowsOwner, Routed
  <2> QED BY <2>2, <2>3, <2>5, <2>6 DEF GatewayInd
<1>2. ASSUME NEW c \in Conns, ConnStep(c) \/ \E w \in Workers : Open(c, w)
      PROVE  GatewayInd'
  <2>1. Homed
    BY DEF Homed, TablesInd
  <2> QED BY <1>2, <2>1, ConnTyped, ConnTables, OtherTables, ConnCounts, ConnRoute DEF GatewayInd
<1>3. ASSUME NEW k \in Cmds, CmdStep(k)
      PROVE  GatewayInd'
  BY <1>3, CmdTyped, OtherTables, CmdCounts, OtherRoute DEF GatewayInd
<1>4. CASE WorkerStep
  BY <1>4, WorkerTyped, OtherTables, WorkerCounts, OtherRoute DEF GatewayInd
<1> QED BY <1>1, <1>2, <1>3, <1>4, GatewaySplits

LEMMA GatewayMeans == GatewayInd => GatewayInv
<1> SUFFICES ASSUME GatewayInd PROVE GatewayInv
  OBVIOUS
<1> GatewayTypeOK /\ TablesInd /\ CountsInd /\ CmdsTyped /\ RouteInd
  BY TypedParts DEF GatewayInd
<1>1. EntryFollowsOwner
  BY DEF TablesInd, EntryFollowsOwner, Served
<1>2. RevokedStaysOut
  BY DEF TablesInd, RevokedStaysOut, Served
<1>3. ASSUME NEW k \in Cmds, got[k] > 1
      PROVE  call[k].heard > 1 \/ (call[k].heard = 1 /\ call[k].step = "no") \/ k \in replays
  <2>1. Counted(call[k], inbox, k, got[k], parked = k, k \in replays, Clearing # {})
    BY DEF CountsInd
  <2>2. call[k].heard \in Nat /\ got[k] \in Nat
    BY GatewayBounds DEF CmdsTyped, CmdCall
  <2>3. CASE call[k].heard = 0
    BY <1>3, <2>1, <2>2, <2>3 DEF Counted
  <2>4. CASE call[k].heard = 1
    BY <1>3, <2>1, <2>2, <2>4 DEF Counted, OnceIn
  <2> QED BY <2>2, <2>3, <2>4
<1>4. TwiceOnlyByTwoWays
  BY <1>3 DEF TwiceOnlyByTwoWays
<1> QED BY <1>1, <1>2, <1>4 DEF GatewayInv, RouteInd

\* An entry of _conns names a connection that is served or whose registration
\* raised, a revoked agent is not let in again, a command comes twice only by
\* the ways named, and the route names the worker of a connection that is served
\* but for the ways named.  (connect, disconnect, authenticate, send_to_agent)
THEOREM GatewayInvHolds == GatewaySpec => []GatewayInv
<1>1. GatewayInd /\ [GatewayNext]_gatewayVars => GatewayInd'
  BY GatewayStable
<1> QED BY <1>1, GatewayStarts, GatewayMeans, PTL DEF GatewaySpec

-----------------------------------------------------------------------------
(***************************************************************************)
(* The hosts.                                                              *)
(***************************************************************************)

(* What a call has still to write, as the lists it goes through.            *)

E2 == <<"spend", "dedup">>
E1 == <<"dedup">>
A3 == <<"save", "saveEs", "token">>
A2 == <<"saveEs", "token">>
A1 == <<"token">>
U2 == <<"pg", "es">>
U1 == <<"es">>
R4 == <<"pg", "es", "keys", "revoke">>
R3 == <<"es", "keys", "revoke">>
R2 == <<"keys", "revoke">>
R1 == <<"revoke">>
D5 == <<"pg", "es", "keys", "revoke", "revokeOnly">>
D4 == <<"es", "keys", "revoke", "revokeOnly">>
D3 == <<"keys", "revoke", "revokeOnly">>
D2 == <<"revoke", "revokeOnly">>
D1 == <<"revokeOnly">>
P4 == <<"drop", "dropEs", "keys", "revoke">>
P3 == <<"dropEs", "keys", "revoke">>
S2 == <<"expire", "search">>
S1 == <<"search">>
G2 == <<"count", "ungroup">>
G1 == <<"ungroup">>

List(p) == todo[p].writes

\* The row is written and the document is not.
HalfWay == {U1, R3, D4}
Revoking == {R4, R3, R2, R1, D5, D4, D3, D2, D1, P4, P3}

HostCall(h) ==
  /\ stage[h] \in {"new", "out"} => List(h) = <<>> /\ coming[h] = {}
  /\ stage[h] = "in" =>
       /\ coming[h] = {}
       /\ List(h) \in {<<>>, U2, U1}
       /\ List(h) # <<>> => Target(h) = h /\ todo[h].st = "online"
  /\ stage[h] = "enrolling" =>
       /\ List(h) \in {E2, E1, A3, A2, A1, R4, R3, R2, R1}
       /\ List(h) \in {E2, E1, A3, A2, A1} => Target(h) = h /\ coming[h] = {}
       /\ List(h) \in {R4, R3, R2, R1} =>
            Target(h) \in Hosts /\ Target(h) # h /\ h \notin coming[h] /\ todo[h].st = "decommissioned"

AdminCall(p) ==
  /\ coming[p] = {}
  /\ List(p) \in {<<>>, U2, U1, R2, R1, D5, D4, D3, D2, D1, P4, P3, G2, G1}
  /\ List(p) \notin {<<>>, G2, G1} => Target(p) \in Hosts
  /\ List(p) \in {U2, U1} => todo[p].st \in {"offline", "join", "leave"}
  /\ List(p) \in {D5, D4, D3, D2, D1} => todo[p].st = "decommissioned"

SweeperCall(p) ==
  /\ List(p) \in {<<>>, S2, S1, U2, U1}
  /\ List(p) \in {U2, U1} => Target(p) \in Hosts /\ todo[p].st = "offline"
  /\ List(p) \notin {U2, U1} => coming[p] = {}

CallsInd == /\ todo \in [Procs -> Calls] /\ coming \in [Procs -> SUBSET Hosts]
            /\ \A h \in Hosts : HostCall(h)
            /\ \A p \in Admins : AdminCall(p)
            /\ \A p \in Sweepers : SweeperCall(p)

SoloInd == \A h \in Hosts : h \notin loose => \A p, q \in Busy(h) : p = q

Live == {"online", "offline"}
Kind(s) == IF s \in Live THEN "live" ELSE s

EnrolInd ==
  \A h \in Hosts :
    /\ stage[h] = "new" \/ (stage[h] = "enrolling" /\ List(h) \notin {A2, A1})
         => pg[h] = "none" /\ es[h] = "none"
    /\ cred[h] = "none" <=> stage[h] # "in"
    /\ stage[h] = "enrolling" /\ List(h) \in {A2, A1} /\ h \notin loose => pg[h] \in Live
    /\ \A g \in earlier[h] : stage[g] = "in"

AgreeOn(h) ==
  /\ (\A p \in Procs : Target(p) = h => List(p) \notin HalfWay \cup {P3, A2}) => Kind(pg[h]) = Kind(es[h])
  /\ \A p \in Procs : Target(p) = h /\ List(p) \in HalfWay =>
       /\ pg[h] = "none" <=> es[h] = "none"
       /\ todo[p].st \in Status => pg[h] = "none" \/ Kind(pg[h]) = Kind(todo[p].st)
       /\ todo[p].st \notin Status => Kind(pg[h]) = Kind(es[h])
  /\ \A p \in Procs : Target(p) = h /\ List(p) = P3 => pg[h] = "none"

AgreeInd == \A h \in Hosts : h \notin loose => AgreeOn(h)

RevokeDue(h) == \E p \in Procs : Target(p) = h /\ List(p) \in Revoking

RevokeInd ==
  \A h \in Hosts : h \notin loose /\ stage[h] = "in" /\ pg[h] \notin Live
                     => cred[h] = "revoked" \/ RevokeDue(h)

Cleared(h) == stage[h] = "in" \/ (stage[h] = "enrolling" /\ List(h) \notin {E2, E1})
Met(h) == \E q \in Hosts : h \in coming[q]

LockInd ==
  \A h \in Hosts : \A g \in earlier[h] :
    Cleared(h) /\ addr[g].said = addr[h].seen /\ g \notin loose /\ h \notin loose
      => cred[g] # "active" \/ RevokeDue(g) \/ Met(g)

QuietOn(h) ==
  /\ cred[h] = "revoked"
  /\ pg[h] # "online" /\ es[h] # "online"
  /\ pg[h] = "offline" => h \in unreached
  /\ \A p \in Procs : Target(p) = h /\ List(p) = U2 =>
       todo[p].st # "online" /\ (todo[p].st = "offline" => p \in Admins)
  /\ \A p \in Procs : Target(p) = h /\ List(p) = U1 => todo[p].st # "online"
  /\ \A p \in Sweepers : h \notin coming[p]

QuietInd == \A h \in quiet : QuietOn(h)

OrphanInd == Deleting \/ ~group => member \subseteq strays

FleetInd == /\ FleetTypeOK /\ CallsInd /\ SoloInd /\ EnrolInd /\ AgreeInd /\ RevokeInd
            /\ LockInd /\ QuietInd /\ OrphanInd

-----------------------------------------------------------------------------
(* What a call consists of                                                  *)

Named(s, n, first, rest) == s \in Seq(Names) /\ Len(s) = n /\ Head(s) = first /\ Tail(s) = rest

\* The first write and the rest of each list.
LEMMA ListFacts ==
  /\ Named(E2, 2, "spend", E1) /\ Named(E1, 1, "dedup", <<>>)
  /\ Named(A3, 3, "save", A2) /\ Named(A2, 2, "saveEs", A1) /\ Named(A1, 1, "token", <<>>)
  /\ Named(U2, 2, "pg", U1) /\ Named(U1, 1, "es", <<>>)
  /\ Named(R4, 4, "pg", R3) /\ Named(R3, 3, "es", R2) /\ Named(R2, 2, "keys", R1)
  /\ Named(R1, 1, "revoke", <<>>)
  /\ Named(D5, 5, "pg", D4) /\ Named(D4, 4, "es", D3) /\ Named(D3, 3, "keys", D2)
  /\ Named(D2, 2, "revoke", D1) /\ Named(D1, 1, "revokeOnly", <<>>)
  /\ Named(P4, 4, "drop", P3) /\ Named(P3, 3, "dropEs", R2)
  /\ Named(S2, 2, "expire", S1) /\ Named(S1, 1, "search", <<>>)
  /\ Named(G2, 2, "count", G1) /\ Named(G1, 1, "ungroup", <<>>)
BY DEF Named, Names, E2, E1, A3, A2, A1, U2, U1, R4, R3, R2, R1, D5, D4, D3, D2, D1, P4, P3,
       S2, S1, G2, G1

Lists == {<<>>, E2, E1, A3, A2, A1, U2, U1, R4, R3, R2, R1, D5, D4, D3, D2, D1, P4, P3,
          S2, S1, G2, G1}

\* No two of the lists are the same.
LEMMA ListsDiffer ==
  /\ E2 \notin {<<>>, E1, A3, A2, A1, U2, U1, R4, R3, R2, R1, D5, D4, D3, D2, D1, P4, P3, S2, S1, G2, G1}
  /\ E1 \notin {<<>>, A3, A2, A1, U2, U1, R4, R3, R2, R1, D5, D4, D3, D2, D1, P4, P3, S2, S1, G2, G1}
  /\ A3 \notin {<<>>, A2, A1, U2, U1, R4, R3, R2, R1, D5, D4, D3, D2, D1, P4, P3, S2, S1, G2, G1}
  /\ A2 \notin {<<>>, A1, U2, U1, R4, R3, R2, R1, D5, D4, D3, D2, D1, P4, P3, S2, S1, G2, G1}
  /\ A1 \notin {<<>>, U2, U1, R4, R3, R2, R1, D5, D4, D3, D2, D1, P4, P3, S2, S1, G2, G1}
  /\ U2 \notin {<<>>, U1, R4, R3, R2, R1, D5, D4, D3, D2, D1, P4, P3, S2, S1, G2, G1}
  /\ U1 \notin {<<>>, R4, R3, R2, R1, D5, D4, D3, D2, D1, P4, P3, S2, S1, G2, G1}
  /\ R4 \notin {<<>>, R3, R2, R1, D5, D4, D3, D2, D1, P4, P3, S2, S1, G2, G1}
  /\ R3 \notin {<<>>, R2, R1, D5, D4, D3, D2, D1, P4, P3, S2, S1, G2, G1}
  /\ R2 \notin {<<>>, R1, D5, D4, D3, D2, D1, P4, P3, S2, S1, G2, G1}
  /\ R1 \notin {<<>>, D5, D4, D3, D2, D1, P4, P3, S2, S1, G2, G1}
  /\ D5 \notin {<<>>, D4, D3, D2, D1, P4, P3, S2, S1, G2, G1}
  /\ D4 \notin {<<>>, D3, D2, D1, P4, P3, S2, S1, G2, G1}
  /\ D3 \notin {<<>>, D2, D1, P4, P3, S2, S1, G2, G1}
  /\ D2 \notin {<<>>, D1, P4, P3, S2, S1, G2, G1}
  /\ D1 \notin {<<>>, P4, P3, S2, S1, G2, G1}
  /\ P4 \notin {<<>>, P3, S2, S1, G2, G1}
  /\ P3 \notin {<<>>, S2, S1, G2, G1}
  /\ S2 \notin {<<>>, S1, G2, G1}
  /\ S1 \notin {<<>>, G2, G1}
  /\ G2 \notin {<<>>, G1}
  /\ G1 \notin {<<>>}
BY DEF E2, E1, A3, A2, A1, U2, U1, R4, R3, R2, R1, D5, D4, D3, D2, D1, P4, P3, S2, S1, G2, G1

\* Every list is a sequence of names of writes.
LEMMA ListsTyped == \A s \in Lists : s \in Seq(Names)
<1>1. E2 \in Seq(Names) /\ E1 \in Seq(Names) /\ A3 \in Seq(Names) /\ A2 \in Seq(Names)
      /\ A1 \in Seq(Names) /\ U2 \in Seq(Names) /\ U1 \in Seq(Names) /\ R4 \in Seq(Names)
      /\ R3 \in Seq(Names) /\ R2 \in Seq(Names) /\ R1 \in Seq(Names) /\ D5 \in Seq(Names)
      /\ D4 \in Seq(Names) /\ D3 \in Seq(Names) /\ D2 \in Seq(Names) /\ D1 \in Seq(Names)
      /\ P4 \in Seq(Names) /\ P3 \in Seq(Names) /\ S2 \in Seq(Names) /\ S1 \in Seq(Names)
      /\ G2 \in Seq(Names) /\ G1 \in Seq(Names)
  BY ListFacts DEF Named
<1>2. <<>> \in Seq(Names)
  OBVIOUS
<1> QED BY <1>1, <1>2 DEF Lists

\* A process is a host, an operator or a sweeper.
LEMMA ProcsApart == /\ Hosts \cap Admins = {} /\ Hosts \cap Sweepers = {} /\ Admins \cap Sweepers = {}
BY FleetAssumption

Typed == /\ todo \in [Procs -> Calls] /\ coming \in [Procs -> SUBSET Hosts]
         /\ stage \in [Hosts -> {"new", "enrolling", "out", "in"}]

\* Which calls go through which lists.
LEMMA Owners ==
  ASSUME Typed, CallsInd, NEW p \in Procs
  PROVE  /\ List(p) \in Lists
         /\ List(p) \in {E2, E1, A3, A2, A1} =>
              p \in Hosts /\ stage[p] = "enrolling" /\ Target(p) = p /\ coming[p] = {}
         /\ List(p) \in {R4, R3} =>
              /\ p \in Hosts /\ stage[p] = "enrolling" /\ Target(p) \in Hosts \ {p}
              /\ p \notin coming[p] /\ todo[p].st = "decommissioned"
         /\ List(p) \in {R2, R1} =>
              /\ Target(p) \in Hosts
              /\ \/ /\ p \in Hosts /\ stage[p] = "enrolling" /\ p \notin coming[p]
                    /\ Target(p) # p /\ todo[p].st = "decommissioned"
                 \/ p \in Admins /\ coming[p] = {}
         /\ List(p) \in {D5, D4, D3, D2, D1} =>
              p \in Admins /\ Target(p) \in Hosts /\ coming[p] = {} /\ todo[p].st = "decommissioned"
         /\ List(p) \in {P4, P3} => p \in Admins /\ Target(p) \in Hosts /\ coming[p] = {}
         /\ List(p) \in {U2, U1} =>
              /\ Target(p) \in Hosts
              /\ \/ p \in Hosts /\ stage[p] = "in" /\ Target(p) = p /\ todo[p].st = "online" /\ coming[p] = {}
                 \/ p \in Admins /\ coming[p] = {} /\ todo[p].st \in {"offline", "join", "leave"}
                 \/ p \in Sweepers /\ todo[p].st = "offline"
         /\ List(p) \in {S2, S1} => p \in Sweepers /\ coming[p] = {}
         /\ List(p) \in {G2, G1} => p \in Admins /\ coming[p] = {}
         /\ List(p) = <<>> => coming[p] = {}
<1> USE ListsDiffer, ProcsApart DEF Lists
<1>1. CASE p \in Hosts
  <2>1. HostCall(p) BY <1>1 DEF CallsInd
  <2>2. stage[p] \in {"new", "enrolling", "out", "in"} BY <1>1 DEF Typed
  <2> QED BY <1>1, <2>1, <2>2 DEF HostCall
<1>2. CASE p \in Admins
  <2>1. AdminCall(p) BY <1>2 DEF CallsInd
  <2> QED BY <1>2, <2>1 DEF AdminCall
<1>3. CASE p \in Sweepers
  <2>1. SweeperCall(p) BY <1>3 DEF CallsInd
  <2> QED BY <1>3, <2>1 DEF SweeperCall
<1> QED BY <1>1, <1>2, <1>3 DEF Procs

\* The write a call makes next says which lists it can be at.
LEMMA Heads ==
  ASSUME Typed, CallsInd, NEW p \in Procs
  PROVE  /\ At(p, "spend") => List(p) = E2
         /\ At(p, "dedup") => List(p) = E1
         /\ At(p, "save") => List(p) = A3
         /\ At(p, "saveEs") => List(p) = A2
         /\ At(p, "token") => List(p) = A1
         /\ At(p, "pg") => List(p) \in {U2, R4, D5}
         /\ At(p, "es") => List(p) \in {U1, R3, D4}
         /\ At(p, "keys") => List(p) \in {R2, D3}
         /\ At(p, "revoke") => List(p) \in {R1, D2}
         /\ At(p, "revokeOnly") => List(p) = D1
         /\ At(p, "drop") => List(p) = P4
         /\ At(p, "dropEs") => List(p) = P3
         /\ At(p, "expire") => List(p) = S2
         /\ At(p, "search") => List(p) = S1
         /\ At(p, "count") => List(p) = G2
         /\ At(p, "ungroup") <=> List(p) = G1
<1>1. List(p) \in Lists BY Owners
<1>2. Head(E2) = "spend" /\ Head(E1) = "dedup" /\ Head(A3) = "save" /\ Head(A2) = "saveEs"
      /\ Head(A1) = "token" /\ Head(U2) = "pg" /\ Head(U1) = "es" /\ Head(R4) = "pg"
      /\ Head(R3) = "es" /\ Head(R2) = "keys" /\ Head(R1) = "revoke" /\ Head(D5) = "pg"
      /\ Head(D4) = "es" /\ Head(D3) = "keys" /\ Head(D2) = "revoke" /\ Head(D1) = "revokeOnly"
      /\ Head(P4) = "drop" /\ Head(P3) = "dropEs" /\ Head(S2) = "expire" /\ Head(S1) = "search"
      /\ Head(G2) = "count" /\ Head(G1) = "ungroup"
  BY ListFacts DEF Named
<1>3. At(p, "ungroup") <=> List(p) = G1
  BY <1>1, <1>2, ListsDiffer DEF Lists, At, Idle, List
<1> QED BY <1>1, <1>2, <1>3 DEF Lists, At, Idle, List

-----------------------------------------------------------------------------
(* What a step of a call does to it and to the others                       *)

Others(p) ==
  /\ todo' \in [Procs -> Calls] /\ coming' \in [Procs -> SUBSET Hosts]
  /\ \A q \in Procs \ {p} : todo'[q] = todo[q] /\ coming'[q] = coming[q]

Becomes(p, c, S) == todo'[p] = c /\ coming'[p] = S

Turns(p, S) == \/ S = {} /\ Becomes(p, After(p), {})
               \/ \E h \in S : Becomes(p, Body(p, h), S \ {h})

\* It goes on with the same host.
SameHost(p) == Target(p)' = Target(p) /\ todo'[p].st = todo[p].st /\ coming'[p] = coming[p]

\* A call is made of a list, a host and a status.
LEMMA CallTyped ==
  ASSUME NEW w \in Seq(Names), NEW h \in Procs, NEW st \in Status \cup {"same", "join", "leave"}
  PROVE  Call(w, h, st) \in Calls
BY DEF Call, Calls

\* The calls the operations make, by their lists.
LEMMA CallForms ==
  /\ \A h, s : Update(h, s) = Call(U2, h, s)
  /\ \A h : Retire(h) = Call(R4, h, "decommissioned")
  /\ \A h : [Retire(h) EXCEPT !.writes = Append(@, "revokeOnly")] = Call(D5, h, "decommissioned")
  /\ \A h : Admit(h) = Call(A3, h, "same")
  /\ \A p : NoCall(p) = Call(<<>>, p, "same")
  /\ \A w, h, s : Call(w, h, s).writes = w /\ Call(w, h, s).host = h /\ Call(w, h, s).st = s
  /\ \A w, h, s : w \in Lists /\ h \in Procs /\ s \in Status \cup {"same", "join", "leave"}
                    => Call(w, h, s) \in Calls
<1>1. \A w \in Lists : w \in Seq(Names) BY ListsTyped
<1>2. \A h : [Retire(h) EXCEPT !.writes = Append(@, "revokeOnly")] = Call(D5, h, "decommissioned")
  BY DEF Retire, Call, D5
<1> QED BY <1>1, <1>2 DEF Update, Retire, Admit, NoCall, Call, U2, R4, A3, Calls

\* What a loop goes on with is a call.
LEMMA NextTyped ==
  ASSUME NEW p \in Procs, NEW h \in Hosts
  PROVE  After(p) \in Calls /\ Body(p, h) \in Calls /\ NoCall(p) \in Calls
<1> h \in Procs BY DEF Procs
<1> QED BY CallForms DEF After, Body, Lists, Status

\* A call that is replaced: the others stay.
LEMMA ThenMoves ==
  ASSUME Typed, NEW p \in Procs, NEW c \in Calls, Then(p, c)
  PROVE  Others(p) /\ Becomes(p, c, {})
BY DEF Typed, Then, Others, Becomes

\* A loop: it comes to a host or ends, and the others stay.
LEMMA LoopMoves ==
  ASSUME Typed, NEW p \in Procs, NEW S \in SUBSET Hosts, Loop(p, S)
  PROVE  Others(p) /\ Turns(p, S)
<1>1. CASE S = {} /\ Then(p, After(p))
  <2>1. After(p) \in Calls BY CallForms DEF After, Lists, Status, Procs
  <2> QED BY <1>1, <2>1, ThenMoves DEF Turns
<1>2. CASE \E h \in S : /\ todo' = [todo EXCEPT ![p] = Body(p, h)]
                         /\ coming' = [coming EXCEPT ![p] = S \ {h}]
  <2>1. PICK h \in S : /\ todo' = [todo EXCEPT ![p] = Body(p, h)]
                        /\ coming' = [coming EXCEPT ![p] = S \ {h}]
    BY <1>2
  <2>2. Body(p, h) \in Calls BY NextTyped
  <2>3. Becomes(p, Body(p, h), S \ {h}) BY <2>1 DEF Typed, Becomes
  <2>4. Others(p) BY <2>1, <2>2 DEF Typed, Others
  <2> QED BY <2>3, <2>4 DEF Turns
<1> QED BY <1>1, <1>2 DEF Loop

\* The rest of a call: the next write for the same host, or the loop goes on.
LEMMA RestMoves ==
  ASSUME Typed, NEW p \in Procs, List(p) \in Lists \ {<<>>}, Rest(p)
  PROVE  /\ Others(p)
         /\ List(p) \in {E1, A1, U1, R1, D1, S1, G1} => Turns(p, coming[p])
         /\ Len(List(p)) # 1 => todo'[p].writes = Tail(List(p)) /\ SameHost(p)
<1>1. List(p) \in {E1, A1, U1, R1, D1, S1, G1} => Len(List(p)) = 1
  BY ListFacts DEF Named
<1>2. todo[p] \in Calls BY DEF Typed
<1>3. CASE Len(todo[p].writes) = 1
  <2>1. Loop(p, coming[p]) BY <1>3 DEF Rest
  <2>2. coming[p] \in SUBSET Hosts BY DEF Typed
  <2> QED BY <1>1, <1>3, <2>1, <2>2, LoopMoves DEF List
<1>4. CASE Len(todo[p].writes) # 1
  <2>1. todo' = [todo EXCEPT ![p].writes = Tail(@)] /\ coming' = coming BY <1>4 DEF Rest
  <2>2. todo'[p] = Call(Tail(List(p)), Target(p), todo[p].st)
    BY <2>1, <1>2 DEF Typed, Calls, Call, List, Target
  <2>7. todo'[p].writes = Tail(List(p)) /\ SameHost(p)
    <3> HIDE DEF List
    <3>1. coming' = coming BY <2>1
    <3> QED BY <3>1, <2>2 DEF Call, SameHost, Target
  <2>3. List(p) \in Seq(Names) /\ List(p) # <<>> BY ListsTyped
  <2>4. Tail(List(p)) \in Seq(Names) BY <2>3
  <2>5. Target(p) \in Procs /\ todo[p].st \in Status \cup {"same", "join", "leave"}
    BY <1>2 DEF Calls, Target
  <2>6. todo'[p] \in Calls
    <3> HIDE DEF List
    <3> QED BY <2>2, <2>4, <2>5, CallTyped
  <2> QED BY <1>1, <1>4, <2>1, <2>6, <2>7 DEF Typed, Others, List
<1> QED BY <1>3, <1>4

Goes(p, from, to) == List(p) = from => todo'[p].writes = to

\* The rest of a call, list by list.
LEMMA RestTable ==
  ASSUME Typed, CallsInd, NEW p \in Procs, ~Idle(p), Rest(p)
  PROVE  /\ Others(p)
         /\ List(p) \in {E1, A1, U1, R1, D1, S1, G1} => Turns(p, coming[p])
         /\ List(p) \notin {E1, A1, U1, R1, D1, S1, G1} => SameHost(p)
         /\ Goes(p, E2, E1) /\ Goes(p, A3, A2) /\ Goes(p, A2, A1) /\ Goes(p, U2, U1)
         /\ Goes(p, R4, R3) /\ Goes(p, R3, R2) /\ Goes(p, R2, R1) /\ Goes(p, D5, D4)
         /\ Goes(p, D4, D3) /\ Goes(p, D3, D2) /\ Goes(p, D2, D1) /\ Goes(p, P4, P3)
         /\ Goes(p, P3, R2) /\ Goes(p, S2, S1) /\ Goes(p, G2, G1)
<1>1. List(p) \in Lists \ {<<>>} BY Owners DEF Idle, List
<1>2. \A s, r \in Lists : Tail(s) = r /\ Len(s) # 1 => Goes(p, s, r)
  BY <1>1, RestMoves DEF Goes
<1>3. Tail(E2) = E1 /\ Tail(A3) = A2 /\ Tail(A2) = A1 /\ Tail(U2) = U1 /\ Tail(R4) = R3
      /\ Tail(R3) = R2 /\ Tail(R2) = R1 /\ Tail(D5) = D4 /\ Tail(D4) = D3 /\ Tail(D3) = D2
      /\ Tail(D2) = D1 /\ Tail(P4) = P3 /\ Tail(P3) = R2 /\ Tail(S2) = S1 /\ Tail(G2) = G1
  BY ListFacts DEF Named
<1>5. Len(E2) # 1 /\ Len(A3) # 1 /\ Len(A2) # 1 /\ Len(U2) # 1 /\ Len(R4) # 1
      /\ Len(R3) # 1 /\ Len(R2) # 1 /\ Len(D5) # 1 /\ Len(D4) # 1 /\ Len(D3) # 1
      /\ Len(D2) # 1 /\ Len(P4) # 1 /\ Len(P3) # 1 /\ Len(S2) # 1 /\ Len(G2) # 1
  BY ListFacts DEF Named
<1>4. A1 \in Lists /\ A2 \in Lists /\ A3 \in Lists /\ D1 \in Lists /\ D2 \in Lists
      /\ D3 \in Lists /\ D4 \in Lists /\ D5 \in Lists /\ E1 \in Lists /\ E2 \in Lists
      /\ G1 \in Lists /\ G2 \in Lists /\ P3 \in Lists /\ P4 \in Lists /\ R1 \in Lists
      /\ R2 \in Lists /\ R3 \in Lists /\ R4 \in Lists /\ S1 \in Lists /\ S2 \in Lists
      /\ U1 \in Lists /\ U2 \in Lists
  BY DEF Lists
<1>6. /\ Goes(p, E2, E1) /\ Goes(p, A3, A2) /\ Goes(p, A2, A1) /\ Goes(p, U2, U1)
      /\ Goes(p, R4, R3) /\ Goes(p, R3, R2) /\ Goes(p, R2, R1) /\ Goes(p, D5, D4)
      /\ Goes(p, D4, D3) /\ Goes(p, D3, D2) /\ Goes(p, D2, D1) /\ Goes(p, P4, P3)
      /\ Goes(p, P3, R2) /\ Goes(p, S2, S1) /\ Goes(p, G2, G1)
  <2>1. Goes(p, E2, E1) /\ Goes(p, A3, A2) /\ Goes(p, A2, A1) BY <1>2, <1>3, <1>4, <1>5
  <2>2. Goes(p, U2, U1) /\ Goes(p, R4, R3) /\ Goes(p, R3, R2) /\ Goes(p, R2, R1)
    BY <1>2, <1>3, <1>4, <1>5
  <2>3. Goes(p, D5, D4) /\ Goes(p, D4, D3) /\ Goes(p, D3, D2) /\ Goes(p, D2, D1)
    BY <1>2, <1>3, <1>4, <1>5
  <2>4. Goes(p, P4, P3) /\ Goes(p, P3, R2) /\ Goes(p, S2, S1) /\ Goes(p, G2, G1)
    BY <1>2, <1>3, <1>4, <1>5
  <2> QED BY <2>1, <2>2, <2>3, <2>4
<1>7. List(p) \notin {E1, A1, U1, R1, D1, S1, G1} => SameHost(p)
  <2>1. SUFFICES ASSUME List(p) \notin {E1, A1, U1, R1, D1, S1, G1} PROVE SameHost(p)
    OBVIOUS
  <2>2. Len(List(p)) # 1 /\ Tail(List(p)) \in Lists
    <3> DEFINE Longer == {E2, A3, A2, U2, R4, R3, R2, D5, D4, D3, D2, P4, P3, S2, G2}
    <3>1. List(p) \in Longer BY <1>1, <2>1 DEF Lists
    <3>2. \A s \in Longer : Len(s) # 1 BY <1>5
    <3>3. \A s \in Longer : Tail(s) \in Lists BY <1>3, <1>4
    <3> HIDE DEF Longer
    <3> QED BY <3>1, <3>2, <3>3
  <2> QED BY <1>1, <2>2, RestMoves
<1> HIDE DEF Lists
<1> QED BY <1>1, <1>6, <1>7, RestMoves

\* What comes after the last write for a host of a loop.
LEMMA TurnCases ==
  ASSUME NEW p \in Procs, NEW S \in SUBSET Hosts, Turns(p, S)
  PROVE  \/ /\ S = {} /\ p \in Hosts /\ stage[p] = "enrolling"
            /\ Becomes(p, Call(A3, p, "same"), {})
         \/ /\ S = {} /\ ~(p \in Hosts /\ stage[p] = "enrolling")
            /\ Becomes(p, Call(<<>>, p, "same"), {})
         \/ \E h \in S : p \in Hosts /\ Becomes(p, Call(R4, h, "decommissioned"), S \ {h})
         \/ \E h \in S : p \notin Hosts /\ Becomes(p, Call(U2, h, "offline"), S \ {h})
BY CallForms DEF Turns, After, Body

\* A step of p that leaves the call of p well formed leaves all of them so.
LEMMA CallsKept ==
  ASSUME CallsInd, NEW p \in Procs, Others(p),
         \A h \in Hosts \ {p} : stage'[h] = stage[h],
         p \in Hosts => HostCall(p)',
         p \in Admins => AdminCall(p)',
         p \in Sweepers => SweeperCall(p)'
  PROVE  CallsInd'
<1>1. \A q \in Procs \ {p} : todo'[q] = todo[q] /\ coming'[q] = coming[q] BY DEF Others
<1>2. ASSUME NEW h \in Hosts PROVE HostCall(h)'
  <2>1. CASE h = p BY <2>1
  <2>2. CASE h # p
    <3>1. todo'[h] = todo[h] /\ coming'[h] = coming[h] /\ stage'[h] = stage[h] BY <1>1, <2>2 DEF Procs
    <3>2. HostCall(h) BY DEF CallsInd
    <3> QED BY <3>1, <3>2 DEF HostCall, List, Target
  <2> QED BY <2>1, <2>2
<1>3. ASSUME NEW a \in Admins PROVE AdminCall(a)'
  <2>1. CASE a = p BY <2>1
  <2>2. CASE a # p
    <3>1. todo'[a] = todo[a] /\ coming'[a] = coming[a] BY <1>1, <2>2 DEF Procs
    <3>2. AdminCall(a) BY DEF CallsInd
    <3> QED BY <3>1, <3>2 DEF AdminCall, List, Target
  <2> QED BY <2>1, <2>2
<1>4. ASSUME NEW a \in Sweepers PROVE SweeperCall(a)'
  <2>1. CASE a = p BY <2>1
  <2>2. CASE a # p
    <3>1. todo'[a] = todo[a] /\ coming'[a] = coming[a] BY <1>1, <2>2 DEF Procs
    <3>2. SweeperCall(a) BY DEF CallsInd
    <3> QED BY <3>1, <3>2 DEF SweeperCall, List, Target
  <2> QED BY <2>1, <2>2
<1> QED BY <1>2, <1>3, <1>4 DEF CallsInd, Others

\* A loop over hosts other than the caller's own leaves a call that fits.
LEMMA TurnsFit ==
  ASSUME Typed, CallsInd, NEW p \in Procs, NEW S \in SUBSET Hosts, Turns(p, S), Others(p),
         p \notin S, stage' = stage,
         \/ p \in Hosts /\ stage[p] = "enrolling"
         \/ p \in Hosts \cup Admins /\ S = {}
         \/ p \in Sweepers,
         p \in Hosts => stage[p] \in {"enrolling", "in"}
  PROVE  CallsInd'
<1>1. CASE S = {} /\ p \in Hosts /\ stage[p] = "enrolling" /\ Becomes(p, Call(A3, p, "same"), {})
  <2>1. List(p)' = A3 /\ Target(p)' = p /\ coming'[p] = {} /\ stage'[p] = "enrolling"
    BY <1>1 DEF Call, Becomes, List, Target
  <2> QED BY <1>1, <2>1, ListsDiffer, ProcsApart, CallsKept DEF HostCall
<1>2. CASE S = {} /\ ~(p \in Hosts /\ stage[p] = "enrolling") /\ Becomes(p, Call(<<>>, p, "same"), {})
  <2>1. List(p)' = <<>> /\ coming'[p] = {}
    BY <1>2 DEF Call, Becomes, List, Target
  <2> QED BY <1>2, <2>1, ListsDiffer, ProcsApart, CallsKept DEF HostCall, AdminCall, SweeperCall
<1>3. CASE \E h \in S : p \in Hosts /\ Becomes(p, Call(R4, h, "decommissioned"), S \ {h})
  <2>1. PICK h \in S : p \in Hosts /\ Becomes(p, Call(R4, h, "decommissioned"), S \ {h}) BY <1>3
  <2>2. /\ List(p)' = R4 /\ Target(p)' = h /\ todo'[p].st = "decommissioned"
        /\ coming'[p] = S \ {h} /\ stage'[p] = "enrolling"
    BY <2>1, ProcsApart DEF Call, Becomes, List, Target
  <2>3. HostCall(p)' BY <2>1, <2>2, ListsDiffer, ProcsApart DEF HostCall
  <2> QED BY <2>1, <2>3, ProcsApart, CallsKept
<1>4. CASE \E h \in S : p \notin Hosts /\ Becomes(p, Call(U2, h, "offline"), S \ {h})
  <2>1. PICK h \in S : p \notin Hosts /\ Becomes(p, Call(U2, h, "offline"), S \ {h}) BY <1>4
  <2>2. /\ List(p)' = U2 /\ Target(p)' = h /\ todo'[p].st = "offline"
    BY <2>1 DEF Call, Becomes, List, Target
  <2> QED BY <2>1, <2>2, ListsDiffer, ProcsApart, CallsKept DEF SweeperCall
<1>5. \/ /\ S = {} /\ p \in Hosts /\ stage[p] = "enrolling"
         /\ Becomes(p, Call(A3, p, "same"), {})
      \/ /\ S = {} /\ ~(p \in Hosts /\ stage[p] = "enrolling")
         /\ Becomes(p, Call(<<>>, p, "same"), {})
      \/ \E h \in S : p \in Hosts /\ Becomes(p, Call(R4, h, "decommissioned"), S \ {h})
      \/ \E h \in S : p \notin Hosts /\ Becomes(p, Call(U2, h, "offline"), S \ {h})
  BY TurnCases DEF Becomes
<1> QED BY <1>1, <1>2, <1>3, <1>4, <1>5

\* So does the rest of a call.
LEMMA RestFits ==
  ASSUME Typed, CallsInd, NEW p \in Procs, ~Idle(p), Rest(p), stage' = stage,
         List(p) \notin {E1, A1, S1}
  PROVE  CallsInd'
<1> DEFINE On(to) == Becomes(p, Call(to, Target(p), todo[p].st), coming[p])
<1> DEFINE Last == List(p) \in {U1, R1, D1, G1}
<1>1. List(p) \in Lists \ {<<>>} BY Owners DEF Idle, List
<1>2. Others(p) BY RestTable
<1>3. CASE Last
  <2>1. Turns(p, coming[p]) BY <1>3, RestTable
  <2>2. coming[p] \in SUBSET Hosts BY DEF Typed
  <2>3. p \notin coming[p] BY <1>3, <2>2, Owners, ListsDiffer, ProcsApart
  <2>4. /\ \/ p \in Hosts /\ stage[p] = "enrolling"
           \/ p \in Hosts \cup Admins /\ coming[p] = {}
           \/ p \in Sweepers
        /\ p \in Hosts => stage[p] \in {"enrolling", "in"}
    BY <1>3, Owners, ListsDiffer, ProcsApart
  <2> QED BY <1>2, <2>1, <2>2, <2>3, <2>4, TurnsFit
<1>4. CASE ~Last /\ p \in Hosts
  <2>1. HostCall(p) BY <1>4 DEF CallsInd
  <2>2. stage[p] \in {"new", "enrolling", "out", "in"} BY <1>4 DEF Typed
  <2>3. List(p) \in {E2, A3, A2, U2, R4, R3, R2}
    BY <1>1, <1>4, <2>1, <2>2, Owners, ListsDiffer, ProcsApart DEF Lists
  <2>4. /\ List(p)' \in {E1, A2, A1, U1, R3, R2, R1}
        /\ List(p) \in {E2, A3, A2} => List(p)' \in {E1, A2, A1}
        /\ List(p) = U2 => List(p)' = U1
        /\ List(p) \in {R4, R3, R2} => List(p)' \in {R3, R2, R1}
        /\ Target(p)' = Target(p) /\ todo'[p].st = todo[p].st /\ coming'[p] = coming[p]
    BY <2>3, RestTable, ListsDiffer DEF Goes, SameHost, List
  <2>5. HostCall(p)' BY <1>4, <2>1, <2>2, <2>3, <2>4, ListsDiffer DEF HostCall
  <2> QED BY <1>2, <1>4, <2>5, ProcsApart, CallsKept
<1>5. CASE ~Last /\ p \in Admins
  <2>1. AdminCall(p) BY <1>5 DEF CallsInd
  <2>2. List(p) \in {U2, R2, D5, D4, D3, D2, P4, P3, G2}
    BY <1>1, <1>5, <2>1, ListsDiffer DEF AdminCall
  <2>3. /\ List(p) = U2 => List(p)' = U1
        /\ List(p) = R2 => List(p)' = R1
        /\ List(p) \in {D5, D4, D3, D2} => List(p)' \in {D4, D3, D2, D1}
        /\ List(p) \in {P4, P3} => List(p)' \in {P3, R2}
        /\ List(p) = G2 => List(p)' = G1
        /\ Target(p)' = Target(p) /\ todo'[p].st = todo[p].st /\ coming'[p] = coming[p]
    BY <2>2, RestTable, ListsDiffer DEF Goes, SameHost, List
  <2>4. AdminCall(p)' BY <2>1, <2>2, <2>3, ListsDiffer DEF AdminCall
  <2> QED BY <1>2, <1>5, <2>4, ProcsApart, CallsKept
<1>6. CASE ~Last /\ p \in Sweepers
  <2>1. SweeperCall(p) BY <1>6 DEF CallsInd
  <2>2. List(p) \in {S2, U2} BY <1>1, <1>6, <2>1 DEF SweeperCall
  <2>3. /\ List(p) = U2 => List(p)' = U1
        /\ List(p) = S2 => List(p)' = S1
        /\ Target(p)' = Target(p) /\ todo'[p].st = todo[p].st /\ coming'[p] = coming[p]
    BY <2>2, RestTable, ListsDiffer DEF Goes, SameHost, List
  <2>4. SweeperCall(p)' BY <2>1, <2>2, <2>3, ListsDiffer DEF SweeperCall
  <2> QED BY <1>2, <1>6, <2>4, ProcsApart, CallsKept
<1> QED BY <1>3, <1>4, <1>5, <1>6 DEF Procs

\* The type invariant types the calls.
LEMMA TypedCalls == FleetTypeOK => Typed
BY DEF FleetTypeOK, Typed

\* A process that had nothing to do begins.
LEMMA ThenFits ==
  ASSUME Typed, CallsInd, NEW p \in Procs,
         NEW l \in Lists, NEW t \in Procs, NEW st \in Status \cup {"same", "join", "leave"},
         Then(p, Call(l, t, st)),
         \A h \in Hosts \ {p} : stage'[h] = stage[h],
         p \in Hosts =>
           \/ l = <<>> /\ stage'[p] \in {"out", "in"}
           \/ l = U2 /\ stage'[p] = "in" /\ t = p /\ st = "online"
           \/ l \in {E2, A3} /\ stage'[p] = "enrolling" /\ t = p,
         p \in Admins =>
           \/ l \in {<<>>, G2}
           \/ l = P4 /\ t \in Hosts
           \/ l = D5 /\ t \in Hosts /\ st = "decommissioned"
           \/ l = U2 /\ t \in Hosts /\ st \in {"offline", "join", "leave"},
         p \in Sweepers => l \in {<<>>, S2}
  PROVE  CallsInd' /\ Others(p) /\ Becomes(p, Call(l, t, st), {})
<1>1. Call(l, t, st) \in Calls BY CallTyped, ListsTyped
<1>2. Others(p) /\ Becomes(p, Call(l, t, st), {}) BY <1>1, ThenMoves
<1>3. List(p)' = l /\ Target(p)' = t /\ todo'[p].st = st /\ coming'[p] = {}
  BY <1>2 DEF Becomes, Call, List, Target
<1>4. p \in Hosts => HostCall(p)' BY <1>3, ListsDiffer DEF HostCall
<1>5. p \in Admins => AdminCall(p)' BY <1>3, ListsDiffer DEF AdminCall
<1>6. p \in Sweepers => SweeperCall(p)' BY <1>3, ListsDiffer DEF SweeperCall
<1> QED BY <1>2, <1>4, <1>5, <1>6, CallsKept

\* Every step leaves the calls well formed.
LEMMA CallsStep ==
  ASSUME FleetTypeOK, CallsInd, EnrolInd, Step
  PROVE  CallsInd'
<1> USE TypedCalls
<1> Typed OBVIOUS
<1>0. \A h \in Hosts : h \in Procs BY DEF Procs
<1>1. ASSUME NEW h \in Hosts, BeginEnroll(h) PROVE CallsInd'
  <2>1. Then(h, Call(E2, h, "same")) BY <1>1 DEF BeginEnroll, E2
  <2>2. stage'[h] = "enrolling" /\ \A g \in Hosts \ {h} : stage'[g] = stage[g]
    BY <1>1 DEF BeginEnroll, Typed
  <2> QED BY <1>0, <2>1, <2>2, ThenFits, ProcsApart DEF Lists
<1>2. ASSUME NEW h \in Hosts, Connect(h) PROVE CallsInd'
  <2>1. Then(h, Call(U2, h, "online")) BY <1>2, CallForms DEF Connect
  <2>2. stage' = stage /\ stage[h] = "in" BY <1>2 DEF Connect
  <2> QED BY <1>0, <2>1, <2>2, ThenFits, ProcsApart DEF Lists, Status
<1>3. ASSUME CreateGroup \/ \E h \in Hosts : Heartbeat(h) \/ HangUp(h) \/ Age(h) PROVE CallsInd'
  <2>1. todo' = todo /\ coming' = coming /\ stage' = stage
    BY <1>3 DEF Heartbeat, HangUp, Age, CreateGroup, calls
  <2> QED BY <2>1 DEF CallsInd, HostCall, AdminCall, SweeperCall, List, Target
<1>4. ASSUME NEW h \in Hosts, NEW p \in Admins, Decommission(p, h) PROVE CallsInd'
  <2>1. Then(p, Call(D5, h, "decommissioned")) /\ stage' = stage
    BY <1>4, CallForms DEF Decommission
  <2> QED BY <1>0, <2>1, ThenFits, ProcsApart DEF Lists, Status, Procs
<1>5. ASSUME NEW h \in Hosts, NEW p \in Admins, Purge(p, h) PROVE CallsInd'
  <2>1. Then(p, Call(P4, h, "same")) /\ stage' = stage
    BY <1>5 DEF Purge, P4
  <2> QED BY <1>0, <2>1, ThenFits, ProcsApart DEF Lists, Procs
<1>6. ASSUME NEW h \in Hosts, NEW p \in Admins, Upgrade(p, h) \/ MoveGroup(p, h) PROVE CallsInd'
  <2>1. PICK s \in {"offline", "join", "leave"} : Then(p, Call(U2, h, s))
    BY <1>6, CallForms DEF Upgrade, MoveGroup
  <2>2. stage' = stage BY <1>6 DEF Upgrade, MoveGroup
  <2> QED BY <1>0, <2>1, <2>2, ThenFits, ProcsApart DEF Lists, Status, Procs
<1>7. ASSUME NEW p \in Procs, BeginSweep(p) \/ DeleteGroup(p) PROVE CallsInd'
  <2>1. stage' = stage BY <1>7 DEF BeginSweep, DeleteGroup
  <2>2. \/ p \in Sweepers /\ Then(p, Call(S2, p, "same"))
        \/ p \in Admins /\ Then(p, Call(G2, p, "same"))
    BY <1>7 DEF BeginSweep, DeleteGroup, S2, G2
  <2> QED BY <2>1, <2>2, ThenFits, ProcsApart DEF Lists
<1>8. ASSUME NEW p \in Procs, Token(p) PROVE CallsInd'
  <2>1. List(p) = A1 BY <1>8, Heads DEF Token
  <2>2. p \in Hosts BY <2>1, Owners
  <2>3. Then(p, Call(<<>>, p, "same")) /\ stage' = [stage EXCEPT ![p] = "in"]
    BY <1>8, CallForms DEF Token
  <2>4. stage'[p] = "in" /\ \A g \in Hosts \ {p} : stage'[g] = stage[g]
    BY <2>2, <2>3 DEF Typed
  <2> QED BY <2>2, <2>3, <2>4, ThenFits, ProcsApart DEF Lists
<1>9. ASSUME NEW p \in Procs, Dedup(p) PROVE CallsInd'
  <2>1. List(p) = E1 BY <1>9, Heads DEF Dedup
  <2>2. p \in Hosts /\ stage[p] = "enrolling" BY <2>1, Owners
  <2>3. pg[p] = "none" BY <2>1, <2>2, ListsDiffer DEF EnrolInd
  <2>4. p \notin SameIp(p) /\ SameIp(p) \in SUBSET Hosts BY <2>3 DEF SameIp
  <2>5. Others(p) /\ Turns(p, SameIp(p)) BY <1>9, <2>4, LoopMoves DEF Dedup
  <2>6. stage' = stage BY <1>9 DEF Dedup
  <2> QED BY <2>2, <2>4, <2>5, <2>6, TurnsFit
<1>10. ASSUME NEW p \in Procs, Search(p) PROVE CallsInd'
  <2>1. List(p) = S1 BY <1>10, Heads DEF Search
  <2>2. p \in Sweepers BY <2>1, Owners
  <2>3. p \notin Silent(es) /\ Silent(es) \in SUBSET Hosts BY <2>2, ProcsApart DEF Silent
  <2>4. Others(p) /\ Turns(p, Silent(es)) BY <1>10, <2>3, LoopMoves DEF Search
  <2>5. stage' = stage BY <1>10 DEF Search
  <2> QED BY <2>2, <2>3, <2>4, <2>5, ProcsApart, TurnsFit
<1>11. ASSUME NEW p \in Procs, CountMembers(p), Members # {} PROVE CallsInd'
  <2>1. List(p) = G2 BY <1>11, Heads DEF CountMembers
  <2>2. p \in Admins BY <2>1, Owners
  <2>3. Then(p, Call(<<>>, p, "same")) /\ stage' = stage
    BY <1>11, CallForms DEF CountMembers
  <2> QED BY <2>2, <2>3, ThenFits, ProcsApart DEF Lists
<1>12. ASSUME NEW p \in Procs, CallFails(p) PROVE CallsInd'
  <2>1. ~Idle(p) BY <1>12 DEF CallFails, At
  <2>2. CASE p \in Hosts /\ (At(p, "keys") \/ At(p, "dedup"))
    <3>1. List(p) \in {R2, E1}
      <4>1. List(p) \in {R2, D3, E1} BY <2>2, Heads
      <4>2. List(p) # D3 BY <2>2, Owners, ProcsApart
      <4> QED BY <4>1, <4>2
    <3>2. stage[p] = "enrolling" BY <3>1, <2>2, Owners, ProcsApart
    <3>3. Then(p, Call(A3, p, "same")) /\ stage' = stage BY <1>12, <2>2, CallForms DEF CallFails
    <3> QED BY <2>2, <3>2, <3>3, ThenFits, ProcsApart DEF Lists
  <2>3. CASE ~(p \in Hosts /\ (At(p, "keys") \/ At(p, "dedup")))
    <3>1. Then(p, Call(<<>>, p, "same")) BY <1>12, <2>3, CallForms DEF CallFails
    <3>2. p \in Hosts => stage[p] \in {"enrolling", "in"}
      <4>1. CASE p \in Hosts
        <5>1. HostCall(p) BY <4>1 DEF CallsInd
        <5> QED BY <4>1, <5>1, <2>1 DEF HostCall, Typed, Idle, List
      <4> QED BY <4>1
    <3>3. /\ p \in Hosts => stage'[p] \in {"out", "in"}
          /\ \A g \in Hosts \ {p} : stage'[g] = stage[g]
      BY <1>12, <2>3, <3>2 DEF CallFails, Typed
    <3> QED BY <3>1, <3>3, ThenFits, ProcsApart DEF Lists
  <2> QED BY <2>2, <2>3
<1>13. ASSUME NEW p \in Procs,
              \/ Spend(p) \/ Save(p) \/ SaveEs(p) \/ WritePg(p) \/ WriteEs(p) \/ DropPg(p)
              \/ DropEs(p) \/ Keys(p) \/ Revoke(p) \/ Expire(p)
              \/ CountMembers(p) /\ Members = {}
              \/ Ungroup(p) \/ WriteFails(p)
       PROVE  CallsInd'
  <2>1. Rest(p) /\ stage' = stage
    BY <1>13 DEF Spend, Save, SaveEs, WritePg, WriteEs, DropPg, DropEs, Keys, Revoke, Expire,
                 CountMembers, Ungroup, WriteFails
  <2>2. \E what \in Names \ {"token", "dedup", "search"} : At(p, what)
    BY <1>13 DEF Spend, Save, SaveEs, WritePg, WriteEs, DropPg, DropEs, Keys, Revoke, Expire,
                 CountMembers, Ungroup, WriteFails, Tolerated, Names
  <2>3. ~Idle(p) BY <2>2 DEF At
  <2>4. List(p) \notin {E1, A1, S1} BY <2>2, ListFacts DEF Named, At, List
  <2> QED BY <2>1, <2>3, <2>4, RestFits
<1> QED BY <1>1, <1>2, <1>3, <1>4, <1>5, <1>6, <1>7, <1>8, <1>9, <1>10, <1>11, <1>12, <1>13
    DEF Step, Write

-----------------------------------------------------------------------------
(* Types                                                                    *)

\* Every step leaves the types as they are.
LEMMA FleetTypeStep ==
  ASSUME FleetTypeOK, CallsInd, EnrolInd, Step, Remember
  PROVE  FleetTypeOK'
<1>0. todo' \in [Procs -> Calls] /\ coming' \in [Procs -> SUBSET Hosts]
  BY CallsStep DEF CallsInd
<1>1. Typed BY TypedCalls
<1>2. loose' \subseteq Hosts /\ quiet' \subseteq Hosts
  BY DEF Remember, Dropped, FleetTypeOK
<1> DEFINE Rows == /\ left' \in -1 .. Uses
                   /\ pg' \in [Hosts -> Status] /\ es' \in [Hosts -> Status]
                   /\ fresh' \subseteq Hosts /\ member' \subseteq Hosts
                   /\ cred' \in [Hosts -> {"none", "active", "revoked"}]
                   /\ group' \in BOOLEAN /\ link' \subseteq Hosts
           Rest1 == /\ stage' \in [Hosts -> {"new", "enrolling", "out", "in"}]
                    /\ addr' \in [Hosts -> [said : Ips, seen : Ips]]
                    /\ earlier' \in [Hosts -> SUBSET Hosts]
                    /\ strays' \subseteq Hosts /\ unreached' \subseteq Hosts
                    /\ ops' \in 0 .. MaxOps /\ faults' \in 0 .. MaxFaults
<1> SUFFICES Rows /\ Rest1
  BY <1>0, <1>2 DEF FleetTypeOK
<1> USE FleetAssumption DEF FleetTypeOK, store, past
<1>3. ASSUME NEW h \in Hosts,
              BeginEnroll(h) \/ Connect(h) \/ Heartbeat(h) \/ HangUp(h) \/ Age(h)
       PROVE  Rows /\ Rest1
  <2>1. CASE BeginEnroll(h) BY <2>1 DEF BeginEnroll
  <2>2. CASE Connect(h) \/ Heartbeat(h) \/ HangUp(h) BY <2>2 DEF Connect, Heartbeat, HangUp
  <2>3. CASE Age(h) BY <2>3 DEF Age, Fault
  <2> QED BY <1>3, <2>1, <2>2, <2>3
<1>4. ASSUME NEW h \in Hosts, NEW p \in Admins,
              Decommission(p, h) \/ Purge(p, h) \/ Upgrade(p, h) \/ MoveGroup(p, h)
       PROVE  Rows /\ Rest1
  BY <1>4 DEF Decommission, Purge, Upgrade, MoveGroup, Operator
<1>5. ASSUME CreateGroup \/ \E p \in Procs : BeginSweep(p) \/ DeleteGroup(p)
       PROVE  Rows /\ Rest1
  <2>1. CASE CreateGroup BY <2>1 DEF CreateGroup, Operator
  <2>2. ASSUME NEW p \in Procs, BeginSweep(p) PROVE Rows /\ Rest1 BY <2>2 DEF BeginSweep
  <2>3. ASSUME NEW p \in Procs, DeleteGroup(p) PROVE Rows /\ Rest1 BY <2>3 DEF DeleteGroup, Operator
  <2> QED BY <1>5, <2>1, <2>2, <2>3
<1>6. ASSUME NEW p \in Procs, WriteFails(p) \/ CallFails(p) PROVE Rows /\ Rest1
  BY <1>6 DEF WriteFails, CallFails, Fault
<1>7. ASSUME NEW p \in Procs, Spend(p) \/ Dedup(p) \/ Keys(p) \/ Search(p) \/ Ungroup(p)
       PROVE  Rows /\ Rest1
  <2>1. CASE Spend(p) BY <2>1 DEF Spend
  <2>2. CASE Dedup(p) \/ Keys(p) \/ Search(p) BY <2>2 DEF Dedup, Keys, Search
  <2>3. CASE Ungroup(p) BY <2>3 DEF Ungroup
  <2> QED BY <1>7, <2>1, <2>2, <2>3
<1>8. ASSUME NEW p \in Procs, Save(p) \/ SaveEs(p) \/ Token(p) PROVE Rows /\ Rest1
  <2>1. List(p) \in {A3, A2, A1} BY <1>1, <1>8, Heads DEF Save, SaveEs, Token
  <2>2. p \in Hosts BY <1>1, <2>1, Owners
  <2>3. CASE Save(p) BY <2>2, <2>3 DEF Save, Joins, Status
  <2>4. CASE SaveEs(p) BY <2>2, <2>4 DEF SaveEs, Status
  <2>5. CASE Token(p) BY <2>2, <2>5 DEF Token
  <2> QED BY <1>8, <2>3, <2>4, <2>5
<1>9. ASSUME NEW p \in Procs,
              \/ WritePg(p) \/ WriteEs(p) \/ DropPg(p) \/ DropEs(p) \/ Revoke(p)
       PROVE  Rows /\ Rest1
  <2>1. List(p) \in {U2, R4, D5, U1, R3, D4, P4, P3, R1, D2, D1}
    BY <1>1, <1>9, Heads DEF WritePg, WriteEs, DropPg, DropEs, Revoke
  <2>2. Target(p) \in Hosts BY <1>1, <2>1, Owners
  <2>3. CASE WritePg(p)
    <3>1. Written(pg[Target(p)], todo[p].st) \in Status BY <2>2 DEF Written, Status
    <3> QED BY <2>2, <2>3, <3>1 DEF WritePg, Joins, Target
  <2>4. CASE WriteEs(p)
    <3>1. Written(es[Target(p)], todo[p].st) \in Status BY <2>2 DEF Written, Status
    <3> QED BY <2>2, <2>4, <3>1 DEF WriteEs
  <2>5. CASE DropPg(p) \/ DropEs(p)
    BY <2>2, <2>5 DEF DropPg, DropEs, Status
  <2>6. CASE Revoke(p)
    BY <2>2, <2>6 DEF Revoke
  <2> QED BY <1>9, <2>3, <2>4, <2>5, <2>6
<1>10. ASSUME NEW p \in Procs, Expire(p) PROVE Rows /\ Rest1
  BY <1>10 DEF Expire, Status
<1>11. ASSUME NEW p \in Procs, CountMembers(p) PROVE Rows /\ Rest1
  BY <1>11 DEF CountMembers
<1> QED BY <1>3, <1>4, <1>5, <1>6, <1>7, <1>8, <1>9, <1>10, <1>11 DEF Step, Write

-----------------------------------------------------------------------------
(* The kinds of steps                                                       *)

Still == CreateGroup \/ \E h \in Hosts : Heartbeat(h) \/ HangUp(h) \/ Age(h)

Begins(p) ==
  \/ p \in Hosts /\ (BeginEnroll(p) \/ Connect(p))
  \/ p \in Admins /\ \E h \in Hosts : Decommission(p, h) \/ Purge(p, h) \/ Upgrade(p, h) \/ MoveGroup(p, h)
  \/ BeginSweep(p) \/ DeleteGroup(p)

GoesOn(p) ==
  \/ Spend(p) \/ Save(p) \/ SaveEs(p) \/ WritePg(p) \/ WriteEs(p) \/ DropPg(p) \/ DropEs(p)
  \/ Keys(p) \/ Revoke(p) \/ Expire(p) \/ (CountMembers(p) /\ Members = {}) \/ Ungroup(p)
  \/ WriteFails(p)

Loops(p) == Dedup(p) \/ Search(p)

Stops(p) == Token(p) \/ (CountMembers(p) /\ Members # {}) \/ CallFails(p)

\* Every step leaves the calls alone, or begins, goes on with, loops in or stops one.
LEMMA StepKinds ==
  ASSUME Step
  PROVE  Still \/ \E p \in Procs : Begins(p) \/ GoesOn(p) \/ Loops(p) \/ Stops(p)
<1>1. Hosts \subseteq Procs /\ Admins \subseteq Procs BY DEF Procs
<1>2. CASE CreateGroup BY <1>2 DEF Still
<1>3. ASSUME NEW h \in Hosts, BeginEnroll(h) \/ Connect(h) \/ Heartbeat(h) \/ HangUp(h) \/ Age(h)
      PROVE  Still \/ Begins(h)
  BY <1>3 DEF Still, Begins
<1>4. ASSUME NEW h \in Hosts, NEW p \in Admins,
             Decommission(p, h) \/ Purge(p, h) \/ Upgrade(p, h) \/ MoveGroup(p, h)
      PROVE  Begins(p)
  BY <1>4 DEF Begins
<1>5. ASSUME NEW p \in Procs, Write(p) \/ WriteFails(p) \/ CallFails(p) \/ BeginSweep(p) \/ DeleteGroup(p)
      PROVE  Begins(p) \/ GoesOn(p) \/ Loops(p) \/ Stops(p)
  BY <1>5 DEF Write, Begins, GoesOn, Loops, Stops
<1> QED BY <1>1, <1>2, <1>3, <1>4, <1>5 DEF Step

\* The new call of p, and the one it goes on with.
New(p, l, t, st) == /\ List(p)' = l /\ Target(p)' = t /\ todo'[p].st = st
                    /\ coming'[p] = {}

\* A call that begins: its list, its host and its status.
LEMMA BeginMoves ==
  ASSUME Typed, NEW p \in Procs, Begins(p)
  PROVE  /\ Others(p) /\ List(p) = <<>>
         /\ \/ BeginEnroll(p) /\ p \in Hosts /\ New(p, E2, p, "same")
            \/ Connect(p) /\ p \in Hosts /\ New(p, U2, p, "online") /\ cred[p] = "active"
            \/ p \in Sweepers /\ New(p, S2, p, "same") /\ BeginSweep(p)
            \/ p \in Admins /\ New(p, G2, p, "same") /\ DeleteGroup(p)
            \/ p \in Admins /\ \E h \in Hosts :
                 \/ New(p, D5, h, "decommissioned") /\ Decommission(p, h)
                 \/ New(p, P4, h, "same") /\ Purge(p, h)
                 \/ \E st \in {"offline", "join", "leave"} :
                      New(p, U2, h, st) /\ (Upgrade(p, h) \/ MoveGroup(p, h))
<1>0. ASSUME NEW l \in Lists, NEW t \in Procs, NEW st \in Status \cup {"same", "join", "leave"},
             Then(p, Call(l, t, st))
      PROVE  Others(p) /\ New(p, l, t, st)
  <2>1. Call(l, t, st) \in Calls BY CallTyped, ListsTyped
  <2>2. Others(p) /\ Becomes(p, Call(l, t, st), {}) BY <1>0, <2>1, ThenMoves
  <2> QED BY <2>2 DEF Becomes, Call, New, List, Target
<1>1. CASE p \in Hosts /\ BeginEnroll(p)
  <2>1. Then(p, Call(E2, p, "same")) BY <1>1 DEF BeginEnroll, E2
  <2>2. List(p) = <<>> BY <1>1 DEF BeginEnroll, Free, Idle, List
  <2> QED BY <1>0, <1>1, <2>1, <2>2 DEF Lists
<1>2. CASE p \in Hosts /\ Connect(p)
  <2>1. Then(p, Call(U2, p, "online")) BY <1>2, CallForms DEF Connect
  <2>2. List(p) = <<>> /\ cred[p] = "active" BY <1>2 DEF Connect, Free, Idle, List
  <2> QED BY <1>0, <1>2, <2>1, <2>2 DEF Lists, Status
<1>3. CASE BeginSweep(p)
  <2>1. Then(p, Call(S2, p, "same")) BY <1>3 DEF BeginSweep, S2
  <2>2. List(p) = <<>> /\ p \in Sweepers BY <1>3 DEF BeginSweep, Free, Idle, List
  <2> QED BY <1>0, <1>3, <2>1, <2>2 DEF Lists
<1>4. CASE DeleteGroup(p)
  <2>1. Then(p, Call(G2, p, "same")) BY <1>4 DEF DeleteGroup, G2
  <2>2. List(p) = <<>> /\ p \in Admins BY <1>4 DEF DeleteGroup, Free, Idle, List
  <2> QED BY <1>0, <1>4, <2>1, <2>2 DEF Lists
<1>5. ASSUME NEW h \in Hosts, p \in Admins, Decommission(p, h)
      PROVE  Others(p) /\ List(p) = <<>> /\ New(p, D5, h, "decommissioned")
  <2>1. Then(p, Call(D5, h, "decommissioned")) BY <1>5, CallForms DEF Decommission
  <2>2. List(p) = <<>> /\ h \in Procs BY <1>5 DEF Decommission, Free, Idle, List, Procs
  <2> QED BY <1>0, <2>1, <2>2 DEF Lists, Status
<1>6. ASSUME NEW h \in Hosts, p \in Admins, Purge(p, h)
      PROVE  Others(p) /\ List(p) = <<>> /\ New(p, P4, h, "same")
  <2>1. Then(p, Call(P4, h, "same")) BY <1>6 DEF Purge, P4
  <2>2. List(p) = <<>> /\ h \in Procs BY <1>6 DEF Purge, Free, Idle, List, Procs
  <2> QED BY <1>0, <2>1, <2>2 DEF Lists
<1>7. ASSUME NEW h \in Hosts, p \in Admins, Upgrade(p, h) \/ MoveGroup(p, h)
      PROVE  /\ Others(p) /\ List(p) = <<>>
             /\ \E st \in {"offline", "join", "leave"} : New(p, U2, h, st)
  <2>1. PICK s \in {"offline", "join", "leave"} : Then(p, Call(U2, h, s))
    BY <1>7, CallForms DEF Upgrade, MoveGroup
  <2>2. List(p) = <<>> /\ h \in Procs BY <1>7 DEF Upgrade, MoveGroup, Free, Idle, List, Procs
  <2> QED BY <1>0, <2>1, <2>2 DEF Lists, Status
<1> QED BY <1>1, <1>2, <1>3, <1>4, <1>5, <1>6, <1>7 DEF Begins

\* A call that goes on has writes to make and leaves the stage of its host.
LEMMA GoMoves ==
  ASSUME Typed, CallsInd, NEW p \in Procs, GoesOn(p)
  PROVE  /\ Others(p) /\ ~Idle(p) /\ stage' = stage /\ Rest(p)
         /\ List(p) \notin {E1, A1, S1}
<1>1. Rest(p) /\ stage' = stage
  BY DEF GoesOn, Spend, Save, SaveEs, WritePg, WriteEs, DropPg, DropEs, Keys, Revoke, Expire,
         CountMembers, Ungroup, WriteFails
<1>2. \E what \in Names \ {"token", "dedup", "search"} : At(p, what)
  BY DEF GoesOn, Spend, Save, SaveEs, WritePg, WriteEs, DropPg, DropEs, Keys, Revoke, Expire,
         CountMembers, Ungroup, WriteFails, Tolerated, Names
<1>3. ~Idle(p) BY <1>2 DEF At
<1>4. List(p) \notin {E1, A1, S1} BY <1>2, ListFacts DEF Named, At, List
<1> QED BY <1>1, <1>3, <1>4, RestTable

\* A call that stops is over, or admits the host after all.
LEMMA StopMoves ==
  ASSUME Typed, CallsInd, NEW p \in Procs, Stops(p)
  PROVE  /\ Others(p) /\ ~Idle(p)
         /\ \/ New(p, <<>>, p, "same") /\ (CallFails(p) \/ List(p) \in {A1, G2})
            \/ p \in Hosts /\ List(p) \in {R2, E1} /\ New(p, A3, p, "same") /\ CallFails(p) /\ stage' = stage
<1>0. ASSUME NEW l \in Lists, Then(p, Call(l, p, "same"))
      PROVE  Others(p) /\ New(p, l, p, "same")
  <2>1. Call(l, p, "same") \in Calls BY CallTyped, ListsTyped
  <2>2. Others(p) /\ Becomes(p, Call(l, p, "same"), {}) BY <1>0, <2>1, ThenMoves
  <2> QED BY <2>2 DEF Becomes, Call, New, List, Target
<1>1. CASE Token(p)
  <2>1. Then(p, Call(<<>>, p, "same")) BY <1>1, CallForms DEF Token
  <2>2. List(p) = A1 /\ ~Idle(p) BY <1>1, Heads DEF Token, At
  <2> QED BY <1>0, <2>1, <2>2 DEF Lists
<1>2. CASE CountMembers(p) /\ Members # {}
  <2>1. Then(p, Call(<<>>, p, "same")) BY <1>2, CallForms DEF CountMembers
  <2>2. List(p) = G2 /\ ~Idle(p) BY <1>2, Heads DEF CountMembers, At
  <2> QED BY <1>0, <2>1, <2>2 DEF Lists
<1>3. CASE CallFails(p) /\ p \in Hosts /\ (At(p, "keys") \/ At(p, "dedup"))
  <2>1. List(p) \in {R2, E1}
    <3>1. List(p) \in {R2, D3, E1} BY <1>3, Heads
    <3>2. List(p) # D3 BY <1>3, Owners, ProcsApart
    <3> QED BY <3>1, <3>2
  <2>2. Then(p, Call(A3, p, "same")) /\ stage' = stage BY <1>3, CallForms DEF CallFails
  <2>3. ~Idle(p) BY <1>3 DEF At
  <2> QED BY <1>0, <1>3, <2>1, <2>2, <2>3 DEF Lists
<1>4. CASE CallFails(p) /\ ~(p \in Hosts /\ (At(p, "keys") \/ At(p, "dedup")))
  <2>1. Then(p, Call(<<>>, p, "same")) BY <1>4, CallForms DEF CallFails
  <2>2. ~Idle(p) BY <1>4 DEF CallFails, At
  <2> QED BY <1>0, <1>4, <2>1, <2>2 DEF Lists
<1> QED BY <1>1, <1>2, <1>3, <1>4 DEF Stops

Turned(p, S) ==
  \/ /\ S = {} /\ Target(p)' = p /\ coming'[p] = {}
     /\ List(p)' = IF p \in Hosts /\ stage[p] = "enrolling" THEN A3 ELSE <<>>
  \/ \E g \in S : /\ Target(p)' = g /\ coming'[p] = S \ {g}
                 /\ \/ p \in Hosts /\ List(p)' = R4 /\ todo'[p].st = "decommissioned"
                    \/ p \notin Hosts /\ List(p)' = U2 /\ todo'[p].st = "offline"

\* A loop that goes on, by the lists.
LEMMA TurnsTurned ==
  ASSUME NEW p \in Procs, NEW S \in SUBSET Hosts, Turns(p, S)
  PROVE  Turned(p, S)
<1>1. CASE S = {} /\ todo'[p] = After(p) /\ coming'[p] = {}
  BY <1>1, CallForms DEF Turned, After, Call, List, Target
<1>2. ASSUME NEW g \in S, todo'[p] = Body(p, g), coming'[p] = S \ {g} PROVE Turned(p, S)
  <2>1. CASE p \in Hosts
    <3>1. todo'[p] = Call(R4, g, "decommissioned") BY <1>2, <2>1, CallForms DEF Body
    <3>2. List(p)' = R4 /\ Target(p)' = g /\ todo'[p].st = "decommissioned"
      BY <3>1 DEF Call, List, Target
    <3> QED BY <1>2, <2>1, <3>2 DEF Turned
  <2>2. CASE p \notin Hosts
    <3>1. todo'[p] = Call(U2, g, "offline") BY <1>2, <2>2, CallForms DEF Body
    <3>2. List(p)' = U2 /\ Target(p)' = g /\ todo'[p].st = "offline"
      BY <3>1 DEF Call, List, Target
    <3> QED BY <1>2, <2>2, <3>2 DEF Turned
  <2> QED BY <2>1, <2>2
<1> QED BY <1>1, <1>2 DEF Turns, Becomes

\* The two steps that begin a loop.
LEMMA LoopSteps ==
  ASSUME Typed, CallsInd, NEW p \in Procs, Loops(p)
  PROVE  /\ Others(p) /\ stage' = stage /\ coming[p] = {}
         /\ \/ /\ List(p) = E1 /\ Dedup(p) /\ p \in Hosts /\ stage[p] = "enrolling" /\ Target(p) = p
               /\ Turned(p, SameIp(p))
            \/ List(p) = S1 /\ Search(p) /\ p \in Sweepers /\ Turned(p, Silent(es))
<1>1. CASE Dedup(p)
  <2>1. List(p) = E1 BY <1>1, Heads DEF Dedup
  <2>2. SameIp(p) \in SUBSET Hosts BY DEF SameIp
  <2>3. Others(p) /\ Turned(p, SameIp(p)) BY <1>1, <2>2, LoopMoves, TurnsTurned DEF Dedup
  <2>4. stage' = stage BY <1>1 DEF Dedup
  <2> QED BY <1>1, <2>1, <2>3, <2>4, Owners
<1>2. CASE Search(p)
  <2>1. List(p) = S1 BY <1>2, Heads DEF Search
  <2>2. Silent(es) \in SUBSET Hosts BY DEF Silent
  <2>3. Others(p) /\ Turned(p, Silent(es)) BY <1>2, <2>2, LoopMoves, TurnsTurned DEF Search
  <2>4. stage' = stage BY <1>2 DEF Search
  <2> QED BY <1>2, <2>1, <2>3, <2>4, Owners
<1> QED BY <1>1, <1>2 DEF Loops

\* The lists with a successor, and what follows the others.
LEMMA GoesBy ==
  ASSUME Typed, CallsInd, NEW p \in Procs, GoesOn(p)
  PROVE  \/ SameHost(p) /\ <<List(p), List(p)'>> \in
              {<<E2, E1>>, <<A3, A2>>, <<A2, A1>>, <<U2, U1>>, <<R4, R3>>, <<R3, R2>>, <<R2, R1>>,
               <<D5, D4>>, <<D4, D3>>, <<D3, D2>>, <<D2, D1>>, <<P4, P3>>, <<P3, R2>>, <<S2, S1>>,
               <<G2, G1>>}
         \/ List(p) \in {U1, R1, D1, G1} /\ Turned(p, coming[p])
<1>1. ~Idle(p) /\ Rest(p) /\ List(p) \notin {E1, A1, S1} BY GoMoves
<1>2. List(p) \in Lists \ {<<>>} BY <1>1, Owners DEF Idle, List
<1>3. CASE List(p) \in {U1, R1, D1, G1}
  <2>1. coming[p] \in SUBSET Hosts BY DEF Typed
  <2> QED BY <1>1, <1>3, <2>1, RestTable, TurnsTurned
<1>4. CASE List(p) \notin {U1, R1, D1, G1}
  <2>1. SameHost(p) BY <1>1, <1>4, RestTable
  <2> QED BY <1>1, <1>2, <1>4, <2>1, RestTable DEF Lists, Goes, List
<1> QED BY <1>3, <1>4

\* A call that goes on or stops has another list afterwards.
LEMMA Changes ==
  ASSUME Typed, CallsInd, NEW p \in Procs, GoesOn(p) \/ Stops(p)
  PROVE  List(p)' # List(p)
<1>1. CASE Stops(p) BY <1>1, StopMoves, ListsDiffer DEF New, Idle, List
<1>2. CASE GoesOn(p) /\ SameHost(p) BY <1>2, GoesBy, ListsDiffer DEF Turned
<1>3. CASE GoesOn(p) BY <1>3, GoesBy, ListsDiffer DEF Turned
<1> QED BY <1>1, <1>2, <1>3

\* A host without a mark is in one call at most, and no failure was in it.
LEMMA LooseFacts ==
  ASSUME Remember, NEW h \in Hosts, h \notin loose'
  PROVE  /\ h \notin loose
         /\ \A p, q \in Busy(h)' : p = q
         /\ faults' > faults => \A p \in Busy(h) : todo'[p] = todo[p]
BY DEF Remember, Dropped

\* A failure leaves its mark on the hosts the call was to come to.
LEMMA Marks ==
  ASSUME FleetTypeOK, CallsInd, Remember, NEW h \in Hosts, h \notin loose', NEW p \in Procs,
         WriteFails(p) \/ CallFails(p)
  PROVE  Target(p) # h /\ h \notin coming[p] /\ ~(p = h /\ stage[h] = "enrolling")
<1>1. faults' > faults BY DEF FleetTypeOK, WriteFails, CallFails, Fault
<1>2. List(p)' # List(p) BY Changes, TypedCalls DEF GoesOn, Stops
<1>3. ~Idle(p) BY DEF WriteFails, CallFails, At
<1>4. p \notin Busy(h) BY <1>1, <1>2, LooseFacts DEF List
<1> QED BY <1>3, <1>4 DEF Busy

-----------------------------------------------------------------------------
(* What a step does to one host                                             *)

\* What a step does to the row of a host.
LEMMA PgCases ==
  ASSUME FleetTypeOK, CallsInd, Step, NEW h \in Hosts
  PROVE  \/ pg'[h] = pg[h]
         \/ pg[h] = "online" /\ pg'[h] = "offline"
         \/ Save(h) /\ pg'[h] = "online"
         \/ \E p \in Procs : WritePg(p) /\ Target(p) = h /\ pg'[h] = Written(pg[h], todo[p].st)
         \/ \E p \in Procs : DropPg(p) /\ Target(p) = h /\ pg'[h] = "none"
<1> USE DEF store, FleetTypeOK
<1>1. CASE Still
  BY <1>1 DEF Still, CreateGroup, Heartbeat, HangUp, Age
<1>2. ASSUME NEW p \in Procs, Begins(p) PROVE pg' = pg
  BY <1>2 DEF Begins, BeginEnroll, Connect, Decommission, Purge, Upgrade, MoveGroup, BeginSweep, DeleteGroup
<1>3. ASSUME NEW p \in Procs, Loops(p) \/ Stops(p) PROVE pg' = pg
  BY <1>3 DEF Loops, Stops, Dedup, Search, Token, CountMembers, CallFails
<1>4. ASSUME NEW p \in Procs, GoesOn(p), ~Save(p), ~WritePg(p), ~DropPg(p), ~Expire(p) PROVE pg' = pg
  BY <1>4 DEF GoesOn, Spend, SaveEs, WriteEs, DropEs, Keys, Revoke, CountMembers, Ungroup, WriteFails
<1>5. ASSUME NEW p \in Procs, Save(p)
      PROVE pg'[h] = pg[h] \/ (p = h /\ pg'[h] = "online")
  BY <1>5 DEF Save
<1>6. ASSUME NEW p \in Procs, WritePg(p)
      PROVE pg'[h] = pg[h] \/ (Target(p) = h /\ pg'[h] = Written(pg[h], todo[p].st))
  BY <1>6 DEF WritePg, Target
<1>7. ASSUME NEW p \in Procs, DropPg(p)
      PROVE pg'[h] = pg[h] \/ (Target(p) = h /\ pg'[h] = "none")
  BY <1>7 DEF DropPg, Target
<1>8. ASSUME NEW p \in Procs, Expire(p)
      PROVE pg'[h] = pg[h] \/ (pg[h] = "online" /\ pg'[h] = "offline")
  BY <1>8 DEF Expire, Silent
<1> QED BY StepKinds, <1>1, <1>2, <1>3, <1>4, <1>5, <1>6, <1>7, <1>8

\* What a step does to its document.
LEMMA EsCases ==
  ASSUME FleetTypeOK, CallsInd, Step, NEW h \in Hosts
  PROVE  \/ es'[h] = es[h]
         \/ SaveEs(h) /\ es'[h] = "online"
         \/ \E p \in Procs : WriteEs(p) /\ Target(p) = h /\ es'[h] = Written(es[h], todo[p].st)
         \/ \E p \in Procs : DropEs(p) /\ Target(p) = h /\ es'[h] = "none"
<1> USE DEF store, FleetTypeOK
<1>1. CASE Still
  BY <1>1 DEF Still, CreateGroup, Heartbeat, HangUp, Age
<1>2. ASSUME NEW p \in Procs, Begins(p) PROVE es' = es
  BY <1>2 DEF Begins, BeginEnroll, Connect, Decommission, Purge, Upgrade, MoveGroup, BeginSweep, DeleteGroup
<1>3. ASSUME NEW p \in Procs, Loops(p) \/ Stops(p) PROVE es' = es
  BY <1>3 DEF Loops, Stops, Dedup, Search, Token, CountMembers, CallFails
<1>4. ASSUME NEW p \in Procs, GoesOn(p), ~SaveEs(p), ~WriteEs(p), ~DropEs(p) PROVE es' = es
  BY <1>4 DEF GoesOn, Spend, Save, WritePg, DropPg, Expire, Keys, Revoke, CountMembers, Ungroup, WriteFails
<1>5. ASSUME NEW p \in Procs, SaveEs(p)
      PROVE es'[h] = es[h] \/ (p = h /\ es'[h] = "online")
  BY <1>5 DEF SaveEs
<1>6. ASSUME NEW p \in Procs, WriteEs(p)
      PROVE es'[h] = es[h] \/ (Target(p) = h /\ es'[h] = Written(es[h], todo[p].st))
  BY <1>6 DEF WriteEs, Target
<1>7. ASSUME NEW p \in Procs, DropEs(p)
      PROVE es'[h] = es[h] \/ (Target(p) = h /\ es'[h] = "none")
  BY <1>7 DEF DropEs, Target
<1> QED BY StepKinds, <1>1, <1>2, <1>3, <1>4, <1>5, <1>6, <1>7

\* What a step does to its credential.
LEMMA CredCases ==
  ASSUME FleetTypeOK, CallsInd, Step, NEW h \in Hosts
  PROVE  \/ cred'[h] = cred[h]
         \/ Token(h) /\ cred'[h] = "active"
         \/ \E p \in Procs : /\ Revoke(p) /\ Target(p) = h
                            /\ cred'[h] = IF cred[h] = "active" THEN "revoked" ELSE cred[h]
<1> USE DEF store, FleetTypeOK
<1>1. CASE Still
  BY <1>1 DEF Still, CreateGroup, Heartbeat, HangUp, Age
<1>2. ASSUME NEW p \in Procs, Begins(p) PROVE cred' = cred
  BY <1>2 DEF Begins, BeginEnroll, Connect, Decommission, Purge, Upgrade, MoveGroup, BeginSweep, DeleteGroup
<1>3. ASSUME NEW p \in Procs, Loops(p) \/ Stops(p), ~Token(p) PROVE cred' = cred
  BY <1>3 DEF Loops, Stops, Dedup, Search, CountMembers, CallFails
<1>4. ASSUME NEW p \in Procs, GoesOn(p), ~Revoke(p) PROVE cred' = cred
  BY <1>4 DEF GoesOn, Spend, Save, SaveEs, WritePg, WriteEs, DropPg, DropEs, Expire, Keys, CountMembers,
              Ungroup, WriteFails
<1>5. ASSUME NEW p \in Procs, Token(p)
      PROVE cred'[h] = cred[h] \/ (p = h /\ cred'[h] = "active")
  BY <1>5 DEF Token
<1>6. ASSUME NEW p \in Procs, Revoke(p)
      PROVE \/ cred'[h] = cred[h]
            \/ Target(p) = h /\ cred'[h] = IF cred[h] = "active" THEN "revoked" ELSE cred[h]
  BY <1>6 DEF Revoke, Target
<1> QED BY StepKinds, <1>1, <1>2, <1>3, <1>4, <1>5, <1>6

\* What a step does to its stage and to the hosts that were in before it.
LEMMA StageCases ==
  ASSUME FleetTypeOK, CallsInd, Step, NEW h \in Hosts
  PROVE  \/ stage'[h] = stage[h] /\ earlier'[h] = earlier[h]
         \/ /\ BeginEnroll(h) /\ stage[h] = "new" /\ stage'[h] = "enrolling"
            /\ earlier'[h] = {g \in Hosts : stage[g] = "in"}
         \/ Token(h) /\ List(h) = A1 /\ stage[h] = "enrolling" /\ stage'[h] = "in" /\ earlier'[h] = earlier[h]
         \/ CallFails(h) /\ stage[h] = "enrolling" /\ stage'[h] = "out" /\ earlier'[h] = earlier[h]
<1> USE DEF past, FleetTypeOK
<1>0. Typed BY TypedCalls
<1>1. CASE Still
  BY <1>1 DEF Still, CreateGroup, Heartbeat, HangUp, Age
<1>2. ASSUME NEW p \in Procs, Begins(p), ~(p \in Hosts /\ BeginEnroll(p))
      PROVE stage' = stage /\ earlier' = earlier
  BY <1>2 DEF Begins, Connect, Decommission, Purge, Upgrade, MoveGroup, BeginSweep, DeleteGroup
<1>3. ASSUME NEW p \in Procs, Loops(p) \/ Stops(p), ~Token(p), ~CallFails(p)
      PROVE stage' = stage /\ earlier' = earlier
  BY <1>3 DEF Loops, Stops, Dedup, Search, CountMembers
<1>4. ASSUME NEW p \in Procs, GoesOn(p) PROVE stage' = stage /\ earlier' = earlier
  BY <1>4 DEF GoesOn, Spend, Save, SaveEs, WritePg, WriteEs, DropPg, DropEs, Expire, Revoke, Keys, CountMembers,
              Ungroup, WriteFails
<1>5. ASSUME NEW p \in Hosts, BeginEnroll(p)
      PROVE \/ stage'[h] = stage[h] /\ earlier'[h] = earlier[h]
            \/ /\ p = h /\ stage[h] = "new" /\ stage'[h] = "enrolling"
               /\ earlier'[h] = {g \in Hosts : stage[g] = "in"}
  BY <1>5 DEF BeginEnroll
<1>6. ASSUME NEW p \in Procs, Token(p)
      PROVE \/ stage'[h] = stage[h] /\ earlier'[h] = earlier[h]
            \/ p = h /\ List(h) = A1 /\ stage[h] = "enrolling" /\ stage'[h] = "in" /\ earlier'[h] = earlier[h]
  <2>1. List(p) = A1 /\ p \in Hosts /\ stage[p] = "enrolling" BY <1>0, <1>6, Heads, Owners DEF Token
  <2> QED BY <1>6, <2>1 DEF Token
<1>7. ASSUME NEW p \in Procs, CallFails(p)
      PROVE \/ stage'[h] = stage[h] /\ earlier'[h] = earlier[h]
            \/ p = h /\ stage[h] = "enrolling" /\ stage'[h] = "out" /\ earlier'[h] = earlier[h]
  BY <1>7 DEF CallFails
<1> QED BY StepKinds, <1>1, <1>2, <1>3, <1>4, <1>5, <1>6, <1>7

\* What a step does to the call of a process.
LEMMA CallCases ==
  ASSUME FleetTypeOK, CallsInd, Step, NEW p \in Procs
  PROVE  \/ todo'[p] = todo[p] /\ coming'[p] = coming[p]
         \/ Begins(p) \/ GoesOn(p) \/ Loops(p) \/ Stops(p)
<1>0. Typed BY TypedCalls
<1>1. CASE Still BY <1>1 DEF Still, CreateGroup, Heartbeat, HangUp, Age, calls
<1>2. ASSUME NEW q \in Procs, Begins(q) \/ GoesOn(q) \/ Loops(q) \/ Stops(q)
      PROVE  Others(q)
  BY <1>0, <1>2, BeginMoves, GoMoves, LoopSteps, StopMoves
<1> QED BY <1>1, <1>2, StepKinds DEF Others

\* The writes a call goes on with, and the lists they are made at.
LEMMA GoLists ==
  ASSUME Typed, CallsInd, NEW p \in Procs, GoesOn(p)
  PROVE  \/ WriteFails(p)
         \/ Spend(p) /\ List(p) = E2
         \/ Save(p) /\ List(p) = A3
         \/ SaveEs(p) /\ List(p) = A2
         \/ WritePg(p) /\ List(p) \in {U2, R4, D5}
         \/ WriteEs(p) /\ List(p) \in {U1, R3, D4}
         \/ DropPg(p) /\ List(p) = P4
         \/ DropEs(p) /\ List(p) = P3
         \/ Keys(p) /\ List(p) \in {R2, D3}
         \/ Revoke(p) /\ List(p) \in {R1, D2, D1}
         \/ Expire(p) /\ List(p) = S2
         \/ CountMembers(p) /\ Members = {} /\ List(p) = G2
         \/ Ungroup(p) /\ List(p) = G1
BY Heads DEF GoesOn, Spend, Save, SaveEs, WritePg, WriteEs, DropPg, DropEs, Keys, Revoke, Expire,
             CountMembers, Ungroup

\* A write to a host is made by a call that is busy with it.
LEMMA BusyFacts ==
  ASSUME Typed, CallsInd, SoloInd, NEW h \in Hosts, h \notin loose
  PROVE  /\ \A p, q \in Procs : ~Idle(p) /\ Target(p) = h /\ ~Idle(q) /\ Target(q) = h => p = q
         /\ \A p \in Procs : ~Idle(p) /\ Target(p) = h /\ stage[h] = "enrolling" => p = h
         /\ \A p, q \in Procs : ~Idle(p) /\ Target(p) = h /\ h \in coming[q] => p = q
BY DEF SoloInd, Busy, Procs

-----------------------------------------------------------------------------
(* Enrolment                                                                *)

\* How far a host has come tells what the stores hold of it.
LEMMA EnrolStep ==
  ASSUME FleetTypeOK, CallsInd, SoloInd, EnrolInd, Step, Remember
  PROVE  EnrolInd'
<1>0. Typed BY TypedCalls
<1>1. \A h \in Hosts : h \in Procs BY DEF Procs
<1>2. CallsInd' BY CallsStep
<1>3. ASSUME NEW h \in Hosts, stage[h] = "enrolling", stage'[h] = "enrolling"
      PROVE  \/ List(h)' = List(h)
             \/ List(h)' = A2 /\ Save(h)
             \/ List(h)' = A2 /\ WriteFails(h)
             \/ List(h)' = A1 /\ List(h) = A2
             \/ List(h)' \notin {A2, A1} /\ List(h) \notin {A2, A1}
  <2>1. HostCall(h)' BY <1>2 DEF CallsInd
  <2>2. List(h)' # <<>> BY <1>3, <2>1, ListsDiffer DEF HostCall
  <2>3. CASE todo'[h] = todo[h] BY <2>3 DEF List
  <2>4. ~Begins(h)
    <3>1. List(h) # <<>>
      <4>1. HostCall(h) BY DEF CallsInd
      <4> QED BY <1>3, <4>1, ListsDiffer DEF HostCall
    <3> QED BY <1>0, <1>1, <3>1, BeginMoves
  <2>5. CASE GoesOn(h)
    <3>1. CASE List(h) = A3
      <4>1. List(h)' = A2 BY <1>0, <1>1, <2>5, <3>1, GoesBy, ListsDiffer
      <4>2. Save(h) \/ WriteFails(h) BY <1>0, <1>1, <2>5, <3>1, GoLists, ListsDiffer
      <4> QED BY <4>1, <4>2
    <3>2. CASE List(h) # A3
      BY <1>0, <1>1, <2>5, <3>2, <2>1, <1>3, GoesBy, ListsDiffer DEF Turned
    <3> QED BY <3>1, <3>2
  <2>6. CASE Loops(h)
    BY <1>0, <1>1, <2>6, LoopSteps, ListsDiffer DEF Turned
  <2>7. CASE Stops(h)
    BY <1>0, <1>1, <2>2, <2>7, StopMoves, ListsDiffer DEF New
  <2> QED BY <1>1, <2>3, <2>4, <2>5, <2>6, <2>7, CallCases
<1>4. ASSUME NEW h \in Hosts,
             stage'[h] = "new" \/ (stage'[h] = "enrolling" /\ List(h)' \notin {A2, A1})
      PROVE  pg'[h] = "none" /\ es'[h] = "none"
  <2>1. stage[h] = "new" \/ (stage[h] = "enrolling" /\ List(h) \notin {A2, A1})
    BY <1>3, <1>4, StageCases, ListsDiffer
  <2>2. pg[h] = "none" /\ es[h] = "none" BY <2>1 DEF EnrolInd
  <2>3. ~Save(h) /\ ~SaveEs(h)
    <3>1. ASSUME Save(h) \/ SaveEs(h) PROVE FALSE
      <4>1. GoesOn(h) /\ List(h) \in {A3, A2} BY <1>0, <1>1, <3>1, Heads DEF GoesOn, Save, SaveEs
      <4>2. List(h)' \in {A2, A1} BY <1>0, <1>1, <4>1, GoesBy, ListsDiffer
      <4>3. stage[h] = "enrolling" /\ stage' = stage BY <1>0, <1>1, <4>1, Owners, GoMoves
      <4> QED BY <1>4, <4>2, <4>3
    <3> QED BY <3>1
  <2>4. pg'[h] = "none" BY <2>2, <2>3, PgCases DEF Written
  <2>5. es'[h] = "none" BY <2>2, <2>3, EsCases DEF Written
  <2> QED BY <2>4, <2>5
<1>5. ASSUME NEW h \in Hosts PROVE cred'[h] = "none" <=> stage'[h] # "in"
  <2>1. cred[h] = "none" <=> stage[h] # "in" BY DEF EnrolInd
  <2>2. CASE Token(h)
    <3>1. List(h) = A1 BY <1>0, <1>1, <2>2, Heads DEF Token
    <3> QED BY <2>2 DEF Token, FleetTypeOK
  <2>3. CASE ~Token(h)
    <3>1. cred'[h] = "none" <=> cred[h] = "none" BY <2>3, CredCases
    <3> QED BY <2>1, <2>3, <3>1, StageCases
  <2> QED BY <2>2, <2>3
<1>6. ASSUME NEW h \in Hosts, stage'[h] = "enrolling", List(h)' \in {A2, A1}, h \notin loose'
      PROVE  pg'[h] \in Live
  <2>1. h \notin loose BY <1>6, LooseFacts
  <2>2. stage[h] = "enrolling"
    <3>1. ~BeginEnroll(h)
      <4>1. ASSUME BeginEnroll(h) PROVE FALSE
        <5>1. Then(h, Call(E2, h, "same")) BY <4>1 DEF BeginEnroll, E2
        <5>2. todo'[h] = Call(E2, h, "same") BY <1>0, <1>1, <5>1 DEF Then, Typed
        <5>3. List(h)' = E2 BY <5>2 DEF Call, List
        <5> QED BY <1>6, <5>3, ListsDiffer
      <4> QED BY <4>1
    <3> QED BY <1>6, <3>1, StageCases
  <2>3. ~WriteFails(h) BY <1>1, <1>6, <2>2, Marks
  <2>4. CASE Save(h)
    <3>1. pg'[h] = "online" BY <2>4 DEF Save, FleetTypeOK
    <3> QED BY <3>1 DEF Live
  <2>5. CASE List(h) \in {A2, A1}
    <3>1. pg[h] \in Live BY <2>1, <2>2, <2>5 DEF EnrolInd
    <3>2. ASSUME NEW p \in Procs, WritePg(p) \/ DropPg(p), Target(p) = h PROVE FALSE
      <4>1. ~Idle(p) BY <3>2 DEF WritePg, DropPg, At
      <4>2. p = h BY <1>0, <2>1, <2>2, <3>2, <4>1, BusyFacts
      <4>3. List(p) \in {U2, R4, D5, P4} BY <1>0, <3>2, Heads DEF WritePg, DropPg
      <4> QED BY <2>5, <4>2, <4>3, ListsDiffer
    <3> QED BY <3>1, <3>2, PgCases DEF Live
  <2> QED BY <1>3, <1>6, <2>2, <2>3, <2>4, <2>5
<1>7. ASSUME NEW h \in Hosts, NEW g \in earlier'[h] PROVE stage'[g] = "in"
  <2>1. g \in Hosts
    <3>1. earlier'[h] \subseteq Hosts BY StageCases DEF FleetTypeOK
    <3> QED BY <3>1
  <2>2. stage[g] = "in" BY StageCases DEF EnrolInd
  <2> QED BY <2>1, <2>2, StageCases
<1> QED BY <1>4, <1>5, <1>6, <1>7 DEF EnrolInd

-----------------------------------------------------------------------------
(* The two stores                                                           *)

Torn == HalfWay \cup {P3, A2}

\* The call of p has not written one store of h and left the other to write.
Whole(p, h) == ~(Target(p) = h /\ List(p) \in Torn)

\* The stores go on agreeing on a host no write of which is made or begun.
LEMMA AgreeFrame ==
  ASSUME FleetTypeOK, NEW h \in Hosts, AgreeOn(h), pg'[h] \in Status, es'[h] \in Status,
         Kind(pg'[h]) = Kind(pg[h]), Kind(es'[h]) = Kind(es[h]),
         \A q \in Procs : todo'[q] = todo[q] \/ (Whole(q, h) /\ Whole(q, h)')
  PROVE  AgreeOn(h)'
<1>1. (pg'[h] = "none" <=> pg[h] = "none") /\ (es'[h] = "none" <=> es[h] = "none")
  BY DEF Kind, Live, Status, FleetTypeOK
<1>2. ASSUME NEW q \in Procs, ~Whole(q, h)'
      PROVE  ~Whole(q, h) /\ List(q)' = List(q) /\ todo'[q].st = todo[q].st
  BY <1>2 DEF Whole, List, Target
<1>3. ASSUME NEW q \in Procs, Whole(q, h)' PROVE Whole(q, h)
  BY <1>3 DEF Whole, List, Target
<1>4. (\A q \in Procs : Whole(q, h)') => Kind(pg'[h]) = Kind(es'[h])
  <2>1. (\A q \in Procs : Whole(q, h)) => Kind(pg[h]) = Kind(es[h])
    BY DEF AgreeOn, Whole, Torn
  <2> QED BY <1>3, <2>1
<1>5. ASSUME NEW q \in Procs, Target(q)' = h, List(q)' \in HalfWay
      PROVE  /\ pg'[h] = "none" <=> es'[h] = "none"
             /\ todo'[q].st \in Status => pg'[h] = "none" \/ Kind(pg'[h]) = Kind(todo'[q].st)
             /\ todo'[q].st \notin Status => Kind(pg'[h]) = Kind(es'[h])
  <2>1. ~Whole(q, h)' BY <1>5 DEF Whole, Torn
  <2>2. ~Whole(q, h) /\ List(q)' = List(q) /\ todo'[q].st = todo[q].st BY <1>2, <2>1
  <2>3. Target(q) = h /\ List(q) \in HalfWay BY <1>5, <2>2 DEF Whole
  <2> QED BY <1>1, <2>2, <2>3 DEF AgreeOn
<1>6. ASSUME NEW q \in Procs, Target(q)' = h, List(q)' = P3 PROVE pg'[h] = "none"
  <2>1. ~Whole(q, h)' BY <1>6 DEF Whole, Torn
  <2>2. ~Whole(q, h) /\ List(q)' = List(q) BY <1>2, <2>1
  <2>3. Target(q) = h /\ List(q) = P3 BY <1>6, <2>2 DEF Whole
  <2> QED BY <1>1, <2>3 DEF AgreeOn
<1> QED BY <1>4, <1>5, <1>6 DEF AgreeOn, Whole, Torn

\* Every step leaves the stores in agreement but for a write under way.
LEMMA AgreeStep ==
  ASSUME FleetTypeOK, FleetTypeOK', CallsInd, SoloInd, EnrolInd, AgreeInd, Step, Remember
  PROVE  AgreeInd'
<1>0. Typed BY TypedCalls
<1>1. \A h \in Hosts : h \in Procs BY DEF Procs
<1> SUFFICES ASSUME NEW h \in Hosts, h \notin loose' PROVE AgreeOn(h)'
  BY DEF AgreeInd
<1>2. h \notin loose /\ AgreeOn(h) BY LooseFacts DEF AgreeInd
<1>3. pg'[h] \in Status /\ es'[h] \in Status /\ pg[h] \in Status /\ es[h] \in Status
  BY DEF FleetTypeOK
\* A call that writes to h is alone with it: every other call is whole.
<1>4. ASSUME NEW p \in Procs, Others(p), ~Idle(p), Target(p) = h, NEW q \in Procs, q # p
      PROVE  Whole(q, h) /\ Whole(q, h)'
  <2>1. Whole(q, h)
    <3>1. ASSUME Target(q) = h, List(q) \in Torn PROVE FALSE
      <4>1. List(q) # <<>> BY <3>1, ListsDiffer DEF Torn, HalfWay
      <4> QED BY <1>0, <1>2, <1>4, <3>1, <4>1, BusyFacts DEF Idle, List
    <3> QED BY <3>1 DEF Whole
  <2>2. todo'[q] = todo[q] BY <1>4 DEF Others
  <2> QED BY <2>1, <2>2 DEF Whole, Target, List
<1>5. ASSUME NEW p \in Procs, WritePg(p), Target(p) = h PROVE AgreeOn(h)'
  <2>1. Others(p) /\ ~Idle(p) BY <1>0, <1>5, GoMoves DEF GoesOn
  <2>2. List(p) \in {U2, R4, D5} BY <1>0, <1>5, Heads DEF WritePg
  <2>3. SameHost(p) /\ List(p)' \in HalfWay
    BY <1>0, <1>5, <2>2, GoesBy, ListsDiffer DEF GoesOn, HalfWay
  <2>4. todo[p].st \in {"online", "offline", "decommissioned", "join", "leave"}
    BY <1>0, <2>2, Owners
  <2>5. pg'[h] = Written(pg[h], todo[p].st) /\ es'[h] = es[h]
    BY <1>5 DEF WritePg, Target, FleetTypeOK
  <2>6. Kind(pg[h]) = Kind(es[h])
    <3>1. \A q \in Procs : Whole(q, h)
      BY <1>4, <1>5, <2>1, <2>2, ListsDiffer DEF Whole, Torn, HalfWay
    <3> QED BY <1>2, <3>1 DEF AgreeOn, Whole, Torn
  <2>7. pg'[h] = "none" <=> es'[h] = "none"
    BY <1>3, <2>4, <2>5, <2>6 DEF Written, Kind, Live, Status
  <2>8. /\ todo[p].st \in Status => pg'[h] = "none" \/ Kind(pg'[h]) = Kind(todo[p].st)
        /\ todo[p].st \notin Status => Kind(pg'[h]) = Kind(es'[h])
    BY <2>5, <2>6 DEF Written
  <2>9. \A q \in Procs \ {p} : Whole(q, h)' BY <1>4, <1>5, <2>1
  <2>10. Target(p)' = h /\ List(p)' \in HalfWay /\ List(p)' # P3 /\ todo'[p].st = todo[p].st
    BY <1>5, <2>3, ListsDiffer DEF SameHost, HalfWay
  <2> QED BY <2>7, <2>8, <2>9, <2>10 DEF AgreeOn, Whole, Torn
<1>6. ASSUME NEW p \in Procs, WriteEs(p), Target(p) = h PROVE AgreeOn(h)'
  <2>1. Others(p) /\ ~Idle(p) BY <1>0, <1>6, GoMoves DEF GoesOn
  <2>2. List(p) \in HalfWay BY <1>0, <1>6, Heads DEF WriteEs, HalfWay
  <2>3. List(p)' \notin Torn
    BY <1>0, <1>6, <2>2, GoesBy, ListsDiffer DEF GoesOn, HalfWay, Torn, Turned
  <2>4. es'[h] = Written(es[h], todo[p].st) /\ pg'[h] = pg[h]
    BY <1>6 DEF WriteEs, Target, FleetTypeOK
  <2>5. /\ pg[h] = "none" <=> es[h] = "none"
        /\ todo[p].st \in Status => pg[h] = "none" \/ Kind(pg[h]) = Kind(todo[p].st)
        /\ todo[p].st \notin Status => Kind(pg[h]) = Kind(es[h])
    BY <1>2, <1>6, <2>2 DEF AgreeOn
  <2>6. Kind(pg'[h]) = Kind(es'[h]) BY <2>4, <2>5 DEF Written
  <2>7. \A q \in Procs : Whole(q, h)' BY <1>4, <1>6, <2>1, <2>3 DEF Whole
  <2> QED BY <2>6, <2>7 DEF AgreeOn, Whole, Torn
<1>7. ASSUME NEW p \in Procs, DropPg(p), Target(p) = h PROVE AgreeOn(h)'
  <2>1. Others(p) /\ ~Idle(p) BY <1>0, <1>7, GoMoves DEF GoesOn
  <2>2. List(p) = P4 BY <1>0, <1>7, Heads DEF DropPg
  <2>3. Target(p)' = h /\ List(p)' = P3
    BY <1>0, <1>7, <2>2, GoesBy, ListsDiffer DEF GoesOn, SameHost
  <2>4. pg'[h] = "none" BY <1>7 DEF DropPg, Target, FleetTypeOK
  <2>5. \A q \in Procs \ {p} : Whole(q, h)' BY <1>4, <1>7, <2>1
  <2>6. List(p)' \notin HalfWay BY <2>3, ListsDiffer DEF HalfWay
  <2> QED BY <2>3, <2>4, <2>5, <2>6 DEF AgreeOn, Whole, Torn
<1>8. ASSUME NEW p \in Procs, DropEs(p), Target(p) = h PROVE AgreeOn(h)'
  <2>1. Others(p) /\ ~Idle(p) BY <1>0, <1>8, GoMoves DEF GoesOn
  <2>2. List(p) = P3 BY <1>0, <1>8, Heads DEF DropEs
  <2>3. List(p)' \notin Torn
    BY <1>0, <1>8, <2>2, GoesBy, ListsDiffer DEF GoesOn, HalfWay, Torn
  <2>4. pg[h] = "none" BY <1>2, <1>8, <2>2 DEF AgreeOn
  <2>5. pg'[h] = "none" /\ es'[h] = "none" BY <1>8, <2>4 DEF DropEs, Target, FleetTypeOK
  <2>6. \A q \in Procs : Whole(q, h)' BY <1>4, <1>8, <2>1, <2>3 DEF Whole
  <2> QED BY <2>5, <2>6 DEF AgreeOn, Whole, Torn
<1>9. ASSUME Save(h) PROVE AgreeOn(h)'
  <2>1. Others(h) /\ ~Idle(h) BY <1>0, <1>1, <1>9, GoMoves DEF GoesOn
  <2>2. List(h) = A3 BY <1>0, <1>1, <1>9, Heads DEF Save
  <2>3. Target(h) = h /\ Target(h)' = h /\ List(h)' = A2
    BY <1>0, <1>1, <1>9, <2>2, GoesBy, Owners, ListsDiffer DEF GoesOn, SameHost
  <2>4. \A q \in Procs \ {h} : Whole(q, h)' BY <1>1, <1>4, <2>1, <2>3
  <2>5. List(h)' \notin HalfWay /\ List(h)' # P3 BY <2>3, ListsDiffer DEF HalfWay
  <2> QED BY <1>1, <2>3, <2>4, <2>5 DEF AgreeOn, Whole, Torn
<1>10. ASSUME SaveEs(h) PROVE AgreeOn(h)'
  <2>1. Others(h) /\ ~Idle(h) BY <1>0, <1>1, <1>10, GoMoves DEF GoesOn
  <2>2. List(h) = A2 BY <1>0, <1>1, <1>10, Heads DEF SaveEs
  <2>3. Target(h) = h /\ stage[h] = "enrolling" BY <1>0, <1>1, <2>2, Owners
  <2>4. List(h)' \notin Torn
    BY <1>0, <1>1, <1>10, <2>2, GoesBy, ListsDiffer DEF GoesOn, HalfWay, Torn
  <2>5. pg[h] \in Live BY <1>2, <2>2, <2>3 DEF EnrolInd
  <2>6. pg'[h] = pg[h] /\ es'[h] = "online" BY <1>10 DEF SaveEs, FleetTypeOK
  <2>7. \A q \in Procs : Whole(q, h)' BY <1>1, <1>4, <2>1, <2>3, <2>4 DEF Whole
  <2> QED BY <2>5, <2>6, <2>7 DEF AgreeOn, Whole, Torn, Kind, Live
<1>11. ASSUME ~Save(h), ~SaveEs(h),
              \A p \in Procs : Target(p) = h => ~WritePg(p) /\ ~WriteEs(p) /\ ~DropPg(p) /\ ~DropEs(p)
       PROVE  AgreeOn(h)'
  <2>1. Kind(pg'[h]) = Kind(pg[h]) BY <1>11, PgCases DEF Kind, Live
  <2>2. es'[h] = es[h] BY <1>11, EsCases
  <2>3. ASSUME NEW q \in Procs PROVE todo'[q] = todo[q] \/ (Whole(q, h) /\ Whole(q, h)')
    <3>1. CASE Begins(q)
      BY <1>0, <3>1, BeginMoves, ListsDiffer DEF New, Whole, Torn, HalfWay
    <3>2. CASE GoesOn(q)
      <4>1. Target(q) # h \/ List(q) \notin Torn
        <5>1. WriteFails(q) => Target(q) # h BY Marks
        <5>2. Save(q) \/ SaveEs(q) => Target(q) # h BY <1>0, <1>11, Heads, Owners DEF Save, SaveEs
        <5> QED BY <1>0, <1>11, <3>2, <5>1, <5>2, GoLists, ListsDiffer DEF Torn, HalfWay
      <4>2. Target(q) # h \/ List(q) \in {E2, R2, D3, R1, D2, D1, S2, G2, G1}
        <5>1. WriteFails(q) => Target(q) # h BY Marks
        <5>2. Save(q) \/ SaveEs(q) => Target(q) # h BY <1>0, <1>11, Heads, Owners DEF Save, SaveEs
        <5> QED BY <1>0, <1>11, <3>2, <5>1, <5>2, GoLists, ListsDiffer
      <4>3. Whole(q, h) BY <4>1 DEF Whole
      <4>4. Whole(q, h)'
        <5>1. CASE Turned(q, coming[q]) BY <5>1, ListsDiffer DEF Turned, Whole, Torn, HalfWay
        <5>2. CASE SameHost(q) /\ Target(q) # h BY <5>2 DEF SameHost, Whole
        <5>3. CASE List(q) \in {E2, R2, D3, R1, D2, D1, S2, G2, G1}
          BY <1>0, <3>2, <5>3, <5>1, GoesBy, ListsDiffer DEF Whole, Torn, HalfWay
        <5> QED BY <1>0, <3>2, <4>2, <5>1, <5>2, <5>3, GoesBy
      <4> QED BY <4>3, <4>4
    <3>3. CASE Loops(q)
      BY <1>0, <3>3, LoopSteps, ListsDiffer DEF Turned, Whole, Torn, HalfWay
    <3>4. CASE Stops(q)
      <4>1. CallFails(q) => Target(q) # h BY Marks
      <4> QED BY <1>0, <3>4, <4>1, StopMoves, ListsDiffer DEF New, Whole, Torn, HalfWay
    <3> QED BY <3>1, <3>2, <3>3, <3>4, CallCases
  <2> QED BY <1>2, <1>3, <2>1, <2>2, <2>3, AgreeFrame
<1> QED BY <1>5, <1>6, <1>7, <1>8, <1>9, <1>10, <1>11

\* Two calls for one host leave a mark on it.
LEMMA SoloStep ==
  ASSUME Remember
  PROVE  SoloInd'
BY LooseFacts DEF SoloInd

-----------------------------------------------------------------------------
(* Credentials                                                              *)

\* A revocation that is due stays due until it is done, or leaves its mark.
LEMMA DueKept ==
  ASSUME FleetTypeOK, CallsInd, Step, Remember, NEW h \in Hosts, h \notin loose', RevokeDue(h)
  PROVE  RevokeDue(h)' \/ cred'[h] # "active"
<1>0. Typed BY TypedCalls
<1>1. PICK p \in Procs : Target(p) = h /\ List(p) \in Revoking BY DEF RevokeDue
<1>2. CASE todo'[p] = todo[p] BY <1>1, <1>2 DEF RevokeDue, Target, List
<1>3. ~Begins(p) BY <1>0, <1>1, BeginMoves, ListsDiffer DEF Revoking
<1>4. CASE GoesOn(p)
  <2>1. CASE List(p) \in {R1, D1}
    <3>1. ~WriteFails(p) BY <1>1, Marks
    <3>2. Revoke(p) BY <1>0, <1>4, <2>1, <3>1, GoLists, ListsDiffer
    <3> QED BY <1>1, <3>2 DEF Revoke, FleetTypeOK
  <2>2. CASE List(p) \notin {R1, D1}
    <3>1. SameHost(p) /\ List(p)' \in Revoking
      BY <1>0, <1>1, <1>4, <2>2, GoesBy, ListsDiffer DEF Revoking
    <3> QED BY <1>1, <3>1 DEF RevokeDue, SameHost
  <2> QED BY <2>1, <2>2
<1>5. ~Loops(p) BY <1>0, <1>1, LoopSteps, ListsDiffer DEF Revoking
<1>6. ~Stops(p)
  <2>1. ~CallFails(p) BY <1>1, Marks
  <2> QED BY <1>0, <1>1, <2>1, StopMoves, ListsDiffer DEF Revoking
<1> QED BY <1>2, <1>3, <1>4, <1>5, <1>6, CallCases

\* The credential of a host that is in is never valid again.
LEMMA CredKept ==
  ASSUME FleetTypeOK, CallsInd, EnrolInd, Step, NEW h \in Hosts, stage[h] = "in", cred[h] # "active"
  PROVE  cred'[h] # "active"
<1>1. ~Token(h)
  <2>1. h \in Procs /\ Typed BY TypedCalls DEF Procs
  <2>2. Token(h) => List(h) = A1 BY <2>1, Heads DEF Token
  <2> QED BY <2>1, <2>2, Owners
<1> QED BY <1>1, CredCases

\* A host that is in without being current is revoked, or a call will do it.
LEMMA RevocationStep ==
  ASSUME FleetTypeOK, FleetTypeOK', CallsInd, EnrolInd, EnrolInd', RevokeInd, Step, Remember
  PROVE  RevokeInd'
<1>0. Typed BY TypedCalls
<1> SUFFICES ASSUME NEW h \in Hosts, h \notin loose', stage'[h] = "in", pg'[h] \notin Live
             PROVE  cred'[h] = "revoked" \/ RevokeDue(h)'
  BY DEF RevokeInd
<1>1. h \in Procs /\ h \notin loose BY LooseFacts DEF Procs
<1>2. stage[h] = "in"
  <2>1. ASSUME stage[h] # "in" PROVE FALSE
    <3>1. Token(h) /\ List(h) = A1 /\ stage[h] = "enrolling" BY <2>1, StageCases
    <3>2. pg[h] \in Live BY <1>1, <3>1 DEF EnrolInd
    <3>3. pg'[h] = pg[h] BY <3>1 DEF Token
    <3> QED BY <3>2, <3>3
  <2> QED BY <2>1
<1>3. SUFFICES cred'[h] # "active" \/ RevokeDue(h)'
  BY DEF EnrolInd, FleetTypeOK
<1>4. CASE pg[h] \notin Live
  <2>1. cred[h] = "revoked" \/ RevokeDue(h) BY <1>1, <1>2, <1>4 DEF RevokeInd
  <2> QED BY <1>2, <2>1, CredKept, DueKept
<1>5. CASE pg[h] \in Live
  <2>1. ASSUME NEW p \in Procs, WritePg(p), Target(p) = h, pg'[h] = Written(pg[h], todo[p].st)
        PROVE  RevokeDue(h)'
    <3>1. List(p) \in {U2, R4, D5} BY <1>0, <2>1, Heads DEF WritePg
    <3>2. List(p) # U2
      <4>1. List(p) = U2 => todo[p].st \in {"online", "offline", "join", "leave"} BY <1>0, Owners
      <4> QED BY <1>5, <2>1, <4>1 DEF Written, Live, Status
    <3>3. SameHost(p) /\ List(p)' \in Revoking
      BY <1>0, <2>1, <3>1, <3>2, GoesBy, ListsDiffer DEF GoesOn, Revoking
    <3> QED BY <2>1, <3>3 DEF RevokeDue, SameHost
  <2>2. ASSUME NEW p \in Procs, DropPg(p), Target(p) = h PROVE RevokeDue(h)'
    <3>1. List(p) = P4 BY <1>0, <2>2, Heads DEF DropPg
    <3>2. SameHost(p) /\ List(p)' \in Revoking
      BY <1>0, <2>2, <3>1, GoesBy, ListsDiffer DEF GoesOn, Revoking
    <3> QED BY <2>2, <3>2 DEF RevokeDue, SameHost
  <2> QED BY <1>5, <2>1, <2>2, PgCases DEF Live
<1> QED BY <1>4, <1>5

\* No step changes an address.
LEMMA AddrKept ==
  ASSUME Step
  PROVE  addr' = addr
<1>1. CASE Still BY <1>1 DEF Still, CreateGroup, Heartbeat, HangUp, Age
<1>2. ASSUME NEW p \in Procs, Begins(p) PROVE addr' = addr
  BY <1>2 DEF Begins, BeginEnroll, Connect, Decommission, Purge, Upgrade, MoveGroup, BeginSweep, DeleteGroup
<1>3. ASSUME NEW p \in Procs, Loops(p) \/ Stops(p) PROVE addr' = addr
  BY <1>3 DEF Loops, Stops, Dedup, Search, Token, CountMembers, CallFails
<1>4. ASSUME NEW p \in Procs, GoesOn(p) PROVE addr' = addr
  BY <1>4 DEF GoesOn, Spend, Save, SaveEs, WritePg, WriteEs, DropPg, DropEs, Expire, Revoke, Keys,
              CountMembers, Ungroup, WriteFails
<1> QED BY StepKinds, <1>1, <1>2, <1>3, <1>4

\* A host that a clearing has still to come to is come to, or bears a mark.
LEMMA MetKept ==
  ASSUME FleetTypeOK, CallsInd, Step, Remember, NEW g \in Hosts, g \notin loose', Met(g)
  PROVE  Met(g)' \/ RevokeDue(g)'
<1>0. Typed BY TypedCalls
<1>1. PICK q \in Hosts : g \in coming[q] BY DEF Met
<1>2. q \in Procs BY DEF Procs
<1>3. CASE coming'[q] = coming[q] BY <1>1, <1>3 DEF Met
<1>4. ~Begins(q) BY <1>0, <1>1, <1>2, BeginMoves, Owners
<1>5. CASE GoesOn(q) /\ Turned(q, coming[q])
  BY <1>1, <1>2, <1>5 DEF Turned, Met, RevokeDue, Revoking
<1>6. CASE GoesOn(q) BY <1>0, <1>2, <1>3, <1>5, <1>6, GoesBy DEF SameHost
<1>7. ~Loops(q) BY <1>0, <1>1, <1>2, LoopSteps
<1>8. ~Stops(q)
  <2>1. ~CallFails(q) BY <1>1, <1>2, Marks
  <2> QED BY <1>0, <1>1, <1>2, <2>1, StopMoves, Owners
<1> QED BY <1>2, <1>3, <1>4, <1>6, <1>7, <1>8, CallCases

\* An enrolment that has cleared out others has locked them out or comes to it yet.
LEMMA LockStep ==
  ASSUME FleetTypeOK, CallsInd, EnrolInd, RevokeInd, LockInd, Step, Remember
  PROVE  LockInd'
<1>0. Typed BY TypedCalls
<1> SUFFICES ASSUME NEW h \in Hosts, NEW g \in earlier'[h], Cleared(h)',
                    addr'[g].said = addr'[h].seen, g \notin loose', h \notin loose'
             PROVE  cred'[g] # "active" \/ RevokeDue(g)' \/ Met(g)'
  BY DEF LockInd
<1>1. h \in Procs /\ h \notin loose BY LooseFacts DEF Procs
<1>2. ~BeginEnroll(h)
  <2>1. ASSUME BeginEnroll(h) PROVE FALSE
    <3>1. Then(h, Call(E2, h, "same")) BY <2>1 DEF BeginEnroll, E2
    <3>2. todo'[h] = Call(E2, h, "same") BY <1>0, <1>1, <3>1 DEF Then, Typed
    <3>3. List(h)' = E2 BY <3>2 DEF Call, List
    <3>4. stage'[h] = "enrolling" BY <2>1 DEF BeginEnroll, FleetTypeOK
    <3> QED BY <3>3, <3>4 DEF Cleared
  <2> QED BY <2>1
<1>3. earlier'[h] = earlier[h] BY <1>2, StageCases
<1>4. g \in Hosts /\ stage[g] = "in" BY <1>3 DEF FleetTypeOK, EnrolInd
<1>5. g \notin loose BY <1>4, LooseFacts
<1>6. addr[g].said = addr[h].seen BY AddrKept
<1>7. CASE Cleared(h)
  <2>1. cred[g] # "active" \/ RevokeDue(g) \/ Met(g) BY <1>1, <1>3, <1>5, <1>6, <1>7 DEF LockInd
  <2> QED BY <1>4, <2>1, CredKept, DueKept, MetKept
<1>8. CASE ~Cleared(h)
  <2>1. stage'[h] = "enrolling" /\ stage[h] = "enrolling" /\ List(h) \in {E2, E1} /\ List(h)' \notin {E2, E1}
    BY <1>2, <1>8, StageCases, ListsDiffer DEF Cleared
  <2>2. ~Begins(h) BY <1>0, <1>1, <2>1, BeginMoves, ListsDiffer
  <2>3. ~GoesOn(h) BY <1>0, <1>1, <2>1, GoesBy, ListsDiffer
  <2>4. ~Stops(h)
    <3>1. ~CallFails(h) BY <1>1, <2>1, Marks
    <3> QED BY <1>0, <1>1, <2>1, <3>1, StopMoves, ListsDiffer
  <2>5. Loops(h) BY <1>1, <2>1, <2>2, <2>3, <2>4, CallCases DEF List
  <2>6. Dedup(h) /\ Turned(h, SameIp(h)) BY <1>0, <1>1, <2>1, <2>5, LoopSteps, ListsDiffer
  <2>7. CASE pg[g] \in Live
    <3>1. g \in SameIp(h) BY <1>4, <1>6, <2>7 DEF SameIp, Live
    <3> QED BY <1>1, <2>6, <3>1 DEF Turned, Met, RevokeDue, Revoking
  <2>8. CASE pg[g] \notin Live
    <3>1. cred[g] = "revoked" \/ RevokeDue(g) BY <1>4, <1>5, <2>8 DEF RevokeInd
    <3> QED BY <1>4, <3>1, CredKept, DueKept
  <2> QED BY <2>7, <2>8
<1> QED BY <1>7, <1>8

-----------------------------------------------------------------------------
(* Hosts that were retired                                                  *)

\* Hosts are only added to the histories.
LEMMA HistoryGrows ==
  ASSUME FleetTypeOK, Step
  PROVE  unreached \subseteq unreached' /\ strays \subseteq strays'
<1> USE DEF past
<1>1. CASE Still BY <1>1 DEF Still, CreateGroup, Heartbeat, HangUp, Age
<1>2. ASSUME NEW p \in Procs, Begins(p)
      PROVE  unreached \subseteq unreached' /\ strays \subseteq strays'
  BY <1>2 DEF Begins, BeginEnroll, Connect, Decommission, Purge, Upgrade, MoveGroup, BeginSweep, DeleteGroup
<1>3. ASSUME NEW p \in Procs, Loops(p) \/ Stops(p)
      PROVE  unreached \subseteq unreached' /\ strays \subseteq strays'
  BY <1>3 DEF Loops, Stops, Dedup, Search, Token, CountMembers, CallFails
<1>4. ASSUME NEW p \in Procs, GoesOn(p)
      PROVE  unreached \subseteq unreached' /\ strays \subseteq strays'
  BY <1>4 DEF GoesOn, Spend, Save, SaveEs, WritePg, WriteEs, DropPg, DropEs, Expire, Revoke, Keys,
              CountMembers, Ungroup, WriteFails, Joins
<1> QED BY StepKinds, <1>1, <1>2, <1>3, <1>4

\* The write a call has still to make to the row, and to the document, of a
\* retired host does not put it online.
QuietCall(p, h) ==
  /\ Target(p) = h /\ List(p) = U2 =>
       todo[p].st # "online" /\ (todo[p].st = "offline" => p \in Admins)
  /\ Target(p) = h /\ List(p) = U1 => todo[p].st # "online"
  /\ p \in Sweepers => h \notin coming[p]

\* A retired host, call by call.
LEMMA QuietParts ==
  ASSUME NEW h \in Hosts
  PROVE  QuietOn(h) <=> /\ cred[h] = "revoked"
                        /\ pg[h] # "online" /\ es[h] # "online"
                        /\ pg[h] = "offline" => h \in unreached
                        /\ \A p \in Procs : QuietCall(p, h)
BY DEF QuietOn, QuietCall, Procs

\* No step gives a call a write that puts a retired host online.
LEMMA QuietCallStep ==
  ASSUME FleetTypeOK, CallsInd, Step, NEW h \in Hosts, NEW p \in Procs,
         cred[h] = "revoked", es[h] # "online", QuietCall(p, h)
  PROVE  QuietCall(p, h)'
<1>0. Typed BY TypedCalls
<1>1. CASE todo'[p] = todo[p] /\ coming'[p] = coming[p]
  BY <1>1 DEF QuietCall, Target, List
<1>2. CASE Begins(p)
  BY <1>0, <1>2, BeginMoves, ListsDiffer, ProcsApart DEF New, QuietCall
<1>3. CASE GoesOn(p)
  <2>1. CASE Turned(p, coming[p])
    <3>1. CASE p \in Sweepers
      BY <2>1, <3>1, ListsDiffer, ProcsApart DEF Turned, QuietCall
    <3>2. CASE p \notin Sweepers
      <4>1. p \notin Hosts => coming[p] = {} BY <1>0, <1>3, <3>2, GoMoves, Owners DEF Procs, CallsInd, AdminCall
      <4> QED BY <2>1, <3>2, <4>1, ListsDiffer DEF Turned, QuietCall
    <3> QED BY <3>1, <3>2
  <2>2. CASE SameHost(p)
    BY <1>0, <1>3, <2>2, GoesBy, ListsDiffer DEF SameHost, QuietCall, Turned
  <2> QED BY <1>0, <1>3, <2>1, <2>2, GoesBy
<1>4. CASE Loops(p)
  <2>1. CASE List(p) = E1
    BY <1>0, <1>4, <2>1, LoopSteps, ListsDiffer, ProcsApart DEF Turned, QuietCall
  <2>2. CASE List(p) = S1
    <3>1. p \in Sweepers /\ Turned(p, Silent(es)) BY <1>0, <1>4, <2>2, LoopSteps, ListsDiffer
    <3>2. h \notin Silent(es) BY DEF Silent
    <3> QED BY <3>1, <3>2, ListsDiffer, ProcsApart DEF Turned, QuietCall
  <2> QED BY <1>0, <1>4, <2>1, <2>2, LoopSteps
<1>5. CASE Stops(p)
  BY <1>0, <1>5, StopMoves, ListsDiffer DEF New, QuietCall
<1> QED BY <1>1, <1>2, <1>3, <1>4, <1>5, CallCases

\* A retired host stays so.
LEMMA QuietStep ==
  ASSUME FleetTypeOK, CallsInd, EnrolInd, QuietInd, Step, Remember
  PROVE  QuietInd'
<1>0. Typed BY TypedCalls
<1> SUFFICES ASSUME NEW h \in quiet' PROVE QuietOn(h)'
  BY DEF QuietInd
<1>1. h \in Hosts /\ h \in Procs BY DEF Remember, FleetTypeOK, Procs
<1>2. CASE Retired(h)'
  <2>1. pg'[h] = "decommissioned" /\ es'[h] = "decommissioned" /\ cred'[h] = "revoked" /\ Busy(h)' = {}
    BY <1>2 DEF Retired, Pending
  <2>2. ASSUME NEW p \in Procs PROVE (Target(p)' = h => List(p)' = <<>>) /\ h \notin coming'[p]
    BY <2>1 DEF Busy, Idle, List
  <2> QED BY <2>1, <2>2, ListsDiffer DEF QuietOn, Procs
<1>3. CASE h \in quiet
  <2>1. /\ cred[h] = "revoked" /\ pg[h] # "online" /\ es[h] # "online"
        /\ pg[h] = "offline" => h \in unreached
        /\ \A p \in Procs : QuietCall(p, h)
    BY <1>1, <1>3, QuietParts DEF QuietInd
  <2>2. stage[h] = "in" BY <1>1, <2>1 DEF EnrolInd
  <2>3. List(h) \notin {A3, A2, A1} BY <1>0, <1>1, <2>2, Owners
  <2>4. cred'[h] = "revoked"
    <3>1. ~Token(h) BY <1>0, <1>1, <2>3, Heads DEF Token
    <3> QED BY <1>1, <2>1, <3>1, CredCases
  <2>5. pg'[h] # "online" /\ (pg'[h] = "offline" => h \in unreached')
    <3>1. ~Save(h) BY <1>0, <1>1, <2>3, Heads DEF Save
    <3>2. ASSUME NEW p \in Procs, WritePg(p), Target(p) = h, pg'[h] = Written(pg[h], todo[p].st)
          PROVE  pg'[h] # "online" /\ (pg'[h] = "offline" => h \in unreached')
      <4>1. List(p) \in {U2, R4, D5} BY <1>0, <3>2, Heads DEF WritePg
      <4>2. \/ todo[p].st = "decommissioned"
            \/ todo[p].st # "online" /\ (todo[p].st = "offline" => p \in Admins)
        BY <1>0, <2>1, <3>2, <4>1, Owners DEF QuietCall
      <4>3. todo[p].st = "offline" /\ p \in Admins => h \in unreached'
        BY <3>2 DEF WritePg, Target
      <4> QED BY <1>1, <2>1, <3>2, <4>2, <4>3, HistoryGrows DEF Written
    <3> QED BY <1>1, <2>1, <3>1, <3>2, HistoryGrows, PgCases
  <2>6. es'[h] # "online"
    <3>1. ~SaveEs(h) BY <1>0, <1>1, <2>3, Heads DEF SaveEs
    <3>2. ASSUME NEW p \in Procs, WriteEs(p), Target(p) = h, es'[h] = Written(es[h], todo[p].st)
          PROVE  es'[h] # "online"
      <4>1. List(p) \in {U1, R3, D4} BY <1>0, <3>2, Heads DEF WriteEs
      <4>2. todo[p].st # "online" BY <1>0, <2>1, <3>2, <4>1, Owners DEF QuietCall
      <4> QED BY <2>1, <3>2, <4>2 DEF Written
    <3> QED BY <1>1, <2>1, <3>1, <3>2, EsCases
  <2>7. ASSUME NEW p \in Procs PROVE QuietCall(p, h)'
    BY <1>1, <2>1, QuietCallStep
  <2> QED BY <1>1, <2>4, <2>5, <2>6, <2>7 DEF QuietOn, QuietCall, Procs
<1> QED BY <1>1, <1>2, <1>3 DEF Remember

-----------------------------------------------------------------------------
(* Groups                                                                   *)

\* A step adds one host to the group at most, and notes whether it came too late.
LEMMA MemberCases ==
  ASSUME FleetTypeOK, Step
  PROVE  \/ member' \subseteq member
         \/ \E h \in Procs : member' = member \cup {h} /\ strays' = Joins(h)
<1> USE DEF store, FleetTypeOK
<1>1. CASE Still BY <1>1 DEF Still, CreateGroup, Heartbeat, HangUp, Age
<1>2. ASSUME NEW p \in Procs, Begins(p) PROVE member' = member
  BY <1>2 DEF Begins, BeginEnroll, Connect, Decommission, Purge, Upgrade, MoveGroup, BeginSweep, DeleteGroup
<1>3. ASSUME NEW p \in Procs, Loops(p) \/ Stops(p) PROVE member' = member
  BY <1>3 DEF Loops, Stops, Dedup, Search, Token, CountMembers, CallFails
<1>4. ASSUME NEW p \in Procs, GoesOn(p), ~Save(p), ~WritePg(p) PROVE member' \subseteq member
  BY <1>4 DEF GoesOn, Spend, SaveEs, WriteEs, DropPg, DropEs, Expire, Revoke, Keys,
              CountMembers, Ungroup, WriteFails
<1>5. ASSUME NEW p \in Procs, Save(p)
      PROVE  member' \subseteq member \/ (member' = member \cup {p} /\ strays' = Joins(p))
  BY <1>5 DEF Save
<1>6. ASSUME NEW p \in Procs, WritePg(p)
      PROVE  member' \subseteq member \/ (member' = member \cup {Target(p)} /\ strays' = Joins(Target(p)))
  BY <1>6 DEF WritePg, Target
<1>7. \A p \in Procs : Target(p) \in Procs BY DEF Calls, Target
<1> HIDE DEF store, FleetTypeOK
<1> QED BY StepKinds, <1>1, <1>2, <1>3, <1>4, <1>5, <1>6, <1>7

\* A deletion of the group comes to its write by counting no member.
LEMMA DeletingCases ==
  ASSUME FleetTypeOK, FleetTypeOK', CallsInd, CallsInd', Step, ~Deleting, Deleting'
  PROVE  member' = member /\ strays' = strays \cup member
<1>0. Typed /\ Typed' BY DEF FleetTypeOK, Typed
<1>1. PICK p \in Admins : At(p, "ungroup")' BY DEF Deleting
<1>2. p \in Procs BY DEF Procs
<1>3. List(p)' = G1
  <2>1. ~Idle(p)' /\ Head(todo'[p].writes) = "ungroup" BY <1>1 DEF At
  <2>2. List(p)' \in Lists /\ List(p)' # <<>>
    <3>1. AdminCall(p)' BY <1>1 DEF CallsInd
    <3> QED BY <2>1, <3>1 DEF AdminCall, Lists, Idle, List
  <2>3. \A s \in Lists \ {<<>>} : Head(s) = "ungroup" => s = G1
    BY ListFacts DEF Named, Lists
  <2> QED BY <2>1, <2>2, <2>3 DEF List
<1>4. List(p) # G1 BY <1>0, <1>1, <1>2, Heads DEF Deleting
<1>5. ~Begins(p) BY <1>0, <1>2, <1>3, BeginMoves, ListsDiffer DEF New
<1>6. ~Loops(p) BY <1>0, <1>2, <1>3, LoopSteps, ListsDiffer DEF Turned
<1>7. ~Stops(p) BY <1>0, <1>2, <1>3, StopMoves, ListsDiffer DEF New
<1>8. GoesOn(p) BY <1>2, <1>3, <1>4, <1>5, <1>6, <1>7, CallCases DEF List
<1>9. List(p) = G2 BY <1>0, <1>2, <1>3, <1>4, <1>8, GoesBy, ListsDiffer DEF Turned
<1>10. ~WriteFails(p)
  <2>1. Head(todo[p].writes) = "count" BY <1>9, ListFacts DEF Named, List
  <2> QED BY <2>1 DEF WriteFails, At, Tolerated
<1>11. CountMembers(p) /\ Members = {} BY <1>0, <1>2, <1>8, <1>9, <1>10, GoLists, ListsDiffer
<1> QED BY <1>11 DEF CountMembers, store

\* The group goes with a deletion of it.
LEMMA GroupCases ==
  ASSUME FleetTypeOK, CallsInd, Step, group, ~group'
  PROVE  Deleting
<1>0. Typed BY TypedCalls
<1>1. CASE Still BY <1>1 DEF Still, CreateGroup, Heartbeat, HangUp, Age, store
<1>2. ASSUME NEW p \in Procs, Begins(p) PROVE group' = group
  BY <1>2 DEF Begins, BeginEnroll, Connect, Decommission, Purge, Upgrade, MoveGroup, BeginSweep, DeleteGroup, store
<1>3. ASSUME NEW p \in Procs, Loops(p) \/ Stops(p) PROVE group' = group
  BY <1>3 DEF Loops, Stops, Dedup, Search, Token, CountMembers, CallFails, store
<1>4. ASSUME NEW p \in Procs, GoesOn(p), ~Ungroup(p) PROVE group' = group
  BY <1>4 DEF GoesOn, Spend, Save, SaveEs, WritePg, WriteEs, DropPg, DropEs, Expire, Revoke, Keys,
              CountMembers, WriteFails, store
<1>5. ASSUME NEW p \in Procs, Ungroup(p) PROVE Deleting
  <2>1. At(p, "ungroup") /\ List(p) = G1 BY <1>0, <1>5, Heads DEF Ungroup
  <2>2. p \in Admins BY <1>0, <2>1, Owners
  <2> QED BY <2>1, <2>2 DEF Deleting
<1> QED BY StepKinds, <1>1, <1>2, <1>3, <1>4, <1>5

\* While the group is deleted or gone its members are strays.
LEMMA OrphanStep ==
  ASSUME FleetTypeOK, FleetTypeOK', CallsInd, CallsInd', OrphanInd, Step
  PROVE  OrphanInd'
<1> SUFFICES ASSUME Deleting' \/ ~group' PROVE member' \subseteq strays'
  BY DEF OrphanInd
<1>1. CASE Deleting \/ ~group
  <2>1. member \subseteq strays BY <1>1 DEF OrphanInd
  <2> QED BY <1>1, <2>1, MemberCases, HistoryGrows DEF Joins
<1>2. CASE ~Deleting /\ group
  BY <1>2, DeletingCases, GroupCases
<1> QED BY <1>1, <1>2

-----------------------------------------------------------------------------
(* The invariant                                                            *)

\* The invariant holds before the first host enrols.
LEMMA FleetIndInit ==
  ASSUME FleetInit
  PROVE  FleetInd
<1> USE FleetAssumption
<1>1. \A p \in Procs : List(p) = <<>> /\ Target(p) = p /\ coming[p] = {} /\ Idle(p)
  BY DEF FleetInit, NoCall, Call, List, Target, Idle
<1>2. FleetTypeOK
  <2>1. \A p \in Procs : NoCall(p) \in Calls BY CallForms DEF Lists
  <2> QED BY <2>1 DEF FleetInit, FleetTypeOK, Status
<1>3. CallsInd
  BY <1>1, <1>2, ListsDiffer DEF CallsInd, HostCall, AdminCall, SweeperCall, FleetTypeOK, Procs, FleetInit
<1>4. SoloInd
  <2>1. \A h \in Hosts : Busy(h) = {} BY <1>1 DEF Busy, FleetInit, Procs
  <2> QED BY <2>1 DEF SoloInd
<1>5. EnrolInd BY DEF EnrolInd, FleetInit
<1>6. AgreeInd BY <1>1, ListsDiffer DEF AgreeInd, AgreeOn, FleetInit, HalfWay
<1>7. RevokeInd BY DEF RevokeInd, FleetInit
<1>8. LockInd BY DEF LockInd, FleetInit
<1>9. QuietInd BY DEF QuietInd, FleetInit
<1>10. OrphanInd BY DEF OrphanInd, FleetInit
<1> QED BY <1>2, <1>3, <1>4, <1>5, <1>6, <1>7, <1>8, <1>9, <1>10 DEF FleetInd

\* It is about the variables alone.
LEMMA FleetIndStutters ==
  ASSUME FleetInd, UNCHANGED fleetVars
  PROVE  FleetInd'
<1> USE DEF fleetVars, store, past, calls
<1>0. \A p : List(p)' = List(p) /\ Target(p)' = Target(p) /\ todo'[p] = todo[p]
  BY DEF List, Target
<1>1. FleetTypeOK' BY DEF FleetInd, FleetTypeOK
<1>2. CallsInd' BY <1>0 DEF FleetInd, CallsInd, HostCall, AdminCall, SweeperCall
<1>3. SoloInd'
  <2>1. \A h \in Hosts : Busy(h)' = Busy(h) BY DEF Busy, Idle, Target
  <2> QED BY <2>1 DEF FleetInd, SoloInd
<1>4. EnrolInd' BY <1>0 DEF FleetInd, EnrolInd
<1>5. AgreeInd'
  <2>1. \A h \in Hosts : AgreeOn(h)' = AgreeOn(h) BY <1>0 DEF AgreeOn
  <2> QED BY <2>1 DEF FleetInd, AgreeInd
<1>6. \A h \in Hosts : RevokeDue(h)' = RevokeDue(h) /\ Met(h)' = Met(h) /\ Cleared(h)' = Cleared(h)
  BY <1>0 DEF RevokeDue, Met, Cleared
<1>7. RevokeInd' BY <1>6 DEF FleetInd, RevokeInd
<1>8. LockInd'
  <2>1. earlier \in [Hosts -> SUBSET Hosts] BY DEF FleetInd, FleetTypeOK
  <2> QED BY <1>6, <2>1 DEF FleetInd, LockInd
<1>9. QuietInd'
  <2>1. quiet \subseteq Hosts BY DEF FleetInd, FleetTypeOK
  <2>2. \A h \in Hosts : QuietOn(h)' = QuietOn(h) BY <1>0 DEF QuietOn
  <2> QED BY <2>1, <2>2 DEF FleetInd, QuietInd
<1>10. OrphanInd' BY DEF FleetInd, OrphanInd, Deleting, At, Idle
<1> QED BY <1>1, <1>2, <1>3, <1>4, <1>5, <1>7, <1>8, <1>9, <1>10 DEF FleetInd

\* Every step preserves it.
LEMMA FleetIndStep ==
  ASSUME FleetInd, FleetNext
  PROVE  FleetInd'
<1> USE DEF FleetInd, FleetNext
<1>1. CallsInd' BY CallsStep
<1>2. FleetTypeOK' BY FleetTypeStep
<1>3. SoloInd' BY SoloStep
<1>4. EnrolInd' BY EnrolStep
<1>5. AgreeInd' BY <1>2, AgreeStep
<1>6. RevokeInd' BY <1>2, <1>4, RevocationStep
<1>7. LockInd' BY LockStep
<1>8. QuietInd' BY QuietStep
<1>9. OrphanInd' BY <1>1, <1>2, OrphanStep
<1> QED BY <1>1, <1>2, <1>3, <1>4, <1>5, <1>6, <1>7, <1>8, <1>9

\* A host that a revocation is due for, or that a loop has still to come to, is
\* in a call.
LEMMA DueIsPending ==
  ASSUME NEW h \in Hosts, RevokeDue(h) \/ Met(h)
  PROVE  Pending(h)
<1>1. CASE RevokeDue(h)
  <2>1. PICK p \in Procs : Target(p) = h /\ List(p) \in Revoking BY <1>1 DEF RevokeDue
  <2>2. List(p) # <<>> BY <2>1, ListsDiffer DEF Revoking
  <2> QED BY <2>1, <2>2 DEF Pending, Busy, Idle, List
<1>2. CASE Met(h)
  BY <1>2 DEF Met, Pending, Busy, Procs
<1> QED BY <1>1, <1>2

\* It implies what the runs check.
LEMMA FleetIndGives == FleetInd => FleetInv
<1> SUFFICES ASSUME FleetInd PROVE FleetInv
  OBVIOUS
<1>0. Typed BY TypedCalls DEF FleetInd
<1>1. RetiredForGood
  <2>1. \A h \in quiet : pg[h] \in Status BY DEF FleetInd, FleetTypeOK
  <2>2. \A h \in quiet : pg[h] # "online" /\ (pg[h] = "offline" => h \in unreached)
    BY DEF FleetInd, QuietInd, QuietOn
  <2> QED BY <2>1, <2>2 DEF RetiredForGood, Status
<1>2. ReplacedIsLockedOut
  <2>1. SUFFICES ASSUME NEW h \in Hosts, NEW g \in earlier[h], stage[h] = "in",
                        addr[g].said = addr[h].seen, g \notin loose, h \notin loose
                 PROVE  cred[g] # "active" \/ Pending(g)
    BY DEF ReplacedIsLockedOut
  <2>2. g \in Hosts BY DEF FleetInd, FleetTypeOK
  <2>3. cred[g] # "active" \/ RevokeDue(g) \/ Met(g)
    BY <2>1 DEF FleetInd, LockInd, Cleared
  <2> QED BY <2>2, <2>3, DueIsPending
<1>3. GoneIsLockedOut
  BY DueIsPending DEF GoneIsLockedOut, FleetInd, RevokeInd, Live
<1>4. ListsOnlyCurrent
  <2>1. SUFFICES ASSUME NEW h \in Listed, pg[h] \notin {"online", "offline"}, ~Pending(h), h \notin loose
                 PROVE  FALSE
    BY DEF ListsOnlyCurrent
  <2>2. h \in Hosts /\ es[h] \in {"online", "offline"} BY <2>1 DEF Listed
  <2>3. \A p \in Procs : Target(p) = h => List(p) = <<>>
    BY <2>1 DEF Pending, Busy, Idle, List
  <2>4. Kind(pg[h]) = Kind(es[h])
    BY <2>1, <2>2, <2>3, ListsDiffer DEF FleetInd, AgreeInd, AgreeOn, HalfWay
  <2>5. pg[h] \in Status BY <2>2 DEF FleetInd, FleetTypeOK
  <2> QED BY <2>1, <2>2, <2>4, <2>5 DEF Kind, Live, Status
<1>5. OrphansCameLate
  BY DEF OrphansCameLate, FleetInd, OrphanInd, Members
<1> QED BY <1>1, <1>2, <1>3, <1>4, <1>5 DEF FleetInv, FleetInd

\* A host that was retired stays so (RetiredForGood), an enrolment locks out the
\* hosts it replaces (ReplacedIsLockedOut), a host without a row holds no valid
\* credential (GoneIsLockedOut), the list shows only current hosts
\* (ListsOnlyCurrent) and only a late comer is left in a group that is gone
\* (OrphansCameLate), with the exceptions each of them names: whatever the
\* numbers of hosts, operators, sweepers, calls at once and failures.
THEOREM FleetInvHolds == FleetSpec => []FleetInv
<1>1. FleetInit => FleetInd BY FleetIndInit
<1>2. FleetInd /\ [FleetNext]_fleetVars => FleetInd'
  BY FleetIndStep, FleetIndStutters
<1>3. FleetInd => FleetInv BY FleetIndGives
<1> QED BY <1>1, <1>2, <1>3, PTL DEF FleetSpec
=============================================================================
