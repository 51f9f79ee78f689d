---------------------------- MODULE AgentProofs ----------------------------
(***************************************************************************)
(* The agent: its link, its outbox and its scans, for every set of scan    *)
(* commands and any number of connections, batches of findings and faults; *)
(* and its upgrades, for any number of versions, commands, messages under  *)
(* way and faults.                                                         *)
(***************************************************************************)
EXTENDS AgentScan, Upgrade, FiniteSetTheorems, TLAPS

(* The link.  A transport that works is that of the last connection dialed,  *)
(* which is read and in Client.conn; nothing waits on one not dialed yet.    *)

LinkInd ==
  /\ up # NoConn => conn = up /\ reading = up /\ dialed = up
  /\ unpopped \subseteq 1 .. dialed
  /\ \A i \in Conns : i > dialed => inbox[i] = <<>> /\ wire[i] = <<>> /\ replay[i] = <<>>
  /\ dialed = 0 => conn = NoConn /\ outbox = <<>> /\ sent = {} /\ \A c \in Commands : pc[c] = "none"
  /\ HeartGoesOn /\ NothingStranded

(* A command is handled once.                                               *)

InboxInd ==
  /\ \A c \in Commands : pc[c] # "none" => c \in issued
  /\ \A i \in Conns : \A k \in DOMAIN inbox[i] : inbox[i][k] \in Commands =>
       /\ inbox[i][k] \in issued /\ pc[inbox[i][k]] = "none"
       /\ \A j \in Conns : \A n \in DOMAIN inbox[j] : inbox[j][n] = inbox[i][k] => i = j /\ k = n

(* A result is in one place at most: the offline queue, what was written to  *)
(* a connection or popped for it, or among the saved.                        *)

BoxIds == ({"outbox"} \X {0}) \cup ({"wire", "replay"} \X Conns) \cup ({"saved"} \X Commands)

Boxes(queue, written, popped, stored) ==
  [b \in BoxIds |-> CASE b[1] = "outbox" -> queue
                      [] b[1] = "wire"   -> written[b[2]]
                      [] b[1] = "replay" -> popped[b[2]]
                      [] b[1] = "saved"  -> stored[b[2]]]

Once(box) ==
  \A a, b \in BoxIds : \A i \in DOMAIN box[a], j \in DOMAIN box[b] :
    box[a][i] = box[b][j] => a = b /\ i = j

WereSent(box, all) == \A a \in BoxIds : \A i \in DOMAIN box[a] : box[a][i] \in all

OnceInd ==
  /\ Once(Boxes(outbox, wire, replay, saved)) /\ WereSent(Boxes(outbox, wire, replay, saved), sent)
  /\ \A c \in Commands : \A k \in DOMAIN saved[c] : saved[c][k].run = c

(* The results of a scan are numbered, and the final one is the last.        *)

Over == {"returning", "ended", "killed"}

SentInd ==
  /\ IsFiniteSet(sent)
  /\ \A c \in Commands :
       /\ pc[c] \notin Over => \A m \in sent : m.run = c => ~m.final /\ m.batch < batch[c]
       /\ pc[c] \in {"returning", "ended"} => \E f \in sent : f.run = c /\ f.final
       /\ \A k \in 1 .. batch[c] - 1 : \E m \in sent : m.run = c /\ ~m.final /\ m.batch = k
  /\ \A f, m \in sent : f.final /\ m.run = f.run => m.batch <= f.batch /\ (m.final => m = f)

(* What a scan says to have covered it has reported on.                      *)

Reported(c, x) == \E m \in sent : m.run = c /\ m.of = x

CoverInd ==
  /\ \A c \in Commands : \A x \in scanned[c] \ {"nuclei"} : Reported(c, x)
  /\ \A f \in sent : f.final => \A x \in f.scanned \ {"nuclei"} : Reported(f.run, x)

(* On the first connection, without a fault, results are saved in the order  *)
(* in which they were sent; what is lost is lost from the end.               *)

Kept(m) == \E j \in DOMAIN saved[m.run] : saved[m.run][j] = m

Ordered ==
  /\ up # NoConn =>
       /\ outbox = <<>> /\ replay[1] = <<>>
       /\ \A m \in sent : Kept(m) \/ \E j \in DOMAIN wire[1] : wire[1][j] = m
  /\ \A k \in DOMAIN wire[1] : wire[1][k].final =>
       \A m \in sent : m.run = wire[1][k].run => Kept(m) \/ \E j \in 1 .. k : wire[1][j] = m
  /\ \A c \in Commands : \A k \in DOMAIN saved[c] : saved[c][k].final =>
       \A m \in sent : m.run = c => \E j \in 1 .. k : saved[c][j] = m

FirstTime == dialed = 1 /\ faults = 0
FirstInd == FirstTime => Ordered

(* The map of cancel functions.                                             *)

MapInd ==
  /\ \A t \in Tasks : cancels[t] # NoScan => cancels[t][1].task = t
  /\ AloneIsCancellable /\ NoStaleCancel

LinkTyped ==
  /\ conn \in {NoConn} \cup Conns /\ up \in {NoConn} \cup Conns
  /\ dialed \in 0 .. MaxConns /\ reading \in {NoConn} \cup Conns
  /\ unpopped \subseteq Conns /\ beating \subseteq Conns /\ stuck \subseteq Conns
  /\ inbox \in [Conns -> Seq(Asks)] /\ issued \subseteq Asks /\ faults \in 0 .. MaxFaults

ScanTyped ==
  /\ pc \in [Commands -> Pcs] /\ depth \in [Commands -> Depths]
  /\ done \in [Commands -> SUBSET Depths]
  /\ cancels \in [Tasks -> {NoScan} \cup (Commands \X Depths)]
  /\ batch \in [Commands -> 1 .. MaxBatches + 1] /\ scanned \in [Commands -> SUBSET Modules]
  /\ usurped \subseteq Commands /\ sent \subseteq Results

MailTyped ==
  /\ outbox \in Seq(Results) /\ wire \in [Conns -> Seq(Results)] /\ replay \in [Conns -> Seq(Results)]
  /\ saved \in [Commands -> Seq(Results)]

MailInd == MailTyped /\ OnceInd

AgentScanInd ==
  /\ LinkTyped /\ ScanTyped /\ MailInd
  /\ LinkInd /\ InboxInd /\ SentInd /\ CoverInd /\ FirstInd /\ MapInd

-----------------------------------------------------------------------------
(* Places *)

LEMMA BoxIdsAre ==
  /\ <<"outbox", 0>> \in BoxIds
  /\ \A i \in Conns : <<"wire", i>> \in BoxIds /\ <<"replay", i>> \in BoxIds
  /\ \A c \in Commands : <<"saved", c>> \in BoxIds
  /\ \A b \in BoxIds : \/ b = <<"outbox", 0>>
                       \/ \E i \in Conns : b = <<"wire", i>> \/ b = <<"replay", i>>
                       \/ \E c \in Commands : b = <<"saved", c>>
BY DEF BoxIds

LEMMA BoxesAre ==
  ASSUME NEW q, NEW w, NEW p, NEW s
  PROVE  /\ Boxes(q, w, p, s)[<<"outbox", 0>>] = q
         /\ \A i \in Conns : /\ Boxes(q, w, p, s)[<<"wire", i>>] = w[i]
                             /\ Boxes(q, w, p, s)[<<"replay", i>>] = p[i]
         /\ \A c \in Commands : Boxes(q, w, p, s)[<<"saved", c>>] = s[c]
BY BoxIdsAre DEF Boxes

LEMMA BoxesTyped ==
  ASSUME NEW q \in Seq(Results), NEW w \in [Conns -> Seq(Results)], NEW p \in [Conns -> Seq(Results)],
         NEW s \in [Commands -> Seq(Results)]
  PROVE  Boxes(q, w, p, s) \in [BoxIds -> Seq(Results)]
<1>1. ASSUME NEW b \in BoxIds
      PROVE  Boxes(q, w, p, s)[b] \in Seq(Results)
  <2>1. CASE b = <<"outbox", 0>>
    BY <2>1, BoxesAre
  <2>2. ASSUME NEW i \in Conns, b = <<"wire", i>> \/ b = <<"replay", i>>
        PROVE  Boxes(q, w, p, s)[b] \in Seq(Results)
    <3>1. w[i] \in Seq(Results) /\ p[i] \in Seq(Results)
      OBVIOUS
    <3>2. Boxes(q, w, p, s)[<<"wire", i>>] = w[i] /\ Boxes(q, w, p, s)[<<"replay", i>>] = p[i]
      BY BoxesAre
    <3> QED BY <2>2, <3>1, <3>2
  <2>3. ASSUME NEW c \in Commands, b = <<"saved", c>>
        PROVE  Boxes(q, w, p, s)[b] \in Seq(Results)
    <3>1. s[c] \in Seq(Results) /\ Boxes(q, w, p, s)[<<"saved", c>>] = s[c]
      BY BoxesAre
    <3> QED BY <2>3, <3>1
  <2>4. \/ b = <<"outbox", 0>>
        \/ \E i \in Conns : b = <<"wire", i>> \/ b = <<"replay", i>>
        \/ \E c \in Commands : b = <<"saved", c>>
    BY BoxIdsAre
  <2> QED BY <2>1, <2>2, <2>3, <2>4
<1> QED BY <1>1 DEF Boxes

LEMMA BoxesEqual ==
  ASSUME NEW q \in Seq(Results), NEW w \in [Conns -> Seq(Results)], NEW p \in [Conns -> Seq(Results)],
         NEW s \in [Commands -> Seq(Results)], NEW B \in [BoxIds -> Seq(Results)],
         B[<<"outbox", 0>>] = q,
         \A i \in Conns : B[<<"wire", i>>] = w[i] /\ B[<<"replay", i>>] = p[i],
         \A c \in Commands : B[<<"saved", c>>] = s[c]
  PROVE  Boxes(q, w, p, s) = B
<1>1. ASSUME NEW b \in BoxIds
      PROVE  Boxes(q, w, p, s)[b] = B[b]
  <2>1. CASE b = <<"outbox", 0>>
    BY <2>1, BoxesAre
  <2>2. ASSUME NEW i \in Conns, b = <<"wire", i>> \/ b = <<"replay", i>>
        PROVE  Boxes(q, w, p, s)[b] = B[b]
    <3>1. w[i] \in Seq(Results) /\ p[i] \in Seq(Results)
      OBVIOUS
    <3>2. Boxes(q, w, p, s)[<<"wire", i>>] = w[i] /\ Boxes(q, w, p, s)[<<"replay", i>>] = p[i]
      BY BoxesAre
    <3> QED BY <2>2, <3>1, <3>2
  <2>3. ASSUME NEW c \in Commands, b = <<"saved", c>>
        PROVE  Boxes(q, w, p, s)[b] = B[b]
    <3>1. s[c] \in Seq(Results) /\ Boxes(q, w, p, s)[<<"saved", c>>] = s[c]
      BY BoxesAre
    <3> QED BY <2>3, <3>1
  <2>4. \/ b = <<"outbox", 0>>
        \/ \E i \in Conns : b = <<"wire", i>> \/ b = <<"replay", i>>
        \/ \E c \in Commands : b = <<"saved", c>>
    BY BoxIdsAre
  <2> QED BY <2>1, <2>2, <2>3, <2>4
<1>2. Boxes(q, w, p, s) \in [BoxIds -> Seq(Results)]
  BY BoxesTyped
<1> QED BY <1>1, <1>2

LEMMA OnceShorter ==
  ASSUME NEW B, NEW B2, NEW S, Once(B), WereSent(B, S),
         \A b \in BoxIds : \A i \in DOMAIN B2[b] : i \in DOMAIN B[b] /\ B2[b][i] = B[b][i]
  PROVE  Once(B2) /\ WereSent(B2, S)
BY DEF Once, WereSent

LEMMA TailAt ==
  ASSUME NEW S, NEW s \in Seq(S), s # <<>>
  PROVE  /\ Head(s) \in S /\ Tail(s) \in Seq(S) /\ s[1] = Head(s) /\ 1 \in DOMAIN s
         /\ \A i \in DOMAIN Tail(s) : i \in Nat /\ i + 1 \in DOMAIN s /\ Tail(s)[i] = s[i + 1] /\ i + 1 # 1
         /\ \A i \in DOMAIN s : i = 1 \/ (i - 1 \in DOMAIN Tail(s) /\ Tail(s)[i - 1] = s[i])
OBVIOUS

LEMMA AppendAt ==
  ASSUME NEW S, NEW s \in Seq(S), NEW x \in S
  PROVE  /\ Append(s, x) \in Seq(S) /\ DOMAIN s \subseteq DOMAIN Append(s, x)
         /\ Len(s) + 1 \in DOMAIN Append(s, x) /\ Append(s, x)[Len(s) + 1] = x
         /\ \A i \in DOMAIN s : Append(s, x)[i] = s[i] /\ i <= Len(s)
         /\ \A i \in DOMAIN Append(s, x) : i \in DOMAIN s \/ i = Len(s) + 1
OBVIOUS

LEMMA ResultOf == \A r \in Results : r.run \in Commands
BY DEF Results

\* Boxes B without the first of box a.
Cut(B, a) == [B EXCEPT ![a] = Tail(@)]

\* The first of a box taken out is nowhere else.
LEMMA OnceTail ==
  ASSUME NEW B \in [BoxIds -> Seq(Results)], NEW S, Once(B), WereSent(B, S),
         NEW a \in BoxIds, B[a] # <<>>
  PROVE  /\ Cut(B, a) \in [BoxIds -> Seq(Results)] /\ Once(Cut(B, a)) /\ WereSent(Cut(B, a), S)
         /\ Head(B[a]) \in S
         /\ \A b \in BoxIds : \A i \in DOMAIN Cut(B, a)[b] : Cut(B, a)[b][i] # Head(B[a])
<1> DEFINE B2 == Cut(B, a)
<1>1. /\ B[a] \in Seq(Results) /\ Tail(B[a]) \in Seq(Results) /\ B[a][1] = Head(B[a]) /\ 1 \in DOMAIN B[a]
      /\ \A i \in DOMAIN Tail(B[a]) : i \in Nat /\ i + 1 \in DOMAIN B[a] /\ Tail(B[a])[i] = B[a][i + 1] /\ i + 1 # 1
  <2>1. B[a] \in Seq(Results)
    OBVIOUS
  <2> QED BY <2>1, TailAt
<1>2. B2 \in [BoxIds -> Seq(Results)] /\ \A b \in BoxIds : B2[b] = IF b = a THEN Tail(B[a]) ELSE B[b]
  BY <1>1 DEF Cut
<1> HIDE DEF B2
\* Where what is in a place now was before.
<1> DEFINE was(b, i) == IF b = a THEN i + 1 ELSE i
<1>3. \A b \in BoxIds : \A i \in DOMAIN B2[b] :
        /\ was(b, i) \in DOMAIN B[b] /\ B2[b][i] = B[b][was(b, i)]
        /\ b = a => i \in Nat /\ was(b, i) = i + 1 /\ was(b, i) # 1
        /\ b # a => was(b, i) = i
  BY <1>1, <1>2
<1> HIDE DEF was
<1>4. Once(B2)
  <2>1. SUFFICES ASSUME NEW b \in BoxIds, NEW c \in BoxIds, NEW i \in DOMAIN B2[b], NEW j \in DOMAIN B2[c],
                        B2[b][i] = B2[c][j]
                 PROVE  b = c /\ i = j
    BY DEF Once
  <2>2. b = c /\ was(b, i) = was(c, j)
    BY <1>3, <2>1 DEF Once
  <2>3. CASE b = a
    BY <1>3, <2>2, <2>3
  <2>4. CASE b # a
    BY <1>3, <2>2, <2>4
  <2> QED BY <2>3, <2>4
<1>5. WereSent(B2, S)
  BY <1>3 DEF WereSent
<1>6. \A b \in BoxIds : \A i \in DOMAIN B2[b] : B2[b][i] # Head(B[a])
  BY <1>1, <1>3 DEF Once
<1>7. Head(B[a]) \in S
  BY <1>1 DEF WereSent
<1> QED BY <1>2, <1>4, <1>5, <1>6, <1>7 DEF B2

LEMMA OnceAppend ==
  ASSUME NEW B \in [BoxIds -> Seq(Results)], NEW S, NEW S2, Once(B), WereSent(B, S), S \subseteq S2,
         NEW a \in BoxIds, NEW m \in Results, m \in S2,
         \A b \in BoxIds : \A i \in DOMAIN B[b] : B[b][i] # m
  PROVE  LET B2 == [B EXCEPT ![a] = Append(@, m)]
         IN B2 \in [BoxIds -> Seq(Results)] /\ Once(B2) /\ WereSent(B2, S2)
<1> DEFINE B2 == [B EXCEPT ![a] = Append(@, m)]
<1>1. /\ Append(B[a], m) \in Seq(Results)
      /\ \A i \in DOMAIN Append(B[a], m) :
           \/ i \in DOMAIN B[a] /\ Append(B[a], m)[i] = B[a][i]
           \/ i = Len(B[a]) + 1 /\ Append(B[a], m)[i] = m
  <2>1. B[a] \in Seq(Results)
    OBVIOUS
  <2> QED BY <2>1, AppendAt
<1>2. B2 \in [BoxIds -> Seq(Results)] /\ \A b \in BoxIds : B2[b] = IF b = a THEN Append(B[a], m) ELSE B[b]
  BY <1>1
<1> HIDE DEF B2
<1>3. \A b \in BoxIds : \A i \in DOMAIN B2[b] :
        \/ i \in DOMAIN B[b] /\ B2[b][i] = B[b][i]
        \/ b = a /\ i = Len(B[a]) + 1 /\ B2[b][i] = m
  BY <1>1, <1>2
<1>4. Once(B2)
  BY <1>3 DEF Once
<1>5. WereSent(B2, S2)
  BY <1>3 DEF WereSent
<1> QED BY <1>2, <1>4, <1>5 DEF B2

LEMMA OnceMove ==
  ASSUME NEW B \in [BoxIds -> Seq(Results)], NEW S, Once(B), WereSent(B, S),
         NEW a \in BoxIds, NEW b \in BoxIds, a # b
  PROVE  LET B2 == [B EXCEPT ![b] = B[a], ![a] = <<>>]
         IN B2 \in [BoxIds -> Seq(Results)] /\ Once(B2) /\ WereSent(B2, S)
<1> DEFINE B2 == [B EXCEPT ![b] = B[a], ![a] = <<>>]
<1>1. /\ B2 \in [BoxIds -> Seq(Results)]
      /\ \A c \in BoxIds : B2[c] = IF c = a THEN <<>> ELSE IF c = b THEN B[a] ELSE B[c]
  OBVIOUS
<1> HIDE DEF B2
<1>2. /\ \A c \in BoxIds : \A i \in DOMAIN B2[c] : c # a
      /\ \A i \in DOMAIN B2[b] : i \in DOMAIN B[a] /\ B2[b][i] = B[a][i]
      /\ \A c \in BoxIds \ {a, b} : \A i \in DOMAIN B2[c] : i \in DOMAIN B[c] /\ B2[c][i] = B[c][i]
  <2>1. \A i : i \notin DOMAIN B2[a]
    <3>1. B2[a] = <<>>
      BY <1>1
    <3> QED BY <3>1
  <2>2. B2[b] = B[a]
    BY <1>1
  <2>3. \A c \in BoxIds \ {a, b} : B2[c] = B[c]
    BY <1>1
  <2> QED BY <2>1, <2>2, <2>3
<1> DEFINE was(c) == IF c = b THEN a ELSE c
<1>3. \A c \in BoxIds : \A i \in DOMAIN B2[c] :
        /\ was(c) \in BoxIds /\ i \in DOMAIN B[was(c)] /\ B2[c][i] = B[was(c)][i] /\ c # a
        /\ \A d \in BoxIds \ {a} : was(c) = was(d) => c = d
  BY <1>2
<1> HIDE DEF was
<1>4. Once(B2)
  <2>1. SUFFICES ASSUME NEW c \in BoxIds, NEW d \in BoxIds, NEW i \in DOMAIN B2[c], NEW j \in DOMAIN B2[d],
                        B2[c][i] = B2[d][j]
                 PROVE  c = d /\ i = j
    BY DEF Once
  <2>2. was(c) = was(d) /\ i = j
    BY <1>3, <2>1 DEF Once
  <2> QED BY <1>3, <2>2
<1>5. WereSent(B2, S)
  BY <1>3 DEF WereSent
<1> QED BY <1>1, <1>4, <1>5 DEF B2

-----------------------------------------------------------------------------
(* The mail *)

Nowhere(box, m) == \A b \in BoxIds : \A i \in DOMAIN box[b] : box[b][i] # m

\* Sending a result that is nowhere puts it in one place or none.
LEMMA SendOnce ==
  ASSUME conn \in {NoConn} \cup Conns, outbox \in Seq(Results), wire \in [Conns -> Seq(Results)],
         NEW p \in [Conns -> Seq(Results)], NEW s \in [Commands -> Seq(Results)], NEW S, NEW S2,
         Once(Boxes(outbox, wire, p, s)), WereSent(Boxes(outbox, wire, p, s), S), S \subseteq S2,
         NEW m \in Results, m \in S2, Nowhere(Boxes(outbox, wire, p, s), m), Send(m)
  PROVE  /\ outbox' \in Seq(Results) /\ wire' \in [Conns -> Seq(Results)]
         /\ Once(Boxes(outbox', wire', p, s)) /\ WereSent(Boxes(outbox', wire', p, s), S2)
<1> DEFINE B == Boxes(outbox, wire, p, s)
<1>1. B \in [BoxIds -> Seq(Results)]
  BY BoxesTyped
<1>2. /\ B[<<"outbox", 0>>] = outbox
      /\ \A i \in Conns : B[<<"wire", i>>] = wire[i] /\ B[<<"replay", i>>] = p[i]
      /\ \A c \in Commands : B[<<"saved", c>>] = s[c]
  BY BoxesAre
<1>3. Once(B) /\ WereSent(B, S) /\ Nowhere(B, m)
  OBVIOUS
<1> HIDE DEF B
<1>4. CASE conn = NoConn
  <2>1. outbox' = Append(outbox, m) /\ wire' = wire
    BY <1>4 DEF Send
  <2>2. outbox' \in Seq(Results)
    BY <2>1
  <2> DEFINE B2 == [B EXCEPT ![<<"outbox", 0>>] = Append(@, m)]
  <2>3. B2 \in [BoxIds -> Seq(Results)] /\ Once(B2) /\ WereSent(B2, S2)
    BY <1>1, <1>3, OnceAppend, BoxIdsAre DEF Nowhere
  <2>4. /\ B2[<<"outbox", 0>>] = outbox'
        /\ \A i \in Conns : B2[<<"wire", i>>] = wire[i] /\ B2[<<"replay", i>>] = p[i]
        /\ \A c \in Commands : B2[<<"saved", c>>] = s[c]
    BY <1>1, <1>2, <2>1, BoxIdsAre
  <2> HIDE DEF B2
  <2>5. Boxes(outbox', wire, p, s) = B2
    BY <2>2, <2>3, <2>4, BoxesEqual
  <2> QED BY <2>1, <2>2, <2>3, <2>5
<1>5. CASE conn # NoConn /\ conn = up
  <2>1. conn \in Conns /\ outbox' = outbox /\ wire' = [wire EXCEPT ![conn] = Append(@, m)]
    BY <1>5 DEF Send
  <2>2. wire' \in [Conns -> Seq(Results)]
    BY <2>1
  <2> DEFINE B2 == [B EXCEPT ![<<"wire", conn>>] = Append(@, m)]
  <2>3. B2 \in [BoxIds -> Seq(Results)] /\ Once(B2) /\ WereSent(B2, S2)
    BY <1>1, <1>3, <2>1, OnceAppend, BoxIdsAre DEF Nowhere
  <2>4. /\ B2[<<"outbox", 0>>] = outbox
        /\ \A i \in Conns : B2[<<"wire", i>>] = wire'[i] /\ B2[<<"replay", i>>] = p[i]
        /\ \A c \in Commands : B2[<<"saved", c>>] = s[c]
    BY <1>1, <1>2, <2>1, BoxIdsAre
  <2> HIDE DEF B2
  <2>5. Boxes(outbox, wire', p, s) = B2
    BY <2>2, <2>3, <2>4, BoxesEqual
  <2> QED BY <2>1, <2>2, <2>3, <2>5
<1>6. CASE conn # NoConn /\ conn # up
  <2>1. outbox' = outbox /\ wire' = wire
    BY <1>6 DEF Send
  <2>2. WereSent(B, S2)
    BY <1>3 DEF WereSent
  <2> QED BY <1>3, <2>1, <2>2 DEF B
<1> QED BY <1>4, <1>5, <1>6

LEMMA NewIsNowhere ==
  ASSUME NEW box, NEW all, WereSent(box, all), NEW m, m \notin all
  PROVE  Nowhere(box, m)
BY DEF WereSent, Nowhere

\* A scan sends a result that was never sent.
LEMMA SendKeepsMail ==
  ASSUME MailInd, conn \in {NoConn} \cup Conns, NEW m \in Results, m \notin sent, Send(m),
         sent' = sent \cup {m}, UNCHANGED <<replay, saved>>
  PROVE  MailInd'
<1>1. /\ Once(Boxes(outbox, wire, replay, saved)) /\ WereSent(Boxes(outbox, wire, replay, saved), sent)
      /\ MailTyped
  BY DEF MailInd, OnceInd
<1>2. Nowhere(Boxes(outbox, wire, replay, saved), m)
  BY <1>1, NewIsNowhere
<1>3. /\ outbox' \in Seq(Results) /\ wire' \in [Conns -> Seq(Results)]
      /\ Once(Boxes(outbox', wire', replay, saved)) /\ WereSent(Boxes(outbox', wire', replay, saved), sent')
  <2>1. /\ outbox \in Seq(Results) /\ wire \in [Conns -> Seq(Results)] /\ replay \in [Conns -> Seq(Results)]
        /\ saved \in [Commands -> Seq(Results)]
    BY <1>1 DEF MailTyped
  <2>2. sent \subseteq sent' /\ m \in sent'
    OBVIOUS
  <2> QED BY <1>1, <1>2, <2>1, <2>2, SendOnce
<1> QED BY <1>1, <1>3 DEF MailInd, MailTyped, OnceInd

LEMMA MailStays ==
  ASSUME MailInd, UNCHANGED <<wire, replay, outbox, saved, sent>>
  PROVE  MailInd'
BY DEF MailInd, MailTyped, OnceInd

LEMMA ResendKeepsMail ==
  ASSUME MailInd, conn \in {NoConn} \cup Conns, NEW i \in Conns, Resend(i)
  PROVE  MailInd'
<1> DEFINE B == Boxes(outbox, wire, replay, saved)
           m == Head(replay[i])
<1>1. Once(B) /\ WereSent(B, sent) /\ MailTyped
  BY DEF MailInd, OnceInd
<1>2. /\ replay[i] # <<>> /\ replay' = [replay EXCEPT ![i] = Tail(@)] /\ Send(m)
      /\ UNCHANGED <<saved, sent>>
  BY DEF Resend
<1>3. B \in [BoxIds -> Seq(Results)]
  BY <1>1, BoxesTyped DEF MailTyped
<1>4. /\ B[<<"outbox", 0>>] = outbox
      /\ \A j \in Conns : B[<<"wire", j>>] = wire[j] /\ B[<<"replay", j>>] = replay[j]
      /\ \A c \in Commands : B[<<"saved", c>>] = saved[c]
  BY BoxesAre
<1> HIDE DEF B
<1> DEFINE B2 == Cut(B, <<"replay", i>>)
<1>5. /\ B2 \in [BoxIds -> Seq(Results)] /\ Once(B2) /\ WereSent(B2, sent) /\ m \in sent
      /\ Nowhere(B2, m)
  <2>1. <<"replay", i>> \in BoxIds /\ B[<<"replay", i>>] # <<>> /\ Head(B[<<"replay", i>>]) = m
    BY <1>2, <1>4, BoxIdsAre
  <2> HIDE DEF m
  <2>2. /\ B2 \in [BoxIds -> Seq(Results)] /\ Once(B2) /\ WereSent(B2, sent) /\ Head(B[<<"replay", i>>]) \in sent
        /\ \A b \in BoxIds : \A j \in DOMAIN B2[b] : B2[b][j] # Head(B[<<"replay", i>>])
    BY <1>1, <1>3, <2>1, OnceTail
  <2> HIDE DEF B2
  <2> QED BY <2>1, <2>2 DEF Nowhere
<1>6. replay' \in [Conns -> Seq(Results)] /\ m \in Results
  <2>1. replay \in [Conns -> Seq(Results)] /\ replay[i] \in Seq(Results)
    BY <1>1 DEF MailTyped
  <2>2. Tail(replay[i]) \in Seq(Results) /\ Head(replay[i]) \in Results
    BY <1>2, <2>1, TailAt
  <2> QED BY <1>2, <2>1, <2>2
<1>7. /\ B2[<<"outbox", 0>>] = outbox
      /\ \A j \in Conns : B2[<<"wire", j>>] = wire[j] /\ B2[<<"replay", j>>] = replay'[j]
      /\ \A c \in Commands : B2[<<"saved", c>>] = saved[c]
  <2>1. replay \in [Conns -> Seq(Results)]
    BY <1>1 DEF MailTyped
  <2> QED BY <1>2, <1>3, <1>4, <2>1, BoxIdsAre DEF Cut
<1> HIDE DEF B2
<1>8. Boxes(outbox, wire, replay', saved) = B2
  BY <1>1, <1>5, <1>6, <1>7, BoxesEqual DEF MailTyped
<1> HIDE DEF m
<1>9. /\ outbox' \in Seq(Results) /\ wire' \in [Conns -> Seq(Results)]
      /\ Once(Boxes(outbox', wire', replay', saved)) /\ WereSent(Boxes(outbox', wire', replay', saved), sent)
  BY <1>1, <1>2, <1>5, <1>6, <1>8, SendOnce DEF MailTyped
<1> QED BY <1>1, <1>2, <1>6, <1>9 DEF MailInd, MailTyped, OnceInd

LEMMA PopKeepsMail ==
  ASSUME MailInd, NEW i \in Conns, PopAll(i)
  PROVE  MailInd'
<1> DEFINE B == Boxes(outbox, wire, replay, saved)
<1>1. Once(B) /\ WereSent(B, sent) /\ MailTyped
  BY DEF MailInd, OnceInd
<1>2. replay' = [replay EXCEPT ![i] = outbox] /\ outbox' = <<>> /\ UNCHANGED <<wire, saved, sent>>
  BY DEF PopAll
<1>3. B \in [BoxIds -> Seq(Results)]
  BY <1>1, BoxesTyped DEF MailTyped
<1>4. /\ B[<<"outbox", 0>>] = outbox
      /\ \A j \in Conns : B[<<"wire", j>>] = wire[j] /\ B[<<"replay", j>>] = replay[j]
      /\ \A c \in Commands : B[<<"saved", c>>] = saved[c]
  BY BoxesAre
<1> HIDE DEF B
<1> DEFINE B2 == [B EXCEPT ![<<"replay", i>>] = B[<<"outbox", 0>>], ![<<"outbox", 0>>] = <<>>]
<1>5. B2 \in [BoxIds -> Seq(Results)] /\ Once(B2) /\ WereSent(B2, sent)
  BY <1>1, <1>3, OnceMove, BoxIdsAre
<1>6. replay' \in [Conns -> Seq(Results)] /\ outbox' \in Seq(Results)
  BY <1>1, <1>2 DEF MailTyped
<1>7. /\ B2[<<"outbox", 0>>] = outbox'
      /\ \A j \in Conns : B2[<<"wire", j>>] = wire[j] /\ B2[<<"replay", j>>] = replay'[j]
      /\ \A c \in Commands : B2[<<"saved", c>>] = saved[c]
  <2>1. replay \in [Conns -> Seq(Results)]
    BY <1>1 DEF MailTyped
  <2> QED BY <1>2, <1>3, <1>4, <2>1, BoxIdsAre
<1> HIDE DEF B2
<1>8. Boxes(outbox', wire, replay', saved) = B2
  <2>1. wire \in [Conns -> Seq(Results)] /\ saved \in [Commands -> Seq(Results)]
    BY <1>1 DEF MailTyped
  <2> QED BY <1>5, <1>6, <1>7, <2>1, BoxesEqual
<1> QED BY <1>1, <1>2, <1>5, <1>6, <1>8 DEF MailInd, MailTyped, OnceInd

\* The console reads a result, and saves it unless that fails.
LEMMA SaveKeepsMail ==
  ASSUME MailInd, NEW i \in Conns, Save(i) \/ SaveFails(i)
  PROVE  MailInd'
<1> DEFINE B == Boxes(outbox, wire, replay, saved)
           m == Head(wire[i])
<1>1. /\ Once(B) /\ WereSent(B, sent) /\ MailTyped
      /\ \A c \in Commands : \A k \in DOMAIN saved[c] : saved[c][k].run = c
  BY DEF MailInd, OnceInd
<1>2. /\ wire[i] # <<>> /\ wire' = [wire EXCEPT ![i] = Tail(@)] /\ UNCHANGED <<outbox, replay, sent>>
      /\ UNCHANGED saved \/ saved' = [saved EXCEPT ![m.run] = Append(@, m)]
  BY DEF Save, SaveFails
<1>3. B \in [BoxIds -> Seq(Results)]
  BY <1>1, BoxesTyped DEF MailTyped
<1>4. /\ B[<<"outbox", 0>>] = outbox
      /\ \A j \in Conns : B[<<"wire", j>>] = wire[j] /\ B[<<"replay", j>>] = replay[j]
      /\ \A c \in Commands : B[<<"saved", c>>] = saved[c]
  BY BoxesAre
<1> HIDE DEF B
<1> DEFINE B2 == Cut(B, <<"wire", i>>)
<1>5. /\ B2 \in [BoxIds -> Seq(Results)] /\ Once(B2) /\ WereSent(B2, sent) /\ m \in sent
      /\ \A b \in BoxIds : \A j \in DOMAIN B2[b] : B2[b][j] # m
  <2>1. <<"wire", i>> \in BoxIds /\ B[<<"wire", i>>] # <<>> /\ Head(B[<<"wire", i>>]) = m
    BY <1>2, <1>4, BoxIdsAre
  <2> HIDE DEF m
  <2>2. /\ B2 \in [BoxIds -> Seq(Results)] /\ Once(B2) /\ WereSent(B2, sent) /\ Head(B[<<"wire", i>>]) \in sent
        /\ \A b \in BoxIds : \A j \in DOMAIN B2[b] : B2[b][j] # Head(B[<<"wire", i>>])
    BY <1>1, <1>3, <2>1, OnceTail
  <2> HIDE DEF B2
  <2> QED BY <2>1, <2>2
<1>6. wire' \in [Conns -> Seq(Results)] /\ m \in Results /\ m.run \in Commands
  <2>1. wire \in [Conns -> Seq(Results)] /\ wire[i] \in Seq(Results)
    BY <1>1 DEF MailTyped
  <2>2. Tail(wire[i]) \in Seq(Results) /\ Head(wire[i]) \in Results
    BY <1>2, <2>1, TailAt
  <2>3. m \in Results
    BY <2>2
  <2>4. wire' \in [Conns -> Seq(Results)]
    BY <1>2, <2>1, <2>2
  <2> QED BY <2>3, <2>4, ResultOf
<1>7. /\ B2[<<"outbox", 0>>] = outbox
      /\ \A j \in Conns : B2[<<"wire", j>>] = wire'[j] /\ B2[<<"replay", j>>] = replay[j]
      /\ \A c \in Commands : B2[<<"saved", c>>] = saved[c]
  <2>1. wire \in [Conns -> Seq(Results)]
    BY <1>1 DEF MailTyped
  <2> QED BY <1>2, <1>3, <1>4, <2>1, BoxIdsAre DEF Cut
<1> HIDE DEF B2, m
<1>8. CASE UNCHANGED saved
  <2>1. Boxes(outbox, wire', replay, saved) = B2
    <3>1. outbox \in Seq(Results) /\ replay \in [Conns -> Seq(Results)] /\ saved \in [Commands -> Seq(Results)]
      BY <1>1 DEF MailTyped
    <3>2. B2 \in [BoxIds -> Seq(Results)] /\ wire' \in [Conns -> Seq(Results)]
      BY <1>5, <1>6
    <3> QED BY <1>7, <3>1, <3>2, BoxesEqual
  <2> QED BY <1>1, <1>2, <1>5, <1>6, <1>8, <2>1 DEF MailInd, MailTyped, OnceInd
<1>9. CASE saved' = [saved EXCEPT ![m.run] = Append(@, m)]
  <2> DEFINE B3 == [B2 EXCEPT ![<<"saved", m.run>>] = Append(@, m)]
  <2>1. B3 \in [BoxIds -> Seq(Results)] /\ Once(B3) /\ WereSent(B3, sent)
    BY <1>5, <1>6, OnceAppend, BoxIdsAre
  <2>2. saved \in [Commands -> Seq(Results)] /\ saved' \in [Commands -> Seq(Results)]
    BY <1>1, <1>6, <1>9 DEF MailTyped
  <2>3. /\ B3[<<"outbox", 0>>] = outbox
        /\ \A j \in Conns : B3[<<"wire", j>>] = wire'[j] /\ B3[<<"replay", j>>] = replay[j]
        /\ \A c \in Commands : B3[<<"saved", c>>] = saved'[c]
    BY <1>5, <1>6, <1>7, <1>9, <2>2, BoxIdsAre
  <2> HIDE DEF B3
  <2>4. Boxes(outbox, wire', replay, saved') = B3
    <3>1. outbox \in Seq(Results) /\ replay \in [Conns -> Seq(Results)]
      BY <1>1 DEF MailTyped
    <3>2. B3 \in [BoxIds -> Seq(Results)] /\ wire' \in [Conns -> Seq(Results)]
      BY <1>6, <2>1
    <3> QED BY <2>2, <2>3, <3>1, <3>2, BoxesEqual
  <2>5. ASSUME NEW c \in Commands, NEW k \in DOMAIN saved'[c]
        PROVE  saved'[c][k].run = c
    <3>1. CASE c # m.run
      BY <1>1, <1>9, <2>2, <2>5, <3>1
    <3>2. CASE c = m.run
      <4>1. saved'[c] = Append(saved[c], m) /\ saved[c] \in Seq(Results)
        BY <1>9, <2>2, <3>2
      <4>2. (k \in DOMAIN saved[c] /\ saved'[c][k] = saved[c][k]) \/ saved'[c][k] = m
        BY <1>6, <2>5, <4>1, AppendAt
      <4> QED BY <1>1, <3>2, <4>2
    <3> QED BY <3>1, <3>2
  <2> QED BY <1>1, <1>2, <1>6, <2>1, <2>2, <2>4, <2>5 DEF MailInd, MailTyped, OnceInd
<1> QED BY <1>2, <1>8, <1>9

\* What breaks or dies loses mail and makes none.
LEMMA LossKeepsMail ==
  ASSUME MailInd, outbox' \in {outbox, <<>>}, UNCHANGED <<saved, sent>>,
         wire' \in [Conns -> Seq(Results)], replay' \in [Conns -> Seq(Results)],
         \A i \in Conns : /\ \A k \in DOMAIN wire'[i] : k \in DOMAIN wire[i] /\ wire'[i][k] = wire[i][k]
                          /\ \A k \in DOMAIN replay'[i] : k \in DOMAIN replay[i] /\ replay'[i][k] = replay[i][k]
  PROVE  MailInd'
<1> DEFINE B  == Boxes(outbox, wire, replay, saved)
           B2 == Boxes(outbox', wire', replay', saved)
<1>1. Once(B) /\ WereSent(B, sent) /\ MailTyped
  BY DEF MailInd, OnceInd
<1>2. /\ B[<<"outbox", 0>>] = outbox /\ B2[<<"outbox", 0>>] \in {outbox, <<>>}
      /\ \A j \in Conns : /\ B[<<"wire", j>>] = wire[j] /\ B[<<"replay", j>>] = replay[j]
                          /\ B2[<<"wire", j>>] = wire'[j] /\ B2[<<"replay", j>>] = replay'[j]
      /\ \A c \in Commands : B[<<"saved", c>>] = saved[c] /\ B2[<<"saved", c>>] = saved[c]
  BY BoxesAre
<1> HIDE DEF B, B2
<1>3. ASSUME NEW b \in BoxIds, NEW k \in DOMAIN B2[b]
      PROVE  k \in DOMAIN B[b] /\ B2[b][k] = B[b][k]
  <2>1. CASE b = <<"outbox", 0>>
    <3>1. \A n : n \notin DOMAIN <<>>
      OBVIOUS
    <3> QED BY <1>2, <1>3, <2>1, <3>1
  <2>2. ASSUME NEW j \in Conns, b = <<"wire", j>> PROVE k \in DOMAIN B[b] /\ B2[b][k] = B[b][k]
    BY <1>2, <1>3, <2>2
  <2>3. ASSUME NEW j \in Conns, b = <<"replay", j>> PROVE k \in DOMAIN B[b] /\ B2[b][k] = B[b][k]
    BY <1>2, <1>3, <2>3
  <2>4. ASSUME NEW c \in Commands, b = <<"saved", c>> PROVE k \in DOMAIN B[b] /\ B2[b][k] = B[b][k]
    BY <1>2, <1>3, <2>4
  <2>5. \/ b = <<"outbox", 0>>
        \/ \E i \in Conns : b = <<"wire", i>> \/ b = <<"replay", i>>
        \/ \E c \in Commands : b = <<"saved", c>>
    BY BoxIdsAre
  <2> QED BY <2>1, <2>2, <2>3, <2>4, <2>5
<1>4. Once(B2) /\ WereSent(B2, sent)
  BY <1>1, <1>3, OnceShorter
<1>5. outbox' \in Seq(Results)
  <2>1. <<>> \in Seq(Results) /\ outbox \in Seq(Results)
    BY <1>1 DEF MailTyped
  <2> QED BY <2>1
<1> QED BY <1>1, <1>4, <1>5 DEF MailInd, MailTyped, OnceInd, B2

-----------------------------------------------------------------------------
(* What a step of Execute is: a change of place, a batch of findings, the    *)
(* final result, or an entry or exit.                                        *)

Busy == {"guard", "sys", "collecting", "throttle", "baseline", "checking", "final", "nuclei", "stream"}

Moving(c) ==
  /\ pc[c] \in Busy /\ \E to \in Busy : Go(c, to)
  /\ Quiet /\ UNCHANGED scanned /\ Still

Sends(c, m) ==
  /\ pc[c] \in Busy
  /\ m.run = c /\ m.batch = batch[c]
  /\ Send(m) /\ sent' = sent \cup {m}
  /\ UNCHANGED <<unpopped, replay, saved>> /\ Still

Reporting(c, m) ==
  /\ Sends(c, m) /\ ~m.final
  /\ Cardinality({r \in sent : ~r.final}) < MaxBatches
  /\ batch' = [batch EXCEPT ![c] = @ + 1]
  /\ \E to \in Busy : Go(c, to)
  /\ UNCHANGED scanned \/ (m.of \in Modules /\ scanned' = [scanned EXCEPT ![c] = @ \cup {m.of}])

Finishing(c, m) ==
  /\ Sends(c, m) /\ m.final /\ m.scanned \ {"nuclei"} \subseteq scanned[c]
  /\ Go(c, "returning") /\ UNCHANGED <<batch, scanned>>

FinalOf(c, covers) == [run |-> c, batch |-> batch[c], of |-> "", final |-> TRUE, scanned |-> covers]
FindingsOf(c, of) == [run |-> c, batch |-> batch[c], of |-> of, final |-> FALSE, scanned |-> {}]

Reports(c) == \E of \in Modules : FindingsOf(c, of) \in Results /\ Reporting(c, FindingsOf(c, of))
Finishes(c) == \E covers \in SUBSET Modules : FinalOf(c, covers) \in Results /\ Finishing(c, FinalOf(c, covers))

LEMMA FinishIsFinishing ==
  ASSUME ScanTyped, NEW c \in Commands, NEW covers \in SUBSET Modules, pc[c] \in Busy,
         covers \ {"nuclei"} \subseteq scanned[c], Finish(c, covers), UNCHANGED scanned, Still
  PROVE  Finishes(c)
<1>1. FinalOf(c, covers) \in Results
  BY DEF ScanTyped, FinalOf, Results
<1>2. Finishing(c, FinalOf(c, covers))
  BY DEF Finish, FinalOf, Finishing, Sends
<1> QED BY <1>1, <1>2 DEF Finishes

LEMMA FindingsIsReporting ==
  ASSUME ScanTyped, NEW c \in Commands, NEW of \in Modules, pc[c] \in Busy, Findings(c, of), Still,
         \E to \in Busy : Go(c, to),
         UNCHANGED scanned \/ scanned' = [scanned EXCEPT ![c] = @ \cup {of}]
  PROVE  Reports(c)
<1>1. FindingsOf(c, of) \in Results
  BY DEF ScanTyped, FindingsOf, Results, Modules
<1>2. Reporting(c, FindingsOf(c, of))
  BY DEF Findings, FindingsOf, Reporting, Sends
<1> QED BY <1>1, <1>2 DEF Reports

LEMMA ExecuteKinds ==
  ASSUME ScanTyped, NEW c \in Commands, Execute(c)
  PROVE  Register(c) \/ FallBack(c) \/ Return(c) \/ Moving(c) \/ Reports(c) \/ Finishes(c)
<1>0. /\ {} \in SUBSET Modules /\ {} \ {"nuclei"} \subseteq scanned[c]
      /\ {"nuclei"} \in SUBSET Modules /\ {"nuclei"} \ {"nuclei"} \subseteq scanned[c]
      /\ scanned[c] \in SUBSET Modules /\ scanned[c] \ {"nuclei"} \subseteq scanned[c]
  BY DEF ScanTyped, Modules
<1>1. CASE Guard(c)
  BY <1>0, <1>1, FinishIsFinishing DEF Guard, Moving, Busy
<1>2. CASE Check(c)
  BY <1>0, <1>2, FinishIsFinishing DEF Check, Moving, Busy
<1>3. CASE Collect(c)
  <2>1. pc[c] \in Busy /\ Still
    BY <1>3 DEF Collect, Busy
  <2>2. PICK of \in {"sys_vuln", "baseline"}, next \in {"throttle", "final"} :
          \/ Finish(c, {}) /\ UNCHANGED scanned
          \/ Go(c, next) /\ Quiet /\ UNCHANGED scanned
          \/ Go(c, next) /\ Findings(c, of) /\ scanned' = [scanned EXCEPT ![c] = @ \cup {of}]
    BY <1>3 DEF Collect
  <2>3. next \in Busy /\ of \in Modules
    BY DEF Busy, Modules
  <2>4. CASE Finish(c, {}) /\ UNCHANGED scanned
    BY <1>0, <2>1, <2>4, FinishIsFinishing
  <2>5. CASE Go(c, next) /\ Quiet /\ UNCHANGED scanned
    BY <2>1, <2>3, <2>5 DEF Moving
  <2>6. CASE Go(c, next) /\ Findings(c, of) /\ scanned' = [scanned EXCEPT ![c] = @ \cup {of}]
    BY <2>1, <2>3, <2>6, FindingsIsReporting
  <2> QED BY <2>2, <2>4, <2>5, <2>6
<1>4. CASE Throttle(c)
  BY <1>0, <1>4, FinishIsFinishing DEF Throttle, Moving, Busy
<1>5. CASE Conclude(c)
  BY <1>0, <1>5, FinishIsFinishing DEF Conclude, Busy
<1>6. CASE RunNuclei(c)
  BY <1>0, <1>6, FinishIsFinishing DEF RunNuclei, Moving, Busy
<1>7. CASE Stream(c)
  <2>1. pc[c] \in Busy /\ Still /\ UNCHANGED scanned /\ "nuclei" \in Modules
    BY <1>7 DEF Stream, Busy, Modules
  <2>2. Finish(c, {}) \/ Finish(c, {"nuclei"}) \/ (Findings(c, "nuclei") /\ UNCHANGED pc)
    BY <1>7 DEF Stream
  <2>3. CASE Findings(c, "nuclei") /\ UNCHANGED pc
    <3>1. Go(c, pc[c])
      BY <2>3 DEF ScanTyped, Go
    <3> QED BY <2>1, <2>3, <3>1, FindingsIsReporting
  <2> QED BY <1>0, <2>1, <2>2, <2>3, FinishIsFinishing
<1> QED BY <1>1, <1>2, <1>3, <1>4, <1>5, <1>6, <1>7 DEF Execute

\* A scan that is busy sends what was not sent yet, and numbers its batches within
\* the bound.
LEMMA SendsNew ==
  ASSUME ScanTyped, SentInd, NEW c \in Commands, NEW m, Sends(c, m)
  PROVE  m \notin sent /\ \A f \in sent : f.run = c => ~f.final /\ f.batch < batch[c]
<1>1. pc[c] \notin Over
  BY DEF Sends, Busy, Over
<1>2. \A f \in sent : f.run = c => ~f.final /\ f.batch < batch[c]
  BY <1>1 DEF SentInd
<1>3. m \in sent => batch[c] < batch[c]
  BY <1>2 DEF Sends
<1>4. batch[c] \in Int
  BY DEF ScanTyped
<1> QED BY <1>2, <1>3, <1>4

LEMMA BatchBound ==
  ASSUME ScanTyped, SentInd, NEW c \in Commands, Cardinality({r \in sent : ~r.final}) < MaxBatches
  PROVE  batch[c] <= MaxBatches
<1> DEFINE S == {r \in sent : ~r.final}
           n == batch[c] - 1
<1>1. n \in Nat /\ MaxBatches \in Nat
  BY AgentScanAssumption DEF ScanTyped
<1>2. IsFiniteSet(S) /\ Cardinality(S) \in Nat
  <2>1. IsFiniteSet(sent) /\ S \in SUBSET sent
    BY DEF SentInd
  <2>2. IsFiniteSet(S)
    BY <2>1, FS_Subset
  <2> QED BY <2>2, FS_CardinalityType
<1>3. \A k \in 1 .. n : \E m \in S : m.batch = k
  BY DEF SentInd
<1> DEFINE f == [k \in 1 .. n |-> CHOOSE m \in S : m.batch = k]
<1>4. f \in Injection(1 .. n, S)
  <2>1. \A k \in 1 .. n : f[k] \in S /\ f[k].batch = k
    BY <1>3
  <2>2. f \in [1 .. n -> S]
    BY <2>1
  <2>3. \A a, b \in 1 .. n : f[a] = f[b] => a = b
    BY <2>1
  <2> HIDE DEF f, n, S
  <2> QED BY <2>2, <2>3 DEF Injection, IsInjective
<1> HIDE DEF f, S
<1>5. Cardinality(1 .. n) <= Cardinality(S)
  BY <1>2, <1>4, FS_Injection
<1>6. Cardinality(1 .. n) = n
  BY <1>1, FS_Interval
<1> QED BY <1>1, <1>2, <1>5, <1>6 DEF ScanTyped, S

-----------------------------------------------------------------------------
(* The steps, in groups that leave something alone.                         *)

LinkStep == Dial \/ Break \/ ReadError \/ ReadDeadline
MailStep(i) == PopAll(i) \/ PopFails(i) \/ Resend(i) \/ Save(i) \/ SaveFails(i)
Telling(c) == \E m \in Results : Reporting(c, m) \/ Finishing(c, m)

LEMMA StepKinds ==
  ASSUME ScanTyped, [AgentScanNext]_agentScanVars
  PROVE  \/ UNCHANGED agentScanVars
         \/ LinkStep \/ Crash
         \/ \E i \in Conns : MailStep(i) \/ HandleScan(i) \/ HandleCancel(i)
         \/ \E m \in Asks : Ask(m)
         \/ \E c \in Commands : Register(c) \/ FallBack(c) \/ Return(c) \/ Moving(c) \/ Telling(c)
<1>1. ASSUME NEW c \in Commands, Execute(c)
      PROVE  Register(c) \/ FallBack(c) \/ Return(c) \/ Moving(c) \/ Telling(c)
  BY <1>1, ExecuteKinds DEF Reports, Finishes, Telling
<1>2. ASSUME NEW i \in Conns, Serve(i)
      PROVE  MailStep(i) \/ HandleScan(i) \/ HandleCancel(i)
  BY <1>2 DEF Serve, MailStep
<1> QED BY <1>1, <1>2 DEF AgentScanNext, LinkStep

\* What the connection, the queue and the console do leaves the scans alone.
LEMMA ScansStay ==
  ASSUME UNCHANGED agentScanVars \/ LinkStep \/ (\E i \in Conns : MailStep(i)) \/ (\E m \in Asks : Ask(m))
  PROVE  UNCHANGED <<pc, depth, done, cancels, batch, scanned, usurped, sent>>
BY DEF LinkStep, MailStep, Dial, Break, ReadError, ReadDeadline, PopAll, PopFails, Resend, Save, SaveFails, Ask,
       agentScanVars, mail, scans

\* What a scan does leaves the connection and what was asked of the agent alone.
LEMMA LinkStays ==
  ASSUME NEW c, Register(c) \/ FallBack(c) \/ Return(c) \/ Moving(c) \/ Telling(c)
  PROVE  /\ UNCHANGED <<conn, up, dialed, reading, beating, stuck, inbox, issued, faults, unpopped, replay, saved>>
         /\ pc[c] \notin {"none", "ended", "killed"}
         /\ \E to \in Busy \cup {"spawned", "returning", "ended"} : Go(c, to)
<1>1. CASE Register(c)
  BY <1>1 DEF Register, link, mail, Busy
<1>2. CASE FallBack(c)
  BY <1>2 DEF FallBack, link, mail, Busy
<1>3. CASE Return(c)
  BY <1>3 DEF Return, link, mail, Busy
<1>4. CASE Moving(c)
  BY <1>4 DEF Moving, Quiet, Still, link, mail, Busy
<1>5. CASE Telling(c)
  BY <1>5 DEF Telling, Reporting, Finishing, Sends, Still, link, Busy
<1> QED BY <1>1, <1>2, <1>3, <1>4, <1>5

\* A move leaves what was sent alone, and what a scan sends leaves the map.
LEMMA QuietStays ==
  ASSUME NEW c, Register(c) \/ FallBack(c) \/ Return(c) \/ Moving(c)
  PROVE  UNCHANGED <<wire, outbox, sent, batch>>
BY DEF Register, FallBack, Return, Moving, Quiet, mail

LEMMA PlaceOf ==
  ASSUME ScanTyped, NEW c \in Commands, NEW to, Go(c, to)
  PROVE  pc'[c] = to /\ \A d \in Commands \ {c} : pc'[d] = pc[d]
BY DEF ScanTyped, Go

-----------------------------------------------------------------------------
(* Types *)

LEMMA AsksAre ==
  /\ \A m \in Asks : m \in Commands \/ (m \in Cancels /\ m \notin Commands /\ m.task \in Tasks)
  /\ \A c \in Commands : c.task \in Tasks
<1>1. \A c \in Commands : c.engine # "cancel"
  BY AgentScanAssumption
<1>2. \A m \in Cancels : m.engine = "cancel" /\ m.task \in Tasks
  BY DEF Cancels
<1> QED BY <1>1, <1>2 DEF Asks, Tasks

LEMMA ScanTypedInit ==
  ASSUME AgentScanInit
  PROVE  ScanTyped
BY AgentScanAssumption DEF AgentScanInit, ScanTyped, Pcs, Depths

LEMMA LinkTypedInit ==
  ASSUME AgentScanInit
  PROVE  LinkTyped
BY AgentScanAssumption DEF AgentScanInit, LinkTyped

LEMMA ScanTypedKeeps ==
  ASSUME LinkTyped, ScanTyped, SentInd, [AgentScanNext]_agentScanVars
  PROVE  ScanTyped'
<1>1. CASE UNCHANGED <<pc, depth, done, cancels, batch, scanned, usurped, sent>>
  BY <1>1 DEF ScanTyped
<1>2. CASE Crash
  <2>1. pc' \in [Commands -> Pcs] /\ cancels' \in [Tasks -> {NoScan} \cup (Commands \X Depths)]
    BY <1>2 DEF Crash, ScanTyped, Pcs
  <2> QED BY <1>2, <2>1 DEF Crash, ScanTyped
<1>3. ASSUME NEW i \in Conns, HandleScan(i)
      PROVE  ScanTyped'
  <2>1. pc' \in [Commands -> Pcs]
    BY <1>3 DEF HandleScan, ScanTyped, Pcs
  <2> QED BY <1>3, <2>1 DEF HandleScan, ScanTyped, mail
<1>4. ASSUME NEW i \in Conns, HandleCancel(i)
      PROVE  ScanTyped'
  <2>1. inbox[i] \in Seq(Asks) /\ inbox[i] # <<>> /\ Head(inbox[i]) \notin Commands
    BY <1>4 DEF HandleCancel, LinkTyped
  <2>2. Head(inbox[i]) \in Asks
    BY <2>1
  <2>3. Head(inbox[i]).task \in Tasks
    BY <2>1, <2>2, AsksAre
  <2> DEFINE found == cancels[Head(inbox[i]).task]
  <2>4. found \in {NoScan} \cup (Commands \X Depths)
    BY <2>3 DEF ScanTyped
  <2>5. done' = IF found = NoScan THEN done ELSE [done EXCEPT ![found[1]] = @ \cup {found[2]}]
    BY <1>4 DEF HandleCancel
  <2> HIDE DEF found
  <2>6. done' \in [Commands -> SUBSET Depths]
    BY <2>4, <2>5 DEF ScanTyped
  <2> QED BY <1>4, <2>6 DEF HandleCancel, ScanTyped, mail
<1>5. ASSUME NEW c \in Commands, Register(c) \/ FallBack(c) \/ Return(c) \/ Moving(c) \/ Telling(c)
      PROVE  ScanTyped'
  <2>1. pc' \in [Commands -> Pcs]
    <3>1. PICK to \in Busy \cup {"spawned", "returning", "ended"} : Go(c, to)
      BY <1>5, LinkStays
    <3>2. to \in Pcs
      BY DEF Busy, Pcs
    <3> QED BY <3>1, <3>2 DEF ScanTyped, Go
  <2>2. CASE Register(c)
    <3>1. c.task \in Tasks /\ depth[c] \in Depths
      BY AsksAre DEF ScanTyped
    <3>2. cancels' \in [Tasks -> {NoScan} \cup (Commands \X Depths)]
      BY <2>2, <3>1 DEF Register, ScanTyped
    <3>3. usurped' \subseteq Commands
      BY <2>2 DEF Register, ScanTyped, Siblings
    <3> QED BY <2>1, <2>2, <3>2, <3>3 DEF Register, ScanTyped, mail
  <2>3. CASE FallBack(c)
    BY <2>1, <2>3 DEF FallBack, ScanTyped, mail, Depths
  <2>4. CASE Return(c)
    <3>1. /\ cancels' \in [Tasks -> {NoScan} \cup (Commands \X Depths)]
          /\ done' \in [Commands -> SUBSET Depths] /\ scanned' \in [Commands -> SUBSET Modules]
          /\ depth' \in [Commands -> Depths]
      BY <2>4 DEF Return, ScanTyped, Depths
    <3>2. usurped' \subseteq Commands
      BY <2>4 DEF Return, ScanTyped, Siblings
    <3> QED BY <2>1, <2>4, <3>1, <3>2 DEF Return, ScanTyped, mail
  <2>5. CASE Moving(c)
    BY <2>1, <2>5 DEF Moving, Quiet, Still, ScanTyped, mail
  <2>6. ASSUME NEW m \in Results, Reporting(c, m)
        PROVE  ScanTyped'
    <3>1. batch[c] <= MaxBatches
      BY <2>6, BatchBound DEF Reporting
    <3>2. batch' \in [Commands -> 1 .. MaxBatches + 1]
      BY <2>6, <3>1, AgentScanAssumption DEF Reporting, ScanTyped
    <3>4. scanned' \in [Commands -> SUBSET Modules]
      BY <2>6 DEF Reporting, ScanTyped
    <3>5. sent' \subseteq Results
      BY <2>6 DEF Reporting, Sends, ScanTyped
    <3> QED BY <2>1, <2>6, <3>2, <3>4, <3>5 DEF Reporting, Sends, Still, ScanTyped
  <2>7. ASSUME NEW m \in Results, Finishing(c, m)
        PROVE  ScanTyped'
    <3>1. sent' \subseteq Results
      BY <2>7 DEF Finishing, Sends, ScanTyped
    <3> QED BY <2>1, <2>7, <3>1 DEF Finishing, Sends, Still, ScanTyped
  <2> QED BY <1>5, <2>2, <2>3, <2>4, <2>5, <2>6, <2>7 DEF Telling
<1> QED BY <1>1, <1>2, <1>3, <1>4, <1>5, StepKinds, ScansStay

LEMMA LinkTypedKeeps ==
  ASSUME LinkTyped, ScanTyped, [AgentScanNext]_agentScanVars
  PROVE  LinkTyped'
<1>1. CASE UNCHANGED agentScanVars
  BY <1>1 DEF LinkTyped, agentScanVars, link, mail
<1>2. CASE Dial
  <2>1. dialed + 1 \in Conns
    BY <1>2, AgentScanAssumption DEF Dial, LinkTyped, Conns
  <2>2. dialed + 1 \in 0 .. MaxConns
    BY <2>1, AgentScanAssumption DEF Conns
  <2> QED BY <1>2, <2>1, <2>2 DEF Dial, LinkTyped
<1>3. CASE Break \/ ReadError \/ ReadDeadline
  BY <1>3 DEF Break, ReadError, ReadDeadline, LinkTyped, link, mail
<1>4. CASE Crash
  <2>1. faults' \in 0 .. MaxFaults
    BY <1>4, AgentScanAssumption DEF Crash, Fault, LinkTyped
  <2>2. inbox' \in [Conns -> Seq(Asks)]
    BY <1>4 DEF Crash
  <2> QED BY <1>4, <2>1, <2>2 DEF Crash, LinkTyped
<1>5. ASSUME NEW i \in Conns, MailStep(i)
      PROVE  LinkTyped'
  <2>1. faults' \in 0 .. MaxFaults /\ unpopped' \subseteq Conns
    BY <1>5, AgentScanAssumption DEF MailStep, PopAll, PopFails, Resend, Save, SaveFails, Fault, LinkTyped
  <2>2. stuck' \subseteq Conns /\ UNCHANGED <<conn, up, dialed, reading, beating, inbox, issued>>
    BY <1>5 DEF MailStep, PopAll, PopFails, Resend, Save, SaveFails, LinkTyped, link
  <2> QED BY <2>1, <2>2 DEF LinkTyped
<1>6. ASSUME NEW i \in Conns, HandleScan(i) \/ HandleCancel(i)
      PROVE  LinkTyped'
  <2>1. inbox[i] # <<>> /\ inbox' = [inbox EXCEPT ![i] = Tail(@)] /\ inbox[i] \in Seq(Asks)
    BY <1>6 DEF HandleScan, HandleCancel, LinkTyped
  <2>2. Tail(inbox[i]) \in Seq(Asks)
    BY <2>1
  <2>3. inbox' \in [Conns -> Seq(Asks)]
    BY <2>1, <2>2 DEF LinkTyped
  <2> QED BY <1>6, <2>3 DEF HandleScan, HandleCancel, LinkTyped, link, mail
<1>7. ASSUME NEW m \in Asks, Ask(m)
      PROVE  LinkTyped'
  <2>1. up \in Conns /\ inbox' = [inbox EXCEPT ![up] = Append(@, m)] /\ issued' = issued \cup {m}
    BY <1>7 DEF Ask, LinkTyped
  <2>2. inbox' \in [Conns -> Seq(Asks)]
    BY <2>1 DEF LinkTyped
  <2> QED BY <1>7, <2>1, <2>2 DEF Ask, LinkTyped, link, mail
<1>8. ASSUME NEW c \in Commands, Register(c) \/ FallBack(c) \/ Return(c) \/ Moving(c) \/ Telling(c)
      PROVE  LinkTyped'
  BY <1>8, LinkStays DEF LinkTyped
<1> QED BY <1>1, <1>2, <1>3, <1>4, <1>5, <1>6, <1>7, <1>8, StepKinds DEF LinkStep

-----------------------------------------------------------------------------
(* The link                                                                  *)

LEMMA SendWhere ==
  ASSUME LinkTyped, MailTyped, NEW m, Send(m)
  PROVE  \/ conn = NoConn /\ wire' = wire /\ outbox' = Append(outbox, m)
         \/ conn \in Conns /\ conn = up /\ outbox' = outbox /\ wire' = [wire EXCEPT ![conn] = Append(@, m)]
         \/ conn # NoConn /\ conn # up /\ UNCHANGED <<wire, outbox>>
BY DEF Send, LinkTyped

LEMMA NoConnIsNone == NoConn \notin Conns /\ NoConn = 0
BY AgentScanAssumption DEF Conns, NoConn

LEMMA SendBelow ==
  ASSUME LinkTyped, MailTyped, LinkInd, NEW m, Send(m), NEW j \in Conns, j > dialed
  PROVE  wire'[j] = wire[j]
<1>1. CASE conn \in Conns /\ conn = up
  <2>1. up = dialed
    BY <1>1, NoConnIsNone DEF LinkInd
  <2>2. j # up
    BY <1>1, <2>1 DEF Conns
  <2>3. wire' = [wire EXCEPT ![conn] = Append(@, m)] \/ wire' = wire
    BY SendWhere
  <2> QED BY <1>1, <2>2, <2>3 DEF MailTyped
<1>2. CASE ~(conn \in Conns /\ conn = up)
  <2>1. wire' = wire
    BY <1>2, SendWhere
  <2> QED BY <2>1
<1> QED BY <1>1, <1>2

LEMMA LinkIndInit ==
  ASSUME AgentScanInit
  PROVE  LinkInd
BY DEF AgentScanInit, LinkInd, HeartGoesOn, NothingStranded

LEMMA LinkIndKeeps ==
  ASSUME LinkTyped, ScanTyped, MailTyped, LinkInd, [AgentScanNext]_agentScanVars
  PROVE  LinkInd'
<1>0. /\ up # NoConn => conn = up /\ reading = up /\ dialed = up
      /\ unpopped \subseteq 1 .. dialed
      /\ \A i \in Conns : i > dialed => inbox[i] = <<>> /\ wire[i] = <<>> /\ replay[i] = <<>>
      /\ dialed = 0 => conn = NoConn /\ outbox = <<>> /\ sent = {} /\ \A c \in Commands : pc[c] = "none"
      /\ HeartGoesOn /\ NothingStranded
  BY DEF LinkInd
<1>1. CASE UNCHANGED agentScanVars
  BY <1>0, <1>1 DEF LinkInd, HeartGoesOn, NothingStranded, agentScanVars, link, mail, scans
<1>2. CASE Dial
  <2>1. dialed \in Nat /\ dialed' = dialed + 1 /\ conn' = dialed' /\ up' = dialed' /\ reading' = dialed'
    BY <1>2 DEF Dial, LinkTyped
  <2>2. unpopped' = unpopped \cup {dialed'} /\ beating' = beating \cup {dialed'} /\ UNCHANGED <<stuck, inbox, wire, replay>>
    BY <1>2 DEF Dial
  <2>3. unpopped' \subseteq 1 .. dialed' /\ conn' \in unpopped'
    BY <1>0, <2>1, <2>2
  <2>4. \A i \in Conns : i > dialed' => inbox'[i] = <<>> /\ wire'[i] = <<>> /\ replay'[i] = <<>>
    BY <1>0, <2>1, <2>2 DEF Conns
  <2>5. HeartGoesOn'
    BY <2>1, <2>2 DEF HeartGoesOn
  <2> QED BY <2>1, <2>3, <2>4, <2>5 DEF LinkInd, NothingStranded
<1>3. CASE Break
  <2>1. up \in Conns /\ UNCHANGED <<conn, dialed, reading, beating, stuck, unpopped, replay, outbox, sent, pc, inbox>>
    BY <1>3 DEF Break, LinkTyped, scans
  <2>2. up' = NoConn /\ \A i \in Conns : i # up => wire'[i] = wire[i]
    BY <1>3 DEF Break, MailTyped
  <2>3. ASSUME NEW i \in Conns, i > dialed PROVE wire'[i] = <<>>
    <3>1. up = dialed /\ i \in Int /\ up \in Int
      BY <1>0, <2>1, NoConnIsNone DEF Conns
    <3>2. i # up
      BY <2>3, <3>1
    <3> QED BY <1>0, <2>2, <2>3, <3>2
  <2> QED BY <1>0, <2>1, <2>2, <2>3 DEF LinkInd, HeartGoesOn, NothingStranded
<1>4. CASE ReadError
  <2>1. /\ up = NoConn /\ conn' = NoConn /\ reading' = NoConn
        /\ UNCHANGED <<up, dialed, unpopped, replay, outbox, sent, pc, inbox, wire>>
    BY <1>0, <1>4 DEF ReadError, mail, scans
  <2> QED BY <1>0, <2>1 DEF LinkInd, HeartGoesOn, NothingStranded
<1>5. CASE ReadDeadline
  <2>1. /\ up = NoConn /\ reading' = NoConn
        /\ UNCHANGED <<conn, up, dialed, stuck, unpopped, replay, outbox, sent, pc, inbox, wire>>
    BY <1>0, <1>5 DEF ReadDeadline, mail, scans
  <2> QED BY <1>0, <2>1 DEF LinkInd, HeartGoesOn, NothingStranded
<1>6. CASE Crash
  <2>1. /\ up' = NoConn /\ conn' = NoConn /\ unpopped' = {} /\ reading' = NoConn
        /\ UNCHANGED <<dialed, wire, outbox, sent>>
    BY <1>6 DEF Crash
  <2>2. \A i \in Conns : inbox'[i] = <<>> /\ replay'[i] = <<>>
    BY <1>6 DEF Crash
  <2>3. \A c \in Commands : pc[c] = "none" => pc'[c] = "none"
    BY <1>6 DEF Crash
  <2> QED BY <1>0, <2>1, <2>2, <2>3 DEF LinkInd, HeartGoesOn, NothingStranded
<1>7. ASSUME NEW i \in Conns, PopAll(i)
      PROVE  LinkInd'
  <2>1. /\ i \in unpopped /\ unpopped' = unpopped \ {i} /\ outbox' = <<>>
        /\ \A j \in Conns : j # i => replay'[j] = replay[j]
        /\ UNCHANGED <<conn, up, dialed, reading, beating, stuck, sent, pc, inbox, wire>>
    BY <1>7 DEF PopAll, MailTyped, link, scans
  <2>2. i \in 1 .. dialed /\ dialed \in Nat
    BY <1>0, <2>1 DEF LinkTyped
  <2> QED BY <1>0, <2>1, <2>2 DEF LinkInd, HeartGoesOn, NothingStranded, Conns
<1>13. ASSUME NEW i \in Conns, PopFails(i)
       PROVE  LinkInd'
  <2>1. /\ i \in unpopped /\ unpopped' = unpopped \ {i} /\ stuck' = stuck \cup {i}
        /\ outbox' \in {outbox, <<>>}
        /\ UNCHANGED <<conn, up, dialed, reading, beating, wire, replay, sent, pc, inbox>>
    BY <1>13 DEF PopFails, scans
  <2> QED BY <1>0, <2>1 DEF LinkInd, HeartGoesOn, NothingStranded
<1>8. ASSUME NEW i \in Conns, Resend(i)
      PROVE  LinkInd'
  <2>1. /\ replay[i] # <<>> /\ Send(Head(replay[i])) /\ \A j \in Conns : j # i => replay'[j] = replay[j]
        /\ UNCHANGED <<conn, up, dialed, reading, beating, stuck, unpopped, sent, pc, inbox>>
    BY <1>8 DEF Resend, MailTyped, link, scans
  <2>2. dialed \in Nat /\ i \in Nat /\ ~(i > dialed) /\ dialed # 0
    BY <1>0, <2>1 DEF LinkTyped, Conns
  <2>3. \A j \in Conns : j > dialed => replay'[j] = <<>> /\ wire'[j] = wire[j]
    <3>1. \A j \in Conns : j > dialed => replay'[j] = <<>>
      BY <1>0, <2>1, <2>2
    <3>2. ASSUME NEW j \in Conns, j > dialed PROVE wire'[j] = wire[j]
      BY <2>1, <3>2, SendBelow
    <3> QED BY <3>1, <3>2
  <2>4. outbox' = outbox \/ conn = NoConn
    BY <2>1, SendWhere
  <2> QED BY <1>0, <2>1, <2>2, <2>3, <2>4 DEF LinkInd, HeartGoesOn, NothingStranded
<1>9. ASSUME NEW i \in Conns, Save(i) \/ SaveFails(i)
      PROVE  LinkInd'
  <2>1. /\ wire[i] # <<>> /\ \A j \in Conns : j # i => wire'[j] = wire[j]
        /\ UNCHANGED <<conn, up, dialed, reading, beating, stuck, unpopped, outbox, replay, sent, pc, inbox>>
    BY <1>9 DEF Save, SaveFails, MailTyped, link, scans
  <2> QED BY <1>0, <2>1 DEF LinkInd, HeartGoesOn, NothingStranded
<1>10. ASSUME NEW i \in Conns, HandleScan(i) \/ HandleCancel(i)
       PROVE  LinkInd'
  <2>1. /\ inbox[i] # <<>> /\ \A j \in Conns : j # i => inbox'[j] = inbox[j]
        /\ UNCHANGED <<conn, up, dialed, reading, beating, stuck, unpopped, outbox, replay, sent, wire>>
    BY <1>10 DEF HandleScan, HandleCancel, LinkTyped, link, mail
  <2>2. dialed # 0
    BY <1>0, <2>1 DEF Conns
  <2> QED BY <1>0, <2>1, <2>2 DEF LinkInd, HeartGoesOn, NothingStranded
<1>11. ASSUME NEW m \in Asks, Ask(m)
       PROVE  LinkInd'
  <2>1. /\ up # NoConn /\ \A j \in Conns : j # up => inbox'[j] = inbox[j]
        /\ UNCHANGED <<conn, up, dialed, reading, beating, stuck, unpopped, outbox, replay, sent, wire, pc>>
    BY <1>11 DEF Ask, LinkTyped, link, mail, scans
  <2> QED BY <1>0, <2>1 DEF LinkInd, HeartGoesOn, NothingStranded, Conns
<1>12. ASSUME NEW c \in Commands, Register(c) \/ FallBack(c) \/ Return(c) \/ Moving(c) \/ Telling(c)
       PROVE  LinkInd'
  <2>1. /\ UNCHANGED <<conn, up, dialed, reading, beating, stuck, inbox, unpopped, replay>>
        /\ pc[c] # "none"
    BY <1>12, LinkStays
  <2>2. dialed # 0
    BY <1>0, <2>1
  <2>3. /\ \A j \in Conns : j > dialed => wire'[j] = wire[j]
        /\ outbox' = outbox \/ conn = NoConn
    <3>1. CASE UNCHANGED <<wire, outbox>>
      BY <3>1
    <3>2. ASSUME NEW m, Send(m)
          PROVE  /\ \A j \in Conns : j > dialed => wire'[j] = wire[j]
                 /\ outbox' = outbox \/ conn = NoConn
      <4>1. ASSUME NEW j \in Conns, j > dialed PROVE wire'[j] = wire[j]
        BY <3>2, <4>1, SendBelow
      <4> QED BY <3>2, <4>1, SendWhere
    <3> QED BY <1>12, <3>1, <3>2, QuietStays DEF Telling, Reporting, Finishing, Sends
  <2> QED BY <1>0, <2>1, <2>2, <2>3 DEF LinkInd, HeartGoesOn, NothingStranded
<1> QED BY <1>1, <1>2, <1>3, <1>4, <1>5, <1>6, <1>7, <1>8, <1>9, <1>10, <1>11, <1>12, <1>13, StepKinds
        DEF LinkStep, MailStep

-----------------------------------------------------------------------------
(* The inbox                                                                 *)

LEMMA InboxInit ==
  ASSUME AgentScanInit
  PROVE  InboxInd
BY DEF AgentScanInit, InboxInd

LEMMA PlacesAreNat ==
  ASSUME NEW S, NEW s \in Seq(S)
  PROVE  DOMAIN s = 1 .. Len(s) /\ Len(s) \in Nat /\ \A n \in DOMAIN s : n \in Nat /\ 1 <= n /\ s[n] \in S
OBVIOUS

\* A message taken from the front of an inbox leaves the others where they were, one
\* place nearer.
LEMMA InboxTail ==
  ASSUME LinkTyped, NEW i \in Conns, inbox[i] # <<>>, inbox' = [inbox EXCEPT ![i] = Tail(@)]
  PROVE  \A j \in Conns : \A n \in DOMAIN inbox'[j] :
           LET was == IF j = i THEN n + 1 ELSE n
           IN n \in Nat /\ was \in DOMAIN inbox[j] /\ inbox'[j][n] = inbox[j][was] /\ (j = i => was # 1)
<1>1. /\ inbox[i] \in Seq(Asks) /\ inbox'[i] = Tail(inbox[i])
      /\ \A j \in Conns : inbox[j] \in Seq(Asks) /\ (j # i => inbox'[j] = inbox[j])
  BY DEF LinkTyped
<1>2. \A n \in DOMAIN Tail(inbox[i]) :
        n \in Nat /\ n + 1 \in DOMAIN inbox[i] /\ Tail(inbox[i])[n] = inbox[i][n + 1] /\ n + 1 # 1
  BY <1>1, TailAt
<1>3. ASSUME NEW j \in Conns, j # i
      PROVE  \A n \in DOMAIN inbox'[j] : n \in Nat /\ n \in DOMAIN inbox[j] /\ inbox'[j][n] = inbox[j][n]
  <2>1. inbox'[j] = inbox[j] /\ inbox[j] \in Seq(Asks)
    BY <1>1, <1>3
  <2>2. \A n \in DOMAIN inbox[j] : n \in Nat
    BY <2>1, PlacesAreNat
  <2> QED BY <2>1, <2>2
<1>4. ASSUME NEW j \in Conns, NEW n \in DOMAIN inbox'[j]
      PROVE  LET was == IF j = i THEN n + 1 ELSE n
             IN n \in Nat /\ was \in DOMAIN inbox[j] /\ inbox'[j][n] = inbox[j][was] /\ (j = i => was # 1)
  <2>1. CASE j = i
    <3>1. n \in DOMAIN Tail(inbox[i])
      BY <1>1, <1>4, <2>1
    <3>2. n \in Nat /\ n + 1 \in DOMAIN inbox[i] /\ Tail(inbox[i])[n] = inbox[i][n + 1] /\ n + 1 # 1
      BY <1>2, <3>1
    <3> QED BY <1>1, <2>1, <3>2
  <2>2. CASE j # i
    BY <1>3, <1>4, <2>2
  <2> QED BY <2>1, <2>2
<1> QED BY <1>4

LEMMA InboxIndKeeps ==
  ASSUME LinkTyped, ScanTyped, InboxInd, [AgentScanNext]_agentScanVars
  PROVE  InboxInd'
<1>0. /\ \A c \in Commands : pc[c] # "none" => c \in issued
      /\ \A i \in Conns : \A k \in DOMAIN inbox[i] : inbox[i][k] \in Commands =>
           /\ inbox[i][k] \in issued /\ pc[inbox[i][k]] = "none"
           /\ \A j \in Conns : \A n \in DOMAIN inbox[j] : inbox[j][n] = inbox[i][k] => i = j /\ k = n
  BY DEF InboxInd
<1>1. CASE UNCHANGED <<inbox, issued, pc>>
  BY <1>0, <1>1 DEF InboxInd
<1>2. CASE Crash
  <2>1. /\ \A i \in Conns : inbox'[i] = <<>>
        /\ \A c \in Commands : pc[c] = "none" => pc'[c] = "none"
        /\ UNCHANGED issued
    BY <1>2 DEF Crash
  <2> QED BY <1>0, <2>1 DEF InboxInd
<1>3. ASSUME NEW i \in Conns, HandleScan(i) \/ HandleCancel(i)
      PROVE  InboxInd'
  <2>1. inbox[i] # <<>> /\ inbox' = [inbox EXCEPT ![i] = Tail(@)] /\ UNCHANGED issued
    BY <1>3 DEF HandleScan, HandleCancel
  <2> DEFINE was(j, n) == IF j = i THEN n + 1 ELSE n
  <2>2. \A j \in Conns : \A n \in DOMAIN inbox'[j] :
           n \in Nat /\ was(j, n) \in DOMAIN inbox[j] /\ inbox'[j][n] = inbox[j][was(j, n)] /\ (j = i => was(j, n) # 1)
    BY <2>1, InboxTail
  <2>3. \A j \in Conns : \A n, k \in Nat : was(j, n) = was(j, k) => n = k
    OBVIOUS
  <2>4. Head(inbox[i]) = inbox[i][1] /\ 1 \in DOMAIN inbox[i]
    <3>1. inbox[i] \in Seq(Asks)
      BY DEF LinkTyped
    <3> QED BY <2>1, <3>1, TailAt
  <2>5. /\ \A c \in Commands : pc'[c] # pc[c] => c = inbox[i][1]
        /\ \A c \in Commands : pc'[c] # "none" => c \in issued
    <3>1. CASE HandleCancel(i)
      BY <1>0, <3>1 DEF HandleCancel
    <3>2. CASE HandleScan(i)
      BY <1>0, <2>4, <3>2 DEF HandleScan, ScanTyped
    <3> QED BY <1>3, <3>1, <3>2
  <2> HIDE DEF was
  <2>6. ASSUME NEW j \in Conns, NEW k \in DOMAIN inbox'[j], inbox'[j][k] \in Commands
        PROVE  /\ inbox'[j][k] \in issued /\ pc'[inbox'[j][k]] = "none"
               /\ \A l \in Conns : \A n \in DOMAIN inbox'[l] : inbox'[l][n] = inbox'[j][k] => j = l /\ k = n
    <3>1. /\ was(j, k) \in DOMAIN inbox[j] /\ inbox'[j][k] = inbox[j][was(j, k)] /\ k \in Nat
          /\ j = i => was(j, k) # 1
      BY <2>2, <2>6
    <3>2. inbox[j][was(j, k)] \in issued /\ pc[inbox[j][was(j, k)]] = "none"
      BY <1>0, <2>6, <3>1
    <3>3. inbox[j][was(j, k)] # inbox[i][1]
      BY <1>0, <2>4, <2>6, <3>1
    <3>4. pc'[inbox'[j][k]] = "none"
      BY <2>5, <2>6, <3>1, <3>2, <3>3
    <3>5. ASSUME NEW l \in Conns, NEW n \in DOMAIN inbox'[l], inbox'[l][n] = inbox'[j][k]
          PROVE  j = l /\ k = n
      <4>1. was(l, n) \in DOMAIN inbox[l] /\ inbox'[l][n] = inbox[l][was(l, n)] /\ n \in Nat
        BY <2>2, <3>5
      <4>2. j = l /\ was(j, k) = was(l, n)
        <5>1. inbox[j][was(j, k)] \in Commands /\ inbox[l][was(l, n)] = inbox[j][was(j, k)]
          BY <2>6, <3>1, <3>5, <4>1
        <5>2. \A x \in Conns : \A y \in DOMAIN inbox[x] : inbox[x][y] = inbox[j][was(j, k)] => j = x /\ was(j, k) = y
          BY <1>0, <3>1, <5>1
        <5> QED BY <4>1, <5>1, <5>2
      <4> QED BY <2>3, <3>1, <4>1, <4>2
    <3> QED BY <3>1, <3>2, <3>4, <3>5
  <2> QED BY <2>1, <2>5, <2>6 DEF InboxInd
<1>4. ASSUME NEW m \in Asks, Ask(m)
      PROVE  InboxInd'
  <2>1. /\ m \notin issued /\ issued' = issued \cup {m} /\ up \in Conns /\ UNCHANGED pc
        /\ inbox' = [inbox EXCEPT ![up] = Append(@, m)]
    BY <1>4 DEF Ask, LinkTyped, scans
  <2>2. inbox[up] \in Seq(Asks) /\ inbox'[up] = Append(inbox[up], m) /\ \A j \in Conns \ {up} : inbox'[j] = inbox[j]
    BY <2>1 DEF LinkTyped
  <2>3. \A k \in DOMAIN inbox'[up] : (k \in DOMAIN inbox[up] /\ inbox'[up][k] = inbox[up][k])
                                     \/ (k = Len(inbox[up]) + 1 /\ inbox'[up][k] = m)
    BY <2>2, AppendAt
  <2>4. \A j \in Conns : \A k \in DOMAIN inbox'[j] :
           \/ k \in DOMAIN inbox[j] /\ inbox'[j][k] = inbox[j][k]
           \/ j = up /\ k = Len(inbox[up]) + 1 /\ inbox'[j][k] = m
    BY <2>2, <2>3
  <2>5. m \in Commands => pc[m] = "none"
    BY <1>0, <2>1
  <2>6. \A j \in Conns : \A k \in DOMAIN inbox[j] : inbox[j][k] \in Commands => inbox[j][k] # m
    BY <1>0, <2>1
  <2> QED BY <1>0, <2>1, <2>4, <2>5, <2>6 DEF InboxInd
<1>5. ASSUME NEW c \in Commands, Register(c) \/ FallBack(c) \/ Return(c) \/ Moving(c) \/ Telling(c)
      PROVE  InboxInd'
  <2>1. UNCHANGED <<inbox, issued>> /\ pc[c] # "none"
    BY <1>5, LinkStays
  <2>2. \A d \in Commands \ {c} : pc'[d] = pc[d]
    BY <1>5, LinkStays, PlaceOf
  <2> QED BY <1>0, <2>1, <2>2 DEF InboxInd
<1>6. ASSUME UNCHANGED agentScanVars \/ LinkStep \/ \E i \in Conns : MailStep(i)
      PROVE  UNCHANGED <<inbox, issued, pc>>
  BY <1>6 DEF LinkStep, MailStep, Dial, Break, ReadError, ReadDeadline, PopAll, PopFails, Resend, Save, SaveFails,
              agentScanVars, scans
<1> QED BY <1>1, <1>2, <1>3, <1>4, <1>5, <1>6, StepKinds

-----------------------------------------------------------------------------
(* The mail, and what was sent                                               *)

LEMMA MailInit ==
  ASSUME AgentScanInit
  PROVE  MailInd
<1>1. MailTyped
  BY DEF AgentScanInit, MailTyped
<1>2. outbox = <<>> /\ (\A i \in Conns : wire[i] = <<>> /\ replay[i] = <<>>) /\ \A c \in Commands : saved[c] = <<>>
  BY DEF AgentScanInit
<1> DEFINE B == Boxes(outbox, wire, replay, saved)
<1>3. ASSUME NEW b \in BoxIds PROVE B[b] = <<>>
  <2>1. \/ b = <<"outbox", 0>>
        \/ \E i \in Conns : b = <<"wire", i>> \/ b = <<"replay", i>>
        \/ \E c \in Commands : b = <<"saved", c>>
    BY BoxIdsAre
  <2>2. /\ B[<<"outbox", 0>>] = outbox
        /\ \A i \in Conns : B[<<"wire", i>>] = wire[i] /\ B[<<"replay", i>>] = replay[i]
        /\ \A c \in Commands : B[<<"saved", c>>] = saved[c]
    BY BoxesAre
  <2> HIDE DEF B
  <2> QED BY <1>2, <2>1, <2>2
<1> HIDE DEF B
<1>4. Once(B) /\ WereSent(B, sent)
  BY <1>3 DEF Once, WereSent
<1> QED BY <1>1, <1>2, <1>4 DEF MailInd, OnceInd, B

LEMMA BeginningAt ==
  ASSUME NEW S, NEW s \in Seq(S), NEW k \in 0 .. Len(s)
  PROVE  /\ SubSeq(s, 1, k) \in Seq(S)
         /\ \A i \in DOMAIN SubSeq(s, 1, k) : i \in DOMAIN s /\ SubSeq(s, 1, k)[i] = s[i]
OBVIOUS

LEMMA BreakLoses ==
  ASSUME LinkTyped, MailTyped, Break
  PROVE  /\ wire' \in [Conns -> Seq(Results)] /\ UNCHANGED <<outbox, saved, sent, replay>>
         /\ \A i \in Conns : \A k \in DOMAIN wire'[i] : k \in DOMAIN wire[i] /\ wire'[i][k] = wire[i][k]
<1>1. up \in Conns /\ UNCHANGED <<outbox, saved, sent, replay>>
  BY DEF Break, LinkTyped
<1>2. PICK k \in 0 .. Len(wire[up]) : wire' = [wire EXCEPT ![up] = SubSeq(@, 1, k)]
  BY DEF Break
<1>3. wire[up] \in Seq(Results)
  BY <1>1 DEF MailTyped
<1>4. /\ SubSeq(wire[up], 1, k) \in Seq(Results)
      /\ \A i \in DOMAIN SubSeq(wire[up], 1, k) : i \in DOMAIN wire[up] /\ SubSeq(wire[up], 1, k)[i] = wire[up][i]
  BY <1>3, BeginningAt
<1> QED BY <1>1, <1>2, <1>4 DEF MailTyped

LEMMA MailIndKeeps ==
  ASSUME LinkTyped, ScanTyped, MailInd, SentInd, [AgentScanNext]_agentScanVars
  PROVE  MailInd'
<1>1. CASE UNCHANGED <<wire, replay, outbox, saved, sent>>
  BY <1>1, MailStays
<1>2. CASE Break
  <2>1. MailTyped
    BY DEF MailInd
  <2>2. replay' = replay /\ \A i \in Conns : \A k \in DOMAIN replay'[i] : k \in DOMAIN replay[i] /\ replay'[i][k] = replay[i][k]
    BY <1>2 DEF Break
  <2>3. replay' \in [Conns -> Seq(Results)]
    BY <2>1, <2>2 DEF MailTyped
  <2>4. /\ wire' \in [Conns -> Seq(Results)] /\ UNCHANGED <<outbox, saved, sent>>
        /\ \A i \in Conns : \A k \in DOMAIN wire'[i] : k \in DOMAIN wire[i] /\ wire'[i][k] = wire[i][k]
    BY <1>2, <2>1, BreakLoses
  <2> QED BY <2>2, <2>3, <2>4, LossKeepsMail
<1>3. CASE Crash
  <2>1. MailTyped
    BY DEF MailInd
  <2>2. UNCHANGED <<wire, outbox, saved, sent>> /\ replay' = [i \in Conns |-> <<>>]
    BY <1>3 DEF Crash
  <2>3. /\ wire' \in [Conns -> Seq(Results)] /\ replay' \in [Conns -> Seq(Results)]
        /\ \A i \in Conns : \A k \in DOMAIN wire'[i] : k \in DOMAIN wire[i] /\ wire'[i][k] = wire[i][k]
    BY <2>1, <2>2 DEF MailTyped
  <2>4. \A i \in Conns : \A k \in DOMAIN replay'[i] : k \in DOMAIN replay[i] /\ replay'[i][k] = replay[i][k]
    BY <2>2
  <2> QED BY <2>2, <2>3, <2>4, LossKeepsMail
<1>4. ASSUME NEW i \in Conns, MailStep(i)
      PROVE  MailInd'
  <2>1. conn \in {NoConn} \cup Conns
    BY DEF LinkTyped
  <2>2. CASE PopFails(i)
    <3>1. MailTyped /\ outbox' \in {outbox, <<>>} /\ UNCHANGED <<wire, replay, saved, sent>>
      BY <2>2 DEF PopFails, MailInd
    <3> QED BY <3>1, LossKeepsMail DEF MailTyped
  <2> QED BY <1>4, <2>1, <2>2, PopKeepsMail, ResendKeepsMail, SaveKeepsMail DEF MailStep
<1>5. ASSUME NEW c \in Commands, Telling(c)
      PROVE  MailInd'
  <2>1. PICK m \in Results : Sends(c, m)
    BY <1>5 DEF Telling, Reporting, Finishing
  <2>2. m \notin sent
    BY <2>1, SendsNew
  <2>3. conn \in {NoConn} \cup Conns /\ Send(m) /\ sent' = sent \cup {m} /\ UNCHANGED <<replay, saved>>
    BY <2>1, SMTT(30) DEF LinkTyped, Sends
  <2> QED BY <2>2, <2>3, SendKeepsMail
<1>6. ASSUME \/ UNCHANGED agentScanVars \/ Dial \/ ReadError \/ ReadDeadline
             \/ \E i \in Conns : HandleScan(i) \/ HandleCancel(i)
             \/ \E m \in Asks : Ask(m)
      PROVE  UNCHANGED <<wire, replay, outbox, saved, sent>>
  BY <1>6 DEF Dial, ReadError, ReadDeadline, HandleScan, HandleCancel, Ask, agentScanVars, mail
<1>7. ASSUME NEW c \in Commands, Register(c) \/ FallBack(c) \/ Return(c) \/ Moving(c)
      PROVE  UNCHANGED <<wire, replay, outbox, saved, sent>>
  BY <1>7, LinkStays, QuietStays
<1> QED BY <1>1, <1>2, <1>3, <1>4, <1>5, <1>6, <1>7, StepKinds DEF LinkStep

LEMMA NumbersAreInt ==
  ASSUME ScanTyped
  PROVE  (\A c \in Commands : batch[c] \in Int) /\ \A m \in sent : m.batch \in Int
<1>1. \A m \in Results : m.batch \in 1 .. MaxBatches + 1
  BY DEF Results
<1>2. 1 .. MaxBatches + 1 \subseteq Int
  BY AgentScanAssumption
<1> QED BY <1>1, <1>2 DEF ScanTyped

LEMMA SentInit ==
  ASSUME AgentScanInit
  PROVE  SentInd
BY FS_EmptySet DEF AgentScanInit, SentInd, Over

LEMMA SentIndKeeps ==
  ASSUME LinkTyped, ScanTyped, InboxInd, SentInd, [AgentScanNext]_agentScanVars
  PROVE  SentInd'
<1>0. /\ IsFiniteSet(sent)
      /\ \A c \in Commands :
           /\ pc[c] \notin Over => \A m \in sent : m.run = c => ~m.final /\ m.batch < batch[c]
           /\ pc[c] \in {"returning", "ended"} => \E f \in sent : f.run = c /\ f.final
           /\ \A k \in 1 .. batch[c] - 1 : \E m \in sent : m.run = c /\ ~m.final /\ m.batch = k
      /\ \A f, m \in sent : f.final /\ m.run = f.run => m.batch <= f.batch /\ (m.final => m = f)
  BY DEF SentInd
\* Nothing is sent, and no scan is over that was not, or the other way round.
<1>1. ASSUME UNCHANGED <<sent, batch>>,
             \A c \in Commands : /\ pc'[c] \notin Over => pc[c] \notin Over
                                 /\ pc'[c] \in {"returning", "ended"} => pc[c] \in {"returning", "ended"}
      PROVE  SentInd'
  BY <1>0, <1>1 DEF SentInd
<1>2. CASE UNCHANGED <<pc, batch, sent>>
  BY <1>1, <1>2
<1>3. CASE Crash
  <2>1. \A c \in Commands : pc'[c] = IF pc[c] \in {"none", "ended"} THEN pc[c] ELSE "killed"
    BY <1>3 DEF Crash
  <2>2. UNCHANGED <<sent, batch>>
    BY <1>3 DEF Crash
  <2> QED BY <1>1, <2>1, <2>2 DEF Over
<1>4. ASSUME NEW i \in Conns, HandleScan(i)
      PROVE  SentInd'
  <2>1. UNCHANGED <<sent, batch>> /\ pc' = [pc EXCEPT ![Head(inbox[i])] = "spawned"] /\ Head(inbox[i]) \in Commands
    BY <1>4 DEF HandleScan, mail
  <2>2. pc[Head(inbox[i])] = "none"
    <3>1. inbox[i] \in Seq(Asks) /\ inbox[i] # <<>>
      BY <1>4 DEF HandleScan, LinkTyped
    <3>2. 1 \in DOMAIN inbox[i] /\ inbox[i][1] = Head(inbox[i])
      BY <3>1, TailAt
    <3> QED BY <2>1, <3>2 DEF InboxInd
  <2>3. \A c \in Commands : pc'[c] = pc[c] \/ (pc[c] = "none" /\ pc'[c] = "spawned")
    BY <2>1, <2>2 DEF ScanTyped
  <2> QED BY <1>1, <2>1, <2>3 DEF Over
<1>5. ASSUME NEW c \in Commands, Register(c) \/ FallBack(c) \/ Return(c) \/ Moving(c)
      PROVE  SentInd'
  <2>1. UNCHANGED <<sent, batch>>
    BY <1>5, QuietStays
  <2>2. PICK to \in Busy \cup {"spawned", "returning", "ended"} : Go(c, to)
    BY <1>5, LinkStays
  <2>3. pc'[c] = to /\ \A d \in Commands \ {c} : pc'[d] = pc[d]
    BY <2>2, PlaceOf
  <2>4. \/ pc[c] \in Busy \cup {"spawned"} /\ to \in Busy \cup {"spawned"}
        \/ pc[c] = "returning" /\ to \in {"returning", "ended"}
    <3>1. CASE Register(c)
      BY <2>3, <3>1, PlaceOf DEF Register, Busy
    <3>2. CASE FallBack(c)
      BY <2>3, <3>2, PlaceOf DEF FallBack, Busy
    <3>3. CASE Return(c)
      BY <2>3, <3>3, PlaceOf DEF Return
    <3>4. CASE Moving(c)
      BY <2>3, <3>4, PlaceOf DEF Moving
    <3> QED BY <1>5, <3>1, <3>2, <3>3, <3>4
  <2> QED BY <1>1, <2>1, <2>3, <2>4 DEF Over, Busy
\* A result is sent: numbered as the scan is, by a scan that sent no final one.
<1>6. ASSUME NEW c \in Commands, NEW m \in Results, Sends(c, m)
      PROVE  /\ IsFiniteSet(sent') /\ sent' = sent \cup {m} /\ m.run = c /\ m.batch = batch[c]
             /\ \A f \in sent : f.run = c => ~f.final /\ f.batch < batch[c]
             /\ \A f, r \in sent' : f.final /\ r.run = f.run => r.batch <= f.batch /\ (r.final => r = f)
  <2>1. /\ sent' = sent \cup {m} /\ m.run = c /\ m.batch = batch[c] /\ batch[c] \in Int
        /\ \A f \in sent : f.run = c => ~f.final /\ f.batch < batch[c] /\ f.batch \in Int
    <3>1. batch[c] \in Int /\ \A f \in sent : f.batch \in Int
      BY NumbersAreInt
    <3> QED BY <1>6, <3>1, SendsNew DEF Sends
  <2>2. IsFiniteSet(sent')
    BY <1>0, <2>1, FS_AddElement
  <2> QED BY <1>0, <2>1, <2>2
<1>7. ASSUME NEW c \in Commands, NEW m \in Results, Reporting(c, m)
      PROVE  SentInd'
  <2>1. Sends(c, m) /\ ~m.final /\ batch' = [batch EXCEPT ![c] = @ + 1] /\ \E to \in Busy : Go(c, to)
    BY <1>7 DEF Reporting
  <2>2. /\ IsFiniteSet(sent') /\ sent' = sent \cup {m} /\ m.run = c /\ m.batch = batch[c]
        /\ \A f \in sent : f.run = c => ~f.final /\ f.batch < batch[c]
        /\ \A f, r \in sent' : f.final /\ r.run = f.run => r.batch <= f.batch /\ (r.final => r = f)
    BY <1>6, <2>1
  <2>3. pc'[c] \in Busy /\ \A d \in Commands \ {c} : pc'[d] = pc[d] /\ batch'[d] = batch[d]
    BY <2>1, PlaceOf DEF ScanTyped
  <2>4. batch[c] \in Nat /\ batch'[c] = batch[c] + 1
    BY <2>1, AgentScanAssumption DEF ScanTyped
  <2>5. pc'[c] \notin Over /\ pc'[c] \notin {"returning", "ended"}
    BY <2>3 DEF Busy, Over
  <2>6. ASSUME NEW d \in Commands
        PROVE  /\ pc'[d] \notin Over => \A r \in sent' : r.run = d => ~r.final /\ r.batch < batch'[d]
               /\ pc'[d] \in {"returning", "ended"} => \E f \in sent' : f.run = d /\ f.final
               /\ \A k \in 1 .. batch'[d] - 1 : \E r \in sent' : r.run = d /\ ~r.final /\ r.batch = k
    <3>1. CASE d = c
      <4>1. \A r \in sent' : r.run = c => ~r.final /\ r.batch < batch'[c]
        <5>1. \A r \in sent : r.batch \in Int
          BY NumbersAreInt
        <5> QED BY <2>1, <2>2, <2>4, <5>1
      <4>2. ASSUME NEW k \in 1 .. batch'[c] - 1
            PROVE  \E r \in sent' : r.run = c /\ ~r.final /\ r.batch = k
        <5>1. k = batch[c] \/ k \in 1 .. batch[c] - 1
          BY <2>4
        <5> QED BY <1>0, <2>1, <2>2, <5>1
      <4> QED BY <2>5, <3>1, <4>1, <4>2
    <3>2. CASE d # c
      <4>1. pc'[d] = pc[d] /\ batch'[d] = batch[d]
        BY <2>3, <3>2
      <4> QED BY <1>0, <2>2, <3>2, <4>1
    <3> QED BY <3>1, <3>2
  <2> QED BY <2>2, <2>6 DEF SentInd
<1>8. ASSUME NEW c \in Commands, NEW m \in Results, Finishing(c, m)
      PROVE  SentInd'
  <2>1. Sends(c, m) /\ m.final /\ batch' = batch /\ Go(c, "returning")
    BY <1>8 DEF Finishing
  <2>2. /\ IsFiniteSet(sent') /\ sent' = sent \cup {m} /\ m.run = c /\ m.batch = batch[c]
        /\ \A f \in sent : f.run = c => ~f.final /\ f.batch < batch[c]
        /\ \A f, r \in sent' : f.final /\ r.run = f.run => r.batch <= f.batch /\ (r.final => r = f)
    BY <1>6, <2>1
  <2>3. pc'[c] = "returning" /\ \A d \in Commands \ {c} : pc'[d] = pc[d]
    BY <2>1, PlaceOf
  <2>4. "returning" \in Over
    BY DEF Over
  <2> QED BY <1>0, <2>1, <2>2, <2>3, <2>4 DEF SentInd
<1>9. ASSUME NEW i \in Conns, HandleCancel(i)
      PROVE  UNCHANGED <<pc, batch, sent>>
  BY <1>9 DEF HandleCancel, mail
<1> QED BY <1>2, <1>3, <1>4, <1>5, <1>7, <1>8, <1>9, ScansStay, StepKinds DEF Telling

LEMMA CoverInit ==
  ASSUME AgentScanInit
  PROVE  CoverInd
BY DEF AgentScanInit, CoverInd

LEMMA CoverIndKeeps ==
  ASSUME ScanTyped, CoverInd, [AgentScanNext]_agentScanVars
  PROVE  CoverInd'
<1>0. /\ \A c \in Commands : \A x \in scanned[c] \ {"nuclei"} : Reported(c, x)
      /\ \A f \in sent : f.final => \A x \in f.scanned \ {"nuclei"} : Reported(f.run, x)
  BY DEF CoverInd
<1>1. ASSUME sent' = sent, \A c \in Commands : scanned'[c] \subseteq scanned[c]
      PROVE  CoverInd'
  BY <1>0, <1>1 DEF CoverInd, Reported
<1>2. ASSUME UNCHANGED <<scanned, sent>>
      PROVE  CoverInd'
  BY <1>1, <1>2
<1>3. ASSUME NEW c \in Commands, NEW m \in Results, Reporting(c, m)
      PROVE  CoverInd'
  <2>1. sent' = sent \cup {m} /\ m.run = c /\ ~m.final
    BY <1>3 DEF Reporting, Sends
  <2>2. \A d \in Commands : \A x \in scanned'[d] : x \in scanned[d] \/ (d = c /\ x = m.of)
    BY <1>3 DEF Reporting, ScanTyped
  <2> QED BY <1>0, <2>1, <2>2 DEF CoverInd, Reported
<1>4. ASSUME NEW c \in Commands, NEW m \in Results, Finishing(c, m)
      PROVE  CoverInd'
  <2>1. sent' = sent \cup {m} /\ m.run = c /\ m.scanned \ {"nuclei"} \subseteq scanned[c] /\ scanned' = scanned
    BY <1>4 DEF Finishing, Sends
  <2> QED BY <1>0, <2>1 DEF CoverInd, Reported
<1>5. ASSUME NEW c \in Commands, Return(c)
      PROVE  CoverInd'
  <2>1. sent' = sent /\ \A d \in Commands : scanned'[d] \subseteq scanned[d]
    BY <1>5, SMTT(30) DEF Return, mail, ScanTyped
  <2> QED BY <1>1, <2>1
<1>6. ASSUME \/ Crash \/ \E i \in Conns : HandleScan(i) \/ HandleCancel(i)
             \/ \E c \in Commands : Register(c) \/ FallBack(c) \/ Moving(c)
      PROVE  UNCHANGED <<scanned, sent>>
  BY <1>6 DEF Crash, HandleScan, HandleCancel, Register, FallBack, Moving, Quiet, mail
<1> QED BY <1>2, <1>3, <1>4, <1>5, <1>6, ScansStay, StepKinds DEF Telling

-----------------------------------------------------------------------------
(* The map                                                                   *)

LEMMA MapInit ==
  ASSUME AgentScanInit
  PROVE  MapInd
BY AsksAre DEF AgentScanInit, MapInd, AloneIsCancellable, NoStaleCancel, Live

LEMMA ScanOfCancel ==
  ASSUME ScanTyped, NEW t \in Tasks, cancels[t] # NoScan
  PROVE  cancels[t][1] \in Commands
BY DEF ScanTyped

LEMMA MapIndKeeps ==
  ASSUME LinkTyped, ScanTyped, InboxInd, MapInd, [AgentScanNext]_agentScanVars
  PROVE  MapInd'
<1>0. /\ \A t \in Tasks : cancels[t] # NoScan => cancels[t][1] \in Commands /\ cancels[t][1].task = t /\ Live(cancels[t][1])
      /\ \A c \in Commands :
           Live(c) /\ pc[c] \notin {"spawned", "returning"} /\ c \notin usurped => cancels[c.task] = <<c, depth[c]>>
  BY ScanOfCancel DEF MapInd, AloneIsCancellable, NoStaleCancel
\* The map stays, and so does whether a scan is live; one only begins or returns.
<1>1. ASSUME UNCHANGED <<depth, cancels, usurped>>,
             \A c \in Commands : \/ pc'[c] = pc[c]
                                 \/ ~Live(c) /\ pc'[c] = "spawned"
                                 \/ pc[c] \in Busy /\ pc'[c] \in Busy \cup {"returning"}
      PROVE  MapInd'
  <2>1. \A c \in Commands : /\ Live(c) => Live(c)'
                            /\ (Live(c) /\ pc[c] \notin {"spawned", "returning"})' =>
                                  Live(c) /\ pc[c] \notin {"spawned", "returning"}
    BY <1>1 DEF Live, Busy
  <2>2. ASSUME NEW t \in Tasks, cancels'[t] # NoScan
        PROVE  (cancels[t][1].task = t /\ Live(cancels[t][1]))'
    <3>1. cancels' = cancels /\ cancels[t] # NoScan
      BY <1>1, <2>2
    <3>2. PICK s \in Commands : s = cancels[t][1] /\ s.task = t /\ Live(s)
      BY <1>0, <3>1
    <3>3. Live(s)'
      BY <2>1, <3>2
    <3> QED BY <3>1, <3>2, <3>3 DEF Live
  <2>3. ASSUME NEW c \in Commands, Live(c)', pc'[c] \notin {"spawned", "returning"}, c \notin usurped'
        PROVE  cancels'[c.task] = <<c, depth'[c]>>
    <3>1. cancels[c.task] = <<c, depth[c]>>
      BY <1>0, <1>1, <2>1, <2>3
    <3> QED BY <1>1, <3>1
  <2> QED BY <2>2, <2>3 DEF MapInd, AloneIsCancellable, NoStaleCancel
<1>2. CASE UNCHANGED <<pc, depth, cancels, usurped>>
  BY <1>1, <1>2
<1>3. CASE Crash
  <2>1. /\ \A t \in Tasks : cancels'[t] = NoScan
        /\ \A c \in Commands : pc'[c] \in {"none", "ended", "killed"}
    BY <1>3 DEF Crash
  <2> QED BY <2>1 DEF MapInd, AloneIsCancellable, NoStaleCancel, Live
<1>4. ASSUME NEW i \in Conns, HandleScan(i)
      PROVE  MapInd'
  <2>1. /\ UNCHANGED <<depth, cancels, usurped>> /\ Head(inbox[i]) \in Commands
        /\ pc' = [pc EXCEPT ![Head(inbox[i])] = "spawned"]
    BY <1>4 DEF HandleScan
  <2>2. pc[Head(inbox[i])] = "none"
    <3>1. inbox[i] \in Seq(Asks) /\ inbox[i] # <<>>
      BY <1>4 DEF HandleScan, LinkTyped
    <3>2. 1 \in DOMAIN inbox[i] /\ inbox[i][1] = Head(inbox[i])
      BY <3>1, TailAt
    <3> QED BY <2>1, <3>2 DEF InboxInd
  <2>3. \A c \in Commands : pc'[c] = pc[c] \/ (~Live(c) /\ pc'[c] = "spawned")
    BY <2>1, <2>2 DEF ScanTyped, Live
  <2> QED BY <1>1, <2>1, <2>3
<1>5. ASSUME NEW c \in Commands, Register(c)
      PROVE  MapInd'
  <2>1. /\ pc[c] = "spawned" /\ c.task \in Tasks /\ cancels' = [cancels EXCEPT ![c.task] = <<c, depth[c]>>]
        /\ usurped' = usurped \cup Siblings(c) /\ UNCHANGED depth
    BY <1>5, AsksAre DEF Register
  <2>2. pc'[c] = "guard" /\ \A d \in Commands \ {c} : pc'[d] = pc[d]
    BY <1>5, PlaceOf DEF Register
  <2>3. cancels'[c.task] = <<c, depth[c]>> /\ \A t \in Tasks \ {c.task} : cancels'[t] = cancels[t]
    BY <2>1 DEF ScanTyped
  <2>4. Live(c)' /\ \A d \in Commands \ {c} : Live(d)' = Live(d)
    BY <2>1, <2>2 DEF Live
  <2>5. ASSUME NEW t \in Tasks, cancels'[t] # NoScan
        PROVE  \E s \in Commands : cancels'[t][1] = s /\ s.task = t /\ Live(s)'
    <3>1. CASE t = c.task
      <4>1. cancels'[t][1] = c
        BY <2>3, <3>1
      <4> QED BY <2>4, <3>1, <4>1
    <3>2. CASE t # c.task
      <4>1. cancels'[t] = cancels[t] /\ cancels[t][1] \in Commands \ {c} /\ cancels[t][1].task = t /\ Live(cancels[t][1])
        BY <1>0, <2>3, <2>5, <3>2
      <4> QED BY <2>4, <4>1
    <3> QED BY <3>1, <3>2
  <2>6. ASSUME NEW d \in Commands, Live(d)', pc'[d] \notin {"spawned", "returning"}, d \notin usurped'
        PROVE  cancels'[d.task] = <<d, depth'[d]>>
    <3>1. CASE d = c
      BY <2>1, <2>3, <3>1
    <3>2. CASE d # c
      <4>1. Live(d) /\ pc[d] \notin {"spawned", "returning"} /\ d \notin usurped /\ d \notin Siblings(c)
        BY <2>1, <2>2, <2>4, <2>6, <3>2
      <4>2. d.task # c.task /\ d.task \in Tasks
        BY <3>2, <4>1, AsksAre DEF Siblings
      <4>3. cancels[d.task] = <<d, depth[d]>>
        BY <1>0, <4>1
      <4>4. cancels'[d.task] = cancels[d.task] /\ depth'[d] = depth[d]
        BY <2>1, <2>3, <4>2
      <4> QED BY <4>3, <4>4
    <3> QED BY <3>1, <3>2
  <2> QED BY <2>5, <2>6 DEF MapInd, AloneIsCancellable, NoStaleCancel
<1>6. ASSUME NEW c \in Commands, FallBack(c)
      PROVE  MapInd'
  <2>1. pc[c] = "nuclei" /\ UNCHANGED <<cancels, usurped>> /\ depth' = [depth EXCEPT ![c] = 2]
    BY <1>6 DEF FallBack
  <2>2. pc'[c] = "spawned" /\ \A d \in Commands \ {c} : pc'[d] = pc[d]
    BY <1>6, PlaceOf DEF FallBack
  <2>3. depth'[c] = 2 /\ \A d \in Commands \ {c} : depth'[d] = depth[d]
    BY <2>1 DEF ScanTyped
  <2>4. Live(c)' /\ \A d \in Commands \ {c} : Live(d)' = Live(d)
    BY <2>2, <2>3 DEF Live
  <2>5. ASSUME NEW t \in Tasks, cancels'[t] # NoScan
        PROVE  \E s \in Commands : cancels'[t][1] = s /\ s.task = t /\ Live(s)'
    BY <1>0, <2>1, <2>4, <2>5
  <2>6. ASSUME NEW d \in Commands, Live(d)', pc'[d] \notin {"spawned", "returning"}, d \notin usurped'
        PROVE  cancels'[d.task] = <<d, depth'[d]>>
    <3>1. d # c
      BY <2>2, <2>6
    <3>2. Live(d) /\ pc[d] \notin {"spawned", "returning"} /\ d \notin usurped
      BY <2>1, <2>2, <2>4, <2>6, <3>1
    <3>3. cancels[d.task] = <<d, depth[d]>>
      BY <1>0, <3>2
    <3>4. cancels' = cancels /\ depth'[d] = depth[d]
      BY <2>1, <2>3, <3>1
    <3> QED BY <3>3, <3>4
  <2> QED BY <2>5, <2>6 DEF MapInd, AloneIsCancellable, NoStaleCancel
<1>7. ASSUME NEW c \in Commands, Return(c)
      PROVE  MapInd'
  <2>1. /\ pc[c] = "returning" /\ c.task \in Tasks /\ cancels' = [cancels EXCEPT ![c.task] = NoScan]
        /\ usurped' = (usurped \ {c}) \cup Siblings(c) /\ depth' = [depth EXCEPT ![c] = 1]
    BY <1>7, AsksAre DEF Return
  <2>2. pc'[c] \in {"returning", "ended"} /\ \A d \in Commands \ {c} : pc'[d] = pc[d]
    BY <1>7, PlaceOf DEF Return
  <2>3. \A d \in Commands \ {c} : depth'[d] = depth[d]
    BY <2>1 DEF ScanTyped
  <2>4. cancels'[c.task] = NoScan /\ \A t \in Tasks \ {c.task} : cancels'[t] = cancels[t]
    BY <2>1 DEF ScanTyped
  <2>5. \A d \in Commands \ {c} : Live(d)' = Live(d)
    BY <2>2, <2>3 DEF Live
  <2>6. ASSUME NEW t \in Tasks, cancels'[t] # NoScan
        PROVE  \E s \in Commands : cancels'[t][1] = s /\ s.task = t /\ Live(s)'
    <3>1. t # c.task /\ cancels'[t] = cancels[t]
      BY <2>4, <2>6
    <3>2. cancels[t][1] \in Commands \ {c} /\ cancels[t][1].task = t /\ Live(cancels[t][1])
      BY <1>0, <2>6, <3>1
    <3> QED BY <2>5, <3>1, <3>2
  <2>7. ASSUME NEW d \in Commands, Live(d)', pc'[d] \notin {"spawned", "returning"}, d \notin usurped'
        PROVE  cancels'[d.task] = <<d, depth'[d]>>
    <3>1. d # c
      BY <2>2, <2>7 DEF Live
    <3>2. Live(d) /\ pc[d] \notin {"spawned", "returning"} /\ d \notin usurped /\ d \notin Siblings(c)
      BY <2>1, <2>2, <2>5, <2>7, <3>1
    <3>3. d.task # c.task /\ d.task \in Tasks
      BY <3>1, <3>2, AsksAre DEF Siblings
    <3>4. cancels[d.task] = <<d, depth[d]>>
      BY <1>0, <3>2
    <3>5. cancels'[d.task] = cancels[d.task] /\ depth'[d] = depth[d]
      BY <2>3, <2>4, <3>1, <3>3
    <3> QED BY <3>4, <3>5
  <2> QED BY <2>6, <2>7 DEF MapInd, AloneIsCancellable, NoStaleCancel
<1>8. ASSUME NEW c \in Commands, Moving(c) \/ Telling(c)
      PROVE  MapInd'
  <2>1. UNCHANGED <<depth, cancels, usurped>> /\ pc[c] \in Busy /\ \E to \in Busy \cup {"returning"} : Go(c, to)
    BY <1>8 DEF Moving, Telling, Reporting, Finishing, Sends, Still
  <2>2. pc'[c] \in Busy \cup {"returning"} /\ \A d \in Commands \ {c} : pc'[d] = pc[d]
    BY <2>1, PlaceOf
  <2> QED BY <1>1, <2>1, <2>2
<1>9. ASSUME NEW i \in Conns, HandleCancel(i)
      PROVE  UNCHANGED <<pc, depth, cancels, usurped>>
  BY <1>9 DEF HandleCancel
<1> QED BY <1>2, <1>3, <1>4, <1>5, <1>6, <1>7, <1>8, <1>9, ScansStay, StepKinds

-----------------------------------------------------------------------------
(* The first connection                                                      *)

LEMMA FirstInit ==
  ASSUME AgentScanInit
  PROVE  FirstInd
BY DEF AgentScanInit, FirstInd, FirstTime

\* What is kept stays kept.
LEMMA KeptStays ==
  ASSUME UNCHANGED saved, NEW m
  PROVE  Kept(m)' <=> Kept(m)
BY DEF Kept

\* What is in a place was sent.
LEMMA PlacedWereSent ==
  ASSUME MailInd
  PROVE  /\ \A i \in Conns : \A k \in DOMAIN wire[i] : wire[i][k] \in sent
         /\ \A c \in Commands : \A k \in DOMAIN saved[c] : saved[c][k] \in sent /\ saved[c][k].run = c
<1> DEFINE B == Boxes(outbox, wire, replay, saved)
<1>1. WereSent(B, sent) /\ \A c \in Commands : \A k \in DOMAIN saved[c] : saved[c][k].run = c
  BY DEF MailInd, OnceInd
<1>2. /\ B[<<"outbox", 0>>] = outbox
      /\ \A j \in Conns : B[<<"wire", j>>] = wire[j] /\ B[<<"replay", j>>] = replay[j]
      /\ \A c \in Commands : B[<<"saved", c>>] = saved[c]
  BY BoxesAre
<1> HIDE DEF B
<1>3. ASSUME NEW i \in Conns, NEW k \in DOMAIN wire[i]
      PROVE  wire[i][k] \in sent
  <2>1. <<"wire", i>> \in BoxIds /\ k \in DOMAIN B[<<"wire", i>>] /\ B[<<"wire", i>>][k] = wire[i][k]
    BY <1>2, <1>3, BoxIdsAre
  <2> QED BY <1>1, <2>1 DEF WereSent
<1>4. ASSUME NEW c \in Commands, NEW k \in DOMAIN saved[c]
      PROVE  saved[c][k] \in sent
  <2>1. <<"saved", c>> \in BoxIds /\ k \in DOMAIN B[<<"saved", c>>] /\ B[<<"saved", c>>][k] = saved[c][k]
    BY <1>2, <1>4, BoxIdsAre
  <2> QED BY <1>1, <2>1 DEF WereSent
<1> QED BY <1>1, <1>3, <1>4

LEMMA OrderedStays ==
  ASSUME Ordered, UNCHANGED <<up, wire, replay, outbox, saved, sent>>
  PROVE  Ordered'
BY DEF Ordered, Kept

\* The connection breaks: what was written last is lost.
LEMMA BreakKeepsOrder ==
  ASSUME LinkTyped, MailInd, Ordered, Break
  PROVE  Ordered'
<1>1. 1 \in Conns /\ MailTyped
  BY AgentScanAssumption DEF MailInd, Conns
<1>2. /\ UNCHANGED <<saved, sent>> /\ up' = NoConn
      /\ \A k \in DOMAIN wire'[1] : k \in DOMAIN wire[1] /\ wire'[1][k] = wire[1][k]
  BY <1>1, BreakLoses DEF Break
<1>3. \A k \in DOMAIN wire'[1] : \A j \in 1 .. k : j \in DOMAIN wire'[1]
  <2>1. wire'[1] \in Seq(Results)
    BY <1>1, BreakLoses
  <2> QED BY <2>1
<1>4. \A k \in DOMAIN wire'[1] : wire'[1][k].final =>
        \A m \in sent : m.run = wire'[1][k].run => Kept(m) \/ \E j \in 1 .. k : wire'[1][j] = m
  BY <1>2, <1>3 DEF Ordered
<1> QED BY <1>2, <1>4 DEF Ordered, Kept

\* The queue is empty when it is popped, or the connection is down.
LEMMA PopKeepsOrder ==
  ASSUME MailInd, Ordered, NEW i \in Conns, PopAll(i)
  PROVE  Ordered'
<1>1. 1 \in Conns /\ MailTyped
  BY AgentScanAssumption DEF MailInd, Conns
<1>2. replay' = [replay EXCEPT ![i] = outbox] /\ outbox' = <<>> /\ UNCHANGED <<up, wire, saved, sent>>
  BY DEF PopAll, link
<1>3. outbox = <<>> /\ replay[1] = <<>> => replay'[1] = <<>>
  BY <1>1, <1>2 DEF MailTyped
<1> QED BY <1>2, <1>3 DEF Ordered, Kept

LEMMA ResendKeepsOrder ==
  ASSUME LinkTyped, MailInd, LinkInd, FirstTime, Ordered, NEW i \in Conns, Resend(i)
  PROVE  Ordered'
<1>1. replay[i] # <<>> /\ Send(Head(replay[i])) /\ UNCHANGED <<conn, up, saved, sent>>
  BY DEF Resend, link
<1>2. i = 1
  BY <1>1 DEF LinkInd, FirstTime, Conns
<1>3. up = NoConn
  BY <1>1, <1>2 DEF Ordered
<1>4. wire' = wire
  BY <1>1, <1>3, SendWhere, NoConnIsNone DEF MailInd
<1> QED BY <1>1, <1>3, <1>4 DEF Ordered, Kept

\* The console saves what was written first.
LEMMA SaveKeepsOrder ==
  ASSUME LinkTyped, ScanTyped, MailInd, LinkInd, FirstTime, Ordered, NEW i \in Conns, Save(i)
  PROVE  Ordered'
<1>0. PICK h : h = Head(wire[1])
  OBVIOUS
<1>1. i = 1
  BY DEF Save, LinkInd, FirstTime, Conns
<1>2. /\ wire[1] # <<>> /\ wire' = [wire EXCEPT ![1] = Tail(@)] /\ saved' = [saved EXCEPT ![h.run] = Append(@, h)]
      /\ UNCHANGED <<up, replay, outbox, sent>>
  BY <1>0, <1>1 DEF Save, link
<1>3. 1 \in Conns /\ MailTyped /\ wire[1] \in Seq(Results)
  BY <1>1 DEF MailInd, MailTyped
<1>4. /\ h \in Results /\ wire[1][1] = h /\ 1 \in DOMAIN wire[1] /\ wire'[1] = Tail(wire[1])
      /\ \A k \in DOMAIN Tail(wire[1]) : k \in Nat /\ k + 1 \in DOMAIN wire[1] /\ Tail(wire[1])[k] = wire[1][k + 1]
      /\ \A k \in DOMAIN wire[1] : k = 1 \/ (k - 1 \in DOMAIN Tail(wire[1]) /\ Tail(wire[1])[k - 1] = wire[1][k])
      /\ \A k \in DOMAIN wire[1] : k \in Nat /\ 1 <= k
  <2>1. wire'[1] = Tail(wire[1])
    BY <1>2, <1>3 DEF MailTyped
  <2> QED BY <1>0, <1>2, <1>3, <2>1, TailAt, PlacesAreNat
<1>5. h.run \in Commands
  BY <1>4 DEF Results
<1>6. /\ saved \in [Commands -> Seq(Results)]
      /\ saved'[h.run] = Append(saved[h.run], h) /\ \A c \in Commands \ {h.run} : saved'[c] = saved[c]
  BY <1>2, <1>3, <1>5 DEF MailTyped
<1>7. ASSUME NEW c \in Commands
      PROVE  \A k \in DOMAIN saved[c] : k \in DOMAIN saved'[c] /\ saved'[c][k] = saved[c][k]
  <2>1. CASE c = h.run
    <3>1. saved[c] \in Seq(Results)
      BY <1>6
    <3> QED BY <1>4, <1>6, <2>1, <3>1, AppendAt
  <2>2. CASE c # h.run
    BY <1>6, <2>2
  <2> QED BY <2>1, <2>2
<1>8. LET n == Len(saved[h.run]) + 1
      IN /\ n \in DOMAIN saved'[h.run] /\ saved'[h.run][n] = h /\ n \in Nat
         /\ \A k \in DOMAIN saved'[h.run] : k \in DOMAIN saved[h.run] \/ k = n
         /\ \A k \in DOMAIN saved[h.run] : k \in 1 .. n
  <2>1. saved[h.run] \in Seq(Results)
    BY <1>5, <1>6
  <2>2. Len(saved[h.run]) \in Nat /\ DOMAIN saved[h.run] = 1 .. Len(saved[h.run])
    BY <2>1, PlacesAreNat
  <2> QED BY <1>4, <1>6, <2>1, <2>2, AppendAt
<1>9. \A m \in sent : m.run \in Commands
  <2>1. \A m \in Results : m.run \in Commands
    BY DEF Results
  <2> QED BY <2>1 DEF ScanTyped
<1>10. (\A m \in sent : Kept(m) => Kept(m)') /\ Kept(h)'
  <2>1. Kept(h)'
    BY <1>8 DEF Kept
  <2>2. ASSUME NEW m \in sent, Kept(m) PROVE Kept(m)'
    BY <1>7, <1>9, <2>2 DEF Kept
  <2> QED BY <2>1, <2>2
<1>11. ASSUME up' # NoConn
       PROVE  /\ outbox' = <<>> /\ replay'[1] = <<>>
              /\ \A m \in sent : Kept(m)' \/ \E j \in DOMAIN wire'[1] : wire'[1][j] = m
  <2>1. outbox = <<>> /\ replay[1] = <<>> /\ \A m \in sent : Kept(m) \/ \E j \in DOMAIN wire[1] : wire[1][j] = m
    BY <1>2, <1>11 DEF Ordered
  <2>2. ASSUME NEW j \in DOMAIN wire[1]
        PROVE  wire[1][j] = h \/ \E k \in DOMAIN wire'[1] : wire'[1][k] = wire[1][j]
    <3>1. j = 1 \/ (j - 1 \in DOMAIN Tail(wire[1]) /\ Tail(wire[1])[j - 1] = wire[1][j])
      BY <1>4
    <3>2. CASE j = 1
      BY <1>4, <3>2
    <3>3. CASE j - 1 \in DOMAIN Tail(wire[1]) /\ Tail(wire[1])[j - 1] = wire[1][j]
      <4>1. j - 1 \in DOMAIN wire'[1] /\ wire'[1][j - 1] = wire[1][j]
        BY <1>4, <3>3
      <4> QED BY <4>1
    <3> QED BY <3>1, <3>2, <3>3
  <2> QED BY <1>2, <1>10, <2>1, <2>2
<1>12. ASSUME NEW k \in DOMAIN wire'[1], wire'[1][k].final, NEW m \in sent, m.run = wire'[1][k].run
       PROVE  Kept(m)' \/ \E j \in 1 .. k : wire'[1][j] = m
  <2>1. k \in Nat /\ k + 1 \in DOMAIN wire[1] /\ wire'[1][k] = wire[1][k + 1]
    BY <1>4, <1>12
  <2>2. Kept(m) \/ \E j \in 1 .. k + 1 : wire[1][j] = m
    BY <1>12, <2>1 DEF Ordered
  <2>3. ASSUME NEW j \in 1 .. k + 1, wire[1][j] = m
        PROVE  m = h \/ \E l \in 1 .. k : wire'[1][l] = m
    <3>1. j \in DOMAIN wire[1]
      <4>1. DOMAIN wire[1] = 1 .. Len(wire[1]) /\ Len(wire[1]) \in Nat
        BY <1>3, PlacesAreNat
      <4> QED BY <2>1, <4>1
    <3>2. j = 1 \/ (j - 1 \in DOMAIN Tail(wire[1]) /\ Tail(wire[1])[j - 1] = wire[1][j])
      BY <1>4, <3>1
    <3>3. CASE j = 1
      BY <1>4, <2>3, <3>3
    <3>4. CASE j # 1
      <4>1. wire'[1][j - 1] = m
        BY <1>4, <2>3, <3>2, <3>4
      <4>2. j - 1 \in 1 .. k
        BY <2>1, <3>4
      <4> QED BY <4>1, <4>2
    <3> QED BY <3>3, <3>4
  <2> QED BY <1>10, <2>2, <2>3
<1>13. ASSUME NEW c \in Commands, NEW k \in DOMAIN saved'[c], saved'[c][k].final, NEW m \in sent, m.run = c
       PROVE  \E j \in 1 .. k : saved'[c][j] = m
  <2>1. CASE k \in DOMAIN saved[c]
    <3>1. \E j \in 1 .. k : saved[c][j] = m
      BY <1>7, <1>13, <2>1 DEF Ordered
    <3>2. \A j \in 1 .. k : j \in DOMAIN saved[c]
      <4>1. saved[c] \in Seq(Results)
        BY <1>6
      <4>2. DOMAIN saved[c] = 1 .. Len(saved[c]) /\ Len(saved[c]) \in Nat
        BY <4>1, PlacesAreNat
      <4> QED BY <2>1, <4>2
    <3> QED BY <1>7, <3>1, <3>2
  <2>2. CASE k \notin DOMAIN saved[c]
    <3>1. c = h.run
      BY <1>6, <1>13, <2>2
    <3>2. /\ k = Len(saved[h.run]) + 1 /\ saved'[c][k] = h /\ k \in Nat
          /\ \A j \in DOMAIN saved[c] : j \in 1 .. k
      BY <1>8, <1>13, <2>2, <3>1
    <3>3. Kept(m) \/ \E j \in 1 .. 1 : wire[1][j] = m
      BY <1>4, <1>13, <3>1, <3>2 DEF Ordered
    <3>4. CASE Kept(m)
      BY <1>7, <1>13, <3>2, <3>4 DEF Kept
    <3>5. CASE wire[1][1] = m
      <4>1. k \in 1 .. k
        BY <1>8, <3>1, <3>2
      <4> QED BY <1>4, <3>2, <3>5, <4>1
    <3> QED BY <3>3, <3>4, <3>5
  <2> QED BY <2>1, <2>2
<1>14. sent' = sent
  BY <1>2
<1> QED BY <1>11, <1>12, <1>13, <1>14 DEF Ordered

\* A scan sends: no final result of its was sent, and its own comes after the others.
LEMMA TellingKeepsOrder ==
  ASSUME LinkTyped, ScanTyped, MailInd, LinkInd, SentInd, FirstTime, Ordered,
         NEW c \in Commands, NEW m \in Results, Sends(c, m)
  PROVE  Ordered'
<1>1. /\ Send(m) /\ sent' = sent \cup {m} /\ m.run = c /\ UNCHANGED <<up, replay, saved>>
      /\ \A f \in sent : f.run = c => ~f.final
  BY SendsNew DEF Sends, Still, link
<1>2. /\ \A k \in DOMAIN wire[1] : wire[1][k] \in sent
      /\ \A d \in Commands : \A k \in DOMAIN saved[d] : saved[d][k] \in sent /\ saved[d][k].run = d
      /\ 1 \in Conns /\ MailTyped
  BY PlacedWereSent, AgentScanAssumption DEF Conns, MailInd
<1>3. \A d \in Commands : \A k \in DOMAIN saved[d] : saved[d][k].final =>
        \A r \in sent' : r.run = d => \E j \in 1 .. k : saved[d][j] = r
  BY <1>1, <1>2 DEF Ordered
<1>4. \A r : Kept(r)' <=> Kept(r)
  BY <1>1 DEF Kept
<1>5. \A k \in DOMAIN wire[1] : wire[1][k].final =>
        \A r \in sent' : r.run = wire[1][k].run => Kept(r) \/ \E j \in 1 .. k : wire[1][j] = r
  BY <1>1, <1>2 DEF Ordered
<1>6. CASE up = NoConn
  <2>1. wire' = wire
    BY <1>1, <1>2, <1>6, SendWhere, NoConnIsNone
  <2> QED BY <1>1, <1>3, <1>4, <1>5, <1>6, <2>1 DEF Ordered
<1>7. CASE up # NoConn
  <2>1. conn = 1 /\ up = 1
    BY <1>7 DEF LinkInd, FirstTime
  <2>2. outbox' = outbox /\ wire' = [wire EXCEPT ![1] = Append(@, m)]
    BY <1>1, <1>2, <2>1, SendWhere, NoConnIsNone
  <2>3. wire[1] \in Seq(Results) /\ wire'[1] = Append(wire[1], m)
    BY <1>2, <2>2 DEF MailTyped
  <2> DEFINE n == Len(wire[1]) + 1
  <2>4. /\ n \in DOMAIN wire'[1] /\ wire'[1][n] = m
        /\ \A k \in DOMAIN wire[1] : k \in DOMAIN wire'[1] /\ wire'[1][k] = wire[1][k] /\ k \in 1 .. n
        /\ \A k \in DOMAIN wire'[1] : k \in DOMAIN wire[1] \/ k = n
        /\ \A k \in DOMAIN wire[1] : \A j \in 1 .. k : j \in DOMAIN wire[1]
        /\ n \in 1 .. n
    <3>1. /\ n \in DOMAIN wire'[1] /\ wire'[1][n] = m
          /\ \A k \in DOMAIN wire[1] : k \in DOMAIN wire'[1] /\ wire'[1][k] = wire[1][k]
          /\ \A k \in DOMAIN wire'[1] : k \in DOMAIN wire[1] \/ k = n
      BY <2>3, AppendAt
    <3>2. DOMAIN wire[1] = 1 .. Len(wire[1]) /\ Len(wire[1]) \in Nat
      BY <2>3, PlacesAreNat
    <3> QED BY <3>1, <3>2
  <2> HIDE DEF n
  <2>5. outbox = <<>> /\ replay[1] = <<>> /\ \A r \in sent : Kept(r) \/ \E j \in DOMAIN wire[1] : wire[1][j] = r
    BY <1>7 DEF Ordered
  <2>6. \A r \in sent' : Kept(r)' \/ \E j \in DOMAIN wire'[1] : wire'[1][j] = r /\ j \in 1 .. n
    BY <1>1, <1>4, <2>4, <2>5
  <2>7. ASSUME NEW k \in DOMAIN wire'[1], wire'[1][k].final, NEW r \in sent', r.run = wire'[1][k].run
        PROVE  Kept(r)' \/ \E j \in 1 .. k : wire'[1][j] = r
    <3>1. CASE k = n
      BY <2>6, <2>7, <3>1
    <3>2. CASE k \in DOMAIN wire[1]
      <4>1. Kept(r) \/ \E j \in 1 .. k : wire[1][j] = r
        BY <1>5, <2>4, <2>7, <3>2
      <4> QED BY <1>4, <2>4, <3>2, <4>1
    <3> QED BY <2>4, <2>7, <3>1, <3>2
  <2> QED BY <1>1, <1>3, <2>2, <2>5, <2>6, <2>7 DEF Ordered
<1> QED BY <1>6, <1>7

LEMMA CountersStay ==
  \A c : Register(c) \/ FallBack(c) \/ Return(c) \/ Moving(c) \/ Telling(c) => dialed' = dialed /\ faults' = faults
BY LinkStays

LEMMA FirstIndKeeps ==
  ASSUME LinkTyped, ScanTyped, MailInd, LinkInd, SentInd, FirstInd, [AgentScanNext]_agentScanVars
  PROVE  FirstInd'
<1>1. SUFFICES ASSUME FirstTime' PROVE Ordered'
  BY DEF FirstInd
<1>2. 1 \in Conns /\ dialed \in Nat /\ faults \in Nat
  BY AgentScanAssumption DEF LinkTyped, Conns
\* The first connection is being dialed: nothing was sent yet.
<1>3. CASE Dial
  <2>1. dialed = 0 /\ UNCHANGED <<wire, replay, outbox, saved, sent>>
    BY <1>1, <1>2, <1>3 DEF Dial, FirstTime
  <2>2. sent = {} /\ outbox = <<>> /\ replay[1] = <<>>
    BY <1>2, <2>1 DEF LinkInd
  <2>3. (\A k : k \notin DOMAIN wire[1]) /\ \A c \in Commands : \A k : k \notin DOMAIN saved[c]
    BY <1>2, <2>2, PlacedWereSent
  <2> QED BY <2>1, <2>2, <2>3 DEF Ordered
\* No fault: neither a crash nor a queue or a result that could not be dealt with.
<1>4. ~Crash /\ \A i \in Conns : ~SaveFails(i) /\ ~PopFails(i)
  BY <1>1, <1>2 DEF Crash, SaveFails, PopFails, Fault, FirstTime
<1>5. SUFFICES ASSUME UNCHANGED <<dialed, faults>> PROVE Ordered'
  <2>1. ASSUME NEW c \in Commands, Register(c) \/ FallBack(c) \/ Return(c) \/ Moving(c) \/ Telling(c)
        PROVE  dialed' = dialed /\ faults' = faults
    BY <2>1, CountersStay, Zenon
  <2>2. ASSUME NEW i \in Conns, PopAll(i) \/ Resend(i) \/ Save(i) \/ HandleScan(i) \/ HandleCancel(i)
        PROVE  UNCHANGED <<dialed, faults>>
    BY <2>2 DEF PopAll, Resend, Save, HandleScan, HandleCancel, link
  <2>3. ASSUME Break \/ ReadError \/ ReadDeadline \/ UNCHANGED agentScanVars \/ \E m \in Asks : Ask(m)
        PROVE  UNCHANGED <<dialed, faults>>
    BY <2>3 DEF Break, ReadError, ReadDeadline, agentScanVars, Ask, link
  <2>4. ASSUME NEW i \in Conns, MailStep(i)
        PROVE  UNCHANGED <<dialed, faults>>
    BY <1>4, <2>2, <2>4 DEF MailStep
  <2>5. CASE Dial
    BY <1>3, <2>5
  <2>6. CASE UNCHANGED <<dialed, faults>>
    BY <1>5, <2>6
  <2>7. CASE LinkStep
    BY <2>3, <2>5, <2>6, <2>7 DEF LinkStep
  <2> QED BY <1>4, <2>1, <2>2, <2>3, <2>4, <2>6, <2>7, StepKinds
<1>6. FirstTime /\ Ordered
  BY <1>1, <1>5 DEF FirstTime, FirstInd
<1>7. CASE UNCHANGED <<up, wire, replay, outbox, saved, sent>>
  BY <1>6, <1>7, OrderedStays
<1>8. CASE Break
  BY <1>6, <1>8, BreakKeepsOrder
<1>9. ASSUME NEW i \in Conns, PopAll(i) \/ Resend(i) \/ Save(i)
      PROVE  Ordered'
  BY <1>6, <1>9, PopKeepsOrder, ResendKeepsOrder, SaveKeepsOrder, SMTT(30)
<1>10. ASSUME NEW c \in Commands, Telling(c)
       PROVE  Ordered'
  BY <1>6, <1>10, TellingKeepsOrder, SMTT(30) DEF Telling, Reporting, Finishing
<1>11. ASSUME \/ ReadError \/ ReadDeadline \/ UNCHANGED agentScanVars \/ \E m \in Asks : Ask(m)
              \/ \E i \in Conns : HandleScan(i) \/ HandleCancel(i)
       PROVE  UNCHANGED <<up, wire, replay, outbox, saved, sent>>
  BY <1>11 DEF ReadError, ReadDeadline, agentScanVars, Ask, HandleScan, HandleCancel, link, mail
<1>12. ASSUME NEW c \in Commands, Register(c) \/ FallBack(c) \/ Return(c) \/ Moving(c)
       PROVE  UNCHANGED <<up, wire, replay, outbox, saved, sent>>
  BY <1>12, LinkStays, QuietStays
<1> QED BY <1>3, <1>4, <1>7, <1>8, <1>9, <1>10, <1>11, <1>12, StepKinds DEF LinkStep, MailStep

-----------------------------------------------------------------------------
(* The theorem                                                               *)

LEMMA AgentScanInductive ==
  ASSUME AgentScanInd, [AgentScanNext]_agentScanVars
  PROVE  AgentScanInd'
BY ScanTypedKeeps, LinkTypedKeeps, MailIndKeeps, LinkIndKeeps, InboxIndKeeps, SentIndKeeps, CoverIndKeeps,
   FirstIndKeeps, MapIndKeeps DEF AgentScanInd, MailInd

LEMMA AgentScanBegins ==
  ASSUME AgentScanInit
  PROVE  AgentScanInd
BY ScanTypedInit, LinkTypedInit, MailInit, LinkIndInit, InboxInit, SentInit, CoverInit, FirstInit, MapInit
   DEF AgentScanInd

LEMMA AgentScanSuffices ==
  ASSUME AgentScanInd
  PROVE  AgentScanInv
<1>0. LinkTyped /\ ScanTyped /\ MailInd /\ MailTyped /\ LinkInd /\ SentInd /\ CoverInd /\ FirstInd /\ MapInd
  BY DEF AgentScanInd, MailInd
<1>1. AgentScanTypeOK
  <2>1. \A S : \A s \in Seq(S) : Range(s) \subseteq S
    BY DEF Range
  <2>2. \A i \in Conns : /\ inbox[i] \in Seq(Asks)
                         /\ wire[i] \in Seq(Results) /\ replay[i] \in Seq(Results)
    BY <1>0 DEF LinkTyped, MailTyped
  <2>3. outbox \in Seq(Results) /\ \A c \in Commands : saved[c] \in Seq(Results)
    BY <1>0 DEF MailTyped
  <2>4. /\ \A i \in Conns : Range(inbox[i]) \subseteq Asks /\ Range(wire[i]) \cup Range(replay[i]) \subseteq Results
        /\ Range(outbox) \subseteq Results /\ \A c \in Commands : Range(saved[c]) \subseteq Results
    BY <2>1, <2>2, <2>3
  <2> QED BY <1>0, <2>4 DEF AgentScanTypeOK, LinkTyped, ScanTyped
<1>2. SavedOnce
  <2>1. SUFFICES ASSUME NEW c \in Commands, NEW i \in DOMAIN saved[c], NEW j \in DOMAIN saved[c],
                        saved[c][i] = saved[c][j]
                 PROVE  i = j
    BY DEF SavedOnce, IsInjective
  <2> DEFINE B == Boxes(outbox, wire, replay, saved)
  <2>2. Once(B)
    BY <1>0 DEF MailInd, OnceInd
  <2>3. /\ B[<<"outbox", 0>>] = outbox
        /\ \A k \in Conns : B[<<"wire", k>>] = wire[k] /\ B[<<"replay", k>>] = replay[k]
        /\ \A d \in Commands : B[<<"saved", d>>] = saved[d]
    BY BoxesAre
  <2> HIDE DEF B
  <2>4. <<"saved", c>> \in BoxIds /\ B[<<"saved", c>>] = saved[c]
    BY <2>3, BoxIdsAre
  <2> QED BY <2>1, <2>2, <2>4 DEF Once
<1>3. OneFinal
  <2>1. SUFFICES ASSUME NEW c \in Commands
                 PROVE  /\ Cardinality(Finals(c)) <= 1
                        /\ pc[c] \in {"returning", "ended"} => Finals(c) # {}
                        /\ \A f \in Finals(c) : \A m \in sent : m.run = c => m.batch <= f.batch
    BY DEF OneFinal
  <2>2. Cardinality(Finals(c)) <= 1
    <3>1. CASE Finals(c) = {}
      BY <3>1, FS_EmptySet
    <3>2. CASE Finals(c) # {}
      <4>1. PICK f \in Finals(c) : TRUE
        BY <3>2
      <4>2. \A m \in Finals(c) : m = f
        BY <1>0, <4>1 DEF SentInd, Finals
      <4>3. Finals(c) = {f}
        BY <4>1, <4>2
      <4>4. Cardinality({f}) = 1
        BY FS_Singleton
      <4> QED BY <4>3, <4>4
    <3> QED BY <3>1, <3>2
  <2> QED BY <1>0, <2>2 DEF SentInd, Finals
<1>4. CoverageIsBacked
  <2>1. SUFFICES ASSUME NEW c \in Commands, NEW k \in DOMAIN saved[c], saved[c][k].final
                 PROVE  /\ \A x \in saved[c][k].scanned \ {"nuclei"} : \E m \in sent : m.run = c /\ m.of = x
                        /\ dialed = 1 /\ faults = 0 => {m \in sent : m.run = c} \subseteq Range(SubSeq(saved[c], 1, k))
    BY DEF CoverageIsBacked
  <2>2. saved[c][k] \in sent /\ saved[c][k].run = c
    BY <1>0, PlacedWereSent
  <2>3. \A x \in saved[c][k].scanned \ {"nuclei"} : \E m \in sent : m.run = c /\ m.of = x
    BY <1>0, <2>1, <2>2 DEF CoverInd, Reported
  <2>4. ASSUME FirstTime, NEW m \in sent, m.run = c
        PROVE  m \in Range(SubSeq(saved[c], 1, k))
    <3>1. PICK j \in 1 .. k : saved[c][j] = m
      BY <1>0, <2>1, <2>4 DEF FirstInd, Ordered
    <3>2. saved[c] \in Seq(Results)
      BY <1>0 DEF MailTyped
    <3>3. k \in 1 .. Len(saved[c]) /\ Len(saved[c]) \in Nat
      BY <3>2, PlacesAreNat
    <3>4. j \in DOMAIN SubSeq(saved[c], 1, k) /\ SubSeq(saved[c], 1, k)[j] = saved[c][j]
      BY <3>2, <3>3
    <3> QED BY <3>1, <3>4 DEF Range
  <2> QED BY <2>3, <2>4 DEF FirstTime
<1> QED BY <1>0, <1>1, <1>2, <1>3, <1>4 DEF AgentScanInv, LinkInd, MapInd

\* Whatever the number of connections, scans, batches and faults: no result is saved twice, a
\* scan sends one final result, what it says to have covered it has reported on, a lone scan
\* can be cancelled, no cancel function is left behind, and nothing stays in the queue of an
\* agent that is connected.  (client.go, queue.go, engine.go)
THEOREM AgentScanInvHolds == AgentScanSpec => []AgentScanInv
<1>1. AgentScanInit => AgentScanInd
  BY AgentScanBegins
<1>2. AgentScanInd /\ [AgentScanNext]_agentScanVars => AgentScanInd'
  BY AgentScanInductive
<1>3. AgentScanInd => AgentScanInv
  BY AgentScanSuffices
<1> QED BY <1>1, <1>2, <1>3, PTL DEF AgentScanSpec

(***************************************************************************)
(* Upgrade                                                                 *)
(***************************************************************************)

(* The console's record.  A caller whose view was not written over writes what  *)
(* the record allows.                                                            *)

Notices == [kind : {"ack", "beat"}, version : Versions, ok : BOOLEAN]
RouterChanges == [state : {"sent", "queued"}, target : Versions]
AckChanges == [state : {"restarting", "failed"}, ack : {TRUE}]
BeatChanges == [state : {"confirmed"}]
ChangesOf(p) == {<<>>} \cup (IF p = "router" THEN RouterChanges ELSE {})
                       \cup (IF p = "receiver" THEN AckChanges \cup BeatChanges ELSE {})

UpgradeTyped ==
  /\ packaged \in Versions /\ known \in Versions /\ record \in Records
  /\ at \in [Callers -> {"idle", "get", "put", "read", "write"}]
  /\ at["router"] \notin {"get", "put"}
  /\ snap \in [Callers -> Records]
  /\ DOMAIN change = Callers /\ \A p \in Callers : change[p] \in ChangesOf(p)
  /\ received \in Seq(Upgrades) /\ parked \in {None} \cup Upgrades
  /\ messages \in Seq(Notices)
  /\ target \in [Upgrades -> {None} \cup Versions] /\ commands \in 0 .. MaxUpgrades
  /\ running \in {None} \cup Versions /\ online \in BOOLEAN
  /\ disk \in [Paths -> {None} \cup Versions] /\ mine \in Paths /\ kept \in BOOLEAN
  /\ follows \in BOOLEAN
  /\ worker \in [step : {"idle", "staged", "cleared", "moved", "undo"}, path : Paths]
  /\ applying \in [Upgrades -> [step : {"none", "restart", "remove", "restore"}, path : Paths]]
  /\ raced \subseteq Callers /\ stale \in BOOLEAN /\ broken \in BOOLEAN
  /\ handled \in Nat /\ ran \subseteq Versions /\ acked \subseteq Versions
  /\ upgradeFaults \in 0 .. MaxUpgradeFaults

Allowed(ch) == "state" \in DOMAIN ch =>
  /\ ch.state = "restarting" => record.target \in acked
  /\ ch.state = "confirmed" => record.target \in ran

RecordInd ==
  /\ \A i \in DOMAIN messages :
       /\ messages[i].kind = "ack" /\ messages[i].ok => messages[i].version \in acked
       /\ messages[i].kind = "beat" => messages[i].version \in ran
  /\ RecordIsTruthful
  /\ ~stale => /\ \A q \in Callers \ raced : at[q] \in {"put", "write"} => snap[q] = record
               /\ at["receiver"] \in {"read", "write"} /\ "receiver" \notin raced
                    => Allowed(change["receiver"])

(* A command is handled once, for the version it was issued for.                *)

IssuedInd ==
  /\ handled + Len(received) + (IF parked = None THEN 0 ELSE 1) <= commands
  /\ \A i \in DOMAIN received : received[i] <= commands
  /\ parked <= commands
  /\ \A c \in Upgrades : /\ c <= commands => target[c] # None
                         /\ applying[c].step # "none" => c <= commands
  /\ online => running # None
  /\ running # None => running \in ran
  /\ worker.step # "idle" => received # <<>>

(* Which files the worker and the restarts work on.                              *)

Swapping == worker.step \in {"moved", "undo"}
Applied(c) == applying[c].step # "none"

PathInd ==
  /\ ~follows => worker.path = "exec" /\ \A c \in Upgrades : applying[c].path = "exec"
  /\ follows =>
       /\ mine = "exec" => kept
       /\ worker.step \in {"staged", "cleared"} => (worker.path = "exec" <=> mine = "exec")
       /\ Swapping => mine # "exec"
       /\ handled > 0 => mine # "exec" /\ (worker.step # "idle" => worker.path # "exec")
       /\ \A c \in Upgrades : applying[c].step \in {"remove", "restore"} => applying[c].path # "exec"
  /\ handled = 0 => \A c \in Upgrades : ~Applied(c)
  /\ handled = 1 => \A c, d \in Upgrades : Applied(c) /\ Applied(d) => c = d

(* Versions only rise.                                                           *)

NotBelow(v) == v = None \/ \A r \in ran : r <= v

VersionInd ==
  /\ \A c \in Upgrades : target[c] <= packaged
  /\ \A p \in Paths : disk[p] <= packaged
  /\ \A r \in ran : r <= packaged
  /\ worker.step # "idle" => /\ \A p \in Paths : disk[p] <= target[Order]
                             /\ \A r \in ran : r <= target[Order]
  /\ NotBelow(disk["exec"])
  /\ \/ worker.step \in {"cleared", "moved", "undo"} /\ worker.path = "exec"
     \/ ~follows /\ \E c \in Upgrades : Applied(c)
     => NotBelow(disk["old"])
  /\ NoDowngrade

(* Where the binary of the process, and one to start, are.                       *)

ExecMoved == Swapping /\ worker.path = "exec"

ExecThere ==
  disk["exec"] = None =>
    ExecMoved \/ broken \/ \E c \in Upgrades : applying[c] = [step |-> "restore", path |-> "exec"]

OwnPlace ==
  ~broken /\ handled = 0 =>
    /\ worker.step # "idle" => worker.path = "exec"
    /\ ~Swapping => disk["exec"] = running /\ (follows => mine = "exec")
    /\ Swapping /\ disk["old"] # None => disk["old"] = running /\ (follows => mine = "old" /\ kept)

AckedPlace ==
  ~broken /\ handled = 1 =>
    /\ ~follows /\ ~Swapping /\ (\E c \in Upgrades : Applied(c)) => disk["old"] \in {None, running}
    /\ \A c \in Upgrades : applying[c].step = "restart" =>
         target[c] = disk[IF ExecMoved THEN "old" ELSE "exec"]

PlaceInd == ExecThere /\ OwnPlace /\ AckedPlace

UpgradeInd == UpgradeTyped /\ RecordInd /\ IssuedInd /\ PathInd /\ VersionInd /\ PlaceInd

----------------------------------------------------------------------------
(* Data *)

LEMMA BackupIs ==
  /\ Backup["exec"] = "old" /\ Backup["old"] = "older" /\ Backup["older"] = "oldest"
  /\ Backup["oldest"] = "oldest"
  /\ \A p \in Paths : Backup[p] \in Paths \ {"exec"}
  BY DEF Backup, Paths

LEMMA RecordFields ==
  \A s \in Records : /\ s.state \in {"idle", "sent", "queued", "restarting", "failed", "confirmed"}
                     /\ s.target \in {None} \cup Versions /\ s.ack \in BOOLEAN
  BY DEF Records

LEMMA MergedIs ==
  ASSUME NEW p \in Callers, NEW s \in Records, NEW ch \in ChangesOf(p)
  PROVE  LET new == Merged(s, ch) IN
         /\ new \in Records
         /\ "state" \in DOMAIN ch => new.state = ch.state
         /\ "state" \notin DOMAIN ch => new = s
         /\ p # "router" => new.target = s.target
         /\ p = "router" => new = s \/ new.state \in {"sent", "queued"}
<1>1. CASE ch = <<>>
  BY <1>1 DEF Merged, Records
<1>2. CASE ch \in RouterChanges /\ p = "router"
  <2>1. PICK x \in {"sent", "queued"}, v \in Versions : ch = [state |-> x, target |-> v]
    BY <1>2 DEF RouterChanges
  <2>2. Merged(s, ch) = [state |-> x, target |-> v, ack |-> s.ack]
    BY <2>1 DEF Merged, Records
  <2> QED BY <1>2, <2>1, <2>2, RecordFields DEF Records
<1>3. CASE ch \in AckChanges /\ p # "router"
  <2>1. PICK x \in {"restarting", "failed"} : ch = [state |-> x, ack |-> TRUE]
    BY <1>3 DEF AckChanges
  <2>2. s = [state |-> s.state, target |-> s.target, ack |-> s.ack]
    BY DEF Records
  <2>3. Merged(s, ch) = [f \in {"state", "target", "ack"} |->
                           IF f \in {"state", "ack"} THEN ch[f] ELSE s[f]]
    BY <2>1, <2>2 DEF Merged
  <2>4. Merged(s, ch).state = x /\ Merged(s, ch).target = s.target
    BY <2>1, <2>3
  <2>5. Merged(s, ch).ack \in BOOLEAN
    BY <2>1, <2>3, Zenon
  <2>6. Merged(s, ch) = [state |-> Merged(s, ch).state, target |-> Merged(s, ch).target,
                         ack |-> Merged(s, ch).ack]
    BY <2>3
  <2> QED BY <1>3, <2>1, <2>4, <2>5, <2>6, RecordFields DEF Records
<1>4. CASE ch \in BeatChanges /\ p # "router"
  <2>1. ch = [state |-> "confirmed"]
    BY <1>4 DEF BeatChanges
  <2>2. Merged(s, ch) = [state |-> "confirmed", target |-> s.target, ack |-> s.ack]
    BY <2>1 DEF Merged, Records
  <2> QED BY <1>4, <2>1, <2>2, RecordFields DEF Records
<1> QED BY <1>1, <1>2, <1>3, <1>4 DEF ChangesOf

LEMMA UnlinkTyped ==
  ASSUME UpgradeTyped, NEW p \in Paths, Unlink(p)
  PROVE  disk' \in [Paths -> {None} \cup Versions] /\ mine' \in Paths /\ kept' \in BOOLEAN
  BY DEF UpgradeTyped, Unlink

LEMMA PlaceTyped ==
  ASSUME UpgradeTyped, NEW v \in Versions, NEW p \in Paths, Place(v, p)
  PROVE  disk' \in [Paths -> {None} \cup Versions] /\ mine' \in Paths /\ kept' \in BOOLEAN
  BY DEF UpgradeTyped, Place

LEMMA RenameTyped ==
  ASSUME UpgradeTyped, NEW p \in Paths, NEW q \in Paths, Rename(p, q)
  PROVE  disk' \in [Paths -> {None} \cup Versions] /\ mine' \in Paths /\ kept' \in BOOLEAN
  BY DEF UpgradeTyped, Rename

LEMMA OrderIs ==
  ASSUME UpgradeTyped, IssuedInd, received # <<>>
  PROVE  Order \in Upgrades /\ Order <= commands /\ target[Order] \in Versions
  BY DEF UpgradeTyped, IssuedInd, Order

LEMMA AnswerTyped ==
  ASSUME UpgradeTyped, IssuedInd, received # <<>>, NEW ok \in BOOLEAN, Answer(ok)
  PROVE  /\ messages' \in Seq(Notices) /\ received' \in Seq(Upgrades) /\ acked' \subseteq Versions
         /\ worker' = Rest /\ acked \subseteq acked'
<1>1. target[Order] \in Versions
  BY OrderIs
<1>2. [kind |-> "ack", version |-> target[Order], ok |-> ok] \in Notices
  BY <1>1 DEF Notices
<1>3. messages' \in Seq(Notices)
  BY <1>2 DEF UpgradeTyped, Answer
<1>4. acked' \subseteq Versions /\ acked \subseteq acked'
  BY <1>1 DEF UpgradeTyped, Answer
<1> QED BY <1>3, <1>4 DEF UpgradeTyped, Answer

LEMMA WorkerTyped ==
  ASSUME UpgradeTyped, IssuedInd,
         Stage \/ ClearBackup \/ MoveAside \/ Install \/ PutBack
  PROVE  UpgradeTyped'
<1> USE DEF UpgradeTyped
<1> received # <<>>
  BY DEF Stage, ClearBackup, MoveAside, Install, PutBack, IssuedInd
<1>o. Order \in Upgrades /\ target[Order] \in Versions
  BY OrderIs
<1>p. Exe \in Paths /\ worker.path \in Paths /\ Backup[worker.path] \in Paths
  BY BackupIs DEF Exe, Paths
<1>u. UNCHANGED <<book, known, agent, orders>>
  BY DEF Stage, ClearBackup, MoveAside, Install, PutBack, files
<1>f. disk' \in [Paths -> {None} \cup Versions] /\ mine' \in Paths /\ kept' \in BOOLEAN
  <2>1. CASE Stage
    BY <2>1 DEF Stage, files
  <2>2. CASE ClearBackup
    BY <2>2, <1>p, UnlinkTyped DEF ClearBackup, files
  <2>3. CASE MoveAside
    BY <2>3, <1>p, RenameTyped DEF MoveAside, files
  <2>4. CASE Install
    BY <2>4, <1>o, <1>p, PlaceTyped DEF Install, files
  <2>5. CASE PutBack
    BY <2>5, <1>p, RenameTyped DEF PutBack, files
  <2> QED BY <2>1, <2>2, <2>3, <2>4, <2>5
<1>a. \/ UNCHANGED <<received, messages, acked>>
      \/ \E ok \in BOOLEAN : Answer(ok)
  BY DEF Stage, ClearBackup, MoveAside, Install, PutBack, Refuse
<1>m. messages' \in Seq(Notices) /\ received' \in Seq(Upgrades) /\ acked' \subseteq Versions
  BY <1>a, AnswerTyped
<1>w. worker' \in [step : {"idle", "staged", "cleared", "moved", "undo"}, path : Paths]
  <2>1. CASE \E ok \in BOOLEAN : Answer(ok)
    BY <2>1 DEF Answer, Rest, Paths
  <2>2. CASE worker' = [step |-> "staged", path |-> Exe]
    BY <2>2, <1>p
  <2>3. CASE To("cleared") \/ To("moved") \/ To("undo")
    BY <2>3 DEF To
  <2> QED BY <2>1, <2>2, <2>3 DEF Stage, ClearBackup, MoveAside, Install, PutBack, Refuse
<1>y. /\ applying' \in [Upgrades -> [step : {"none", "restart", "remove", "restore"}, path : Paths]]
      /\ broken' \in BOOLEAN /\ handled' \in Nat
  <2>1. CASE Stage
    BY <2>1 DEF Stage, Refuse
  <2>2. CASE ClearBackup
    BY <2>2 DEF ClearBackup, Refuse, To
  <2>3. CASE MoveAside
    BY <2>3 DEF MoveAside, Refuse, To
  <2>4. CASE Install
    <3>1. CASE To("undo")
      BY <3>1 DEF To
    <3>2. CASE /\ applying' = [applying EXCEPT ![Order] = [step |-> "restart", path |-> "exec"]]
               /\ handled' = handled + 1 /\ UNCHANGED broken
      BY <3>2, <1>o DEF Paths
    <3> QED BY <2>4, <3>1, <3>2 DEF Install
  <2>5. CASE PutBack
    BY <2>5 DEF PutBack, Refuse
  <2> QED BY <2>1, <2>2, <2>3, <2>4, <2>5
<1>g. upgradeFaults' \in 0 .. MaxUpgradeFaults
  <2>1. UNCHANGED upgradeFaults \/ UpgradeFault
    BY DEF Stage, ClearBackup, MoveAside, Install, PutBack
  <2> QED BY <2>1, UpgradeAssumption DEF UpgradeFault
<1> QED BY <1>u, <1>f, <1>m, <1>w, <1>y, <1>g DEF book, agent, orders

LEMMA RestartTyped ==
  ASSUME UpgradeTyped, IssuedInd,
         \/ \E c \in Upgrades : Restart(c) \/ RestartFails(c) \/ RollBack(c) \/ Restore(c)
         \/ AgentCrash
  PROVE  UpgradeTyped'
<1> USE DEF UpgradeTyped
<1>g. upgradeFaults' \in 0 .. MaxUpgradeFaults
  BY UpgradeAssumption DEF Restart, RestartFails, RollBack, Restore, AgentCrash, UpgradeFault
<1>1. CASE Replaced
  <2>1. disk["exec"] \in {None} \cup Versions /\ "exec" \in Paths
    BY DEF Paths
  <2>2. \E k \in 0 .. Len(messages) : messages' = SubSeq(messages, 1, k)
    BY <1>1 DEF Replaced
  <2>3. messages' \in Seq(Notices)
    BY <2>2
  <2>4. NoRestart \in [Upgrades -> [step : {"none", "restart", "remove", "restore"}, path : Paths]]
    BY DEF NoRestart, Paths
  <2>5. Rest \in [step : {"idle", "staged", "cleared", "moved", "undo"}, path : Paths]
    BY DEF Rest, Paths
  <2>6. broken' \in BOOLEAN /\ <<>> \in Seq(Upgrades)
    BY <1>1 DEF Replaced
  <2> QED BY <1>1, <1>g, <2>1, <2>3, <2>4, <2>5, <2>6 DEF Replaced, book, orders
<1>2. ASSUME NEW c \in Upgrades, RestartFails(c) \/ RollBack(c) \/ Restore(c)
      PROVE  UpgradeTyped'
  <2>p. Exe \in Paths /\ applying[c].path \in Paths /\ Backup[applying[c].path] \in Paths
    BY BackupIs DEF Exe, Paths
  <2>f. disk' \in [Paths -> {None} \cup Versions] /\ mine' \in Paths /\ kept' \in BOOLEAN
    BY <1>2, <2>p, UnlinkTyped, RenameTyped DEF RestartFails, RollBack, Restore, files
  <2>a. applying' \in [Upgrades -> [step : {"none", "restart", "remove", "restore"}, path : Paths]]
    BY <1>2, <2>p DEF RestartFails, RollBack, Restore, Apply
  <2>b. broken' \in BOOLEAN /\ handled' \in Nat
    <3>1. (broken' = TRUE \/ broken' = broken) /\ handled' \in {handled, 0}
      BY <1>2 DEF RestartFails, RollBack, Restore
    <3>2. broken' \in BOOLEAN
      BY <3>1, Zenon
    <3> QED BY <3>1, <3>2
  <2> QED BY <1>2, <1>g, <2>f, <2>a, <2>b DEF RestartFails, RollBack, Restore, book, agent, orders
<1> QED BY <1>1, <1>2 DEF Restart, AgentCrash

LEMMA ProcessTyped ==
  ASSUME UpgradeTyped, IssuedInd, Connect \/ Disconnect \/ Heartbeat
  PROVE  UpgradeTyped'
<1> USE DEF UpgradeTyped
<1>1. CASE Connect
  BY <1>1 DEF Connect, book, files, duty
<1>2. CASE Disconnect
  <2>1. upgradeFaults' \in 0 .. MaxUpgradeFaults
    BY <1>2, UpgradeAssumption DEF Disconnect, UpgradeFault
  <2> QED BY <1>2, <2>1 DEF Disconnect, book, files, duty, orders
<1>3. CASE Heartbeat
  <2>1. running \in Versions
    BY <1>3 DEF Heartbeat, IssuedInd
  <2> QED BY <1>3, <2>1 DEF Heartbeat, Notices, book, files, agent, duty, orders
<1> QED BY <1>1, <1>2, <1>3

LEMMA WriteTyped ==
  ASSUME UpgradeTyped, NEW p \in Callers, NEW new \in Records, Write(p, new)
  PROVE  record' \in Records /\ raced' \subseteq Callers /\ stale' \in BOOLEAN
  BY DEF UpgradeTyped, Write

LEMMA LookTyped ==
  ASSUME UpgradeTyped, NEW p \in Callers \ {"router"}, NEW to \in {"idle", "read"},
         NEW ch \in ChangesOf(p), Look(p, to, ch),
         known' \in Versions, messages' \in Seq(Notices)
  PROVE  UpgradeTyped'
<1> USE DEF UpgradeTyped
<1>1. snap[p] \in Records /\ Blank \in Records
  BY DEF Records, Blank
<1>2. record' \in Records /\ raced' \subseteq Callers /\ stale' \in BOOLEAN
  BY <1>1, WriteTyped DEF Look
<1>3. /\ snap' \in [Callers -> Records]
      /\ at' \in [Callers -> {"idle", "get", "put", "read", "write"}]
      /\ at'["router"] \notin {"get", "put"}
  BY <1>1 DEF Look, Begin, Jump, Callers
<1>4. \A q \in Callers : change'[q] \in ChangesOf(q)
  BY DEF Look, Begin
<1>5. UNCHANGED <<files, agent, duty, orders, received, acked, upgradeFaults>>
  BY DEF Look
<1>6. DOMAIN change' = DOMAIN change
  BY DEF Look, Begin
<1> QED BY <1>2, <1>3, <1>4, <1>5, <1>6 DEF files, agent, duty, orders

LEMMA ConsoleTyped ==
  ASSUME UpgradeTyped, IssuedInd,
         \/ \E p \in Callers : Read(p) \/ Put(p)
         \/ Poll \/ PollEnds \/ Publish \/ Upgrade \/ Receive \/ Ack \/ Beat
  PROVE  UpgradeTyped'
<1> USE DEF UpgradeTyped
<1>1. ASSUME NEW p \in Callers, Read(p)
      PROVE  UpgradeTyped'
  <2>1. /\ at' \in [Callers -> {"idle", "get", "put", "read", "write"}]
        /\ at'["router"] \notin {"get", "put"} /\ snap' \in [Callers -> Records]
    BY <1>1 DEF Read, Jump, Callers
  <2> QED BY <1>1, <2>1 DEF Read, files, agent, duty, orders
<1>2. ASSUME NEW p \in Callers, Put(p)
      PROVE  UpgradeTyped'
  <2>1. Merged(snap[p], change[p]) \in Records /\ Blank \in Records
    BY MergedIs DEF Records, Blank
  <2>2. record' \in Records /\ raced' \subseteq Callers /\ stale' \in BOOLEAN
    BY <1>2, <2>1, WriteTyped DEF Put
  <2>3. /\ at' \in [Callers -> {"idle", "get", "put", "read", "write"}]
        /\ at'["router"] \notin {"get", "put"} /\ snap' \in [Callers -> Records]
    BY <1>2, <2>1 DEF Put, Jump, Callers
  <2>4. \A q \in Callers : change'[q] \in ChangesOf(q)
    BY <1>2 DEF Put, ChangesOf
  <2> QED BY <1>2, <2>2, <2>3, <2>4 DEF Put, files, agent, duty, orders
<1>3. CASE Poll
  <2>1. /\ at' \in [Callers -> {"idle", "get", "put", "read", "write"}]
        /\ at'["router"] \notin {"get", "put"}
    BY <1>3 DEF Poll, Jump, Callers
  <2> QED BY <1>3, <2>1 DEF Poll, files, agent, duty, orders
<1>4. CASE PollEnds
  <2>1. <<>> \in ChangesOf("poller") /\ "poller" \in Callers
    BY DEF ChangesOf, Callers
  <2> QED BY <1>4, <2>1, LookTyped DEF PollEnds
<1>5. CASE Publish
  BY <1>5, UpgradeAssumption DEF Publish, Versions, book, files, agent, duty
<1>6. CASE Upgrade
  <2>1. commands' \in Upgrades /\ commands' = commands + 1
    BY <1>6, UpgradeAssumption DEF Upgrade, Upgrades
  <2>2. /\ target' \in [Upgrades -> {None} \cup Versions] /\ received' \in Seq(Upgrades)
        /\ parked' \in {None} \cup Upgrades /\ commands' \in 0 .. MaxUpgrades
    <3>1. target' = [target EXCEPT ![commands'] = packaged]
      BY <1>6 DEF Upgrade
    <3>2. received' \in {received, Append(received, commands')} /\ parked' \in {parked, commands'}
      BY <1>6 DEF Upgrade
    <3>3. commands' \in 0 .. MaxUpgrades
      BY <2>1 DEF Upgrades
    <3>4. target' \in [Upgrades -> {None} \cup Versions]
      BY <2>1, <3>1
    <3>5. received' \in Seq(Upgrades)
      <4>1. received \in Seq(Upgrades) /\ Append(received, commands') \in Seq(Upgrades)
        BY <2>1
      <4> QED BY <3>2, <4>1
    <3> QED BY <2>1, <3>2, <3>3, <3>4, <3>5
  <2>3. /\ at' \in [Callers -> {"idle", "get", "put", "read", "write"}]
        /\ at'["router"] \notin {"get", "put"}
    BY <1>6 DEF Upgrade, Begin, Jump, Callers
  <2>4. [state |-> IF online THEN "sent" ELSE "queued", target |-> packaged] \in ChangesOf("router")
    BY DEF ChangesOf, RouterChanges
  <2>5. DOMAIN change' = Callers /\ \A q \in Callers : change'[q] \in ChangesOf(q)
    BY <1>6, <2>4 DEF Upgrade, Begin
  <2> QED BY <1>6, <2>2, <2>3, <2>5 DEF Upgrade, files, agent, duty
<1>7. CASE Receive
  <2>1. Head(messages) \in Notices
    BY <1>7 DEF Receive
  <2>3. Head(messages).version \in Versions
    BY <2>1 DEF Notices
  <2>2. /\ at' \in [Callers -> {"idle", "get", "put", "read", "write"}]
        /\ at'["router"] \notin {"get", "put"}
    BY <1>7 DEF Receive, Jump, Callers
  <2> QED BY <1>7, <2>2, <2>3 DEF Receive, files, agent, duty, orders
<1>8. CASE Ack
  <2>1. <<>> \in ChangesOf("receiver") /\ "receiver" \in Callers \ {"router"}
    BY DEF ChangesOf, Callers
  <2>2. [state |-> IF Head(messages).ok THEN "restarting" ELSE "failed", ack |-> TRUE]
          \in ChangesOf("receiver")
    BY DEF ChangesOf, AckChanges
  <2>3. known' \in Versions /\ messages' \in Seq(Notices)
    BY <1>8 DEF Ack
  <2> QED BY <1>8, <2>1, <2>2, <2>3, LookTyped DEF Ack
<1>9. CASE Beat
  <2>1. <<>> \in ChangesOf("receiver") /\ "receiver" \in Callers \ {"router"}
    BY DEF ChangesOf, Callers
  <2>2. [state |-> "confirmed"] \in ChangesOf("receiver")
    BY DEF ChangesOf, BeatChanges
  <2>3. known' \in Versions /\ messages' \in Seq(Notices)
    BY <1>9 DEF Beat
  <2> QED BY <1>9, <2>1, <2>2, <2>3, LookTyped DEF Beat
<1> QED BY <1>1, <1>2, <1>3, <1>4, <1>5, <1>6, <1>7, <1>8, <1>9

LEMMA TypedKept ==
  ASSUME UpgradeTyped, IssuedInd, [UpgradeNext]_upgradeVars
  PROVE  UpgradeTyped'
<1>1. CASE UNCHANGED upgradeVars
  BY <1>1 DEF upgradeVars, book, files, agent, duty, orders, UpgradeTyped
<1> QED BY <1>1, ConsoleTyped, WorkerTyped, RestartTyped, ProcessTyped DEF UpgradeNext

----------------------------------------------------------------------------
(* The record *)

LEMMA NoticesTrue ==
  ASSUME UpgradeTyped, RecordInd, NEW more \in SUBSET Notices,
         ran \subseteq ran', acked \subseteq acked',
         \A i \in DOMAIN messages' :
           messages'[i] \in more \/ \E j \in DOMAIN messages : messages'[i] = messages[j],
         \A m \in more : /\ m.kind = "ack" /\ m.ok => m.version \in acked'
                         /\ m.kind = "beat" => m.version \in ran'
  PROVE  \A i \in DOMAIN messages' :
           /\ messages'[i].kind = "ack" /\ messages'[i].ok => messages'[i].version \in acked'
           /\ messages'[i].kind = "beat" => messages'[i].version \in ran'
  BY DEF RecordInd

\* Nothing but the record's callers touches it; what ran and what was acknowledged
\* stay so.
LEMMA RecordUntouched ==
  ASSUME UpgradeTyped, RecordInd, UNCHANGED book, ran \subseteq ran', acked \subseteq acked',
         \A i \in DOMAIN messages' :
           /\ messages'[i].kind = "ack" /\ messages'[i].ok => messages'[i].version \in acked'
           /\ messages'[i].kind = "beat" => messages'[i].version \in ran'
  PROVE  RecordInd'
  BY DEF RecordInd, RecordIsTruthful, Allowed, book

LEMMA AnswerRecord ==
  ASSUME UpgradeTyped, IssuedInd, RecordInd, received # <<>>, NEW ok \in BOOLEAN, Answer(ok),
         UNCHANGED <<book, ran>>
  PROVE  RecordInd'
<1> DEFINE m == [kind |-> "ack", version |-> target[Order], ok |-> ok]
<1>1. m \in Notices /\ acked \subseteq acked'
  BY OrderIs DEF Answer, Notices
<1>2. m.ok => m.version \in acked'
  BY DEF Answer
<1>3. m.kind = "ack"
  OBVIOUS
<1>4. messages' \in {messages, Append(messages, m)}
  BY DEF Answer
<1> HIDE DEF m
<1>5. \A i \in DOMAIN messages' :
        messages'[i] \in {m} \/ \E j \in DOMAIN messages : messages'[i] = messages[j]
  <2>1. CASE messages' = messages
    BY <2>1
  <2>2. CASE messages' = Append(messages, m)
    BY <1>1, <2>2 DEF UpgradeTyped
  <2> QED BY <1>4, <2>1, <2>2
<1>6. \A i \in DOMAIN messages' :
           /\ messages'[i].kind = "ack" /\ messages'[i].ok => messages'[i].version \in acked'
           /\ messages'[i].kind = "beat" => messages'[i].version \in ran'
  <2>1. {m} \in SUBSET Notices /\ ran \subseteq ran'
    BY <1>1
  <2>2. \A n \in {m} : /\ n.kind = "ack" /\ n.ok => n.version \in acked'
                       /\ n.kind = "beat" => n.version \in ran'
    BY <1>2, <1>3
  <2> QED BY <1>1, <1>5, <2>1, <2>2, NoticesTrue
<1> QED BY <1>1, <1>6, RecordUntouched

LEMMA AgentRecord ==
  ASSUME UpgradeTyped, IssuedInd, RecordInd,
         \/ Stage \/ ClearBackup \/ MoveAside \/ Install \/ PutBack
         \/ \E c \in Upgrades : Restart(c) \/ RestartFails(c) \/ RollBack(c) \/ Restore(c)
         \/ AgentCrash \/ Connect \/ Disconnect \/ Heartbeat \/ Publish
  PROVE  RecordInd'
<1>1. CASE Stage \/ ClearBackup \/ MoveAside \/ Install \/ PutBack
  <2>1. received # <<>> /\ UNCHANGED <<book, ran>>
    BY <1>1 DEF Stage, ClearBackup, MoveAside, Install, PutBack, IssuedInd, agent
  <2>2. \/ UNCHANGED <<messages, acked>>
        \/ \E ok \in BOOLEAN : Answer(ok)
    BY <1>1 DEF Stage, ClearBackup, MoveAside, Install, PutBack, Refuse
  <2>3. CASE UNCHANGED <<messages, acked>>
    BY <2>1, <2>3, RecordUntouched DEF RecordInd
  <2> QED BY <2>1, <2>2, <2>3, AnswerRecord
<1>2. CASE Replaced
  <2>1. PICK k \in 0 .. Len(messages) : messages' = SubSeq(messages, 1, k)
    BY <1>2 DEF Replaced
  <2>2. DOMAIN messages' \subseteq DOMAIN messages /\ \A i \in DOMAIN messages' : messages'[i] = messages[i]
    BY <2>1 DEF UpgradeTyped
  <2>3. ran \subseteq ran' /\ acked' = acked /\ UNCHANGED book
    BY <1>2 DEF Replaced
  <2> QED BY <2>2, <2>3, RecordUntouched DEF RecordInd
<1>3. CASE Heartbeat
  <2> DEFINE m == [kind |-> "beat", version |-> running, ok |-> TRUE]
  <2>1. running \in ran /\ running \in Versions
    BY <1>3 DEF Heartbeat, IssuedInd, UpgradeTyped
  <2>2. m \in Notices /\ m.kind = "beat" /\ m.version \in ran
    BY <2>1 DEF Notices
  <2>3. messages' = Append(messages, m) /\ UNCHANGED <<book, ran, acked>>
    BY <1>3 DEF Heartbeat, agent
  <2> HIDE DEF m
  <2>4. \A i \in DOMAIN messages' :
          messages'[i] \in {m} \/ \E j \in DOMAIN messages : messages'[i] = messages[j]
    BY <2>2, <2>3 DEF UpgradeTyped
  <2>5. \A i \in DOMAIN messages' :
           /\ messages'[i].kind = "ack" /\ messages'[i].ok => messages'[i].version \in acked'
           /\ messages'[i].kind = "beat" => messages'[i].version \in ran'
    <3>1. {m} \in SUBSET Notices
      BY <2>2
    <3>2. \A n \in {m} : /\ n.kind = "ack" /\ n.ok => n.version \in acked'
                         /\ n.kind = "beat" => n.version \in ran'
      BY <2>2, <2>3
    <3> QED BY <2>3, <2>4, <3>1, <3>2, NoticesTrue
  <2> QED BY <2>3, <2>5, RecordUntouched
<1>4. CASE \/ \E c \in Upgrades : RestartFails(c) \/ RollBack(c) \/ Restore(c)
           \/ Connect \/ Disconnect \/ Publish
  <2>1. UNCHANGED <<book, ran, messages, acked>>
    BY <1>4 DEF RestartFails, RollBack, Restore, Connect, Disconnect, Publish, agent
  <2> QED BY <2>1, RecordUntouched DEF RecordInd
<1> QED BY <1>1, <1>2, <1>3, <1>4 DEF Restart, AgentCrash

\* A caller whose view still holds writes what the record allows, and every view that
\* no longer holds is marked.
LEMMA WriteRecord ==
  ASSUME UpgradeTyped, RecordInd, NEW p \in Callers, NEW new \in Records, Write(p, new),
         UNCHANGED <<ran, acked>>,
         ~stale /\ p \notin raced =>
           /\ new.state = "confirmed" => new.target \in ran
           /\ new.state = "restarting" => new.target \in acked,
         \A q \in Callers \ {p} : UNCHANGED <<at[q], snap[q], change[q]>>,
         at'[p] \notin {"put", "write"},
         p = "receiver" /\ at'[p] = "read" /\ ~stale /\ p \notin raced =>
           ("state" \in DOMAIN change'[p] =>
              /\ change'[p].state = "restarting" => new.target \in acked
              /\ change'[p].state = "confirmed" => new.target \in ran),
         \A i \in DOMAIN messages' : \E j \in DOMAIN messages : messages'[i] = messages[j]
  PROVE  RecordInd'
<1>1. \A i \in DOMAIN messages' :
        /\ messages'[i].kind = "ack" /\ messages'[i].ok => messages'[i].version \in acked'
        /\ messages'[i].kind = "beat" => messages'[i].version \in ran'
  BY DEF RecordInd
<1>2. RecordIsTruthful'
  BY DEF RecordIsTruthful, Write
<1>3. ASSUME ~stale', NEW q \in Callers \ raced', at'[q] \in {"put", "write"}
      PROVE  snap'[q] = record'
  <2>1. q # p /\ at[q] \in {"put", "write"} /\ snap'[q] = snap[q]
    BY <1>3
  <2>2. ~stale /\ p \notin raced
    BY <1>3 DEF Write, UpgradeTyped
  <2>3. new = record /\ q \notin raced
    BY <1>3, <2>1 DEF Write, Informed
  <2> QED BY <2>1, <2>2, <2>3 DEF RecordInd, Write
<1>4. ASSUME ~stale', at'["receiver"] \in {"read", "write"}, "receiver" \notin raced'
      PROVE  Allowed(change["receiver"])'
  <2>1. ~stale /\ p \notin raced /\ record' = new
    BY <1>4 DEF Write, UpgradeTyped
  <2>2. CASE p = "receiver"
    BY <1>4, <2>1, <2>2 DEF Allowed
  <2>3. CASE p # "receiver"
    <3>1. "receiver" \in Callers \ {p}
      BY <2>3 DEF Callers
    <3>2. at["receiver"] \in {"read", "write"} /\ change'["receiver"] = change["receiver"]
      BY <1>4, <3>1
    <3>3. new = record /\ "receiver" \notin raced
      BY <1>4, <3>1, <3>2 DEF Write, Informed
    <3>4. Allowed(change["receiver"])
      BY <2>1, <3>2, <3>3 DEF RecordInd
    <3> QED BY <2>1, <3>2, <3>3, <3>4 DEF Allowed
  <2> QED BY <2>2, <2>3
<1> QED BY <1>1, <1>2, <1>3, <1>4 DEF RecordInd

LEMMA TailOf ==
  ASSUME UpgradeTyped, messages # <<>>, messages' = Tail(messages)
  PROVE  /\ Head(messages) \in Notices /\ 1 \in DOMAIN messages /\ Head(messages) = messages[1]
         /\ \A i \in DOMAIN messages' : \E j \in DOMAIN messages : messages'[i] = messages[j]
<1>1. messages \in Seq(Notices)
  BY DEF UpgradeTyped
<1>2. \A i \in DOMAIN messages' : i + 1 \in DOMAIN messages /\ messages'[i] = messages[i + 1]
  BY <1>1
<1>3. Head(messages) \in Notices /\ 1 \in DOMAIN messages /\ Head(messages) = messages[1]
  BY <1>1
<1> QED BY <1>2, <1>3

\* A call that only looked writes what it read: nothing new, unless it was written over.
LEMMA LookRecord ==
  ASSUME UpgradeTyped, RecordInd, NEW p \in Callers \ {"router"}, NEW to \in {"idle", "read"},
         NEW ch \in ChangesOf(p), Look(p, to, ch),
         to = "read" /\ ~stale /\ p \notin raced =>
           ("state" \in DOMAIN ch => /\ ch.state = "restarting" => snap[p].target \in acked
                                     /\ ch.state = "confirmed" => snap[p].target \in ran),
         \A i \in DOMAIN messages' : \E j \in DOMAIN messages : messages'[i] = messages[j]
  PROVE  RecordInd'
<1>1. Write(p, snap[p]) /\ snap[p] \in Records
  BY DEF Look, UpgradeTyped
<1>2. UNCHANGED <<ran, acked>>
  BY DEF Look, agent
<1>3. ~stale /\ p \notin raced => snap[p] = record
  BY DEF Look, RecordInd
<1>4. ~stale /\ p \notin raced =>
           /\ snap[p].state = "confirmed" => snap[p].target \in ran
           /\ snap[p].state = "restarting" => snap[p].target \in acked
  BY <1>3 DEF RecordInd, RecordIsTruthful
<1>5. \A q \in Callers \ {p} : UNCHANGED <<at[q], snap[q], change[q]>>
  BY DEF Look, Begin, Jump, UpgradeTyped
<1>6. at'[p] = to /\ change'[p] = ch
  BY DEF Look, Begin, Jump, UpgradeTyped
<1> QED BY <1>1, <1>2, <1>4, <1>5, <1>6, WriteRecord

LEMMA ConsoleRecord ==
  ASSUME UpgradeTyped, IssuedInd, RecordInd,
         \/ \E p \in Callers : Read(p) \/ Put(p)
         \/ Poll \/ PollEnds \/ Upgrade \/ Receive \/ Ack \/ Beat
  PROVE  RecordInd'
<1>1. ASSUME NEW p \in Callers, Read(p)
      PROVE  RecordInd'
  <2>1. UNCHANGED <<messages, acked, ran, record, stale, raced, change>>
    BY <1>1 DEF Read, agent
  <2>2. snap'[p] = record /\ \A q \in Callers \ {p} : at'[q] = at[q] /\ snap'[q] = snap[q]
    BY <1>1 DEF Read, Jump, UpgradeTyped
  <2>3. at'["receiver"] \in {"read", "write"} => at["receiver"] \in {"read", "write"}
    BY <1>1, <2>2 DEF Read, Jump, UpgradeTyped, Callers
  <2> QED BY <2>1, <2>2, <2>3 DEF RecordInd, RecordIsTruthful, Allowed
<1>2. ASSUME NEW p \in Callers, Put(p)
      PROVE  RecordInd'
  <2> DEFINE new == Merged(snap[p], change[p])
  <2>1. /\ new \in Records
        /\ "state" \in DOMAIN change[p] => new.state = change[p].state
        /\ "state" \notin DOMAIN change[p] => new = snap[p]
        /\ p # "router" => new.target = snap[p].target
        /\ p = "router" => new = snap[p] \/ new.state \in {"sent", "queued"}
    BY MergedIs DEF UpgradeTyped
  <2>2. Write(p, new) /\ UNCHANGED <<ran, acked, messages>>
    BY <1>2 DEF Put, agent
  <2> HIDE DEF new
  <2>3. at[p] = "write" /\ at'[p] = "idle" /\ \A q \in Callers \ {p} : UNCHANGED <<at[q], snap[q], change[q]>>
    BY <1>2 DEF Put, Jump, UpgradeTyped
  <2>4. ~stale /\ p \notin raced =>
           /\ new.state = "confirmed" => new.target \in ran
           /\ new.state = "restarting" => new.target \in acked
    <3> SUFFICES ASSUME ~stale, p \notin raced
                 PROVE  /\ new.state = "confirmed" => new.target \in ran
                        /\ new.state = "restarting" => new.target \in acked
      OBVIOUS
    <3>1. snap[p] = record
      BY <2>3 DEF RecordInd
    <3>2. /\ record.state = "confirmed" => record.target \in ran
          /\ record.state = "restarting" => record.target \in acked
      BY DEF RecordInd, RecordIsTruthful
    <3>3. CASE new = snap[p]
      BY <3>1, <3>2, <3>3
    <3>4. CASE p = "receiver"
      <4>1. Allowed(change[p])
        BY <2>3, <3>4 DEF RecordInd
      <4> QED BY <2>1, <3>1, <3>2, <3>4, <4>1 DEF Allowed
    <3>5. CASE p = "router"
      BY <2>1, <3>3, <3>5
    <3>6. CASE p = "poller"
      <4>1. change[p] = <<>>
        BY <3>6 DEF UpgradeTyped, ChangesOf
      <4>2. new = snap[p]
        BY <2>1, <4>1
      <4> QED BY <3>3, <4>2
    <3> QED BY <3>4, <3>5, <3>6 DEF Callers
  <2>5. \A i \in DOMAIN messages' : \E j \in DOMAIN messages : messages'[i] = messages[j]
    BY <2>2
  <2> QED BY <2>1, <2>2, <2>3, <2>4, <2>5, WriteRecord
<1>3. CASE Poll \/ Receive
  <2>1. UNCHANGED <<messages, acked, ran, record, stale, raced, change, snap>>
    BY <1>3 DEF Poll, Receive, agent
  <2>2. \A q \in Callers : at'[q] \in {at[q], "get"}
    BY <1>3 DEF Poll, Receive, Jump, UpgradeTyped
  <2>3. "receiver" \in Callers
    BY DEF Callers
  <2> QED BY <2>1, <2>2, <2>3 DEF RecordInd, RecordIsTruthful, Allowed
<1>4. CASE Upgrade
  <2>1. UNCHANGED <<messages, acked, ran, record, stale, raced, snap>>
    BY <1>4 DEF Upgrade, agent
  <2>2. \A q \in Callers : at'[q] \in {at[q], "read"}
    BY <1>4 DEF Upgrade, Begin, Jump, UpgradeTyped
  <2>3. at'["receiver"] = at["receiver"] /\ change'["receiver"] = change["receiver"]
    BY <1>4 DEF Upgrade, Begin, Jump, UpgradeTyped, Callers
  <2> QED BY <2>1, <2>2, <2>3 DEF RecordInd, RecordIsTruthful, Allowed
<1>5. CASE PollEnds
  <2>1. <<>> \in ChangesOf("poller") /\ "poller" \in Callers \ {"router"}
    BY DEF ChangesOf, Callers
  <2>2. \A i \in DOMAIN messages' : \E j \in DOMAIN messages : messages'[i] = messages[j]
    BY <1>5 DEF PollEnds
  <2>3. Look("poller", "idle", <<>>)
    BY <1>5 DEF PollEnds
  <2> QED BY <2>1, <2>2, <2>3, LookRecord
<1>6. CASE Ack \/ Beat
  <2>1. <<>> \in ChangesOf("receiver") /\ "receiver" \in Callers \ {"router"}
    BY DEF ChangesOf, Callers
  <2>2. messages # <<>> /\ messages' = Tail(messages)
    BY <1>6 DEF Ack, Beat
  <2>3. /\ Head(messages) \in Notices /\ 1 \in DOMAIN messages /\ Head(messages) = messages[1]
        /\ \A i \in DOMAIN messages' : \E j \in DOMAIN messages : messages'[i] = messages[j]
    BY <2>2, TailOf
  <2>4. CASE Look("receiver", "idle", <<>>)
    BY <2>1, <2>3, <2>4, LookRecord
  <2>5. CASE /\ Head(messages).kind = "ack" /\ Head(messages).version = snap["receiver"].target
             /\ Look("receiver", "read",
                     [state |-> IF Head(messages).ok THEN "restarting" ELSE "failed", ack |-> TRUE])
    <3> DEFINE ch == [state |-> IF Head(messages).ok THEN "restarting" ELSE "failed", ack |-> TRUE]
    <3>1. ch \in ChangesOf("receiver")
      BY DEF ChangesOf, AckChanges
    <3>2. Head(messages).ok => snap["receiver"].target \in acked
      BY <2>3, <2>5 DEF RecordInd
    <3>3. ch.state = "restarting" => snap["receiver"].target \in acked
      BY <3>2
    <3>4. ch.state # "confirmed"
      OBVIOUS
    <3>5. Look("receiver", "read", ch)
      BY <2>5
    <3> HIDE DEF ch
    <3> QED BY <2>1, <2>3, <3>1, <3>3, <3>4, <3>5, LookRecord
  <2>6. CASE /\ Head(messages).kind = "beat" /\ Head(messages).version = snap["receiver"].target
             /\ Look("receiver", "read", [state |-> "confirmed"])
    <3> DEFINE ch == [state |-> "confirmed"]
    <3>1. ch \in ChangesOf("receiver")
      BY DEF ChangesOf, BeatChanges
    <3>2. snap["receiver"].target \in ran /\ ch.state = "confirmed"
      BY <2>3, <2>6 DEF RecordInd
    <3>5. Look("receiver", "read", ch)
      BY <2>6
    <3> HIDE DEF ch
    <3> QED BY <2>1, <2>3, <3>1, <3>2, <3>5, LookRecord
  <2>7. CASE Look("receiver", "read", <<>>)
    BY <2>1, <2>3, <2>7, LookRecord
  <2> QED BY <1>6, <2>4, <2>5, <2>6, <2>7 DEF Ack, Beat
<1> QED BY <1>1, <1>2, <1>3, <1>4, <1>5, <1>6

LEMMA RecordKept ==
  ASSUME UpgradeTyped, IssuedInd, RecordInd, [UpgradeNext]_upgradeVars
  PROVE  RecordInd'
<1>1. CASE UNCHANGED upgradeVars
  BY <1>1, RecordUntouched DEF upgradeVars, agent, RecordInd
<1> QED BY <1>1, ConsoleRecord, AgentRecord DEF UpgradeNext

----------------------------------------------------------------------------
(* Commands *)

LEMMA AppendBelow ==
  ASSUME NEW s \in Seq(Upgrades), NEW c \in Upgrades, NEW n \in Nat, c <= n,
         \A i \in DOMAIN s : s[i] <= n
  PROVE  \A i \in DOMAIN Append(s, c) : Append(s, c)[i] <= n
<1> SUFFICES ASSUME NEW i \in DOMAIN Append(s, c)
             PROVE  Append(s, c)[i] <= n
  OBVIOUS
<1>1. CASE i = Len(s) + 1
  BY <1>1
<1>2. CASE i # Len(s) + 1
  <2>1. i \in DOMAIN s /\ Append(s, c)[i] = s[i]
    BY <1>2
  <2> QED BY <2>1
<1> QED BY <1>1, <1>2

LEMMA IssuedKept ==
  ASSUME UpgradeTyped, IssuedInd, [UpgradeNext]_upgradeVars
  PROVE  IssuedInd'
<1> USE DEF IssuedInd
<1>t. /\ received \in Seq(Upgrades) /\ handled \in Nat /\ commands \in Nat /\ parked \in Nat
      /\ Len(received) \in Nat /\ \A c \in Upgrades : c \in Nat
  BY UpgradeAssumption DEF UpgradeTyped, Upgrades, None
<1>b. \A i \in DOMAIN received : received[i] \in Nat /\ received[i] <= commands
  BY <1>t
<1>1. CASE Upgrade
  <2>1. commands' = commands + 1 /\ commands' \in Upgrades
    BY <1>1, <1>t, UpgradeAssumption DEF Upgrade, Upgrades, UpgradeTyped
  <2>2. target' = [target EXCEPT ![commands'] = packaged] /\ packaged # None
    BY <1>1 DEF Upgrade, UpgradeTyped, Versions, None
  <2>3. UNCHANGED <<handled, applying, worker, online, running, ran>>
    BY <1>1 DEF Upgrade, agent, duty
  <2>4. \A c \in Upgrades : /\ c <= commands' => target'[c] # None
                            /\ applying'[c].step # "none" => c <= commands'
    BY <1>t, <2>1, <2>2, <2>3 DEF UpgradeTyped
  <2>5. CASE received' = Append(received, commands') /\ parked' = parked
    <3>1. Len(received') = Len(received) + 1 /\ received' # <<>>
      BY <1>t, <2>1, <2>5
    <3>2. \A i \in DOMAIN received' : received'[i] <= commands'
      <4>1. commands' \in Nat /\ \A i \in DOMAIN received : received[i] <= commands'
        BY <1>t, <1>b, <2>1
      <4> QED BY <1>t, <2>1, <2>5, <4>1, AppendBelow
    <3>3. (handled + Len(received) + (IF parked = None THEN 0 ELSE 1) <= commands)'
      BY <1>t, <2>1, <2>3, <2>5, <3>1
    <3> QED BY <1>t, <2>1, <2>3, <2>4, <2>5, <3>1, <3>2, <3>3
  <2>6. CASE received' = received /\ parked' = commands'
    <3>2. \A i \in DOMAIN received' : received'[i] <= commands'
      BY <1>t, <1>b, <2>1, <2>6
    <3>3. (handled + Len(received) + (IF parked = None THEN 0 ELSE 1) <= commands)'
      BY <1>t, <2>1, <2>3, <2>6
    <3> QED BY <1>t, <2>1, <2>3, <2>4, <2>6, <3>2, <3>3
  <2> QED BY <1>1, <2>5, <2>6 DEF Upgrade
<1>2. CASE Connect
  <2>1. UNCHANGED <<commands, handled, target, applying, worker, running, ran>> /\ parked' = None
    BY <1>2 DEF Connect, duty
  <2>2. CASE parked = None
    BY <1>2, <1>t, <2>1, <2>2 DEF Connect
  <2>3. CASE parked # None
    <3>1. received' = Append(received, parked) /\ parked \in Upgrades
      BY <1>2, <2>3 DEF Connect, UpgradeTyped
    <3>2. Len(received') = Len(received) + 1 /\ received' # <<>>
      BY <1>t, <3>1
    <3>3. \A i \in DOMAIN received' : received'[i] <= commands'
      BY <1>t, <1>b, <2>1, <3>1, AppendBelow
    <3>4. (handled + Len(received) + (IF parked = None THEN 0 ELSE 1) <= commands)'
      BY <1>t, <2>1, <2>3, <3>2
    <3>5. parked' <= commands'
      BY <1>t, <2>1 DEF None
    <3>6. (online => running # None)'
      BY <1>2, <2>1 DEF Connect
    <3> QED BY <2>1, <3>2, <3>3, <3>4, <3>5, <3>6
  <2> QED BY <2>2, <2>3
<1>3. CASE Stage \/ ClearBackup \/ MoveAside \/ Install \/ PutBack
  <2>1. received # <<>> /\ UNCHANGED <<commands, parked, target, running, online, ran>>
    BY <1>3 DEF Stage, ClearBackup, MoveAside, Install, PutBack, agent, orders
  <2>2. \/ received' = received /\ handled' = handled
        \/ received' = Tail(received) /\ handled' \in {handled, handled + 1} /\ worker' = Rest
    BY <1>3 DEF Stage, ClearBackup, MoveAside, Install, PutBack, Refuse, Answer, To
  <2>3. Order \in Upgrades /\ Order <= commands
    BY <2>1, OrderIs
  <2>4. \A c \in Upgrades : applying'[c].step # "none" => c <= commands
    <3>1. applying' \in {applying, [applying EXCEPT ![Order] = [step |-> "restart", path |-> "exec"]]}
      BY <1>3 DEF Stage, ClearBackup, MoveAside, Install, PutBack, Refuse, To
    <3> QED BY <2>3, <3>1 DEF UpgradeTyped
  <2>5. CASE received' = received /\ handled' = handled
    BY <2>1, <2>4, <2>5
  <2>6. CASE received' = Tail(received) /\ handled' \in {handled, handled + 1} /\ worker' = Rest
    <3>1. Len(received') = Len(received) - 1 /\ Len(received) > 0
      BY <1>t, <2>1, <2>6
    <3>2. \A i \in DOMAIN received' : received'[i] <= commands
      BY <1>t, <2>1, <2>6
    <3>3. (handled + Len(received) + (IF parked = None THEN 0 ELSE 1) <= commands)'
      BY <1>t, <2>1, <2>6, <3>1
    <3> QED BY <2>1, <2>4, <2>6, <3>2, <3>3 DEF Rest
  <2> QED BY <2>2, <2>5, <2>6
<1>4. CASE Replaced
  <2>1. UNCHANGED <<parked, commands, target>> /\ received' = <<>> /\ handled' = 0
    BY <1>4 DEF Replaced, orders
  <2>2. \A c \in Upgrades : applying'[c].step = "none"
    BY <1>4 DEF Replaced, NoRestart
  <2>3. online' = FALSE /\ running' = disk["exec"] /\ ran' = ran \cup ({disk["exec"]} \ {None})
        /\ worker'.step = "idle"
    BY <1>4 DEF Replaced, Rest
  <2>4. (handled + Len(received) + (IF parked = None THEN 0 ELSE 1) <= commands)'
    BY <1>t, <2>1
  <2> QED BY <2>1, <2>2, <2>3, <2>4
<1>5. ASSUME NEW c \in Upgrades, RestartFails(c) \/ RollBack(c) \/ Restore(c)
      PROVE  IssuedInd'
  <2>1. UNCHANGED <<received, parked, commands, target, running, online, ran, worker>>
    BY <1>5 DEF RestartFails, RollBack, Restore, agent, orders
  <2>2. handled' \in {handled, 0}
    BY <1>5 DEF RestartFails, RollBack, Restore
  <2>3. \A d \in Upgrades : applying'[d].step # "none" => applying[d].step # "none"
    BY <1>5 DEF RestartFails, RollBack, Restore, Apply, UpgradeTyped
  <2> QED BY <1>t, <2>1, <2>2, <2>3
<1>6. CASE \/ UNCHANGED upgradeVars
           \/ \E p \in Callers : Read(p) \/ Put(p)
           \/ Poll \/ PollEnds \/ Publish \/ Receive \/ Ack \/ Beat \/ Disconnect \/ Heartbeat
  <2>1. UNCHANGED <<received, parked, commands, target, running, ran, duty>>
    BY <1>6 DEF upgradeVars, Read, Put, Poll, PollEnds, Publish, Receive, Ack, Beat, Look, Disconnect,
                Heartbeat, agent, duty, orders
  <2>2. online' => online
    BY <1>6 DEF upgradeVars, Read, Put, Poll, PollEnds, Publish, Receive, Ack, Beat, Look, Disconnect,
                Heartbeat, agent
  <2> QED BY <2>1, <2>2 DEF duty
<1> QED BY <1>1, <1>2, <1>3, <1>4, <1>5, <1>6 DEF UpgradeNext, Restart, AgentCrash

----------------------------------------------------------------------------
(* Files.  Each step of the worker or of a restart does one of these.            *)

LEMMA FileSteps ==
  ASSUME UpgradeTyped, IssuedInd, NEW p \in Paths, NEW q \in Paths, NEW v \in Versions
  PROVE  /\ Unlink(p) => /\ disk'[p] = None /\ \A x \in Paths \ {p} : disk'[x] = disk[x]
                         /\ mine' = mine /\ (kept' <=> (kept /\ mine # p))
         /\ Place(v, p) => /\ disk'[p] = v /\ \A x \in Paths \ {p} : disk'[x] = disk[x]
                           /\ mine' = mine /\ (kept' <=> (kept /\ mine # p))
         /\ Rename(p, q) => /\ disk'[p] = None
                            /\ p # q => disk'[q] = disk[p]
                            /\ \A x \in Paths \ {p, q} : disk'[x] = disk[x]
                            /\ mine' = (IF mine = p /\ kept THEN q ELSE mine)
                            /\ (kept' <=> (kept /\ mine # q))
  BY DEF UpgradeTyped, Unlink, Place, Rename

FilesQuiet == UNCHANGED <<files, follows, running, ran, duty>>

LEMMA QuietSteps ==
  ASSUME \/ UNCHANGED upgradeVars
         \/ \E p \in Callers : Read(p) \/ Put(p)
         \/ Poll \/ PollEnds \/ Publish \/ Upgrade \/ Receive \/ Ack \/ Beat
         \/ Connect \/ Disconnect \/ Heartbeat
  PROVE  FilesQuiet
  BY DEF FilesQuiet, upgradeVars, Read, Put, Poll, PollEnds, Publish, Upgrade, Receive, Ack, Beat, Look, Connect,
         Disconnect, Heartbeat, agent

\* What a step of the worker, or of a restart, does to the files.
LEMMA WorkerSteps ==
  ASSUME UpgradeTyped, IssuedInd, Stage \/ ClearBackup \/ MoveAside \/ Install \/ PutBack
  PROVE  /\ UNCHANGED <<book, known, agent, orders>> /\ received # <<>>
         /\ \/ /\ worker.step \in {"idle", "staged", "cleared"} /\ worker' = Rest
               /\ UNCHANGED <<files, applying, broken, handled>>
            \/ /\ worker.step = "undo" /\ worker' = Rest
               /\ broken' /\ UNCHANGED <<files, applying, handled>>
            \/ /\ worker.step = "idle" /\ worker' = [step |-> "staged", path |-> Exe]
               /\ UNCHANGED <<files, applying, broken, handled>>
            \/ /\ worker.step = "staged" /\ worker' = [step |-> "cleared", path |-> worker.path]
               /\ Unlink(Backup[worker.path]) /\ UNCHANGED <<applying, broken, handled>>
            \/ /\ worker.step = "cleared" /\ worker' = [step |-> "moved", path |-> worker.path]
               /\ disk[worker.path] # None /\ Rename(worker.path, Backup[worker.path])
               /\ UNCHANGED <<applying, broken, handled>>
            \/ /\ worker.step = "moved" /\ worker' = Rest /\ Place(target[Order], worker.path)
               /\ applying' = [applying EXCEPT ![Order] = [step |-> "restart", path |-> "exec"]]
               /\ handled' = handled + 1 /\ UNCHANGED broken
            \/ /\ worker.step = "moved" /\ worker' = [step |-> "undo", path |-> worker.path]
               /\ UNCHANGED <<files, applying, broken, handled>>
            \/ /\ worker.step = "undo" /\ worker' = Rest /\ disk[Backup[worker.path]] # None
               /\ Rename(Backup[worker.path], worker.path)
               /\ UNCHANGED <<applying, broken, handled>>
<1>1. UNCHANGED <<book, known, agent, orders>> /\ received # <<>>
  BY DEF Stage, ClearBackup, MoveAside, Install, PutBack, IssuedInd
<1>2. \A st : To(st) => worker' = [step |-> st, path |-> worker.path]
  BY DEF To, UpgradeTyped
<1>3. \A ok : Answer(ok) => worker' = Rest
  BY DEF Answer
<1>r. Refuse => worker' = Rest /\ UNCHANGED <<applying, broken, handled>>
  BY <1>3 DEF Refuse
<1>4. CASE Stage
  <2>1. worker.step = "idle" /\ UNCHANGED files
    BY <1>4 DEF Stage
  <2>2. \/ worker' = [step |-> "staged", path |-> Exe] /\ UNCHANGED <<applying, broken, handled>>
        \/ Refuse
    BY <1>4 DEF Stage
  <2> QED BY <1>1, <1>r, <2>1, <2>2
<1>5. CASE ClearBackup
  <2>1. worker.step = "staged"
    BY <1>5 DEF ClearBackup
  <2>2. \/ Unlink(Backup[worker.path]) /\ To("cleared")
        \/ Refuse /\ UNCHANGED files
    BY <1>5 DEF ClearBackup
  <2>3. To("cleared") => UNCHANGED <<applying, broken, handled>>
    BY DEF To
  <2> QED BY <1>1, <1>2, <1>r, <2>1, <2>2, <2>3
<1>6. CASE MoveAside
  <2>1. worker.step = "cleared"
    BY <1>6 DEF MoveAside
  <2>2. \/ disk[worker.path] # None /\ Rename(worker.path, Backup[worker.path]) /\ To("moved")
        \/ Refuse /\ UNCHANGED files
    BY <1>6 DEF MoveAside
  <2>3. To("moved") => UNCHANGED <<applying, broken, handled>>
    BY DEF To
  <2>4. CASE Refuse /\ UNCHANGED files
    BY <1>1, <1>r, <2>1, <2>4
  <2>5. CASE disk[worker.path] # None /\ Rename(worker.path, Backup[worker.path]) /\ To("moved")
    BY <1>1, <1>2, <2>1, <2>3, <2>5
  <2> QED BY <2>2, <2>4, <2>5
<1>7. CASE Install
  <2>1. worker.step = "moved"
    BY <1>7 DEF Install
  <2>2. \/ /\ Place(target[Order], worker.path) /\ Answer(TRUE) /\ handled' = handled + 1
           /\ applying' = [applying EXCEPT ![Order] = [step |-> "restart", path |-> "exec"]]
           /\ UNCHANGED broken
        \/ To("undo") /\ UNCHANGED files
    BY <1>7 DEF Install
  <2>3. To("undo") => UNCHANGED <<applying, broken, handled>>
    BY DEF To
  <2>4. CASE To("undo") /\ UNCHANGED files
    BY <1>1, <1>2, <2>1, <2>3, <2>4
  <2> QED BY <1>1, <1>3, <2>1, <2>2, <2>4
<1>8. CASE PutBack
  <2>1. worker.step = "undo"
    BY <1>8 DEF PutBack
  <2>2. \/ /\ disk[Backup[worker.path]] # None /\ Rename(Backup[worker.path], worker.path)
           /\ Refuse
        \/ broken' = TRUE /\ Answer(FALSE) /\ UNCHANGED <<files, applying, handled>>
    BY <1>8 DEF PutBack
  <2> QED BY <1>1, <1>3, <1>r, <2>1, <2>2
<1> QED BY <1>4, <1>5, <1>6, <1>7, <1>8

Becomes(c, st, pa) == applying' = [applying EXCEPT ![c] = [step |-> st, path |-> pa]]

LEMMA RestartSteps ==
  ASSUME UpgradeTyped, NEW c \in Upgrades, RestartFails(c) \/ RollBack(c) \/ Restore(c)
  PROVE  LET p == applying[c].path IN
         /\ UNCHANGED <<book, known, agent, orders, worker, received, messages, acked>>
         /\ \/ /\ applying[c].step = "restart" /\ Becomes(c, "remove", Exe)
               /\ UNCHANGED <<files, broken, handled>>
            \/ /\ applying[c].step \in {"remove", "restore"} /\ Becomes(c, "none", p)
               /\ disk[Backup[p]] = None /\ UNCHANGED <<files, handled>>
               /\ applying[c].step = "restore" => broken'
               /\ applying[c].step = "remove" => UNCHANGED broken
            \/ /\ applying[c].step = "remove" /\ Becomes(c, "restore", p)
               /\ Unlink(p) /\ UNCHANGED <<broken, handled>>
            \/ /\ applying[c].step = "restore" /\ Becomes(c, "none", p)
               /\ disk[Backup[p]] # None /\ Rename(Backup[p], p) /\ UNCHANGED broken
               /\ handled' = IF p = "exec" /\ handled = 1 THEN 0 ELSE handled
<1>1. CASE RestartFails(c)
  BY <1>1 DEF RestartFails, Apply, Becomes
<1>2. CASE RollBack(c)
  BY <1>2 DEF RollBack, Apply, Becomes
<1>3. CASE Restore(c)
  BY <1>3 DEF Restore, Apply, Becomes
<1> QED BY <1>1, <1>2, <1>3

LEMMA PathWorker ==
  ASSUME UpgradeTyped, IssuedInd, PathInd, Stage \/ ClearBackup \/ MoveAside \/ Install \/ PutBack
  PROVE  PathInd'
<1> DEFINE w == worker.path
           b == Backup[worker.path]
<1>1. UNCHANGED <<follows, running, ran>> /\ received # <<>>
  BY WorkerSteps DEF agent
<1>2. w \in Paths /\ b \in Paths /\ b # "exec" /\ target[Order] \in Versions /\ Order \in Upgrades
  BY <1>1, BackupIs, OrderIs DEF UpgradeTyped
<1>3. Rest.step = "idle" /\ Rest.path = "exec"
  BY DEF Rest
<1>4. "exec" \in Paths /\ "old" \in Paths /\ mine \in Paths
  BY DEF Paths, UpgradeTyped
<1>5. ASSUME worker' = Rest, UNCHANGED <<files, applying, handled>>
      PROVE  PathInd'
  BY <1>1, <1>3, <1>5 DEF PathInd, files, Swapping, Applied
<1>6. ASSUME worker.step = "idle", worker' = [step |-> "staged", path |-> Exe],
             UNCHANGED <<files, applying, handled>>
      PROVE  PathInd'
  BY <1>1, <1>6 DEF PathInd, files, Swapping, Applied, Exe
<1>7. ASSUME worker.step = "staged", worker' = [step |-> "cleared", path |-> w], Unlink(b),
             UNCHANGED <<applying, handled>>
      PROVE  PathInd'
  <2>1. mine' = mine /\ (kept' <=> (kept /\ mine # b))
    BY <1>2, <1>7, FileSteps
  <2>2. follows /\ mine' = "exec" => kept'
    BY <1>2, <2>1 DEF PathInd
  <2> QED BY <1>1, <1>7, <2>1, <2>2 DEF PathInd, Swapping, Applied
<1>8. ASSUME worker.step = "cleared", worker' = [step |-> "moved", path |-> w], Rename(w, b),
             UNCHANGED <<applying, handled>>
      PROVE  PathInd'
  <2>1. mine' = (IF mine = w /\ kept THEN b ELSE mine) /\ (kept' <=> (kept /\ mine # b))
    BY <1>2, <1>8, FileSteps
  <2>2. follows => mine' # "exec"
    BY <1>2, <1>8, <2>1 DEF PathInd
  <2> QED BY <1>1, <1>8, <2>1, <2>2 DEF PathInd, Swapping, Applied
<1>9. ASSUME worker.step = "moved", worker' = Rest, Place(target[Order], w),
             applying' = [applying EXCEPT ![Order] = [step |-> "restart", path |-> "exec"]],
             handled' = handled + 1
      PROVE  PathInd'
  <2>1. mine' = mine /\ (follows => mine # "exec")
    BY <1>2, <1>9, FileSteps DEF PathInd, Swapping
  <2>2. \A c \in Upgrades : \/ c = Order /\ applying'[c] = [step |-> "restart", path |-> "exec"]
                            \/ applying'[c] = applying[c]
    BY <1>2, <1>9 DEF UpgradeTyped
  <2>3. handled \in Nat
    BY DEF UpgradeTyped
  <2>4. handled' = 1 => \A c, d \in Upgrades : Applied(c)' /\ Applied(d)' => c = d
    BY <1>9, <2>2, <2>3 DEF PathInd, Applied
  <2>5. \A c \in Upgrades : (applying'[c].step \in {"remove", "restore"} => applying'[c] = applying[c])
                            /\ (applying'[c].path = "exec" \/ applying'[c] = applying[c])
    BY <2>2
  <2>6. handled' # 0
    BY <1>9, <2>3
  <2> QED BY <1>1, <1>3, <1>9, <2>1, <2>4, <2>5, <2>6 DEF PathInd, Swapping
<1>10. ASSUME worker.step = "moved", worker' = [step |-> "undo", path |-> w],
              UNCHANGED <<files, applying, handled>>
       PROVE  PathInd'
  BY <1>1, <1>10 DEF PathInd, files, Swapping, Applied
<1>11. ASSUME worker.step = "undo", worker' = Rest, Rename(b, w), UNCHANGED <<applying, handled>>
       PROVE  PathInd'
  <2>1. mine' = (IF mine = b /\ kept THEN w ELSE mine) /\ (kept' <=> (kept /\ mine # w))
    BY <1>2, <1>11, FileSteps
  <2>2. follows => mine # "exec" /\ (mine' = "exec" => w = "exec" /\ kept)
    BY <1>11, <2>1 DEF PathInd, Swapping
  <2>3. follows /\ handled > 0 => mine' # "exec"
    BY <1>11, <2>2 DEF PathInd
  <2>4. follows /\ mine' = "exec" => kept'
    BY <2>1, <2>2
  <2> QED BY <1>1, <1>3, <1>11, <2>3, <2>4 DEF PathInd, Swapping, Applied
<1> QED BY <1>5, <1>6, <1>7, <1>8, <1>9, <1>10, <1>11, WorkerSteps

LEMMA PathKept ==
  ASSUME UpgradeTyped, IssuedInd, PathInd, [UpgradeNext]_upgradeVars
  PROVE  PathInd'
<1>1. CASE FilesQuiet
  BY <1>1 DEF FilesQuiet, files, duty, PathInd, Swapping, Applied
<1>2. CASE Replaced
  <2>1. mine' = "exec" /\ kept' = TRUE /\ worker' = Rest /\ applying' = NoRestart /\ handled' = 0
    BY <1>2 DEF Replaced
  <2>2. Rest.step = "idle" /\ Rest.path = "exec"
        /\ \A c \in Upgrades : NoRestart[c].step = "none" /\ NoRestart[c].path = "exec"
    BY DEF Rest, NoRestart
  <2> QED BY <2>1, <2>2 DEF PathInd, Swapping, Applied
<1>3. ASSUME NEW c \in Upgrades, RestartFails(c) \/ RollBack(c) \/ Restore(c)
      PROVE  PathInd'
  <2> DEFINE p == applying[c].path
             b == Backup[applying[c].path]
  <2>1. UNCHANGED <<follows, worker>>
    BY <1>3, RestartSteps DEF agent
  <2>2. p \in Paths /\ b \in Paths /\ b # "exec" /\ 1 \in Versions
    BY BackupIs, UpgradeAssumption DEF UpgradeTyped, Versions
  <2>3. \A d \in Upgrades : d # c => applying'[d] = applying[d]
    BY <1>3, RestartSteps DEF Becomes, UpgradeTyped
  <2>4. ASSUME applying[c].step = "restart", Becomes(c, "remove", Exe), UNCHANGED <<files, handled>>
        PROVE  PathInd'
    <3>1. applying'[c] = [step |-> "remove", path |-> Exe]
      BY <2>4 DEF Becomes, UpgradeTyped
    <3>2. handled # 0 /\ handled \in Nat
      BY <2>4 DEF PathInd, Applied, UpgradeTyped
    <3> QED BY <2>1, <2>3, <2>4, <3>1, <3>2 DEF PathInd, Swapping, Applied, files, Exe
  <2>5. ASSUME Becomes(c, "none", p), UNCHANGED <<files, handled>>
        PROVE  PathInd'
    <3>1. applying'[c] = [step |-> "none", path |-> p]
      BY <2>5 DEF Becomes, UpgradeTyped
    <3> QED BY <2>1, <2>3, <2>5, <3>1 DEF PathInd, Swapping, Applied, files
  <2>6. ASSUME applying[c].step = "remove", Becomes(c, "restore", p), Unlink(p), UNCHANGED handled
        PROVE  PathInd'
    <3>1. applying'[c] = [step |-> "restore", path |-> p]
      BY <2>6 DEF Becomes, UpgradeTyped
    <3>2. mine' = mine /\ (kept' <=> (kept /\ mine # p))
      BY <2>2, <2>6, FileSteps
    <3>3. follows => p # "exec"
      BY <2>6 DEF PathInd
    <3> QED BY <2>1, <2>3, <2>6, <3>1, <3>2, <3>3 DEF PathInd, Swapping, Applied
  <2>7. ASSUME applying[c].step = "restore", Becomes(c, "none", p), Rename(b, p),
               handled' = IF p = "exec" /\ handled = 1 THEN 0 ELSE handled
        PROVE  PathInd'
    <3>1. applying'[c] = [step |-> "none", path |-> p]
      BY <2>7 DEF Becomes, UpgradeTyped
    <3>2. mine' = (IF mine = b /\ kept THEN p ELSE mine) /\ (kept' <=> (kept /\ mine # p))
      BY <2>2, <2>7, FileSteps
    <3>3. follows => p # "exec" /\ handled' = handled
      BY <2>7 DEF PathInd
    <3>4. follows => (mine' = "exec" => kept') /\ (mine # "exec" => mine' # "exec")
                     /\ (mine = "exec" => mine' = "exec")
      BY <2>2, <3>2, <3>3 DEF PathInd
    <3>6. handled' = 0 => \A d \in Upgrades : ~Applied(d)'
      BY <2>3, <2>7, <3>1 DEF PathInd, Applied
    <3> QED BY <2>1, <2>3, <2>7, <3>1, <3>3, <3>4, <3>6 DEF PathInd, Swapping, Applied
  <2> QED BY <1>3, <2>4, <2>5, <2>6, <2>7, RestartSteps
<1> QED BY <1>1, <1>2, <1>3, PathWorker, QuietSteps DEF UpgradeNext, Restart, AgentCrash

----------------------------------------------------------------------------
(* Versions *)

LEMMA Numbers ==
  ASSUME UpgradeTyped
  PROVE  /\ Versions \subseteq Nat /\ packaged \in Nat /\ ran \subseteq Nat /\ running \in Nat
         /\ \A p \in Paths : disk[p] \in Nat
         /\ \A c \in Upgrades : target[c] \in Nat
         /\ "exec" \in Paths /\ "old" \in Paths
  BY UpgradeAssumption DEF UpgradeTyped, Versions, None, Paths

\* The console only raises what it offers, and a command keeps its version.
LEMMA VersionQuiet ==
  ASSUME UpgradeTyped, IssuedInd, VersionInd, FilesQuiet,
         packaged' \in Nat, packaged <= packaged',
         \A c \in Upgrades : target'[c] \in Nat /\ target'[c] <= packaged',
         \A c \in Upgrades : c <= commands => target'[c] = target[c],
         received # <<>> => Head(received') = Head(received)
  PROVE  VersionInd'
<1>1. UNCHANGED <<disk, follows, running, ran, worker, applying>>
  BY DEF FilesQuiet, files, duty
<1>2. ASSUME worker.step # "idle"
      PROVE  target'[Order'] = target[Order]
  <2>1. received # <<>>
    BY <1>2 DEF IssuedInd
  <2>2. Order' = Order /\ Order \in Upgrades /\ Order <= commands
    BY <2>1, OrderIs DEF Order
  <2> QED BY <2>2
<1>3. \A p \in Paths : disk'[p] <= packaged'
  BY <1>1, Numbers DEF VersionInd
<1>4. \A r \in ran' : r <= packaged'
  BY <1>1, Numbers DEF VersionInd
<1>5. worker'.step # "idle" => /\ \A p \in Paths : disk'[p] <= target'[Order']
                               /\ \A r \in ran' : r <= target'[Order']
  BY <1>1, <1>2 DEF VersionInd
<1>6. NotBelow(disk["exec"])' /\ NoDowngrade'
  BY <1>1 DEF VersionInd, NotBelow, NoDowngrade
<1>7. (\/ worker.step \in {"cleared", "moved", "undo"} /\ worker.path = "exec"
       \/ ~follows /\ \E c \in Upgrades : Applied(c))' => NotBelow(disk["old"])'
  BY <1>1 DEF VersionInd, NotBelow, Applied
<1> QED BY <1>3, <1>4, <1>5, <1>6, <1>7 DEF VersionInd

LEMMA VersionConsole ==
  ASSUME UpgradeTyped, IssuedInd, VersionInd,
         \/ UNCHANGED upgradeVars
         \/ \E p \in Callers : Read(p) \/ Put(p)
         \/ Poll \/ PollEnds \/ Publish \/ Upgrade \/ Receive \/ Ack \/ Beat
         \/ Connect \/ Disconnect \/ Heartbeat
  PROVE  VersionInd'
<1>1. FilesQuiet
  BY QuietSteps
<1>2. CASE Publish
  <2>1. packaged' = packaged + 1 /\ UNCHANGED <<target, received, commands>>
    BY <1>2 DEF Publish
  <2>2. \A c \in Upgrades : target[c] <= packaged'
    BY <2>1, Numbers DEF VersionInd
  <2> QED BY <1>1, <2>1, <2>2, Numbers, VersionQuiet
<1>3. CASE Upgrade
  <2>1. commands' = commands + 1 /\ commands \in Nat /\ packaged' = packaged
    BY <1>3 DEF Upgrade, UpgradeTyped
  <2>2. target' = [target EXCEPT ![commands'] = packaged] /\ target \in [Upgrades -> {None} \cup Versions]
    BY <1>3 DEF Upgrade, UpgradeTyped
  <2>3. received' \in {received, Append(received, commands')} /\ received \in Seq(Upgrades)
    BY <1>3 DEF Upgrade, UpgradeTyped
  <2>4. \A c \in Upgrades : target'[c] \in {target[c], packaged}
    BY <2>2
  <2>5. \A c \in Upgrades : c <= commands => target'[c] = target[c]
    BY <2>1, <2>2 DEF Upgrades
  <2>6. received # <<>> => Head(received') = Head(received)
    BY <2>3
  <2>7. \A c \in Upgrades : target'[c] \in Nat /\ target'[c] <= packaged'
    BY <2>1, <2>4, Numbers DEF VersionInd
  <2>8. packaged' \in Nat /\ packaged <= packaged'
    BY <2>1, Numbers
  <2> QED BY <1>1, <2>5, <2>6, <2>7, <2>8, VersionQuiet
<1>4. CASE Connect
  <2>1. UNCHANGED <<packaged, target, commands>>
    BY <1>4 DEF Connect
  <2>2. \/ received' = received
        \/ parked \in Upgrades /\ received' = Append(received, parked)
    BY <1>4 DEF Connect, UpgradeTyped
  <2>s. received \in Seq(Upgrades)
    BY DEF UpgradeTyped
  <2>a. parked \in Upgrades /\ received # <<>> => Head(Append(received, parked)) = Head(received)
    BY <2>s
  <2>3. received # <<>> => Head(received') = Head(received)
    BY <2>2, <2>a
  <2>4. \A c \in Upgrades : target'[c] <= packaged'
    BY <2>1 DEF VersionInd
  <2>5. packaged' \in Nat /\ packaged <= packaged' /\ \A c \in Upgrades : target'[c] \in Nat
    BY <2>1, Numbers
  <2> QED BY <1>1, <2>1, <2>3, <2>4, <2>5, VersionQuiet
<1>5. CASE \/ UNCHANGED upgradeVars
           \/ \E p \in Callers : Read(p) \/ Put(p)
           \/ Poll \/ PollEnds \/ Receive \/ Ack \/ Beat \/ Disconnect \/ Heartbeat
  <2>1. UNCHANGED <<packaged, target, commands, received>>
    BY <1>5 DEF upgradeVars, Read, Put, Poll, PollEnds, Receive, Ack, Beat, Look, Disconnect, Heartbeat, orders
  <2>2. \A c \in Upgrades : target'[c] <= packaged'
    BY <2>1 DEF VersionInd
  <2>3. packaged' \in Nat /\ packaged <= packaged' /\ \A c \in Upgrades : target'[c] \in Nat
    BY <2>1, Numbers
  <2> QED BY <1>1, <2>1, <2>2, <2>3, VersionQuiet
<1> QED BY <1>2, <1>3, <1>4, <1>5

LEMMA VersionWorker ==
  ASSUME UpgradeTyped, IssuedInd, PathInd, VersionInd,
         Stage \/ ClearBackup \/ MoveAside \/ Install \/ PutBack
  PROVE  VersionInd'
<1> DEFINE w == worker.path
           b == Backup[worker.path]
           v == target[Order]
<1>1. UNCHANGED <<follows, running, ran, packaged, target>> /\ received # <<>>
  BY WorkerSteps DEF agent, orders
<1>2. /\ w \in Paths /\ b \in Paths /\ b # "exec" /\ v \in Versions /\ Order \in Upgrades
      /\ Backup["exec"] = "old"
  BY <1>1, BackupIs, OrderIs DEF UpgradeTyped
<1>3. Rest.step = "idle" /\ Rest.path = "exec"
  BY DEF Rest
<1>4. NoDowngrade' /\ (\A r \in ran' : r <= packaged') /\ (\A c \in Upgrades : target'[c] <= packaged')
  BY <1>1 DEF VersionInd, NoDowngrade
<1>5. ASSUME worker' = Rest, UNCHANGED <<files, applying>>
      PROVE  VersionInd'
  BY <1>1, <1>3, <1>4, <1>5 DEF VersionInd, NotBelow, files, Applied
<1>6. ASSUME Stage, worker.step = "idle", worker' = [step |-> "staged", path |-> Exe],
             UNCHANGED <<files, applying>>
      PROVE  VersionInd'
  <2>1. worker' # Rest
    BY <1>3, <1>6
  <2>2. packaged = target[Order] /\ received' = received
    BY <1>6, <2>1 DEF Stage, Refuse, Answer
  <2>3. target'[Order'] = packaged
    BY <1>1, <2>2 DEF Order
  <2> QED BY <1>1, <1>4, <1>6, <2>3 DEF VersionInd, NotBelow, files, Applied
<1>o. worker.step # "idle" => /\ \A p \in Paths : disk[p] <= v
                              /\ \A r \in ran : r <= v
  BY DEF VersionInd
<1>n. worker'.step # "idle" /\ worker.step # "idle" => target'[Order'] = v
  <2>1. worker'.step # "idle" => received' = received
    BY <1>3 DEF Stage, ClearBackup, MoveAside, Install, PutBack, Refuse, Answer
  <2> QED BY <1>1, <2>1 DEF Order
<1>7. ASSUME worker.step = "staged", worker' = [step |-> "cleared", path |-> w], Unlink(b),
             UNCHANGED applying
      PROVE  VersionInd'
  <2>1. disk'[b] = None /\ \A x \in Paths \ {b} : disk'[x] = disk[x]
    BY <1>2, <1>7, FileSteps
  <2>2. \A p \in Paths : disk'[p] <= packaged /\ disk'[p] <= v
    BY <1>2, <1>7, <1>o, <2>1, Numbers DEF VersionInd, None
  <2>3. disk'["exec"] = disk["exec"] /\ disk'["old"] \in {None, disk["old"]}
        /\ (w = "exec" => disk'["old"] = None)
    BY <1>2, <2>1, Numbers
  <2>4. ~follows => w = "exec"
    BY DEF PathInd
  <2> QED BY <1>1, <1>4, <1>7, <1>o, <1>n, <2>2, <2>3, <2>4 DEF VersionInd, NotBelow
<1>8. ASSUME worker.step = "cleared", worker' = [step |-> "moved", path |-> w], Rename(w, b),
             UNCHANGED applying
      PROVE  VersionInd'
  <2>1. /\ disk'[w] = None /\ \A x \in Paths \ {w, b} : disk'[x] = disk[x]
        /\ w # b => disk'[b] = disk[w]
    BY <1>2, <1>8, FileSteps
  <2>2. \A p \in Paths : disk'[p] \in {None} \cup {disk[x] : x \in Paths}
    BY <1>2, <2>1
  <2>3. \A p \in Paths : disk'[p] <= packaged /\ disk'[p] <= v
    BY <1>2, <1>8, <1>o, <2>2, Numbers DEF VersionInd, None
  <2>4. w = "exec" => disk'["exec"] = None /\ disk'["old"] = disk["exec"]
    BY <1>2, <2>1
  <2>5. w # "exec" => disk'["exec"] = disk["exec"]
    BY <1>2, <2>1, Numbers
  <2>6. NotBelow(disk["exec"])' /\ (w = "exec" => NotBelow(disk["old"])')
    BY <1>1, <2>4, <2>5 DEF VersionInd, NotBelow
  <2>7. ~follows => w = "exec"
    BY DEF PathInd
  <2> QED BY <1>1, <1>4, <1>8, <1>n, <1>o, <2>3, <2>6, <2>7 DEF VersionInd
<1>9. ASSUME worker.step = "moved", worker' = Rest, Place(v, w)
      PROVE  VersionInd'
  <2>1. disk'[w] = v /\ \A x \in Paths \ {w} : disk'[x] = disk[x]
    BY <1>2, <1>9, FileSteps
  <2>2. \A p \in Paths : disk'[p] <= packaged
    BY <1>2, <2>1, Numbers DEF VersionInd
  <2>3. NotBelow(disk["exec"])'
    BY <1>1, <1>2, <1>9, <1>o, <2>1, Numbers DEF VersionInd, NotBelow
  <2>4. ~follows => w = "exec" /\ disk'["old"] = disk["old"] /\ NotBelow(disk["old"])
    BY <1>9, <2>1, Numbers DEF PathInd, VersionInd
  <2>5. ~follows => NotBelow(disk["old"])'
    BY <1>1, <2>4 DEF NotBelow
  <2> QED BY <1>1, <1>3, <1>4, <1>9, <2>2, <2>3, <2>5 DEF VersionInd
<1>10. ASSUME worker.step = "moved", worker' = [step |-> "undo", path |-> w],
              UNCHANGED <<files, applying>>
       PROVE  VersionInd'
  BY <1>1, <1>4, <1>10, <1>n DEF VersionInd, NotBelow, files, Applied
<1>11. ASSUME worker.step = "undo", worker' = Rest, Rename(b, w), UNCHANGED applying
       PROVE  VersionInd'
  <2>1. /\ disk'[b] = None /\ \A x \in Paths \ {w, b} : disk'[x] = disk[x]
        /\ w # b => disk'[w] = disk[b]
    BY <1>2, <1>11, FileSteps
  <2>2. \A p \in Paths : disk'[p] \in {None} \cup {disk[x] : x \in Paths}
    BY <1>2, <2>1
  <2>3. \A p \in Paths : disk'[p] <= packaged
    BY <1>2, <2>2, Numbers DEF VersionInd, None
  <2>4. w = "exec" => disk'["exec"] = disk["old"] /\ disk'["old"] = None /\ NotBelow(disk["old"])
    BY <1>2, <1>11, <2>1 DEF VersionInd
  <2>5. w # "exec" => disk'["exec"] = disk["exec"]
    BY <1>2, <2>1, Numbers
  <2>6. NotBelow(disk["exec"])' /\ (w = "exec" => NotBelow(disk["old"])')
    BY <1>1, <2>4, <2>5 DEF VersionInd, NotBelow
  <2>7. ~follows => w = "exec"
    BY DEF PathInd
  <2> QED BY <1>1, <1>3, <1>4, <1>11, <2>3, <2>6, <2>7 DEF VersionInd
<1>12. worker' = [step |-> "staged", path |-> Exe] /\ worker.step = "idle" => Stage
  BY DEF ClearBackup, MoveAside, Install, PutBack
<1> QED BY <1>5, <1>6, <1>7, <1>8, <1>9, <1>10, <1>11, <1>12, WorkerSteps

LEMMA VersionKept ==
  ASSUME UpgradeTyped, IssuedInd, PathInd, VersionInd, [UpgradeNext]_upgradeVars
  PROVE  VersionInd'
<1>1. CASE Replaced
  <2>1. UNCHANGED <<disk, packaged, target>> /\ running' = disk["exec"]
        /\ ran' = ran \cup ({disk["exec"]} \ {None})
    BY <1>1 DEF Replaced, orders
  <2>2. worker'.step = "idle" /\ \A c \in Upgrades : ~Applied(c)'
    BY <1>1 DEF Replaced, Rest, NoRestart, Applied
  <2>3. NotBelow(disk["exec"])' /\ NoDowngrade'
    BY <2>1, Numbers DEF VersionInd, NotBelow, NoDowngrade
  <2>4. \A r \in ran' : r <= packaged'
    BY <2>1, Numbers DEF VersionInd
  <2> QED BY <2>1, <2>2, <2>3, <2>4 DEF VersionInd
<1>2. ASSUME NEW c \in Upgrades, RestartFails(c) \/ RollBack(c) \/ Restore(c)
      PROVE  VersionInd'
  <2> DEFINE p == applying[c].path
             b == Backup[applying[c].path]
  <2>1. UNCHANGED <<follows, running, ran, packaged, target, worker, received>>
    BY <1>2, RestartSteps DEF agent, orders
  <2>2. p \in Paths /\ b \in Paths /\ b # "exec" /\ 1 \in Versions /\ Backup["exec"] = "old"
    BY BackupIs, UpgradeAssumption DEF UpgradeTyped, Versions
  <2>3. applying[c].step # "none"
    BY <1>2, RestartSteps
  <2>4. (\E d \in Upgrades : Applied(d)') => \E d \in Upgrades : Applied(d)
    BY <2>3 DEF Applied
  <2>5. \/ UNCHANGED disk
        \/ Unlink(p)
        \/ applying[c].step = "restore" /\ Rename(b, p)
    BY <1>2, RestartSteps DEF files
  <2>6. Order' = Order
    BY <2>1 DEF Order
  <2>7. CASE UNCHANGED disk
    BY <2>1, <2>4, <2>6, <2>7 DEF VersionInd, NotBelow, NoDowngrade
  <2>8. CASE Unlink(p)
    <3>1. \A x \in Paths : disk'[x] \in {None, disk[x]}
      BY <2>2, <2>8, FileSteps
    <3>2. worker.step # "idle" => target[Order] \in Nat
      BY OrderIs, Numbers DEF IssuedInd
    <3>3. \A x \in Paths : disk'[x] <= packaged /\ (worker.step # "idle" => disk'[x] <= target[Order])
      BY <3>1, <3>2, Numbers DEF VersionInd, None
    <3>4. NotBelow(disk["exec"])' /\ (NotBelow(disk["old"]) => NotBelow(disk["old"])')
      BY <2>1, <3>1, Numbers DEF VersionInd, NotBelow
    <3> QED BY <2>1, <2>4, <2>6, <3>3, <3>4 DEF VersionInd, NoDowngrade
  <2>9. CASE applying[c].step = "restore" /\ Rename(b, p)
    <3>1. /\ disk'[b] = None /\ \A x \in Paths \ {p, b} : disk'[x] = disk[x]
          /\ p # b => disk'[p] = disk[b]
      BY <2>2, <2>9, FileSteps
    <3>2. \A x \in Paths : disk'[x] \in {None} \cup {disk[y] : y \in Paths}
      BY <2>2, <3>1
    <3>3. worker.step # "idle" => target[Order] \in Nat
      BY OrderIs, Numbers DEF IssuedInd
    <3>4. \A x \in Paths : disk'[x] <= packaged /\ (worker.step # "idle" => disk'[x] <= target[Order])
      BY <3>2, <3>3, Numbers DEF VersionInd, None
    <3>5. follows => p # "exec"
      BY <2>9 DEF PathInd
    <3>6. ~follows => p = "exec"
      BY DEF PathInd
    <3>7. NotBelow(disk["exec"])'
      <4>1. CASE p = "exec"
        <5>1. NotBelow(disk["old"])
          BY <2>3, <3>5, <4>1 DEF VersionInd, Applied
        <5> QED BY <2>1, <2>2, <3>1, <4>1, <5>1 DEF NotBelow
      <4>2. CASE p # "exec"
        BY <2>1, <2>2, <3>1, <4>2, Numbers DEF NotBelow, VersionInd
      <4> QED BY <4>1, <4>2
    <3>8. p = "exec" => NotBelow(disk["old"])'
      BY <2>2, <3>1 DEF NotBelow
    <3>9. follows /\ worker.step \in {"cleared", "moved", "undo"} /\ worker.path = "exec" => FALSE
      <4>1. handled # 0 /\ handled \in Nat
        BY <2>3 DEF PathInd, Applied, UpgradeTyped
      <4> QED BY <4>1 DEF PathInd
    <3> QED BY <2>1, <2>6, <3>4, <3>6, <3>7, <3>8, <3>9 DEF VersionInd, NoDowngrade
  <2> QED BY <2>5, <2>7, <2>8, <2>9
<1> QED BY <1>1, <1>2, VersionConsole, VersionWorker DEF UpgradeNext, Restart, AgentCrash

----------------------------------------------------------------------------
(* Where the binaries are *)

LEMMA TargetKept ==
  ASSUME UpgradeTyped, IssuedInd, UpgradeNext \/ UNCHANGED upgradeVars,
         NEW c \in Upgrades, Applied(c)
  PROVE  target'[c] = target[c]
<1>1. CASE Upgrade
  <2>1. commands' = commands + 1 /\ commands \in Nat /\ target' = [target EXCEPT ![commands'] = packaged]
    BY <1>1 DEF Upgrade, UpgradeTyped
  <2>2. c <= commands /\ c \in Nat
    BY DEF IssuedInd, Applied, Upgrades
  <2> QED BY <2>1, <2>2 DEF UpgradeTyped
<1>2. CASE ~Upgrade
  <2>1. UNCHANGED target
    BY <1>2 DEF UpgradeNext, upgradeVars, Read, Put, Poll, PollEnds, Publish, Receive, Ack, Beat, Look,
                Stage, ClearBackup, MoveAside, Install, PutBack, Restart, RestartFails, RollBack, Restore,
                AgentCrash, Replaced, Connect, Disconnect, Heartbeat, orders
  <2> QED BY <2>1
<1> QED BY <1>1, <1>2

LEMMA PlaceQuiet ==
  ASSUME UpgradeTyped, PlaceInd, FilesQuiet, \A c \in Upgrades : Applied(c) => target'[c] = target[c]
  PROVE  PlaceInd'
<1>1. UNCHANGED <<disk, mine, kept, follows, running, worker, applying, broken, handled>>
  BY DEF FilesQuiet, files, duty
<1>2. \A c \in Upgrades : applying[c].step = "restart" => target'[c] = target[c]
  BY DEF Applied
<1> QED BY <1>1, <1>2 DEF PlaceInd, ExecThere, OwnPlace, AckedPlace, Swapping, ExecMoved, Applied

LEMMA PlaceReplaced ==
  ASSUME UpgradeTyped, PlaceInd, Replaced
  PROVE  PlaceInd'
<1>1. /\ UNCHANGED <<disk, follows>> /\ running' = disk["exec"] /\ mine' = "exec" /\ kept' = TRUE
      /\ worker' = Rest /\ applying' = NoRestart /\ handled' = 0
      /\ broken' = (broken \/ worker.step \in {"moved", "undo"}
                      \/ \E c \in Upgrades : applying[c].step = "restore")
  BY DEF Replaced
<1>2. Rest.step = "idle" /\ \A c \in Upgrades : NoRestart[c].step = "none"
  BY DEF Rest, NoRestart
<1>3. ~Swapping' /\ ~ExecMoved'
  BY <1>1, <1>2 DEF Swapping, ExecMoved
<1>4. ASSUME disk'["exec"] = None, ~broken'
      PROVE  FALSE
  <2>1. ~broken /\ ~Swapping /\ \A c \in Upgrades : applying[c].step # "restore"
    BY <1>1, <1>4 DEF Swapping
  <2> QED BY <1>1, <1>4, <2>1 DEF PlaceInd, ExecThere, ExecMoved
<1>5. disk'["exec"] = running' /\ mine' = "exec" /\ worker'.step = "idle" /\ handled' = 0
  BY <1>1, <1>2
<1> QED BY <1>3, <1>4, <1>5 DEF PlaceInd, ExecThere, OwnPlace, AckedPlace

LEMMA PlaceWorker ==
  ASSUME UpgradeTyped, IssuedInd, PathInd, PlaceInd,
         Stage \/ ClearBackup \/ MoveAside \/ Install \/ PutBack
  PROVE  PlaceInd'
<1> DEFINE w == worker.path
           b == Backup[worker.path]
           v == target[Order]
<1> USE DEF PlaceInd, ExecThere, OwnPlace, AckedPlace
<1>1. UNCHANGED <<follows, running, target>> /\ received # <<>>
  BY WorkerSteps DEF agent, orders
<1>2. /\ w \in Paths /\ b \in Paths /\ b # "exec" /\ v \in Versions /\ Order \in Upgrades
      /\ Backup["exec"] = "old" /\ v # None
  BY <1>1, BackupIs, OrderIs DEF UpgradeTyped, Versions, None
<1>3. Rest.step = "idle" /\ Rest.path = "exec"
  BY DEF Rest
<1>4. "exec" \in Paths /\ "old" \in Paths
  BY DEF Paths
<1>f. ~follows => w = "exec"
  BY DEF PathInd
<1>5. ASSUME worker.step \in {"idle", "staged", "cleared"}, worker' = Rest,
             UNCHANGED <<files, applying, broken, handled>>
      PROVE  PlaceInd'
  BY <1>1, <1>3, <1>5 DEF files, Swapping, ExecMoved, Applied
<1>6. ASSUME worker' = Rest, broken', UNCHANGED <<files, applying, handled>>
      PROVE  PlaceInd'
  BY <1>6
<1>7. ASSUME worker.step = "idle", worker' = [step |-> "staged", path |-> Exe],
             UNCHANGED <<files, applying, broken, handled>>
      PROVE  PlaceInd'
  BY <1>1, <1>7 DEF files, Swapping, ExecMoved, Applied, Exe
<1>8. ASSUME worker.step = "staged", worker' = [step |-> "cleared", path |-> w], Unlink(b),
             UNCHANGED <<applying, broken, handled>>
      PROVE  PlaceInd'
  <2>1. disk'["exec"] = disk["exec"] /\ disk'["old"] \in {None, disk["old"]} /\ mine' = mine
    BY <1>2, <1>4, <1>8, FileSteps
  <2>2. ~Swapping /\ ~Swapping' /\ ~ExecMoved /\ ~ExecMoved'
    BY <1>8 DEF Swapping, ExecMoved
  <2> QED BY <1>1, <1>8, <2>1, <2>2 DEF Applied
<1>9. ASSUME worker.step = "cleared", worker' = [step |-> "moved", path |-> w], disk[w] # None,
             Rename(w, b), UNCHANGED <<applying, broken, handled>>
      PROVE  PlaceInd'
  <2>1. /\ disk'[w] = None /\ \A x \in Paths \ {w, b} : disk'[x] = disk[x]
        /\ w # b => disk'[b] = disk[w]
        /\ mine' = (IF mine = w /\ kept THEN b ELSE mine) /\ (kept' <=> (kept /\ mine # b))
    BY <1>2, <1>9, FileSteps
  <2>2. w = "exec" => disk'["exec"] = None /\ disk'["old"] = disk["exec"] /\ disk["exec"] # None
    BY <1>2, <1>9, <2>1
  <2>3. w # "exec" => disk'["exec"] = disk["exec"]
    BY <1>2, <1>4, <2>1
  <2>4. ~Swapping /\ Swapping' /\ ~ExecMoved /\ (ExecMoved' <=> w = "exec")
    BY <1>9 DEF Swapping, ExecMoved
  <2>5. w = "exec" /\ follows => mine = "exec" /\ kept /\ mine' = "old" /\ kept'
    BY <1>2, <1>9, <2>1 DEF PathInd
  <2>6. ExecThere'
    BY <1>9, <2>3, <2>4
  <2>7. OwnPlace'
    BY <1>1, <1>9, <2>2, <2>4, <2>5
  <2>8. AckedPlace'
    BY <1>1, <1>9, <2>2, <2>3, <2>4
  <2> QED BY <2>6, <2>7, <2>8
<1>10. ASSUME worker.step = "moved", worker' = Rest, Place(v, w),
              applying' = [applying EXCEPT ![Order] = [step |-> "restart", path |-> "exec"]],
              handled' = handled + 1, UNCHANGED broken
       PROVE  PlaceInd'
  <2>1. disk'[w] = v /\ \A x \in Paths \ {w} : disk'[x] = disk[x]
    BY <1>2, <1>10, FileSteps
  <2>2. handled \in Nat /\ Swapping /\ ~Swapping' /\ ~ExecMoved'
    BY <1>3, <1>10 DEF UpgradeTyped, Swapping, ExecMoved
  <2>3. ExecThere'
    <3> SUFFICES ASSUME disk'["exec"] = None
                 PROVE  broken'
      OBVIOUS
    <3>1. w # "exec" /\ disk["exec"] = None
      BY <1>2, <1>4, <2>1
    <3>2. follows /\ ~ExecMoved /\ \A c \in Upgrades : applying[c] # [step |-> "restore", path |-> "exec"]
      BY <1>f, <3>1 DEF ExecMoved, PathInd
    <3> QED BY <1>10, <3>1, <3>2
  <2>4. OwnPlace'
    BY <1>10, <2>2
  <2>5. ASSUME ~broken', handled' = 1
        PROVE  /\ ~follows => disk'["old"] \in {None, running}
               /\ \A c \in Upgrades : applying'[c].step = "restart" => target[c] = disk'["exec"]
    <3>1. handled = 0 /\ ~broken /\ w = "exec"
      BY <1>10, <2>2, <2>5
    <3>2. disk'["old"] = disk["old"] /\ disk["old"] \in {None, running} /\ disk'["exec"] = v
      BY <1>4, <2>1, <2>2, <3>1
    <3>3. \A c \in Upgrades : c # Order => applying'[c] = applying[c] /\ applying[c].step = "none"
      BY <1>2, <1>10, <3>1 DEF PathInd, Applied, UpgradeTyped
    <3> QED BY <3>2, <3>3
  <2>6. AckedPlace'
    BY <1>1, <2>2, <2>5
  <2> QED BY <2>3, <2>4, <2>6
<1>11. ASSUME worker.step = "moved", worker' = [step |-> "undo", path |-> w],
              UNCHANGED <<files, applying, broken, handled>>
       PROVE  PlaceInd'
  BY <1>1, <1>11 DEF files, Swapping, ExecMoved, Applied
<1>12. ASSUME worker.step = "undo", worker' = Rest, disk[b] # None, Rename(b, w),
              UNCHANGED <<applying, broken, handled>>
       PROVE  PlaceInd'
  <2>1. /\ disk'[b] = None /\ \A x \in Paths \ {w, b} : disk'[x] = disk[x]
        /\ w # b => disk'[w] = disk[b]
        /\ mine' = (IF mine = b /\ kept THEN w ELSE mine)
    BY <1>2, <1>12, FileSteps
  <2>2. w = "exec" => disk'["exec"] = disk["old"] /\ disk'["old"] = None /\ disk["old"] # None
    BY <1>2, <1>12, <2>1
  <2>3. w # "exec" => disk'["exec"] = disk["exec"]
    BY <1>2, <1>4, <2>1
  <2>4. Swapping /\ ~Swapping' /\ ~ExecMoved' /\ (ExecMoved <=> w = "exec")
    BY <1>3, <1>12 DEF Swapping, ExecMoved
  <2>5. ExecThere'
    BY <1>12, <2>2, <2>3, <2>4
  <2>6. OwnPlace'
    BY <1>1, <1>2, <1>3, <1>12, <2>1, <2>2, <2>4
  <2>7. AckedPlace'
    BY <1>1, <1>f, <1>12, <2>2, <2>3, <2>4
  <2> QED BY <2>5, <2>6, <2>7
<1> QED BY <1>5, <1>6, <1>7, <1>8, <1>9, <1>10, <1>11, <1>12, WorkerSteps

LEMMA PlaceRestart ==
  ASSUME UpgradeTyped, IssuedInd, PathInd, PlaceInd,
         NEW c \in Upgrades, RestartFails(c) \/ RollBack(c) \/ Restore(c)
  PROVE  PlaceInd'
<1> DEFINE p == applying[c].path
           b == Backup[applying[c].path]
<1> USE DEF PlaceInd, ExecThere, OwnPlace, AckedPlace
<1>1. UNCHANGED <<follows, running, target, worker>>
  BY RestartSteps DEF agent, orders
<1>2. /\ p \in Paths /\ b \in Paths /\ b # "exec" /\ 1 \in Versions /\ Backup["exec"] = "old"
      /\ "exec" \in Paths /\ "old" \in Paths
  BY BackupIs, UpgradeAssumption DEF UpgradeTyped, Versions, Paths
<1>3. (Swapping' <=> Swapping) /\ (ExecMoved' <=> ExecMoved)
  BY <1>1 DEF Swapping, ExecMoved
<1>4. Applied(c) /\ handled # 0
  BY RestartSteps DEF Applied, PathInd
<1>5. \A d \in Upgrades : d # c => applying'[d] = applying[d]
  BY RestartSteps DEF Becomes, UpgradeTyped
<1>6. handled = 1 => \A d \in Upgrades \ {c} : ~Applied(d) /\ ~Applied(d)'
  BY <1>4, <1>5 DEF PathInd, Applied
<1>7. ASSUME applying[c].step = "restart", Becomes(c, "remove", Exe), UNCHANGED <<files, broken, handled>>
      PROVE  PlaceInd'
  <2>1. applying'[c] = [step |-> "remove", path |-> Exe] /\ UNCHANGED <<disk, mine, kept>>
    BY <1>7 DEF Becomes, UpgradeTyped, files
  <2>2. ExecThere'
    BY <1>3, <1>5, <1>7, <2>1
  <2>3. AckedPlace'
    BY <1>1, <1>3, <1>4, <1>5, <1>7, <2>1
  <2> QED BY <1>4, <1>7, <2>2, <2>3
<1>8. ASSUME applying[c].step \in {"remove", "restore"}, Becomes(c, "none", p), UNCHANGED <<files, handled>>,
             applying[c].step = "restore" => broken',
             applying[c].step = "remove" => UNCHANGED broken
      PROVE  PlaceInd'
  <2>1. applying'[c] = [step |-> "none", path |-> p] /\ UNCHANGED <<disk, mine, kept>>
    BY <1>8 DEF Becomes, UpgradeTyped, files
  <2>2. ExecThere'
    BY <1>3, <1>5, <1>8, <2>1
  <2>3. AckedPlace'
    BY <1>1, <1>3, <1>4, <1>5, <1>8, <2>1 DEF Applied
  <2> QED BY <1>4, <1>8, <2>2, <2>3
<1>9. ASSUME applying[c].step = "remove", Becomes(c, "restore", p), Unlink(p), UNCHANGED <<broken, handled>>
      PROVE  PlaceInd'
  <2>1. applying'[c] = [step |-> "restore", path |-> p]
    BY <1>9 DEF Becomes, UpgradeTyped
  <2>2. \A x \in Paths \ {p} : disk'[x] = disk[x]
    BY <1>2, <1>9, FileSteps
  <2>3. ExecThere'
    BY <1>2, <1>3, <1>5, <1>9, <2>1, <2>2
  <2>4. ~follows => p = "exec"
    BY DEF PathInd
  <2>5. AckedPlace'
    BY <1>1, <1>2, <1>3, <1>4, <1>6, <1>9, <2>1, <2>2, <2>4 DEF Applied
  <2> QED BY <1>4, <1>9, <2>3, <2>5
<1>10. ASSUME applying[c].step = "restore", Becomes(c, "none", p), disk[b] # None, Rename(b, p),
              UNCHANGED broken, handled' = IF p = "exec" /\ handled = 1 THEN 0 ELSE handled
       PROVE  PlaceInd'
  <2>1. applying'[c] = [step |-> "none", path |-> p]
    BY <1>10 DEF Becomes, UpgradeTyped
  <2>2. /\ disk'[b] = None /\ \A x \in Paths \ {p, b} : disk'[x] = disk[x]
        /\ p # b => disk'[p] = disk[b]
    BY <1>2, <1>10, FileSteps
  <2>3. follows => p # "exec"
    BY <1>10 DEF PathInd
  <2>4. ~follows => p = "exec" /\ worker.path = "exec"
    BY DEF PathInd
  <2>5. p = "exec" => disk'["exec"] = disk["old"] /\ disk["old"] # None /\ disk'["old"] = None
    BY <1>2, <1>10, <2>2
  <2>6. p # "exec" => disk'["exec"] = disk["exec"]
    BY <1>2, <2>2
  <2>7. ExecThere'
    BY <1>3, <1>5, <1>10, <2>1, <2>5, <2>6
  <2>8. OwnPlace'
    <3> SUFFICES ASSUME ~broken, handled' = 0
                 PROVE  OwnPlace'
      BY <1>10
    <3>1. handled = 1 /\ p = "exec" /\ ~follows /\ worker.path = "exec"
      BY <1>4, <1>10, <2>3, <2>4
    <3>2. ~Swapping => disk["old"] = running
      BY <1>4, <2>5, <3>1
    <3> QED BY <1>1, <1>3, <2>5, <3>1, <3>2
  <2>9. AckedPlace'
    <3> SUFFICES ASSUME ~broken, handled' = 1
                 PROVE  AckedPlace'
      BY <1>10
    <3>1. handled = 1 /\ follows
      BY <1>10, <2>4
    <3>2. \A d \in Upgrades : ~Applied(d)'
      BY <1>6, <2>1, <3>1 DEF Applied
    <3> QED BY <3>2 DEF Applied
  <2> QED BY <2>7, <2>8, <2>9
<1> QED BY <1>7, <1>8, <1>9, <1>10, RestartSteps

LEMMA PlaceKept ==
  ASSUME UpgradeTyped, IssuedInd, PathInd, PlaceInd, [UpgradeNext]_upgradeVars
  PROVE  PlaceInd'
<1>1. CASE FilesQuiet
  BY <1>1, TargetKept, PlaceQuiet
<1> QED BY <1>1, QuietSteps, PlaceWorker, PlaceRestart, PlaceReplaced DEF UpgradeNext, Restart, AgentCrash

----------------------------------------------------------------------------
(* The theorem *)

LEMMA UpgradeStarts ==
  ASSUME UpgradeInit
  PROVE  UpgradeInd
<1> USE UpgradeAssumption DEF UpgradeInit
<1>1. UpgradeTyped
  <2>1. 1 \in Versions /\ Blank \in Records /\ "exec" \in Paths
    BY DEF Versions, Blank, Records, Paths
  <2>2. DOMAIN change = Callers /\ \A p \in Callers : change[p] \in ChangesOf(p)
    BY DEF ChangesOf
  <2>3. /\ Rest \in [step : {"idle", "staged", "cleared", "moved", "undo"}, path : Paths]
        /\ NoRestart \in [Upgrades -> [step : {"none", "restart", "remove", "restore"}, path : Paths]]
    BY <2>1 DEF Rest, NoRestart
  <2>4. /\ at \in [Callers -> {"idle", "get", "put", "read", "write"}]
        /\ at["router"] \notin {"get", "put"} /\ snap \in [Callers -> Records]
    BY <2>1 DEF Callers
  <2>5. disk \in [Paths -> {None} \cup Versions]
    BY <2>1
  <2>6. received \in Seq(Upgrades) /\ messages \in Seq(Notices)
    OBVIOUS
  <2>7. target \in [Upgrades -> {None} \cup Versions] /\ commands \in 0 .. MaxUpgrades
        /\ upgradeFaults \in 0 .. MaxUpgradeFaults
    OBVIOUS
  <2> QED BY <2>1, <2>2, <2>3, <2>4, <2>5, <2>6, <2>7 DEF UpgradeTyped
<1>2. RecordInd
  BY DEF RecordInd, RecordIsTruthful, Blank, Callers
<1>3. IssuedInd
  BY DEF IssuedInd, NoRestart, Rest, None, Upgrades
<1>4. PathInd
  BY DEF PathInd, Rest, NoRestart, Swapping, Applied
<1>5. VersionInd
  BY DEF VersionInd, NotBelow, NoDowngrade, Rest, NoRestart, Applied, Paths, None
<1>6. PlaceInd
  BY DEF PlaceInd, ExecThere, OwnPlace, AckedPlace, Rest, NoRestart, Swapping, Applied, Paths, None
<1> QED BY <1>1, <1>2, <1>3, <1>4, <1>5, <1>6 DEF UpgradeInd

LEMMA UpgradeImplied ==
  ASSUME UpgradeInd
  PROVE  UpgradeInv
<1>1. UpgradeTypeOK
  <2>1. handled \in 0 .. MaxUpgrades
    <3>1. handled \in Nat /\ commands \in 0 .. MaxUpgrades /\ Len(received) \in Nat
      BY DEF UpgradeInd, UpgradeTyped
    <3>2. handled <= commands
      BY <3>1 DEF UpgradeInd, IssuedInd
    <3> QED BY <3>1, <3>2, UpgradeAssumption
  <2>2. /\ \A i \in DOMAIN received : received[i] \in Upgrades
        /\ \A i \in DOMAIN messages :
             messages[i] \in [kind : {"ack", "beat"}, version : Versions, ok : BOOLEAN]
    <3>1. received \in Seq(Upgrades) /\ messages \in Seq(Notices)
      BY DEF UpgradeInd, UpgradeTyped
    <3>2. \A i \in DOMAIN messages : messages[i] \in Notices
      BY <3>1
    <3> QED BY <3>1, <3>2 DEF Notices
  <2> QED BY <2>1, <2>2 DEF UpgradeInd, UpgradeTyped, UpgradeTypeOK
<1>2. RecordIsTruthful /\ NoDowngrade
  BY DEF UpgradeInd, RecordInd, VersionInd
<1>3. OwnBinaryStays
  BY DEF UpgradeInd, PlaceInd, OwnPlace, OwnBinaryStays, Swapping
<1>4. ExecutableIsThere
  BY DEF UpgradeInd, PlaceInd, ExecThere, ExecutableIsThere, ExecMoved, Swapping
<1>5. AckedIsInPlace
  BY DEF UpgradeInd, PlaceInd, AckedPlace, AckedIsInPlace, ExecMoved, Swapping
<1> QED BY <1>1, <1>2, <1>3, <1>4, <1>5 DEF UpgradeInv

\* The record of an upgrade says what happened, the process keeps its binary and there
\* is one to start, versions never fall, and what was acknowledged is in place.
\* (upgrade.py, HandleUpgrade, ApplyStagedAndRestart, rollbackBinary)
THEOREM UpgradeInvHolds == UpgradeSpec => []UpgradeInv
<1>1. UpgradeInit => UpgradeInd
  BY UpgradeStarts
<1>2. UpgradeInd /\ [UpgradeNext]_upgradeVars => UpgradeInd'
  BY TypedKept, RecordKept, IssuedKept, PathKept, VersionKept, PlaceKept DEF UpgradeInd
<1>3. UpgradeInd => UpgradeInv
  BY UpgradeImplied
<1> QED BY <1>1, <1>2, <1>3, PTL DEF UpgradeSpec

=============================================================================
