----------------------------- MODULE AlertProofs -----------------------------
(***************************************************************************)
(* From the alert to the response.  Part one: the way of the alerts to the *)
(* pipeline, for any number of alerts, engines and faults.  Part two: the  *)
(* pipeline, for every set of operations and playbooks, every number of    *)
(* PoC rounds and any number of runs.                                      *)
(***************************************************************************)
EXTENDS AlertIngest, ResponsePipeline, SequenceTheorems, WellFoundedInduction, TLAPS

\* What the consumer is about to do with the alert at its position.
ConsumerInv ==
  /\ step # "poll" => position \in 1 .. MaxAlerts
  /\ step = "bury" => position \in Garbled
  /\ step = "emit" => position \notin Garbled
  /\ step \in {"commit", "commitBuried"} => Safe(position)
  /\ LostOnlyUnderLaterCommit

\* What the engines hold was delivered, and nothing is delivered twice by a read.
EngineInv ==
  /\ \A e \in Engines :
       /\ Range(batch[e]) \subseteq delivered
       /\ ended[e] => mode[e] = "loop" /\ batch[e] # <<>> /\ Head(batch[e]) \in handled
  /\ aged \subseteq everAged
  /\ \A n \in delivered : n <= group \/ n <= gone
  /\ DeliveredIsKept /\ SharedOnlyWhenIdle

IngestInd == TypeOK /\ ConsumerInv /\ EngineInv

-----------------------------------------------------------------------------
(* Sequences and numbers *)

LEMMA LeastNatural ==
  ASSUME NEW S \in SUBSET Nat, S # {}
  PROVE  \E m \in S : \A k \in S : m <= k
<1>1. PICK m \in S : \A k \in S : ~(<<k, m>> \in OpToRel(<, Nat))
  BY NatLessThanWellFounded, WFMin
<1>2. \A k \in S : ~(k < m)
  BY <1>1 DEF OpToRel
<1> QED BY <1>2

LEMMA RangeOfAppend ==
  ASSUME NEW S, NEW s \in Seq(S), NEW x \in S
  PROVE  Append(s, x) \in Seq(S) /\ Range(Append(s, x)) = Range(s) \union {x}
<1> DEFINE t == Append(s, x)
<1>1. /\ t \in Seq(S) /\ Len(s) \in Nat /\ Len(t) = Len(s) + 1
      /\ DOMAIN s = 1 .. Len(s) /\ DOMAIN t = 1 .. Len(s) + 1
      /\ \A i \in 1 .. Len(s) : t[i] = s[i]
      /\ t[Len(s) + 1] = x
  BY AppendProperties, LenProperties
<1> HIDE DEF t
<1>2. Range(t) \subseteq Range(s) \union {x}
  <2> SUFFICES ASSUME NEW i \in 1 .. Len(s) + 1 PROVE t[i] \in Range(s) \union {x}
    BY <1>1 DEF Range
  <2>1. CASE i = Len(s) + 1
    BY <1>1, <2>1
  <2>2. CASE i \in 1 .. Len(s)
    BY <1>1, <2>2 DEF Range
  <2> QED BY <1>1, <2>1, <2>2
<1>3. Range(s) \subseteq Range(t)
  BY <1>1 DEF Range
<1>4. x \in Range(t)
  <2>1. Len(s) + 1 \in DOMAIN t
    BY <1>1
  <2> QED BY <1>1, <2>1 DEF Range
<1> QED BY <1>1, <1>2, <1>3, <1>4 DEF t

LEMMA RangeOfTail ==
  ASSUME NEW S, NEW s \in Seq(S), s # <<>>
  PROVE  /\ Tail(s) \in Seq(S) /\ Range(Tail(s)) \subseteq Range(s)
         /\ Head(s) \in Range(s) /\ Range(s) \subseteq S
BY DEF Range

LEMMA RangeInSet ==
  ASSUME NEW S, NEW s \in Seq(S)
  PROVE  Range(s) \subseteq S /\ (s = <<>> => Range(s) = {})
BY DEF Range

-----------------------------------------------------------------------------
(* The consumer *)

\* What is in the stream or in the DLQ stays there, and a consumer that goes on
\* from a commit it has made loses nothing it had not lost before.
LEMMA ConsumerFrame ==
  ASSUME TypeOK, TypeOK', ConsumerInv, UNCHANGED committed,
         dlq \subseteq dlq', Range(log) \subseteq Range(log')
  PROVE  LostOnlyUnderLaterCommit' /\ \A a : Safe(a) => Safe(a)'
BY DEF ConsumerInv, LostOnlyUnderLaterCommit, Safe

LEMMA PollInd ==
  ASSUME IngestInd, Poll
  PROVE  TypeOK' /\ ConsumerInv'
<1>1. position' \in 1 .. MaxAlerts /\ committed' \in 0 .. position' /\ step' = "parse"
  BY IngestAssumption DEF Poll, IngestInd, TypeOK
<1>2. TypeOK'
  BY <1>1 DEF Poll, IngestInd, TypeOK, stream, loop, past, Entries
<1> QED BY <1>1, <1>2, ConsumerFrame DEF Poll, IngestInd, ConsumerInv, stream

LEMMA ProcessInd ==
  ASSUME IngestInd, Process
  PROVE  TypeOK' /\ ConsumerInv'
<1>1. TypeOK'
  BY DEF Process, IngestInd, TypeOK, stream, loop, past, Entries
<1> QED BY <1>1, ConsumerFrame DEF Process, IngestInd, ConsumerInv, stream

LEMMA SendDlqInd ==
  ASSUME IngestInd, SendDlq
  PROVE  TypeOK' /\ ConsumerInv'
<1>1. TypeOK'
  BY DEF SendDlq, IngestInd, TypeOK, ConsumerInv, stream, loop, past, Entries
<1>2. LostOnlyUnderLaterCommit' /\ position \in dlq' /\ position' = position /\ step' = "commitBuried"
  BY <1>1, ConsumerFrame DEF SendDlq, IngestInd, stream
<1> QED BY <1>1, <1>2 DEF SendDlq, IngestInd, ConsumerInv, Safe

LEMMA EmitInd ==
  ASSUME IngestInd, Emit
  PROVE  TypeOK' /\ ConsumerInv'
<1>1. /\ position \in (1 .. MaxAlerts) \ Garbled /\ log \in Seq((1 .. MaxAlerts) \ Garbled)
      /\ log' = Append(log, position)
  BY DEF Emit, IngestInd, TypeOK, ConsumerInv
<1>2. /\ log' \in Seq((1 .. MaxAlerts) \ Garbled) /\ Range(log') = Range(log) \union {position}
      /\ Len(log) \in Nat /\ Len(log') = Len(log) + 1
  BY <1>1, RangeOfAppend
<1>3. gone' \in 0 .. Len(log')
  BY <1>2, IngestAssumption DEF Emit, IngestInd, TypeOK
<1>4. Entries \subseteq Entries' /\ \A e \in Engines : batch[e] \in Seq(Entries')
  BY <1>2, SeqMonotonic DEF Entries, IngestInd, TypeOK
<1>5. TypeOK'
  BY <1>2, <1>3, <1>4 DEF Emit, IngestInd, TypeOK, loop, past
<1>6. LostOnlyUnderLaterCommit' /\ position \in Range(log') /\ position' = position
  BY <1>2, <1>5, ConsumerFrame DEF Emit, IngestInd
<1> QED BY <1>1, <1>5, <1>6 DEF Emit, IngestInd, ConsumerInv, Safe

\* A failed call, or a new start: nothing is committed, nothing is kept of the alert.
LEMMA ConsumerFailsInd ==
  ASSUME IngestInd, SendDlqFails \/ EmitFails \/ CommitFails \/ RestartConsumer
  PROVE  TypeOK' /\ ConsumerInv'
<1>1. step' = "poll" /\ Disruption /\ UNCHANGED <<committed, dlq, stream, loop, past>>
      /\ position' \in {position, committed}
  BY DEF SendDlqFails, EmitFails, CommitFails, RestartConsumer
<1>2. faults' \in 0 .. MaxFaults
  BY <1>1, IngestAssumption DEF Disruption, IngestInd, TypeOK
<1>3. position' \in 0 .. MaxAlerts /\ committed' \in 0 .. position'
  BY <1>1, IngestAssumption DEF IngestInd, TypeOK
<1>4. TypeOK'
  BY <1>1, <1>2, <1>3 DEF IngestInd, TypeOK, stream, loop, past, Entries
<1> QED BY <1>1, <1>4, ConsumerFrame DEF IngestInd, ConsumerInv, stream

\* The alert at the position is safe: it covers whatever the commit loses.
LEMMA CommitInd ==
  ASSUME IngestInd, Commit
  PROVE  TypeOK' /\ ConsumerInv'
<1>1. position \in 1 .. MaxAlerts /\ Safe(position) /\ committed' = position /\ position' = position
      /\ step' = "poll" /\ UNCHANGED <<dlq, stream, loop, past, faults>>
  BY DEF Commit, IngestInd, ConsumerInv
<1>2. TypeOK'
  BY <1>1 DEF IngestInd, TypeOK, stream, loop, past, Entries
<1>3. \A a : Safe(a)' <=> Safe(a)
  BY <1>1 DEF Safe, stream
<1>4. LostOnlyUnderLaterCommit'
  <2> SUFFICES ASSUME NEW a \in 1 .. position, ~Safe(a)
               PROVE  \E b \in a + 1 .. position : Safe(b)
    BY <1>1, <1>3 DEF LostOnlyUnderLaterCommit
  <2>1. position \in a + 1 .. position
    BY <1>1
  <2> QED BY <1>1, <2>1
<1> QED BY <1>1, <1>2, <1>4 DEF ConsumerInv

-----------------------------------------------------------------------------
(* The engines *)

LEMMA ConsumerKept ==
  ASSUME IngestInd, UNCHANGED kafka, UNCHANGED log
  PROVE  ConsumerInv'
BY DEF IngestInd, ConsumerInv, LostOnlyUnderLaterCommit, Safe, kafka

LEMMA StartInd ==
  ASSUME IngestInd, NEW e \in Engines, Start(e) \/ StartFails(e)
  PROVE  IngestInd'
<1>0. faults' \in 0 .. MaxFaults
  BY IngestAssumption DEF Start, StartFails, Disruption, IngestInd, TypeOK
<1>1. group' \in -1 .. Len(log) /\ (group' = group \/ group' = Len(log))
  BY DEF Start, StartFails, EnsureGroup, IngestInd, TypeOK
<1>2. TypeOK'
  BY <1>0, <1>1 DEF Start, StartFails, IngestInd, TypeOK, kafka, past, Entries
<1>3. \A n \in delivered : n <= group' \/ n <= gone
  BY <1>1 DEF IngestInd, TypeOK, EngineInv, Entries
<1>4. /\ ~ended[e] /\ UNCHANGED <<batch, ended, past, pel, aged, gone>>
      /\ \A d \in Engines \ {e} : mode'[d] = mode[d]
  BY DEF Start, StartFails, IngestInd, TypeOK, EngineInv
<1>5. EngineInv'
  BY <1>3, <1>4 DEF IngestInd, TypeOK, EngineInv, DeliveredIsKept, SharedOnlyWhenIdle, past
<1> QED BY <1>2, <1>5, ConsumerKept DEF Start, StartFails, IngestInd

\* The entry that is claimed was idle, so that others may hold it.
LEMMA ClaimOneInd ==
  ASSUME IngestInd, NEW e \in Engines, ClaimOne(e)
  PROVE  IngestInd'
<1> DEFINE free == Claimable \ Range(batch[e])
           n == CHOOSE m \in free : \A k \in free : m <= k
<1>1. /\ free # {} /\ batch' = [batch EXCEPT ![e] = Append(@, n)]
      /\ pel' = {m \in pel : m > gone \/ m > n}
      /\ aged' = {m \in aged \ {n} : m > gone \/ m > n}
      /\ mode[e] = "claim" /\ UNCHANGED <<kafka, log, gone, group, mode, ended, past, faults>>
  BY DEF ClaimOne
<1>2. free \subseteq aged /\ aged \subseteq Entries /\ Entries \subseteq Nat
  BY DEF Claimable, Entries, IngestInd, TypeOK
<1>3. n \in aged /\ n > gone /\ n \in Entries /\ n \in Nat /\ n \in delivered /\ n \in everAged
  <2>1. \E m \in free : \A k \in free : m <= k
    BY <1>1, <1>2, LeastNatural
  <2>2. n \in free
    BY <2>1
  <2> QED BY <1>2, <2>2 DEF Claimable, IngestInd, TypeOK, EngineInv
<1> HIDE DEF n, free
<1>4. /\ batch'[e] \in Seq(Entries) /\ Range(batch'[e]) = Range(batch[e]) \union {n}
      /\ \A d \in Engines \ {e} : batch'[d] = batch[d]
  BY <1>1, <1>3, RangeOfAppend DEF IngestInd, TypeOK
<1>5. pel' \subseteq pel /\ aged' \subseteq aged /\ aged' \subseteq pel'
  BY <1>1 DEF IngestInd, TypeOK
<1>6. TypeOK'
  <2>1. batch' \in [Engines -> Seq(Entries)]
    BY <1>1, <1>4 DEF IngestInd, TypeOK
  <2>2. pel' \subseteq delivered
    BY <1>5 DEF IngestInd, TypeOK
  <2> QED BY <1>1, <1>5, <2>1, <2>2 DEF IngestInd, TypeOK, kafka, past, Entries
<1>7. EngineInv'
  <2>1. ~ended[e]
    BY <1>1 DEF IngestInd, EngineInv
  <2>2. \A d \in Engines :
          /\ Range(batch'[d]) \subseteq delivered
          /\ ended[d] => mode[d] = "loop" /\ batch'[d] # <<>> /\ Head(batch'[d]) \in handled
    BY <1>3, <1>4, <2>1 DEF IngestInd, EngineInv
  <2>3. DeliveredIsKept'
    <3> SUFFICES ASSUME NEW m \in delivered, m \notin handled, ~(m <= gone)
                 PROVE  m \in pel'
      BY <1>1 DEF DeliveredIsKept, past
    <3>1. m \in pel /\ m \in Int /\ gone \in Int
      BY DEF IngestInd, TypeOK, EngineInv, DeliveredIsKept, Entries
    <3> QED BY <1>1, <3>1
  <2>4. SharedOnlyWhenIdle'
    <3> SUFFICES ASSUME NEW c \in Engines, NEW d \in Engines, c # d
                 PROVE  Range(batch'[c]) \cap Range(batch'[d]) \subseteq everAged
      BY <1>1 DEF SharedOnlyWhenIdle, past
    <3>1. Range(batch[c]) \cap Range(batch[d]) \subseteq everAged
      BY DEF IngestInd, EngineInv, SharedOnlyWhenIdle
    <3> QED BY <1>3, <1>4, <3>1
  <2> QED BY <1>1, <1>5, <2>2, <2>3, <2>4 DEF IngestInd, EngineInv, past
<1> QED BY <1>1, <1>6, <1>7, ConsumerKept DEF IngestInd

\* A step that empties the batch of one engine, or leaves it.
LEMMA EngineFrame ==
  ASSUME IngestInd, NEW e \in Engines,
         UNCHANGED <<kafka, stream, handled, delivered, everAged>>,
         NEW m \in {"down", "loop"}, mode' = [mode EXCEPT ![e] = m],
         \/ batch' = [batch EXCEPT ![e] = <<>>] /\ ~ended'[e]
         \/ batch' = batch /\ ended' = ended /\ ~ended[e],
         \A d \in Engines \ {e} : ended'[d] = ended[d], ended' \in [Engines -> BOOLEAN],
         skipped' \in BOOLEAN, faults' \in 0 .. MaxFaults
  PROVE  IngestInd'
<1>1. /\ \A d \in Engines : batch'[d] = batch[d] \/ batch'[d] = <<>>
      /\ batch' \in [Engines -> Seq(Entries)]
  <2>1. <<>> \in Seq(Entries)
    BY EmptySeq
  <2> QED BY <2>1 DEF IngestInd, TypeOK
<1>2. TypeOK'
  BY <1>1 DEF IngestInd, TypeOK, kafka, stream, Entries
<1>3. \A d \in Engines : Range(batch'[d]) \subseteq Range(batch[d])
  <2>1. Range(<<>>) = {}
    BY DEF Range
  <2> QED BY <1>1, <2>1
<1>4. ASSUME NEW d \in Engines, ended'[d]
      PROVE  mode'[d] = "loop" /\ batch'[d] # <<>> /\ Head(batch'[d]) \in handled
  <2>1. d # e
    BY <1>4
  <2>2. batch'[d] = batch[d] /\ mode'[d] = mode[d] /\ ended[d]
    BY <1>4, <2>1 DEF IngestInd, TypeOK
  <2> QED BY <2>2 DEF IngestInd, EngineInv
<1>5. EngineInv'
  BY <1>3, <1>4 DEF IngestInd, EngineInv, DeliveredIsKept, SharedOnlyWhenIdle, stream
<1> QED BY <1>2, <1>5, ConsumerKept DEF IngestInd, stream

LEMMA ClaimEndsInd ==
  ASSUME IngestInd, NEW e \in Engines, ClaimedAll(e) \/ ClaimFails(e) \/ Die(e)
  PROVE  IngestInd'
<1>0. /\ ended \in [Engines -> BOOLEAN] /\ faults \in 0 .. MaxFaults /\ skipped \in BOOLEAN
      /\ mode[e] = "claim" => ~ended[e]
      /\ Disruption => faults' \in 0 .. MaxFaults
  BY IngestAssumption DEF IngestInd, TypeOK, EngineInv, Disruption
<1>1. CASE ClaimedAll(e)
  BY <1>0, <1>1, EngineFrame DEF ClaimedAll, past
<1>2. CASE ClaimFails(e)
  BY <1>0, <1>2, EngineFrame DEF ClaimFails, past
<1>3. CASE Die(e)
  BY <1>0, <1>3, EngineFrame DEF Die, past
<1> QED BY <1>1, <1>2, <1>3

\* What a read hands out is behind everything handed out before.
LEMMA ReadInd ==
  ASSUME IngestInd, NEW e \in Engines, Read(e)
  PROVE  IngestInd'
<1> DEFINE first == CHOOSE n \in Unread : \A m \in Unread : n <= m
           last  == IF first + MaxBatch - 1 < Len(log) THEN first + MaxBatch - 1 ELSE Len(log)
           new   == [i \in 1 .. last - first + 1 |-> first + i - 1]
<1>1. /\ Unread # {} /\ batch' = [batch EXCEPT ![e] = new] /\ pel' = pel \cup Range(new)
      /\ delivered' = delivered \cup Range(new) /\ group' = last /\ batch[e] = <<>> /\ mode[e] = "loop"
      /\ UNCHANGED <<kafka, log, gone, aged, mode, ended, handled, everAged, skipped, faults>>
  BY DEF Read
<1>2. first \in Unread /\ Len(log) \in Nat
  <2>1. Unread \subseteq Nat
    BY DEF Unread, Entries
  <2>2. \E n \in Unread : \A m \in Unread : n <= m
    BY <1>1, <2>1, LeastNatural
  <2> QED BY <2>2 DEF IngestInd, TypeOK
<1>3. first \in 1 .. Len(log) /\ first > group /\ first > gone /\ group \in Int /\ gone \in Int
  BY <1>2 DEF Unread, Entries, IngestInd, TypeOK
<1>4. last \in first .. Len(log)
  BY <1>2, <1>3, IngestAssumption
<1> HIDE DEF first, last
<1>5. /\ new \in Seq(Entries) /\ \A m \in Range(new) : m \in first .. last
  <2>1. last - first + 1 \in Nat
    BY <1>2, <1>3, <1>4
  <2>2. \A i \in 1 .. last - first + 1 : first + i - 1 \in first .. last
    BY <1>2, <1>3, <1>4
  <2>3. first .. last \subseteq Entries
    BY <1>2, <1>3, <1>4 DEF Entries
  <2>4. new \in [1 .. last - first + 1 -> Entries]
    BY <2>2, <2>3
  <2>5. new \in Seq(Entries)
    BY <2>1, <2>4
  <2> QED BY <2>2, <2>5 DEF Range
<1> HIDE DEF new
<1>6. Range(new) \subseteq Entries /\ \A m \in Range(new) : m > group /\ m > gone /\ m <= last
                                                         /\ m \in Int /\ m \notin delivered
  <2>1. Range(new) \subseteq Entries
    BY <1>5, RangeInSet
  <2>2. \A m \in Range(new) : m > group /\ m > gone /\ m <= last /\ m \in Int
    BY <1>2, <1>3, <1>4, <1>5
  <2>3. \A m \in Range(new) : m \notin delivered
    BY <1>3, <2>2 DEF IngestInd, EngineInv
  <2> QED BY <2>1, <2>2, <2>3
<1>7. TypeOK'
  <2>1. batch' \in [Engines -> Seq(Entries)]
    BY <1>1, <1>5 DEF IngestInd, TypeOK
  <2>2. last \in -1 .. Len(log)
    BY <1>2, <1>3, <1>4
  <2> QED BY <1>1, <1>6, <2>1, <2>2 DEF IngestInd, TypeOK, kafka, Entries
<1>8. batch'[e] = new /\ \A d \in Engines \ {e} : batch'[d] = batch[d]
  BY <1>1 DEF IngestInd, TypeOK
<1>9. EngineInv'
  <2>1. ~ended[e]
    BY <1>1 DEF IngestInd, EngineInv
  <2>2. \A d \in Engines :
          /\ Range(batch'[d]) \subseteq delivered'
          /\ ended[d] => mode[d] = "loop" /\ batch'[d] # <<>> /\ Head(batch'[d]) \in handled
    BY <1>1, <1>8, <2>1 DEF IngestInd, EngineInv
  <2>3. \A m \in delivered' : m <= group' \/ m <= gone
    <3>1. \A m \in delivered : m \in Int /\ (m <= group \/ m <= gone)
      BY DEF IngestInd, EngineInv, TypeOK, Entries
    <3>2. group <= last
      BY <1>2, <1>3, <1>4
    <3>3. last \in Int
      BY <1>2, <1>3, <1>4
    <3> QED BY <1>1, <1>3, <1>6, <3>1, <3>2, <3>3
  <2>4. DeliveredIsKept'
    BY <1>1 DEF IngestInd, EngineInv, DeliveredIsKept
  <2>5. SharedOnlyWhenIdle'
    <3> SUFFICES ASSUME NEW c \in Engines, NEW d \in Engines, c # d
                 PROVE  Range(batch'[c]) \cap Range(batch'[d]) \subseteq everAged
      BY <1>1 DEF SharedOnlyWhenIdle
    <3>1. /\ Range(batch[c]) \cap Range(batch[d]) \subseteq everAged
          /\ Range(batch[c]) \subseteq delivered /\ Range(batch[d]) \subseteq delivered
      BY DEF IngestInd, EngineInv, SharedOnlyWhenIdle
    <3> QED BY <1>6, <1>8, <3>1
  <2> QED BY <1>1, <2>2, <2>3, <2>4, <2>5 DEF IngestInd, EngineInv
<1> QED BY <1>1, <1>7, <1>9, ConsumerKept DEF IngestInd

LEMMA RecreateGroupInd ==
  ASSUME IngestInd, NEW e \in Engines, RecreateGroup(e)
  PROVE  IngestInd'
<1>1. Len(log) \in Nat /\ \A n \in delivered : n <= Len(log)
  BY DEF IngestInd, TypeOK, Entries
<1>2. TypeOK'
  BY <1>1, SMTT(60) DEF RecreateGroup, IngestInd, TypeOK, kafka, loop, past, Entries
<1>3. EngineInv'
  BY <1>1 DEF RecreateGroup, IngestInd, EngineInv, DeliveredIsKept, SharedOnlyWhenIdle, loop, past
<1> QED BY <1>2, <1>3, ConsumerKept DEF RecreateGroup, IngestInd

LEMMA RunEndsInd ==
  ASSUME IngestInd, NEW e \in Engines, RunEnds(e)
  PROVE  IngestInd'
<1>1. Head(batch[e]) \in delivered
  <2>1. batch[e] \in Seq(Entries) /\ batch[e] # <<>>
    BY DEF RunEnds, IngestInd, TypeOK
  <2> QED BY <2>1, RangeOfTail DEF IngestInd, EngineInv
<1>2. TypeOK'
  BY <1>1 DEF RunEnds, IngestInd, TypeOK, kafka, stream, Entries
<1>3. EngineInv'
  BY DEF RunEnds, IngestInd, TypeOK, EngineInv, DeliveredIsKept, SharedOnlyWhenIdle, stream
<1> QED BY <1>2, <1>3, ConsumerKept DEF RunEnds, IngestInd, stream

\* The entry that is acknowledged has had its run; the engine goes on to the next.
LEMMA AckInd ==
  ASSUME IngestInd, NEW e \in Engines, Ack(e) \/ AckFails(e)
  PROVE  IngestInd'
<1>1. /\ ended[e] /\ NextOfBatch(e) /\ UNCHANGED <<kafka, log, gone, group, mode, past>>
      /\ \/ pel' = pel \ {Head(batch[e])} /\ aged' = aged \ {Head(batch[e])}
         \/ pel' = pel /\ aged' = aged
      /\ faults' \in 0 .. MaxFaults
  BY IngestAssumption DEF Ack, AckFails, stream, Disruption, IngestInd, TypeOK
<1>2. /\ batch[e] \in Seq(Entries) /\ batch[e] # <<>> /\ Head(batch[e]) \in handled
      /\ ended \in [Engines -> BOOLEAN] /\ batch \in [Engines -> Seq(Entries)]
  BY <1>1 DEF IngestInd, TypeOK, EngineInv
<1>3. /\ batch'[e] = Tail(batch[e]) /\ ~ended'[e]
      /\ \A d \in Engines \ {e} : batch'[d] = batch[d] /\ ended'[d] = ended[d]
      /\ batch' = [batch EXCEPT ![e] = Tail(batch[e])] /\ ended' \in [Engines -> BOOLEAN]
  BY <1>1, <1>2 DEF NextOfBatch
<1>4. Tail(batch[e]) \in Seq(Entries) /\ Range(Tail(batch[e])) \subseteq Range(batch[e])
  BY <1>2, RangeOfTail
<1>5. TypeOK'
  <2>1. batch' \in [Engines -> Seq(Entries)]
    BY <1>2, <1>3, <1>4
  <2> QED BY <1>1, <1>3, <2>1 DEF IngestInd, TypeOK, kafka, past, Entries
<1>6. EngineInv'
  <2>1. \A d \in Engines : Range(batch'[d]) \subseteq Range(batch[d])
    BY <1>3, <1>4
  <2>2. \A d \in Engines :
          ended'[d] => mode[d] = "loop" /\ batch'[d] # <<>> /\ Head(batch'[d]) \in handled
    BY <1>3 DEF IngestInd, EngineInv
  <2>3. DeliveredIsKept'
    BY <1>1, <1>2 DEF IngestInd, EngineInv, DeliveredIsKept, past
  <2>4. SharedOnlyWhenIdle'
    BY <1>1, <2>1 DEF IngestInd, EngineInv, SharedOnlyWhenIdle, past
  <2> QED BY <1>1, <2>1, <2>2, <2>3, <2>4 DEF IngestInd, EngineInv, past
<1> QED BY <1>1, <1>5, <1>6, ConsumerKept DEF IngestInd

LEMMA AgeInd ==
  ASSUME IngestInd, NEW n, Age(n)
  PROVE  IngestInd'
<1>1. TypeOK'
  BY DEF Age, IngestInd, TypeOK, kafka, loop, Entries
<1>2. EngineInv'
  BY DEF Age, IngestInd, EngineInv, DeliveredIsKept, SharedOnlyWhenIdle, loop
<1> QED BY <1>1, <1>2, ConsumerKept DEF Age, IngestInd

LEMMA DeleteStreamInd ==
  ASSUME IngestInd, DeleteStream
  PROVE  IngestInd'
<1>1. /\ Len(log) \in Nat /\ \A n \in delivered : n <= Len(log)
      /\ faults' \in 0 .. MaxFaults
  BY IngestAssumption DEF DeleteStream, Disruption, IngestInd, TypeOK, Entries
<1>2. TypeOK'
  BY <1>1, SMTT(30) DEF DeleteStream, IngestInd, TypeOK, kafka, loop, past, Entries
<1>3. EngineInv'
  BY <1>1 DEF DeleteStream, IngestInd, EngineInv, DeliveredIsKept, SharedOnlyWhenIdle, loop, past
<1> QED BY <1>2, <1>3, ConsumerKept DEF DeleteStream, IngestInd

\* The consumer writes to the stream only behind what was delivered.
LEMMA EnginesKept ==
  ASSUME IngestInd,
         Poll \/ Process \/ SendDlq \/ SendDlqFails \/ EmitFails \/ Commit \/ CommitFails
         \/ RestartConsumer \/ Emit
  PROVE  EngineInv'
<1>1. /\ UNCHANGED <<group, pel, aged, loop, past>> /\ gone' >= gone
  <2>1. CASE Emit
    BY <2>1 DEF Emit
  <2>2. CASE ~Emit
    BY <2>2 DEF Poll, Process, SendDlq, SendDlqFails, EmitFails, Commit, CommitFails,
                RestartConsumer, stream, IngestInd, TypeOK
  <2> QED BY <2>1, <2>2
<1>2. gone \in Nat /\ gone' \in Int /\ \A n \in delivered : n \in Nat
  <2>1. Len(log) \in Nat /\ (Emit => Len(log') \in Int)
    BY RangeOfAppend DEF Emit, IngestInd, TypeOK, ConsumerInv
  <2> QED BY <2>1, IngestAssumption
          DEF IngestInd, TypeOK, Entries, Emit, Poll, Process, SendDlq, SendDlqFails, EmitFails,
              Commit, CommitFails, RestartConsumer, stream
<1> QED BY <1>1, <1>2
        DEF IngestInd, EngineInv, DeliveredIsKept, SharedOnlyWhenIdle, loop, past

-----------------------------------------------------------------------------

LEMMA IngestIndAlways == Spec => []IngestInd
<1>1. Init => IngestInd
  <2> SUFFICES ASSUME Init PROVE IngestInd
    OBVIOUS
  <2>1. Len(<<>>) = 0 /\ \A S : <<>> \in Seq(S)
    BY EmptySeq
  <2>2. TypeOK
    <3>1. /\ log \in Seq((1 .. MaxAlerts) \ Garbled) /\ Len(log) = 0
          /\ batch \in [Engines -> Seq(Entries)]
      BY <2>1 DEF Init
    <3>2. position \in 0 .. MaxAlerts /\ committed \in 0 .. position /\ faults \in 0 .. MaxFaults
      BY IngestAssumption DEF Init
    <3>3. gone \in 0 .. Len(log) /\ group \in -1 .. Len(log)
      BY <3>1 DEF Init
    <3> QED BY <3>1, <3>2, <3>3 DEF Init, TypeOK
  <2>3. ConsumerInv
    BY DEF Init, ConsumerInv, LostOnlyUnderLaterCommit
  <2>4. \A e \in Engines : Range(batch[e]) = {}
    BY DEF Init, Range
  <2>5. EngineInv
    BY <2>4 DEF Init, EngineInv, DeliveredIsKept, SharedOnlyWhenIdle
  <2> QED BY <2>2, <2>3, <2>5 DEF IngestInd
<1>2. IngestInd /\ [Next]_vars => IngestInd'
  <2> SUFFICES ASSUME IngestInd, [Next]_vars PROVE IngestInd'
    OBVIOUS
  <2>1. CASE UNCHANGED vars
    BY <2>1, ConsumerKept DEF vars, kafka, stream, loop, past, IngestInd, TypeOK, Entries, EngineInv,
                              DeliveredIsKept, SharedOnlyWhenIdle
  <2>2. CASE Poll \/ Process \/ SendDlq \/ SendDlqFails \/ EmitFails \/ Commit \/ CommitFails
             \/ RestartConsumer \/ Emit
    BY <2>2, PollInd, ProcessInd, SendDlqInd, EmitInd, ConsumerFailsInd, CommitInd, EnginesKept
       DEF IngestInd
  <2>3. ASSUME NEW e \in Engines, Serve(e) \/ StartFails(e) \/ ClaimFails(e) \/ AckFails(e) \/ Die(e)
        PROVE  IngestInd'
    BY <2>3, StartInd, ClaimOneInd, ClaimEndsInd, ReadInd, RecreateGroupInd, RunEndsInd, AckInd
       DEF Serve
  <2>4. CASE DeleteStream \/ \E n \in 1 .. MaxEntries : Age(n)
    BY <2>4, DeleteStreamInd, AgeInd
  <2> QED BY <2>1, <2>2, <2>3, <2>4 DEF Next
<1> QED BY <1>1, <1>2, PTL DEF Spec

\* LostOnlyUnderLaterCommitHolds: whatever fails, restarts or is committed in
\* between, an alert is lost only below a later one that is safe (AlertConsumer.run).
THEOREM LostOnlyUnderLaterCommitHolds == Spec => []LostOnlyUnderLaterCommit
<1>1. IngestInd => LostOnlyUnderLaterCommit
  BY DEF IngestInd, ConsumerInv
<1> QED BY <1>1, IngestIndAlways, PTL

\* IngestInvHolds: for any number of engines and entries, what an engine was handed
\* stays pending until its run has ended or it has left the stream, and two engines
\* hold one entry only if it was idle for a minute (_events_consumer_loop).
THEOREM IngestInvHolds == Spec => []IngestInv
<1>1. IngestInd => IngestInv
  BY DEF IngestInd, IngestInv, EngineInv
<1> QED BY <1>1, IngestIndAlways, PTL

-----------------------------------------------------------------------------
-----------------------------------------------------------------------------
(* Types.  PipelineTypeOK says too little of the results to be kept by a     *)
(* step: what a result names is an operation, and while one is under way     *)
(* there is still one to report.                                             *)

Outcomes == {"success", "failed", "skipped", "raised", "dry_run"}
Result   == [op : Ops, status : Outcomes]

Before == {"idle", "entry", "orchestrator", "aggregator", "ignore", "store", "playbook_matcher"}
            \cup Looking \cup Hunting
Early  == Before \ {"idle", "store"}

Shape ==
  /\ PipelineTypeOK
  /\ results \in Seq(Result)
  /\ node \in {"execute", "mark"} => Len(results) < Len(plan) /\ Kind[Op] # "none"
  /\ node = "mark" => answer \in {"success", "failed", "skipped"}
  /\ \A e \in Siblings : others[e].step \in {"execute", "mark"} => others[e].todo # <<>>

-----------------------------------------------------------------------------
(* The PoC loop counts its supersteps. *)

Rounds(h) ==
  /\ node \in {"entry", "orchestrator"} => h = FreshHunter
  /\ node = "generate_poc" => h.round < MaxIterations /\ h.steps = 3 * h.round
  /\ node = "linter_check" => h.round > 0 /\ h.steps = 3 * h.round - 2 /\ h.lint = "none" /\ ~h.ran
  /\ node = "sandbox_exec" => h.round > 0 /\ h.steps = 3 * h.round - 1
                              /\ (h.lint = "pass" => h.last = "linter_pass")
  /\ node = "finalize"     => h.steps = 3 * h.round
  /\ h.steps <= 3 * MaxIterations + 1
  /\ node \in {"generate_poc", "finalize"} /\ h.lint = "pass" => h.ran

LoopInv == Rounds(hunter)

-----------------------------------------------------------------------------
(* What has been decided at each node. *)

Confirmed ==
  /\ graph.verdict = "true_positive"
  /\ IF graph.stage = "verify" THEN hunter.last = "vulnerable" ELSE graph.conf = "high"

Serious == \E i \in DOMAIN plan : Level[plan[i]] >= 3

Untouched ==
  /\ plan = <<>> /\ results = <<>>
  /\ graph.approval = "none" /\ ~graph.signed /\ ~graph.error

LastRaised == results # <<>> /\ results[Len(results)].status = "raised"
PlayedOut  == Len(results) = Len(plan) \/ LastRaised

DecisionInv ==
  /\ node \in Early \ {"entry"} => Untouched
  /\ node = "entry" => plan = <<>> /\ results = <<>> /\ graph = FreshGraph
  /\ node \in Looking => graph.stage = "route"
  /\ node = "aggregator" /\ graph.stage = "verify" /\ graph.verdict = "true_positive"
       => hunter.last = "vulnerable"
  /\ node \in Answering => Confirmed
  /\ node = "hitl_approval" => results = <<>> /\ graph.approval = "none" /\ ~graph.error
  /\ node = "reject_response" => results = <<>> /\ graph.approval = "rejected" /\ ~graph.error
  /\ node \in Acting \cup {"summary"} =>
       graph.approval = "approved" /\ ~graph.error /\ (Serious => graph.signed)
  /\ node = "summary" => PlayedOut
  /\ node = "store" =>
       \/ graph.error
       \/ ~graph.error /\ graph.approval = "rejected" /\ results = <<>>
       \/ ~graph.error /\ graph.approval = "approved" /\ PlayedOut
       \/ ~graph.error /\ graph.approval = "none" /\ plan = <<>>
  /\ node # "idle" /\ ours => event = "processing"
  /\ StoredStatusTruthful

-----------------------------------------------------------------------------
(* Marks and effects. *)

Here(o)     == node \in {"execute", "mark"} /\ Op = o
There(e, o) == others[e].step \in {"execute", "mark"} /\ Head(others[e].todo) = o

\* Done, and the mark still to be set.
Owed(o) ==
  \/ node = "mark" /\ o = Op
  \/ \E e \in Siblings : others[e].step = "mark" /\ Head(others[e].todo) = o

MarkInv ==
  /\ \A o \in Ops : times[o] > 0 => o \in marks \cup unmarked \/ Owed(o)
  /\ RepeatOnlyWithoutMark
  /\ node = "execute" => (Op \in marks => Op \in unmarked \cup crossed)
  /\ \A e \in Siblings : \A o \in Ops :
       others[e].step = "execute" /\ Head(others[e].todo) = o /\ o \in marks => o \in unmarked \cup crossed
  /\ \A e \in Siblings : \A o \in Ops : Here(o) /\ There(e, o) => o \in crossed
  /\ \A d, e \in Siblings : \A o \in Ops : d # e /\ There(d, o) /\ There(e, o) => o \in crossed

-----------------------------------------------------------------------------
(* The rollback. *)

Undone(i) ==
  results[i].status = "success" /\ results[i].op \in Undoable
    => results[i].op \notin inForce \/ results[i].op \in stuck \cup theirs

RollbackInv ==
  /\ node \in {"check", "execute", "mark"} => \A i \in DOMAIN results : results[i].status # "raised"
  /\ node = "rollback" => LastRaised /\ \A i \in DOMAIN results : i > undo => Undone(i)
  /\ RolledBackOnRaise

-----------------------------------------------------------------------------
LEMMA PlanOfOps ==
  ASSUME Shape
  PROVE  plan \in Seq(Ops) /\ Len(plan) \in Nat /\ Len(results) \in Nat /\ undo \in Nat
<1>1. plan \in Seq(Ops)
  BY PipelineAssumption DEF Shape, PipelineTypeOK
<1>2. Len(plan) \in Nat /\ Len(results) \in Nat
  BY <1>1, LenProperties DEF Shape
<1> QED BY <1>1, <1>2 DEF Shape, PipelineTypeOK

LEMMA NextOp ==
  ASSUME Shape, Len(results) < Len(plan)
  PROVE  Op \in Ops /\ Level[Op] \in 1 .. 5
<1>1. Len(results) + 1 \in 1 .. Len(plan)
  BY PlanOfOps
<1>2. Op \in Ops
  BY <1>1, PlanOfOps, ElementOfSeq DEF Op
<1> QED BY <1>2, PipelineAssumption

\* One more result, of the next operation of the plan.
LEMMA Noted ==
  ASSUME Shape, Len(results) < Len(plan), NEW s \in Outcomes, Note(s)
  PROVE  /\ results' \in Seq(Result)
         /\ Len(results') = Len(results) + 1 /\ Len(results') <= Len(plan)
         /\ \A i \in DOMAIN results : results'[i] = results[i]
         /\ \A i \in DOMAIN results' :
              i \in DOMAIN results \/ (i = Len(results') /\ results'[i] = [op |-> Op, status |-> s])
         /\ results' # <<>> /\ results'[Len(results')].status = s
<1>1. [op |-> Op, status |-> s] \in Result
  BY NextOp DEF Result
<1>2. results \in Seq(Result) /\ results' = Append(results, [op |-> Op, status |-> s])
  BY DEF Shape, Note
<1>3. /\ results' \in Seq(Result) /\ Len(results') = Len(results) + 1
      /\ \A i \in 1 .. Len(results) : results'[i] = results[i]
      /\ results'[Len(results) + 1] = [op |-> Op, status |-> s]
  BY <1>1, <1>2, AppendProperties
<1>4. DOMAIN results = 1 .. Len(results) /\ DOMAIN results' = 1 .. Len(results')
  BY <1>2, <1>3, LenProperties
<1>5. Len(results) \in Nat /\ Len(plan) \in Nat
  BY PlanOfOps
<1>6. Len(results') <= Len(plan)
  BY <1>3, <1>5
<1>7. \A i \in DOMAIN results' : i \in DOMAIN results \/ i = Len(results')
  BY <1>3, <1>4, <1>5
<1>8. results' # <<>>
  BY <1>3, <1>5
<1>9. results'[Len(results')] = [op |-> Op, status |-> s]
  BY <1>3
<1>10. \A i \in DOMAIN results : results'[i] = results[i]
  BY <1>3, <1>4
<1> QED BY <1>3, <1>6, <1>7, <1>8, <1>9, <1>10

Routing == \/ Entry \/ Orchestrate \/ CtiAnalyst \/ Investigate \/ InvestigateFails
           \/ HuntFails \/ Ignore \/ RejectResponse
PocLoop == GeneratePoc \/ LinterCheck \/ SandboxExec \/ Finalize \/ Aggregate
Playing == CheckDone \/ Execute \/ MarkDone \/ Undo \/ PlaybookDone \/ ExecuteResponse

\* Nothing a run remembers of its playbook changes.
LEMMA ShapeFrame ==
  ASSUME Shape, PipelineTypeOK', UNCHANGED <<plan, results, others>>, node' \notin {"execute", "mark"}
  PROVE  Shape'
BY DEF Shape

LEMMA RoutingShape ==
  ASSUME Shape, Routing
  PROVE  Shape'
<1> USE DEF local, world, Goto
<1>1. node' \in Nodes \ {"execute", "mark"}
  BY DEF Routing, Entry, Orchestrate, RouteDecision, CtiAnalyst, Investigate, InvestigateFails,
         HuntFails, Ignore, RejectResponse, Nodes, Hunting, Looking, Answering, Acting
<1>2. graph' \in [stage : {"triage", "route", "investigate", "verify", "done"},
                  verdict : Verdicts \cup {"unknown", "timeout", "error", "ignored"},
                  conf : Bands, approval : {"none", "approved", "rejected"},
                  signed : BOOLEAN, error : BOOLEAN]
  BY ZenonT(60) DEF Routing, Entry, Orchestrate, CtiAnalyst, Investigate, InvestigateFails,
         HuntFails, Ignore, RejectResponse, Shape, PipelineTypeOK, Bands, Verdicts
<1>3. UNCHANGED <<dryRun, hunter, plan, results, answer, undo, world, others, event, ours, runs>>
  BY DEF Routing, Entry, Orchestrate, CtiAnalyst, Investigate, InvestigateFails,
         HuntFails, Ignore, RejectResponse
<1>4. PipelineTypeOK'
  BY <1>1, <1>2, <1>3 DEF Shape, PipelineTypeOK
<1> QED BY <1>1, <1>3, <1>4, ShapeFrame

LEMMA PocLoopShape ==
  ASSUME Shape, LoopInv, PocLoop
  PROVE  Shape'
<1> USE DEF local, world, Goto
<1>1. node' \in Nodes \ {"execute", "mark"}
  BY DEF PocLoop, GeneratePoc, LinterCheck, SandboxExec, CheckConvergence, Finalize, Aggregate,
         RouteAfterVerdict, Nodes, Hunting, Answering
<1>2. graph' \in [stage : {"triage", "route", "investigate", "verify", "done"},
                  verdict : Verdicts \cup {"unknown", "timeout", "error", "ignored"},
                  conf : Bands, approval : {"none", "approved", "rejected"},
                  signed : BOOLEAN, error : BOOLEAN]
  BY ZenonT(60) DEF PocLoop, GeneratePoc, LinterCheck, SandboxExec, Finalize, Aggregate,
         Shape, PipelineTypeOK, Bands, Verdicts
<1>3. hunter' \in [round : 0 .. MaxIterations, steps : Nat,
                   last : SandboxOutcomes \cup {"none", "linter_fail", "linter_pass"},
                   lint : {"none", "pass", "fail"}, ran : BOOLEAN]
  <2> DEFINE Memory == [round : 0 .. MaxIterations, steps : Nat,
                        last : SandboxOutcomes \cup {"none", "linter_fail", "linter_pass"},
                        lint : {"none", "pass", "fail"}, ran : BOOLEAN]
  <2>1. hunter \in Memory /\ MaxIterations \in Nat
    BY PipelineAssumption DEF Shape, PipelineTypeOK
  <2>7. hunter.steps + 1 \in Nat
    BY <2>1
  <2>2. CASE GeneratePoc
    <3>1. hunter.round + 1 \in 0 .. MaxIterations
      BY <2>1, <2>2 DEF GeneratePoc, LoopInv, Rounds
    <3> QED BY <2>1, <2>2, <2>7, <3>1 DEF GeneratePoc
  <2>3. CASE LinterCheck
    BY <2>1, <2>3, <2>7 DEF LinterCheck
  <2>4. CASE SandboxExec
    BY <2>1, <2>4, <2>7 DEF SandboxExec
  <2>5. CASE Finalize
    BY <2>1, <2>5 DEF Finalize
  <2>6. CASE Aggregate
    <3>1. FreshHunter \in Memory
      BY <2>1 DEF FreshHunter
    <3>2. [FreshHunter EXCEPT !.last = hunter.last] \in Memory
      BY <2>1, <3>1
    <3>3. hunter' \in {FreshHunter, [FreshHunter EXCEPT !.last = hunter.last]}
      BY <2>6 DEF Aggregate
    <3> QED BY <3>1, <3>2, <3>3
  <2> QED BY <2>2, <2>3, <2>4, <2>5, <2>6 DEF PocLoop
<1>4. UNCHANGED <<dryRun, plan, results, answer, undo, world, others, event, ours, runs>>
  BY DEF PocLoop, GeneratePoc, LinterCheck, SandboxExec, Finalize, Aggregate
<1>5. PipelineTypeOK'
  BY <1>1, <1>2, <1>3, <1>4 DEF Shape, PipelineTypeOK
<1> QED BY <1>1, <1>4, <1>5, ShapeFrame

\* A run begins with nothing of the one before it, and ends with the row.
LEMMA EdgesShape ==
  ASSUME Shape, DecisionInv, StartRun \/ MatchPlaybook \/ Hitl \/ Store \/ Crash \/ RespondFails
  PROVE  Shape'
<1> USE DEF local, world, Goto
<1>1. CASE StartRun
  <2>2. runs' \in 0 .. MaxRuns
    BY <1>1, PipelineAssumption DEF StartRun, Shape, PipelineTypeOK
  <2>3. /\ node' \in Nodes /\ event' \in Statuses
        /\ graph' = FreshGraph /\ hunter' = FreshHunter
        /\ plan' = <<>> /\ results' = <<>> /\ answer' = "none" /\ undo' = 0
        /\ theirs' = {} /\ ours' \in BOOLEAN
        /\ UNCHANGED <<dryRun, marks, inForce, times, unmarked, stuck, crossed, others>>
    BY <1>1 DEF StartRun, CreateEvent, Nodes, Statuses
  <2>4. /\ FreshGraph \in [stage : {"triage", "route", "investigate", "verify", "done"},
                           verdict : Verdicts \cup {"unknown", "timeout", "error", "ignored"},
                           conf : Bands, approval : {"none", "approved", "rejected"},
                           signed : BOOLEAN, error : BOOLEAN]
        /\ FreshHunter \in [round : 0 .. MaxIterations, steps : Nat,
                            last : SandboxOutcomes \cup {"none", "linter_fail", "linter_pass"},
                            lint : {"none", "pass", "fail"}, ran : BOOLEAN]
    BY PipelineAssumption DEF FreshGraph, FreshHunter, Bands
  <2>5. Len(<<>>) <= Len(<<>>) /\ 0 \in 0 .. Len(<<>>)
    OBVIOUS
  <2>1. PipelineTypeOK'
    BY <2>2, <2>3, <2>4, <2>5 DEF Shape, PipelineTypeOK
  <2> QED BY <1>1, <2>1 DEF StartRun, Shape
<1>2. CASE MatchPlaybook
  <2>1. results = <<>> /\ plan' \in Playbooks /\ plan' \in Seq(Ops)
    BY <1>2, PipelineAssumption DEF MatchPlaybook, DecisionInv, Early, Before, Untouched
  <2>2. Len(results) <= Len(plan')
    BY <2>1, LenProperties
  <2>3. PipelineTypeOK'
    BY <1>2, <2>1, <2>2 DEF MatchPlaybook, Shape, PipelineTypeOK, Nodes, Answering
  <2> QED BY <1>2, <2>3 DEF MatchPlaybook, Shape
<1>3. CASE Hitl
  <2>2. graph' \in [stage : {"triage", "route", "investigate", "verify", "done"},
                    verdict : Verdicts \cup {"unknown", "timeout", "error", "ignored"},
                    conf : Bands, approval : {"none", "approved", "rejected"},
                    signed : BOOLEAN, error : BOOLEAN]
    BY <1>3, ZenonT(60) DEF Hitl, Shape, PipelineTypeOK
  <2>3. node' \in Nodes /\ UNCHANGED <<dryRun, hunter, plan, results, answer, undo, world, others, event, ours, runs>>
    BY <1>3 DEF Hitl, Nodes, Answering, Acting
  <2>1. PipelineTypeOK'
    BY <2>2, <2>3 DEF Shape, PipelineTypeOK
  <2> QED BY <1>3, <2>1, ShapeFrame DEF Hitl
<1>4. CASE Store
  <2>1. PipelineTypeOK'
    BY <1>4 DEF Store, UpdateEvent, StatusFromResult, Shape, PipelineTypeOK, Nodes, Statuses
  <2> QED BY <1>4, <2>1, ShapeFrame DEF Store
<1>5. CASE Crash \/ RespondFails
  <2>1. unmarked' \subseteq Ops
    <3>1. CASE node = "mark"
      BY <1>5, <3>1, NextOp DEF Crash, RespondFails, Shape, PipelineTypeOK
    <3>2. CASE node # "mark"
      BY <1>5, <3>2 DEF Crash, RespondFails, Shape, PipelineTypeOK
    <3> QED BY <3>1, <3>2
  <2>2. graph' \in [stage : {"triage", "route", "investigate", "verify", "done"},
                    verdict : Verdicts \cup {"unknown", "timeout", "error", "ignored"},
                    conf : Bands, approval : {"none", "approved", "rejected"},
                    signed : BOOLEAN, error : BOOLEAN]
    BY <1>5 DEF Crash, RespondFails, Shape, PipelineTypeOK
  <2>3. /\ UNCHANGED <<dryRun, hunter, plan, results, answer, undo, marks, inForce, times, stuck,
                       crossed, theirs, others, event, ours, runs>>
        /\ node' \in {"idle", "store"}
    BY <1>5 DEF Crash, RespondFails
  <2>4. PipelineTypeOK'
    BY <2>1, <2>2, <2>3 DEF Shape, PipelineTypeOK, Nodes
  <2> QED BY <2>3, <2>4, ShapeFrame
<1> QED BY <1>1, <1>2, <1>3, <1>4, <1>5

\* The steps of the dispatcher: what each does to the results, and to the marks.
LEMMA PlayingShape ==
  ASSUME Shape, Playing
  PROVE  Shape'
<1> USE DEF local, world, Goto
<1>1. /\ node' \in Nodes /\ graph' = graph /\ hunter' = hunter /\ plan' = plan
      /\ UNCHANGED <<dryRun, others, event, ours, runs>>
  BY DEF Playing, CheckDone, Execute, MarkDone, Undo, PlaybookDone, ExecuteResponse,
         Nodes, Answering, Acting
<1>2. CASE CheckDone
  <2>1. Len(results) < Len(plan) /\ Op \in Ops
    BY <1>2, NextOp DEF CheckDone
  <2>2. /\ UNCHANGED <<answer, undo, marks, inForce, times, stuck, theirs>>
        /\ unmarked' \subseteq Ops /\ crossed' \subseteq Ops
    BY <1>2, <2>1 DEF CheckDone, Pass, Shape, PipelineTypeOK
  <2>3. CASE Note("skipped") \/ Note("dry_run")
    <3>1. results' \in Seq(Result) /\ Len(results') <= Len(plan) /\ Len(results') = Len(results) + 1
      BY <2>1, <2>3, Noted DEF Outcomes
    <3>2. node' = "check"
      BY <1>2, <2>3, <3>1, PlanOfOps DEF CheckDone
    <3>3. undo' \in 0 .. Len(results')
      BY <2>2, <3>1, PlanOfOps DEF Shape, PipelineTypeOK
    <3>4. PipelineTypeOK'
      BY <1>1, <2>2, <3>1, <3>3 DEF Shape, PipelineTypeOK
    <3> QED BY <1>1, <3>1, <3>2, <3>4 DEF Shape
  <2>4. CASE results' = results /\ node' = "execute" /\ Kind[Op] # "none"
    <3>1. PipelineTypeOK'
      BY <1>1, <2>2, <2>4 DEF Shape, PipelineTypeOK
    <3> QED BY <1>1, <2>1, <2>4, <3>1 DEF Shape, Op
  <2> QED BY <1>2, <2>3, <2>4 DEF CheckDone
<1>3. CASE Execute
  <2>1. Len(results) < Len(plan) /\ Op \in Ops /\ Kind[Op] # "none"
    BY <1>3, NextOp DEF Execute, Shape
  <2>2. Kind[Op] \in DOMAIN Answers
    BY <2>1, PipelineAssumption
  <2>3. Answers[Kind[Op]] \subseteq {"success", "failed", "skipped", "raised"}
    BY <2>2 DEF Answers, DnsAnswers, TagAnswers, NotifyAnswers, SimulatorAnswers, PluginAnswers
  <2>4. answer' \in {"success", "failed", "skipped", "raised"}
    BY <1>3, <2>3 DEF Execute
  <2>5. times' \in [Ops -> Nat]
    BY <1>3, <2>1 DEF Execute, Effect, Shape, PipelineTypeOK
  <2>6. inForce' \subseteq Undoable /\ UNCHANGED <<marks, unmarked, stuck, crossed, theirs>>
    BY <1>3 DEF Execute, Effect, Shape, PipelineTypeOK
  <2>7. CASE answer' = "raised"
    <3>1. /\ results' \in Seq(Result) /\ Len(results') <= Len(plan)
          /\ Len(results') = Len(results) + 1
      BY <1>3, <2>1, <2>7, Noted DEF Execute, Outcomes
    <3>2. node' = "rollback" /\ undo' = Len(results)
      BY <1>3, <2>7 DEF Execute
    <3>3. undo' \in 0 .. Len(results')
      BY <3>1, <3>2, PlanOfOps
    <3>4. PipelineTypeOK'
      BY <1>1, <2>4, <2>5, <2>6, <3>1, <3>3 DEF Shape, PipelineTypeOK
    <3> QED BY <1>1, <3>1, <3>2, <3>4 DEF Shape
  <2>8. CASE answer' # "raised"
    <3>1. results' = results /\ undo' = undo /\ node' = "mark"
      BY <1>3, <2>8 DEF Execute
    <3>2. PipelineTypeOK'
      BY <1>1, <2>4, <2>5, <2>6, <3>1 DEF Shape, PipelineTypeOK
    <3> QED BY <1>1, <2>1, <2>4, <2>8, <3>1, <3>2 DEF Shape, Op
  <2> QED BY <2>7, <2>8
<1>4. CASE MarkDone
  <2>1. Len(results) < Len(plan) /\ Op \in Ops /\ answer \in Outcomes /\ Note(answer)
    BY <1>4, NextOp DEF MarkDone, Shape, Outcomes
  <2>2. results' \in Seq(Result) /\ Len(results') <= Len(plan) /\ Len(results') = Len(results) + 1
    BY <2>1, Noted
  <2>3. undo' \in 0 .. Len(results') /\ UNCHANGED <<answer, inForce, times, stuck, crossed, theirs>>
    BY <1>4, <2>2, PlanOfOps DEF MarkDone, Shape, PipelineTypeOK
  <2>4. marks' \subseteq Ops /\ unmarked' \subseteq Ops /\ node' = "check"
    BY <1>4, <2>1 DEF MarkDone, Shape, PipelineTypeOK
  <2>5. PipelineTypeOK'
    BY <1>1, <2>2, <2>3, <2>4 DEF Shape, PipelineTypeOK
  <2> QED BY <1>1, <2>2, <2>4, <2>5 DEF Shape
<1>5. CASE Undo
  <2>1. undo \in 1 .. Len(results) /\ undo' = undo - 1 /\ node' = "rollback"
    BY <1>5, PlanOfOps DEF Undo, Shape, PipelineTypeOK
  <2>2. results[undo] \in Result
    BY <2>1, ElementOfSeq DEF Shape
  <2>3. inForce' \subseteq Undoable /\ stuck' \subseteq Ops /\ theirs' \subseteq Ops
    BY <1>5, <2>2 DEF Undo, Shape, PipelineTypeOK, Result
  <2>4. UNCHANGED <<plan, results, answer, marks, times, unmarked, crossed>> /\ undo' \in 0 .. Len(results)
    BY <1>5, <2>1, PlanOfOps DEF Undo
  <2>5. PipelineTypeOK'
    BY <1>1, <2>3, <2>4 DEF Shape, PipelineTypeOK
  <2> QED BY <1>1, <2>1, <2>4, <2>5, ShapeFrame
<1>6. CASE PlaybookDone \/ ExecuteResponse
  <2>1. node' \in {"summary", "store"} /\ UNCHANGED <<plan, results, answer, undo, world>>
    BY <1>6 DEF PlaybookDone, ExecuteResponse
  <2>2. PipelineTypeOK'
    BY <1>1, <2>1 DEF Shape, PipelineTypeOK
  <2> QED BY <1>1, <2>1, <2>2, ShapeFrame
<1> QED BY <1>2, <1>3, <1>4, <1>5, <1>6 DEF Playing

\* A run beside: what it may change, and what it leaves alone.
Beside == \E e \in Siblings : OtherStep(e)

LEMMA OtherOp ==
  ASSUME Shape, NEW e \in Siblings, others[e].todo # <<>>
  PROVE  Head(others[e].todo) \in Ops /\ Tail(others[e].todo) \in Seq(Ops)
<1>1. others[e].todo \in Seq(Ops)
  BY DEF Shape, PipelineTypeOK
<1> QED BY <1>1, HeadTailProperties

LEMMA BesideShape ==
  ASSUME Shape, Beside
  PROVE  Shape' /\ UNCHANGED <<dryRun, node, local>>
<1> PICK e \in Siblings : OtherStep(e)
  BY DEF Beside
<1> DEFINE Side == [step : {"none", "check", "execute", "mark", "rollback"},
                    todo : Seq(Ops), done : SUBSET Ops]
<1>1. UNCHANGED <<dryRun, node, local>>
  BY DEF OtherStep, ClaimedAgain, OtherChecks, OtherExecutes, OtherMarks, OtherUndoes, OtherEnds
<1>2. others \in [Siblings -> Side] /\ others[e] \in Side
  BY DEF Shape, PipelineTypeOK
<1>3. \E r \in Side : Set(e, r) /\ (r.step \in {"execute", "mark"} => r.todo # <<>>)
  <2>1. CASE ClaimedAgain(e)
    <3>1. PICK pb \in Playbooks \cup {<<>>} : Set(e, [step |-> "check", todo |-> pb, done |-> {}])
      BY <2>1 DEF ClaimedAgain
    <3>2. pb \in Seq(Ops)
      BY <3>1, PipelineAssumption, EmptySeq
    <3>3. [step |-> "check", todo |-> pb, done |-> {}] \in Side
      BY <3>2
    <3>4. [step |-> "check", todo |-> pb, done |-> {}].step = "check"
      OBVIOUS
    <3> QED BY <3>1, <3>3, <3>4
  <2>2. CASE OtherChecks(e)
    <3>1. others[e].todo # <<>> /\ Tail(others[e].todo) \in Seq(Ops)
      BY <2>2, OtherOp DEF OtherChecks
    <3>2. \/ Set(e, [others[e] EXCEPT !.todo = Tail(@)]) /\ others[e].step = "check"
          \/ Set(e, [others[e] EXCEPT !.step = "execute"])
      BY <2>2 DEF OtherChecks
    <3>3. /\ [others[e] EXCEPT !.todo = Tail(@)] \in Side
          /\ [others[e] EXCEPT !.todo = Tail(@)].step = others[e].step
      BY <1>2, <3>1
    <3>4. /\ [others[e] EXCEPT !.step = "execute"] \in Side
          /\ [others[e] EXCEPT !.step = "execute"].todo = others[e].todo
      BY <1>2
    <3>5. CASE Set(e, [others[e] EXCEPT !.todo = Tail(@)]) /\ others[e].step = "check"
      BY <3>3, <3>5
    <3>6. CASE Set(e, [others[e] EXCEPT !.step = "execute"])
      BY <3>1, <3>4, <3>6
    <3> QED BY <3>2, <3>5, <3>6
  <2>3. CASE OtherExecutes(e)
    <3>1. others[e].todo # <<>> /\ Head(others[e].todo) \in Ops
      BY <2>3, OtherOp DEF OtherExecutes, Shape
    <3>2. PICK a \in Answers[Kind[Head(others[e].todo)]] :
            Set(e, [others[e] EXCEPT !.step = IF a = "raised" THEN "rollback" ELSE "mark",
                      !.done = IF a = "success" THEN @ \cup {Head(others[e].todo)} ELSE @])
      BY <2>3 DEF OtherExecutes
    <3>3. [others[e] EXCEPT !.step = IF a = "raised" THEN "rollback" ELSE "mark",
              !.done = IF a = "success" THEN @ \cup {Head(others[e].todo)} ELSE @] \in Side
      BY <1>2, <3>1
    <3> QED BY <1>2, <3>1, <3>2, <3>3
  <2>4. CASE OtherMarks(e)
    <3>1. others[e].todo # <<>> /\ Tail(others[e].todo) \in Seq(Ops)
      BY <2>4, OtherOp DEF OtherMarks, Shape
    <3>2. Set(e, [others[e] EXCEPT !.step = "check", !.todo = Tail(@)])
      BY <2>4 DEF OtherMarks
    <3>3. /\ [others[e] EXCEPT !.step = "check", !.todo = Tail(@)] \in Side
          /\ [others[e] EXCEPT !.step = "check", !.todo = Tail(@)].step = "check"
      BY <1>2, <3>1
    <3> QED BY <3>2, <3>3
  <2>5. CASE OtherUndoes(e)
    <3>1. PICK o \in others[e].done : Set(e, [others[e] EXCEPT !.done = @ \ {o}])
      BY <2>5 DEF OtherUndoes
    <3>2. others[e].step = "rollback" /\ [others[e] EXCEPT !.done = @ \ {o}] \in Side
      BY <1>2, <2>5 DEF OtherUndoes
    <3> QED BY <1>2, <3>1, <3>2
  <2>6. CASE OtherEnds(e)
    <3>1. NoRun \in Side /\ NoRun.step = "none"
      BY EmptySeq DEF NoRun
    <3> QED BY <2>6, <3>1 DEF OtherEnds
  <2> QED BY <2>1, <2>2, <2>3, <2>4, <2>5, <2>6 DEF OtherStep
<1>4. /\ others' \in [Siblings -> Side]
      /\ \A d \in Siblings : others'[d].step \in {"execute", "mark"} => others'[d].todo # <<>>
  <2>1. PICK r \in Side : Set(e, r) /\ (r.step \in {"execute", "mark"} => r.todo # <<>>)
    BY <1>3
  <2>2. others' = [others EXCEPT ![e] = r]
    BY <2>1 DEF Set
  <2> QED BY <1>2, <2>1, <2>2 DEF Shape
<1>5. /\ marks' \subseteq Ops /\ unmarked' \subseteq Ops /\ stuck' \subseteq Ops
      /\ crossed' \subseteq Ops /\ theirs' \subseteq Ops
      /\ inForce' \subseteq Undoable /\ times' \in [Ops -> Nat]
      /\ event' \in Statuses /\ ours' \in BOOLEAN /\ runs' \in 0 .. MaxRuns
  <2> USE DEF Shape, PipelineTypeOK
  <2>1. CASE ClaimedAgain(e)
    <3>1. /\ UNCHANGED <<marks, inForce, times, unmarked, stuck, crossed, theirs>>
          /\ runs < MaxRuns /\ runs' = runs + 1 /\ event' = "processing" /\ ours' = FALSE
      BY <2>1 DEF ClaimedAgain, CreateEvent, world
    <3>2. runs' \in 0 .. MaxRuns
      BY <3>1, PipelineAssumption
    <3> QED BY <3>1, <3>2 DEF Statuses
  <2>2. CASE OtherChecks(e)
    BY <2>2, OtherOp DEF OtherChecks, Pass
  <2>3. CASE OtherExecutes(e)
    <3>1. Head(others[e].todo) \in Ops
      BY <2>3, OtherOp DEF OtherExecutes
    <3> QED BY <2>3, <3>1 DEF OtherExecutes, Effect
  <2>4. CASE OtherMarks(e)
    BY <2>4, OtherOp DEF OtherMarks
  <2>5. CASE OtherUndoes(e)
    BY <2>5 DEF OtherUndoes
  <2>6. CASE OtherEnds(e)
    BY <2>6, OtherOp DEF OtherEnds, UpdateEvent
  <2> QED BY <2>1, <2>2, <2>3, <2>4, <2>5, <2>6 DEF OtherStep
<1>6. PipelineTypeOK'
  BY <1>1, <1>4, <1>5 DEF local, Shape, PipelineTypeOK
<1> QED BY <1>1, <1>4, <1>6 DEF local, Shape, Op

LEMMA ShapeKept ==
  ASSUME Shape, LoopInv, DecisionInv, [PipelineNext]_pipelineVars
  PROVE  Shape'
<1>1. CASE Routing
  BY <1>1, RoutingShape
<1>2. CASE PocLoop
  BY <1>2, PocLoopShape
<1>3. CASE StartRun \/ MatchPlaybook \/ Hitl \/ Store \/ Crash \/ RespondFails
  BY <1>3, EdgesShape
<1>4. CASE Playing
  BY <1>4, PlayingShape
<1>5. CASE UNCHANGED pipelineVars \/ \E o \in Ops : Expire(o)
  <2>1. UNCHANGED <<dryRun, node, local, inForce, times, stuck, crossed, theirs, others, event, ours, runs>>
    BY <1>5 DEF Expire, pipelineVars, world
  <2>2. marks' \subseteq Ops /\ unmarked' \subseteq Ops
    BY <1>5 DEF Expire, pipelineVars, world, Shape, PipelineTypeOK
  <2>3. PipelineTypeOK'
    BY <2>1, <2>2 DEF local, Shape, PipelineTypeOK
  <2> QED BY <2>1, <2>3 DEF local, Shape, Op
<1>6. CASE Beside
  BY <1>6, BesideShape
<1> QED BY <1>1, <1>2, <1>3, <1>4, <1>5, <1>6 DEF PipelineNext, Routing, PocLoop, Playing, Beside

-----------------------------------------------------------------------------
\* Away from the PoC loop only its bound matters.
LEMMA LoopFrame ==
  ASSUME LoopInv, hunter' = hunter,
         node' \in Nodes \ (Hunting \cup {"entry", "orchestrator"})
  PROVE  LoopInv'
BY DEF LoopInv, Rounds, Hunting

LEMMA LoopKept ==
  ASSUME Shape, LoopInv, [PipelineNext]_pipelineVars
  PROVE  LoopInv'
<1> USE DEF local, Goto
<1>1. /\ MaxIterations \in Nat \ {0} /\ hunter.round \in Nat /\ hunter.steps \in Nat
      /\ hunter.round <= MaxIterations
      /\ hunter \in [round : 0 .. MaxIterations, steps : Nat,
                     last : SandboxOutcomes \cup {"none", "linter_fail", "linter_pass"},
                     lint : {"none", "pass", "fail"}, ran : BOOLEAN]
  BY PipelineAssumption DEF Shape, PipelineTypeOK
<1>2. ASSUME hunter'.round = 0, hunter'.steps = 0, hunter'.lint = "none",
             node' \in {"generate_poc", "playbook_matcher", "store"}
      PROVE  LoopInv'
  BY <1>1, <1>2 DEF LoopInv, Rounds
<1>3. CASE StartRun
  <2>1. node' = "entry" /\ hunter' = FreshHunter /\ FreshHunter.steps = 0 /\ FreshHunter.lint = "none"
    BY <1>3 DEF StartRun, FreshHunter
  <2> QED BY <1>1, <2>1 DEF LoopInv, Rounds
<1>4. CASE Entry \/ Orchestrate
  BY <1>1, <1>4 DEF Entry, Orchestrate, RouteDecision, LoopInv, Rounds, FreshHunter
<1>5. CASE GeneratePoc
  <2>1. /\ hunter'.round = hunter.round + 1 /\ hunter'.steps = hunter.steps + 1
        /\ hunter'.lint = "none" /\ hunter'.ran = FALSE /\ node' = "linter_check"
    BY <1>1, <1>5 DEF GeneratePoc
  <2>2. hunter.steps = 3 * hunter.round /\ hunter.round < MaxIterations
    BY <1>5 DEF GeneratePoc, LoopInv, Rounds
  <2> QED BY <1>1, <2>1, <2>2 DEF LoopInv, Rounds
<1>6. CASE LinterCheck
  <2>1. /\ hunter'.round = hunter.round /\ hunter'.steps = hunter.steps + 1
        /\ hunter'.lint = "pass" => hunter'.last = "linter_pass"
        /\ node' = "sandbox_exec"
    BY <1>1, <1>6 DEF LinterCheck
  <2>2. hunter.steps = 3 * hunter.round - 2 /\ hunter.round > 0
    BY <1>6 DEF LinterCheck, LoopInv, Rounds
  <2> QED BY <1>1, <2>1, <2>2 DEF LoopInv, Rounds
<1>7. CASE SandboxExec
  <2>1. /\ hunter'.round = hunter.round /\ hunter'.steps = hunter.steps + 1
        /\ hunter'.lint = hunter.lint /\ hunter'.ran = (hunter.last # "linter_fail")
        /\ node' = CheckConvergence(hunter')
    BY <1>1, <1>7 DEF SandboxExec
  <2>2. /\ hunter.steps = 3 * hunter.round - 1 /\ hunter.round > 0
        /\ hunter.lint = "pass" => hunter.last = "linter_pass"
    BY <1>7 DEF SandboxExec, LoopInv, Rounds
  <2>3. /\ node' \in {"generate_poc", "finalize"}
        /\ node' = "generate_poc" => hunter.round < MaxIterations
    BY <1>1, <2>1 DEF CheckConvergence
  <2>4. hunter'.steps = 3 * hunter'.round /\ hunter'.steps <= 3 * MaxIterations
    BY <1>1, <2>1, <2>2
  <2>5. hunter'.lint = "pass" => hunter'.ran
    BY <2>1, <2>2
  <2> QED BY <1>1, <2>1, <2>3, <2>4, <2>5 DEF LoopInv, Rounds
<1>8. CASE Finalize
  <2>1. hunter'.steps = hunter.steps + 1 /\ node' = "aggregator" /\ hunter.steps = 3 * hunter.round
    BY <1>1, <1>8 DEF Finalize, LoopInv, Rounds
  <2> QED BY <1>1, <2>1 DEF LoopInv, Rounds
<1>9. CASE Aggregate
  <2>1. node' \in {"generate_poc", "playbook_matcher", "store"}
    BY <1>9 DEF Aggregate, RouteAfterVerdict
  <2>2. hunter'.round = 0 /\ hunter'.steps = 0 /\ hunter'.lint = "none"
    BY <1>9 DEF Aggregate, FreshHunter
  <2> QED BY <1>2, <2>1, <2>2
<1>10. CASE CtiAnalyst \/ Investigate \/ InvestigateFails \/ HuntFails \/ Ignore
  <2>1. hunter' = hunter /\ node' \in {"investigator", "aggregator", "store"}
    BY <1>10 DEF CtiAnalyst, Investigate, InvestigateFails, HuntFails, Ignore
  <2> QED BY <2>1, LoopFrame DEF Nodes, Looking, Hunting
<1>11. CASE MatchPlaybook \/ Hitl \/ RejectResponse \/ RespondFails
  <2>1. hunter' = hunter /\ node' \in Answering \cup {"store"}
    BY <1>11 DEF MatchPlaybook, Hitl, RejectResponse, RespondFails, Answering, Acting
  <2> QED BY <2>1, LoopFrame DEF Nodes, Answering, Acting, Hunting
<1>12. CASE Playing
  <2>1. hunter' = hunter /\ node' \in Answering \cup {"store"}
    BY <1>12 DEF Playing, CheckDone, Execute, MarkDone, Undo, PlaybookDone, ExecuteResponse,
                 Answering, Acting
  <2> QED BY <2>1, LoopFrame DEF Nodes, Answering, Acting, Hunting
<1>13. CASE Store \/ Crash
  <2>1. hunter' = hunter /\ node' = "idle"
    BY <1>13 DEF Store, Crash
  <2> QED BY <2>1, LoopFrame DEF Nodes, Hunting
<1>14. CASE UNCHANGED pipelineVars \/ \E o \in Ops : Expire(o)
  BY <1>14 DEF Expire, pipelineVars, LoopInv, Rounds
<1>15. CASE Beside
  BY <1>15, BesideShape DEF LoopInv, Rounds
<1> QED BY <1>3, <1>4, <1>5, <1>6, <1>7, <1>8, <1>9, <1>10, <1>11, <1>12, <1>13, <1>14, <1>15
        DEF PipelineNext, Playing, Beside

-----------------------------------------------------------------------------
(* Every other action of the run leaves the world alone and is not the       *)
(* dispatcher's.                                                             *)

LEMMA Elsewhere ==
  ASSUME [PipelineNext]_pipelineVars, ~Playing, ~RespondFails, ~Crash, ~(\E o \in Ops : Expire(o)),
         ~Beside, ~UNCHANGED pipelineVars
  PROVE  /\ UNCHANGED <<marks, inForce, times, unmarked, stuck, crossed, others>>
         /\ node \notin Acting \cup {"summary"}
         /\ node' \notin (Acting \cup {"summary"}) \ {"check"}
         /\ node' = "check" => Hitl
<1> USE DEF local, world, Goto
<1>1. CASE Routing
  BY <1>1 DEF Routing, Entry, Orchestrate, RouteDecision, CtiAnalyst, Investigate, InvestigateFails,
              HuntFails, Ignore, RejectResponse, Looking, Hunting, Acting
<1>2. CASE PocLoop
  BY <1>2 DEF PocLoop, GeneratePoc, LinterCheck, SandboxExec, CheckConvergence, Finalize, Aggregate,
              RouteAfterVerdict, Acting
<1>3. CASE StartRun \/ MatchPlaybook \/ Store
  BY <1>3 DEF StartRun, MatchPlaybook, Store, Acting
<1>4. CASE Hitl
  BY <1>4 DEF Hitl, Acting
<1> QED BY <1>1, <1>2, <1>3, <1>4 DEF PipelineNext, Routing, PocLoop, Playing, Beside

\* A step that leaves the world alone, or forgets more marks, outside an operation.
LEMMA MarkFrame ==
  ASSUME Shape, MarkInv, times' = times, node' \notin {"execute", "mark"},
         others' = others, unmarked \subseteq unmarked', crossed' = crossed,
         marks \subseteq marks' \cup unmarked', marks' = marks \/ \A o \in marks' \ marks : Here(o),
         node = "mark" => Op \in marks' \cup unmarked'
  PROVE  MarkInv'
<1>1. \A o \in Ops : times'[o] > 0 => o \in marks' \cup unmarked' \/ Owed(o)'
  BY DEF MarkInv, Owed
<1>2. RepeatOnlyWithoutMark'
  BY DEF MarkInv, RepeatOnlyWithoutMark
<1>3. \A e \in Siblings : \A o \in Ops :
        others'[e].step = "execute" /\ Head(others'[e].todo) = o /\ o \in marks'
          => o \in unmarked' \cup crossed'
  <2> SUFFICES ASSUME NEW e \in Siblings, NEW o \in Ops,
                      others[e].step = "execute", Head(others[e].todo) = o, o \in marks'
               PROVE  o \in unmarked' \cup crossed'
    OBVIOUS
  <2>1. CASE o \in marks
    BY <2>1 DEF MarkInv
  <2>2. CASE o \notin marks
    BY <2>2 DEF MarkInv, There
  <2> QED BY <2>1, <2>2
<1> QED BY <1>1, <1>2, <1>3 DEF MarkInv, Here, There

\* A run beside the one followed looks for a mark, acts, or sets one: what it
\* holds was held by no other run, or is crossed.
LEMMA BesideMarks ==
  ASSUME Shape, MarkInv, Shape', Beside
  PROVE  MarkInv'
<1> PICK e \in Siblings : OtherStep(e)
  BY DEF Beside
<1> DEFINE run == others[e]
           p   == Head(others[e].todo)
<1>1. /\ UNCHANGED <<node, local>> /\ Op' = Op
      /\ unmarked \subseteq unmarked' /\ crossed \subseteq crossed'
  BY BesideShape DEF local, Op, OtherStep, ClaimedAgain, world, OtherChecks, Pass, OtherExecutes,
                     OtherMarks, OtherUndoes, OtherEnds
<1>2. \A d \in Siblings : d # e => others'[d] = others[d]
  BY DEF OtherStep, ClaimedAgain, OtherChecks, OtherExecutes, OtherMarks, OtherUndoes, OtherEnds,
         Set, Shape, PipelineTypeOK
<1>3. others \in [Siblings -> [step : {"none", "check", "execute", "mark", "rollback"},
                               todo : Seq(Ops), done : SUBSET Ops]]
  BY DEF Shape, PipelineTypeOK
<1>4. ASSUME times' = times, marks' = marks, others'[e].step \notin {"execute", "mark"},
             others[e].step = "mark" => p \in unmarked'
      PROVE  MarkInv'
  <2>1. \A o \in Ops : times'[o] > 0 => o \in marks' \cup unmarked' \/ Owed(o)'
    BY <1>1, <1>2, <1>4 DEF MarkInv, Owed
  <2>2. RepeatOnlyWithoutMark'
    BY <1>1, <1>4 DEF MarkInv, RepeatOnlyWithoutMark
  <2>3. \A d \in Siblings : \A o \in Ops : There(d, o)' => d # e /\ There(d, o)
    BY <1>2, <1>4 DEF There
  <2>4. \A o \in Ops : Here(o)' <=> Here(o)
    BY <1>1 DEF Here
  <2>5. \A d \in Siblings : \A o \in Ops :
          others'[d].step = "execute" /\ Head(others'[d].todo) = o /\ o \in marks'
            => o \in unmarked' \cup crossed'
    BY <1>1, <1>2, <1>4 DEF MarkInv
  <2> QED BY <1>1, <1>4, <2>1, <2>2, <2>3, <2>4, <2>5 DEF MarkInv
<1>5. CASE ClaimedAgain(e)
  <2>1. /\ UNCHANGED <<times, marks>> /\ others[e].step = "none" /\ others'[e].step = "check"
    BY <1>3, <1>5 DEF ClaimedAgain, world, NoRun, Set
  <2> QED BY <1>4, <2>1
<1>6. CASE OtherChecks(e)
  <2>1. UNCHANGED <<times, marks>> /\ run.step = "check" /\ p \in Ops
    BY <1>6, OtherOp DEF OtherChecks
  <2>2. CASE others'[e].step # "execute"
    <3>1. others'[e].step \notin {"execute", "mark"}
      BY <1>3, <1>6, <2>2 DEF OtherChecks, Set
    <3> QED BY <1>4, <2>1, <3>1
  <2>3. CASE others'[e].step = "execute"
    <3>1. /\ others'[e].todo = others[e].todo
          /\ Pass(p) /\ (p \in marks => p \in unmarked')
      BY <1>3, <1>6, <2>3 DEF OtherChecks, Set
    <3>2. \A d \in Siblings : \A o \in Ops : There(d, o)' => (d # e /\ There(d, o)) \/ (d = e /\ o = p)
      BY <1>2, <3>1 DEF There
    <3>3. \A o \in Ops : Here(o)' <=> Here(o)
      BY <1>1 DEF Here
    <3>4. Here(p) \/ (\E d \in Siblings : d # e /\ There(d, p)) => p \in crossed'
      BY <3>1 DEF Pass, Between, Here, There
    <3>5. \A o \in Ops : times'[o] > 0 => o \in marks' \cup unmarked' \/ Owed(o)'
      BY <1>1, <1>2, <2>1 DEF MarkInv, Owed
    <3>6. RepeatOnlyWithoutMark'
      BY <1>1, <2>1 DEF MarkInv, RepeatOnlyWithoutMark
    <3>7. \A d \in Siblings : \A o \in Ops :
            others'[d].step = "execute" /\ Head(others'[d].todo) = o /\ o \in marks'
              => o \in unmarked' \cup crossed'
      BY <1>1, <1>2, <2>1, <3>1 DEF MarkInv
    <3>8. \A d \in Siblings : \A o \in Ops : Here(o)' /\ There(d, o)' => o \in crossed'
      BY <1>1, <3>2, <3>3, <3>4 DEF MarkInv
    <3>9. \A c, d \in Siblings : \A o \in Ops : c # d /\ There(c, o)' /\ There(d, o)' => o \in crossed'
      BY <1>1, <3>2, <3>4 DEF MarkInv
    <3>10. node' = "execute" => (Op' \in marks' => Op' \in unmarked' \cup crossed')
      BY <1>1, <2>1 DEF MarkInv
    <3> QED BY <3>5, <3>6, <3>7, <3>8, <3>9, <3>10 DEF MarkInv
  <2> QED BY <2>2, <2>3
<1>7. CASE OtherExecutes(e)
  <2>1. UNCHANGED <<marks, unmarked, crossed>> /\ run.step = "execute" /\ p \in Ops
    BY <1>7, OtherOp DEF OtherExecutes, Shape
  <2>2. times \in [Ops -> Nat]
    BY DEF Shape, PipelineTypeOK
  <2>3. PICK a \in Answers[Kind[p]] :
          /\ Effect(p, a)
          /\ others'[e].step = (IF a = "raised" THEN "rollback" ELSE "mark")
          /\ others'[e].todo = others[e].todo
    BY <1>3, <1>7 DEF OtherExecutes, Set
  <2>4. CASE a = "raised"
    <3>1. times' = times
      BY <2>3, <2>4 DEF Effect
    <3> QED BY <1>4, <2>1, <2>3, <2>4, <3>1
  <2>5. CASE a # "raised"
    <3>1. times' = times \/ times' = [times EXCEPT ![p] = @ + 1]
      BY <2>3 DEF Effect
    <3>2. others'[e].step = "mark" /\ Owed(p)'
      BY <2>3, <2>5 DEF Owed
    <3>3. \A o \in Ops : o # p => times'[o] = times[o] /\ (Owed(o) => Owed(o)')
      BY <1>1, <1>2, <2>1, <2>2, <3>1 DEF Owed
    <3>4. \A o \in Ops : times'[o] > 0 => o \in marks' \cup unmarked' \/ Owed(o)'
      <4>1. \A o \in Ops : times[o] > 0 => o \in marks \cup unmarked \/ Owed(o)
        BY DEF MarkInv
      <4>2. ASSUME NEW o \in Ops, times'[o] > 0, o # p
            PROVE  o \in marks' \cup unmarked' \/ Owed(o)'
        BY <2>1, <3>3, <4>1, <4>2
      <4> SUFFICES ASSUME NEW o \in Ops, times'[o] > 0, o \notin marks' \cup unmarked'
                   PROVE  Owed(o)'
        OBVIOUS
      <4>3. CASE o = p
        <5>1. others'[e].step = "mark" /\ Head(others'[e].todo) = o
          BY <2>3, <3>2, <4>3
        <5> QED BY <5>1 DEF Owed
      <4>4. CASE o # p
        BY <4>2, <4>4
      <4> QED BY <4>3, <4>4
    <3>5. times[p] > 0 => p \in unmarked \cup crossed
      <4>1. CASE p \in marks \cup unmarked
        BY <2>1, <4>1 DEF MarkInv
      <4>2. CASE Owed(p)
        <5>1. Here(p) \/ \E d \in Siblings : d # e /\ There(d, p)
          BY <2>1, <4>2 DEF Owed, Here, There
        <5>2. There(e, p)
          BY <2>1 DEF There
        <5> QED BY <2>1, <5>1, <5>2 DEF MarkInv
      <4> QED BY <2>1, <4>1, <4>2 DEF MarkInv
    <3>6. times'[p] > 1 => times[p] > 0
      BY <2>1, <2>2, <3>1
    <3>7. RepeatOnlyWithoutMark'
      BY <2>1, <3>3, <3>5, <3>6 DEF MarkInv, RepeatOnlyWithoutMark
    <3>8. \A d \in Siblings : \A o \in Ops : There(d, o)' <=> There(d, o)
      BY <1>2, <2>1, <2>3, <3>2 DEF There
    <3>9. \A o \in Ops : Here(o)' <=> Here(o)
      BY <1>1 DEF Here
    <3>10. \A d \in Siblings : \A o \in Ops :
            others'[d].step = "execute" /\ Head(others'[d].todo) = o /\ o \in marks'
              => o \in unmarked' \cup crossed'
      BY <1>2, <2>1, <3>2 DEF MarkInv
    <3> QED BY <1>1, <2>1, <3>4, <3>7, <3>8, <3>9, <3>10 DEF MarkInv
  <2> QED BY <2>4, <2>5
<1>8. CASE OtherMarks(e)
  <2>1. /\ UNCHANGED <<times, crossed>> /\ run.step = "mark" /\ p \in Ops
        /\ others'[e].step = "check"
        /\ \/ marks' = marks \cup {p} /\ unmarked' = unmarked
           \/ marks' = marks /\ unmarked' = unmarked \cup {p}
    BY <1>3, <1>8, OtherOp DEF OtherMarks, Shape, Set
  <2>2. CASE marks' = marks /\ unmarked' = unmarked \cup {p}
    BY <1>4, <2>1, <2>2
  <2>3. CASE marks' = marks \cup {p} /\ unmarked' = unmarked
    <3>1. \A o \in Ops : times'[o] > 0 => o \in marks' \cup unmarked' \/ Owed(o)'
      BY <1>1, <1>2, <2>1, <2>3 DEF MarkInv, Owed
    <3>2. RepeatOnlyWithoutMark'
      BY <2>1, <2>3 DEF MarkInv, RepeatOnlyWithoutMark
    <3>3. \A d \in Siblings : \A o \in Ops : There(d, o)' => d # e /\ There(d, o)
      BY <1>2, <2>1 DEF There
    <3>4. \A o \in Ops : Here(o)' <=> Here(o)
      BY <1>1 DEF Here
    <3>5. There(e, p)
      BY <2>1 DEF There
    <3>6. node' = "execute" => (Op' \in marks' => Op' \in unmarked' \cup crossed')
      <4>1. node = "execute" /\ Op = p => p \in crossed
        BY <2>1, <3>5 DEF MarkInv, Here
      <4> QED BY <1>1, <2>1, <2>3, <4>1 DEF MarkInv
    <3>7. \A d \in Siblings : \A o \in Ops :
            others'[d].step = "execute" /\ Head(others'[d].todo) = o /\ o \in marks'
              => o \in unmarked' \cup crossed'
      <4> SUFFICES ASSUME NEW d \in Siblings, NEW o \in Ops,
                          others'[d].step = "execute", Head(others'[d].todo) = o, o \in marks'
                   PROVE  o \in unmarked' \cup crossed'
        OBVIOUS
      <4>1. d # e /\ others'[d] = others[d]
        BY <1>2, <2>1
      <4>2. CASE o \in marks
        BY <2>1, <2>3, <4>1, <4>2 DEF MarkInv
      <4>3. CASE o = p
        BY <2>1, <3>5, <4>1, <4>3 DEF MarkInv, There
      <4> QED BY <2>3, <4>2, <4>3
    <3> QED BY <2>1, <3>1, <3>2, <3>3, <3>4, <3>6, <3>7 DEF MarkInv
  <2> QED BY <2>1, <2>2, <2>3
<1>9. CASE OtherUndoes(e)
  <2>1. UNCHANGED <<times, marks>> /\ others[e].step = "rollback" /\ others'[e].step = "rollback"
    BY <1>3, <1>9 DEF OtherUndoes, Set
  <2> QED BY <1>4, <2>1
<1>10. CASE OtherEnds(e)
  <2>1. /\ UNCHANGED <<times, marks>> /\ others'[e].step = "none"
        /\ others[e].step = "mark" => p \in unmarked'
    BY <1>3, <1>10 DEF OtherEnds, NoRun, Set
  <2> QED BY <1>4, <2>1
<1> QED BY <1>5, <1>6, <1>7, <1>8, <1>9, <1>10 DEF OtherStep

LEMMA MarkKept ==
  ASSUME Shape, Shape', MarkInv, [PipelineNext]_pipelineVars
  PROVE  MarkInv'
<1> USE DEF world, local, Goto
<1>1. CASE /\ ~Playing /\ ~RespondFails /\ ~Crash /\ ~(\E o \in Ops : Expire(o)) /\ ~Beside
           /\ ~UNCHANGED pipelineVars
  BY <1>1, Elsewhere, MarkFrame DEF Acting
<1>2. CASE RespondFails \/ Crash
  BY <1>2, MarkFrame DEF RespondFails, Crash
<1>3. CASE \E o \in Ops : Expire(o)
  BY <1>3, MarkFrame DEF Expire
<1>4. CASE UNCHANGED pipelineVars
  <2>1. \A o \in Ops : /\ Owed(o)' <=> Owed(o)
                       /\ Here(o)' <=> Here(o)
                       /\ \A e \in Siblings : There(e, o)' <=> There(e, o)
    BY <1>4 DEF pipelineVars, Owed, Here, There, Op
  <2> QED BY <1>4, <2>1 DEF pipelineVars, MarkInv, RepeatOnlyWithoutMark, Op
<1>5. CASE CheckDone
  <2>1. /\ UNCHANGED <<times, marks, others>> /\ unmarked \subseteq unmarked' /\ crossed \subseteq crossed'
        /\ node = "check" /\ node' \in {"check", "execute"}
    BY <1>5 DEF CheckDone, Pass
  <2>2. CASE node' = "check"
    <3>1. crossed' = crossed
      BY <1>5, <2>2 DEF CheckDone
    <3> QED BY <2>1, <2>2, <3>1, MarkFrame
  <2>3. CASE node' = "execute"
    <3>1. Op' = Op /\ Pass(Op)
      BY <1>5, <2>3 DEF CheckDone, Op
    <3>2. Op \in marks => Op \in unmarked'
      BY <1>5, <2>3 DEF CheckDone
    <3>3. \A o \in Ops : times'[o] > 0 => o \in marks' \cup unmarked' \/ Owed(o)'
      BY <2>1 DEF MarkInv, Owed
    <3>4. RepeatOnlyWithoutMark'
      BY <2>1 DEF MarkInv, RepeatOnlyWithoutMark
    <3>5. \A e \in Siblings : \A o \in Ops : There(e, o)' <=> There(e, o)
      BY <2>1 DEF There
    <3>6. \A e \in Siblings : \A o \in Ops : Here(o)' /\ There(e, o)' => o \in crossed'
      BY <2>1, <3>1, <3>5 DEF Pass, Between, Here, There
    <3>7. \A e \in Siblings : \A o \in Ops :
            others'[e].step = "execute" /\ Head(others'[e].todo) = o /\ o \in marks'
              => o \in unmarked' \cup crossed'
      BY <2>1 DEF MarkInv
    <3> QED BY <2>1, <2>3, <3>1, <3>2, <3>3, <3>4, <3>5, <3>6, <3>7 DEF MarkInv
  <2> QED BY <2>1, <2>2, <2>3
<1>6. CASE Execute
  <2>1. /\ node = "execute" /\ UNCHANGED <<plan, marks, unmarked, crossed, others>> /\ Op \in Ops
    BY <1>6, NextOp DEF Execute, Shape
  <2>2. times \in [Ops -> Nat]
    BY DEF Shape, PipelineTypeOK
  <2>3. CASE times' = times /\ node' = "rollback"
    BY <2>1, <2>3, MarkFrame
  <2>4. CASE node' = "mark" /\ results' = results
             /\ (times' = times \/ times' = [times EXCEPT ![Op] = @ + 1])
    <3>1. Op' = Op /\ Owed(Op)'
      BY <2>1, <2>4 DEF Op, Owed
    <3>2. \A o \in Ops : o # Op => times'[o] = times[o] /\ (Owed(o) => Owed(o)')
      BY <2>1, <2>2, <2>4 DEF Owed
    <3>3. \A o \in Ops : times'[o] > 0 => o \in marks' \cup unmarked' \/ Owed(o)'
      BY <2>1, <3>1, <3>2 DEF MarkInv
    <3>4. times[Op] > 0 => Op \in unmarked \cup crossed
      <4>1. Owed(Op) => \E e \in Siblings : There(e, Op)
        BY <2>1 DEF Owed, There
      <4>2. Here(Op)
        BY <2>1 DEF Here
      <4> QED BY <2>1, <4>1, <4>2 DEF MarkInv
    <3>5. times'[Op] > 1 => times[Op] > 0
      BY <2>1, <2>2, <2>4
    <3>6. RepeatOnlyWithoutMark'
      BY <2>1, <3>2, <3>4, <3>5 DEF MarkInv, RepeatOnlyWithoutMark
    <3>7. \A e \in Siblings : \A o \in Ops : /\ There(e, o)' <=> There(e, o)
                                             /\ Here(o)' <=> Here(o)
      BY <2>1, <2>4, <3>1 DEF There, Here
    <3> QED BY <2>1, <2>4, <3>3, <3>6, <3>7 DEF MarkInv
  <2> QED
    <3>1. CASE answer' = "raised"
      BY <1>6, <2>3, <3>1 DEF Execute, Effect
    <3>2. CASE answer' # "raised"
      BY <1>6, <2>4, <3>2 DEF Execute, Effect
    <3> QED BY <3>1, <3>2
<1>7. CASE MarkDone
  BY <1>7, MarkFrame DEF MarkDone, Here
<1>8. CASE Undo \/ PlaybookDone \/ ExecuteResponse
  BY <1>8, MarkFrame DEF Undo, PlaybookDone, ExecuteResponse
<1>9. CASE Beside
  BY <1>9, BesideMarks
<1> QED BY <1>1, <1>2, <1>3, <1>4, <1>5, <1>6, <1>7, <1>8, <1>9 DEF Playing

-----------------------------------------------------------------------------
LEMMA RollbackKept ==
  ASSUME Shape, DecisionInv, RollbackInv, [PipelineNext]_pipelineVars
  PROVE  RollbackInv'
<1> USE DEF world, local, Goto
<1>1. ASSUME node' \notin {"check", "execute", "mark", "rollback", "summary"}
      PROVE  RollbackInv'
  BY <1>1 DEF RollbackInv, RolledBackOnRaise
<1>2. CASE /\ ~Playing /\ ~RespondFails /\ ~Crash /\ ~(\E o \in Ops : Expire(o)) /\ ~Beside
           /\ ~UNCHANGED pipelineVars
  <2>1. CASE node' = "check"
    <3>1. results' = <<>>
      BY <1>2, <2>1, Elsewhere DEF Hitl, DecisionInv
    <3> QED BY <2>1, <3>1 DEF RollbackInv, RolledBackOnRaise
  <2> QED BY <1>1, <1>2, <2>1, Elsewhere DEF Acting
<1>3. CASE RespondFails \/ Crash \/ ExecuteResponse \/ \E o \in Ops : Expire(o)
  BY <1>1, <1>3 DEF RespondFails, Crash, ExecuteResponse, Expire
<1>4. CASE UNCHANGED pipelineVars
  BY <1>4 DEF pipelineVars, RollbackInv, RolledBackOnRaise, LastRaised, Undone
<1>5. ASSUME NEW s \in {"success", "failed", "skipped", "dry_run"}, Note(s), Len(results) < Len(plan),
             node \in {"check", "mark"}, node' = "check"
      PROVE  RollbackInv'
  <2>1. s \in Outcomes
    BY <1>5 DEF Outcomes
  <2>2. \A i \in DOMAIN results' : i \in DOMAIN results \/ (i = Len(results') /\ results'[i] = [op |-> Op, status |-> s])
    BY <1>5, <2>1, Noted
  <2>3. \A i \in DOMAIN results : results'[i] = results[i]
    BY <1>5, <2>1, Noted
  <2>4. \A i \in DOMAIN results' : results'[i].status # "raised"
    BY <1>5, <2>2, <2>3 DEF RollbackInv
  <2> QED BY <1>5, <2>4 DEF RollbackInv, RolledBackOnRaise
<1>6. CASE CheckDone
  <2>1. CASE node' = "check"
    BY <1>5, <1>6, <2>1 DEF CheckDone
  <2>2. CASE node' = "execute"
    BY <1>6, <2>2 DEF CheckDone, RollbackInv, RolledBackOnRaise
  <2> QED BY <1>6, <2>1, <2>2 DEF CheckDone
<1>7. CASE Execute
  <2>1. CASE answer' # "raised"
    BY <1>7, <2>1 DEF Execute, RollbackInv, RolledBackOnRaise
  <2>2. CASE answer' = "raised"
    <3>1. Note("raised") /\ undo' = Len(results) /\ node' = "rollback" /\ Len(results) < Len(plan)
      BY <1>7, <2>2 DEF Execute, Shape
    <3>2. "raised" \in Outcomes
      BY DEF Outcomes
    <3>3. /\ \A i \in DOMAIN results' : i \in DOMAIN results \/ (i = Len(results') /\ results'[i] = [op |-> Op, status |-> "raised"])
          /\ results' # <<>> /\ results'[Len(results')].status = "raised"
      BY <3>1, <3>2, Noted
    <3>4. \A i \in DOMAIN results : i <= Len(results)
      BY LenProperties DEF Shape
    <3>5. \A i \in DOMAIN results' : i > undo' => Undone(i)'
      BY <3>1, <3>3, <3>4, PlanOfOps DEF Undone, Shape
    <3> QED BY <3>1, <3>3, <3>5 DEF RollbackInv, RolledBackOnRaise, LastRaised
  <2> QED BY <2>1, <2>2
<1>8. CASE MarkDone
  <2>1. Len(results) < Len(plan) /\ answer \in {"success", "failed", "skipped"}
    BY <1>8 DEF MarkDone, Shape
  <2> QED BY <1>5, <1>8, <2>1 DEF MarkDone
<1>9. CASE Undo
  <2>1. /\ undo \in Nat /\ undo > 0 /\ undo' = undo - 1 /\ results' = results
        /\ node = "rollback" /\ node' = "rollback"
    BY <1>9, PlanOfOps DEF Undo
  <2>2. /\ stuck \subseteq stuck'
        /\ \A o \in Ops : o \notin inForce \/ o \in stuck \cup theirs
                         => o \notin inForce' \/ o \in stuck' \cup theirs'
    BY <1>9 DEF Undo
  <2>7. \A i \in DOMAIN results : results[i].op \in Ops
    <3>1. \A i \in DOMAIN results : results[i] \in Result
      BY ElementOfSeq, LenProperties DEF Shape
    <3> QED BY <3>1 DEF Result
  <2>3. \A i \in DOMAIN results : i = undo => Undone(i)'
    BY <1>9, <2>1 DEF Undo, Undone
  <2>4. \A i \in DOMAIN results : i > undo => Undone(i)'
    BY <2>1, <2>2, <2>7 DEF RollbackInv, Undone
  <2>5. \A i \in DOMAIN results : i > undo' => i > undo \/ i = undo
    BY <2>1, LenProperties DEF Shape
  <2>6. \A i \in DOMAIN results : i > undo' => Undone(i)'
    BY <2>1, <2>3, <2>4, <2>5 DEF Undone
  <2> QED BY <2>1, <2>6 DEF RollbackInv, RolledBackOnRaise, LastRaised
<1>10. CASE PlaybookDone
  <2>1. node' = "summary" /\ UNCHANGED <<results, inForce, stuck, theirs>>
    BY <1>10 DEF PlaybookDone
  <2>2. CASE node = "check"
    BY <2>1, <2>2 DEF RollbackInv, RolledBackOnRaise
  <2>3. CASE node = "rollback" /\ undo = 0
    <3>1. \A i \in DOMAIN results : i > 0
      BY LenProperties DEF Shape
    <3> QED BY <2>1, <2>3, <3>1 DEF RollbackInv, RolledBackOnRaise, Undone
  <2> QED BY <1>10, <2>2, <2>3 DEF PlaybookDone
<1>11. CASE Beside
  <2>1. UNCHANGED <<node, local>> /\ stuck' = stuck
    BY <1>11, BesideShape DEF Beside, OtherStep, ClaimedAgain, OtherChecks, OtherExecutes, OtherMarks,
                              OtherUndoes, OtherEnds
  <2>2. \A o \in Ops : o \notin inForce \/ o \in theirs => o \notin inForce' \/ o \in theirs'
    <3>1. PICK e \in Siblings : OtherStep(e)
      BY <1>11 DEF Beside
    <3>2. CASE OtherExecutes(e)
      <4>1. /\ theirs' = IF times' # times THEN theirs \cup {Head(others[e].todo)} ELSE theirs
            /\ \E a \in Answers[Kind[Head(others[e].todo)]] : Effect(Head(others[e].todo), a)
        BY <3>2 DEF OtherExecutes
      <4>2. Head(others[e].todo) \in Ops /\ times \in [Ops -> Nat]
        BY <3>2, OtherOp DEF OtherExecutes, Shape, PipelineTypeOK
      <4>3. times' # times \/ inForce' = inForce
        BY <4>1, <4>2 DEF Effect
      <4>4. inForce' \subseteq inForce \cup {Head(others[e].todo)}
        BY <4>1 DEF Effect
      <4> QED BY <4>1, <4>3, <4>4
    <3>3. CASE ~OtherExecutes(e)
      <4>1. inForce' \subseteq inForce /\ theirs' = theirs
        BY <3>1, <3>3 DEF OtherStep, ClaimedAgain, OtherChecks, OtherMarks, OtherUndoes, OtherEnds
      <4> QED BY <4>1
    <3> QED BY <3>2, <3>3
  <2>3. \A i \in DOMAIN results : results[i].op \in Ops
    <3>1. \A i \in DOMAIN results : results[i] \in Result
      BY ElementOfSeq, LenProperties DEF Shape
    <3> QED BY <3>1 DEF Result
  <2>4. \A i \in DOMAIN results : Undone(i) => Undone(i)'
    BY <2>1, <2>2, <2>3 DEF Undone
  <2>5. RolledBackOnRaise'
    BY <2>1, <2>4 DEF RollbackInv, RolledBackOnRaise, Undone
  <2> QED BY <2>1, <2>4, <2>5 DEF RollbackInv, LastRaised
<1> QED BY <1>2, <1>3, <1>4, <1>6, <1>7, <1>8, <1>9, <1>10, <1>11 DEF Playing

-----------------------------------------------------------------------------
\* The level of a playbook is the highest of its operations.
LEMMA LevelIsMax ==
  ASSUME NEW pb \in Seq(Ops)
  PROVE  LevelOf(pb) \in 1 .. 5 /\ \A i \in DOMAIN pb : Level[pb[i]] <= LevelOf(pb)
<1> DEFINE Top(l) == /\ \E i \in DOMAIN pb : Level[pb[i]] = l
                     /\ \A i \in DOMAIN pb : Level[pb[i]] <= l
<1>1. CASE pb = <<>>
  BY <1>1 DEF LevelOf
<1>2. CASE pb # <<>>
  <2>1. \A i \in DOMAIN pb : Level[pb[i]] \in 1 .. 5
    BY PipelineAssumption, ElementOfSeq, LenProperties
  <2>2. \E i \in DOMAIN pb : TRUE
    <3>1. Len(pb) \in Nat /\ DOMAIN pb = 1 .. Len(pb)
      BY LenProperties
    <3>2. Len(pb) # 0
      BY <1>2, EmptySeq
    <3>3. 1 \in DOMAIN pb
      BY <3>1, <3>2
    <3> QED BY <3>3
  <2>3. \E l \in 1 .. 5 : Top(l)
    <3>1. CASE \E i \in DOMAIN pb : Level[pb[i]] = 5
      BY <2>1, <3>1, SMTT(30)
    <3>2. CASE /\ \E i \in DOMAIN pb : Level[pb[i]] = 4
               /\ \A i \in DOMAIN pb : Level[pb[i]] # 5
      BY <2>1, <3>2
    <3>3. CASE /\ \E i \in DOMAIN pb : Level[pb[i]] = 3
               /\ \A i \in DOMAIN pb : Level[pb[i]] \notin {4, 5}
      BY <2>1, <3>3
    <3>4. CASE /\ \E i \in DOMAIN pb : Level[pb[i]] = 2
               /\ \A i \in DOMAIN pb : Level[pb[i]] \notin {3, 4, 5}
      BY <2>1, <3>4
    <3>5. CASE \A i \in DOMAIN pb : Level[pb[i]] \notin {2, 3, 4, 5}
      <4>1. \A i \in DOMAIN pb : Level[pb[i]] = 1
        BY <2>1, <3>5
      <4> QED BY <2>2, <4>1
    <3> QED BY <3>1, <3>2, <3>3, <3>4, <3>5
  <2>4. LevelOf(pb) = CHOOSE l \in 1 .. 5 : Top(l)
    BY <1>2 DEF LevelOf
  <2>5. LevelOf(pb) \in 1 .. 5 /\ Top(LevelOf(pb))
    BY <2>3, <2>4
  <2> QED BY <2>5
<1> QED BY <1>1, <1>2

\* A serious playbook is one that needs a person.
LEMMA SeriousLevel ==
  ASSUME Shape, LevelOf(plan) <= 2
  PROVE  ~Serious
<1>1. LevelOf(plan) \in 1 .. 5 /\ \A i \in DOMAIN plan : Level[plan[i]] <= LevelOf(plan)
  BY PlanOfOps, LevelIsMax
<1>2. \A i \in DOMAIN plan : Level[plan[i]] \in 1 .. 5
  BY PlanOfOps, PipelineAssumption, ElementOfSeq, LenProperties
<1> QED BY <1>1, <1>2 DEF Serious

-----------------------------------------------------------------------------
\* Up to the verdict a run has no playbook, no approval and no error.
LEMMA VerdictKept ==
  ASSUME Shape, DecisionInv, Routing \/ PocLoop, ~RejectResponse
  PROVE  DecisionInv'
<1> USE DEF local, world, Goto
<1>1. /\ UNCHANGED <<plan, results, event, ours>>
      /\ node # "idle" /\ node' # "idle" /\ (ours => event = "processing")
  BY DEF Routing, PocLoop, Entry, Orchestrate, RouteDecision, CtiAnalyst, Investigate,
         InvestigateFails, Looking, HuntFails, Hunting, Ignore, GeneratePoc, LinterCheck, SandboxExec,
         CheckConvergence, Finalize, Aggregate, RouteAfterVerdict, DecisionInv
<1>2. ASSUME Untouched', node' \in (Early \ {"entry"}) \cup {"store"},
             node' \in Looking => graph'.stage = "route",
             node' = "playbook_matcher" => Confirmed',
             node' = "aggregator" /\ graph'.stage = "verify" /\ graph'.verdict = "true_positive"
               => hunter'.last = "vulnerable"
      PROVE  DecisionInv'
  <2>1. node' \notin (Answering \ {"playbook_matcher"}) \cup {"idle", "entry"}
    BY <1>2 DEF Early, Before, Looking, Hunting, Answering, Acting
  <2> QED BY <1>1, <1>2, <2>1 DEF DecisionInv, Untouched, StoredStatusTruthful, Answering, Acting, Looking
<1>3. CASE Entry
  <2>1. node' = "orchestrator" /\ Untouched'
    BY <1>1, <1>3 DEF Entry, DecisionInv, Untouched, FreshGraph
  <2> QED BY <1>2, <2>1 DEF Early, Before, Looking
<1>4. ~Entry => Untouched
  BY DEF Routing, PocLoop, Orchestrate, CtiAnalyst, Investigate, InvestigateFails, Looking, HuntFails,
         Hunting, Ignore, GeneratePoc, LinterCheck, SandboxExec, Finalize, Aggregate, DecisionInv,
         Early, Before
<1>5. Untouched /\ graph \in [stage : {"triage", "route", "investigate", "verify", "done"},
                  verdict : Verdicts \cup {"unknown", "timeout", "error", "ignored"},
                  conf : Bands, approval : {"none", "approved", "rejected"},
                  signed : BOOLEAN, error : BOOLEAN] /\ ~Entry => Untouched'
  BY <1>1 DEF Routing, PocLoop, Orchestrate, CtiAnalyst, Investigate, InvestigateFails, HuntFails,
         Ignore, GeneratePoc, LinterCheck, SandboxExec, Finalize, Aggregate, Untouched
<1>6. ~Entry => Untouched'
  BY <1>4, <1>5 DEF Shape, PipelineTypeOK
<1>7. CASE Orchestrate \/ CtiAnalyst \/ GeneratePoc \/ LinterCheck \/ SandboxExec
  <2>1. node' \in Looking \cup Hunting \cup {"ignore"}
    BY <1>7 DEF Orchestrate, RouteDecision, CtiAnalyst, GeneratePoc, LinterCheck, SandboxExec,
                CheckConvergence, Looking, Hunting
  <2>2. ~Entry
    BY <1>7 DEF Entry, Orchestrate, CtiAnalyst, GeneratePoc, LinterCheck, SandboxExec
  <2>3. node' \in Looking => graph'.stage = "route"
    BY <1>7 DEF Orchestrate, RouteDecision, CtiAnalyst, GeneratePoc, LinterCheck, SandboxExec,
                CheckConvergence, Looking, DecisionInv, Shape, PipelineTypeOK
  <2> QED BY <1>2, <1>6, <2>1, <2>2, <2>3 DEF Early, Before, Looking, Hunting
<1>8. CASE Investigate \/ InvestigateFails \/ HuntFails \/ Finalize
  <2>1. node' = "aggregator" /\ ~Entry
    BY <1>8 DEF Entry, Investigate, InvestigateFails, HuntFails, Finalize, Looking, Hunting
  <2>2. graph'.stage = "verify" /\ graph'.verdict = "true_positive" => hunter'.last = "vulnerable"
    <3>1. CASE Investigate
      BY <3>1 DEF Investigate, Shape, PipelineTypeOK, DecisionInv, Looking
    <3>2. CASE InvestigateFails \/ HuntFails
      BY <3>2 DEF InvestigateFails, HuntFails, Shape, PipelineTypeOK
    <3>3. CASE Finalize
      BY <3>3 DEF Finalize, Shape, PipelineTypeOK
    <3> QED BY <1>8, <3>1, <3>2, <3>3
  <2> QED BY <1>2, <1>6, <2>1, <2>2 DEF Early, Before, Looking
<1>9. CASE Aggregate \/ Ignore
  <2>1. node' \in {"generate_poc", "playbook_matcher", "store"} /\ ~Entry
    BY <1>9 DEF Entry, Aggregate, Ignore, RouteAfterVerdict
  <2>2. node' = "playbook_matcher" => Confirmed'
    BY <1>9 DEF Aggregate, Ignore, RouteAfterVerdict, FreshHunter, Confirmed, DecisionInv
  <2> QED BY <1>2, <1>6, <2>1, <2>2 DEF Early, Before, Looking, Hunting
<1> QED BY <1>3, <1>7, <1>8, <1>9 DEF Routing, PocLoop

\* The dispatcher leaves the decision as it is; only its results grow.
LEMMA PlayingKept ==
  ASSUME Shape, DecisionInv, RollbackInv, Playing
  PROVE  DecisionInv'
<1> USE DEF local, world, Goto
<1>1. /\ UNCHANGED <<graph, hunter, plan, event, ours>>
      /\ node \in Acting \cup {"summary"} /\ (ours => event = "processing")
      /\ node' \in Acting \cup {"summary", "store"}
      /\ node' = "store" => ExecuteResponse
      /\ node' = "summary" => PlaybookDone
  BY DEF Playing, CheckDone, Execute, MarkDone, Undo, PlaybookDone, ExecuteResponse, Shape, Acting,
         DecisionInv
<1>2. Confirmed /\ graph.approval = "approved" /\ ~graph.error /\ (Serious => graph.signed)
  BY <1>1 DEF DecisionInv, Answering
<1>3. Confirmed' /\ graph'.approval = "approved" /\ ~graph'.error /\ (Serious' => graph'.signed)
  BY <1>1, <1>2 DEF Confirmed, Serious
<1>4. CASE node' \in Acting
  BY <1>1, <1>3, <1>4 DEF DecisionInv, Early, Before, Looking, Hunting, Acting, StoredStatusTruthful
<1>5. CASE PlaybookDone /\ node' = "summary"
  <2>1. results' = results /\ PlayedOut
    BY <1>5 DEF PlaybookDone, PlayedOut, RollbackInv
  <2> QED BY <1>1, <1>3, <1>5, <2>1
          DEF DecisionInv, Early, Before, Looking, Hunting, Acting, StoredStatusTruthful, PlayedOut, LastRaised
<1>6. CASE ExecuteResponse /\ node' = "store"
  <2>1. results' = results /\ PlayedOut
    BY <1>6 DEF ExecuteResponse, DecisionInv
  <2> QED BY <1>1, <1>3, <1>6, <2>1
          DEF DecisionInv, Early, Before, Looking, Hunting, Answering, Acting, StoredStatusTruthful,
              PlayedOut, LastRaised
<1> QED BY <1>1, <1>4, <1>5, <1>6

\* The responder before the dispatcher, and the two ends of a run.
LEMMA ResponderKept ==
  ASSUME Shape, DecisionInv,
         \/ StartRun \/ MatchPlaybook \/ Hitl \/ RejectResponse \/ RespondFails \/ Store \/ Crash
         \/ (\E o \in Ops : Expire(o)) \/ Beside \/ UNCHANGED pipelineVars
  PROVE  DecisionInv'
<1> USE DEF local, world, Goto
<1>1. CASE StartRun
  BY <1>1 DEF StartRun, CreateEvent, DecisionInv, Early, Before, Looking, Hunting, Answering, Acting,
              StoredStatusTruthful
<1>2. CASE MatchPlaybook
  <2>1. Untouched /\ Confirmed /\ (ours => event = "processing")
    BY <1>2 DEF MatchPlaybook, DecisionInv, Early, Before, Answering
  <2>2. node' = "hitl_approval" /\ UNCHANGED <<graph, hunter, results, event, ours>>
    BY <1>2 DEF MatchPlaybook
  <2> QED BY <2>1, <2>2 DEF DecisionInv, Untouched, Confirmed, Early, Before, Looking, Hunting, Acting,
                            StoredStatusTruthful
<1>3. CASE Hitl
  <2>1. /\ Confirmed /\ (ours => event = "processing") /\ results = <<>> /\ ~graph.error
        /\ UNCHANGED <<hunter, plan, results, event, ours>>
    BY <1>3 DEF Hitl, DecisionInv, Answering
  <2>2. Confirmed' /\ ~graph'.error
    BY <1>3, <2>1 DEF Hitl, Confirmed, Shape, PipelineTypeOK
  <2>3. CASE node' = "check"
    <3>1. graph'.approval = "approved"
      BY <1>3, <2>3 DEF Hitl, Shape, PipelineTypeOK
    <3>2. CASE LevelOf(plan) <= 2
      <4>1. ~Serious'
        BY <2>1, <3>2, SeriousLevel DEF Serious
      <4> QED BY <2>1, <2>2, <2>3, <3>1, <4>1
              DEF DecisionInv, Early, Before, Looking, Hunting, Acting, StoredStatusTruthful
    <3>3. CASE ~(LevelOf(plan) <= 2)
      <4>1. graph'.signed
        BY <1>3, <2>3, <3>3 DEF Hitl, Shape, PipelineTypeOK
      <4> QED BY <2>1, <2>2, <2>3, <3>1, <4>1
              DEF DecisionInv, Early, Before, Looking, Hunting, Acting, StoredStatusTruthful
    <3> QED BY <3>2, <3>3
  <2>4. CASE node' = "reject_response"
    <3>1. graph'.approval = "rejected"
      BY <1>3, <2>4 DEF Hitl, Shape, PipelineTypeOK
    <3> QED BY <2>1, <2>2, <2>4, <3>1
            DEF DecisionInv, Early, Before, Looking, Hunting, Acting, StoredStatusTruthful
  <2> QED BY <1>3, <2>3, <2>4 DEF Hitl
<1>4. CASE RejectResponse
  <2>1. /\ node' = "store" /\ UNCHANGED <<graph, results, event, ours>>
        /\ (ours => event = "processing")
        /\ ~graph.error /\ graph.approval = "rejected" /\ results = <<>>
    BY <1>4 DEF RejectResponse, DecisionInv
  <2> QED BY <2>1 DEF DecisionInv, Early, Before, Looking, Hunting, Answering, Acting, StoredStatusTruthful
<1>5. CASE RespondFails
  <2>1. node' = "store" /\ (ours' => event' = "processing") /\ graph'.error
    BY <1>5 DEF RespondFails, DecisionInv, Answering, Acting, Shape, PipelineTypeOK
  <2> QED BY <2>1 DEF DecisionInv, Early, Before, Looking, Hunting, Answering, Acting, StoredStatusTruthful
<1>6. CASE Store
  <2>1. node = "store" /\ node' = "idle" /\ UNCHANGED <<graph, plan, results>>
        /\ event' = StatusFromResult(graph)
    BY <1>6 DEF Store, UpdateEvent
  <2>2. StoredStatusTruthful'
    BY <2>1 DEF StoredStatusTruthful, StatusFromResult, DecisionInv, PlayedOut, LastRaised
  <2> QED BY <2>1, <2>2 DEF DecisionInv, Early, Before, Looking, Hunting, Answering, Acting
<1>7. CASE Crash
  <2>1. node' = "idle" /\ (ours' => event' = "processing")
    BY <1>7 DEF Crash, DecisionInv
  <2> QED BY <2>1 DEF DecisionInv, Early, Before, Looking, Hunting, Answering, Acting, StoredStatusTruthful
<1>8. CASE (\E o \in Ops : Expire(o)) \/ UNCHANGED pipelineVars
  <2>1. UNCHANGED <<node, graph, hunter, plan, results, event, ours>>
    BY <1>8 DEF Expire, pipelineVars
  <2> QED BY <2>1 DEF DecisionInv, Untouched, Confirmed, Serious, PlayedOut, LastRaised, StoredStatusTruthful
<1>9. CASE Beside
  <2>1. /\ UNCHANGED <<node, graph, hunter, plan, results>>
        /\ ~ours' \/ UNCHANGED <<event, ours>>
    BY <1>9, BesideShape DEF Beside, OtherStep, ClaimedAgain, CreateEvent, OtherChecks, OtherExecutes,
                             OtherMarks, OtherUndoes, OtherEnds, UpdateEvent
  <2>2. (node' # "idle" /\ ours' => event' = "processing") /\ StoredStatusTruthful'
    BY <2>1 DEF DecisionInv, StoredStatusTruthful
  <2> QED BY <2>1, <2>2 DEF DecisionInv, Untouched, Confirmed, Serious, PlayedOut, LastRaised
<1> QED BY <1>1, <1>2, <1>3, <1>4, <1>5, <1>6, <1>7, <1>8, <1>9

LEMMA DecisionKept ==
  ASSUME Shape, DecisionInv, RollbackInv, [PipelineNext]_pipelineVars
  PROVE  DecisionInv'
BY VerdictKept, PlayingKept, ResponderKept DEF PipelineNext, Routing, PocLoop, Playing, Beside

-----------------------------------------------------------------------------
PipelineInd == Shape /\ LoopInv /\ DecisionInv /\ MarkInv /\ RollbackInv

LEMMA PipelineAlways == PipelineSpec => []PipelineInd
<1>1. PipelineInit => PipelineInd
  <2> SUFFICES ASSUME PipelineInit PROVE PipelineInd
    OBVIOUS
  <2>1. /\ FreshGraph \in [stage : {"triage", "route", "investigate", "verify", "done"},
                           verdict : Verdicts \cup {"unknown", "timeout", "error", "ignored"},
                           conf : Bands, approval : {"none", "approved", "rejected"},
                           signed : BOOLEAN, error : BOOLEAN]
        /\ FreshHunter \in [round : 0 .. MaxIterations, steps : Nat,
                            last : SandboxOutcomes \cup {"none", "linter_fail", "linter_pass"},
                            lint : {"none", "pass", "fail"}, ran : BOOLEAN]
    BY PipelineAssumption DEF FreshGraph, FreshHunter, Bands
  <2>2. Len(<<>>) <= Len(<<>>) /\ 0 \in 0 .. Len(<<>>)
    OBVIOUS
  <2>3. PipelineTypeOK
    <3>1. others \in [Siblings -> [step : {"none", "check", "execute", "mark", "rollback"},
                                 todo : Seq(Ops), done : SUBSET Ops]]
      BY EmptySeq DEF PipelineInit, NoRun
    <3>2. /\ node = "idle" /\ graph = FreshGraph /\ hunter = FreshHunter
          /\ plan = <<>> /\ results = <<>> /\ answer = "none" /\ undo = 0 /\ event = "processing"
          /\ dryRun \in BOOLEAN /\ ours \in BOOLEAN
      BY DEF PipelineInit
    <3>3. /\ marks \subseteq Ops /\ unmarked \subseteq Ops /\ stuck \subseteq Ops
          /\ crossed \subseteq Ops /\ theirs \subseteq Ops /\ inForce \subseteq Undoable
          /\ times \in [Ops -> Nat] /\ runs \in 0 .. MaxRuns
      BY PipelineAssumption DEF PipelineInit
    <3> QED BY <2>1, <2>2, <3>1, <3>2, <3>3 DEF PipelineTypeOK, Nodes, Statuses
  <2>4. Shape
    BY <2>3, EmptySeq DEF PipelineInit, Shape, NoRun
  <2>5. LoopInv
    BY PipelineAssumption DEF PipelineInit, LoopInv, Rounds, FreshHunter
  <2>6. DecisionInv /\ RollbackInv
    BY DEF PipelineInit, DecisionInv, RollbackInv, Early, Before, Looking, Hunting, Answering, Acting,
           StoredStatusTruthful, RolledBackOnRaise
  <2>7. MarkInv
    BY DEF PipelineInit, MarkInv, RepeatOnlyWithoutMark, Here, There, NoRun
  <2> QED BY <2>4, <2>5, <2>6, <2>7 DEF PipelineInd
<1>2. PipelineInd /\ [PipelineNext]_pipelineVars => PipelineInd'
  BY ShapeKept, LoopKept, DecisionKept, MarkKept, RollbackKept DEF PipelineInd
<1> QED BY <1>1, <1>2, PTL DEF PipelineSpec

-----------------------------------------------------------------------------
(* Theorems *)

\* Nothing is executed without a confirmed verdict, nor a serious playbook
\* without a person's approval.  (route_after_verdict, route_after_hitl)
THEOREM ConfirmedBeforeActingHolds == PipelineSpec => []ConfirmedBeforeActing
<1>1. PipelineInd => ConfirmedBeforeActing
  BY DEF PipelineInd, DecisionInv, Confirmed, Serious, Answering, ConfirmedBeforeActing
<1> QED BY <1>1, PipelineAlways, PTL

\* An operation takes effect twice only when its mark was lost, unread or has
\* expired, or two runs held it between check and mark, whatever number of runs
\* the event has, one after another or side by side.  (_is_done, _mark_done)
THEOREM RepeatOnlyWithoutMarkHolds == PipelineSpec => []RepeatOnlyWithoutMark
<1>1. PipelineInd => RepeatOnlyWithoutMark
  BY DEF PipelineInd, MarkInv
<1> QED BY <1>1, PipelineAlways, PTL

\* An operation that raises leaves nothing before it in force but what could
\* not be rolled back.  (execute_playbook, _rollback)
THEOREM RolledBackOnRaiseHolds == PipelineSpec => []RolledBackOnRaise
<1>1. PipelineInd => RolledBackOnRaise
  BY DEF PipelineInd, RollbackInv
<1> QED BY <1>1, PipelineAlways, PTL

\* The status stored for an event is true of the run that stored it last.
\* (_status_from_result)
THEOREM StoredStatusTruthfulHolds == PipelineSpec => []StoredStatusTruthful
<1>1. PipelineInd => StoredStatusTruthful
  BY DEF PipelineInd, DecisionInv
<1> QED BY <1>1, PipelineAlways, PTL

\* The PoC loop never runs into the recursion limit the main graph sets, when
\* that leaves three supersteps for every round and one to finish, as the code's
\* 10 rounds and limit of 35 do; and no PoC the linter passed goes unrun.
\* (generate_poc, linter_check_node, _vuln_config)
THEOREM PipelineInvHolds ==
  ASSUME 3 * MaxIterations + 1 <= RecursionLimit
  PROVE  PipelineSpec => []PipelineInv
<1>1. PipelineInd => PipelineInv
  <2> SUFFICES ASSUME PipelineInd PROVE PipelineInv
    OBVIOUS
  <2>1. hunter.steps \in Nat /\ MaxIterations \in Nat /\ RecursionLimit \in Nat
    BY PipelineAssumption DEF PipelineInd, Shape, PipelineTypeOK
  <2>2. hunter.steps <= 3 * MaxIterations + 1
    BY DEF PipelineInd, LoopInv, Rounds
  <2>3. LoopFitsLimit
    BY <2>1, <2>2 DEF LoopFitsLimit
  <2>4. LintedPocRuns
    BY DEF PipelineInd, LoopInv, Rounds, LintedPocRuns
  <2> QED BY <2>3, <2>4 DEF PipelineInd, Shape, PipelineInv
<1> QED BY <1>1, PipelineAlways, PTL

=============================================================================
