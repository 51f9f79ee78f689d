----------------------------- MODULE AlertIngest -----------------------------
(***************************************************************************)
(* How an alert gets from the Kafka topic to the pipeline: the             *)
(* preprocessing consumer sanitizes it and adds it to the events stream in *)
(* Redis, or buries it in the dead-letter topic, and commits its offset;   *)
(* the event loops of the scan-engine processes read the stream as one     *)
(* consumer group and run the pipeline on each entry.  Both sides crash    *)
(* and restart; operators delete the stream.                               *)
(*                                                                         *)
(* The topic and the stream are logs with positions.  A commit is of       *)
(* everything the iterator has returned, not of one message.               *)
(***************************************************************************)
EXTENDS Integers, FiniteSets, Sequences, Functions

CONSTANTS
  Engines,    \* scan-engine processes
  MaxAlerts,  \* bound: alerts in the topic, all there from the start
  Garbled,    \* those that cannot be parsed
  MaxEntries, \* bound: entries ever added to the stream
  StreamMax,  \* MAXLEN of the stream
  MaxBatch,   \* COUNT of one XREADGROUP
  MaxFaults   \* bound: crashes, failed calls, deletions of the stream

ASSUME IngestAssumption ==
  /\ IsFiniteSet(Engines)
  /\ MaxAlerts \in Nat /\ MaxEntries \in Nat /\ MaxFaults \in Nat
  /\ Garbled \subseteq 1 .. MaxAlerts
  /\ StreamMax \in Nat \ {0} /\ MaxBatch \in Nat \ {0}

VARIABLES
  position,   \* offset the Kafka iterator has returned
  committed,  \* committed offset
  step,       \* what the consumer does with the alert at position
  dlq,        \* alerts in the dead-letter topic
  log,        \* alert of every entry added to the stream
  gone,       \* entries up to here are trimmed or deleted
  group,      \* position of the consumer group, or -1 when there is none
  pel,        \* entries delivered and not acknowledged
  aged,       \* those idle for a minute or more
  mode,       \* where each engine's event loop is; deaf: over, in a live process
  batch,      \* entries it holds, in order; it works on the first
  ended,      \* its pipeline run for the first entry is over
  handled,    \* history: entries whose run ended
  delivered,  \* history: entries handed to some engine
  everAged,   \* history: entries that were idle for a minute
  skipped,    \* history: a start-up claim failed
  faults      \* history: disruptions so far

kafka  == <<position, committed, step, dlq>>
stream == <<log, gone, group, pel, aged>>
loop   == <<mode, batch, ended>>
past   == <<handled, delivered, everAged, skipped>>
vars   == <<kafka, stream, loop, past, faults>>

Entries == 1 .. Len(log)

TypeOK ==
  /\ position \in 0 .. MaxAlerts /\ committed \in 0 .. position
  /\ step \in {"poll", "parse", "bury", "emit", "commit", "commitBuried"}
  /\ dlq \subseteq Garbled
  /\ log \in Seq((1 .. MaxAlerts) \ Garbled)
  /\ gone \in 0 .. Len(log) /\ group \in -1 .. Len(log)
  /\ pel \subseteq delivered /\ aged \subseteq pel
  /\ mode \in [Engines -> {"down", "claim", "loop", "deaf"}]
  /\ batch \in [Engines -> Seq(Entries)]
  /\ ended \in [Engines -> BOOLEAN]
  /\ handled \subseteq delivered /\ delivered \subseteq Entries /\ everAged \subseteq Entries
  /\ skipped \in BOOLEAN
  /\ faults \in 0 .. MaxFaults

Init ==
  /\ position = 0 /\ committed = 0 /\ step = "poll" /\ dlq = {}
  /\ log = <<>> /\ gone = 0 /\ group = -1 /\ pel = {} /\ aged = {}
  /\ mode = [e \in Engines |-> "down"]
  /\ batch = [e \in Engines |-> <<>>]
  /\ ended = [e \in Engines |-> FALSE]
  /\ handled = {} /\ delivered = {} /\ everAged = {} /\ skipped = FALSE
  /\ faults = 0

Disruption == faults < MaxFaults /\ faults' = faults + 1

----------------------------------------------------------------------------
(* The preprocessing consumer *)

Poll ==
  /\ step = "poll" /\ position < MaxAlerts
  /\ position' = position + 1 /\ step' = "parse"
  /\ UNCHANGED <<committed, dlq, stream, loop, past, faults>>

\* sanitize and extract IOCs, or raise.
Process ==
  /\ step = "parse"
  /\ step' = IF position \in Garbled THEN "bury" ELSE "emit"
  /\ UNCHANGED <<position, committed, dlq, stream, loop, past, faults>>

SendDlq ==
  /\ step = "bury"
  /\ dlq' = dlq \cup {position} /\ step' = "commitBuried"
  /\ UNCHANGED <<position, committed, stream, loop, past, faults>>

\* Defect: the offset is committed whether or not the DLQ took the alert.
SendDlqFailsCommits ==
  /\ step = "bury"
  /\ step' = "commitBuried" /\ Disruption
  /\ UNCHANGED <<position, committed, dlq, stream, loop, past>>

SendDlqFails ==
  /\ step = "bury"
  /\ step' = "poll" /\ Disruption
  /\ UNCHANGED <<position, committed, dlq, stream, loop, past>>

\* XADD with an approximate MAXLEN: the head may be trimmed, read or not.
Emit ==
  /\ step = "emit" /\ Len(log) < MaxEntries
  /\ log' = Append(log, position)
  /\ \E g \in {gone, Len(log') - StreamMax} : g >= gone /\ gone' = g
  /\ step' = "commit"
  /\ UNCHANGED <<position, committed, dlq, group, pel, aged, loop, past, faults>>

EmitFails ==
  /\ step = "emit"
  /\ step' = "poll" /\ Disruption
  /\ UNCHANGED <<position, committed, dlq, stream, loop, past>>

Commit ==
  /\ step \in {"commit", "commitBuried"}
  /\ committed' = position /\ step' = "poll"
  /\ UNCHANGED <<position, dlq, stream, loop, past, faults>>

\* Caught after an emit; after a burial it ends the process.
CommitFails ==
  /\ step \in {"commit", "commitBuried"}
  /\ position' = IF step = "commit" THEN position ELSE committed
  /\ step' = "poll" /\ Disruption
  /\ UNCHANGED <<committed, dlq, stream, loop, past>>

\* A crash or a rebalance: the iterator starts again from the committed offset.
RestartConsumer ==
  /\ position > committed
  /\ position' = committed /\ step' = "poll" /\ Disruption
  /\ UNCHANGED <<committed, dlq, stream, loop, past>>

----------------------------------------------------------------------------
(* The event loop of a scan-engine *)

\* The group starts behind what is in the stream when it is created ("$").
EnsureGroup == group' = IF group = -1 THEN Len(log) ELSE group

Start(e) ==
  /\ mode[e] = "down"
  /\ EnsureGroup
  /\ mode' = [mode EXCEPT ![e] = "claim"]
  /\ UNCHANGED <<kafka, log, gone, pel, aged, batch, ended, past, faults>>

\* xgroup_create raised something other than BUSYGROUP, with or without effect:
\* the consumer task is over, while its process lives and nothing starts it anew.
StartFails(e) ==
  /\ mode[e] = "down"
  /\ EnsureGroup \/ UNCHANGED group
  /\ mode' = [mode EXCEPT ![e] = "deaf"]
  /\ Disruption
  /\ UNCHANGED <<kafka, log, gone, pel, aged, batch, ended, past>>

Claimable == {n \in aged : n > gone}

\* One XAUTOCLAIM of claim_stale_batch.  Entries no longer in the stream leave
\* the pending list; one this engine already claimed ends the batch.
ClaimOne(e) ==
  /\ mode[e] = "claim" /\ group # -1
  /\ LET free == Claimable \ Range(batch[e])
     IN /\ free # {}
        /\ LET n == CHOOSE m \in free : \A k \in free : m <= k
           IN /\ batch' = [batch EXCEPT ![e] = Append(@, n)]
              /\ pel' = {m \in pel : m > gone \/ m > n}
              /\ aged' = {m \in aged \ {n} : m > gone \/ m > n}
  /\ UNCHANGED <<kafka, log, gone, group, mode, ended, past, faults>>

\* Defect: one entry is claimed and the rest is left for the next start.
ClaimedOne(e) ==
  /\ mode[e] = "claim"
  /\ Claimable \subseteq Range(batch[e]) \/ batch[e] # <<>>
  /\ mode' = [mode EXCEPT ![e] = "loop"]
  /\ UNCHANGED <<kafka, stream, batch, ended, past, faults>>

ClaimedAll(e) ==
  /\ mode[e] = "claim"
  /\ Claimable \subseteq Range(batch[e])
  /\ mode' = [mode EXCEPT ![e] = "loop"]
  /\ UNCHANGED <<kafka, stream, batch, ended, past, faults>>

\* Logged; the loop starts without, and drops what it had claimed.
ClaimFails(e) ==
  /\ mode[e] = "claim"
  /\ mode' = [mode EXCEPT ![e] = "loop"]
  /\ batch' = [batch EXCEPT ![e] = <<>>]
  /\ skipped' = TRUE /\ Disruption
  /\ UNCHANGED <<kafka, stream, ended, handled, delivered, everAged>>

Unread == {n \in Entries : n > group /\ n > gone}

Read(e) ==
  /\ mode[e] = "loop" /\ batch[e] = <<>> /\ group # -1 /\ Unread # {}
  /\ LET first == CHOOSE n \in Unread : \A m \in Unread : n <= m
         last  == IF first + MaxBatch - 1 < Len(log) THEN first + MaxBatch - 1 ELSE Len(log)
         new   == [i \in 1 .. last - first + 1 |-> first + i - 1]
     IN /\ batch' = [batch EXCEPT ![e] = new]
        /\ pel' = pel \cup Range(new)
        /\ delivered' = delivered \cup Range(new)
        /\ group' = last
  /\ UNCHANGED <<kafka, log, gone, aged, mode, ended, handled, everAged, skipped, faults>>

\* NOGROUP after the stream was deleted: the group is made again, at its end.
RecreateGroup(e) ==
  /\ mode[e] = "loop" /\ batch[e] = <<>> /\ group = -1
  /\ group' = Len(log)
  /\ UNCHANGED <<kafka, log, gone, pel, aged, loop, past, faults>>

\* Defect: the entry is acknowledged before the pipeline ran.
RunAcknowledged(e) ==
  /\ mode[e] = "loop" /\ batch[e] # <<>> /\ ~ended[e]
  /\ ended' = [ended EXCEPT ![e] = TRUE]
  /\ pel' = pel \ {Head(batch[e])} /\ aged' = aged \ {Head(batch[e])}
  /\ UNCHANGED <<kafka, log, gone, group, mode, batch, past, faults>>

\* run_pipeline returns or raises; the entry is acknowledged either way.
RunEnds(e) ==
  /\ mode[e] = "loop" /\ batch[e] # <<>> /\ ~ended[e]
  /\ ended' = [ended EXCEPT ![e] = TRUE]
  /\ handled' = handled \cup {Head(batch[e])}
  /\ UNCHANGED <<kafka, stream, mode, batch, delivered, everAged, skipped, faults>>

NextOfBatch(e) ==
  /\ batch' = [batch EXCEPT ![e] = Tail(@)]
  /\ ended' = [ended EXCEPT ![e] = FALSE]

Ack(e) ==
  /\ ended[e]
  /\ pel' = pel \ {Head(batch[e])} /\ aged' = aged \ {Head(batch[e])}
  /\ NextOfBatch(e)
  /\ UNCHANGED <<kafka, log, gone, group, mode, past, faults>>

AckFails(e) ==
  /\ ended[e]
  /\ NextOfBatch(e)
  /\ Disruption
  /\ UNCHANGED <<kafka, stream, mode, past>>

----------------------------------------------------------------------------
(* Time and disruptions *)

\* A minute goes by without a word on an entry, whether its owner is dead or
\* has it in its batch behind a long pipeline run.
Age(n) ==
  /\ n \in pel \ aged
  /\ aged' = aged \cup {n} /\ everAged' = everAged \cup {n}
  /\ UNCHANGED <<kafka, log, gone, group, pel, loop, handled, delivered, skipped, faults>>

\* A crash, or a shutdown that cancels the loop after five seconds.
Die(e) ==
  /\ mode[e] # "down"
  /\ mode' = [mode EXCEPT ![e] = "down"]
  /\ batch' = [batch EXCEPT ![e] = <<>>]
  /\ ended' = [ended EXCEPT ![e] = FALSE]
  /\ Disruption
  /\ UNCHANGED <<kafka, stream, past>>

DeleteStream ==
  /\ group # -1
  /\ group' = -1 /\ gone' = Len(log) /\ pel' = {} /\ aged' = {}
  /\ Disruption
  /\ UNCHANGED <<kafka, log, loop, past>>

Serve(e) == \/ Start(e) \/ ClaimOne(e) \/ ClaimedAll(e) \/ Read(e) \/ RecreateGroup(e)
            \/ RunEnds(e) \/ Ack(e)

Next ==
  \/ Poll \/ Process \/ SendDlq \/ SendDlqFails \/ Emit \/ EmitFails
  \/ Commit \/ CommitFails \/ RestartConsumer
  \/ \E e \in Engines : Serve(e) \/ StartFails(e) \/ ClaimFails(e) \/ AckFails(e) \/ Die(e)
  \/ \E n \in 1 .. MaxEntries : Age(n)
  \/ DeleteStream

Spec == Init /\ [][Next]_vars

\* A scan-engine whose loop is up works, and one that is down is restarted by
\* its container.  Nothing is assumed of one that is deaf: Serve is disabled.
FairSpec == Spec /\ \A e \in Engines : WF_vars(Serve(e))

----------------------------------------------------------------------------
(* Properties *)

Safe(a) == a \in dlq \cup Range(log)

\* An offset is committed without its alert being in the stream or the DLQ only
\* when the alert failed and a later one went through, whose commit covers it.
\* (AlertConsumer.run)
LostOnlyUnderLaterCommit ==
  \A a \in 1 .. committed : ~Safe(a) => \E b \in a + 1 .. committed : Safe(b)

\* An entry handed to an engine is never forgotten in a crash: it stays pending
\* until a run of it ended, or it left the stream.  (_events_consumer_loop)
DeliveredIsKept ==
  \A n \in delivered : n \in pel \/ n \in handled \/ n <= gone

\* Two engines hold the same entry only if it was left idle for a minute.
\* (claim_stale_batch, min_idle_ms)
SharedOnlyWhenIdle ==
  \A d, e \in Engines : d # e => Range(batch[d]) \cap Range(batch[e]) \subseteq everAged

\* The types, the fate of what an engine was handed, and who holds it
\* (_events_consumer_loop).
IngestInv == TypeOK /\ DeliveredIsKept /\ SharedOnlyWhenIdle

\* An entry already idle when the engines start does not stay pending for good:
\* a start takes it over, unless each of them failed to begin its loop, or one
\* lost its claim.  (start-up claim of _events_consumer_loop)
IdleIsTakenOver ==
  \A n \in 1 .. MaxEntries :
    n \in aged /\ n > gone /\ (\A e \in Engines : mode[e] = "down")
      ~> (n \notin aged \/ n <= gone \/ skipped \/ \A e \in Engines : mode[e] = "deaf")
=============================================================================
