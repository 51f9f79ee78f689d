----------------------------- MODULE TaskQueue -----------------------------
(***************************************************************************)
(* The Redis Stream task queue of src/orchestration/task_queue and its     *)
(* worker fleet: XADD by the API, XREADGROUP / XAUTOCLAIM / XACK by the    *)
(* TaskWorkers, and the move to the dead-letter stream.  One step is one   *)
(* Redis command with the local code around it (asyncio switches tasks     *)
(* only at an await).  The same class serves the vulnscan queue and the    *)
(* asset-scan queue; the variable queue says which one a behaviour is of.  *)
(*                                                                         *)
(* Entries are numbered in XADD order.  Time is a tick; StaleIdle and      *)
(* MaxRun are STALE_CLAIM_MIN_IDLE_MS and the longest run, in ticks.  The  *)
(* code bounds the time of a run's subprocesses and LLM calls one by one   *)
(* and nothing bounds their sum: a run may outlast StaleIdle, and its      *)
(* entry is then handed out again while it is at work.                     *)
(***************************************************************************)
EXTENDS Integers, FiniteSets

CONSTANTS
  Workers,        \* TaskWorker processes
  MaxTasks,       \* bound: entries ever added
  MaxDelivery,    \* MAX_DELIVERY
  MaxConcurrent,  \* max_concurrent of a worker
  StaleIdle,      \* XAUTOCLAIM's min_idle_time, in ticks
  MaxRun,         \* longest time _process spends on an entry, in ticks
  StreamMax,      \* MAXLEN of the stream
  Payloads,       \* what producers may put in an entry
  MaxHandouts,    \* bound: deliveries of one entry
  MaxFaults       \* bound: crashes, stops, cancelled runs, failed commands

ASSUME QueueAssumption ==
  /\ Workers # {}
  /\ MaxTasks \in Nat
  /\ MaxDelivery \in Nat \ {0}
  /\ MaxConcurrent \in Nat \ {0}
  /\ StaleIdle \in Nat \ {0}
  /\ MaxRun \in Nat
  /\ StreamMax \in Nat \ {0}
  /\ Payloads \subseteq {"ok", "unparsable", "bare"}   \* bare: no "envelope" field
  /\ "ok" \in Payloads
  /\ MaxHandouts \in Nat
  /\ MaxFaults \in Nat

VARIABLES
  queue,      \* the queue this is: "vulnscan" (the default one) or "asset"
  added,      \* entries XADDed so far: the stream is 1..added
  payload,    \* what each entry carries
  trimmed,    \* entries 1..trimmed fell to MAXLEN
  cursor,     \* the group's last-delivered-id
  pel,        \* pending entries list of the group
  deliveries, \* times_delivered of a pending entry
  idle,       \* ticks since the last delivery, up to StaleIdle
  overran,    \* history: times an entry was handed out while a job had it
  settled,    \* how an entry left the PEL: by its run, by the DLQ, or not yet
  jobs,       \* _process calls in progress
  process,    \* state of each worker process; wedged: alive, its loop dead
  dlq,        \* copies of each entry in the queue's own DLQ
  foreignDlq, \* copies of each entry in the DLQ of the vulnscan queue
  returned,   \* history: entries whose runner returned
  faults      \* history: disruptions so far

stream == <<queue, added, payload, trimmed>>
group  == <<cursor, pel, deliveries, idle, overran, settled>>
graves == <<dlq, foreignDlq>>
vars   == <<stream, group, jobs, process, graves, returned, faults>>

Entry    == 1 .. MaxTasks
Lanes    == {"spawned", "inline"}          \* create_task, or inside _claim_loop
Steps    == {"run", "ack", "count", "bury", "buryack"}
Job      == [worker : Workers, entry : Entry, lane : Lanes, pc : Steps, age : 0 .. MaxRun]

TypeOK ==
  /\ queue \in {"vulnscan", "asset"}
  /\ added \in 0 .. MaxTasks
  /\ payload \in [Entry -> Payloads]
  /\ trimmed \in 0 .. MaxTasks
  /\ cursor \in 0 .. MaxTasks
  /\ pel \subseteq Entry
  /\ deliveries \in [Entry -> Nat]
  /\ idle \in [Entry -> 0 .. StaleIdle]
  /\ overran \in [Entry -> Nat]
  /\ settled \in [Entry -> {"no", "run", "dlq"}]
  /\ jobs \subseteq Job
  /\ process \in [Workers -> {"up", "wedged", "draining", "down"}]
  /\ dlq \in [Entry -> Nat]
  /\ foreignDlq \in [Entry -> Nat]
  /\ returned \subseteq Entry
  /\ faults \in 0 .. MaxFaults

Init ==
  /\ queue \in {"vulnscan", "asset"}
  /\ added = 0
  /\ payload = [e \in Entry |-> "ok"]
  /\ trimmed = 0
  /\ cursor = 0
  /\ pel = {}
  /\ deliveries = [e \in Entry |-> 0]
  /\ idle = [e \in Entry |-> 0]
  /\ overran = [e \in Entry |-> 0]
  /\ settled = [e \in Entry |-> "no"]
  /\ jobs = {}
  /\ process = [w \in Workers |-> "up"]
  /\ dlq = [e \in Entry |-> 0]
  /\ foreignDlq = [e \in Entry |-> 0]
  /\ returned = {}
  /\ faults = 0

----------------------------------------------------------------------------
(* Helpers *)

Smaller(m, n) == IF m < n THEN m ELSE n
Larger(m, n)  == IF m < n THEN n ELSE m

\* A disruption uses up one unit of the fault budget.
Disruption == faults < MaxFaults /\ faults' = faults + 1

InlineOf(w)  == {j \in jobs : j.worker = w /\ j.lane = "inline"}
SpawnedOf(w) == {j \in jobs : j.worker = w /\ j.lane = "spawned"}

\* The consume loop of w is at its top: not awaiting a claimed entry.
LoopFree(w) == process[w] = "up" /\ InlineOf(w) = {}

\* Where _process starts, and the job that a delivery creates.
FirstStep(e) == IF payload[e] = "ok" THEN "run" ELSE "bury"
NewJob(w, e, lane) ==
  [worker |-> w, entry |-> e, lane |-> lane, pc |-> FirstStep(e), age |-> 0]

\* Job j goes on to step s, or is over.
Continue(j, s) == jobs' = (jobs \ {j}) \cup {[j EXCEPT !.pc = s]}
Finish(j)      == jobs' = jobs \ {j}

\* The PEL effect of handing e to a consumer, whoever is still at work on it.
Delivered(e) ==
  /\ pel' = pel \cup {e}
  /\ deliveries' = [deliveries EXCEPT ![e] = @ + 1]
  /\ idle' = [idle EXCEPT ![e] = 0]
  /\ overran' = IF \E j \in jobs : j.entry = e THEN [overran EXCEPT ![e] = @ + 1]
                ELSE overran
  /\ UNCHANGED settled

\* XACK of e: no effect unless e is pending.
Xack(e, how) ==
  /\ pel' = pel \ {e}
  /\ settled' = IF e \in pel THEN [settled EXCEPT ![e] = how] ELSE settled
  /\ UNCHANGED <<cursor, deliveries, idle, overran>>

----------------------------------------------------------------------------
(* The producer *)

\* XADD with an approximate MAXLEN: Redis drops whole blocks of old entries,
\* so any part of the excess may go, acknowledged or not.
Enqueue(p) ==
  /\ added < MaxTasks
  /\ added' = added + 1
  /\ payload' = [payload EXCEPT ![added + 1] = p]
  /\ trimmed' \in trimmed .. Larger(trimmed, added + 1 - StreamMax)
  /\ UNCHANGED <<queue, group, jobs, process, graves, returned, faults>>

----------------------------------------------------------------------------
(* The consume loop *)

\* The next entry XREADGROUP ">" would hand out, if the stream holds one.
NextNew == Larger(cursor, trimmed) + 1

\* _drain_once: read one new entry and spawn its _process.
ReadNew(w) ==
  /\ LoopFree(w)
  /\ Cardinality(SpawnedOf(w)) < MaxConcurrent
  /\ NextNew <= added
  /\ cursor' = NextNew
  /\ Delivered(NextNew)
  /\ jobs' = jobs \cup {NewJob(w, NextNew, "spawned")}
  /\ UNCHANGED <<stream, process, graves, returned, faults>>

\* Redis delivered the entry and the reply never reached the worker: _run
\* catches the connection error and enters the loop again.
ReadReplyLost(w) ==
  /\ LoopFree(w)
  /\ Cardinality(SpawnedOf(w)) < MaxConcurrent
  /\ NextNew <= added
  /\ cursor' = NextNew
  /\ Delivered(NextNew)
  /\ Disruption
  /\ UNCHANGED <<stream, jobs, process, graves, returned>>

\* Defect: the idle threshold no longer exceeds the longest run.
StaleTooSoon == {e \in pel : idle[e] >= StaleIdle - 1 /\ deliveries[e] < MaxHandouts}

\* Pending entries XAUTOCLAIM may take: it looks at the idle time, not at the
\* owner.  (MaxHandouts: the bound.)
Stale == {e \in pel : idle[e] = StaleIdle /\ deliveries[e] < MaxHandouts}

\* With COUNT 1 from 0-0 it stops at the first stale entry, or at the first
\* pending one whose data is gone from the stream, however short its idle time.
Oldest(S, e) == e \in S /\ \A f \in S : e <= f
Gone == {e \in pel : e <= trimmed}

\* Defect: exhausted entries are left for the DLQ, which only a run fills.
ClaimUnlessExhausted(w) ==
  /\ LoopFree(w)
  /\ \E e \in Entry :
       /\ Oldest(Stale, e)
       /\ Gone = {}
       /\ deliveries[e] < MaxDelivery
       /\ Delivered(e)
       /\ jobs' = jobs \cup {NewJob(w, e, "inline")}
  /\ UNCHANGED <<stream, cursor, process, graves, returned, faults>>

\* _claim_loop: take one stale entry over and process it inside the loop.
ClaimStale(w) ==
  /\ LoopFree(w)
  /\ \E e \in Entry :
       /\ Oldest(Stale, e)
       /\ Gone = {}
       /\ Delivered(e)
       /\ jobs' = jobs \cup {NewJob(w, e, "inline")}
  /\ UNCHANGED <<stream, cursor, process, graves, returned, faults>>

ClaimReplyLost(w) ==
  /\ LoopFree(w)
  /\ Gone = {} /\ \E e \in Entry : Oldest(Stale, e) /\ Delivered(e)
  /\ Disruption
  /\ UNCHANGED <<stream, cursor, jobs, process, graves, returned>>

\* XAUTOCLAIM drops such an entry from the PEL, a running one too, and returns
\* no message, which claim_stale reports as "nothing stale".
ClaimFindsTrimmed(w) ==
  /\ LoopFree(w)
  /\ \E e \in Entry : Oldest(Gone, e) /\ pel' = pel \ {e}
  /\ UNCHANGED <<stream, cursor, deliveries, idle, overran, settled, jobs, process, graves,
                 returned, faults>>

----------------------------------------------------------------------------
(* _process *)

\* The runner returned a result, completed or cancelled.
RunReturns(j) ==
  /\ j.pc = "run"
  /\ returned' = returned \cup {j.entry}
  /\ Continue(j, "ack")
  /\ UNCHANGED <<stream, group, process, graves, faults>>

\* Defect: ACK in a finally block, whether the run returned or raised.
AckAfterRaise(j) ==
  /\ j.pc = "run"
  /\ Continue(j, "ack")
  /\ UNCHANGED <<stream, group, process, graves, returned, faults>>

RunRaises(j) ==
  /\ j.pc = "run"
  /\ Continue(j, "count")
  /\ UNCHANGED <<stream, group, process, graves, returned, faults>>

\* The asset runner raises CancelledError when it finds the cancel tombstone;
\* no "except Exception" on the way stops it.  A spawned job just ends; an
\* inline one takes the worker's loop with it.
RunCancelled(j) ==
  /\ queue = "asset"
  /\ j.pc = "run"
  /\ Finish(j)
  /\ process' = IF j.lane = "inline" THEN [process EXCEPT ![j.worker] = "wedged"]
                ELSE process
  /\ Disruption
  /\ UNCHANGED <<stream, group, graves, returned>>

\* Defect: the acknowledgement is forgotten.
NoAck(j) ==
  /\ j.pc = "ack"
  /\ Finish(j)
  /\ UNCHANGED <<stream, group, process, graves, returned, faults>>

Ack(j) ==
  /\ j.pc = "ack"
  /\ Xack(j.entry, "run")
  /\ Finish(j)
  /\ UNCHANGED <<stream, process, graves, returned, faults>>

\* ack_message logs the error and returns as if it had succeeded.
AckFails(j) ==
  /\ j.pc = "ack"
  /\ Finish(j)
  /\ Disruption
  /\ UNCHANGED <<stream, group, process, graves, returned>>

\* delivery_count of an entry: 0 once it has left the PEL.
Attempts(e) == IF e \in pel THEN deliveries[e] ELSE 0

\* Defects: the attempts test is off by one, either way.
BuryOneEarly(j) ==
  /\ j.pc = "count"
  /\ IF Attempts(j.entry) >= MaxDelivery - 1 THEN Continue(j, "bury") ELSE Finish(j)
  /\ UNCHANGED <<stream, group, process, graves, returned, faults>>

BuryOneLate(j) ==
  /\ j.pc = "count"
  /\ IF Attempts(j.entry) > MaxDelivery THEN Continue(j, "bury") ELSE Finish(j)
  /\ UNCHANGED <<stream, group, process, graves, returned, faults>>

CountAttempts(j) ==
  /\ j.pc = "count"
  /\ IF Attempts(j.entry) >= MaxDelivery THEN Continue(j, "bury") ELSE Finish(j)
  /\ UNCHANGED <<stream, group, process, graves, returned, faults>>

\* XPENDING failed: the exception ends _process with the entry pending.
CountFails(j) ==
  /\ j.pc = "count"
  /\ Finish(j)
  /\ Disruption
  /\ UNCHANGED <<stream, group, process, graves, returned>>

\* move_to_dlq for a payload without an envelope is called with the default
\* stream, group and DLQ, whichever queue the worker serves.
Misrouted(e) == payload[e] = "bare" /\ queue = "asset"

WriteDlq(e) ==
  IF Misrouted(e)
  THEN foreignDlq' = [foreignDlq EXCEPT ![e] = @ + 1] /\ UNCHANGED dlq
  ELSE dlq' = [dlq EXCEPT ![e] = @ + 1] /\ UNCHANGED foreignDlq

\* move_to_dlq, first command: XADD to the DLQ.
DlqAdd(j) ==
  /\ j.pc = "bury"
  /\ WriteDlq(j.entry)
  /\ Continue(j, "buryack")
  /\ UNCHANGED <<stream, group, process, returned, faults>>

\* Defect: a failed XADD does not keep move_to_dlq from the XACK.
DlqAckRegardless(j) ==
  /\ j.pc = "bury"
  /\ UNCHANGED graves
  /\ Continue(j, "buryack")
  /\ Disruption
  /\ UNCHANGED <<stream, group, process, returned>>

\* XADD failed, or took effect and its reply was lost; both end move_to_dlq.
DlqAddFails(j) ==
  /\ j.pc = "bury"
  /\ WriteDlq(j.entry) \/ UNCHANGED graves
  /\ Finish(j)
  /\ Disruption
  /\ UNCHANGED <<stream, group, process, returned>>

\* move_to_dlq, second command: XACK the original, on the stream it was told.
DlqAck(j) ==
  /\ j.pc = "buryack"
  /\ IF Misrouted(j.entry) THEN UNCHANGED group ELSE Xack(j.entry, "dlq")
  /\ Finish(j)
  /\ UNCHANGED <<stream, process, graves, returned, faults>>

DlqAckFails(j) ==
  /\ j.pc = "buryack"
  /\ Finish(j)
  /\ Disruption
  /\ UNCHANGED <<stream, group, process, graves, returned>>

----------------------------------------------------------------------------
(* Worker processes and time *)

\* The process dies (kill, OOM, host loss) with everything in its memory.
Crash(w) ==
  /\ process[w] # "down"
  /\ process' = [process EXCEPT ![w] = "down"]
  /\ jobs' = {j \in jobs : j.worker # w}
  /\ Disruption
  /\ UNCHANGED <<stream, group, graves, returned>>

\* stop(): cancelling the loop abandons the entry it processes inline; spawned
\* jobs keep running until the process exits.
Stop(w) ==
  /\ process[w] \in {"up", "wedged"}
  /\ process' = [process EXCEPT ![w] = "draining"]
  /\ jobs' = jobs \ InlineOf(w)
  /\ Disruption
  /\ UNCHANGED <<stream, group, graves, returned>>

\* The drain is over, all done or timed out, and the process exits.
Exit(w) ==
  /\ process[w] = "draining"
  /\ process' = [process EXCEPT ![w] = "down"]
  /\ jobs' = {j \in jobs : j.worker # w}
  /\ UNCHANGED <<stream, group, graves, returned, faults>>

\* The container restarts the process; ensure_group finds the group there.
Restart(w) ==
  /\ process[w] = "down"
  /\ process' = [process EXCEPT ![w] = "up"]
  /\ UNCHANGED <<stream, group, jobs, graves, returned, faults>>

\* One tick passes; no _process call outlives MaxRun, which may exceed StaleIdle.
Tick ==
  /\ pel # {}
  /\ \A j \in jobs : j.age < MaxRun
  /\ idle' = [e \in Entry |-> IF e \in pel THEN Smaller(idle[e] + 1, StaleIdle) ELSE idle[e]]
  /\ jobs' = {[j EXCEPT !.age = @ + 1] : j \in jobs}
  /\ UNCHANGED <<stream, cursor, pel, deliveries, overran, settled, process, graves,
                 returned, faults>>

----------------------------------------------------------------------------
LoopStep(w) ==
  \/ ReadNew(w) \/ ReadReplyLost(w)
  \/ ClaimStale(w) \/ ClaimReplyLost(w) \/ ClaimFindsTrimmed(w)

JobStep(j) ==
  \/ RunReturns(j) \/ RunRaises(j) \/ RunCancelled(j)
  \/ Ack(j) \/ AckFails(j)
  \/ CountAttempts(j) \/ CountFails(j)
  \/ DlqAdd(j) \/ DlqAddFails(j) \/ DlqAck(j) \/ DlqAckFails(j)

ProcessStep(w) == Crash(w) \/ Stop(w) \/ Exit(w) \/ Restart(w)

Next ==
  \/ \E p \in Payloads : Enqueue(p)
  \/ \E w \in Workers : LoopStep(w) \/ ProcessStep(w)
  \/ \E j \in jobs : JobStep(j)
  \/ Tick

\* A live worker keeps serving its loop and its jobs, a dead one is restarted,
\* and time passes.  Nothing is assumed about new tasks or about faults.
Fairness ==
  /\ \A w \in Workers :
       WF_vars(ReadNew(w)) /\ WF_vars(ClaimStale(w) \/ ClaimFindsTrimmed(w))
       /\ WF_vars(Exit(w)) /\ WF_vars(Restart(w))
  /\ WF_vars(\E j \in jobs : JobStep(j))
  /\ WF_vars(Tick)

Spec     == Init /\ [][Next]_vars
FairSpec == Spec /\ Fairness

----------------------------------------------------------------------------
(* Properties *)

\* NoTaskLost: an added entry is still to be delivered, pending, done by a run
\* that returned, or in a DLQ; else StreamMax newer entries pushed it out.
\* (enqueue_task, _process and move_to_dlq: ACK only after one of the two.)
NoTaskLost ==
  \A e \in 1 .. added :
    \/ e > cursor
    \/ e \in pel
    \/ settled[e] = "run" /\ e \in returned
    \/ settled[e] = "dlq" /\ dlq[e] > 0
    \/ e + StreamMax <= added

\* OverlapsOnlyOverrun: two runs of an entry are at work together only if one
\* of them has outlasted STALE_CLAIM_MIN_IDLE_MS (XAUTOCLAIM looks at the idle
\* time alone, not at the worker that has the entry).
OverlapsOnlyOverrun ==
  \A j, k \in jobs : j.entry = k.entry /\ j # k => Larger(j.age, k.age) >= StaleIdle

\* BuriedWhenExhausted: a parsable task reaches the DLQ only after MAX_DELIVERY
\* deliveries (the attempts test of _process).
BuriedWhenExhausted ==
  \A e \in Entry : dlq[e] > 0 /\ payload[e] = "ok" => deliveries[e] >= MaxDelivery

\* RedeliveryBudget: past MAX_DELIVERY every further delivery of an entry is
\* paid for by a disruption or by a run that outlasted the claim threshold, so
\* a task that merely fails cannot circulate (all but the envelope-less entry
\* of the asset queue, which is misrouted).
RedeliveryBudget ==
  \A e \in Entry : ~Misrouted(e) => deliveries[e] <= MaxDelivery + faults + overran[e]

\* RepeatOnlyAfterFault: without a disruption a task no run of which was
\* overtaken by a claim is not run again once its run returned, is in the DLQ
\* once at most, and is not run after that.
RepeatOnlyAfterFault ==
  faults = 0 =>
    \A e \in Entry : overran[e] = 0 =>
      /\ \A j \in jobs : j.entry = e /\ j.pc = "run" => e \notin returned /\ dlq[e] = 0
      /\ dlq[e] <= 1

\* LoopSurvives: the loop of a worker ends only when the worker is stopped or
\* dies: the outer restart loop of _run is there so that nothing a task does
\* "permanently kill[s] the worker".
LoopSurvives == \A w \in Workers : process[w] # "wedged"

\* EverySettles: once added, a task leaves the vulnscan queue (run, DLQ or
\* overflow) however its runs end, if disruptions stop.
Waiting(e) == e <= added /\ (e \in pel \/ (e > cursor /\ e > trimmed))
EverySettles ==
  \A e \in Entry : queue = "vulnscan" /\ Waiting(e) ~> ~Waiting(e)

----------------------------------------------------------------------------
(* What the queue promises, and the fate of an entry under it *)

FateOf(e) ==
  CASE e > added              -> "absent"
    [] settled[e] = "run"     -> "finished"
    [] settled[e] = "dlq"     -> "dead"
    [] settled[e] = "no" /\ e <= added /\ Waiting(e)  -> "waiting"
    [] settled[e] = "no" /\ e <= added /\ ~Waiting(e) -> "lost"

Promise == INSTANCE AtLeastOnceQueue WITH
  Entry    <- Entry,
  fate     <- [e \in Entry |-> FateOf(e)],
  returned <- returned,
  buried   <- {e \in Entry : dlq[e] > 0 \/ foreignDlq[e] > 0}

\* KeepsPromise: the fleet implements the at-least-once queue.
KeepsPromise == Promise!ASpec
=============================================================================
