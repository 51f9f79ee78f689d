------------------------------- MODULE LlmRescan -------------------------------
(***************************************************************************)
(* The calls a scan makes to the language model, batch by batch and then   *)
(* for its report, each repeated at once a few times; the queue in Redis   *)
(* of the batches that failed for good; the count of calls in progress;    *)
(* and the loop of every engine that, when no call is in progress, looks   *)
(* at the queue, gives up on tasks whose batches have failed too often,    *)
(* and drops the entries of findings that are no longer there.  It rates   *)
(* nothing: loading the findings of a task that has any raises.            *)
(***************************************************************************)
EXTENDS Integers, FiniteSetsExt

CONSTANTS
  ScanEngines,   \* processes that run scans and the rescan loop
  Scans,         \* scan tasks, numbered in the order of their keys
  Batches,       \* batches of a task's findings
  Attempts,      \* calls made of a batch before it counts as failed
  MaxAttempts,   \* failures of a batch after which the loop gives it up
  BusyThreshold, \* calls in progress that still count as idle
  Listed,        \* tasks the loop looks at in one round
  MaxRounds,     \* bound: how often the queue hands a task out
  MaxLlmFaults   \* bound: failed Redis calls, expired keys, crashes

ASSUME LlmAssumption ==
  /\ Scans \subseteq Nat /\ IsFiniteSet(Scans) /\ ScanEngines # {}
  /\ {Batches, Attempts, MaxAttempts, Listed} \subseteq Nat \ {0}
  /\ {BusyThreshold, MaxRounds, MaxLlmFaults} \subseteq Nat

VARIABLES
  analysis,  \* each task: where it is, on which engine, at which batch and attempt,
             \* and the batches answered in full
  rounds,    \* how often each task was handed out
  records,   \* finding records that name the task: "none", "own" or "gone"
  ai,        \* AI fields of the records, by batch
  retry,     \* Redis: failures of each batch, 0 when it is not queued
  outcome,   \* Redis: tasks marked as not analysed
  active,    \* calls in progress, as each process counts them
  gauge,     \* the same for all processes, in Redis
  loop,      \* rescan loops: tasks still to look at, where each is, what it read
  failures,  \* history: failures of each batch
  givenUp,   \* history: batches a loop took out of the queue because it gave up on the task
  swept,     \* history: those of them that were not queued when it looked
  excused,   \* history: batches whose entry was never written, or has been lost, or was
             \* removed by a loop that had looked before the task was handed out again
  skewed,    \* history: the gauge missed a call, or a process died in one
  llmFaults

queues  == <<retry, outcome>>
counts  == <<active, gauge>>
history == <<failures, givenUp, swept, excused, skewed>>
llmVars == <<analysis, rounds, records, ai, queues, counts, loop, history, llmFaults>>

Parts   == 1 .. Batches
Rest    == [pc |-> "idle", at |-> CHOOSE e \in ScanEngines : TRUE, batch |-> 1,
            attempt |-> 1, answered |-> {}]
Asleep  == [pc |-> "sleep", todo |-> {}, task |-> 0, entries |-> {}]
Queued(t)  == {b \in Parts : retry[t][b] > 0}
Calls      == {"call", "enqueue", "return"}
CallsOf(e) == {t \in Scans : analysis[t].pc \in Calls /\ analysis[t].at = e}

LlmFault == llmFaults < MaxLlmFaults /\ llmFaults' = llmFaults + 1
Fine     == UNCHANGED llmFaults

LlmTypeOK ==
  /\ analysis \in [Scans -> [pc : {"idle", "next", "write"} \union Calls, at : ScanEngines,
                             batch : 1 .. Batches + 1, attempt : 1 .. Attempts,
                             answered : SUBSET Parts]]
  /\ rounds \in [Scans -> 0 .. MaxRounds]
  /\ records \in [Scans -> {"none", "own", "gone"}]
  /\ ai \in [Scans -> [Parts -> {"none", "rated", "awaiting", "unavailable"}]]
  /\ {retry, failures} \subseteq [Scans -> [Parts -> 0 .. MaxRounds]]
  /\ outcome \subseteq Scans
  /\ active \in [ScanEngines -> Nat] /\ gauge \in Int
  /\ loop \in [ScanEngines -> [pc : {"sleep", "remove", "drop", "mark"}, todo : SUBSET Scans,
                               task : Scans \union {0}, entries : SUBSET Parts]]
  /\ {givenUp, swept, excused} \subseteq SUBSET (Scans \X Parts)
  /\ skewed \in BOOLEAN /\ llmFaults \in 0 .. MaxLlmFaults

LlmInit ==
  /\ analysis = [t \in Scans |-> Rest]
  /\ rounds = [t \in Scans |-> 0]
  /\ records = [t \in Scans |-> "none"]
  /\ ai = [t \in Scans |-> [b \in Parts |-> "none"]]
  /\ retry = [t \in Scans |-> [b \in Parts |-> 0]] /\ outcome = {}
  /\ active = [e \in ScanEngines |-> 0] /\ gauge = 0
  /\ loop = [e \in ScanEngines |-> Asleep]
  /\ failures = [t \in Scans |-> [b \in Parts |-> 0]]
  /\ givenUp = {} /\ swept = {} /\ excused = {} /\ skewed = FALSE
  /\ llmFaults = 0

-----------------------------------------------------------------------------
(* The analysis of a task *)

At(t, pc)     == analysis[t].pc = pc
MoveTo(t, pc) == analysis' = [analysis EXCEPT ![t].pc = pc]

\* aggregate has written the findings; records that were gone are new ones.
\* Without an adapter all of them get the fallback and nothing is queued.
StartAnalysis(t, e) ==
  LET fresh == IF records[t] = "own" THEN ai[t] ELSE [b \in Parts |-> "none"]
  IN /\ At(t, "idle") /\ rounds[t] < MaxRounds
     /\ rounds' = [rounds EXCEPT ![t] = @ + 1]
     /\ records' = [records EXCEPT ![t] = "own"]
     /\ \/ analysis' = [analysis EXCEPT ![t] = [Rest EXCEPT !.pc = "next", !.at = e]]
           /\ ai' = [ai EXCEPT ![t] = fresh]
        \/ ai' = [ai EXCEPT ![t] = [b \in Parts |-> "unavailable"]]
           /\ UNCHANGED analysis
     /\ UNCHANGED <<queues, counts, loop, history, llmFaults>>

\* _incr_active: the count of the process, then that in Redis, whose failure is
\* swallowed.  The batches come first, and the report's call last.
IncrActive(t) ==
  LET e == analysis[t].at
  IN /\ At(t, "next")
     /\ active' = [active EXCEPT ![e] = @ + 1]
     /\ \/ gauge' = gauge + 1 /\ Fine /\ UNCHANGED skewed
        \/ LlmFault /\ skewed' = TRUE /\ UNCHANGED gauge
     /\ MoveTo(t, "call")
     /\ UNCHANGED <<rounds, records, ai, queues, loop, failures, givenUp, swept, excused>>

\* An answer, which may leave findings out; or a failure, with another attempt
\* or, after the last, with the batch's entry when the call is for a batch.
ChatWithRetry(t) ==
  LET b == analysis[t].batch
      last == analysis[t].attempt = Attempts
  IN /\ At(t, "call")
     /\ \/ \E full \in BOOLEAN :
             /\ analysis' = [analysis EXCEPT ![t].pc = "return",
                   ![t].answered = IF full /\ b \in Parts THEN @ \union {b} ELSE @]
             /\ excused' = IF full \/ b \notin Parts THEN excused ELSE excused \union {<<t, b>>}
             /\ UNCHANGED failures
        \/ ~last /\ analysis' = [analysis EXCEPT ![t].attempt = @ + 1]
           /\ UNCHANGED <<failures, excused>>
        \/ /\ last /\ MoveTo(t, IF b \in Parts THEN "enqueue" ELSE "return")
           /\ failures' = IF b \in Parts THEN [failures EXCEPT ![t][b] = @ + 1] ELSE failures
           /\ UNCHANGED excused
     /\ UNCHANGED <<rounds, records, ai, queues, counts, loop, givenUp, swept, skewed, llmFaults>>

\* enqueue_retry_batch, whose failure is swallowed.
EnqueueRetry(t) ==
  LET b == analysis[t].batch
  IN /\ At(t, "enqueue")
     /\ \/ /\ retry' = [retry EXCEPT ![t][b] = @ + 1] /\ Fine
           /\ excused' = excused \ {<<t, b>>}
        \/ LlmFault /\ excused' = excused \union {<<t, b>>} /\ UNCHANGED retry
     /\ MoveTo(t, "return")
     /\ UNCHANGED <<rounds, records, ai, outcome, counts, loop, failures, givenUp, swept, skewed>>

DecrActive(t) ==
  LET e == analysis[t].at  b == analysis[t].batch
  IN /\ At(t, "return")
     /\ active' = [active EXCEPT ![e] = IF @ = 0 THEN 0 ELSE @ - 1]
     /\ \/ gauge' = gauge - 1 /\ Fine /\ UNCHANGED skewed
        \/ LlmFault /\ skewed' = TRUE /\ UNCHANGED gauge
     /\ analysis' = [analysis EXCEPT ![t] =
          IF b \notin Parts THEN Rest
          ELSE [@ EXCEPT !.pc = IF b = Batches THEN "write" ELSE "next",
                         !.batch = b + 1, !.attempt = 1]]
     /\ UNCHANGED <<rounds, records, ai, queues, loop, failures, givenUp, swept, excused>>

\* Answered findings are rated, all others get "LLM batch failed, awaiting rescan".
WriteRatings(t) ==
  /\ At(t, "write")
  /\ ai' = [ai EXCEPT ![t] = [b \in Parts |->
       IF records[t] # "own" THEN "none"
       ELSE IF b \in analysis[t].answered THEN "rated" ELSE "awaiting"]]
  /\ MoveTo(t, "next")
  /\ UNCHANGED <<rounds, records, queues, counts, loop, history, llmFaults>>

\* A later scan confirms the findings and takes their records, or the task is
\* deleted.
LoseRecords(t) ==
  /\ records[t] = "own"
  /\ records' = [records EXCEPT ![t] = "gone"]
  /\ ai' = [ai EXCEPT ![t] = [b \in Parts |-> "none"]]
  /\ UNCHANGED <<analysis, rounds, queues, counts, loop, history, llmFaults>>

-----------------------------------------------------------------------------
(* The rescan loops *)

\* _is_idle: no calls here, or none anywhere.
IsIdle(e) == active[e] <= BusyThreshold \/ gauge <= BusyThreshold

Awake(e, pc) == loop[e].pc = pc
LoopFrame == UNCHANGED <<analysis, rounds, records, ai, counts, failures, skewed>>

\* list_retry_tasks(limit=10): the first keys.
ListPending(e) ==
  LET queued == {t \in Scans : Queued(t) # {}}
  IN /\ Awake(e, "sleep") /\ loop[e].todo = {} /\ IsIdle(e) /\ queued # {}
     /\ loop' = [loop EXCEPT ![e].todo =
          {t \in queued : Cardinality({u \in queued : u < t}) < Listed}]
     /\ LoopFrame /\ UNCHANGED <<queues, givenUp, swept, excused, llmFaults>>

\* Defect: one batch that has failed too often is enough.
SomeExhausted(t) == \E b \in Queued(t) : retry[t][b] >= MaxAttempts

AllExhausted(t) == \A b \in Queued(t) : retry[t][b] >= MaxAttempts

\* rescan_one_batch, up to its first write.  A loop that is no longer idle drops
\* its list; a task with findings is left as it is, and so is one whose queue or
\* findings cannot be read.
RescanOne(e) ==
  LET t == Min(loop[e].todo)
      Then(pc, batches) ==
        loop' = [loop EXCEPT ![e] = [pc |-> pc, todo |-> loop[e].todo \ {t}, task |-> t,
                                     entries |-> batches]]
  IN /\ Awake(e, "sleep") /\ loop[e].todo # {}
     /\ \/ ~IsIdle(e) /\ loop' = [loop EXCEPT ![e] = Asleep] /\ Fine
        \/ IsIdle(e) /\ Queued(t) # {} /\ AllExhausted(t) /\ Then("drop", Queued(t)) /\ Fine
        \/ /\ IsIdle(e) /\ ~AllExhausted(t) /\ records[t] # "own"
           /\ Then("remove", {b \in Queued(t) : retry[t][b] < MaxAttempts}) /\ Fine
        \/ /\ IsIdle(e) /\ Then("sleep", {})
           /\ \/ (Queued(t) = {} \/ (~AllExhausted(t) /\ records[t] = "own")) /\ Fine
              \/ LlmFault
     /\ LoopFrame /\ UNCHANGED <<queues, givenUp, swept, excused>>

\* remove_retry_batch, of the entries it has read.  If the task has been handed
\* out again since, they may be those of the new run.
RemoveRetry(e) ==
  LET t == loop[e].task
  IN /\ Awake(e, "remove")
     /\ \/ /\ Fine
           /\ retry' = [retry EXCEPT ![t] = [b \in Parts |->
                          IF b \in loop[e].entries THEN 0 ELSE @[b]]]
           /\ excused' = IF records[t] = "own" THEN excused \union ({t} \X loop[e].entries)
                         ELSE excused
        \/ LlmFault /\ UNCHANGED <<retry, excused>>
     /\ loop' = [loop EXCEPT ![e] = [Asleep EXCEPT !.todo = loop[e].todo]]
     /\ LoopFrame /\ UNCHANGED <<outcome, givenUp, swept>>

\* _mark_final deletes the key first, whatever has been queued since it was read.
DropQueue(e) ==
  LET t == loop[e].task
  IN /\ Awake(e, "drop")
     /\ \/ /\ retry' = [retry EXCEPT ![t] = [b \in Parts |-> 0]] /\ Fine
           /\ givenUp' = givenUp \union ({t} \X Queued(t))
           /\ swept' = swept \union ({t} \X (Queued(t) \ loop[e].entries))
        \/ LlmFault /\ UNCHANGED <<retry, givenUp, swept>>
     /\ loop' = [loop EXCEPT ![e].pc = "mark"]
     /\ LoopFrame /\ UNCHANGED <<outcome, excused>>

\* mark_analysis_outcome: always "all failed", as the ratings cannot be counted.
MarkOutcome(e) ==
  LET t == loop[e].task
  IN /\ Awake(e, "mark")
     /\ \/ outcome' = outcome \union {t} /\ Fine /\ UNCHANGED excused
        \/ LlmFault /\ excused' = excused \union ({t} \X Parts) /\ UNCHANGED outcome
     /\ loop' = [loop EXCEPT ![e] = [Asleep EXCEPT !.todo = loop[e].todo]]
     /\ LoopFrame /\ UNCHANGED <<retry, givenUp, swept>>

\* The key's time is over.
ExpireRetry(t) ==
  /\ Queued(t) # {} /\ LlmFault
  /\ retry' = [retry EXCEPT ![t] = [b \in Parts |-> 0]]
  /\ excused' = excused \union ({t} \X Queued(t))
  /\ UNCHANGED <<analysis, rounds, records, ai, outcome, counts, loop, failures, givenUp, swept, skewed>>

EngineDies(e) ==
  /\ CallsOf(e) # {} \/ loop[e] # Asleep
  /\ LlmFault
  /\ analysis' = [t \in Scans |-> IF analysis[t].at = e THEN Rest ELSE analysis[t]]
  /\ active' = [active EXCEPT ![e] = 0]
  /\ loop' = [loop EXCEPT ![e] = Asleep]
  /\ skewed' = (skewed \/ CallsOf(e) # {})
  /\ excused' = excused \union {x \in Scans \X Parts :
       \/ x[1] \in CallsOf(e) /\ At(x[1], "enqueue") /\ analysis[x[1]].batch = x[2]
       \/ Awake(e, "mark") /\ loop[e].task = x[1]}
  /\ UNCHANGED <<rounds, records, ai, queues, gauge, failures, givenUp, swept>>

LlmNext ==
  \/ \E t \in Scans :
       \/ \E e \in ScanEngines : StartAnalysis(t, e)
       \/ IncrActive(t) \/ ChatWithRetry(t) \/ EnqueueRetry(t) \/ DecrActive(t)
       \/ WriteRatings(t) \/ LoseRecords(t) \/ ExpireRetry(t)
  \/ \E e \in ScanEngines :
       \/ ListPending(e) \/ RescanOne(e) \/ RemoveRetry(e) \/ DropQueue(e)
       \/ MarkOutcome(e) \/ EngineDies(e)

LlmSpec == LlmInit /\ [][LlmNext]_llmVars

-----------------------------------------------------------------------------
(* Properties *)

\* A process counts the calls it makes; the gauge counts them all unless Redis
\* or a process failed, so that no loop works beside a call (_is_idle).
CallsCounted ==
  /\ \A e \in ScanEngines : active[e] = Cardinality(CallsOf(e))
  /\ ~skewed => gauge = Cardinality({t \in Scans : analysis[t].pc \in Calls})

\* "LLM batch failed, awaiting rescan" is written only of findings that are in
\* the queue, or whose task has been, or is being, marked; but for answers that
\* left findings out, for what was lost with Redis or a process, and for what a
\* loop removed that had looked at the task before it was handed out again.
AwaitingIsQueued ==
  \A t \in Scans, b \in Parts :
    records[t] = "own" /\ ai[t][b] = "awaiting" /\ <<t, b>> \notin excused =>
      \/ retry[t][b] > 0 \/ t \in outcome
      \/ \E e \in ScanEngines : loop[e].pc = "mark" /\ loop[e].task = t

\* No batch is taken out of the queue with a task that is given up before it has
\* failed MaxAttempts times (rescan_one_batch: the whole of the queue it read has),
\* but for those that were queued between its look and the deletion of the key.
GivenUpFairly == \A x \in givenUp \ swept : failures[x[1]][x[2]] >= MaxAttempts

\* The three above and the types: the invariant of calls, queue and loops.
LlmInv == LlmTypeOK /\ CallsCounted /\ AwaitingIsQueued /\ GivenUpFairly
=============================================================================
