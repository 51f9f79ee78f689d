-------------------------- MODULE TaskQueueProofs --------------------------
(***************************************************************************)
(* Safety of the task queue for every number of workers and tasks, every   *)
(* delivery limit and stream length, and any number of faults.             *)
(***************************************************************************)
EXTENDS TaskQueue, TLAPS

\* A new job is a job, and stays one at any step of _process.
LEMMA NewJobType ==
  ASSUME TypeOK, NEW w \in Workers, NEW e \in Entry, NEW lane \in Lanes
  PROVE  NewJob(w, e, lane) \in Job
BY QueueAssumption DEF TypeOK, NewJob, FirstStep, Job, Steps, Lanes

LEMMA ContinueType ==
  ASSUME TypeOK, NEW j \in jobs, NEW s \in Steps, Continue(j, s)
  PROVE  jobs' \subseteq Job
BY DEF TypeOK, Continue, Job

LEMMA FinishType ==
  ASSUME TypeOK, NEW j \in jobs, Finish(j)
  PROVE  jobs' \subseteq Job
BY DEF TypeOK, Finish

LEMMA DeliveredType ==
  ASSUME TypeOK, NEW e \in Entry, Delivered(e)
  PROVE  /\ pel' \subseteq Entry
         /\ deliveries' \in [Entry -> Nat]
         /\ idle' \in [Entry -> 0 .. StaleIdle]
         /\ overran' \in [Entry -> Nat]
         /\ settled' \in [Entry -> {"no", "run", "dlq"}]
BY QueueAssumption DEF TypeOK, Delivered

LEMMA XackType ==
  ASSUME TypeOK, NEW e \in Entry, NEW how \in {"run", "dlq"}, Xack(e, how)
  PROVE  /\ cursor' \in 0 .. MaxTasks
         /\ pel' \subseteq Entry
         /\ deliveries' \in [Entry -> Nat]
         /\ idle' \in [Entry -> 0 .. StaleIdle]
         /\ overran' \in [Entry -> Nat]
         /\ settled' \in [Entry -> {"no", "run", "dlq"}]
BY DEF TypeOK, Xack

LEMMA JobFields ==
  ASSUME TypeOK, NEW j \in jobs
  PROVE  j \in Job /\ j.worker \in Workers /\ j.entry \in Entry /\ j.pc \in Steps
BY DEF TypeOK, Job

LEMMA GravesType ==
  ASSUME TypeOK, NEW e \in Entry, WriteDlq(e)
  PROVE  dlq' \in [Entry -> Nat] /\ foreignDlq' \in [Entry -> Nat]
BY DEF TypeOK, WriteDlq

\* Where the next new entry lies.
LEMMA NextNewEntry ==
  ASSUME TypeOK, NextNew <= added
  PROVE  NextNew \in Entry /\ NextNew \in 0 .. MaxTasks /\ cursor < NextNew /\ trimmed < NextNew
BY QueueAssumption DEF TypeOK, NextNew, Larger, Entry

-----------------------------------------------------------------------------
\* TypeCorrect: every variable keeps its type.
THEOREM TypeCorrect == Spec => []TypeOK
<1>1. Init => TypeOK
  BY QueueAssumption DEF Init, TypeOK, Entry
<1>2. TypeOK /\ [Next]_vars => TypeOK'
  <2> SUFFICES ASSUME TypeOK, [Next]_vars PROVE TypeOK'
    OBVIOUS
  <2> USE DEF stream, group, graves
  <2>1. ASSUME NEW p \in Payloads, Enqueue(p) PROVE TypeOK'
    <3>1. added + 1 \in Entry /\ added' \in 0 .. MaxTasks
      BY <2>1, QueueAssumption DEF Enqueue, TypeOK, Entry
    <3>2. payload' \in [Entry -> Payloads]
      BY <2>1, <3>1 DEF Enqueue, TypeOK
    <3>3. trimmed' \in 0 .. MaxTasks
      BY <2>1, QueueAssumption DEF Enqueue, TypeOK, Larger
    <3> QED BY <2>1, <3>1, <3>2, <3>3 DEF Enqueue, TypeOK
  <2>2. ASSUME NEW w \in Workers, LoopStep(w) PROVE TypeOK'
    <3>1. CASE ReadNew(w)
      BY <3>1, NextNewEntry, DeliveredType, NewJobType DEF ReadNew, TypeOK, Lanes
    <3>2. CASE ReadReplyLost(w)
      BY <3>2, NextNewEntry, DeliveredType, QueueAssumption DEF ReadReplyLost, TypeOK, Disruption
    <3>3. CASE ClaimStale(w)
      BY <3>3, DeliveredType, NewJobType DEF ClaimStale, TypeOK, Lanes
    <3>4. CASE ClaimReplyLost(w)
      BY <3>4, DeliveredType, QueueAssumption DEF ClaimReplyLost, TypeOK, Disruption
    <3>5. CASE ClaimFindsTrimmed(w)
      BY <3>5 DEF ClaimFindsTrimmed, TypeOK
    <3> QED BY <2>2, <3>1, <3>2, <3>3, <3>4, <3>5 DEF LoopStep
  <2>3. ASSUME NEW j \in jobs, JobStep(j) PROVE TypeOK'
    <3> USE JobFields
    <3>1. CASE RunReturns(j)
      BY <3>1, ContinueType DEF RunReturns, TypeOK, Steps
    <3>2. CASE RunRaises(j)
      BY <3>2, ContinueType DEF RunRaises, TypeOK, Steps
    <3>3. CASE RunCancelled(j)
      BY <3>3, FinishType, QueueAssumption DEF RunCancelled, TypeOK, Disruption
    <3>4. CASE Ack(j)
      BY <3>4, FinishType, XackType DEF Ack, TypeOK
    <3>5. CASE AckFails(j)
      BY <3>5, FinishType, QueueAssumption DEF AckFails, TypeOK, Disruption
    <3>6. CASE CountAttempts(j)
      BY <3>6, FinishType, ContinueType DEF CountAttempts, TypeOK, Steps
    <3>7. CASE CountFails(j)
      BY <3>7, FinishType, QueueAssumption DEF CountFails, TypeOK, Disruption
    <3>8. CASE DlqAdd(j)
      BY <3>8, ContinueType, GravesType DEF DlqAdd, TypeOK, Steps
    <3>9. CASE DlqAddFails(j)
      BY <3>9, FinishType, GravesType, QueueAssumption DEF DlqAddFails, TypeOK, Disruption
    <3>10. CASE DlqAck(j)
      BY <3>10, FinishType, XackType DEF DlqAck, TypeOK
    <3>11. CASE DlqAckFails(j)
      BY <3>11, FinishType, QueueAssumption DEF DlqAckFails, TypeOK, Disruption
    <3> QED
      BY <2>3, <3>1, <3>2, <3>3, <3>4, <3>5, <3>6, <3>7, <3>8, <3>9, <3>10, <3>11 DEF JobStep
  <2>4. ASSUME NEW w \in Workers, ProcessStep(w) PROVE TypeOK'
    <3>1. CASE Crash(w)
      BY <3>1, QueueAssumption DEF Crash, TypeOK, Disruption
    <3>2. CASE Stop(w)
      BY <3>2, QueueAssumption DEF Stop, TypeOK, Disruption
    <3>3. CASE Exit(w)
      BY <3>3 DEF Exit, TypeOK
    <3>4. CASE Restart(w)
      BY <3>4 DEF Restart, TypeOK
    <3> QED BY <2>4, <3>1, <3>2, <3>3, <3>4 DEF ProcessStep
  <2>5. CASE Tick
    <3>1. idle' \in [Entry -> 0 .. StaleIdle]
      BY <2>5, QueueAssumption DEF Tick, TypeOK, Smaller
    <3>2. jobs' \subseteq Job
      BY <2>5, QueueAssumption DEF Tick, TypeOK, Job
    <3> QED BY <2>5, <3>1, <3>2 DEF Tick, TypeOK
  <2>6. CASE UNCHANGED vars
    BY <2>6 DEF vars, TypeOK
  <2> QED BY <2>1, <2>2, <2>3, <2>4, <2>5, <2>6 DEF Next
<1> QED BY <1>1, <1>2, PTL DEF Spec

-----------------------------------------------------------------------------
(* No task is lost.  NoTaskLost alone is not inductive: it says nothing of  *)
(* what a job is about to settle, nor of the entries the cursor jumps over. *)

EntryInv(e) ==
  /\ e \in pel => e <= cursor /\ settled[e] = "no"
  /\ settled[e] # "no" => e <= cursor
  /\ settled[e] = "run" => e \in returned
  /\ settled[e] = "dlq" => dlq[e] > 0
  /\ e <= cursor => e \in pel \/ settled[e] # "no" \/ e + StreamMax <= added
  /\ e <= trimmed => e + StreamMax <= added

JobInv(j) ==
  /\ j.entry <= cursor
  /\ j.pc = "ack" => j.entry \in returned
  /\ j.pc = "buryack" /\ ~Misrouted(j.entry) => dlq[j.entry] > 0

QueueInv ==
  /\ cursor <= added
  /\ \A e \in Entry : EntryInv(e)
  /\ \A j \in jobs : JobInv(j)

\* A job that reads or claims an entry starts before both acknowledgements.
LEMMA NewJobInv ==
  ASSUME NEW w \in Workers, NEW e \in Entry, NEW lane \in Lanes
  PROVE  LET j == NewJob(w, e, lane)
         IN  j.entry = e /\ j.pc \notin {"ack", "count", "buryack"} /\ j.age = 0
BY DEF NewJob, FirstStep

\* A job that goes on to s keeps all its fields but pc.
LEMMA ContinueFields ==
  ASSUME TypeOK, NEW j \in jobs, NEW s \in Steps, Continue(j, s), NEW k \in jobs'
  PROVE  \/ k \in jobs /\ k # j
         \/ k.pc = s /\ k.entry = j.entry /\ k.age = j.age /\ k.worker = j.worker
BY DEF TypeOK, Continue, Job

\* What the group does with a delivered entry keeps the entries accounted for.
LEMMA RedeliveredInv ==
  ASSUME TypeOK, QueueInv, NEW e \in pel, Delivered(e),
         UNCHANGED <<added, trimmed, cursor, dlq, returned>>
  PROVE  \A f \in Entry : EntryInv(f)'
BY DEF QueueInv, EntryInv, Delivered

LEMMA FirstDeliveryInv ==
  ASSUME TypeOK, QueueInv, NextNew <= added, cursor' = NextNew, Delivered(NextNew),
         UNCHANGED <<added, trimmed, dlq, returned>>
  PROVE  \A f \in Entry : EntryInv(f)'
<1> SUFFICES ASSUME NEW f \in Entry PROVE EntryInv(f)'
  OBVIOUS
<1>1. EntryInv(f)
  BY DEF QueueInv
<1>2. NextNew \in Entry /\ cursor < NextNew
  BY NextNewEntry
<1>3. f <= NextNew => f <= cursor \/ f <= trimmed \/ f = NextNew
  BY QueueAssumption DEF NextNew, Larger, TypeOK, Entry
<1>4. pel' = pel \cup {NextNew} /\ settled' = settled
  BY DEF Delivered
<1> QED BY <1>1, <1>2, <1>3, <1>4 DEF EntryInv, TypeOK, Entry

LEMMA ReadKeepsJobInv ==
  ASSUME TypeOK, QueueInv, NextNew <= added, cursor' = NextNew,
         UNCHANGED <<stream, dlq, returned>>, NEW j \in jobs
  PROVE  JobInv(j)'
<1>1. JobInv(j) /\ j.entry \in Entry
  BY JobFields DEF QueueInv
<1>2. j.entry <= cursor'
  BY <1>1, NextNewEntry, SMTT(60) DEF JobInv, TypeOK, Entry
<1> QED BY <1>1, <1>2 DEF JobInv, Misrouted, stream

\* An acknowledgement needs a reason, which the job that sends it has.
LEMMA AcknowledgedInv ==
  ASSUME TypeOK, QueueInv, NEW e \in Entry, NEW how \in {"run", "dlq"}, Xack(e, how),
         how = "run" => e \in returned, how = "dlq" => dlq[e] > 0,
         UNCHANGED <<added, trimmed, dlq, returned>>
  PROVE  \A f \in Entry : EntryInv(f)'
BY DEF QueueInv, EntryInv, Xack, TypeOK

\* One more copy in a dead-letter stream takes nothing away.
LEMMA GravesGrow ==
  ASSUME TypeOK, NEW e \in Entry, WriteDlq(e)
  PROVE  /\ \A f \in Entry : dlq[f] > 0 => dlq'[f] > 0
         /\ ~Misrouted(e) => dlq'[e] > 0
BY DEF TypeOK, WriteDlq

LEMMA QueueInvInit == Init => QueueInv
BY QueueAssumption DEF Init, QueueInv, EntryInv, Entry

LEMMA QueueInvNext ==
  ASSUME TypeOK, QueueInv, [Next]_vars
  PROVE  QueueInv'
<1> USE DEF stream, group, graves
<1>1. ASSUME NEW p \in Payloads, Enqueue(p) PROVE QueueInv'
  <2>1. /\ added' = added + 1 /\ cursor' = cursor /\ pel' = pel /\ settled' = settled
        /\ returned' = returned /\ dlq' = dlq /\ jobs' = jobs /\ queue' = queue
        /\ trimmed' \in trimmed .. Larger(trimmed, added + 1 - StreamMax)
    BY <1>1 DEF Enqueue
  <2>2. \A f \in Entry : f <= trimmed' => f <= trimmed \/ f + StreamMax <= added'
    BY <2>1, QueueAssumption DEF Larger, TypeOK, Entry
  <2>3. \A f \in Entry : EntryInv(f)'
    <3> SUFFICES ASSUME NEW f \in Entry PROVE EntryInv(f)'
      OBVIOUS
    <3>1. EntryInv(f) /\ (f + StreamMax <= added => f + StreamMax <= added')
      BY <2>1, QueueAssumption DEF QueueInv, TypeOK, Entry
    <3>2. f <= trimmed' => f + StreamMax <= added'
      BY <2>2, <3>1 DEF EntryInv
    <3> QED BY <2>1, <3>1, <3>2 DEF EntryInv
  <2>4. \A f \in Entry : f <= cursor => payload'[f] = payload[f]
    BY <1>1 DEF Enqueue, QueueInv, TypeOK, Entry
  <2>5. \A j \in jobs' : JobInv(j)'
    BY <2>1, <2>4, JobFields DEF QueueInv, JobInv, Misrouted
  <2> QED BY <2>1, <2>3, <2>5 DEF QueueInv, TypeOK
<1>2. ASSUME NEW w \in Workers, LoopStep(w) PROVE QueueInv'
  <2>1. CASE ReadNew(w)
    <3>1. \A f \in Entry : EntryInv(f)'
      BY <2>1, FirstDeliveryInv DEF ReadNew
    <3>2. \A j \in jobs : JobInv(j)'
      BY <2>1, ReadKeepsJobInv DEF ReadNew
    <3> PICK n, k : n = NextNew /\ k = NewJob(w, n, "spawned")
      OBVIOUS
    <3>3. JobInv(k)'
      BY <2>1, NextNewEntry, NewJobInv DEF ReadNew, JobInv, TypeOK, Entry, Lanes
    <3>4. \A j \in jobs' : JobInv(j)'
      BY <2>1, <3>2, <3>3 DEF ReadNew
    <3> QED BY <2>1, <3>1, <3>4 DEF ReadNew, QueueInv
  <2>2. CASE ReadReplyLost(w)
    <3>1. \A f \in Entry : EntryInv(f)'
      BY <2>2, FirstDeliveryInv DEF ReadReplyLost
    <3>2. \A j \in jobs' : JobInv(j)'
      BY <2>2, ReadKeepsJobInv DEF ReadReplyLost
    <3> QED BY <2>2, <3>1, <3>2 DEF ReadReplyLost, QueueInv
  <2>3. CASE ClaimStale(w)
    <3> PICK e \in Entry : /\ e \in pel /\ Delivered(e)
                           /\ jobs' = jobs \cup {NewJob(w, e, "inline")}
      BY <2>3 DEF ClaimStale, Oldest, Stale
    <3>1. \A f \in Entry : EntryInv(f)'
      BY <2>3, RedeliveredInv DEF ClaimStale
    <3>2. \A j \in jobs' : JobInv(j)'
      BY <2>3, NewJobInv DEF ClaimStale, QueueInv, EntryInv, JobInv, Misrouted, Lanes
    <3> QED BY <2>3, <3>1, <3>2 DEF ClaimStale, QueueInv
  <2>4. CASE ClaimReplyLost(w)
    <3>1. \A f \in Entry : EntryInv(f)'
      BY <2>4, RedeliveredInv DEF ClaimReplyLost, Oldest, Stale
    <3> QED BY <2>4, <3>1 DEF ClaimReplyLost, QueueInv, JobInv, Misrouted
  <2>5. CASE ClaimFindsTrimmed(w)
    <3>1. \A f \in Entry : EntryInv(f)'
      BY <2>5 DEF ClaimFindsTrimmed, Oldest, Gone, QueueInv, EntryInv
    <3> QED BY <2>5, <3>1 DEF ClaimFindsTrimmed, QueueInv, JobInv, Misrouted
  <2> QED BY <1>2, <2>1, <2>2, <2>3, <2>4, <2>5 DEF LoopStep
<1>3. ASSUME NEW j \in jobs, JobStep(j) PROVE QueueInv'
  <2> j \in Job /\ j.entry \in Entry /\ JobInv(j)
    BY JobFields DEF QueueInv
  \* Steps that touch neither the PEL nor the dead-letter streams.
  <2>1. ASSUME UNCHANGED <<stream, cursor, pel, settled, dlq>>, returned \subseteq returned'
        PROVE  \A f \in Entry : EntryInv(f)'
    BY <2>1 DEF QueueInv, EntryInv
  <2>2. ASSUME UNCHANGED <<stream, cursor, dlq>>, returned \subseteq returned', Finish(j)
        PROVE  \A k \in jobs' : JobInv(k)'
    BY <2>2 DEF QueueInv, JobInv, Finish, Misrouted
  <2>3. CASE RunReturns(j)
    <3>1. \A k \in jobs' : JobInv(k)'
      BY <2>3, ContinueFields DEF RunReturns, QueueInv, JobInv, Steps, Misrouted
    <3> QED BY <2>1, <2>3, <3>1 DEF RunReturns, QueueInv
  <2>4. CASE RunRaises(j)
    <3>1. \A k \in jobs' : JobInv(k)'
      BY <2>4, ContinueFields DEF RunRaises, QueueInv, JobInv, Steps, Misrouted
    <3> QED BY <2>1, <2>4, <3>1 DEF RunRaises, QueueInv
  <2>5. CASE RunCancelled(j)
    BY <2>1, <2>2, <2>5 DEF RunCancelled, QueueInv
  <2>6. CASE Ack(j)
    BY <2>2, <2>6, AcknowledgedInv DEF Ack, QueueInv, JobInv, Xack
  <2>7. CASE AckFails(j)
    BY <2>1, <2>2, <2>7 DEF AckFails, QueueInv
  <2>8. CASE CountAttempts(j)
    <3>1. CASE Continue(j, "bury")
      <4>1. \A k \in jobs' : JobInv(k)'
        BY <2>8, <3>1, ContinueFields DEF CountAttempts, QueueInv, JobInv, Steps, Misrouted
      <4> QED BY <2>1, <2>8, <4>1 DEF CountAttempts, QueueInv
    <3>2. CASE Finish(j)
      BY <2>1, <2>2, <2>8, <3>2 DEF CountAttempts, QueueInv
    <3> QED BY <2>8, <3>1, <3>2 DEF CountAttempts
  <2>9. CASE CountFails(j)
    BY <2>1, <2>2, <2>9 DEF CountFails, QueueInv
  <2>10. CASE DlqAdd(j)
    <3>1. \A f \in Entry : EntryInv(f)'
      BY <2>10, GravesGrow DEF DlqAdd, QueueInv, EntryInv
    <3>2. \A k \in jobs' : JobInv(k)'
      BY <2>10, GravesGrow, ContinueFields, JobFields
         DEF DlqAdd, QueueInv, JobInv, Steps, Misrouted
    <3> QED BY <2>10, <3>1, <3>2 DEF DlqAdd, QueueInv
  <2>11. CASE DlqAddFails(j)
    <3>1. \A f \in Entry : dlq[f] > 0 => dlq'[f] > 0
      BY <2>11, GravesGrow DEF DlqAddFails
    <3>2. \A f \in Entry : EntryInv(f)'
      BY <2>11, <3>1 DEF DlqAddFails, QueueInv, EntryInv
    <3>3. \A k \in jobs' : JobInv(k)'
      BY <2>11, <3>1, JobFields DEF DlqAddFails, QueueInv, JobInv, Finish, Misrouted
    <3> QED BY <2>11, <3>2, <3>3 DEF DlqAddFails, QueueInv
  <2>12. CASE DlqAck(j)
    <3>1. CASE Misrouted(j.entry)
      BY <2>1, <2>2, <2>12, <3>1 DEF DlqAck, QueueInv
    <3>2. CASE ~Misrouted(j.entry)
      BY <2>2, <2>12, <3>2, AcknowledgedInv DEF DlqAck, QueueInv, JobInv, Xack
    <3> QED BY <3>1, <3>2
  <2>13. CASE DlqAckFails(j)
    BY <2>1, <2>2, <2>13 DEF DlqAckFails, QueueInv
  <2> QED
    BY <1>3, <2>3, <2>4, <2>5, <2>6, <2>7, <2>8, <2>9, <2>10, <2>11, <2>12, <2>13 DEF JobStep
<1>4. ASSUME NEW w \in Workers, ProcessStep(w) PROVE QueueInv'
  <2>1. UNCHANGED <<stream, group, graves, returned>> /\ jobs' \subseteq jobs
    BY <1>4 DEF ProcessStep, Crash, Stop, Exit, Restart
  <2> QED BY <2>1 DEF QueueInv, EntryInv, JobInv, Misrouted
<1>5. CASE Tick
  <2>1. \A f \in Entry : EntryInv(f)'
    BY <1>5 DEF Tick, QueueInv, EntryInv
  <2>2. \A k \in jobs' : \E j \in jobs : k.entry = j.entry /\ k.pc = j.pc
    BY <1>5, JobFields DEF Tick, Job
  <2> QED BY <1>5, <2>1, <2>2 DEF Tick, QueueInv, JobInv, Misrouted
<1>6. CASE UNCHANGED vars
  BY <1>6 DEF vars, QueueInv, EntryInv, JobInv, Misrouted
<1> QED BY <1>1, <1>2, <1>3, <1>4, <1>5, <1>6 DEF Next

\* NoTaskLostHolds: whatever crashes, lost replies and failed commands do, an
\* entry leaves the PEL only with its run returned or its copy in the DLQ.
THEOREM NoTaskLostHolds == Spec => []NoTaskLost
<1>1. TypeOK /\ QueueInv => NoTaskLost
  BY QueueAssumption, SMTT(30) DEF TypeOK, QueueInv, EntryInv, NoTaskLost, Entry
<1>2. TypeOK /\ QueueInv /\ [Next]_vars => QueueInv'
  BY QueueInvNext
<1> QED BY <1>1, <1>2, QueueInvInit, TypeCorrect, PTL DEF Spec

-----------------------------------------------------------------------------
(* Who is at work on an entry.  While a job has a pending entry, the entry  *)
(* has been idle for no longer than the job is old, so XAUTOCLAIM, which    *)
(* takes an entry at StaleIdle, overtakes only jobs of that age; and an     *)
(* entry that was never handed out over a job has one job at most.          *)

AgeInv ==
  /\ \A j \in jobs : j.entry \in pel => idle[j.entry] <= j.age
  /\ OverlapsOnlyOverrun
  /\ \A j, k \in jobs : j.entry = k.entry /\ overran[j.entry] = 0 => j = k

\* An entry XAUTOCLAIM may take is held by jobs of that age only.
LEMMA StaleJobsAreOld ==
  ASSUME TypeOK, AgeInv, NEW e \in Stale, NEW j \in jobs, j.entry = e
  PROVE  j.age >= StaleIdle
BY QueueAssumption DEF TypeOK, AgeInv, Stale, Job

\* Delivering an entry to a new job or to none, where those that hold it have
\* outlasted the threshold.
LEMMA DeliverOver ==
  ASSUME TypeOK, AgeInv, NEW e \in Entry, Delivered(e),
         \A j \in jobs : j.entry = e => j.age >= StaleIdle,
         \/ jobs' = jobs
         \/ \E k : k.entry = e /\ k.age = 0 /\ jobs' = jobs \cup {k}
  PROVE  AgeInv'
<1>1. /\ \A j \in jobs : j.entry \in Entry /\ j.age \in Nat
      /\ idle' = [idle EXCEPT ![e] = 0] /\ pel' = pel \cup {e}
      /\ StaleIdle \in Nat /\ \A f \in Entry : overran[f] \in Nat
  BY JobFields, QueueAssumption DEF TypeOK, Delivered, Job
<1>2. ASSUME NEW j \in jobs' PROVE j.entry \in pel' => idle'[j.entry] <= j.age
  <2>1. CASE j \in jobs
    BY <1>1, <2>1 DEF AgeInv, TypeOK
  <2>2. CASE j.entry = e /\ j.age = 0
    BY <1>1, <2>2 DEF TypeOK
  <2> QED BY <2>1, <2>2
<1>3. \A j, k \in jobs' : j.entry = k.entry /\ j # k => Larger(j.age, k.age) >= StaleIdle
  <2> SUFFICES ASSUME NEW j \in jobs', NEW k \in jobs', j.entry = k.entry, j # k
               PROVE  Larger(j.age, k.age) >= StaleIdle
    OBVIOUS
  <2>1. CASE j \in jobs /\ k \in jobs
    BY <2>1 DEF AgeInv, OverlapsOnlyOverrun
  <2>2. CASE j.entry = e /\ ((j.age = 0 /\ k \in jobs) \/ (k.age = 0 /\ j \in jobs))
    <3>1. \A m \in Nat : m >= StaleIdle => Larger(0, m) >= StaleIdle /\ Larger(m, 0) >= StaleIdle
      BY <1>1 DEF Larger
    <3>2. CASE j.age = 0 /\ k \in jobs
      <4>1. k.age \in Nat /\ k.age >= StaleIdle
        BY <1>1, <2>2, <3>2
      <4> QED BY <3>1, <3>2, <4>1
    <3>3. CASE k.age = 0 /\ j \in jobs
      <4>1. j.age \in Nat /\ j.age >= StaleIdle
        BY <1>1, <2>2, <3>3
      <4> QED BY <3>1, <3>3, <4>1
    <3> QED BY <2>2, <3>2, <3>3
  <2>3. \/ jobs' = jobs
        \/ \E i : i.entry = e /\ i.age = 0 /\ \A l \in jobs' : l \in jobs \/ l = i
    <3>1. ASSUME NEW i, i.entry = e, i.age = 0, jobs' = jobs \cup {i}
          PROVE  \A l \in jobs' : l \in jobs \/ l = i
      BY <3>1
    <3> QED BY <3>1
  <2>4. \/ j \in jobs /\ k \in jobs
        \/ j.entry = e /\ ((j.age = 0 /\ k \in jobs) \/ (k.age = 0 /\ j \in jobs))
    <3>1. CASE jobs' = jobs
      BY <3>1
    <3>2. ASSUME NEW i, i.entry = e, i.age = 0, \A l \in jobs' : l \in jobs \/ l = i
          PROVE  \/ j \in jobs /\ k \in jobs
                 \/ j.entry = e /\ ((j.age = 0 /\ k \in jobs) \/ (k.age = 0 /\ j \in jobs))
      <4>1. (j \in jobs \/ j = i) /\ (k \in jobs \/ k = i) /\ ~(j = i /\ k = i)
        BY <3>2
      <4>2. CASE j = i
        BY <3>2, <4>1, <4>2
      <4>3. CASE k = i
        BY <3>2, <4>1, <4>3
      <4> QED BY <4>1, <4>2, <4>3
    <3> QED BY <2>3, <3>1, <3>2
  <2> QED BY <2>1, <2>2, <2>4
<1>4. ASSUME NEW j \in jobs', NEW k \in jobs', j.entry = k.entry, overran'[j.entry] = 0
      PROVE  j = k
  <2>1. \A f \in Entry : overran'[f] = 0 => overran[f] = 0 /\ (f = e => \A i \in jobs : i.entry # e)
    BY <1>1 DEF Delivered, TypeOK
  <2>2. j.entry \in Entry
    BY <1>1
  <2>3. overran[j.entry] = 0 /\ (j.entry = e => \A i \in jobs : i.entry # e)
    BY <1>4, <2>1, <2>2
  <2> QED BY <1>4, <2>3 DEF AgeInv
<1> QED BY <1>2, <1>3, <1>4 DEF AgeInv, OverlapsOnlyOverrun

\* A job that goes on, or ends, beside an unchanged group.
LEMMA ContinueBeside ==
  ASSUME TypeOK, AgeInv, NEW j \in jobs, NEW s \in Steps, Continue(j, s), UNCHANGED group
  PROVE  AgeInv'
<1>1. j \in Job /\ UNCHANGED <<pel, idle, overran>>
  BY JobFields DEF group
<1>2. [j EXCEPT !.pc = s].entry = j.entry /\ [j EXCEPT !.pc = s].age = j.age
  BY <1>1 DEF Job
<1>3. \A k \in jobs' : (k \in jobs /\ k # j) \/ k = [j EXCEPT !.pc = s]
  BY DEF Continue
<1> HIDE DEF Continue
<1>4. \A k \in jobs' : k.entry \in pel' => idle'[k.entry] <= k.age
  BY <1>1, <1>2, <1>3 DEF AgeInv
<1>5. \A k, l \in jobs' : k.entry = l.entry /\ k # l => Larger(k.age, l.age) >= StaleIdle
  BY <1>2, <1>3 DEF AgeInv, OverlapsOnlyOverrun
<1>6. \A k, l \in jobs' : k.entry = l.entry /\ overran'[k.entry] = 0 => k = l
  BY <1>1, <1>2, <1>3 DEF AgeInv
<1> QED BY <1>4, <1>5, <1>6 DEF AgeInv, OverlapsOnlyOverrun

LEMMA FewerJobs ==
  ASSUME AgeInv, jobs' \subseteq jobs, UNCHANGED <<idle, overran>>, pel' \subseteq pel
  PROVE  AgeInv'
BY DEF AgeInv, OverlapsOnlyOverrun

LEMMA AgeInvNext ==
  ASSUME TypeOK, QueueInv, AgeInv, [Next]_vars
  PROVE  AgeInv'
<1> USE DEF group
<1>1. ASSUME NEW p \in Payloads, Enqueue(p) PROVE AgeInv'
  BY <1>1, FewerJobs DEF Enqueue
<1>2. ASSUME NEW w \in Workers, LoopStep(w) PROVE AgeInv'
  <2>1. CASE ReadNew(w) \/ ReadReplyLost(w)
    <3>1. NextNew <= added /\ Delivered(NextNew)
      BY <2>1 DEF ReadNew, ReadReplyLost
    <3>2. \A j \in jobs : j.entry # NextNew
      BY <3>1, NextNewEntry, JobFields, SMTT(60) DEF QueueInv, JobInv, TypeOK, Entry
    <3>3. \/ jobs' = jobs
          \/ \E k : k.entry = NextNew /\ k.age = 0 /\ jobs' = jobs \cup {k}
      BY <2>1, <3>1, NextNewEntry, NewJobInv DEF ReadNew, ReadReplyLost, Lanes
    <3> QED BY <3>1, <3>2, <3>3, NextNewEntry, DeliverOver
  <2>2. CASE ClaimStale(w) \/ ClaimReplyLost(w)
    <3>1. PICK e \in Entry :
            /\ e \in Stale /\ Delivered(e)
            /\ \/ jobs' = jobs
               \/ jobs' = jobs \cup {NewJob(w, e, "inline")}
      BY <2>2 DEF ClaimStale, ClaimReplyLost, Oldest
    <3>2. \/ jobs' = jobs
          \/ \E k : k.entry = e /\ k.age = 0 /\ jobs' = jobs \cup {k}
      BY <3>1, NewJobInv DEF Lanes
    <3> QED BY <3>1, <3>2, StaleJobsAreOld, DeliverOver
  <2>3. CASE ClaimFindsTrimmed(w)
    BY <2>3, FewerJobs DEF ClaimFindsTrimmed
  <2> QED BY <1>2, <2>1, <2>2, <2>3 DEF LoopStep
<1>3. ASSUME NEW j \in jobs, JobStep(j) PROVE AgeInv'
  <2>1. CASE RunReturns(j) \/ RunRaises(j) \/ DlqAdd(j) \/ CountAttempts(j)
    <3>1. UNCHANGED group /\ (Finish(j) \/ \E s \in Steps : Continue(j, s))
      BY <2>1 DEF RunReturns, RunRaises, DlqAdd, CountAttempts, Steps
    <3> QED BY <3>1, ContinueBeside, FewerJobs DEF Finish
  <2>2. CASE \/ RunCancelled(j) \/ AckFails(j) \/ CountFails(j)
             \/ DlqAddFails(j) \/ DlqAckFails(j)
    BY <2>2, FewerJobs
       DEF RunCancelled, AckFails, CountFails, DlqAddFails, DlqAckFails, Finish
  <2>3. CASE Ack(j) \/ DlqAck(j)
    BY <2>3, FewerJobs DEF Ack, DlqAck, Finish, Xack
  <2> QED BY <1>3, <2>1, <2>2, <2>3 DEF JobStep
<1>4. ASSUME NEW w \in Workers, ProcessStep(w) PROVE AgeInv'
  BY <1>4, FewerJobs DEF ProcessStep, Crash, Stop, Exit, Restart
<1>5. CASE Tick
  <2>0. UNCHANGED <<pel, overran>> /\ StaleIdle \in Nat
    BY <1>5, QueueAssumption DEF Tick
  <2>1. ASSUME NEW j \in jobs
        PROVE  /\ j.age \in Nat
               /\ [j EXCEPT !.age = @ + 1].entry = j.entry
               /\ [j EXCEPT !.age = @ + 1].age = j.age + 1
               /\ j.entry \in pel' => idle'[j.entry] <= j.age + 1
    <3>1. /\ j \in Job /\ j.entry \in Entry /\ j.age \in Nat
          /\ j.entry \in pel => idle[j.entry] <= j.age
      BY JobFields DEF AgeInv, Job
    <3>2. j.entry \in pel' => idle'[j.entry] = Smaller(idle[j.entry] + 1, StaleIdle)
      BY <1>5, <3>1 DEF Tick
    <3>3. idle[j.entry] \in Nat
      BY <3>1, QueueAssumption DEF TypeOK
    <3>4. Smaller(idle[j.entry] + 1, StaleIdle) <= idle[j.entry] + 1
      BY <2>0, <3>3 DEF Smaller
    <3>5. j.entry \in pel' => idle'[j.entry] <= j.age + 1
      <4> SUFFICES ASSUME j.entry \in pel' PROVE idle'[j.entry] <= j.age + 1
        OBVIOUS
      <4>1. idle[j.entry] <= j.age /\ idle'[j.entry] = Smaller(idle[j.entry] + 1, StaleIdle)
        BY <2>0, <3>1, <3>2
      <4>2. Smaller(idle[j.entry] + 1, StaleIdle) \in Nat
        BY <2>0, <3>3 DEF Smaller
      <4> QED BY <3>1, <3>3, <3>4, <4>1, <4>2
    <3> QED BY <3>1, <3>5 DEF Job
  <2>2. \A k \in jobs' : \E j \in jobs : k = [j EXCEPT !.age = @ + 1]
    BY <1>5 DEF Tick
  <2>3. \A k \in jobs' : k.entry \in pel' => idle'[k.entry] <= k.age
    <3> SUFFICES ASSUME NEW k \in jobs' PROVE k.entry \in pel' => idle'[k.entry] <= k.age
      OBVIOUS
    <3>1. PICK j \in jobs : k = [j EXCEPT !.age = @ + 1]
      BY <2>2
    <3>2. k.entry = j.entry /\ k.age = j.age + 1
      BY <2>1, <3>1
    <3> QED BY <2>1, <3>2
  <2>4. ASSUME NEW k \in jobs', NEW l \in jobs', k.entry = l.entry
        PROVE  /\ k # l => Larger(k.age, l.age) >= StaleIdle
               /\ overran'[k.entry] = 0 => k = l
    <3>1. PICK i \in jobs, j \in jobs :
            k = [i EXCEPT !.age = @ + 1] /\ l = [j EXCEPT !.age = @ + 1]
      BY <2>2
    <3>2. /\ i.entry = j.entry /\ k.entry = i.entry /\ i.age \in Nat /\ j.age \in Nat
          /\ k.age = i.age + 1 /\ l.age = j.age + 1
      BY <2>1, <2>4, <3>1
    <3>3. i # j => Larger(i.age, j.age) >= StaleIdle
      BY <3>2 DEF AgeInv, OverlapsOnlyOverrun
    <3>4. i # j => Larger(k.age, l.age) >= StaleIdle
      BY <2>0, <3>2, <3>3 DEF Larger
    <3>5. overran'[k.entry] = 0 => i = j
      BY <2>0, <3>2 DEF AgeInv
    <3> QED BY <3>1, <3>4, <3>5
  <2> QED BY <2>3, <2>4 DEF AgeInv, OverlapsOnlyOverrun
<1>6. CASE UNCHANGED vars
  BY <1>6, FewerJobs DEF vars
<1> QED BY <1>1, <1>2, <1>3, <1>4, <1>5, <1>6 DEF Next

\* OverlapsOnlyOverrunHolds: whatever a run takes, two workers are at work on an
\* entry together only after one of them has held it for the idle time that
\* XAUTOCLAIM waits for.
THEOREM OverlapsOnlyOverrunHolds == Spec => []OverlapsOnlyOverrun
<1>1. Init => AgeInv
  BY DEF Init, AgeInv, OverlapsOnlyOverrun
<1>2. TypeOK /\ QueueInv /\ [Next]_vars => QueueInv'
  BY QueueInvNext
<1>3. TypeOK /\ QueueInv /\ AgeInv /\ [Next]_vars => AgeInv'
  BY AgeInvNext
<1>4. AgeInv => OverlapsOnlyOverrun
  BY DEF AgeInv
<1> QED BY <1>1, <1>2, <1>3, <1>4, QueueInvInit, TypeCorrect, PTL DEF Spec

-----------------------------------------------------------------------------
(* The delivery counts.  An entry not yet handed out has no history, and a  *)
(* job that is about to bury a parsable task has seen its count run out.    *)

BuryInv ==
  /\ \A e \in Entry : e > cursor => deliveries[e] = 0 /\ dlq[e] = 0 /\ e \notin returned
  /\ BuriedWhenExhausted
  /\ \A j \in jobs : j.pc \in {"bury", "buryack"} /\ payload[j.entry] = "ok" =>
       deliveries[j.entry] >= MaxDelivery

\* What the arithmetic of the counts rests on.
LEMMA Numbers ==
  ASSUME TypeOK
  PROVE  /\ cursor \in Nat /\ faults \in Nat /\ MaxDelivery \in Nat /\ MaxDelivery > 0
         /\ Entry \subseteq Nat
         /\ \A e \in Entry : deliveries[e] \in Nat /\ dlq[e] \in Nat /\ overran[e] \in Nat
<1>1. cursor \in Nat /\ faults \in Nat
  BY QueueAssumption DEF TypeOK
<1>2. Entry \subseteq Nat
  BY DEF Entry
<1>3. \A e \in Entry : deliveries[e] \in Nat /\ dlq[e] \in Nat /\ overran[e] \in Nat
  BY DEF TypeOK
<1> QED BY <1>1, <1>2, <1>3, QueueAssumption

\* A step in which no job comes to the DLQ and no count goes back.
LEMMA BuryFrame ==
  ASSUME TypeOK, TypeOK', QueueInv, BuryInv, UNCHANGED <<queue, dlq>>, cursor' >= cursor,
         \A e \in Entry : e <= cursor => payload'[e] = payload[e],
         \A e \in Entry : deliveries'[e] >= deliveries[e],
         \A e \in Entry : e > cursor' => deliveries'[e] = 0 /\ e \notin returned',
         \A k \in jobs' : \/ k.pc \in {"run", "ack", "count"}
                          \/ k.entry \in Entry /\ payload'[k.entry] # "ok"
                          \/ \E j \in jobs : j.entry = k.entry /\ j.pc = k.pc
  PROVE  BuryInv'
<1>1. \A j \in jobs : j.entry \in Entry /\ j.entry <= cursor
  BY JobFields DEF QueueInv, JobInv
<1>2. /\ cursor \in Nat /\ cursor' \in Nat /\ MaxDelivery \in Nat /\ Entry \subseteq Nat
      /\ \A e \in Entry : deliveries[e] \in Nat /\ dlq[e] \in Nat /\ deliveries'[e] \in Nat
  <2>1. cursor' \in Nat /\ \A e \in Entry : deliveries'[e] \in Nat
    BY DEF TypeOK
  <2> QED BY <2>1, Numbers
<1>3. \A e \in Entry : e > cursor' => deliveries'[e] = 0 /\ dlq'[e] = 0 /\ e \notin returned'
  BY <1>2 DEF BuryInv
<1>4. BuriedWhenExhausted'
  <2> SUFFICES ASSUME NEW e \in Entry, dlq'[e] > 0, payload'[e] = "ok"
               PROVE  deliveries'[e] >= MaxDelivery
    BY DEF BuriedWhenExhausted
  <2>1. e <= cursor
    BY <1>2 DEF BuryInv
  <2>2. deliveries[e] >= MaxDelivery
    BY <2>1 DEF BuryInv, BuriedWhenExhausted
  <2> QED BY <1>2, <2>2
<1>5. ASSUME NEW k \in jobs', k.pc \in {"bury", "buryack"}, payload'[k.entry] = "ok"
      PROVE  deliveries'[k.entry] >= MaxDelivery
  <2>1. PICK j \in jobs : j.entry = k.entry /\ j.pc = k.pc
    BY <1>5
  <2>2. payload[j.entry] = "ok"
    BY <1>1, <1>5, <2>1
  <2>3. deliveries[j.entry] >= MaxDelivery
    BY <1>5, <2>1, <2>2 DEF BuryInv
  <2>4. k.entry \in Entry /\ deliveries[k.entry] >= MaxDelivery
    BY <1>1, <2>1, <2>3
  <2>5. ASSUME NEW e \in Entry, deliveries[e] >= MaxDelivery PROVE deliveries'[e] >= MaxDelivery
    BY <1>2, <2>5
  <2> QED BY <2>4, <2>5
<1> QED BY <1>3, <1>4, <1>5 DEF BuryInv

\* Handing out e counts one delivery of e, and a new job buries only what
\* cannot be parsed.
LEMMA DeliveredBury ==
  ASSUME TypeOK, TypeOK', QueueInv, BuryInv, NEW e \in Entry, Delivered(e), e <= cursor',
         cursor' >= cursor, UNCHANGED <<stream, graves, returned>>,
         \/ jobs' = jobs
         \/ \E w \in Workers, lane \in Lanes : jobs' = jobs \cup {NewJob(w, e, lane)}
  PROVE  BuryInv'
<1>1. \A f \in Entry : deliveries'[f] = IF f = e THEN deliveries[f] + 1 ELSE deliveries[f]
  BY DEF Delivered, TypeOK
<1>2. /\ Entry \subseteq Nat /\ cursor \in Nat /\ cursor' \in Nat
      /\ \A f \in Entry : deliveries[f] \in Nat
  <2>1. cursor' \in Nat
    BY DEF TypeOK
  <2> QED BY <2>1, Numbers
<1>3. \A f \in Entry : deliveries'[f] >= deliveries[f]
  BY <1>1, <1>2
<1>4. \A f \in Entry : f > cursor' => deliveries'[f] = 0 /\ f \notin returned'
  BY <1>1, <1>2 DEF BuryInv
<1>5. \A k \in jobs' : k \in jobs \/ k.pc = "run" \/ (k.entry = e /\ payload'[e] # "ok")
  BY DEF NewJob, FirstStep, stream
<1> QED BY <1>3, <1>4, <1>5, BuryFrame DEF stream, graves

\* One job goes on from a step before the DLQ, or ends.
LEMMA JobEndsBury ==
  ASSUME TypeOK, TypeOK', QueueInv, BuryInv, NEW j \in jobs,
         UNCHANGED <<stream, cursor, deliveries, dlq>>,
         returned' = returned \/ returned' = returned \cup {j.entry},
         Finish(j) \/ \E s \in {"ack", "count"} : Continue(j, s)
  PROVE  BuryInv'
<1>1. \A k \in jobs' : k \in jobs \/ k.pc \in {"ack", "count"}
  BY ContinueFields DEF Finish, Steps
<1>2. j.entry <= cursor /\ j.entry \in Entry
  BY JobFields DEF QueueInv, JobInv
<1>3. \A e \in Entry : deliveries'[e] >= deliveries[e]
  BY DEF TypeOK
<1>4. cursor' >= cursor /\ Entry \subseteq Nat /\ cursor \in Nat
  BY DEF TypeOK, Entry
<1>5. \A e \in Entry : e > cursor' => deliveries'[e] = 0 /\ e \notin returned'
  BY <1>2, <1>4 DEF BuryInv
<1> QED BY <1>1, <1>3, <1>4, <1>5, BuryFrame DEF stream

LEMMA BuryInvNext ==
  ASSUME TypeOK, TypeOK', QueueInv, BuryInv, [Next]_vars
  PROVE  BuryInv'
<1> USE DEF group, graves
<1>0. /\ cursor \in Nat /\ MaxDelivery \in Nat /\ MaxDelivery > 0 /\ Entry \subseteq Nat
      /\ \A e \in Entry : deliveries[e] \in Nat /\ dlq[e] \in Nat
  BY Numbers
<1>1. ASSUME NEW p \in Payloads, Enqueue(p) PROVE BuryInv'
  <2>1. UNCHANGED <<queue, dlq, cursor, deliveries, returned, jobs>>
    BY <1>1 DEF Enqueue
  <2>2. \A e \in Entry : e <= cursor => payload'[e] = payload[e]
    BY <1>1 DEF Enqueue, QueueInv, TypeOK, Entry
  <2> QED BY <1>0, <2>1, <2>2, BuryFrame DEF BuryInv
<1>2. ASSUME NEW w \in Workers, LoopStep(w) PROVE BuryInv'
  <2>1. CASE ReadNew(w) \/ ReadReplyLost(w)
    <3>1. /\ NextNew <= added /\ cursor' = NextNew /\ Delivered(NextNew)
          /\ UNCHANGED <<stream, graves, returned>>
          /\ jobs' = jobs \/ jobs' = jobs \cup {NewJob(w, NextNew, "spawned")}
      BY <2>1 DEF ReadNew, ReadReplyLost
    <3>2. NextNew \in Entry /\ cursor' >= cursor /\ NextNew <= cursor'
      BY <1>0, <3>1, NextNewEntry
    <3> QED BY <3>1, <3>2, DeliveredBury DEF Lanes
  <2>2. CASE ClaimStale(w) \/ ClaimReplyLost(w)
    <3>1. PICK e \in Entry :
            /\ e \in pel /\ Delivered(e)
            /\ jobs' = jobs \/ jobs' = jobs \cup {NewJob(w, e, "inline")}
      BY <2>2 DEF ClaimStale, ClaimReplyLost, Oldest, Stale
    <3>2. UNCHANGED <<stream, cursor, graves, returned>>
      BY <2>2 DEF ClaimStale, ClaimReplyLost
    <3>3. e <= cursor' /\ cursor' >= cursor
      BY <1>0, <3>1, <3>2 DEF QueueInv, EntryInv
    <3> QED BY <3>1, <3>2, <3>3, DeliveredBury DEF Lanes
  <2>3. CASE ClaimFindsTrimmed(w)
    <3>1. UNCHANGED <<stream, dlq, cursor, deliveries, returned, jobs>>
      BY <2>3 DEF ClaimFindsTrimmed
    <3> QED BY <1>0, <3>1, BuryFrame DEF BuryInv, stream
  <2> QED BY <1>2, <2>1, <2>2, <2>3 DEF LoopStep
<1>3. ASSUME NEW j \in jobs, JobStep(j) PROVE BuryInv'
  <2>1. CASE \/ RunReturns(j) \/ RunRaises(j) \/ RunCancelled(j) \/ Ack(j) \/ AckFails(j)
             \/ CountFails(j) \/ DlqAck(j) \/ DlqAckFails(j)
    <3>1. /\ UNCHANGED <<stream, cursor, deliveries, dlq>>
          /\ returned' = returned \/ returned' = returned \cup {j.entry}
          /\ Finish(j) \/ \E s \in {"ack", "count"} : Continue(j, s)
      BY <2>1 DEF RunReturns, RunRaises, RunCancelled, Ack, AckFails, CountFails, DlqAck,
                  DlqAckFails, Xack
    <3> QED BY <3>1, JobEndsBury
  <2>2. CASE CountAttempts(j)
    <3>1. UNCHANGED <<stream, cursor, deliveries, dlq, returned>>
      BY <2>2 DEF CountAttempts
    <3>2. CASE Finish(j)
      BY <3>1, <3>2, JobEndsBury
    <3>3. CASE Attempts(j.entry) >= MaxDelivery /\ Continue(j, "bury")
      <4>1. deliveries[j.entry] >= MaxDelivery
        BY <1>0, <3>3, JobFields DEF Attempts
      <4>2. \A k \in jobs' : k \in jobs \/ k.entry = j.entry
        BY <3>3, ContinueFields DEF Steps
      <4> QED BY <3>1, <4>1, <4>2 DEF BuryInv, BuriedWhenExhausted, stream
    <3> QED BY <2>2, <3>2, <3>3 DEF CountAttempts
  <2>3. CASE DlqAdd(j) \/ DlqAddFails(j)
    <3>1. /\ UNCHANGED <<stream, cursor, deliveries, returned>> /\ j.pc = "bury"
          /\ WriteDlq(j.entry) \/ UNCHANGED graves
      BY <2>3 DEF DlqAdd, DlqAddFails
    <3>2. \A k \in jobs' : k \in jobs \/ k.entry = j.entry
      BY <2>3, ContinueFields DEF DlqAdd, DlqAddFails, Finish, Steps
    <3>3. \A e \in Entry : e # j.entry => dlq'[e] = dlq[e]
      BY <3>1 DEF WriteDlq, TypeOK
    <3>4. j.entry \in Entry /\ j.entry <= cursor
      BY JobFields DEF QueueInv, JobInv
    <3>5. payload[j.entry] = "ok" => deliveries[j.entry] >= MaxDelivery
      BY <3>1 DEF BuryInv
    <3>6. \A k \in jobs' : k.pc \in {"bury", "buryack"} /\ payload'[k.entry] = "ok" =>
                             deliveries'[k.entry] >= MaxDelivery
      BY <3>1, <3>2, <3>5 DEF BuryInv, stream
    <3>7. BuriedWhenExhausted'
      BY <3>1, <3>3, <3>5 DEF BuryInv, BuriedWhenExhausted, stream
    <3>8. \A e \in Entry : e > cursor' => deliveries'[e] = 0 /\ dlq'[e] = 0 /\ e \notin returned'
      BY <1>0, <3>1, <3>3, <3>4 DEF BuryInv
    <3> QED BY <3>6, <3>7, <3>8 DEF BuryInv
  <2> QED BY <1>3, <2>1, <2>2, <2>3 DEF JobStep
<1>4. ASSUME NEW w \in Workers, ProcessStep(w) PROVE BuryInv'
  <2>1. UNCHANGED <<stream, group, graves, returned>> /\ jobs' \subseteq jobs
    BY <1>4 DEF ProcessStep, Crash, Stop, Exit, Restart
  <2> QED BY <2>1 DEF BuryInv, BuriedWhenExhausted, stream
<1>5. CASE Tick
  <2>1. \A k \in jobs' : \E j \in jobs : k.entry = j.entry /\ k.pc = j.pc
    BY <1>5, JobFields DEF Tick, Job
  <2> QED BY <1>5, <2>1 DEF Tick, BuryInv, BuriedWhenExhausted, stream
<1>6. CASE UNCHANGED vars
  BY <1>6 DEF vars, BuryInv, BuriedWhenExhausted, stream
<1> QED BY <1>1, <1>2, <1>3, <1>4, <1>5, <1>6 DEF Next

LEMMA BuryInvInit == Init => BuryInv
BY QueueAssumption DEF Init, BuryInv, BuriedWhenExhausted, Entry

LEMMA QueueAlways == Spec => [](TypeOK /\ QueueInv /\ BuryInv)
<1>1. TypeOK /\ QueueInv /\ [Next]_vars => QueueInv'
  BY QueueInvNext
<1>2. TypeOK /\ TypeOK' /\ QueueInv /\ BuryInv /\ [Next]_vars => BuryInv'
  BY BuryInvNext
<1> QED BY <1>1, <1>2, QueueInvInit, BuryInvInit, TypeCorrect, PTL DEF Spec

\* BuriedWhenExhaustedHolds: no order of claims, failures and counts sends a
\* parsable task to the DLQ before its MAX_DELIVERY deliveries.
THEOREM BuriedWhenExhaustedHolds == Spec => []BuriedWhenExhausted
<1>1. BuryInv => BuriedWhenExhausted
  BY DEF BuryInv
<1> QED BY <1>1, QueueAlways, PTL

-----------------------------------------------------------------------------
(* What a redelivery costs.  An entry that waits in the PEL with no job to  *)
(* look after it has a delivery to spare, or a disruption has paid for one; *)
(* so have the entries of a worker that is about to exit.  An entry handed  *)
(* out over a job pays for that delivery itself.                            *)

Spare(e) == deliveries[e] < MaxDelivery + faults + overran[e] \/ Misrouted(e)

BudgetInv ==
  /\ RedeliveryBudget
  /\ \A e \in pel : (\A j \in jobs : j.entry # e) => Spare(e)
  /\ \A j \in jobs : process[j.worker] = "draining" => Spare(j.entry)

\* Nothing is delivered: jobs go on, or leave entries they can afford to leave.
LEMMA NothingDelivered ==
  ASSUME TypeOK, TypeOK', QueueInv, BuryInv, BudgetInv, UNCHANGED <<queue, cursor, deliveries, overran>>,
         pel' \subseteq pel, faults' >= faults,
         \A e \in Entry : e <= cursor => payload'[e] = payload[e],
         \A e \in pel' : \/ \A j \in jobs : j.entry # e
                         \/ \E k \in jobs' : k.entry = e
                         \/ Spare(e)
                         \/ faults' > faults,
         \A k \in jobs' : \/ process'[k.worker] # "draining"
                          \/ \E j \in jobs : j.entry = k.entry /\ process[j.worker] = "draining"
                          \/ k.entry \in Entry /\ faults' > faults
  PROVE  BudgetInv'
<1>1. /\ faults \in Nat /\ faults' \in Nat /\ MaxDelivery \in Nat /\ MaxDelivery > 0
      /\ cursor \in Nat /\ Entry \subseteq Nat
      /\ \A e \in Entry : deliveries[e] \in Nat /\ overran[e] \in Nat
  <2>1. faults' \in Nat
    BY DEF TypeOK
  <2> QED BY <2>1, Numbers
<1>2. ASSUME NEW e \in Entry
      PROVE  (Misrouted(e)' <=> Misrouted(e)) \/ deliveries[e] = 0
  <2>1. CASE e <= cursor
    BY <2>1 DEF Misrouted
  <2>2. CASE e > cursor
    BY <2>2 DEF BuryInv
  <2> QED BY <1>1, <2>1, <2>2
<1>2a. ASSUME NEW e \in Entry, deliveries[e] = 0
       PROVE  deliveries'[e] < MaxDelivery + faults' + overran'[e]
  <2>1. \A m, n, o \in Nat : m > 0 => 0 < m + n + o
    OBVIOUS
  <2>2. deliveries'[e] = 0 /\ overran'[e] \in Nat
    BY <1>1, <1>2a
  <2> QED BY <1>1, <2>1, <2>2
<1>3. ASSUME NEW e \in Entry PROVE Spare(e) => Spare(e)'
  <2>1. CASE Misrouted(e)'
    BY <2>1 DEF Spare
  <2>2. CASE deliveries[e] < MaxDelivery + faults + overran[e]
    <3>1. deliveries'[e] < MaxDelivery + faults' + overran'[e]
      BY <1>1, <2>2
    <3> QED BY <3>1 DEF Spare
  <2>3. CASE deliveries[e] = 0
    <3>1. deliveries'[e] < MaxDelivery + faults' + overran'[e]
      BY <1>2a, <2>3
    <3> QED BY <3>1 DEF Spare
  <2> QED BY <1>2, <2>1, <2>2, <2>3 DEF Spare
<1>4. ASSUME NEW e \in Entry, faults' > faults PROVE Spare(e)'
  <2>1. CASE Misrouted(e)
    <3>1. Spare(e)
      BY <2>1 DEF Spare
    <3> QED BY <1>3, <3>1
  <2>2. CASE deliveries[e] <= MaxDelivery + faults + overran[e]
    <3>1. deliveries'[e] < MaxDelivery + faults' + overran'[e]
      BY <1>1, <1>4, <2>2
    <3> QED BY <3>1 DEF Spare
  <2> QED BY <2>1, <2>2 DEF BudgetInv, RedeliveryBudget
<1>5. RedeliveryBudget'
  <2> SUFFICES ASSUME NEW e \in Entry, ~Misrouted(e)'
               PROVE  deliveries'[e] <= MaxDelivery + faults' + overran'[e]
    BY DEF RedeliveryBudget
  <2>1. CASE deliveries[e] = 0
    <3>1. deliveries'[e] < MaxDelivery + faults' + overran'[e] /\ deliveries'[e] \in Nat
      BY <1>1, <1>2a, <2>1
    <3> QED BY <1>1, <3>1
  <2>2. CASE ~Misrouted(e)
    <3>1. deliveries[e] <= MaxDelivery + faults + overran[e]
      BY <2>2 DEF BudgetInv, RedeliveryBudget
    <3> QED BY <1>1, <3>1
  <2> QED BY <1>2, <2>1, <2>2
<1>6. ASSUME NEW e \in pel', \A k \in jobs' : k.entry # e PROVE Spare(e)'
  <2>1. e \in pel /\ e \in Entry
    BY DEF TypeOK
  <2>2. (\A j \in jobs : j.entry # e) => Spare(e)
    BY <2>1 DEF BudgetInv
  <2> QED BY <1>3, <1>4, <1>6, <2>1, <2>2
<1>7. ASSUME NEW k \in jobs', process'[k.worker] = "draining" PROVE Spare(k.entry)'
  <2>1. CASE k.entry \in Entry /\ faults' > faults
    BY <1>4, <2>1
  <2>2. ASSUME NEW j \in jobs, j.entry = k.entry, process[j.worker] = "draining"
        PROVE  Spare(k.entry)'
    <3>1. Spare(j.entry) /\ j.entry \in Entry
      BY <2>2, JobFields DEF BudgetInv
    <3>2. k.entry \in Entry /\ Spare(k.entry)
      BY <2>2, <3>1 DEF Spare, Misrouted
    <3> QED BY <1>3, <3>2
  <2> QED BY <1>7, <2>1, <2>2
<1> QED BY <1>5, <1>6, <1>7 DEF BudgetInv

\* An entry is delivered once more, to a worker that is up or, at the price of
\* a disruption, to nobody.  Either it has a delivery to spare, or a job has it.
LEMMA DeliveredSpare ==
  ASSUME TypeOK, TypeOK', BudgetInv, NEW e \in Entry, Delivered(e),
         Spare(e) \/ \E j \in jobs : j.entry = e, UNCHANGED <<stream, process>>,
         \/ jobs' = jobs /\ faults' = faults + 1
         \/ /\ UNCHANGED faults
            /\ \E w \in Workers, lane \in Lanes :
                 process[w] = "up" /\ jobs' = jobs \cup {NewJob(w, e, lane)}
  PROVE  BudgetInv'
<1>1. /\ faults \in Nat /\ faults' \in Nat /\ faults' >= faults /\ MaxDelivery \in Nat
      /\ \A f \in Entry : deliveries[f] \in Nat /\ overran[f] \in Nat
  BY Numbers
<1>2. /\ \A f \in Entry : deliveries'[f] = IF f = e THEN deliveries[f] + 1 ELSE deliveries[f]
      /\ pel' = pel \cup {e}
      /\ \A f \in Entry : Misrouted(f)' <=> Misrouted(f)
  BY DEF Delivered, TypeOK, Misrouted, stream
<1>3. DEFINE held == \E j \in jobs : j.entry = e
<1>4. \A f \in Entry : overran'[f] = IF f = e /\ held THEN overran[f] + 1 ELSE overran[f]
  BY DEF Delivered, TypeOK
<1> HIDE DEF held
<1>5. ASSUME NEW f \in Entry, f # e \/ held PROVE Spare(f) => Spare(f)'
  BY <1>1, <1>2, <1>4, <1>5 DEF Spare
<1>6. ~Misrouted(e) => deliveries'[e] <= MaxDelivery + faults + overran'[e]
  <2>1. CASE held
    <3>1. ~Misrouted(e) => deliveries[e] <= MaxDelivery + faults + overran[e]
      BY DEF BudgetInv, RedeliveryBudget
    <3> QED BY <1>1, <1>2, <1>4, <2>1, <3>1
  <2>2. CASE Spare(e) /\ ~held
    BY <1>1, <1>2, <1>4, <2>2 DEF Spare
  <2> QED BY <2>1, <2>2 DEF held
<1>7. RedeliveryBudget'
  <2> SUFFICES ASSUME NEW f \in Entry, ~Misrouted(f)
               PROVE  deliveries'[f] <= MaxDelivery + faults' + overran'[f]
    BY <1>2 DEF RedeliveryBudget
  <2>0. overran'[f] \in Nat /\ deliveries'[f] \in Nat
    BY DEF TypeOK
  <2>1. CASE f = e
    BY <1>1, <1>6, <2>0, <2>1
  <2>2. CASE f # e
    <3>1. deliveries[f] <= MaxDelivery + faults + overran[f]
      BY DEF BudgetInv, RedeliveryBudget
    <3> QED BY <1>1, <1>2, <1>4, <2>2, <3>1
  <2> QED BY <2>1, <2>2
<1>8. faults' = faults + 1 => Spare(e)'
  <2> SUFFICES ASSUME faults' = faults + 1 PROVE Spare(e)'
    OBVIOUS
  <2>0. overran'[e] \in Nat /\ deliveries'[e] \in Nat
    BY DEF TypeOK
  <2>1. CASE Misrouted(e)
    BY <1>2, <2>1 DEF Spare
  <2>2. CASE ~Misrouted(e)
    <3>1. deliveries'[e] < MaxDelivery + faults' + overran'[e]
      BY <1>1, <1>6, <2>0, <2>2
    <3> QED BY <3>1 DEF Spare
  <2> QED BY <2>1, <2>2
<1>9. \A j \in jobs : j.entry \in Entry
  BY JobFields
<1>10. ASSUME NEW f \in pel', \A k \in jobs' : k.entry # f PROVE Spare(f)'
  <2>0. f \in Entry
    BY DEF TypeOK
  <2>1. CASE f = e
    <3>1. faults' = faults + 1
      <4>1. ASSUME NEW w \in Workers, NEW lane \in Lanes, jobs' = jobs \cup {NewJob(w, e, lane)}
            PROVE  FALSE
        BY <1>10, <2>1, <4>1, NewJobInv
      <4> QED BY <4>1
    <3> QED BY <1>8, <2>1, <3>1
  <2>2. CASE f # e
    <3>1. f \in pel /\ \A j \in jobs : j.entry # f
      BY <1>2, <1>10, <2>2
    <3> QED BY <1>5, <2>0, <2>2, <3>1 DEF BudgetInv
  <2> QED BY <2>1, <2>2
<1>11. ASSUME NEW k \in jobs', process'[k.worker] = "draining" PROVE Spare(k.entry)'
  <2>1. k \in jobs
    BY <1>11 DEF NewJob
  <2>2. Spare(k.entry) /\ (k.entry = e => held)
    BY <1>11, <2>1 DEF BudgetInv, held
  <2> QED BY <1>5, <1>9, <2>1, <2>2
<1> QED BY <1>7, <1>10, <1>11 DEF BudgetInv

\* A job goes on, or ends where it can afford to.
LEMMA JobStepSpare ==
  ASSUME TypeOK, TypeOK', QueueInv, BuryInv, BudgetInv, NEW j \in jobs,
         UNCHANGED <<stream, cursor, deliveries, overran>>, pel' \subseteq pel,
         \A w \in Workers : process'[w] = "draining" => process[w] = "draining",
         \/ faults' >= faults /\ \E s \in Steps : Continue(j, s)
         \/ faults' > faults /\ Finish(j)
         \/ faults' >= faults /\ Finish(j) /\ (j.entry \in pel' => Spare(j.entry))
  PROVE  BudgetInv'
<1>0. faults \in Nat /\ faults' \in Nat
  BY QueueAssumption DEF TypeOK
<1>1. \A k \in jobs' : \E i \in jobs : i.entry = k.entry /\ i.worker = k.worker
  BY ContinueFields DEF Finish
<1>2. \A k \in jobs' : \/ process'[k.worker] # "draining"
                       \/ \E i \in jobs : i.entry = k.entry /\ process[i.worker] = "draining"
  BY <1>1, JobFields
<1>3. ASSUME NEW s \in Steps, Continue(j, s) PROVE \E k \in jobs' : k.entry = j.entry
  <2>1. [j EXCEPT !.pc = s] \in jobs' /\ [j EXCEPT !.pc = s].entry = j.entry
    BY <1>3, JobFields DEF Continue, Job
  <2> QED BY <2>1
<1>4. \A i \in jobs : i # j => i \in jobs'
  BY DEF Continue, Finish
<1>5. \A e \in pel' : \/ \A i \in jobs : i.entry # e
                      \/ \E k \in jobs' : k.entry = e
                      \/ Spare(e)
                      \/ faults' > faults
  BY <1>3, <1>4
<1>6. faults' >= faults
  BY <1>0
<1> QED BY <1>2, <1>5, <1>6, NothingDelivered DEF stream

LEMMA BudgetInvNext ==
  ASSUME TypeOK, TypeOK', QueueInv, BuryInv, BudgetInv, [Next]_vars
  PROVE  BudgetInv'
<1> USE DEF group, graves
<1>0. /\ cursor \in Nat /\ faults \in Nat /\ MaxDelivery \in Nat /\ MaxDelivery > 0
      /\ Entry \subseteq Nat /\ \A e \in Entry : deliveries[e] \in Nat /\ overran[e] \in Nat
  BY Numbers
<1>1. ASSUME NEW p \in Payloads, Enqueue(p) PROVE BudgetInv'
  <2>1. UNCHANGED <<queue, cursor, deliveries, overran, pel, faults, jobs, process>>
    BY <1>1 DEF Enqueue
  <2>2. \A e \in Entry : e <= cursor => payload'[e] = payload[e]
    BY <1>1 DEF Enqueue, QueueInv, TypeOK, Entry
  <2>3. faults' >= faults
    BY <1>0, <2>1
  <2> QED BY <2>1, <2>2, <2>3, NothingDelivered
<1>2. ASSUME NEW w \in Workers, LoopStep(w) PROVE BudgetInv'
  <2>1. CASE ReadNew(w) \/ ReadReplyLost(w)
    <3>1. NextNew <= added /\ Delivered(NextNew) /\ UNCHANGED <<stream, process>>
      BY <2>1 DEF ReadNew, ReadReplyLost
    <3>2. NextNew \in Entry /\ NextNew > cursor
      BY <3>1, NextNewEntry
    <3>4. Spare(NextNew)
      <4>1. deliveries[NextNew] = 0
        BY <3>2 DEF BuryInv
      <4>2. \A m, n, o \in Nat : m > 0 => 0 < m + n + o
        OBVIOUS
      <4>3. overran[NextNew] \in Nat
        BY <1>0, <3>2
      <4>4. deliveries[NextNew] < MaxDelivery + faults + overran[NextNew]
        BY <1>0, <4>1, <4>2, <4>3
      <4> QED BY <4>4 DEF Spare
    <3>5. \/ jobs' = jobs /\ faults' = faults + 1
          \/ UNCHANGED faults /\ process[w] = "up"
             /\ jobs' = jobs \cup {NewJob(w, NextNew, "spawned")}
      BY <2>1 DEF ReadNew, ReadReplyLost, Disruption, LoopFree
    <3> QED BY <3>1, <3>2, <3>4, <3>5, DeliveredSpare DEF Lanes
  <2>2. CASE ClaimStale(w) \/ ClaimReplyLost(w)
    <3>1. PICK e \in Entry : /\ e \in Stale /\ Delivered(e)
                             /\ \/ jobs' = jobs /\ faults' = faults + 1
                                \/ UNCHANGED faults /\ process[w] = "up"
                                   /\ jobs' = jobs \cup {NewJob(w, e, "inline")}
      BY <2>2 DEF ClaimStale, ClaimReplyLost, Oldest, Disruption, LoopFree
    <3>2. UNCHANGED <<stream, process>>
      BY <2>2 DEF ClaimStale, ClaimReplyLost
    <3>3. Spare(e) \/ \E j \in jobs : j.entry = e
      BY <3>1 DEF Stale, BudgetInv
    <3> QED BY <3>1, <3>2, <3>3, DeliveredSpare DEF Lanes
  <2>3. CASE ClaimFindsTrimmed(w)
    <3>1. UNCHANGED <<stream, cursor, deliveries, overran, faults, jobs, process>> /\ pel' \subseteq pel
      BY <2>3 DEF ClaimFindsTrimmed
    <3>2. faults' >= faults
      BY <1>0, <3>1
    <3> QED BY <3>1, <3>2, NothingDelivered DEF stream
  <2> QED BY <1>2, <2>1, <2>2, <2>3 DEF LoopStep
<1>3. ASSUME NEW j \in jobs, JobStep(j) PROVE BudgetInv'
  <2>0. j.entry \in Entry
    BY JobFields
  <2>1. CASE RunReturns(j) \/ RunRaises(j) \/ DlqAdd(j)
    <3>1. /\ UNCHANGED <<stream, cursor, deliveries, overran, pel, process, faults>>
          /\ \E s \in Steps : Continue(j, s)
      BY <2>1 DEF RunReturns, RunRaises, DlqAdd, Steps
    <3>2. faults' >= faults
      BY <1>0, <3>1
    <3> QED BY <3>1, <3>2, JobStepSpare
  <2>2. CASE \/ RunCancelled(j) \/ AckFails(j) \/ CountFails(j) \/ DlqAddFails(j)
             \/ DlqAckFails(j)
    <3>1. UNCHANGED <<stream, cursor, deliveries, overran, pel>> /\ faults' = faults + 1 /\ Finish(j)
      BY <2>2 DEF RunCancelled, AckFails, CountFails, DlqAddFails, DlqAckFails, Disruption
    <3>2. \A w \in Workers : process'[w] = "draining" => process[w] = "draining"
      BY <2>2, JobFields DEF RunCancelled, AckFails, CountFails, DlqAddFails, DlqAckFails, TypeOK
    <3>3. faults' > faults
      BY <1>0, <3>1
    <3> QED BY <3>1, <3>2, <3>3, JobStepSpare
  <2>3. CASE Ack(j) \/ DlqAck(j)
    <3>1. /\ UNCHANGED <<stream, cursor, deliveries, overran, process, faults>> /\ pel' \subseteq pel
          /\ Finish(j) /\ (j.entry \in pel' => Misrouted(j.entry))
      BY <2>3 DEF Ack, DlqAck, Xack
    <3>2. faults' >= faults
      BY <1>0, <3>1
    <3> QED BY <3>1, <3>2, JobStepSpare DEF Spare
  <2>4. CASE CountAttempts(j)
    <3>1. UNCHANGED <<stream, cursor, deliveries, overran, pel, process, faults>>
      BY <2>4 DEF CountAttempts
    <3>2. faults' >= faults
      BY <1>0, <3>1
    <3>3. CASE Continue(j, "bury")
      BY <3>1, <3>2, <3>3, JobStepSpare DEF Steps
    <3>4. CASE ~(Attempts(j.entry) >= MaxDelivery) /\ Finish(j)
      <4>1. j.entry \in pel => deliveries[j.entry] < MaxDelivery + faults + overran[j.entry]
        <5>1. j.entry \in pel => ~(deliveries[j.entry] >= MaxDelivery)
          BY <3>4 DEF Attempts
        <5>2. \A e \in Entry :
                ~(deliveries[e] >= MaxDelivery) => deliveries[e] < MaxDelivery + faults + overran[e]
          BY <1>0
        <5> QED BY <2>0, <5>1, <5>2
      <4>2. j.entry \in pel' => Spare(j.entry)
        BY <3>1, <4>1 DEF Spare
      <4> QED BY <3>1, <3>2, <3>4, <4>2, JobStepSpare
    <3> QED BY <2>4, <3>3, <3>4 DEF CountAttempts
  <2> QED BY <1>3, <2>1, <2>2, <2>3, <2>4 DEF JobStep
<1>4. ASSUME NEW w \in Workers, ProcessStep(w) PROVE BudgetInv'
  <2>1. UNCHANGED <<stream, group>> /\ jobs' \subseteq jobs
    BY <1>4 DEF ProcessStep, Crash, Stop, Exit, Restart
  <2>2. CASE Crash(w) \/ Stop(w)
    <3>1. faults' = faults + 1
      BY <2>2 DEF Crash, Stop, Disruption
    <3>2. faults' > faults /\ faults' >= faults
      BY <1>0, <3>1
    <3>3. \A k \in jobs' : k.entry \in Entry
      BY <2>1, JobFields
    <3> QED BY <2>1, <3>2, <3>3, NothingDelivered DEF stream
  <2>3. CASE Exit(w)
    <3>1. /\ UNCHANGED faults /\ process[w] = "draining"
          /\ jobs' = {j \in jobs : j.worker # w}
          /\ process' = [process EXCEPT ![w] = "down"]
      BY <2>3 DEF Exit
    <3>2. \A j \in jobs : j \in jobs' \/ Spare(j.entry)
      BY <3>1 DEF BudgetInv
    <3>3. \A k \in jobs' : process'[k.worker] = "draining" => process[k.worker] = "draining"
      BY <3>1, JobFields DEF TypeOK
    <3>4. faults' >= faults
      BY <1>0, <3>1
    <3>5. \A e \in pel' : \/ \A j \in jobs : j.entry # e
                          \/ \E k \in jobs' : k.entry = e
                          \/ Spare(e)
      BY <3>2
    <3> QED BY <2>1, <3>3, <3>4, <3>5, NothingDelivered DEF stream
  <2>4. CASE Restart(w)
    <3>1. UNCHANGED <<faults, jobs>> /\ process' = [process EXCEPT ![w] = "up"]
      BY <2>4 DEF Restart
    <3>2. \A k \in jobs' : process'[k.worker] = "draining" => process[k.worker] = "draining"
      BY <3>1, JobFields DEF TypeOK
    <3>3. faults' >= faults
      BY <1>0, <3>1
    <3> QED BY <2>1, <3>1, <3>2, <3>3, NothingDelivered DEF stream
  <2> QED BY <1>4, <2>2, <2>3, <2>4 DEF ProcessStep
<1>5. CASE Tick
  <2>1. UNCHANGED <<stream, cursor, pel, deliveries, overran, process, faults>>
    BY <1>5 DEF Tick
  <2>2. \A k \in jobs' : \E j \in jobs : k.entry = j.entry /\ k.worker = j.worker
    BY <1>5, JobFields DEF Tick, Job
  <2>3. \A j \in jobs : \E k \in jobs' : k.entry = j.entry
    <3> SUFFICES ASSUME NEW j \in jobs PROVE \E k \in jobs' : k.entry = j.entry
      OBVIOUS
    <3>1. [j EXCEPT !.age = @ + 1] \in jobs' /\ [j EXCEPT !.age = @ + 1].entry = j.entry
      BY <1>5, JobFields DEF Tick, Job
    <3> QED BY <3>1
  <2>4. faults' >= faults
    BY <1>0, <2>1
  <2>5. \A k \in jobs' : \/ process'[k.worker] # "draining"
                         \/ \E j \in jobs : j.entry = k.entry /\ process[j.worker] = "draining"
    BY <2>1, <2>2
  <2>6. \A e \in pel' : (\A j \in jobs : j.entry # e) \/ \E k \in jobs' : k.entry = e
    BY <2>3
  <2> QED BY <2>1, <2>4, <2>5, <2>6, NothingDelivered DEF stream
<1>6. CASE UNCHANGED vars
  <2>1. faults' >= faults /\ UNCHANGED <<stream, cursor, deliveries, overran, pel, jobs, process>>
    BY <1>0, <1>6 DEF vars
  <2> QED BY <2>1, NothingDelivered DEF stream
<1> QED BY <1>1, <1>2, <1>3, <1>4, <1>5, <1>6 DEF Next

\* RedeliveryBudgetHolds: no entry is handed out more often than MAX_DELIVERY, the
\* disruptions and the runs that outlast the claim threshold account for, however
\* many workers claim from each other.
THEOREM RedeliveryBudgetHolds == Spec => []RedeliveryBudget
<1>1. Init => BudgetInv
  BY QueueAssumption DEF Init, BudgetInv, RedeliveryBudget
<1>2. TypeOK /\ TypeOK' /\ QueueInv /\ BuryInv /\ BudgetInv /\ [Next]_vars => BudgetInv'
  BY BudgetInvNext
<1>3. BudgetInv => RedeliveryBudget
  BY DEF BudgetInv
<1> QED BY <1>1, <1>2, <1>3, QueueAlways, PTL DEF Spec

-----------------------------------------------------------------------------
(* What a task is spared as long as nothing is disturbed and no run of it   *)
(* is overtaken by a claim.  Whoever has left a trace of e, a returned run  *)
(* or a copy in the DLQ, still has it in hand and is about to take it off   *)
(* the PEL.                                                                 *)

Clean(e) == e \notin returned /\ dlq[e] = 0

JobClean(j) ==
  \/ j.pc \in {"run", "count", "bury"} /\ Clean(j.entry)
  \/ j.pc = "ack"
  \/ j.pc = "buryack" /\ (Misrouted(j.entry) => Clean(j.entry))

Undisturbed(e) ==
  /\ dlq[e] <= 1
  /\ \A j \in jobs : j.entry = e => JobClean(j)
  /\ e \in pel /\ (\A j \in jobs : j.entry # e) => Clean(e)

RepeatInv ==
  faults = 0 =>
    /\ \A w \in Workers : process[w] # "draining"
    /\ \A e \in Entry : overran[e] = 0 => Undisturbed(e)

\* A step that leaves no trace of e: jobs keep theirs, and none leaves it.
LEMMA NoTrace ==
  ASSUME TypeOK, QueueInv, NEW e \in Entry, Undisturbed(e),
         UNCHANGED queue, dlq'[e] = dlq[e], e \in returned' <=> e \in returned,
         e \in pel' => e \in pel,
         e <= cursor => payload'[e] = payload[e],
         e \in pel' /\ (\A k \in jobs' : k.entry # e) =>
           (\A j \in jobs : j.entry # e) \/ Clean(e),
         \A k \in jobs' : k.entry = e => (\E j \in jobs : j.entry = e /\ j.pc = k.pc)
  PROVE  Undisturbed(e)'
<1>1. Clean(e)' <=> Clean(e)
  BY DEF Clean
<1>2. ASSUME NEW k \in jobs', k.entry = e PROVE JobClean(k)'
  <2>1. PICK j \in jobs : j.entry = e /\ j.pc = k.pc
    BY <1>2
  <2>2. JobClean(j) /\ e <= cursor
    BY <2>1 DEF Undisturbed, QueueInv, JobInv
  <2>3. Misrouted(e)' <=> Misrouted(e)
    BY <2>2 DEF Misrouted
  <2> QED BY <1>1, <1>2, <2>1, <2>2, <2>3 DEF JobClean
<1> QED BY <1>1, <1>2 DEF Undisturbed

\* The only job of e leaves a trace of it and goes on to s.
LEMMA LeavesTrace ==
  ASSUME TypeOK, NEW j \in jobs, \A k \in jobs : k.entry = j.entry => k = j,
         NEW s \in Steps, Continue(j, s), dlq'[j.entry] <= 1,
         \A k \in jobs' : k.entry = j.entry /\ k.pc = s => JobClean(k)'
  PROVE  Undisturbed(j.entry)'
<1>1. \A k \in jobs' : k.entry = j.entry => JobClean(k)'
  BY ContinueFields
<1>2. \E k \in jobs' : k.entry = j.entry
  <2>1. [j EXCEPT !.pc = s] \in jobs' /\ [j EXCEPT !.pc = s].entry = j.entry
    BY JobFields DEF Continue, Job
  <2> QED BY <2>1
<1> QED BY <1>1, <1>2 DEF Undisturbed

LEMMA RepeatInvNext ==
  ASSUME TypeOK, TypeOK', QueueInv, BuryInv, AgeInv, RepeatInv, [Next]_vars
  PROVE  RepeatInv'
<1> USE DEF group, graves
<1> DEFINE Whole == /\ \A w \in Workers : process'[w] # "draining"
                   /\ \A e \in Entry : overran'[e] = 0 => Undisturbed(e)'
<1>1. SUFFICES ASSUME faults' = 0 PROVE Whole
  BY DEF RepeatInv
<1>0. /\ faults \in Nat /\ cursor \in Nat /\ Entry \subseteq Nat /\ ~Disruption
      /\ \A e \in Entry : deliveries[e] \in Nat /\ dlq[e] \in Nat /\ overran[e] \in Nat
  BY <1>1, Numbers DEF Disruption
<1>2. faults = 0
  BY <1>0, <1>1
     DEF Next, Enqueue, LoopStep, ReadNew, ReadReplyLost, ClaimStale, ClaimReplyLost,
         ClaimFindsTrimmed, JobStep, RunReturns, RunRaises, RunCancelled, Ack, AckFails,
         CountAttempts, CountFails, DlqAdd, DlqAddFails, DlqAck, DlqAckFails, ProcessStep,
         Crash, Stop, Exit, Restart, Tick, vars
<1>3. /\ \A w \in Workers : process[w] # "draining"
      /\ \A e \in Entry : overran[e] = 0 => Undisturbed(e)
  BY <1>2 DEF RepeatInv
<1>4. ASSUME NEW p \in Payloads, Enqueue(p) PROVE Whole
  <2>1. UNCHANGED <<queue, dlq, returned, pel, jobs, process, overran>>
    BY <1>4 DEF Enqueue
  <2>2. \A e \in Entry : e <= cursor => payload'[e] = payload[e]
    BY <1>4 DEF Enqueue, QueueInv, TypeOK, Entry
  <2>3. ASSUME NEW e \in Entry, overran'[e] = 0 PROVE Undisturbed(e)'
    BY <1>3, <2>1, <2>2, <2>3, NoTrace
  <2> QED BY <1>3, <2>1, <2>3
\* An entry is handed out: no other is touched, and this one only if free.
<1>5. ASSUME NEW w \in Workers, NEW lane \in Lanes, NEW e \in Entry, Delivered(e),
             UNCHANGED <<stream, process, graves, returned>>,
             jobs' = jobs \cup {NewJob(w, e, lane)},
             overran[e] = 0 /\ (\A j \in jobs : j.entry # e) => Clean(e)
      PROVE  Whole
  <2>1. /\ NewJob(w, e, lane).entry = e /\ NewJob(w, e, lane).pc \in {"run", "bury"}
        /\ UNCHANGED <<queue, payload, dlq, returned>>
    BY <1>5 DEF NewJob, FirstStep, stream
  <2>2. ASSUME NEW f \in Entry, overran'[f] = 0, f # e PROVE Undisturbed(f)'
    <3>1. overran[f] = 0 /\ (f \in pel' => f \in pel)
      BY <1>5, <2>2 DEF Delivered, TypeOK
    <3>2. Undisturbed(f)
      BY <1>3, <3>1
    <3>3. \A k \in jobs' : k.entry = f => k \in jobs
      BY <1>5, <2>1, <2>2
    <3> QED BY <1>5, <2>1, <3>1, <3>2, <3>3, NoTrace
  <2>3. ASSUME overran'[e] = 0 PROVE Undisturbed(e)'
    <3>1. overran[e] = 0 /\ \A j \in jobs : j.entry # e
      BY <1>0, <1>5, <2>3 DEF Delivered, TypeOK
    <3>2. Clean(e) /\ (Clean(e)' <=> Clean(e))
      BY <1>5, <2>1, <3>1 DEF Clean
    <3>3. \A k \in jobs' : k.entry = e => k = NewJob(w, e, lane)
      BY <1>5, <3>1
    <3>4. \A k \in jobs' : k.entry = e => JobClean(k)'
      BY <2>1, <3>2, <3>3 DEF JobClean
    <3>5. dlq'[e] <= 1 /\ \E k \in jobs' : k.entry = e
      BY <1>5, <2>1, <3>2 DEF Clean
    <3> QED BY <3>4, <3>5 DEF Undisturbed
  <2> QED BY <1>3, <1>5, <2>2, <2>3
<1>6. ASSUME NEW w \in Workers, LoopStep(w) PROVE Whole
  <2>1. CASE ReadNew(w)
    <3>1. NextNew <= added
      BY <2>1 DEF ReadNew
    <3>2. NextNew \in Entry /\ Clean(NextNew)
      BY <1>0, <3>1, NextNewEntry DEF BuryInv, Clean
    <3>3. /\ Delivered(NextNew) /\ UNCHANGED <<stream, process, graves, returned>>
          /\ jobs' = jobs \cup {NewJob(w, NextNew, "spawned")}
      BY <2>1 DEF ReadNew
    <3> QED BY <1>5, <3>2, <3>3 DEF Lanes
  <2>2. CASE ClaimStale(w)
    <3>1. PICK e \in Entry : /\ e \in Stale /\ Delivered(e)
                             /\ jobs' = jobs \cup {NewJob(w, e, "inline")}
      BY <2>2 DEF ClaimStale, Oldest
    <3>2. UNCHANGED <<stream, process, graves, returned>>
      BY <2>2 DEF ClaimStale
    <3>3. overran[e] = 0 /\ (\A j \in jobs : j.entry # e) => Clean(e)
      BY <1>3, <3>1 DEF Stale, Undisturbed
    <3> QED BY <1>5, <3>1, <3>2, <3>3 DEF Lanes
  <2>3. CASE ClaimFindsTrimmed(w)
    <3>1. UNCHANGED <<stream, dlq, returned, jobs, process, overran>> /\ pel' \subseteq pel
      BY <2>3 DEF ClaimFindsTrimmed
    <3>2. ASSUME NEW e \in Entry, overran'[e] = 0 PROVE Undisturbed(e)'
      BY <1>3, <3>1, <3>2, NoTrace DEF stream
    <3> QED BY <1>3, <3>1, <3>2
  <2> QED BY <1>0, <1>6, <2>1, <2>2, <2>3 DEF LoopStep, ReadReplyLost, ClaimReplyLost
<1>7. ASSUME NEW j \in jobs, JobStep(j) PROVE Whole
  <2>0. /\ j \in Job /\ j.entry \in Entry
        /\ overran[j.entry] = 0 => /\ JobClean(j) /\ Undisturbed(j.entry)
                                  /\ \A k \in jobs : k.entry = j.entry => k = j
    BY <1>3, JobFields DEF Undisturbed, AgeInv
  \* The other entries, whatever j does.
  <2>1. ASSUME UNCHANGED <<stream, process, overran>>, pel' \subseteq pel,
               Finish(j) \/ \E s \in Steps : Continue(j, s),
               \A e \in Entry : e # j.entry => (e \in returned' <=> e \in returned) /\ dlq'[e] = dlq[e],
               overran[j.entry] = 0 => Undisturbed(j.entry)'
        PROVE  Whole
    <3>1. ASSUME NEW e \in Entry, overran'[e] = 0, e # j.entry PROVE Undisturbed(e)'
      <4>1. \A k \in jobs' : k.entry = e => k \in jobs
        BY <2>1, <3>1, ContinueFields DEF Finish
      <4>2. (\A k \in jobs' : k.entry # e) => \A i \in jobs : i.entry # e
        BY <2>1, <3>1 DEF Finish, Continue
      <4>3. overran[e] = 0 /\ Undisturbed(e)
        BY <1>3, <2>1, <3>1
      <4> QED BY <2>1, <3>1, <4>1, <4>2, <4>3, NoTrace DEF stream
    <3> QED BY <1>3, <2>1, <3>1
  \* A job that ends without a trace of its own.
  <2>2. ASSUME UNCHANGED <<stream, dlq, returned, process, overran>>, pel' \subseteq pel, Finish(j),
               overran[j.entry] = 0 /\ j.entry \in pel' => Clean(j.entry)
        PROVE  Whole
    <3>1. \A k \in jobs' : k \in jobs
      BY <2>2 DEF Finish
    <3>2. overran[j.entry] = 0 => Undisturbed(j.entry)'
      BY <2>0, <2>2, <3>1, NoTrace DEF stream
    <3> QED BY <2>1, <2>2, <3>2
  <2>3. CASE RunReturns(j)
    <3>1. /\ Continue(j, "ack") /\ UNCHANGED <<stream, pel, process, dlq, overran>>
          /\ returned' = returned \cup {j.entry}
      BY <2>3 DEF RunReturns
    <3>2. \A k \in jobs' : k.pc = "ack" => JobClean(k)'
      BY DEF JobClean
    <3>3. overran[j.entry] = 0 => dlq'[j.entry] <= 1
      BY <2>0, <3>1 DEF Undisturbed
    <3>4. overran[j.entry] = 0 => Undisturbed(j.entry)'
      BY <2>0, <3>1, <3>2, <3>3, LeavesTrace DEF Steps
    <3> QED BY <2>1, <3>1, <3>4 DEF Steps
  <2>4. CASE RunRaises(j)
    <3>1. /\ Continue(j, "count") /\ j.pc = "run"
          /\ UNCHANGED <<stream, pel, process, dlq, returned, overran>>
      BY <2>4 DEF RunRaises
    <3>2. overran[j.entry] = 0 =>
            /\ dlq'[j.entry] <= 1
            /\ \A k \in jobs' : k.entry = j.entry /\ k.pc = "count" => JobClean(k)'
      BY <2>0, <3>1 DEF JobClean, Clean, Undisturbed
    <3>3. overran[j.entry] = 0 => Undisturbed(j.entry)'
      BY <2>0, <3>1, <3>2, LeavesTrace DEF Steps
    <3> QED BY <2>1, <3>1, <3>3 DEF Steps
  <2>5. CASE Ack(j)
    <3>1. /\ UNCHANGED <<stream, dlq, returned, process, overran>> /\ pel' \subseteq pel
          /\ Finish(j) /\ j.entry \notin pel'
      BY <2>5 DEF Ack, Xack
    <3> QED BY <2>2, <3>1
  <2>6. CASE CountAttempts(j)
    <3>1. UNCHANGED <<stream, pel, process, dlq, returned, overran>> /\ j.pc = "count"
      BY <2>6 DEF CountAttempts
    <3>2. overran[j.entry] = 0 => Clean(j.entry) /\ dlq'[j.entry] <= 1
      BY <2>0, <3>1 DEF JobClean, Undisturbed
    <3>3. CASE Finish(j)
      BY <2>2, <3>1, <3>2, <3>3
    <3>4. CASE Continue(j, "bury")
      <4>1. overran[j.entry] = 0 =>
              \A k \in jobs' : k.entry = j.entry /\ k.pc = "bury" => JobClean(k)'
        BY <3>1, <3>2 DEF JobClean, Clean
      <4>2. overran[j.entry] = 0 => Undisturbed(j.entry)'
        BY <2>0, <3>2, <3>4, <4>1, LeavesTrace DEF Steps
      <4> QED BY <2>1, <3>1, <3>4, <4>2 DEF Steps
    <3> QED BY <2>6, <3>3, <3>4 DEF CountAttempts
  <2>7. CASE DlqAdd(j)
    <3>1. /\ Continue(j, "buryack") /\ UNCHANGED <<stream, pel, process, returned, overran>>
          /\ WriteDlq(j.entry) /\ j.pc = "bury"
      BY <2>7 DEF DlqAdd
    <3>2. overran[j.entry] = 0 => Clean(j.entry)
      BY <2>0, <3>1 DEF JobClean
    <3>3. \A e \in Entry : e # j.entry => dlq'[e] = dlq[e]
      BY <3>1 DEF WriteDlq, TypeOK
    <3>4. overran[j.entry] = 0 => dlq'[j.entry] <= 1 /\ (Misrouted(j.entry) => dlq'[j.entry] = 0)
      BY <2>0, <3>1, <3>2 DEF WriteDlq, TypeOK, Clean
    <3>5. overran[j.entry] = 0 =>
            \A k \in jobs' : k.entry = j.entry /\ k.pc = "buryack" => JobClean(k)'
      BY <3>1, <3>2, <3>4 DEF JobClean, Clean, Misrouted, stream
    <3>6. overran[j.entry] = 0 => Undisturbed(j.entry)'
      BY <2>0, <3>1, <3>4, <3>5, LeavesTrace DEF Steps
    <3> QED BY <2>1, <3>1, <3>3, <3>6 DEF Steps
  <2>8. CASE DlqAck(j)
    <3>1. /\ UNCHANGED <<stream, dlq, returned, process, overran>> /\ pel' \subseteq pel
          /\ Finish(j) /\ (j.entry \in pel' => Misrouted(j.entry)) /\ j.pc = "buryack"
      BY <2>8 DEF DlqAck, Xack
    <3>2. overran[j.entry] = 0 /\ j.entry \in pel' => Clean(j.entry)
      BY <2>0, <3>1 DEF JobClean
    <3> QED BY <2>2, <3>1, <3>2
  <2> QED BY <1>0, <1>7, <2>3, <2>4, <2>5, <2>6, <2>7, <2>8
          DEF JobStep, RunCancelled, AckFails, CountFails, DlqAddFails, DlqAckFails
<1>8. ASSUME NEW w \in Workers, ProcessStep(w) PROVE Whole
  <2>1. Restart(w)
    BY <1>0, <1>3, <1>8 DEF ProcessStep, Crash, Stop, Exit
  <2>2. /\ UNCHANGED <<stream, pel, dlq, returned, jobs, overran>>
        /\ process' = [process EXCEPT ![w] = "up"]
    BY <2>1 DEF Restart
  <2>3. \A v \in Workers : process'[v] # "draining"
    BY <1>3, <2>2 DEF TypeOK
  <2>4. ASSUME NEW e \in Entry, overran'[e] = 0 PROVE Undisturbed(e)'
    BY <1>3, <2>2, <2>4, NoTrace DEF stream
  <2> QED BY <2>3, <2>4
<1>9. CASE Tick
  <2>1. UNCHANGED <<stream, pel, dlq, returned, process, overran>>
    BY <1>9 DEF Tick
  <2>2. \A k \in jobs' : \E j \in jobs : k.entry = j.entry /\ k.pc = j.pc
    BY <1>9, JobFields DEF Tick, Job
  <2>3. \A j \in jobs : \E k \in jobs' : k.entry = j.entry
    <3> SUFFICES ASSUME NEW j \in jobs PROVE \E k \in jobs' : k.entry = j.entry
      OBVIOUS
    <3>1. [j EXCEPT !.age = @ + 1] \in jobs' /\ [j EXCEPT !.age = @ + 1].entry = j.entry
      BY <1>9, JobFields DEF Tick, Job
    <3> QED BY <3>1
  <2>4. ASSUME NEW e \in Entry, overran'[e] = 0 PROVE Undisturbed(e)'
    <3>1. Undisturbed(e)
      BY <1>3, <2>1, <2>4
    <3>2. \A k \in jobs' : k.entry = e => \E j \in jobs : j.entry = e /\ j.pc = k.pc
      BY <2>2
    <3>3. (\A k \in jobs' : k.entry # e) => \A j \in jobs : j.entry # e
      BY <2>3
    <3> QED BY <2>1, <3>1, <3>2, <3>3, NoTrace DEF stream
  <2> QED BY <1>3, <2>1, <2>4
<1>10. CASE UNCHANGED vars
  <2>1. UNCHANGED <<stream, pel, dlq, returned, process, jobs, overran>>
    BY <1>10 DEF vars
  <2>2. ASSUME NEW e \in Entry, overran'[e] = 0 PROVE Undisturbed(e)'
    BY <1>3, <2>1, <2>2, NoTrace DEF stream
  <2> QED BY <1>3, <2>1, <2>2
<1> QED BY <1>4, <1>6, <1>7, <1>8, <1>9, <1>10 DEF Next

\* RepeatOnlyAfterFaultHolds: as long as nothing is disturbed, a task none of
\* whose runs is overtaken by a claim is not run after its run returned or after
\* it went to the DLQ, and is not buried twice.
THEOREM RepeatOnlyAfterFaultHolds == Spec => []RepeatOnlyAfterFault
<1>1. Init => AgeInv /\ RepeatInv
  BY DEF Init, AgeInv, OverlapsOnlyOverrun, RepeatInv, Undisturbed
<1>2. TypeOK /\ QueueInv /\ AgeInv /\ [Next]_vars => AgeInv'
  BY AgeInvNext
<1>3. TypeOK /\ TypeOK' /\ QueueInv /\ BuryInv /\ AgeInv /\ RepeatInv /\ [Next]_vars => RepeatInv'
  BY RepeatInvNext
<1>4. RepeatInv => RepeatOnlyAfterFault
  BY DEF RepeatInv, Undisturbed, JobClean, Clean, RepeatOnlyAfterFault
<1> QED BY <1>1, <1>2, <1>3, <1>4, QueueAlways, PTL DEF Spec

-----------------------------------------------------------------------------
(* The fleet implements AtLeastOnceQueue.  Each command either leaves the   *)
(* fates as they are or is one step of the abstract queue.                  *)

Fate   == [e \in Entry |-> FateOf(e)]
Buried == {e \in Entry : dlq[e] > 0 \/ foreignDlq[e] > 0}

\* The fate of an entry, read off its place in the stream and in the PEL.
LEMMA FateIs ==
  ASSUME TypeOK, QueueInv, NEW e \in Entry
  PROVE  /\ Fate[e] = FateOf(e)
         /\ FateOf(e) = "absent"   <=> e > added
         /\ FateOf(e) = "finished" <=> settled[e] = "run"
         /\ FateOf(e) = "dead"     <=> settled[e] = "dlq"
         /\ FateOf(e) = "waiting"  <=> settled[e] = "no" /\ Waiting(e)
         /\ FateOf(e) \in {"absent", "finished", "dead", "waiting", "lost"}
<1>1. /\ e \in Nat /\ added \in Nat /\ cursor \in Nat /\ cursor <= added
      /\ settled[e] \in {"no", "run", "dlq"} /\ (settled[e] # "no" => e <= cursor)
  <2>1. e \in Nat /\ added \in Nat /\ cursor \in Nat
    BY QueueAssumption DEF TypeOK, Entry
  <2> QED BY <2>1 DEF TypeOK, QueueInv, EntryInv
<1>2. CASE e > added
  BY <1>1, <1>2 DEF Fate, FateOf, Waiting
<1>3. CASE e <= added
  BY <1>1, <1>3 DEF Fate, FateOf, Waiting
<1> QED BY <1>1, <1>2, <1>3

\* A step that moves no entry, and leaves nothing an entry could be known by.
LEMMA SameFates ==
  ASSUME UNCHANGED <<added, settled>>,
         \A e \in Entry : Waiting(e)' <=> Waiting(e)
  PROVE  Fate' = Fate
<1>1. ASSUME NEW e \in Entry PROVE FateOf(e)' = FateOf(e)
  BY <1>1 DEF FateOf
<1> QED BY <1>1 DEF Fate

\* Exactly one entry, which was waiting, has left.
LEMMA OneSettles ==
  ASSUME TypeOK, TypeOK', QueueInv, QueueInv', NEW e \in Entry, NEW how \in {"finished", "dead", "lost"},
         UNCHANGED <<returned, dlq, foreignDlq>>,
         Fate' = [Fate EXCEPT ![e] = how], FateOf(e) = "waiting",
         \/ how = "finished" /\ e \in returned
         \/ how = "dead" /\ dlq[e] > 0
         \/ how = "lost" /\ e + StreamMax <= added /\ added \in Entry
  PROVE  Promise!Settle(e, how)
<1>1. Fate[e] = "waiting"
  BY FateIs
<1>2. how = "lost" => \E f \in Entry : Fate[f] # "absent" /\ e + StreamMax <= f
  <2>1. added \in Entry => Fate[added] # "absent"
    BY FateIs DEF Entry
  <2> QED BY <2>1
<1>3. how = "dead" => e \in Buried
  BY DEF Buried
<1> QED BY <1>1, <1>2, <1>3 DEF Promise!Settle, Fate, Buried

LEMMA EnqueueRefines ==
  ASSUME TypeOK, TypeOK', QueueInv, QueueInv', NEW p \in Payloads, Enqueue(p)
  PROVE  Promise!Submit
<1> DEFINE n == added + 1
           out == {e \in Entry : FateOf(e) = "waiting" /\ ~Waiting(e)'}
<1>1. /\ n \in Entry /\ added' = n /\ n \in Nat /\ added \in Nat /\ cursor \in Nat
      /\ UNCHANGED <<cursor, pel, settled, returned, dlq, foreignDlq>>
  BY QueueAssumption DEF Enqueue, TypeOK, Entry, group, graves
<1>2. Entry \subseteq Nat /\ trimmed \in Nat /\ trimmed' \in Nat /\ trimmed' >= trimmed
      /\ trimmed' <= Larger(trimmed, added + 1 - StreamMax)
  BY QueueAssumption DEF Enqueue, TypeOK, Entry, Larger
<1>3. Fate[n] = "absent" /\ \A f \in Entry : f < n => Fate[f] # "absent"
  BY <1>1, <1>2, FateIs
<1>4. \A f \in out : Fate[f] = "waiting" /\ f + StreamMax <= n
  <2> SUFFICES ASSUME NEW f \in out PROVE Fate[f] = "waiting" /\ f + StreamMax <= n
    OBVIOUS
  <2>1. f \in Entry /\ Waiting(f) /\ ~Waiting(f)'
    BY FateIs
  <2>2. f <= trimmed'
    BY <1>1, <1>2, <2>1 DEF Waiting
  <2>3. EntryInv(f)'
    BY <2>1 DEF QueueInv
  <2>4. f + StreamMax <= n
    BY <1>1, <2>2, <2>3 DEF EntryInv
  <2> QED BY <2>1, <2>4, FateIs
<1>5. ASSUME NEW f \in Entry
      PROVE  FateOf(f)' = IF f = n THEN "waiting" ELSE IF f \in out THEN "lost" ELSE FateOf(f)
  <2>0. EntryInv(f) /\ EntryInv(f)'
    BY DEF QueueInv
  <2>1. CASE f = n
    <3>1. settled[f] = "no" /\ f > cursor /\ f > trimmed' /\ f <= added'
      BY <1>1, <1>2, <2>0, <2>1, QueueAssumption DEF QueueInv, EntryInv, TypeOK
    <3>2. settled'[f] = "no" /\ Waiting(f)' /\ f <= added' /\ ~(f > added')
      BY <1>1, <1>2, <3>1 DEF Waiting
    <3> QED BY <2>1, <3>2 DEF FateOf
  <2>2. CASE f # n /\ f \in out
    <3>1. settled[f] = "no" /\ f <= added /\ ~Waiting(f)'
      BY <2>2, FateIs DEF Waiting
    <3>2. settled'[f] = "no" /\ ~(f > added') /\ f <= added'
      BY <1>1, <1>2, <3>1
    <3> QED BY <2>2, <3>1, <3>2 DEF FateOf
  <2>3. CASE f # n /\ f \notin out
    <3>1. (f > added' <=> f > added) /\ (f <= added' <=> f <= added)
      BY <1>1, <1>2, <2>3
    <3>2. Waiting(f)' => Waiting(f)
      BY <1>1, <1>2, <2>3 DEF Waiting
    <3>3. Waiting(f) => Waiting(f)'
      <4> SUFFICES ASSUME Waiting(f), ~Waiting(f)' PROVE FALSE
        OBVIOUS
      <4>1. f > cursor
        BY <1>1, <3>1 DEF Waiting
      <4>2. ~(f <= cursor)
        BY <1>1, <1>2, <4>1
      <4>3. settled[f] = "no"
        BY <2>0, <4>2 DEF EntryInv
      <4>4. FateOf(f) = "waiting"
        BY <4>3, FateIs
      <4>5. f \in out
        BY <4>4
      <4> QED BY <2>3, <4>5
    <3>4. settled' = settled /\ (Waiting(f)' <=> Waiting(f))
      BY <1>1, <3>2, <3>3
    <3>5. settled[f] \in {"no", "run", "dlq"} /\ (f > added => settled[f] = "no")
      <4>1. settled[f] # "no" => f <= cursor
        BY <2>0 DEF EntryInv
      <4> QED BY <1>1, <1>2, <4>1 DEF TypeOK, QueueInv
    <3>6. FateOf(f)' = FateOf(f)
      <4>1. CASE f <= added
        <5>1. f <= added' /\ ~(f > added) /\ ~(f > added')
          BY <1>1, <1>2, <3>1, <4>1
        <5> QED BY <3>4, <3>5, <4>1, <5>1 DEF FateOf
      <4>2. CASE f > added
        <5>1. f > added' /\ ~(f <= added) /\ ~(f <= added')
          BY <1>1, <1>2, <3>1, <4>2
        <5> QED BY <3>4, <3>5, <4>2, <5>1 DEF FateOf
      <4> QED BY <1>1, <1>2, <4>1, <4>2
    <3> QED BY <2>3, <3>6
  <2> QED BY <2>1, <2>2, <2>3
<1>6. Fate' = [f \in Entry |-> IF f = n THEN "waiting" ELSE IF f \in out THEN "lost" ELSE Fate[f]]
  <2>1. \A f \in Entry : Fate[f] = FateOf(f)
    BY DEF Fate
  <2> HIDE DEF n, out
  <2> QED BY <1>5, <2>1 DEF Fate
<1>7. Buried' = Buried
  BY <1>1 DEF Buried
<1>8. out \in SUBSET Entry
  OBVIOUS
<1> HIDE DEF n, out
<1> QED BY <1>1, <1>3, <1>4, <1>6, <1>7, <1>8 DEF Promise!Submit, Fate, Buried

\* An acknowledgement with a reason settles a waiting entry; another is nothing.
LEMMA XackRefines ==
  ASSUME TypeOK, TypeOK', QueueInv, QueueInv', NEW e \in Entry, NEW how \in {"run", "dlq"},
         Xack(e, how), how = "run" => e \in returned, how = "dlq" => dlq[e] > 0,
         UNCHANGED <<added, trimmed, returned, dlq, foreignDlq>>
  PROVE  Promise!ANext \/ UNCHANGED Promise!avars
<1> DEFINE fate == IF how = "run" THEN "finished" ELSE "dead"
<1>1. UNCHANGED cursor /\ EntryInv(e)
  BY DEF Xack, QueueInv
<1>2. CASE e \in pel
  <2>1. settled[e] = "no" /\ Waiting(e) /\ e <= added
    <3>1. settled[e] = "no" /\ e <= cursor
      BY <1>1, <1>2 DEF EntryInv
    <3>2. e <= added
      BY <3>1, QueueAssumption DEF QueueInv, TypeOK, Entry
    <3> QED BY <1>2, <3>1, <3>2 DEF Waiting
  <2>2. settled' = [settled EXCEPT ![e] = how] /\ pel' = pel \ {e}
    BY <1>2 DEF Xack
  <2>3. ASSUME NEW f \in Entry, f # e PROVE FateOf(f)' = FateOf(f)
    <3>1. settled'[f] = settled[f] /\ (f \in pel' <=> f \in pel)
      BY <2>2, <2>3 DEF TypeOK
    <3>2. Waiting(f)' <=> Waiting(f)
      BY <1>1, <3>1 DEF Waiting
    <3> QED BY <3>1, <3>2 DEF FateOf
  <2>4. FateOf(e)' = fate
    <3>1. settled'[e] = how /\ ~(e > added') /\ e <= added'
      BY <2>1, <2>2, QueueAssumption DEF TypeOK, Entry
    <3> QED BY <3>1 DEF FateOf
  <2>5. Fate' = [Fate EXCEPT ![e] = fate]
    <3> HIDE DEF fate
    <3> QED BY <2>3, <2>4 DEF Fate
  <2>6. FateOf(e) = "waiting"
    BY <2>1, FateIs
  <2>7. Promise!Settle(e, fate)
    <3>1. \/ fate = "finished" /\ e \in returned
          \/ fate = "dead" /\ dlq[e] > 0
      OBVIOUS
    <3>2. fate \in {"finished", "dead", "lost"}
      OBVIOUS
    <3> HIDE DEF fate
    <3> QED BY <2>5, <2>6, <3>1, <3>2, OneSettles
  <2> QED BY <2>7 DEF Promise!ANext
<1>3. CASE e \notin pel
  <2>1. UNCHANGED <<pel, settled>>
    BY <1>3 DEF Xack
  <2>2. \A f \in Entry : Waiting(f)' <=> Waiting(f)
    BY <1>1, <2>1 DEF Waiting
  <2>3. Fate' = Fate
    BY <2>1, <2>2, SameFates
  <2>4. Buried' = Buried
    BY DEF Buried
  <2> QED BY <2>3, <2>4 DEF Promise!avars, Fate, Buried
<1> QED BY <1>2, <1>3

\* A copy in a dead-letter stream: the first one buries the entry.
LEMMA WriteDlqRefines ==
  ASSUME TypeOK, QueueInv, NEW e \in Entry, e <= cursor, WriteDlq(e),
         UNCHANGED <<added, trimmed, cursor, pel, settled, returned>>
  PROVE  Promise!ANext
<1>1. Fate' = Fate
  <2>1. \A f \in Entry : Waiting(f)' <=> Waiting(f)
    BY DEF Waiting
  <2> QED BY <2>1, SameFates
<1>2. Buried' = Buried \cup {e}
  <2>1. \A f \in Entry : dlq[f] \in Nat /\ foreignDlq[f] \in Nat
    BY DEF TypeOK
  <2>2. \A f \in Entry : f # e => dlq'[f] = dlq[f] /\ foreignDlq'[f] = foreignDlq[f]
    BY DEF TypeOK, WriteDlq
  <2>3. dlq'[e] > 0 \/ foreignDlq'[e] > 0
    BY <2>1 DEF TypeOK, WriteDlq
  <2> QED BY <2>2, <2>3 DEF Buried
<1>3. Fate[e] # "absent"
  <2>1. ~(e > added)
    BY QueueAssumption DEF QueueInv, TypeOK, Entry
  <2> QED BY <2>1, FateIs
<1>4. Promise!Bury(e)
  BY <1>1, <1>2, <1>3 DEF Promise!Bury, Fate, Buried
<1> QED BY <1>4 DEF Promise!ANext

\* KeepsPromiseHolds: the fleet of workers, with its claims, counts, crashes and
\* lost replies, implements the at-least-once queue.
THEOREM KeepsPromiseHolds == Spec => KeepsPromise
<1> USE DEF stream, group, graves
<1>1. Init => Promise!AInit
  <2> SUFFICES ASSUME Init PROVE Promise!AInit
    OBVIOUS
  <2>1. \A e \in Entry : FateOf(e) = "absent"
    <3>1. \A e \in Entry : e > added /\ ~(e <= added) /\ settled[e] = "no"
      BY DEF Init, Entry
    <3> QED BY <3>1 DEF FateOf
  <2>2. Fate = [e \in Entry |-> "absent"]
    BY <2>1 DEF Fate
  <2>3. Buried = {} /\ returned = {}
    BY DEF Init, Buried
  <2> QED BY <2>2, <2>3 DEF Promise!AInit, Fate, Buried
<1>2. TypeOK /\ TypeOK' /\ QueueInv /\ QueueInv' /\ [Next]_vars => [Promise!ANext]_(Promise!avars)
  <2> SUFFICES ASSUME TypeOK, TypeOK', QueueInv, QueueInv', [Next]_vars
               PROVE  Promise!ANext \/ UNCHANGED Promise!avars
    OBVIOUS
  \* Steps the promise does not see.
  <2>0. ASSUME UNCHANGED <<added, settled, returned, dlq, foreignDlq>>,
               \A e \in Entry : Waiting(e)' <=> Waiting(e)
        PROVE  UNCHANGED Promise!avars
    <3>1. Fate' = Fate
      BY <2>0, SameFates
    <3>2. Buried' = Buried
      BY <2>0 DEF Buried
    <3> QED BY <2>0, <3>1, <3>2 DEF Promise!avars, Fate, Buried
  <2>1. ASSUME UNCHANGED <<added, trimmed, cursor, pel, settled, returned, dlq, foreignDlq>>
        PROVE  UNCHANGED Promise!avars
    BY <2>0, <2>1 DEF Waiting
  <2>2. ASSUME NEW p \in Payloads, Enqueue(p) PROVE Promise!ANext
    BY <2>2, EnqueueRefines DEF Promise!ANext
  <2>3. ASSUME NEW w \in Workers, LoopStep(w) PROVE Promise!ANext \/ UNCHANGED Promise!avars
    <3>1. CASE ReadNew(w) \/ ReadReplyLost(w)
      <4>1. /\ NextNew <= added /\ cursor' = NextNew /\ pel' = pel \cup {NextNew}
            /\ UNCHANGED <<added, trimmed, settled, returned, dlq, foreignDlq>>
        BY <3>1 DEF ReadNew, ReadReplyLost, Delivered
      <4>2. NextNew \in Entry /\ cursor < NextNew /\ trimmed < NextNew
        BY <4>1, NextNewEntry
      <4>3. ASSUME NEW e \in Entry PROVE Waiting(e)' <=> Waiting(e)
        <5>1. e > NextNew <=> e > cursor /\ e > trimmed /\ e # NextNew
          BY <4>2, QueueAssumption DEF NextNew, Larger, TypeOK, Entry
        <5>2. e > NextNew => e > trimmed
          BY <5>1
        <5>3. NextNew > cursor /\ NextNew > trimmed
          BY <4>2, QueueAssumption DEF TypeOK, Entry
        <5> HIDE DEF NextNew
        <5> QED BY <4>1, <5>1, <5>2, <5>3 DEF Waiting
      <4> QED BY <2>0, <4>1, <4>3
    <3>2. CASE ClaimStale(w) \/ ClaimReplyLost(w)
      <4>1. PICK e \in pel : Delivered(e)
        BY <3>2 DEF ClaimStale, ClaimReplyLost, Oldest, Stale
      <4>2. pel' = pel /\ UNCHANGED <<added, trimmed, cursor, settled, returned, dlq, foreignDlq>>
        BY <3>2, <4>1 DEF ClaimStale, ClaimReplyLost, Delivered
      <4> QED BY <2>1, <4>2
    <3>3. CASE ClaimFindsTrimmed(w)
      <4> PICK e \in Entry : e \in pel /\ e <= trimmed /\ pel' = pel \ {e}
        BY <3>3 DEF ClaimFindsTrimmed, Oldest, Gone
      <4>1. UNCHANGED <<added, trimmed, cursor, settled, returned, dlq, foreignDlq>>
        BY <3>3 DEF ClaimFindsTrimmed
      <4>2. settled[e] = "no" /\ e <= cursor /\ e <= added /\ e + StreamMax <= added
        <5>1. settled[e] = "no" /\ e <= cursor /\ e + StreamMax <= added
          BY DEF QueueInv, EntryInv
        <5> QED BY <5>1, QueueAssumption DEF QueueInv, TypeOK, Entry
      <4>3. added \in Entry
        BY <4>2, QueueAssumption DEF TypeOK, Entry
      <4>4. Waiting(e) /\ ~Waiting(e)'
        BY <4>1, <4>2, QueueAssumption DEF Waiting, TypeOK, Entry
      <4>5. ASSUME NEW f \in Entry, f # e PROVE FateOf(f)' = FateOf(f)
        <5>1. Waiting(f)' <=> Waiting(f)
          BY <4>1, <4>5 DEF Waiting
        <5> QED BY <4>1, <5>1 DEF FateOf
      <4>6. FateOf(e)' = "lost"
        <5>1. settled'[e] = "no" /\ e <= added' /\ ~(e > added')
          BY <4>1, <4>2, QueueAssumption DEF TypeOK, Entry
        <5> QED BY <4>4, <5>1 DEF FateOf
      <4>7. Fate' = [Fate EXCEPT ![e] = "lost"] /\ FateOf(e) = "waiting"
        BY <4>2, <4>4, <4>5, <4>6, FateIs DEF Fate
      <4>8. Promise!Settle(e, "lost")
        BY <4>1, <4>2, <4>3, <4>7, OneSettles
      <4> QED BY <4>8 DEF Promise!ANext
    <3> QED BY <2>3, <3>1, <3>2, <3>3 DEF LoopStep
  <2>4. ASSUME NEW j \in jobs, JobStep(j) PROVE Promise!ANext \/ UNCHANGED Promise!avars
    <3>0. j.entry \in Entry /\ JobInv(j) /\ j.entry <= cursor
      BY JobFields DEF QueueInv, JobInv
    <3>1. CASE RunReturns(j)
      <4>1. /\ returned' = returned \cup {j.entry}
            /\ UNCHANGED <<added, trimmed, cursor, pel, settled, dlq, foreignDlq>>
        BY <3>1 DEF RunReturns
      <4>2. \A e \in Entry : Waiting(e)' <=> Waiting(e)
        BY <4>1 DEF Waiting
      <4>3. Fate' = Fate /\ Buried' = Buried
        BY <4>1, <4>2, SameFates DEF Buried
      <4>4. Fate[j.entry] # "absent"
        <5>1. ~(j.entry > added)
          BY <3>0, QueueAssumption DEF QueueInv, TypeOK, Entry
        <5> QED BY <3>0, <5>1, FateIs
      <4>5. Promise!RunReturned(j.entry)
        BY <4>1, <4>3, <4>4 DEF Promise!RunReturned, Fate, Buried
      <4> QED BY <3>0, <4>5 DEF Promise!ANext
    <3>2. CASE Ack(j)
      <4>1. Xack(j.entry, "run") /\ j.entry \in returned
            /\ UNCHANGED <<added, trimmed, returned, dlq, foreignDlq>>
        BY <3>0, <3>2 DEF Ack, JobInv
      <4> QED BY <3>0, <4>1, XackRefines
    <3>3. CASE DlqAdd(j) \/ (DlqAddFails(j) /\ WriteDlq(j.entry))
      <4>1. WriteDlq(j.entry) /\ UNCHANGED <<added, trimmed, cursor, pel, settled, returned>>
        BY <3>3 DEF DlqAdd, DlqAddFails
      <4> QED BY <3>0, <4>1, WriteDlqRefines
    <3>4. CASE DlqAck(j) /\ ~Misrouted(j.entry)
      <4>1. Xack(j.entry, "dlq") /\ dlq[j.entry] > 0
            /\ UNCHANGED <<added, trimmed, returned, dlq, foreignDlq>>
        BY <3>0, <3>4 DEF DlqAck, JobInv
      <4> QED BY <3>0, <4>1, XackRefines
    <3>5. CASE \/ RunRaises(j) \/ RunCancelled(j) \/ AckFails(j) \/ CountAttempts(j)
               \/ CountFails(j) \/ DlqAckFails(j)
               \/ DlqAddFails(j) /\ UNCHANGED <<dlq, foreignDlq>>
               \/ DlqAck(j) /\ Misrouted(j.entry)
      BY <2>1, <3>5 DEF RunRaises, RunCancelled, AckFails, CountAttempts, CountFails,
                        DlqAckFails, DlqAddFails, DlqAck
    <3> QED BY <2>4, <3>1, <3>2, <3>3, <3>4, <3>5 DEF JobStep, DlqAddFails
  <2>5. ASSUME NEW w \in Workers, ProcessStep(w) PROVE UNCHANGED Promise!avars
    BY <2>1, <2>5 DEF ProcessStep, Crash, Stop, Exit, Restart
  <2>6. CASE Tick \/ UNCHANGED vars
    BY <2>1, <2>6 DEF Tick, vars
  <2> QED BY <2>2, <2>3, <2>4, <2>5, <2>6 DEF Next
<1>3. TypeOK /\ QueueInv /\ [Next]_vars => QueueInv'
  BY QueueInvNext
<1> QED BY <1>1, <1>2, <1>3, QueueInvInit, TypeCorrect, PTL DEF Spec, KeepsPromise, Promise!ASpec
=============================================================================
