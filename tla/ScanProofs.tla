----------------------------- MODULE ScanProofs ------------------------------
(***************************************************************************)
(* What becomes of scan tasks.  Part one: a vulnerability scan, for every  *)
(* set of agents and engines, every number of deliveries, cancel and       *)
(* delete calls and disruptions.  Part two: asset scans, for every number  *)
(* of tasks, hosts, deliveries, calls and faults.                          *)
(***************************************************************************)
EXTENDS VulnScan, AssetScan, FiniteSetTheorems, TLAPS

-----------------------------------------------------------------------------
(* Counting the lanes and the sends *)

Lanes == IF engine = "global" THEN 2 ELSE 1

LEMMA LaneCount ==
  ASSUME engine \in Engines
  PROVE  /\ IsFiniteSet(LanesOf(engine))
         /\ Lanes = Cardinality(LanesOf(engine)) /\ Lanes \in 1 .. 2
<1>1. CASE engine = "global"
  <2>1. /\ IsFiniteSet({"matcher"}) /\ Cardinality({"matcher"}) = 1
        /\ "nuclei" \notin {"matcher"} /\ LanesOf(engine) = {"matcher"} \cup {"nuclei"}
    BY <1>1, FS_Singleton DEF LanesOf
  <2>2. IsFiniteSet(LanesOf(engine)) /\ Cardinality(LanesOf(engine)) = 2
    BY <2>1, FS_AddElement
  <2> QED BY <1>1, <2>1, <2>2 DEF Lanes
<1>2. CASE engine # "global"
  <2>1. LanesOf(engine) = {engine}
    BY <1>2 DEF LanesOf
  <2>2. IsFiniteSet({engine}) /\ Cardinality({engine}) = 1
    BY FS_Singleton
  <2> QED BY <1>2, <2>1, <2>2 DEF Lanes
<1> QED BY <1>1, <1>2

\* At most two lanes, so at most two failed sends for each agent.
LEMMA SendsBounded ==
  ASSUME engine \in Engines, NEW S, S \subseteq Sends
  PROVE  /\ Cardinality(S) \in 0 .. 2 * Cardinality(Agents)
         /\ Cardinality(Agents) \in Nat
<1>1. IsFiniteSet(Agents) /\ Cardinality(Agents) \in Nat
  BY ScanAssumption, FS_CardinalityType
<1>2. IsFiniteSet(LanesOf(engine)) /\ Cardinality(LanesOf(engine)) \in 1 .. 2
  BY LaneCount
<1>3. /\ IsFiniteSet(Sends)
      /\ Cardinality(Sends) = Cardinality(LanesOf(engine)) * Cardinality(Agents)
  BY <1>1, <1>2, FS_Product DEF Sends
<1>4. Cardinality(S) \in Nat /\ Cardinality(S) <= Cardinality(Sends)
  BY <1>3, FS_Subset, FS_CardinalityType
<1>5. \A l \in 1 .. 2, n \in Nat : l * n <= 2 * n
  <2>1. \A n \in Nat : 1 * n <= 2 * n /\ 2 * n <= 2 * n
    OBVIOUS
  <2> QED BY <2>1
<1>6. Cardinality(Sends) <= 2 * Cardinality(Agents) /\ Cardinality(Sends) \in Nat
  BY <1>1, <1>2, <1>3, <1>5, FS_CardinalityType
<1> QED BY <1>1, <1>4, <1>6

-----------------------------------------------------------------------------
(* Types *)

\* The two counters stay within their bounds.
LEMMA Counters ==
  ASSUME TypeOK, [Next]_vars
  PROVE  faults' \in 0 .. MaxFaults /\ calls' \in 0 .. MaxCalls
<1> USE DEF store, flags, field, local, run, client, Disruption, NoFault
<1>1. /\ MaxFaults \in Nat /\ faults \in 0 .. MaxFaults
      /\ MaxCalls \in Nat /\ calls \in 0 .. MaxCalls
  BY ScanAssumption DEF TypeOK
<1>2. \/ faults' = faults
      \/ faults < MaxFaults /\ faults' = faults + 1
      \/ faults + 2 <= MaxFaults /\ faults' = faults + 2
  <2>1. CASE RunStep
    BY <2>1 DEF RunStep, Begin, Checks, Confirm, Save, Scanning, Gauge, Count, Writes, Write, Publish,
                Finish, Raise, Fail, FailKey, Send
  <2>2. CASE AgentStep
    BY <2>2 DEF AgentStep, Receive, SaveResult, Replay
  <2>3. CASE DeadlinePasses \/ Crash \/ Submit \/ CancelStep \/ DeleteStep \/ UNCHANGED vars
    BY <2>3 DEF DeadlinePasses, Crash, Submit, Enqueue, CancelStep, CancelRead, CancelMark, CancelWrite,
                CancelAnswer, CancelDies, DeleteStep, DeleteRead, DeleteResults, DeleteReport,
                DeleteDocument, DeleteFails, vars
  <2> QED BY <2>1, <2>2, <2>3 DEF Next
<1>3. calls' = calls \/ (calls < MaxCalls /\ calls' = calls + 1)
  <2>1. CASE RunStep \/ AgentStep
    BY <2>1 DEF RunStep, Begin, Checks, Save, Scanning, Gauge, Count, Writes, Write, Publish, Finish,
                Raise, Fail, FailKey, Send, AgentStep, Receive, SaveResult, Replay
  <2>2. CASE DeadlinePasses \/ Crash \/ Submit \/ CancelStep \/ DeleteStep \/ UNCHANGED vars
    BY <2>2 DEF DeadlinePasses, Crash, Submit, CancelStep, CancelRead, Call, CancelMark, CancelWrite,
                CancelAnswer, CancelDies, DeleteStep, DeleteRead, DeleteResults, DeleteReport,
                DeleteDocument, DeleteFails, vars
  <2> QED BY <2>1, <2>2 DEF Next
<1> QED BY <1>1, <1>2, <1>3

\* What the run keeps for itself.
RunOK == /\ pc \in RunSteps /\ todo \subseteq Sends /\ missed \subseteq Sends
         /\ late \in BOOLEAN /\ why \in {"none", "complete", "deadline", "unreachable"}
         /\ attempts \in Nat

\* The document, the keys and the agents' results.
SharedOK == /\ doc \in DocStatus /\ unreached \in 0 .. 2 * Cardinality(Agents)
            /\ report \in BOOLEAN /\ finals \in [Agents -> Nat]
            /\ key \in KeyStatus /\ tombstone \in BOOLEAN
            /\ ordered \in [Agents -> Nat] /\ arriving \subseteq Agents

\* Where the two calls are.
CallsOK == /\ submitted \in BOOLEAN
           /\ cancel \in {"no", "mark", "markQueued", "cancelling", "write", "answer"}
           /\ deletion \in {"no", "results", "report", "document"}

LEMMA TypesOf == TypeOK <=> /\ engine \in Engines /\ RunOK /\ SharedOK /\ CallsOK
                            /\ faults \in 0 .. MaxFaults /\ calls \in 0 .. MaxCalls
BY DEF TypeOK, RunOK, SharedOK, CallsOK

LEMMA RunKept ==
  ASSUME TypeOK, [Next]_vars
  PROVE  RunOK' /\ engine' \in Engines /\ engine' = engine
<1> USE DEF store, flags, field, local, run, client
<1>1. engine' = engine /\ engine \in Engines /\ RunOK
  <2>1. CASE RunStep \/ AgentStep
    BY <2>1, TypesOf DEF RunStep, Begin, Checks, Save, Scanning, Gauge, Count, Writes, Write, Publish,
                Finish, Raise, Fail, FailKey, Send, AgentStep, Receive, SaveResult, Replay
  <2>2. CASE DeadlinePasses \/ Crash \/ Submit \/ CancelStep \/ DeleteStep \/ UNCHANGED vars
    BY <2>2, TypesOf DEF DeadlinePasses, Crash, Submit, CancelStep, CancelRead, CancelMark, CancelWrite,
                CancelAnswer, CancelDies, DeleteStep, DeleteRead, DeleteResults, DeleteReport,
                DeleteDocument, DeleteFails, vars
  <2> QED BY <2>1, <2>2 DEF Next
<1>2. Sends' = Sends
  BY <1>1 DEF Sends
<1>3. CASE UNCHANGED run
  BY <1>1, <1>2, <1>3 DEF RunOK
<1>4. CASE Begin
  <2>1. pc' \in RunSteps
    BY <1>4 DEF Begin, RunSteps
  <2>2. todo' = {} /\ missed' = {} /\ late' = FALSE /\ why' = "none" /\ attempts' = attempts + 1
    BY <1>4 DEF Begin
  <2>3. attempts' \in Nat /\ RunOK
    BY <1>1, <2>2 DEF RunOK
  <2> QED BY <1>1, <1>2, <2>1, <2>2, <2>3 DEF RunOK
<1>5. CASE Checks \/ Raise \/ Fail \/ FailKey \/ Finish \/ Crash \/ Writes \/ Publish
  <2>1. pc' \in RunSteps /\ UNCHANGED <<local, attempts>>
    BY <1>5 DEF Checks, Confirm, Raise, Fail, FailKey, Finish, Crash, Writes, Write, Publish, RunSteps
  <2> QED BY <1>1, <1>2, <2>1 DEF RunOK
<1>6. CASE Save \/ Scanning \/ Gauge \/ Count \/ DeadlinePasses
  BY <1>1, <1>2, <1>6 DEF Save, Scanning, Gauge, Count, DeadlinePasses, RunOK, RunSteps
<1>7. ASSUME NEW lane \in LanesOf(engine), NEW a \in Agents, Send(lane, a)
      PROVE  RunOK'
  <2>1. missed' \subseteq Sends /\ todo' \subseteq Sends
    BY <1>1, <1>7 DEF Send, RunOK, Sends
  <2> QED BY <1>1, <1>2, <1>7, <2>1 DEF Send, RunOK
<1>8. CASE AgentStep \/ Submit \/ CancelStep \/ DeleteStep \/ UNCHANGED vars
  BY <1>3, <1>8 DEF AgentStep, Receive, SaveResult, Replay, Submit, CancelStep, CancelRead, CancelMark,
              CancelWrite, CancelAnswer, CancelDies, DeleteStep, DeleteRead, DeleteResults, DeleteReport,
              DeleteDocument, DeleteFails, vars
<1> QED BY <1>1, <1>4, <1>5, <1>6, <1>7, <1>8 DEF Next, RunStep

LEMMA SharedKept ==
  ASSUME TypeOK, [Next]_vars
  PROVE  SharedOK'
<1> USE DEF store, flags, field, local, run, client
<1>1. SharedOK
  BY TypesOf
<1>2. 0 \in 0 .. 2 * Cardinality(Agents) /\ Cardinality(missed) \in 0 .. 2 * Cardinality(Agents)
  <2>1. engine \in Engines /\ missed \subseteq Sends
    BY DEF TypeOK
  <2> QED BY <2>1, SendsBounded
<1>3. CASE Begin \/ Finish \/ FailKey \/ Fail
  <2>1. key' \in KeyStatus /\ doc' \in DocStatus
    BY <1>1, <1>3 DEF Begin, Finish, FailKey, Fail, SharedOK, KeyStatus, DocStatus
  <2>2. UNCHANGED <<unreached, report, finals, tombstone, field>>
    BY <1>3 DEF Begin, Finish, FailKey, Fail
  <2> QED BY <1>1, <2>1, <2>2 DEF SharedOK
<1>4. CASE Checks \/ Gauge \/ Count \/ Raise \/ DeadlinePasses \/ Crash \/ UNCHANGED vars
  BY <1>1, <1>4 DEF Checks, Gauge, Count, Raise, DeadlinePasses, Crash, vars, SharedOK
<1>5. CASE Save \/ Scanning \/ Writes \/ Publish
  <2>1. doc' \in DocStatus /\ unreached' \in 0 .. 2 * Cardinality(Agents) /\ report' \in BOOLEAN
    BY <1>1, <1>2, <1>5 DEF Save, Scanning, Writes, Write, Publish, SharedOK, DocStatus
  <2>2. UNCHANGED <<finals, flags, field>>
    BY <1>5 DEF Save, Scanning, Writes, Write, Publish
  <2> QED BY <1>1, <2>1, <2>2 DEF SharedOK
<1>6. ASSUME NEW a \in Agents, Receive(a) \/ SaveResult(a) \/ Replay(a)
      PROVE  SharedOK'
  <2>1. ordered' \in [Agents -> Nat] /\ finals' \in [Agents -> Nat] /\ arriving' \subseteq Agents
    <3>1. ordered \in [Agents -> Nat] /\ ordered[a] \in Nat /\ finals \in [Agents -> Nat]
      BY <1>1 DEF SharedOK
    <3>2. CASE Receive(a)
      BY <1>1, <3>1, <3>2 DEF Receive, SharedOK
    <3>3. CASE SaveResult(a)
      <4>1. finals' \in [Agents -> Nat]
        BY <3>1, <3>3 DEF SaveResult
      <4> QED BY <1>1, <3>3, <4>1 DEF SaveResult, SharedOK
    <3>4. CASE Replay(a)
      BY <1>1, <3>1, <3>4 DEF Replay, SharedOK
    <3> QED BY <1>6, <3>2, <3>3, <3>4
  <2>2. UNCHANGED <<doc, unreached, report, flags>>
    BY <1>6 DEF Receive, SaveResult, Replay
  <2> QED BY <1>1, <2>1, <2>2 DEF SharedOK
<1>9. ASSUME NEW lane \in LanesOf(engine), NEW a \in Agents, Send(lane, a)
      PROVE  SharedOK'
  <2>1. ordered' \in [Agents -> Nat]
    BY <1>1, <1>9 DEF Send, SharedOK
  <2>2. UNCHANGED <<store, flags, arriving>>
    BY <1>9 DEF Send
  <2> QED BY <1>1, <2>1, <2>2 DEF SharedOK
<1>7. CASE Submit \/ CancelStep
  <2>1. key' \in KeyStatus /\ doc' \in DocStatus /\ tombstone' \in BOOLEAN
    BY <1>1, <1>7 DEF Submit, Enqueue, CancelStep, CancelRead, CancelMark, CancelWrite, CancelAnswer,
                      CancelDies, SharedOK, KeyStatus, DocStatus
  <2>2. UNCHANGED <<unreached, report, finals, field>>
    BY <1>7 DEF Submit, CancelStep, CancelRead, CancelMark, CancelWrite, CancelAnswer, CancelDies
  <2> QED BY <1>1, <2>1, <2>2 DEF SharedOK
<1>8. CASE DeleteStep
  <2>1. doc' \in DocStatus /\ report' \in BOOLEAN
    BY <1>1, <1>8 DEF DeleteStep, DeleteRead, DeleteResults, DeleteReport, DeleteDocument,
                      DeleteFails, SharedOK, DocStatus
  <2>3. unreached' \in 0 .. 2 * Cardinality(Agents)
    <3>1. unreached' \in {0, unreached}
      BY <1>8 DEF DeleteStep, DeleteRead, DeleteResults, DeleteReport, DeleteDocument, DeleteFails
    <3> QED BY <1>1, <1>2, <3>1 DEF SharedOK
  <2>4. finals' \in [Agents -> Nat]
    BY <1>1, <1>8 DEF DeleteStep, DeleteRead, DeleteResults, DeleteReport, DeleteDocument,
                      DeleteFails, SharedOK
  <2>2. UNCHANGED <<flags, field>>
    BY <1>8 DEF DeleteStep, DeleteRead, DeleteResults, DeleteReport, DeleteDocument, DeleteFails
  <2> QED BY <1>1, <2>1, <2>2, <2>3, <2>4 DEF SharedOK
<1> QED BY <1>3, <1>4, <1>5, <1>6, <1>7, <1>8, <1>9 DEF Next, RunStep, AgentStep

LEMMA CallsKept ==
  ASSUME TypeOK, [Next]_vars
  PROVE  CallsOK'
<1> USE DEF store, flags, field, local, run, client
<1>1. CallsOK
  BY TypesOf
<1>2. CASE RunStep \/ AgentStep \/ DeadlinePasses \/ Crash \/ UNCHANGED vars
  BY <1>1, <1>2, ZenonT(60) DEF RunStep, Begin, Checks, Save, Scanning, Gauge, Count, Writes, Write, Publish,
                    Finish, Raise, Fail, FailKey, Send, AgentStep, Receive, SaveResult, Replay,
                    DeadlinePasses, Crash, vars, CallsOK
<1>3. CASE Submit \/ CancelStep \/ DeleteStep
  BY <1>1, <1>3 DEF Submit, Enqueue, CancelStep, CancelRead, CancelMark, CancelWrite, CancelAnswer,
                    CancelDies, DeleteStep, DeleteRead, DeleteResults, DeleteReport, DeleteDocument,
                    DeleteFails, CallsOK
<1> QED BY <1>2, <1>3 DEF Next

LEMMA TypesKept ==
  ASSUME TypeOK, [Next]_vars
  PROVE  TypeOK'
<1>1. /\ engine' \in Engines /\ RunOK' /\ SharedOK' /\ CallsOK'
      /\ faults' \in 0 .. MaxFaults /\ calls' \in 0 .. MaxCalls
  BY Counters, RunKept, SharedKept, CallsKept
<1> QED BY <1>1 DEF TypeOK, RunOK, SharedOK, CallsOK

-----------------------------------------------------------------------------
(* Cancellation: whoever writes "cancelled" has seen the tombstone, which is *)
(* never taken away, or failed to read it twice.                             *)

CancelInv ==
  /\ cancel \in {"cancelling", "write", "answer"} => tombstone
  /\ pc \in {"abandon", "persistCancel"} => tombstone \/ faults >= 2
  /\ NoFalseCancel

LEMMA CancelKept ==
  ASSUME TypeOK, CancelInv, [Next]_vars
  PROVE  CancelInv'
<1> USE DEF store, flags, field, local, run, client, Disruption, NoFault
<1>1. faults \in Nat
  BY ScanAssumption DEF TypeOK
<1>2. CASE Begin \/ Save \/ Scanning \/ Gauge \/ Count \/ Publish
  BY <1>1, <1>2 DEF Begin, Save, Scanning, Gauge, Count, Publish, CancelInv, NoFalseCancel
<1>3. CASE Checks
  BY <1>1, <1>3 DEF Checks, Confirm, CancelInv, NoFalseCancel
<1>4. CASE Writes
  BY <1>1, <1>4 DEF Writes, Write, CancelInv, NoFalseCancel
<1>5. CASE Finish \/ Raise \/ Fail \/ FailKey \/ DeadlinePasses \/ Crash
  BY <1>1, <1>5 DEF Finish, Raise, Fail, FailKey, DeadlinePasses, Crash, CancelInv, NoFalseCancel
<1>6. ASSUME NEW lane \in LanesOf(engine), NEW a \in Agents, Send(lane, a)
      PROVE  CancelInv'
  BY <1>6 DEF Send, CancelInv, NoFalseCancel
<1>7. ASSUME NEW a \in Agents, Receive(a) \/ SaveResult(a) \/ Replay(a)
      PROVE  CancelInv'
  BY <1>1, <1>7 DEF Receive, SaveResult, Replay, CancelInv, NoFalseCancel
<1>8. CASE Submit \/ CancelStep
  BY <1>1, <1>8 DEF Submit, Enqueue, CancelStep, CancelRead, CancelMark, CancelWrite, CancelAnswer,
                    CancelDies, CancelInv, NoFalseCancel
<1>9. CASE DeleteStep
  BY <1>1, <1>9 DEF DeleteStep, DeleteRead, DeleteResults, DeleteReport, DeleteDocument, DeleteFails,
                    CancelInv, NoFalseCancel
<1>10. CASE UNCHANGED vars
  BY <1>10 DEF vars, CancelInv, NoFalseCancel
<1> QED BY <1>2, <1>3, <1>4, <1>5, <1>6, <1>7, <1>8, <1>9, <1>10 DEF Next, RunStep, AgentStep

-----------------------------------------------------------------------------
(* The end of a run that nothing disturbed.  It fails only when the document *)
(* was deleted under it, so what waits, begins or fails finds none; and once *)
(* it has ended, only a cancel call between its two writes is not an end.    *)

EndInv ==
  faults = 0 =>
    /\ pc \in {"waiting", "check", "save", "fail", "failKey", "dead"} => doc = "absent"
    /\ pc \in {"finish", "finishCancelled", "done"} =>
         \/ doc \in {"absent", "completed", "cancelled"}
         \/ doc = "cancelling" /\ cancel = "write"

\* A completed document has lost its report only to a delete call that is about
\* to take the document as well.
ReportInv ==
  faults = 0 /\ ~report =>
    /\ pc = "complete" => doc = "absent" \/ deletion = "document"
    /\ doc = "completed" => deletion = "document"

LEMMA EndKept ==
  ASSUME TypeOK, EndInv, ReportInv, [Next]_vars
  PROVE  EndInv' /\ ReportInv'
<1> USE DEF store, flags, field, local, run, client, Disruption, NoFault, EndInv, ReportInv
<1>1. faults \in Nat
  BY ScanAssumption DEF TypeOK
<1>2. CASE Begin \/ Save \/ Scanning \/ Gauge \/ Count \/ Publish
  BY <1>1, <1>2 DEF Begin, Save, Scanning, Gauge, Count, Publish
<1>3. CASE Checks
  BY <1>1, <1>3 DEF Checks, Confirm
<1>4. CASE Writes
  BY <1>1, <1>4 DEF Writes, Write
<1>5. CASE Finish \/ Raise \/ Fail \/ FailKey \/ DeadlinePasses \/ Crash
  BY <1>1, <1>5 DEF Finish, Raise, Fail, FailKey, DeadlinePasses, Crash
<1>6. ASSUME NEW lane \in LanesOf(engine), NEW a \in Agents, Send(lane, a)
      PROVE  EndInv' /\ ReportInv'
  BY <1>6 DEF Send
<1>7. ASSUME NEW a \in Agents, Receive(a) \/ SaveResult(a) \/ Replay(a)
      PROVE  EndInv' /\ ReportInv'
  BY <1>1, <1>7 DEF Receive, SaveResult, Replay
<1>8. CASE Submit \/ CancelStep
  BY <1>1, <1>8 DEF Submit, Enqueue, CancelStep, CancelRead, CancelMark, CancelWrite, CancelAnswer,
                    CancelDies
<1>9. CASE DeleteStep
  BY <1>1, <1>9 DEF DeleteStep, DeleteRead, DeleteResults, DeleteReport, DeleteDocument, DeleteFails
<1>10. CASE UNCHANGED vars
  BY <1>10 DEF vars
<1> QED BY <1>2, <1>3, <1>4, <1>5, <1>6, <1>7, <1>8, <1>9, <1>10 DEF Next, RunStep, AgentStep

-----------------------------------------------------------------------------
(* The batches of one undisturbed run: an agent has as many commands to come, *)
(* answers on their way and answers stored as there are lanes, and when the   *)
(* stored ones are all there can be, none is left.                            *)

OneIf(b) == IF b THEN 1 ELSE 0

\* Commands of the run not sent to a yet.
Unsent(a) ==
  IF engine = "global"
  THEN OneIf(<<"matcher", a>> \in todo) + OneIf(<<"nuclei", a>> \in todo)
  ELSE OneIf(<<engine, a>> \in todo)

Due(a) == Unsent(a) + ordered[a] + OneIf(a \in arriving) + finals[a]

Waited == {"analyzing", "aggregate", "analyse", "report", "publish", "complete", "abandon",
           "persistCancel", "finish", "finishCancelled", "fail", "failKey", "done", "dead", "waiting"}

BatchInv ==
  faults = 0 /\ attempts <= 1 =>
    /\ \A a \in Agents : Due(a) <= Lanes
    /\ attempts = 0 \/ pc \in {"check", "save"} => todo = {} /\ \A a \in Agents : Due(a) = 0
    /\ attempts = 0 => pc = "waiting"
    /\ pc \notin {"send", "fail", "failKey", "waiting", "dead"} => todo = {}
    /\ why # "none" => pc \in Waited /\ attempts = 1
    /\ why = "complete" => todo = {} /\ \A a \in Agents : ordered[a] = 0 /\ a \notin arriving

\* When no agent can have stored more than one batch for each lane, as many
\* batches as there are agents and lanes are all of them.
LEMMA AllBatches ==
  ASSUME engine \in Engines, finals \in [Agents -> Nat],
         \A a \in Agents : finals[a] <= Lanes, FinalsOfAll >= FinalsRequired
  PROVE  \A a \in Agents : finals[a] = Lanes
<1> DEFINE Every == Agents \X (1 .. Lanes)
<1>1. Lanes \in 1 .. 2 /\ FinalsRequired = Cardinality(Agents) * Lanes
  BY LaneCount DEF FinalsRequired
<1>2. IsFiniteSet(1 .. Lanes) /\ Cardinality(1 .. Lanes) = Lanes
  <2>1. 1 \in Int /\ Lanes \in Int /\ ~(1 > Lanes) /\ Lanes - 1 + 1 = Lanes
    BY <1>1
  <2> QED BY <2>1, FS_Interval
<1>3. IsFiniteSet(Every) /\ Cardinality(Every) = Cardinality(Agents) * Lanes
  BY <1>2, ScanAssumption, FS_Product
<1>4. FinalBatches \subseteq Every
  <2>1. \A a \in Agents : {a} \X (1 .. finals[a]) \subseteq Every
    BY <1>1
  <2> QED BY <2>1 DEF FinalBatches
<1>5. Cardinality(FinalBatches) <= Cardinality(Every) /\ Cardinality(Every) \in Nat
      /\ Cardinality(FinalBatches) \in Nat
  BY <1>3, <1>4, FS_Subset, FS_CardinalityType
<1>6. Cardinality(Every) = Cardinality(FinalBatches)
  <2>1. Cardinality(FinalBatches) >= Cardinality(Every)
    BY <1>1, <1>3 DEF FinalsOfAll
  <2> QED BY <1>5, <2>1
<1>7. FinalBatches = Every
  BY <1>3, <1>4, <1>6, FS_Subset
<1>8. ASSUME NEW a \in Agents PROVE finals[a] = Lanes
  <2>1. <<a, Lanes>> \in FinalBatches
    BY <1>1, <1>7
  <2>2. PICK b \in Agents : <<a, Lanes>> \in {b} \X (1 .. finals[b])
    BY <2>1 DEF FinalBatches
  <2>3. Lanes <= finals[a]
    BY <1>1, <2>2
  <2> QED BY <1>1, <2>3
<1> QED BY <1>8


\* The commands on their way and the batches stored are not touched.
LEMMA DueFrame ==
  ASSUME engine' = engine, UNCHANGED <<todo, field, finals>>
  PROVE  /\ \A a \in Agents : Due(a)' = Due(a)
         /\ Lanes' = Lanes /\ todo' = todo /\ ordered' = ordered /\ arriving' = arriving
BY DEF field, Due, Unsent, Lanes

LEMMA BatchKept ==
  ASSUME TypeOK, BatchInv, [Next]_vars
  PROVE  BatchInv'
<1> USE DEF store, flags, field, local, run, client, Disruption, NoFault
<1>1. /\ faults \in Nat /\ attempts \in Nat /\ engine \in Engines
      /\ finals \in [Agents -> Nat] /\ ordered \in [Agents -> Nat]
      /\ finals' \in [Agents -> Nat] /\ ordered' \in [Agents -> Nat]
      /\ engine' = engine /\ Lanes \in 1 .. 2 /\ Lanes' = Lanes
  BY ScanAssumption, RunKept, SharedKept, LaneCount DEF TypeOK, SharedOK, Lanes
<1>2. ASSUME faults' = faults + 1 \/ faults' = faults + 2
      PROVE  BatchInv'
  BY <1>1, <1>2 DEF BatchInv
<1>3. ASSUME attempts' = attempts, faults' = faults, why' = why,
             UNCHANGED <<todo, field, finals>>,
             pc' = pc \/ pc \notin {"waiting", "done", "dead"},
             why = "none" \/ pc' \in Waited,
             pc' \in {"check", "save"} => pc \in {"check", "save"},
             pc \in {"send", "fail", "failKey"} /\ pc' \notin {"send", "fail", "failKey", "waiting", "dead"}
               => todo = {}
      PROVE  BatchInv'
  <2>1. /\ \A a \in Agents : Due(a)' = Due(a)
        /\ Lanes' = Lanes /\ todo' = todo /\ ordered' = ordered /\ arriving' = arriving
    BY <1>1, <1>3, DueFrame
  <2>2. attempts = 0 /\ faults = 0 => pc' = pc
    BY <1>3 DEF BatchInv
  <2> QED BY <1>1, <1>3, <2>1, <2>2 DEF BatchInv
<1>4. CASE Begin
  <2>1. CASE faults' = faults /\ attempts = 0 /\ faults = 0
    <3>1. todo = {} /\ todo' = {} /\ UNCHANGED <<field, finals>> /\ \A a \in Agents : Due(a) = 0
      BY <1>4, <2>1 DEF Begin, BatchInv
    <3>2. \A a \in Agents : Due(a)' = Due(a)
      BY <1>1, <3>1, DueFrame
    <3>3. attempts' = 1 /\ why' = "none" /\ pc' \in {"done", "check"}
      BY <1>1, <1>4, <2>1 DEF Begin
    <3> QED BY <1>1, <3>1, <3>2, <3>3 DEF BatchInv
  <2>2. CASE faults' = faults /\ (attempts # 0 \/ faults # 0)
    <3>1. attempts' = attempts + 1
      BY <1>4 DEF Begin
    <3> QED BY <1>1, <2>2, <3>1 DEF BatchInv
  <2> QED BY <1>2, <1>4, <2>1, <2>2 DEF Begin
<1>5. CASE Checks \/ Writes \/ Publish
  <2>1. CASE faults' = faults
    <3>1. /\ attempts' = attempts /\ why' = why /\ UNCHANGED <<todo, field, finals>>
          /\ pc \notin {"waiting", "done", "dead", "send", "fail", "failKey"}
          /\ pc' \in {"check", "save"} => pc \in {"check", "save"}
          /\ pc \in Waited => pc' \in Waited
      BY <1>5, <2>1 DEF Checks, Confirm, Writes, Write, Publish, Waited
    <3>2. why = "none" \/ pc' \in Waited \/ ~(faults = 0 /\ attempts <= 1)
      BY <3>1 DEF BatchInv
    <3>3. CASE why = "none" \/ pc' \in Waited
      BY <1>3, <2>1, <3>1, <3>3
    <3>4. CASE ~(faults = 0 /\ attempts <= 1)
      BY <2>1, <3>1, <3>4 DEF BatchInv
    <3> QED BY <3>2, <3>3, <3>4
  <2> QED BY <1>2, <1>5, <2>1 DEF Checks, Confirm, Writes, Write, Publish
<1>6. CASE Finish \/ Raise \/ Fail \/ FailKey \/ Crash
  <2>1. CASE faults' = faults
    <3>1. /\ attempts' = attempts /\ why' = why /\ UNCHANGED <<todo, field, finals>>
          /\ pc \notin {"waiting", "done", "dead"}
          /\ pc' \in {"done", "fail", "failKey", "waiting", "dead"}
          /\ pc' = "done" => pc \notin {"send", "fail", "failKey"}
      BY <1>1, <1>6, <2>1 DEF Finish, Raise, Idle, Fail, FailKey, Crash
    <3>2. pc' \in Waited
      BY <3>1 DEF Waited
    <3> QED BY <1>3, <2>1, <3>1, <3>2
  <2> QED BY <1>2, <1>6, <2>1 DEF Finish, Raise, Fail, FailKey, Crash
<1>7. CASE Save
  <2>1. CASE faults = 0 /\ attempts <= 1
    <3>1. /\ pc = "save" /\ pc' = "send" /\ todo' = Sends /\ attempts' = attempts
          /\ UNCHANGED <<field, finals, why>>
      BY <1>7 DEF Save
    <3>2. \A a \in Agents : Due(a) = 0
      BY <2>1, <3>1 DEF BatchInv
    <3>7. \A a \in Agents : /\ Unsent(a) \in Nat /\ OneIf(a \in arriving) \in Nat
                            /\ ordered[a] \in Nat /\ finals[a] \in Nat
      BY <1>1 DEF Unsent, OneIf
    <3>8. \A p, q, r, t \in Nat : p + q + r + t = 0 => q + r + t = 0
      OBVIOUS
    <3>3. \A a \in Agents : ordered[a] + OneIf(a \in arriving) + finals[a] = 0
      BY <3>2, <3>7, <3>8 DEF Due
    <3>4. \A a \in Agents : Unsent(a)' = Lanes
      BY <1>1, <3>1 DEF Unsent, Lanes, Sends, LanesOf, OneIf
    <3>5. \A a \in Agents : Due(a)' = Lanes
      BY <1>1, <3>1, <3>3, <3>4 DEF Due, OneIf
    <3>6. why = "none" /\ attempts # 0
      BY <2>1, <3>1 DEF BatchInv, Waited
    <3> QED BY <1>1, <3>1, <3>5, <3>6 DEF BatchInv
  <2>2. CASE ~(faults = 0 /\ attempts <= 1)
    BY <1>7, <2>2 DEF Save, BatchInv
  <2> QED BY <2>1, <2>2
<1>8. ASSUME NEW lane \in LanesOf(engine), NEW a \in Agents, Send(lane, a)
      PROVE  BatchInv'
  <2>1. CASE faults = 0 /\ attempts <= 1
    <3>1. /\ pc = "send" /\ pc' = "send" /\ attempts' = attempts /\ why' = why
          /\ todo' = todo \ {<<lane, a>>} /\ <<lane, a>> \in todo
          /\ ordered' = [ordered EXCEPT ![a] = @ + 1] /\ UNCHANGED <<arriving, finals>>
      BY <1>8 DEF Send
    <3>2. Unsent(a) = Unsent(a)' + 1 /\ Unsent(a)' \in Nat
      BY <1>1, <1>8, <3>1 DEF Unsent, OneIf, LanesOf
    <3>3. \A b \in Agents : b # a => Due(b)' = Due(b)
      BY <1>1, <3>1 DEF Due, Unsent, OneIf
    <3>4. Due(a)' = Due(a)
      BY <1>1, <3>1, <3>2 DEF Due, OneIf
    <3>5. why = "none" /\ attempts # 0
      BY <2>1, <3>1 DEF BatchInv, Waited
    <3> QED BY <1>1, <2>1, <3>1, <3>3, <3>4, <3>5 DEF BatchInv
  <2>2. CASE ~(faults = 0 /\ attempts <= 1)
    BY <1>8, <2>2 DEF Send, BatchInv
  <2> QED BY <2>1, <2>2
<1>9. CASE Scanning \/ DeadlinePasses \/ Submit \/ CancelStep \/ DeleteRead \/ DeleteReport \/ DeleteDocument
           \/ DeleteFails \/ UNCHANGED vars
  <2>1. CASE faults' = faults /\ Scanning
    <3>1. /\ attempts' = attempts /\ why' = why /\ UNCHANGED <<todo, field, finals>>
          /\ pc = "send" /\ todo = {} /\ pc' = "enter"
      BY <2>1 DEF Scanning
    <3>2. faults = 0 /\ attempts <= 1 => why = "none"
      BY <3>1 DEF BatchInv, Waited
    <3>3. CASE why = "none"
      BY <1>3, <2>1, <3>1, <3>3
    <3>4. CASE ~(faults = 0 /\ attempts <= 1)
      BY <2>1, <3>1, <3>4 DEF BatchInv
    <3> QED BY <3>2, <3>3, <3>4
  <2>2. CASE faults' = faults /\ ~Scanning
    <3>1. /\ attempts' = attempts /\ why' = why /\ UNCHANGED <<todo, field, finals>> /\ pc' = pc
      BY <1>9, <2>2 DEF DeadlinePasses, Submit, CancelStep, CancelRead, CancelMark, CancelWrite,
                        CancelAnswer, CancelDies, DeleteRead, DeleteReport, DeleteDocument, DeleteFails,
                        vars
    <3>2. faults = 0 /\ attempts <= 1 => why = "none" \/ pc' \in Waited
      BY <3>1 DEF BatchInv
    <3>3. CASE why = "none" \/ pc' \in Waited
      BY <1>3, <2>2, <3>1, <3>3
    <3>4. CASE ~(faults = 0 /\ attempts <= 1)
      BY <2>2, <3>1, <3>4 DEF BatchInv
    <3> QED BY <3>2, <3>3, <3>4
  <2> QED BY <1>2, <1>9, <2>1, <2>2
          DEF Scanning, DeadlinePasses, Submit, Enqueue, CancelStep, CancelRead, CancelMark, CancelWrite,
              CancelAnswer, CancelDies, DeleteRead, DeleteReport, DeleteDocument, DeleteFails, vars
<1>10. CASE Gauge \/ Count
  <2>1. CASE faults = 0 /\ attempts <= 1
    <3>1. /\ attempts' = attempts /\ faults' = faults /\ UNCHANGED <<todo, field, finals>>
          /\ pc \in {"gauge", "count"} /\ pc' \in {"poll", "analyzing"}
          /\ why' = why \/ pc' = "analyzing"
      BY <1>10 DEF Gauge, Count
    <3>2. todo = {} /\ attempts = 1 /\ why = "none"
      BY <1>1, <2>1, <3>1 DEF BatchInv, Waited
    <3>3. \A a \in Agents : Due(a)' = Due(a) /\ Due(a) <= Lanes
      BY <1>1, <2>1, <3>1, DueFrame DEF BatchInv
    <3>4. why' = "complete" => \A a \in Agents : ordered[a] = 0 /\ a \notin arriving
      <4>1. SUFFICES ASSUME why' = "complete", NEW a \in Agents
                     PROVE  ordered[a] = 0 /\ a \notin arriving
        OBVIOUS
      <4>2. FinalsOfAll >= FinalsRequired
        BY <1>10, <3>2, <4>1 DEF Gauge, Count
      <4>3. \A b \in Agents : /\ finals[b] \in Nat /\ ordered[b] \in Nat /\ OneIf(b \in arriving) \in Nat
                              /\ Unsent(b) \in Nat
                              /\ OneIf(b \in arriving) = 0 => b \notin arriving
        BY <1>1 DEF OneIf, Unsent
      <4>4. \A b \in Agents : finals[b] <= Lanes
        BY <1>1, <3>3, <4>3 DEF Due
      <4>5. finals[a] = Lanes
        BY <1>1, <4>2, <4>4, AllBatches
      <4>7. \A p, q, r, t, n \in Nat : p + q + r + t <= n /\ t = n => q = 0 /\ r = 0
        OBVIOUS
      <4>8. Unsent(a) + ordered[a] + OneIf(a \in arriving) + finals[a] <= Lanes /\ finals[a] \in Nat
        BY <1>1, <3>3 DEF Due
      <4>6. ordered[a] = 0 /\ OneIf(a \in arriving) = 0
        BY <1>1, <4>3, <4>5, <4>7, <4>8
      <4> QED BY <4>3, <4>6
    <3> QED BY <1>1, <2>1, <3>1, <3>2, <3>3, <3>4 DEF BatchInv, Waited
  <2>2. CASE ~(faults = 0 /\ attempts <= 1)
    BY <1>10, <2>2 DEF Gauge, Count, BatchInv
  <2> QED BY <2>1, <2>2
<1>11. ASSUME NEW a \in Agents, Receive(a) \/ SaveResult(a) \/ Replay(a)
       PROVE  BatchInv'
  <2>1. CASE faults' = faults
    <3>1. /\ attempts' = attempts /\ why' = why /\ todo' = todo /\ pc' = pc
          /\ \/ ordered[a] > 0 /\ a \notin arriving
             \/ a \in arriving
      BY <1>1, <1>11, <2>1 DEF Receive, SaveResult, Replay
    <3>2. \A b \in Agents : b # a => Due(b)' = Due(b) /\ ordered'[b] = ordered[b]
                                       /\ (b \in arriving' <=> b \in arriving)
      BY <1>1, <1>11, <2>1 DEF Receive, SaveResult, Replay, Due, Unsent, OneIf
    <3>3. Unsent(a)' = Unsent(a) /\ Unsent(a) \in Nat
      BY <1>1, <3>1 DEF Unsent, OneIf
    <3>4. Due(a)' <= Due(a) /\ Due(a) > 0
      <4>1. CASE Receive(a)
        <5>1. ordered'[a] = ordered[a] - 1 /\ finals' = finals /\ ordered[a] > 0 /\ a \notin arriving
          BY <1>1, <4>1 DEF Receive
        <5>2. OneIf(a \in arriving') \in 0 .. 1 /\ OneIf(a \in arriving) = 0
          BY <5>1 DEF OneIf
        <5> QED BY <1>1, <3>3, <5>1, <5>2 DEF Due
      <4>2. CASE SaveResult(a)
        <5>1. ordered' = ordered /\ finals'[a] = finals[a] + 1
          BY <1>1, <2>1, <4>2 DEF SaveResult
        <5>2. OneIf(a \in arriving') = 0 /\ OneIf(a \in arriving) = 1
          BY <4>2 DEF OneIf, SaveResult
        <5> QED BY <1>1, <3>3, <5>1, <5>2 DEF Due
      <4>3. CASE Replay(a)
        BY <1>1, <2>1, <4>3 DEF Replay
      <4> QED BY <1>11, <4>1, <4>2, <4>3
    <3>5. Due(a)' \in Nat /\ Due(a) \in Nat
      BY <1>1, <3>3 DEF Due, OneIf
    <3> QED BY <1>1, <2>1, <3>1, <3>2, <3>4, <3>5 DEF BatchInv
  <2> QED BY <1>2, <1>11, <2>1 DEF Receive, SaveResult, Replay
<1>12. CASE DeleteResults
  <2>1. /\ attempts' = attempts /\ faults' = faults /\ why' = why
        /\ UNCHANGED <<todo, field>> /\ pc' = pc /\ finals' = [a \in Agents |-> 0]
    BY <1>12 DEF DeleteResults
  <2>2. \A a \in Agents : Due(a)' \in Nat /\ Due(a) \in Nat /\ Due(a)' <= Due(a)
    <3>1. TAKE a \in Agents
    <3>2. finals'[a] = 0 /\ finals[a] \in Nat /\ ordered[a] \in Nat /\ Unsent(a)' = Unsent(a)
      BY <1>1, <2>1 DEF Unsent
    <3>3. Unsent(a) \in Nat /\ OneIf(a \in arriving) \in Nat
      BY DEF Unsent, OneIf
    <3> QED BY <2>1, <3>2, <3>3 DEF Due
  <2> QED BY <1>1, <2>1, <2>2 DEF BatchInv
<1> QED BY <1>4, <1>5, <1>6, <1>7, <1>8, <1>9, <1>10, <1>11, <1>12
        DEF Next, RunStep, AgentStep, DeleteStep

-----------------------------------------------------------------------------
ScanInd == TypeOK /\ CancelInv /\ EndInv /\ ReportInv /\ BatchInv

LEMMA ScanAlways == Spec => []ScanInd
<1>1. Init => ScanInd
  <2> SUFFICES ASSUME Init PROVE ScanInd
    OBVIOUS
  <2>1. 0 \in 0 .. 2 * Cardinality(Agents) /\ 0 \in 0 .. MaxCalls /\ 0 \in 0 .. MaxFaults
    BY SendsBounded, ScanAssumption DEF Init
  <2>2. TypeOK
    BY <2>1 DEF Init, TypeOK, DocStatus, KeyStatus, RunSteps
  <2>3. BatchInv
    <3>1. Lanes \in 1 .. 2 /\ \A a \in Agents : Due(a) = 0
      BY LaneCount DEF Init, Due, Unsent, OneIf
    <3> QED BY <3>1 DEF Init, BatchInv
  <2> QED BY <2>2, <2>3 DEF Init, ScanInd, CancelInv, NoFalseCancel, EndInv, ReportInv
<1>2. ScanInd /\ [Next]_vars => ScanInd'
  BY TypesKept, CancelKept, EndKept, BatchKept DEF ScanInd
<1> QED BY <1>1, <1>2, PTL DEF Spec

-----------------------------------------------------------------------------
(* Theorems *)

\* Types, and the outcome of a run that nothing disturbed: whatever order the
\* writes of the run, the cancel calls and the delete calls came in, the task
\* ends as completed, cancelled or deleted.  (generate_report, cancel_task)
THEOREM ScanInvHolds == Spec => []ScanInv
<1>1. ScanInd => ScanInv
  BY DEF ScanInd, EndInv, Quiet, SettledOutcome, ScanInv
<1> QED BY <1>1, ScanAlways, PTL

\* A task nobody cancelled is stored as cancelled only after two failed reads
\* of the tombstone.  (_confirm_cancellation)
THEOREM NoFalseCancelHolds == Spec => []NoFalseCancel
<1>1. ScanInd => NoFalseCancel
  BY DEF ScanInd, CancelInv
<1> QED BY <1>1, ScanAlways, PTL

\* A task stored as completed has its report.  (generate_report, delete_task)
THEOREM ReportForCompletedHolds == Spec => []ReportForCompleted
<1>1. ScanInd => ReportForCompleted
  BY DEF ScanInd, ReportInv, ReportForCompleted
<1> QED BY <1>1, ScanAlways, PTL

\* When collect counted the batches of an undisturbed run complete, no agent
\* still owes the batch of either engine, however many agents the task has.
\* (collect)
THEOREM CompleteLeavesNoneHolds == Spec => []CompleteLeavesNone
<1>1. ScanInd => CompleteLeavesNone
  BY DEF ScanInd, BatchInv, CompleteLeavesNone
<1> QED BY <1>1, ScanAlways, PTL

-----------------------------------------------------------------------------
(* What a task has found is listed from the moment it is saved on, and       *)
(* nothing is found before.                                                  *)

Listed(t, v) == t \in wiped \/ vulnDocs[v].task = t \/ <<t, v>> \in takenOver

Unmatched == {"idle", "parse", "discover", "alive", "ports", "assets", "fingerprint", "services", "cve"}

ListedInd ==
  /\ \A r \in Runs :
       /\ assetNode[r] \in Unmatched => work[r].found = {}
       /\ assetNode[r] \in {"analyse", "rate", "report"} => \A v \in work[r].found : Listed(TaskOf(r), v)
  /\ \A t \in AssetTasks : \A v \in reportDoc[t].counts : Listed(t, v)

(* How a run comes to the end of its graph. *)

Excused(t) == reportDoc[t].made \/ t \in told \union wiped

EndedInd ==
  /\ \A r \in Runs :
       /\ assetNode[r] = "complete" => reportDoc[TaskOf(r)].made \/ TaskOf(r) \in wiped
       /\ assetNode[r] \in {"close", "ack"} => Excused(TaskOf(r))
  /\ \A t \in AssetTasks : taskDoc[t] = "completed" => Excused(t)

(* Unless two have been at work at once, whoever runs holds a pending entry  *)
(* and is alone.                                                             *)

HeldInd ==
  /\ \A r \in Runs : assetNode[r] # "idle" /\ TaskOf(r) \notin doubled =>
       /\ entry[TaskOf(r)] = "pending"
       /\ \A q \in Runs \ {r} : TaskOf(q) = TaskOf(r) => assetNode[q] = "idle"
       /\ assetNode[r] = "ack" /\ TaskOf(r) \notin wiped => taskDoc[TaskOf(r)] = "completed"
  /\ \A t \in AssetTasks \ (wiped \union doubled) :
       /\ entry[t] = "acked" => taskDoc[t] = "completed"
       /\ assetFaults = 0 =>
            /\ entry[t] # "none" => taskDoc[t] # "none"
            /\ entry[t] = "dlq" => taskDoc[t] = "failed"
  /\ \A t \in AssetTasks : deleting[t] # "none" => t \in wiped

Work == [up : SUBSET Hosts, open : SUBSET Places, services : SUBSET Places,
         found : SUBSET Identifiers, rating : SUBSET (Identifiers \X {"rated", "fallback"})]

WorkTyped ==
  /\ AssetTypeOK
  /\ work \in [Runs -> Work]
  /\ reportDoc \in [AssetTasks -> [made : BOOLEAN, counts : SUBSET Identifiers]]

AssetInd == WorkTyped /\ ListedInd /\ EndedInd /\ HeldInd

-----------------------------------------------------------------------------
(* Types *)

Nodes == {"idle", "parse", "discover", "alive", "ports", "assets", "fingerprint", "services", "cve",
          "nuclei", "save", "analyse", "rate", "report", "complete", "close", "ack", "fail"}

LEMMA TaskOfRun == \A r \in Runs : TaskOf(r) \in AssetTasks
BY DEF Runs, TaskOf

\* What matches among some places and rules matches among more of them.
LEMMA MatchMonotone ==
  ASSUME NEW P \in SUBSET Places, NEW R \in SUBSET LoadCveRules(RuleIndex)
  PROVE  MatchByCpe(P, R) \subseteq Identifiers
<1>1. MatchByCpe(P, R) \subseteq MatchByCpe(Places, LoadCveRules(RuleIndex))
  BY DEF MatchByCpe
<1> QED BY <1>1 DEF Identifiers

LEMMA HitsMonotone ==
  ASSUME NEW P \in SUBSET Places
  PROVE  NucleiHits(P) \subseteq Identifiers
<1>1. NucleiHits(P) \subseteq NucleiHits(Places)
  BY DEF NucleiHits
<1> QED BY <1>1 DEF Identifiers

LEMMA BlankIsWork == Blank \in Work
BY DEF Blank, Work

LEMMA ReachListens ==
  ASSUME NEW r \in ScanRequests
  PROVE  Reach(r) \subseteq Listening
BY AssetAssumption DEF Reach, AcceptedRequests

LEMMA AssetInitInd == AssetInit => AssetInd
<1> SUFFICES ASSUME AssetInit PROVE AssetInd
  OBVIOUS
<1> USE DEF AssetInit
<1>1. WorkTyped
  <2>1. work \in [Runs -> Work]
    BY BlankIsWork
  <2>2. reportDoc \in [AssetTasks -> [made : BOOLEAN, counts : SUBSET Identifiers]]
    BY DEF NoReport
  <2>3. AssetTypeOK
    BY <2>1, <2>2, AssetAssumption DEF AssetTypeOK, Work, NoDoc, Following
  <2> QED BY <2>1, <2>2, <2>3 DEF WorkTyped
<1>2. ListedInd
  BY DEF ListedInd, Blank, NoReport
<1>3. EndedInd
  BY TaskOfRun DEF EndedInd
<1>4. HeldInd
  BY DEF HeldInd
<1> QED BY <1>1, <1>2, <1>3, <1>4 DEF AssetInd

-----------------------------------------------------------------------------
(* A step of a run *)

\* A step that moves one run on to a node it may be at and leaves the documents,
\* the entry and the past alone.
MayBeAt(r, n, w) ==
  /\ n \in Unmatched => w.found = {}
  /\ n \in {"analyse", "rate", "report"} => \A v \in w.found : Listed(TaskOf(r), v)
  /\ n = "complete" => reportDoc[TaskOf(r)].made \/ TaskOf(r) \in wiped
  /\ n \in {"close", "ack"} => Excused(TaskOf(r))
  /\ n # "idle" => assetNode[r] # "idle"
  /\ n # "ack"

FaultsCount == assetFaults' \in assetFaults .. MaxAssetFaults

LEMMA FaultsCounted ==
  ASSUME AssetTypeOK, AssetFault \/ Smoothly
  PROVE  FaultsCount
BY AssetAssumption DEF AssetTypeOK, AssetFault, Smoothly, FaultsCount

\* A run at work that goes on, or ends, holds its entry as before.
LEMMA HeldMoves ==
  ASSUME HeldInd, NEW r \in Runs, NEW n, n # "ack", n # "idle" => assetNode[r] # "idle",
         \A q \in Runs : assetNode'[q] = (IF q = r THEN n ELSE assetNode[q]),
         assetFaults' = 0 => assetFaults = 0, UNCHANGED <<taskDoc, entry, wiped, doubled, deleting>>
  PROVE  HeldInd'
<1>1. ASSUME NEW q \in Runs, assetNode'[q] # "idle", TaskOf(q) \notin doubled
      PROVE  /\ entry[TaskOf(q)] = "pending"
             /\ \A p \in Runs \ {q} : TaskOf(p) = TaskOf(q) => assetNode'[p] = "idle"
             /\ assetNode'[q] = "ack" /\ TaskOf(q) \notin wiped => taskDoc[TaskOf(q)] = "completed"
  <2>1. assetNode[q] # "idle"
    BY <1>1
  <2>2. /\ entry[TaskOf(q)] = "pending"
        /\ \A p \in Runs \ {q} : TaskOf(p) = TaskOf(q) => assetNode[p] = "idle"
        /\ assetNode[q] = "ack" /\ TaskOf(q) \notin wiped => taskDoc[TaskOf(q)] = "completed"
    BY <1>1, <2>1 DEF HeldInd
  <2> QED BY <1>1, <2>2
<1>2. \A t \in AssetTasks \ (wiped \union doubled) :
        /\ entry[t] = "acked" => taskDoc[t] = "completed"
        /\ assetFaults' = 0 =>
             /\ entry[t] # "none" => taskDoc[t] # "none"
             /\ entry[t] = "dlq" => taskDoc[t] = "failed"
  BY DEF HeldInd
<1> QED BY <1>1, <1>2 DEF HeldInd

LEMMA RunMoves ==
  ASSUME AssetInd, NEW r \in Runs, NEW n \in Nodes, NEW w \in Work, MayBeAt(r, n, w),
         assetNode' = [assetNode EXCEPT ![r] = n], work' = [work EXCEPT ![r] = w], FaultsCount,
         UNCHANGED <<request, taskDoc, queueSide, cancelKey, deleting, assetResults, assetPast, assetCalls>>
  PROVE  AssetInd'
<1> USE DEF queueSide, assetResults, assetPast
<1>0. WorkTyped /\ AssetTypeOK /\ ListedInd /\ EndedInd /\ HeldInd
  BY DEF AssetInd, WorkTyped
<1>1. assetNode \in [Runs -> Nodes] /\ work \in [Runs -> Work]
  BY <1>0 DEF AssetTypeOK, WorkTyped, Nodes
<1>2. assetNode' \in [Runs -> Nodes] /\ work' \in [Runs -> Work]
  BY <1>1
<1>3. WorkTyped'
  <2>1. assetFaults' \in 0 .. MaxAssetFaults
    BY <1>0, AssetAssumption DEF FaultsCount, AssetTypeOK
  <2>2. AssetTypeOK'
    BY <1>0, <1>2, <2>1 DEF AssetTypeOK, Nodes, Work
  <2> QED BY <1>0, <1>2, <2>2 DEF WorkTyped
<1>4. \A q \in Runs : /\ assetNode'[q] = (IF q = r THEN n ELSE assetNode[q])
                      /\ work'[q] = (IF q = r THEN w ELSE work[q])
  BY <1>1
<1>5. ListedInd'
  BY <1>0, <1>4 DEF ListedInd, Listed, MayBeAt
<1>6. EndedInd'
  BY <1>0, <1>4 DEF EndedInd, Excused, MayBeAt
<1>7. HeldInd'
  <2>1. assetFaults' = 0 => assetFaults = 0
    BY <1>0, AssetAssumption DEF FaultsCount, AssetTypeOK
  <2>2. \A q \in Runs : assetNode'[q] = (IF q = r THEN n ELSE assetNode[q])
    BY <1>4
  <2> QED BY <1>0, <2>1, <2>2, HeldMoves DEF MayBeAt
<1> QED BY <1>3, <1>5, <1>6, <1>7 DEF AssetInd

\* The scanners and the matching.
Looking(r) ==
  \/ ParseIntent(r) \/ Discover(r) \/ DiscoverHosts(r) \/ ScanPorts(r) \/ Fingerprint(r)
  \/ ScanServices(r) \/ MatchCves(r) \/ MatchNuclei(r) \/ RateFindings(r)

LEMMA FindingsTyped ==
  ASSUME NEW f \in SUBSET Identifiers, NEW ratings \in ParsedAnswers(f)
  PROVE  ratings \in SUBSET (Identifiers \X {"rated", "fallback"})
BY DEF ParsedAnswers

LEMMA LookingKeeps ==
  ASSUME AssetInd, NEW r \in Runs, Looking(r)
  PROVE  AssetInd'
<1> USE DEF NodeFrame, queueSide, assetResults, assetPast, Onward, With, Skip, ScannerCancelled
<1>0. WorkTyped /\ AssetTypeOK /\ ListedInd /\ EndedInd /\ HeldInd
  BY DEF AssetInd, WorkTyped
<1>1. work \in [Runs -> Work] /\ request \in [AssetTasks -> ScanRequests]
  BY <1>0 DEF AssetTypeOK, WorkTyped
<1>2. work[r] \in Work /\ (UNCHANGED work => work' = [work EXCEPT ![r] = work[r]])
  BY <1>1
<1>3. /\ work[r].up \subseteq Hosts /\ work[r].open \subseteq Places /\ work[r].services \subseteq Places
      /\ work[r].found \subseteq Identifiers
  BY <1>2 DEF Work
<1>4. TaskOf(r) \in AssetTasks
  BY TaskOfRun
<1>5. assetNode[r] \in Unmatched => work[r].found = {}
  BY <1>0 DEF ListedInd
<1>6. Blank \in Work /\ Blank.found = {}
  BY BlankIsWork DEF Blank
<1>7. UNCHANGED <<request, taskDoc, queueSide, cancelKey, deleting, assetResults, assetPast, assetCalls>>
  BY DEF Looking, ParseIntent, Discover, DiscoverHosts, ScanPorts, Fingerprint, ScanServices, MatchCves,
         MatchNuclei, RateFindings
<1>8. FaultsCount
  <2>1. AssetFault \/ Smoothly
    BY DEF Looking, ParseIntent, Discover, DiscoverHosts, ScanPorts, Fingerprint, ScanServices, MatchCves,
           MatchNuclei, RateFindings, Cancelled, NotCancelled
  <2> QED BY <1>0, <2>1, FaultsCounted
<1>9. SUFFICES \E n \in Nodes, w \in Work :
                 /\ MayBeAt(r, n, w)
                 /\ assetNode' = [assetNode EXCEPT ![r] = n] /\ work' = [work EXCEPT ![r] = w]
  BY <1>7, <1>8, RunMoves
<1> DEFINE Goal(n, w) == /\ n \in Nodes /\ w \in Work /\ MayBeAt(r, n, w)
                         /\ assetNode' = [assetNode EXCEPT ![r] = n] /\ work' = [work EXCEPT ![r] = w]
<1>10. SUFFICES \E n, w : Goal(n, w)
  OBVIOUS
<1>11. CASE ParseIntent(r)
  <2>1. Goal("discover", work[r])
    BY <1>2, <1>4, <1>5, <1>11 DEF ParseIntent, MayBeAt, Nodes, Unmatched
  <2> QED BY <2>1
<1>12. CASE Discover(r)
  <2>1. Goal("fingerprint", work[r]) \/ Goal("alive", work[r])
    BY <1>2, <1>4, <1>5, <1>12 DEF Discover, MayBeAt, Nodes, Unmatched
  <2> QED BY <2>1
<1>13. CASE DiscoverHosts(r)
  <2> DEFINE w == [work[r] EXCEPT !.up = Hosts]
  <2>1. w \in Work /\ w.found = work[r].found
    BY <1>2 DEF Work
  <2>2. assetNode[r] = "alive"
    BY <1>13 DEF DiscoverHosts
  <2>3. \/ assetNode' = [assetNode EXCEPT ![r] = "idle"] /\ work' = [work EXCEPT ![r] = Blank]
        \/ assetNode' = [assetNode EXCEPT ![r] = "ports"] /\ work' = [work EXCEPT ![r] = w]
        \/ assetNode' = [assetNode EXCEPT ![r] = "fingerprint"] /\ work' = [work EXCEPT ![r] = work[r]]
        \/ assetNode' = [assetNode EXCEPT ![r] = "fail"] /\ work' = [work EXCEPT ![r] = Blank]
    BY <1>13 DEF DiscoverHosts
  <2>4. Goal("idle", Blank) \/ Goal("ports", w) \/ Goal("fingerprint", work[r]) \/ Goal("fail", Blank)
    <3> HIDE DEF w
    <3> QED BY <1>2, <1>5, <1>6, <2>1, <2>2, <2>3 DEF MayBeAt, Nodes, Unmatched
  <2> QED BY <2>4
<1>14. CASE ScanPorts(r)
  <2> DEFINE w == [work[r] EXCEPT !.open = work[r].up \X Reach(request[TaskOf(r)])]
  <2>1. w \in Work /\ w.found = work[r].found
    <3>1. work[r].up \X Reach(request[TaskOf(r)]) \in SUBSET Places
      <4>1. Reach(request[TaskOf(r)]) \subseteq Listening
        BY <1>1, <1>4, ReachListens
      <4> QED BY <1>3, <4>1 DEF Places
    <3> QED BY <1>2, <3>1 DEF Work
  <2>2. \/ Goal("idle", Blank) \/ Goal("assets", w) \/ Goal("assets", work[r]) \/ Goal("fail", Blank)
    BY <1>2, <1>4, <1>5, <1>6, <1>14, <2>1 DEF ScanPorts, MayBeAt, Nodes, Unmatched
  <2> QED BY <2>2
<1>15. CASE Fingerprint(r)
  <2>1. Goal("cve", work[r]) \/ Goal("services", work[r])
    BY <1>2, <1>4, <1>5, <1>15 DEF Fingerprint, MayBeAt, Nodes, Unmatched
  <2> QED BY <2>1
<1>16. CASE ScanServices(r)
  <2> DEFINE w(places) == [work[r] EXCEPT !.services = places]
  <2>1. ASSUME NEW P \in SUBSET work[r].open
        PROVE  w(P) \in Work /\ w(P).found = work[r].found
    BY <1>2, <1>3 DEF Work
  <2>2. \/ assetNode' = [assetNode EXCEPT ![r] = "idle"] /\ work' = [work EXCEPT ![r] = Blank]
        \/ /\ assetNode' = [assetNode EXCEPT ![r] = "cve"]
           /\ \E P \in SUBSET work[r].open : work' = [work EXCEPT ![r] = w(P)]
    BY <1>16 DEF ScanServices
  <2>3. Goal("idle", Blank) \/ \E P \in SUBSET work[r].open : Goal("cve", w(P))
    <3> HIDE DEF w
    <3>1. assetNode[r] = "services"
      BY <1>16 DEF ScanServices
    <3> QED BY <1>4, <1>5, <1>6, <2>1, <2>2, <3>1 DEF MayBeAt, Nodes, Unmatched
  <2> QED BY <2>3
<1>17. CASE MatchCves(r)
  <2> DEFINE rules == IF "cve" \in request[TaskOf(r)].modules THEN LoadCveRules(RuleIndex) ELSE {}
             w == [work[r] EXCEPT !.found = MatchByCpe(work[r].services, rules)]
  <2>1. w \in Work
    <3>1. MatchByCpe(work[r].services, rules) \in SUBSET Identifiers
      BY <1>3, MatchMonotone
    <3> HIDE DEF rules
    <3> QED BY <1>2, <3>1 DEF Work
  <2>2. \/ assetNode' = [assetNode EXCEPT ![r] = "analyse"] /\ UNCHANGED work
        \/ assetNode' = [assetNode EXCEPT ![r] = "nuclei"] /\ work' = [work EXCEPT ![r] = w]
    BY <1>17 DEF MatchCves
  <2>3. Goal("analyse", work[r]) \/ Goal("nuclei", w)
    <3> HIDE DEF w
    <3>1. assetNode[r] = "cve"
      BY <1>17 DEF MatchCves
    <3> QED BY <1>2, <1>4, <1>5, <2>1, <2>2, <3>1 DEF MayBeAt, Nodes, Unmatched
  <2> QED BY <2>3
<1>18. CASE MatchNuclei(r)
  <2> DEFINE w(hits) == [work[r] EXCEPT !.found = @ \union hits]
  <2>1. ASSUME NEW P \in SUBSET work[r].open
        PROVE  w(NucleiHits(P)) \in Work
    <3>1. work[r].found \union NucleiHits(P) \in SUBSET Identifiers
      BY <1>3, HitsMonotone
    <3> QED BY <1>2, <3>1 DEF Work
  <2>2. \/ assetNode' = [assetNode EXCEPT ![r] = "idle"] /\ work' = [work EXCEPT ![r] = Blank]
        \/ /\ assetNode' = [assetNode EXCEPT ![r] = "save"]
           /\ \E P \in SUBSET work[r].open : work' = [work EXCEPT ![r] = w(NucleiHits(P))]
    BY <1>18 DEF MatchNuclei
  <2>3. Goal("idle", Blank) \/ \E P \in SUBSET work[r].open : Goal("save", w(NucleiHits(P)))
    <3> HIDE DEF w
    <3>1. assetNode[r] = "nuclei"
      BY <1>18 DEF MatchNuclei
    <3> QED BY <1>4, <1>6, <2>1, <2>2, <3>1 DEF MayBeAt, Nodes, Unmatched
  <2> QED BY <2>3
<1>19. CASE RateFindings(r)
  <2> DEFINE w(ratings) == [work[r] EXCEPT !.rating = ratings]
  <2>1. ASSUME NEW x \in ParsedAnswers(work[r].found)
        PROVE  w(x) \in Work /\ w(x).found = work[r].found
    <3>1. x \in SUBSET (Identifiers \X {"rated", "fallback"})
      BY <1>3, FindingsTyped
    <3> QED BY <1>2, <3>1 DEF Work
  <2>2. assetNode[r] = "analyse" /\ \A v \in work[r].found : Listed(TaskOf(r), v)
    BY <1>0, <1>19 DEF RateFindings, ListedInd
  <2>3. \/ assetNode' = [assetNode EXCEPT ![r] = "report"] /\ UNCHANGED work
        \/ /\ assetNode' = [assetNode EXCEPT ![r] = "rate"]
           /\ \E x \in ParsedAnswers(work[r].found) : work' = [work EXCEPT ![r] = w(x)]
    BY <1>19 DEF RateFindings
  <2>4. Goal("report", work[r]) \/ \E x \in ParsedAnswers(work[r].found) : Goal("rate", w(x))
    <3> HIDE DEF w
    <3> QED BY <1>2, <1>4, <2>1, <2>2, <2>3 DEF MayBeAt, Nodes, Unmatched
  <2> QED BY <2>4
<1> QED BY <1>11, <1>12, <1>13, <1>14, <1>15, <1>16, <1>17, <1>18, <1>19 DEF Looking

-----------------------------------------------------------------------------
(* What a run writes *)

LEMMA SaveAssetsKeeps ==
  ASSUME AssetInd, NEW r \in Runs, SaveAssets(r)
  PROVE  AssetInd'
<1> USE DEF SaveAssets, NodeFrame, queueSide, Onward
<1>0. WorkTyped /\ AssetTypeOK /\ ListedInd /\ EndedInd /\ HeldInd
  BY DEF AssetInd, WorkTyped
<1>1. FaultsCount
  BY <1>0, FaultsCounted
<1>2. assetFaults' \in 0 .. MaxAssetFaults /\ (assetFaults' = 0 => assetFaults = 0)
  BY <1>0, <1>1, AssetAssumption DEF FaultsCount, AssetTypeOK
<1>3. assetNode \in [Runs -> Nodes] /\ work[r].up \subseteq Hosts
  BY <1>0 DEF AssetTypeOK, Nodes
<1>4. assetNode' \in [Runs -> Nodes]
  BY <1>3, <1>0 DEF Nodes
<1>5. /\ assetNode[r] = "assets"
      /\ \A q \in Runs : assetNode'[q] = (IF q = r THEN "fingerprint" ELSE assetNode[q])
  BY <1>3
<1>6. assetDocs' \in [AssetTasks -> SUBSET Hosts]
  BY <1>0, <1>3, TaskOfRun DEF AssetTypeOK
<1>7. WorkTyped'
  <2>1. AssetTypeOK'
    BY <1>0, <1>2, <1>4, <1>6 DEF AssetTypeOK, Nodes
  <2> QED BY <1>0, <2>1 DEF WorkTyped
<1>8. ListedInd'
  BY <1>0, <1>5 DEF ListedInd, Listed, Unmatched
<1>9. EndedInd'
  BY <1>0, <1>5 DEF EndedInd, Excused
<1>10. HeldInd'
  BY <1>0, <1>2, <1>5, HeldMoves
<1> QED BY <1>7, <1>8, <1>9, <1>10 DEF AssetInd

LEMMA SaveFindingsKeeps ==
  ASSUME AssetInd, NEW r \in Runs, SaveFindings(r)
  PROVE  AssetInd'
<1> USE DEF NodeFrame, queueSide, Onward
<1> DEFINE t == TaskOf(r)
           found == work[r].found
<1>0. WorkTyped /\ AssetTypeOK /\ ListedInd /\ EndedInd /\ HeldInd
  BY DEF AssetInd, WorkTyped
<1>1. FaultsCount
  BY <1>0, FaultsCounted DEF SaveFindings
<1>2. assetFaults' \in 0 .. MaxAssetFaults /\ (assetFaults' = 0 => assetFaults = 0)
  BY <1>0, <1>1, AssetAssumption DEF FaultsCount, AssetTypeOK
<1>3. PICK n \in {"analyse", "fail"} :
        /\ assetNode[r] = "save" /\ assetNode' = [assetNode EXCEPT ![r] = n]
        /\ n = "analyse" =>
             /\ vulnDocs' = [v \in Identifiers |->
                               IF v \in found THEN [task |-> t, ai |-> "none"] ELSE vulnDocs[v]]
             /\ takenOver' = (takenOver \ ({t} \X found)) \union ({u \in AssetTasks : u # t} \X found)
        /\ n = "fail" => UNCHANGED <<vulnDocs, takenOver>>
  BY DEF SaveFindings
<1>4. UNCHANGED <<request, taskDoc, queueSide, cancelKey, deleting, work, assetDocs, reportDoc, told,
                  wiped, doubled, assetCalls>>
  BY DEF SaveFindings
<1>5. assetNode \in [Runs -> Nodes] /\ found \subseteq Identifiers /\ t \in AssetTasks
  BY <1>0, TaskOfRun DEF AssetTypeOK, Nodes
<1>6. assetNode' \in [Runs -> Nodes]
  BY <1>3, <1>5 DEF Nodes
<1>7. \A q \in Runs : assetNode'[q] = (IF q = r THEN n ELSE assetNode[q])
  BY <1>3, <1>5
<1>8. /\ vulnDocs' \in [Identifiers -> [task : AssetTasks \union {"none"}, ai : {"none", "rated", "fallback"}]]
      /\ takenOver' \subseteq AssetTasks \X Identifiers
  BY <1>0, <1>3, <1>5 DEF AssetTypeOK
<1>9. WorkTyped'
  <2>1. AssetTypeOK'
    BY <1>0, <1>2, <1>4, <1>6, <1>8 DEF AssetTypeOK, Nodes
  <2> QED BY <1>0, <1>4, <2>1 DEF WorkTyped
<1>10. ListedInd'
  <2>1. ASSUME NEW u \in AssetTasks, NEW v \in Identifiers, Listed(u, v)
        PROVE  Listed(u, v)'
    BY <1>3, <1>4, <2>1 DEF Listed
  <2>2. ASSUME NEW v \in found, n = "analyse"
        PROVE  Listed(t, v)'
    BY <1>3, <1>5, <2>2 DEF Listed
  <2>3. /\ \A q \in Runs : work[q].found \subseteq Identifiers /\ TaskOf(q) \in AssetTasks
        /\ \A u \in AssetTasks : reportDoc[u].counts \subseteq Identifiers
    BY <1>0, TaskOfRun DEF AssetTypeOK
  <2>4. ASSUME NEW q \in Runs
        PROVE  /\ assetNode'[q] \in Unmatched => work[q].found = {}
               /\ assetNode'[q] \in {"analyse", "rate", "report"}
                    => \A v \in work[q].found : Listed(TaskOf(q), v)'
    <3>1. CASE q = r
      BY <1>7, <2>2, <3>1 DEF Unmatched
    <3>2. CASE q # r
      BY <1>0, <1>7, <2>1, <2>3, <3>2 DEF ListedInd
    <3> QED BY <3>1, <3>2
  <2>5. \A u \in AssetTasks : \A v \in reportDoc[u].counts : Listed(u, v)'
    BY <1>0, <2>1, <2>3 DEF ListedInd
  <2> QED BY <1>4, <2>4, <2>5 DEF ListedInd
<1>11. EndedInd'
  BY <1>0, <1>4, <1>7 DEF EndedInd, Excused
<1>12. HeldInd'
  BY <1>0, <1>2, <1>3, <1>4, <1>7, HeldMoves
<1> QED BY <1>9, <1>10, <1>11, <1>12 DEF AssetInd

LEMMA WriteRatingKeeps ==
  ASSUME AssetInd, NEW r \in Runs, WriteRating(r)
  PROVE  AssetInd'
<1> USE DEF NodeFrame, queueSide, assetPast, Onward, With
<1>0. WorkTyped /\ AssetTypeOK /\ ListedInd /\ EndedInd /\ HeldInd
  BY DEF AssetInd, WorkTyped
<1>1. FaultsCount
  BY <1>0, FaultsCounted DEF WriteRating
<1>2. assetFaults' \in 0 .. MaxAssetFaults /\ (assetFaults' = 0 => assetFaults = 0)
  BY <1>0, <1>1, AssetAssumption DEF FaultsCount, AssetTypeOK
<1>3. work \in [Runs -> Work] /\ work[r] \in Work /\ work[r].rating \subseteq Identifiers \X {"rated", "fallback"}
  BY <1>0 DEF WorkTyped, Work
<1>4. PICK n \in {"report", "rate"} : assetNode' = [assetNode EXCEPT ![r] = n] /\ assetNode[r] = "rate"
  BY DEF WriteRating
<1>5. PICK w \in Work : work' = [work EXCEPT ![r] = w] /\ w.found = work[r].found
  <2>1. ASSUME NEW x \in work[r].rating
        PROVE  /\ [work[r] EXCEPT !.rating = @ \ {x}] \in Work
               /\ [work[r] EXCEPT !.rating = @ \ {x}].found = work[r].found
    BY <1>3 DEF Work
  <2>2. UNCHANGED work \/ \E x \in work[r].rating : work' = [work EXCEPT ![r] = [work[r] EXCEPT !.rating = @ \ {x}]]
    BY DEF WriteRating
  <2>3. CASE UNCHANGED work
    <3>1. work' = [work EXCEPT ![r] = work[r]]
      BY <1>3, <2>3
    <3> QED BY <1>3, <3>1
  <2> QED BY <2>1, <2>2, <2>3
<1>6. /\ vulnDocs' \in [Identifiers -> [task : AssetTasks \union {"none"}, ai : {"none", "rated", "fallback"}]]
      /\ \A v \in Identifiers : vulnDocs'[v].task = vulnDocs[v].task
  <2>1. vulnDocs \in [Identifiers -> [task : AssetTasks \union {"none"}, ai : {"none", "rated", "fallback"}]]
    BY <1>0 DEF AssetTypeOK
  <2>2. CASE UNCHANGED vulnDocs
    BY <2>1, <2>2
  <2>3. CASE \E x \in work[r].rating : vulnDocs' = [vulnDocs EXCEPT ![x[1]].ai = x[2]]
    <3>1. PICK x \in work[r].rating : vulnDocs' = [vulnDocs EXCEPT ![x[1]].ai = x[2]]
      BY <2>3
    <3>2. x[1] \in Identifiers /\ x[2] \in {"rated", "fallback"}
      BY <1>3
    <3>3. \A v \in Identifiers : vulnDocs'[v] = IF v = x[1] THEN [vulnDocs[v] EXCEPT !.ai = x[2]] ELSE vulnDocs[v]
      BY <2>1, <3>1, <3>2
    <3>4. \A v \in Identifiers : /\ [vulnDocs[v] EXCEPT !.ai = x[2]] \in [task : AssetTasks \union {"none"}, ai : {"none", "rated", "fallback"}]
                                 /\ [vulnDocs[v] EXCEPT !.ai = x[2]].task = vulnDocs[v].task
      BY <2>1, <3>2
    <3> QED BY <2>1, <3>1, <3>2, <3>3, <3>4
  <2> QED BY <2>2, <2>3 DEF WriteRating
<1>7. UNCHANGED <<request, taskDoc, queueSide, cancelKey, deleting, assetDocs, reportDoc, assetPast, assetCalls>>
  BY DEF WriteRating
<1>8. assetNode \in [Runs -> Nodes]
  BY <1>0 DEF AssetTypeOK, Nodes
<1>9. assetNode' \in [Runs -> Nodes] /\ work' \in [Runs -> Work]
  BY <1>3, <1>4, <1>5, <1>8 DEF Nodes
<1>10. \A q \in Runs : /\ assetNode'[q] = (IF q = r THEN n ELSE assetNode[q])
                       /\ work'[q].found = work[q].found
  BY <1>3, <1>4, <1>5, <1>8
<1>11. WorkTyped'
  <2>1. AssetTypeOK'
    BY <1>0, <1>2, <1>6, <1>7, <1>9 DEF AssetTypeOK, Nodes, Work
  <2> QED BY <1>0, <1>7, <1>9, <2>1 DEF WorkTyped
<1>12. ListedInd'
  <2>1. \A u \in AssetTasks, v \in Identifiers : Listed(u, v)' = Listed(u, v)
    BY <1>6, <1>7 DEF Listed
  <2>2. /\ \A q \in Runs : work[q].found \subseteq Identifiers /\ TaskOf(q) \in AssetTasks
        /\ \A u \in AssetTasks : reportDoc[u].counts \subseteq Identifiers
    BY <1>0, TaskOfRun DEF AssetTypeOK
  <2>3. ASSUME NEW q \in Runs
        PROVE  /\ assetNode'[q] \in Unmatched => work'[q].found = {}
               /\ assetNode'[q] \in {"analyse", "rate", "report"}
                    => \A v \in work'[q].found : Listed(TaskOf(q), v)'
    BY <1>0, <1>4, <1>10, <2>1, <2>2 DEF ListedInd, Unmatched
  <2>4. \A u \in AssetTasks : \A v \in reportDoc'[u].counts : Listed(u, v)'
    BY <1>0, <1>7, <2>1, <2>2 DEF ListedInd
  <2> QED BY <2>3, <2>4 DEF ListedInd
<1>13. EndedInd'
  BY <1>0, <1>4, <1>7, <1>10 DEF EndedInd, Excused
<1>14. HeldInd'
  BY <1>0, <1>2, <1>4, <1>7, <1>10, HeldMoves
<1> QED BY <1>11, <1>12, <1>13, <1>14 DEF AssetInd

LEMMA GenerateReportKeeps ==
  ASSUME AssetInd, NEW r \in Runs, GenerateReport(r)
  PROVE  AssetInd'
<1> USE DEF NodeFrame, queueSide, Onward, Skip
<1>0. WorkTyped /\ AssetTypeOK /\ ListedInd /\ EndedInd /\ HeldInd
  BY DEF AssetInd, WorkTyped
<1>1. FaultsCount
  <2>1. AssetFault \/ Smoothly
    BY DEF GenerateReport, Cancelled, NotCancelled
  <2> QED BY <1>0, <2>1, FaultsCounted
<1>2. assetFaults' \in 0 .. MaxAssetFaults /\ (assetFaults' = 0 => assetFaults = 0)
  BY <1>0, <1>1, AssetAssumption DEF FaultsCount, AssetTypeOK
<1> DEFINE t == TaskOf(r)
           new == [made |-> TRUE, counts |-> work[r].found]
<1>3. PICK n \in {"close", "complete", "fail"} :
        /\ assetNode[r] = "report" /\ assetNode' = [assetNode EXCEPT ![r] = n]
        /\ n = "close" => told' = told \union {t} /\ UNCHANGED reportDoc
        /\ n = "complete" => reportDoc' = [reportDoc EXCEPT ![t] = new] /\ UNCHANGED told
        /\ n = "fail" => UNCHANGED <<reportDoc, told>>
  BY DEF GenerateReport
<1>4. UNCHANGED <<request, taskDoc, queueSide, cancelKey, deleting, work, assetDocs, vulnDocs, wiped, doubled,
                  takenOver, assetCalls>>
  BY DEF GenerateReport
<1>5. /\ assetNode \in [Runs -> Nodes] /\ work[r].found \subseteq Identifiers /\ t \in AssetTasks
      /\ reportDoc \in [AssetTasks -> [made : BOOLEAN, counts : SUBSET Identifiers]]
  BY <1>0, TaskOfRun DEF AssetTypeOK, Nodes, WorkTyped
<1>6. new \in [made : BOOLEAN, counts : SUBSET Identifiers]
  BY <1>5
<1>7. /\ assetNode' \in [Runs -> Nodes] /\ told' \subseteq AssetTasks
      /\ reportDoc' \in [AssetTasks -> [made : BOOLEAN, counts : SUBSET Identifiers]]
  <2>1. assetNode' \in [Runs -> Nodes]
    BY <1>3, <1>5 DEF Nodes
  <2>2. told' \subseteq AssetTasks
    BY <1>0, <1>3, <1>5 DEF AssetTypeOK
  <2>3. reportDoc' \in [AssetTasks -> [made : BOOLEAN, counts : SUBSET Identifiers]]
    BY <1>3, <1>5, <1>6
  <2> QED BY <2>1, <2>2, <2>3
<1>8. /\ \A p \in Runs : assetNode'[p] = (IF p = r THEN n ELSE assetNode[p])
      /\ \A u \in AssetTasks : /\ reportDoc'[u] = reportDoc[u] \/ (u = t /\ reportDoc'[u] = new)
                               /\ u \in told => u \in told'
  BY <1>3, <1>5
<1>9. WorkTyped'
  <2>1. \A u \in AssetTasks : reportDoc'[u].counts \subseteq Identifiers
    BY <1>7
  <2>2. AssetTypeOK'
    BY <1>0, <1>2, <1>4, <1>7, <2>1 DEF AssetTypeOK, Nodes
  <2> QED BY <1>0, <1>4, <1>7, <2>2 DEF WorkTyped
<1>10. ListedInd'
  <2>1. \A u, v : Listed(u, v)' = Listed(u, v)
    BY <1>4 DEF Listed
  <2>2. \A v \in work[r].found : Listed(t, v)
    BY <1>0, <1>3 DEF ListedInd
  <2>3. \A u \in AssetTasks : \A v \in reportDoc'[u].counts : Listed(u, v)
    BY <1>0, <1>8, <2>2 DEF ListedInd
  <2>4. \A p \in Runs :
          /\ assetNode'[p] \in Unmatched => work[p].found = {}
          /\ assetNode'[p] \in {"analyse", "rate", "report"} => \A v \in work[p].found : Listed(TaskOf(p), v)
    BY <1>0, <1>8 DEF ListedInd, Unmatched
  <2> QED BY <1>4, <2>1, <2>3, <2>4 DEF ListedInd
<1>11. EndedInd'
  <2>1. n = "complete" => reportDoc'[t].made
    BY <1>3, <1>5
  <2>2. n = "close" => t \in told'
    BY <1>3
  <2>3. \A u \in AssetTasks : reportDoc[u].made => reportDoc'[u].made
    BY <1>8
  <2>4. \A p \in Runs : TaskOf(p) \in AssetTasks
    BY TaskOfRun
  <2> QED BY <1>0, <1>4, <1>8, <2>1, <2>2, <2>3, <2>4 DEF EndedInd, Excused
<1>12. HeldInd'
  BY <1>0, <1>2, <1>3, <1>4, <1>8, HeldMoves
<1> QED BY <1>9, <1>10, <1>11, <1>12 DEF AssetInd

\* A step that changes only the status and the entry of one task, and where the
\* runs of it are.
LEMMA StatusMoves ==
  ASSUME AssetInd, NEW t \in AssetTasks,
         NEW s \in {"none", "queued", "running", "completed", "failed"},
         NEW e \in {"none", "queued", "pending", "acked", "dlq"},
         taskDoc' = [taskDoc EXCEPT ![t] = s], entry' = [entry EXCEPT ![t] = e],
         assetNode' \in [Runs -> Nodes], work' \in [Runs -> Work], deliveries' \in [AssetTasks -> Nat],
         told' = told \/ (told' = told \ {t} /\ s # "completed"
                          /\ \A q \in Runs : TaskOf(q) = t => assetNode'[q] \notin {"close", "ack"}),
         doubled' \in {doubled, doubled \union {t}}, FaultsCount,
         UNCHANGED <<request, cancelKey, deleting, assetResults, wiped, takenOver, assetCalls>>,
         \A q \in Runs : \/ assetNode'[q] = assetNode[q] /\ work'[q] = work[q]
                         \/ /\ TaskOf(q) = t
                            /\ assetNode'[q] \notin {"analyse", "rate", "report", "complete"}
                            /\ assetNode'[q] \in Unmatched => work'[q].found = {}
                            /\ assetNode'[q] \in {"close", "ack"} => Excused(t),
         s = "completed" => Excused(t),
         t \notin doubled' => \A q \in Runs : assetNode'[q] # "idle" /\ TaskOf(q) = t =>
           /\ e = "pending"
           /\ \A p \in Runs \ {q} : TaskOf(p) = t => assetNode'[p] = "idle"
           /\ assetNode'[q] = "ack" /\ t \notin wiped => s = "completed",
         t \notin wiped \union doubled' =>
           /\ e = "acked" => s = "completed"
           /\ assetFaults' = 0 => /\ e # "none" => s # "none"
                                  /\ e = "dlq" => s = "failed"
  PROVE  AssetInd'
<1> USE DEF assetResults
<1>0. WorkTyped /\ AssetTypeOK /\ ListedInd /\ EndedInd /\ HeldInd
  BY DEF AssetInd, WorkTyped
<1>1. assetFaults' \in 0 .. MaxAssetFaults /\ (assetFaults' = 0 => assetFaults = 0)
  BY <1>0, AssetAssumption DEF FaultsCount, AssetTypeOK
<1>2. /\ taskDoc \in [AssetTasks -> {"none", "queued", "running", "completed", "failed"}]
      /\ entry \in [AssetTasks -> {"none", "queued", "pending", "acked", "dlq"}]
  BY <1>0 DEF AssetTypeOK
<1>3. /\ taskDoc' \in [AssetTasks -> {"none", "queued", "running", "completed", "failed"}]
      /\ entry' \in [AssetTasks -> {"none", "queued", "pending", "acked", "dlq"}]
  BY <1>2
<1>4. told' \subseteq AssetTasks /\ doubled' \subseteq AssetTasks
  BY <1>0 DEF AssetTypeOK
<1>5. \A u \in AssetTasks :
        /\ taskDoc'[u] = (IF u = t THEN s ELSE taskDoc[u])
        /\ entry'[u] = (IF u = t THEN e ELSE entry[u])
        /\ u # t => (u \in told <=> u \in told') /\ (u \in doubled <=> u \in doubled')
  BY <1>2
<1>6. WorkTyped'
  <2>1. \A q \in Runs : /\ work'[q].up \subseteq Hosts /\ work'[q].found \subseteq Identifiers
                        /\ {work'[q].open, work'[q].services} \subseteq SUBSET Places
                        /\ work'[q].rating \subseteq Identifiers \X {"rated", "fallback"}
    BY DEF Work
  <2>2. AssetTypeOK'
    BY <1>0, <1>1, <1>3, <1>4, <2>1 DEF AssetTypeOK, Nodes
  <2> QED BY <1>0, <2>2 DEF WorkTyped
<1>7. ListedInd'
  <2>1. \A u, v : Listed(u, v)' = Listed(u, v)
    BY DEF Listed
  <2>2. ASSUME NEW q \in Runs
        PROVE  /\ assetNode'[q] \in Unmatched => work'[q].found = {}
               /\ assetNode'[q] \in {"analyse", "rate", "report"}
                    => \A v \in work'[q].found : Listed(TaskOf(q), v)
    BY <1>0 DEF ListedInd
  <2>3. \A u \in AssetTasks : \A v \in reportDoc'[u].counts : Listed(u, v)
    BY <1>0 DEF ListedInd
  <2> QED BY <2>1, <2>2, <2>3 DEF ListedInd
<1>8. EndedInd'
  <2>1. ASSUME NEW u \in AssetTasks, Excused(u), u # t \/ told' = told
        PROVE  Excused(u)'
    BY <1>5, <2>1 DEF Excused
  <2>2. ASSUME NEW q \in Runs
        PROVE  /\ assetNode'[q] = "complete" => reportDoc[TaskOf(q)].made \/ TaskOf(q) \in wiped
               /\ assetNode'[q] \in {"close", "ack"} => Excused(TaskOf(q))'
    <3>1. assetNode'[q] = "complete" => reportDoc[TaskOf(q)].made \/ TaskOf(q) \in wiped
      BY <1>0 DEF EndedInd
    <3>2. ASSUME assetNode'[q] \in {"close", "ack"}
          PROVE  Excused(TaskOf(q))'
      <4>1. Excused(TaskOf(q))
        BY <1>0, <3>2 DEF EndedInd
      <4>2. TaskOf(q) # t \/ told' = told
        BY <3>2
      <4> QED BY <2>1, <4>1, <4>2, TaskOfRun
    <3> QED BY <3>1, <3>2
  <2>3. ASSUME NEW u \in AssetTasks, taskDoc'[u] = "completed"
        PROVE  Excused(u)'
    <3>1. Excused(u) /\ (u # t \/ told' = told)
      BY <1>0, <1>5, <2>3 DEF EndedInd
    <3> QED BY <2>1, <3>1
  <2> QED BY <2>2, <2>3 DEF EndedInd
<1>9. HeldInd'
  <2>1. ASSUME NEW q \in Runs, assetNode'[q] # "idle", TaskOf(q) \notin doubled'
        PROVE  /\ entry'[TaskOf(q)] = "pending"
               /\ \A p \in Runs \ {q} : TaskOf(p) = TaskOf(q) => assetNode'[p] = "idle"
               /\ assetNode'[q] = "ack" /\ TaskOf(q) \notin wiped => taskDoc'[TaskOf(q)] = "completed"
    <3>1. TaskOf(q) \in AssetTasks
      BY TaskOfRun
    <3>2. CASE TaskOf(q) = t
      BY <1>5, <2>1, <3>2
    <3>3. CASE TaskOf(q) # t
      <4>1. /\ assetNode'[q] = assetNode[q] /\ TaskOf(q) \notin doubled
            /\ \A p \in Runs : TaskOf(p) = TaskOf(q) => assetNode'[p] = assetNode[p]
        BY <1>5, <2>1, <3>1, <3>3
      <4>2. entry'[TaskOf(q)] = entry[TaskOf(q)] /\ taskDoc'[TaskOf(q)] = taskDoc[TaskOf(q)]
        BY <1>5, <3>1, <3>3
      <4> QED BY <1>0, <2>1, <4>1, <4>2 DEF HeldInd
    <3> QED BY <3>2, <3>3
  <2>2. ASSUME NEW u \in AssetTasks, u \notin wiped \union doubled'
        PROVE  /\ entry'[u] = "acked" => taskDoc'[u] = "completed"
               /\ assetFaults' = 0 =>
                    /\ entry'[u] # "none" => taskDoc'[u] # "none"
                    /\ entry'[u] = "dlq" => taskDoc'[u] = "failed"
    <3>1. /\ entry[u] = "acked" => taskDoc[u] = "completed"
          /\ assetFaults = 0 => /\ entry[u] # "none" => taskDoc[u] # "none"
                                /\ entry[u] = "dlq" => taskDoc[u] = "failed"
      BY <1>0, <1>5, <2>2 DEF HeldInd
    <3> QED BY <1>1, <1>5, <2>2, <3>1
  <2>3. \A u \in AssetTasks : deleting'[u] # "none" => u \in wiped'
    BY <1>0 DEF HeldInd
  <2>4. wiped' = wiped
    OBVIOUS
  <2> QED BY <2>1, <2>2, <2>3, <2>4 DEF HeldInd
<1> QED BY <1>6, <1>7, <1>8, <1>9 DEF AssetInd

LEMMA CreateKeeps ==
  ASSUME AssetInd, NEW t \in AssetTasks, CreateTask(t)
  PROVE  AssetInd'
<1> USE DEF queueSide, assetPast
<1>0. WorkTyped /\ AssetTypeOK /\ ListedInd /\ EndedInd /\ HeldInd
  BY DEF AssetInd, WorkTyped
<1>1. FaultsCount
  <2>1. AssetFault \/ Smoothly
    BY DEF CreateTask, EnqueueAssetTask
  <2> QED BY <1>0, <2>1, FaultsCounted
<1>2. /\ taskDoc \in [AssetTasks -> {"none", "queued", "running", "completed", "failed"}]
      /\ entry \in [AssetTasks -> {"none", "queued", "pending", "acked", "dlq"}]
      /\ assetNode \in [Runs -> Nodes] /\ work \in [Runs -> Work] /\ deliveries \in [AssetTasks -> Nat]
  BY <1>0 DEF AssetTypeOK, WorkTyped, Nodes
<1>3. /\ entry[t] = "none" /\ taskDoc[t] = "none"
      /\ UNCHANGED <<request, deliveries, cancelKey, deleting, assetNode, work, assetResults, assetPast, assetCalls>>
  BY DEF CreateTask
<1>4. PICK s \in {"none", "queued"}, e \in {"none", "queued"} :
        /\ taskDoc' = [taskDoc EXCEPT ![t] = s] /\ entry' = [entry EXCEPT ![t] = e]
        /\ s = "none" => AssetFault
  <2>1. taskDoc = [taskDoc EXCEPT ![t] = "none"] /\ entry = [entry EXCEPT ![t] = "none"]
    BY <1>2, <1>3
  <2> QED BY <2>1 DEF CreateTask, EnqueueAssetTask
<1>5. s = "none" => assetFaults' # 0
  BY <1>0, <1>4 DEF AssetTypeOK, AssetFault
<1>6. t \notin doubled => \A q \in Runs : TaskOf(q) = t => assetNode[q] = "idle"
  BY <1>0, <1>3 DEF HeldInd
<1>7. doubled' \in {doubled, doubled \union {t}} /\ told' = told
  BY <1>3
<1> HIDE DEF queueSide, assetPast
<1>8. UNCHANGED <<request, cancelKey, deleting, assetResults, wiped, takenOver, assetCalls>>
  BY <1>3 DEF assetPast
<1>9. /\ s \in {"none", "queued", "running", "completed", "failed"} /\ s # "completed"
      /\ e \in {"none", "queued", "pending", "acked", "dlq"} /\ e \notin {"acked", "dlq"}
  OBVIOUS
<1>10. t \notin doubled' => \A q \in Runs : TaskOf(q) = t => assetNode'[q] = "idle"
  BY <1>3, <1>6 DEF assetPast
<1> QED BY <1>1, <1>2, <1>3, <1>4, <1>5, <1>7, <1>8, <1>9, <1>10, StatusMoves

LEMMA BeginKeeps ==
  ASSUME AssetInd, NEW r \in Runs, BeginTask(r)
  PROVE  AssetInd'
<1> DEFINE t == TaskOf(r)
           alone == AtWork(t) = {}
<1>0. WorkTyped /\ AssetTypeOK /\ ListedInd /\ EndedInd /\ HeldInd
  BY DEF AssetInd, WorkTyped
<1>1. FaultsCount
  <2>1. AssetFault \/ Smoothly
    BY DEF BeginTask, Update
  <2> QED BY <1>0, <2>1, FaultsCounted
<1>2. /\ taskDoc \in [AssetTasks -> {"none", "queued", "running", "completed", "failed"}]
      /\ entry \in [AssetTasks -> {"none", "queued", "pending", "acked", "dlq"}]
      /\ assetNode \in [Runs -> Nodes] /\ work \in [Runs -> Work] /\ deliveries \in [AssetTasks -> Nat]
      /\ t \in AssetTasks
  BY <1>0, TaskOfRun DEF AssetTypeOK, WorkTyped, Nodes
<1>3. /\ entry[t] \in {"queued", "pending"} /\ entry' = [entry EXCEPT ![t] = "pending"]
      /\ assetNode[r] = "idle" /\ UNCHANGED work
      /\ UNCHANGED <<request, cancelKey, deleting, assetResults, wiped, takenOver, assetCalls>>
      /\ told' = (IF alone /\ taskDoc'[t] = "running" THEN told \ {t} ELSE told)
      /\ doubled' = (IF alone THEN doubled ELSE doubled \union {t})
  BY DEF BeginTask
<1>4. deliveries' \in [AssetTasks -> Nat]
  BY <1>2 DEF BeginTask
<1>5. PICK n \in {"parse", "fail"}, s \in {"none", "queued", "running", "completed", "failed"} :
        /\ assetNode' = [assetNode EXCEPT ![r] = n] /\ taskDoc' = [taskDoc EXCEPT ![t] = s]
        /\ s = "running" \/ s = taskDoc[t]
        /\ s = "none" => assetFaults' = assetFaults
  <2>1. taskDoc = [taskDoc EXCEPT ![t] = taskDoc[t]] /\ taskDoc[t] \in {"none", "queued", "running", "completed", "failed"}
    BY <1>2
  <2>2. CASE taskDoc' = [taskDoc EXCEPT ![t] = "running"] /\ Onward(r, "parse")
    BY <2>2 DEF Onward
  <2>3. CASE Onward(r, "fail") /\ UNCHANGED taskDoc /\ (taskDoc[t] = "none" => Smoothly)
    BY <2>1, <2>3 DEF Onward, Smoothly
  <2> QED BY <2>2, <2>3 DEF BeginTask, Update
<1>6. \A q \in Runs : assetNode'[q] = (IF q = r THEN n ELSE assetNode[q])
  BY <1>2, <1>5
<1>7. taskDoc'[t] = s
  BY <1>2, <1>5
<1>8. assetNode' \in [Runs -> Nodes]
  BY <1>2, <1>5 DEF Nodes
<1>9. alone => \A q \in Runs : TaskOf(q) = t => assetNode[q] = "idle"
  BY DEF AtWork
<1>10. told' = told \/ /\ told' = told \ {t} /\ s # "completed"
                       /\ \A q \in Runs : TaskOf(q) = t => assetNode'[q] \notin {"close", "ack"}
  BY <1>3, <1>6, <1>7, <1>9
<1>11. \A q \in Runs : \/ assetNode'[q] = assetNode[q] /\ work'[q] = work[q]
                       \/ /\ TaskOf(q) = t
                          /\ assetNode'[q] \notin {"analyse", "rate", "report", "complete"}
                          /\ assetNode'[q] \in Unmatched => work'[q].found = {}
                          /\ assetNode'[q] \in {"close", "ack"} => Excused(t)
  <2>1. work[r].found = {}
    BY <1>0, <1>3 DEF ListedInd, Unmatched
  <2> QED BY <1>3, <1>6, <2>1
<1>12. s = "completed" => Excused(t)
  BY <1>0, <1>2, <1>5 DEF EndedInd
<1>13. t \notin doubled' => \A q \in Runs : assetNode'[q] # "idle" /\ TaskOf(q) = t =>
         /\ \A p \in Runs \ {q} : TaskOf(p) = t => assetNode'[p] = "idle"
         /\ assetNode'[q] # "ack"
  BY <1>3, <1>6, <1>9
<1>14. t \notin wiped \union doubled' => (assetFaults' = 0 => s # "none")
  <2>1. t \notin wiped \union doubled' => t \notin wiped \union doubled
    BY <1>3
  <2> QED BY <1>0, <1>2, <1>3, <1>5, <2>1 DEF HeldInd
<1>15. doubled' \in {doubled, doubled \union {t}} /\ work' \in [Runs -> Work]
  BY <1>2, <1>3
<1>16. t \notin doubled' => \A q \in Runs : assetNode'[q] # "idle" /\ TaskOf(q) = t =>
         /\ "pending" = "pending"
         /\ \A p \in Runs \ {q} : TaskOf(p) = t => assetNode'[p] = "idle"
         /\ assetNode'[q] = "ack" /\ t \notin wiped => s = "completed"
  BY <1>13
<1>17. t \notin wiped \union doubled' =>
         /\ "pending" = "acked" => s = "completed"
         /\ assetFaults' = 0 => /\ "pending" # "none" => s # "none"
                                /\ "pending" = "dlq" => s = "failed"
  BY <1>14
<1>18. UNCHANGED <<request, cancelKey, deleting, assetResults, wiped, takenOver, assetCalls>>
  BY <1>3
<1>19. entry' = [entry EXCEPT ![t] = "pending"] /\ taskDoc' = [taskDoc EXCEPT ![t] = s] /\ t \in AssetTasks
  BY <1>2, <1>3, <1>5
<1>20. "pending" \in {"none", "queued", "pending", "acked", "dlq"}
  OBVIOUS
<1> HIDE DEF t, alone
<1> QED BY <1>1, <1>4, <1>8, <1>10, <1>11, <1>12, <1>15, <1>16, <1>17, <1>18, <1>19, <1>20, StatusMoves

\* A run at work that comes to a later step of its close, or ends.
LEMMA RunSettles ==
  ASSUME AssetInd, NEW r \in Runs, assetNode[r] # "idle", NEW n \in {"idle", "fail", "close", "ack"},
         NEW s \in {"none", "queued", "running", "completed", "failed"},
         NEW e \in {"none", "queued", "pending", "acked", "dlq"},
         taskDoc' = [taskDoc EXCEPT ![TaskOf(r)] = s], entry' = [entry EXCEPT ![TaskOf(r)] = e],
         assetNode' = [assetNode EXCEPT ![r] = n], FaultsCount,
         work' = [work EXCEPT ![r] = Blank] \/ (UNCHANGED work /\ n # "idle"),
         UNCHANGED <<request, deliveries, cancelKey, deleting, assetResults, assetPast, assetCalls>>,
         n \in {"close", "ack"} \/ s = "completed" => Excused(TaskOf(r)),
         TaskOf(r) \notin doubled =>
           /\ n # "idle" => e = "pending"
           /\ n = "ack" => s = "completed",
         TaskOf(r) \notin wiped \union doubled =>
           /\ e = "acked" => s = "completed"
           /\ assetFaults' = 0 => /\ e # "none" => s # "none"
                                  /\ e = "dlq" => s = "failed"
  PROVE  AssetInd'
<1> DEFINE t == TaskOf(r)
<1>0. WorkTyped /\ AssetTypeOK /\ ListedInd /\ EndedInd /\ HeldInd
  BY DEF AssetInd, WorkTyped
<1>1. /\ assetNode \in [Runs -> Nodes] /\ work \in [Runs -> Work] /\ deliveries \in [AssetTasks -> Nat]
      /\ t \in AssetTasks
  BY <1>0, TaskOfRun DEF AssetTypeOK, WorkTyped, Nodes
<1>2. \A q \in Runs : assetNode'[q] = (IF q = r THEN n ELSE assetNode[q])
  BY <1>1
<1>3. assetNode' \in [Runs -> Nodes] /\ work' \in [Runs -> Work] /\ deliveries' \in [AssetTasks -> Nat]
  BY <1>1, BlankIsWork DEF Nodes
<1>4. \A q \in Runs : \/ assetNode'[q] = assetNode[q] /\ work'[q] = work[q]
                      \/ /\ TaskOf(q) = t
                         /\ assetNode'[q] \notin {"analyse", "rate", "report", "complete"}
                         /\ assetNode'[q] \in Unmatched => work'[q].found = {}
                         /\ assetNode'[q] \in {"close", "ack"} => Excused(t)
  BY <1>1, <1>2 DEF Blank, Unmatched
<1>5. t \notin doubled => \A q \in Runs : assetNode'[q] # "idle" /\ TaskOf(q) = t =>
        q = r /\ \A p \in Runs \ {q} : TaskOf(p) = t => assetNode'[p] = "idle"
  BY <1>0, <1>2 DEF HeldInd
<1>6. told' = told /\ doubled' = doubled
      /\ UNCHANGED <<request, cancelKey, deleting, assetResults, wiped, takenOver, assetCalls>>
  BY DEF assetPast
<1>7. s = "completed" => Excused(t)
  OBVIOUS
<1>8. t \notin doubled' => \A q \in Runs : assetNode'[q] # "idle" /\ TaskOf(q) = t =>
         /\ e = "pending"
         /\ \A p \in Runs \ {q} : TaskOf(p) = t => assetNode'[p] = "idle"
         /\ assetNode'[q] = "ack" /\ t \notin wiped => s = "completed"
  <2> SUFFICES ASSUME t \notin doubled', NEW q \in Runs, assetNode'[q] # "idle", TaskOf(q) = t
               PROVE  /\ e = "pending"
                      /\ \A p \in Runs \ {q} : TaskOf(p) = t => assetNode'[p] = "idle"
                      /\ assetNode'[q] = "ack" => s = "completed"
    OBVIOUS
  <2>1. q = r /\ \A p \in Runs \ {q} : TaskOf(p) = t => assetNode'[p] = "idle"
    BY <1>5, <1>6
  <2>2. assetNode'[q] = n
    BY <1>2, <2>1
  <2> QED BY <1>6, <2>1, <2>2
<1>9. t \notin wiped \union doubled' =>
           /\ e = "acked" => s = "completed"
           /\ assetFaults' = 0 => /\ e # "none" => s # "none"
                                  /\ e = "dlq" => s = "failed"
  BY <1>6
<1>10. taskDoc' = [taskDoc EXCEPT ![t] = s] /\ entry' = [entry EXCEPT ![t] = e]
  OBVIOUS
<1>11. doubled' \in {doubled, doubled \union {t}}
  BY <1>6
<1> HIDE DEF t
<1> QED BY <1>1, <1>3, <1>4, <1>6, <1>7, <1>8, <1>9, <1>10, <1>11, StatusMoves

\* The runner and the queue.
Settling(r) == FailTask(r) \/ CloseTask(r) \/ AckTask(r) \/ CompleteTask(r)

LEMMA SettlingKeeps ==
  ASSUME AssetInd, NEW r \in Runs, Settling(r)
  PROVE  AssetInd'
<1> USE DEF queueSide, Onward, With, Update
<1> DEFINE t == TaskOf(r)
           Statuses == {"none", "queued", "running", "completed", "failed"}
           Entries == {"none", "queued", "pending", "acked", "dlq"}
<1>0. WorkTyped /\ AssetTypeOK /\ ListedInd /\ EndedInd /\ HeldInd
  BY DEF AssetInd, WorkTyped
<1>1. FaultsCount
  <2>1. AssetFault \/ Smoothly
    BY DEF Settling, FailTask, CloseTask, AckTask, CompleteTask
  <2> QED BY <1>0, <2>1, FaultsCounted
<1>2. assetFaults' \in Nat /\ (assetFaults' = 0 => assetFaults = 0) /\ (AssetFault => assetFaults' # 0)
  BY <1>0, <1>1, AssetAssumption DEF FaultsCount, AssetTypeOK, AssetFault
<1>3. /\ taskDoc \in [AssetTasks -> Statuses] /\ entry \in [AssetTasks -> Entries] /\ t \in AssetTasks
  BY <1>0, TaskOfRun DEF AssetTypeOK
<1>4. /\ taskDoc = [taskDoc EXCEPT ![t] = taskDoc[t]] /\ taskDoc[t] \in Statuses
      /\ entry = [entry EXCEPT ![t] = entry[t]] /\ entry[t] \in Entries
  BY <1>3
<1>5. UNCHANGED <<request, deliveries, cancelKey, deleting, assetResults, assetPast, assetCalls>>
  BY DEF Settling, FailTask, CloseTask, AckTask, CompleteTask
\* What is known of the task.
<1>6. /\ assetNode[r] \in {"close", "ack", "complete"} \/ taskDoc[t] = "completed" => Excused(t)
      /\ assetNode[r] # "idle" /\ t \notin doubled => entry[t] = "pending"
      /\ assetNode[r] = "ack" /\ t \notin wiped \union doubled => taskDoc[t] = "completed"
      /\ t \notin wiped \union doubled =>
           /\ entry[t] = "acked" => taskDoc[t] = "completed"
           /\ assetFaults = 0 => /\ entry[t] # "none" => taskDoc[t] # "none"
                                 /\ entry[t] = "dlq" => taskDoc[t] = "failed"
  BY <1>0, <1>3 DEF HeldInd, EndedInd, Excused
<1>7. CASE FailTask(r)
  <2>1. /\ assetNode[r] = "fail" /\ work' = [work EXCEPT ![r] = Blank]
        /\ assetNode' = [assetNode EXCEPT ![r] = "idle"]
    BY <1>7 DEF FailTask
  <2>2. PICK e \in Entries : /\ entry' = [entry EXCEPT ![t] = e]
                             /\ e = entry[t] \/ (e = "dlq" /\ entry[t] = "pending")
    BY <1>4, <1>7 DEF FailTask
  <2>3. PICK s \in Statuses : /\ taskDoc' = [taskDoc EXCEPT ![t] = s]
                              /\ \/ s = "failed"
                                 \/ s = taskDoc[t] /\ (s = "none" \/ AssetFault)
    BY <1>4, <1>7 DEF FailTask
  <2>4. s = "completed" => Excused(t)
    BY <1>6, <2>3
  <2>5. t \notin wiped \union doubled =>
          /\ e = "acked" => s = "completed"
          /\ assetFaults' = 0 => /\ e # "none" => s # "none"
                                 /\ e = "dlq" => s = "failed"
    BY <1>2, <1>6, <2>1, <2>2, <2>3
  <2> HIDE DEF t
  <2> QED BY <1>1, <1>5, <2>1, <2>2, <2>3, <2>4, <2>5, RunSettles DEF t
<1>8. CASE CloseTask(r) \/ CompleteTask(r)
  <2>1. /\ assetNode[r] \in {"close", "complete"} /\ UNCHANGED <<entry, work>>
    BY <1>8 DEF CloseTask, CompleteTask
  <2>2. PICK s \in Statuses, n \in {"fail", "close", "ack"} :
          /\ taskDoc' = [taskDoc EXCEPT ![t] = s] /\ assetNode' = [assetNode EXCEPT ![r] = n]
          /\ s = "completed" \/ (s = taskDoc[t] /\ n = "fail")
          /\ taskDoc[t] # "none" \/ s = "none"
    BY <1>4, <1>8 DEF CloseTask, CompleteTask
  <2>3. t \notin wiped \union doubled =>
          /\ entry[t] = "acked" => s = "completed"
          /\ assetFaults' = 0 => /\ entry[t] # "none" => s # "none"
                                 /\ entry[t] = "dlq" => s = "failed"
    BY <1>2, <1>6, <2>1, <2>2
  <2>4. entry' = [entry EXCEPT ![t] = entry[t]]
    BY <1>4, <2>1
  <2>5. n \in {"close", "ack"} \/ s = "completed" => Excused(t)
    BY <1>6, <2>1
  <2> HIDE DEF t
  <2> QED BY <1>1, <1>4, <1>5, <1>6, <2>1, <2>2, <2>3, <2>4, <2>5, RunSettles DEF t
<1>9. CASE AckTask(r)
  <2>1. /\ assetNode[r] = "ack" /\ UNCHANGED taskDoc /\ work' = [work EXCEPT ![r] = Blank]
        /\ assetNode' = [assetNode EXCEPT ![r] = "idle"]
    BY <1>9 DEF AckTask
  <2>2. PICK e \in Entries : /\ entry' = [entry EXCEPT ![t] = e]
                             /\ e = entry[t] \/ (e = "acked" /\ entry[t] = "pending")
    BY <1>4, <1>9 DEF AckTask
  <2>3. taskDoc' = [taskDoc EXCEPT ![t] = taskDoc[t]]
    BY <1>4, <2>1
  <2>4. t \notin wiped \union doubled =>
          /\ e = "acked" => taskDoc[t] = "completed"
          /\ assetFaults' = 0 => /\ e # "none" => taskDoc[t] # "none"
                                 /\ e = "dlq" => taskDoc[t] = "failed"
    BY <1>2, <1>6, <2>1, <2>2
  <2> HIDE DEF t
  <2> QED BY <1>1, <1>4, <1>5, <1>6, <2>1, <2>2, <2>3, <2>4, RunSettles DEF t
<1> QED BY <1>7, <1>8, <1>9 DEF Settling

-----------------------------------------------------------------------------
(* Calls, and the death of the service *)

\* A delete call counts the task as wiped from its start.
LEMMA DeleteStarts ==
  ASSUME AssetInd, NEW t \in AssetTasks, DeleteAssetTask(t)
  PROVE  AssetInd'
<1> USE DEF DeleteAssetTask, queueSide, assetResults
<1>0. WorkTyped /\ AssetTypeOK /\ ListedInd /\ EndedInd /\ HeldInd
  BY DEF AssetInd, WorkTyped
<1>1. /\ deleting' \in [AssetTasks -> DOMAIN Following \union {"none"}] /\ wiped' \subseteq AssetTasks
      /\ assetCalls' \in 0 .. MaxAssetCalls
  <2>1. "tasks" \in DOMAIN Following
    BY DEF Following
  <2> QED BY <1>0, <2>1, AssetAssumption DEF AssetTypeOK, AssetCall
<1>2. WorkTyped'
  <2>1. AssetTypeOK'
    BY <1>0, <1>1 DEF AssetTypeOK
  <2> QED BY <1>0, <2>1 DEF WorkTyped
<1>3. ListedInd'
  BY <1>0 DEF ListedInd, Listed
<1>4. EndedInd'
  BY <1>0 DEF EndedInd, Excused
<1>5. HeldInd'
  BY <1>0 DEF HeldInd
<1> QED BY <1>2, <1>3, <1>4, <1>5 DEF AssetInd

\* Whoever has a deletion under way is wiped.
LEMMA DeleteKeeps ==
  ASSUME AssetInd, NEW t \in AssetTasks, DeleteNext(t)
  PROVE  AssetInd'
<1> USE DEF queueSide, assetPast, assetResults
<1>0. WorkTyped /\ AssetTypeOK /\ ListedInd /\ EndedInd /\ HeldInd
  BY DEF AssetInd, WorkTyped
<1>1. t \in wiped
  BY <1>0 DEF HeldInd, DeleteNext
<1>2. /\ assetFaults' \in 0 .. MaxAssetFaults /\ (assetFaults' = 0 => assetFaults = 0)
  <2>1. AssetFault \/ Smoothly
    BY DEF DeleteNext
  <2>2. FaultsCount
    BY <1>0, <2>1, FaultsCounted
  <2> QED BY <1>0, <2>2, AssetAssumption DEF FaultsCount, AssetTypeOK
<1>3. /\ taskDoc \in [AssetTasks -> {"none", "queued", "running", "completed", "failed"}]
      /\ assetDocs \in [AssetTasks -> SUBSET Hosts]
      /\ vulnDocs \in [Identifiers -> [task : AssetTasks \union {"none"}, ai : {"none", "rated", "fallback"}]]
      /\ reportDoc \in [AssetTasks -> [made : BOOLEAN, counts : SUBSET Identifiers]]
      /\ deleting \in [AssetTasks -> DOMAIN Following \union {"none"}] /\ cancelKey \subseteq AssetTasks
  BY <1>0 DEF AssetTypeOK, WorkTyped
<1>4. UNCHANGED <<request, queueSide, assetNode, work, assetPast, assetCalls>>
  BY DEF DeleteNext
<1>5. /\ taskDoc' \in [AssetTasks -> {"none", "queued", "running", "completed", "failed"}]
      /\ \A u \in AssetTasks : taskDoc'[u] = taskDoc[u] \/ (u = t /\ taskDoc'[u] = "none")
  BY <1>3 DEF DeleteNext
<1>6. assetDocs' \in [AssetTasks -> SUBSET Hosts] /\ cancelKey' \subseteq AssetTasks
  BY <1>3 DEF DeleteNext
<1>7. /\ vulnDocs' \in [Identifiers -> [task : AssetTasks \union {"none"}, ai : {"none", "rated", "fallback"}]]
      /\ \A v \in Identifiers : vulnDocs'[v].task = vulnDocs[v].task \/ vulnDocs[v].task = t
  BY <1>3 DEF DeleteNext, NoDoc
<1>8. /\ reportDoc' \in [AssetTasks -> [made : BOOLEAN, counts : SUBSET Identifiers]]
      /\ \A u \in AssetTasks : reportDoc'[u] = reportDoc[u] \/ u = t
  <2>1. NoReport \in [made : BOOLEAN, counts : SUBSET Identifiers]
    BY DEF NoReport
  <2>2. PICK d \in [made : BOOLEAN, counts : SUBSET Identifiers] : reportDoc' = [reportDoc EXCEPT ![t] = d]
    <3>1. reportDoc = [reportDoc EXCEPT ![t] = reportDoc[t]]
          /\ reportDoc[t] \in [made : BOOLEAN, counts : SUBSET Identifiers]
      BY <1>3
    <3> HIDE DEF NoReport
    <3> QED BY <2>1, <3>1 DEF DeleteNext
  <2> QED BY <1>3, <2>2
<1>9. /\ deleting' \in [AssetTasks -> DOMAIN Following \union {"none"}]
      /\ \A u \in AssetTasks : u # t => deleting'[u] = deleting[u]
  <2>1. \A i \in DOMAIN Following : Following[i] \in DOMAIN Following \union {"none"}
    BY DEF Following
  <2>2. deleting[t] \in DOMAIN Following
    BY <1>3 DEF DeleteNext
  <2>3. \E i \in DOMAIN Following \union {"none"} : deleting' = [deleting EXCEPT ![t] = i]
    BY <2>1, <2>2 DEF DeleteNext
  <2> QED BY <1>3, <2>3
<1>10. WorkTyped'
  <2>1. \A u \in AssetTasks : reportDoc'[u].counts \subseteq Identifiers
    BY <1>8
  <2>2. AssetTypeOK'
    BY <1>0, <1>2, <1>4, <1>5, <1>6, <1>7, <1>9, <2>1 DEF AssetTypeOK
  <2> QED BY <1>0, <1>4, <1>8, <2>2 DEF WorkTyped
<1>11. ListedInd'
  <2>1. ASSUME NEW u \in AssetTasks, NEW v \in Identifiers, Listed(u, v)
        PROVE  Listed(u, v)'
    BY <1>1, <1>4, <1>7, <2>1 DEF Listed
  <2>2. /\ \A q \in Runs : work[q].found \subseteq Identifiers /\ TaskOf(q) \in AssetTasks
        /\ \A u \in AssetTasks : reportDoc[u].counts \subseteq Identifiers
    BY <1>0, TaskOfRun DEF AssetTypeOK
  <2>3. ASSUME NEW q \in Runs
        PROVE  /\ assetNode[q] \in Unmatched => work[q].found = {}
               /\ assetNode[q] \in {"analyse", "rate", "report"} => \A v \in work[q].found : Listed(TaskOf(q), v)'
    BY <1>0, <2>1, <2>2 DEF ListedInd
  <2>4. ASSUME NEW u \in AssetTasks
        PROVE  \A v \in reportDoc'[u].counts : Listed(u, v)'
    <3>1. CASE u = t
      BY <1>1, <1>4, <3>1 DEF Listed
    <3>2. CASE u # t
      BY <1>0, <1>8, <2>1, <2>2, <3>2 DEF ListedInd
    <3> QED BY <3>1, <3>2
  <2> QED BY <1>4, <2>3, <2>4 DEF ListedInd
<1>12. EndedInd'
  <2>1. \A q \in Runs : TaskOf(q) \in AssetTasks
    BY TaskOfRun
  <2>2. \A u \in AssetTasks : Excused(u) => Excused(u)'
    BY <1>1, <1>4, <1>8 DEF Excused
  <2> QED BY <1>0, <1>1, <1>4, <1>5, <1>8, <2>1, <2>2 DEF EndedInd
<1>13. HeldInd'
  <2>1. \A u \in AssetTasks : u \notin wiped => taskDoc'[u] = taskDoc[u]
    BY <1>1, <1>5
  <2>2. \A u \in AssetTasks : deleting'[u] # "none" => u \in wiped
    BY <1>0, <1>1, <1>9 DEF HeldInd
  <2> QED BY <1>0, <1>2, <1>4, <2>1, <2>2, TaskOfRun DEF HeldInd
<1> QED BY <1>10, <1>11, <1>12, <1>13 DEF AssetInd

LEMMA ServiceDiesKeeps ==
  ASSUME AssetInd, ServiceDies
  PROVE  AssetInd'
<1> USE DEF ServiceDies, queueSide, assetResults, assetPast
<1>0. WorkTyped /\ AssetTypeOK /\ ListedInd /\ EndedInd /\ HeldInd
  BY DEF AssetInd, WorkTyped
<1>1. assetFaults' \in 0 .. MaxAssetFaults /\ assetFaults' # 0
  BY <1>0, AssetAssumption DEF AssetTypeOK, AssetFault
<1>2. work' \in [Runs -> Work] /\ assetNode' \in [Runs -> Nodes]
  BY BlankIsWork DEF Nodes
<1>3. WorkTyped'
  <2>1. AssetTypeOK'
    BY <1>0, <1>1, <1>2 DEF AssetTypeOK, Nodes, Work
  <2> QED BY <1>0, <1>2, <2>1 DEF WorkTyped
<1>4. \A q \in Runs : assetNode'[q] = "idle" /\ work'[q].found = {}
  BY DEF Blank
<1>5. ListedInd'
  BY <1>0, <1>4 DEF ListedInd, Listed
<1>6. EndedInd'
  BY <1>0, <1>4 DEF EndedInd, Excused
<1>7. HeldInd'
  BY <1>0, <1>1, <1>4 DEF HeldInd
<1> QED BY <1>3, <1>5, <1>6, <1>7 DEF AssetInd

\* A step that only sets or removes tombstones, or none.
LEMMA TombstonesMove ==
  ASSUME AssetInd, cancelKey' \subseteq AssetTasks, assetCalls' \in 0 .. MaxAssetCalls,
         UNCHANGED <<request, taskDoc, queueSide, deleting, assetNode, work, assetResults, assetPast, assetFaults>>
  PROVE  AssetInd'
<1> USE DEF queueSide, assetResults, assetPast
<1>0. WorkTyped /\ AssetTypeOK /\ ListedInd /\ EndedInd /\ HeldInd
  BY DEF AssetInd, WorkTyped
<1>1. WorkTyped'
  <2>1. AssetTypeOK'
    BY <1>0 DEF AssetTypeOK
  <2> QED BY <1>0, <2>1 DEF WorkTyped
<1>2. ListedInd' /\ EndedInd'
  BY <1>0 DEF ListedInd, Listed, EndedInd, Excused
<1>3. HeldInd'
  BY <1>0 DEF HeldInd
<1> QED BY <1>1, <1>2, <1>3 DEF AssetInd

LEMMA AssetNextKeeps == AssetInd /\ [AssetNext]_assetVars => AssetInd'
<1> SUFFICES ASSUME AssetInd, [AssetNext]_assetVars
             PROVE  AssetInd'
  OBVIOUS
<1>0. cancelKey \subseteq AssetTasks /\ assetCalls \in 0 .. MaxAssetCalls
  BY DEF AssetInd, WorkTyped, AssetTypeOK
<1>1. CASE UNCHANGED assetVars
  <2>1. /\ UNCHANGED <<request, taskDoc, queueSide, deleting, assetNode, work, assetResults, assetPast, assetFaults>>
        /\ UNCHANGED <<cancelKey, assetCalls>>
    BY <1>1 DEF assetVars
  <2> QED BY <1>0, <2>1, TombstonesMove
<1>2. CASE SweepTombstones \/ \E t \in AssetTasks : CancelTask(t)
  <2>1. cancelKey' \subseteq AssetTasks
    BY <1>0, <1>2 DEF SweepTombstones, CancelTask
  <2>2. assetCalls' \in 0 .. MaxAssetCalls
    BY <1>0, <1>2, AssetAssumption DEF SweepTombstones, CancelTask, AssetCall
  <2>3. UNCHANGED <<request, taskDoc, queueSide, deleting, assetNode, work, assetResults, assetPast, assetFaults>>
    BY <1>2 DEF SweepTombstones, CancelTask
  <2> QED BY <2>1, <2>2, <2>3, TombstonesMove
<1>3. CASE ServiceDies
  BY <1>3, ServiceDiesKeeps
<1>4. ASSUME NEW t \in AssetTasks, CreateTask(t) \/ DeleteAssetTask(t) \/ DeleteNext(t) PROVE AssetInd'
  BY <1>4, CreateKeeps, DeleteStarts, DeleteKeeps
<1>5. ASSUME NEW r \in Runs, BeginTask(r) \/ Settling(r) PROVE AssetInd'
  BY <1>5, BeginKeeps, SettlingKeeps
<1>6. ASSUME NEW r \in Runs, Looking(r) PROVE AssetInd'
  BY <1>6, LookingKeeps
<1>7. ASSUME NEW r \in Runs, SaveAssets(r) \/ SaveFindings(r) \/ WriteRating(r) \/ GenerateReport(r)
      PROVE  AssetInd'
  BY <1>7, SaveAssetsKeeps, SaveFindingsKeeps, WriteRatingKeeps, GenerateReportKeeps
<1> QED BY <1>1, <1>2, <1>3, <1>4, <1>5, <1>6, <1>7 DEF AssetNext, Settling, Looking

-----------------------------------------------------------------------------
(* The theorem *)

\* The types, and of every task: a completed one has its report, what a report
\* counts is listed, and the queue lets go of it only when it has ended
\* (generate_report, save_vulns, delete_task, _process), also when its entry is
\* claimed while a run is still at work on it.
THEOREM AssetInvHolds == AssetSpec => []AssetInv
<1>1. AssetInit => AssetInd
  BY AssetInitInd
<1>2. AssetInd /\ [AssetNext]_assetVars => AssetInd'
  BY AssetNextKeeps
<1>3. AssetInd => AssetInv
  <2> SUFFICES ASSUME AssetInd PROVE AssetInv
    OBVIOUS
  <2>0. WorkTyped /\ AssetTypeOK /\ ListedInd /\ EndedInd /\ HeldInd
    BY DEF AssetInd, WorkTyped
  <2>1. CompletedHasReport
    BY <2>0 DEF EndedInd, Excused, CompletedHasReport
  <2>2. ReportedIsListed
    BY <2>0 DEF ListedInd, Listed, ReportedIsListed
  <2>3. LetGoWhenEnded
    BY <2>0 DEF HeldInd, LetGoWhenEnded
  <2> QED BY <2>0, <2>1, <2>2, <2>3 DEF AssetInv
<1> QED BY <1>1, <1>2, <1>3, PTL DEF AssetSpec

=============================================================================
