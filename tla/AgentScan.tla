------------------------------ MODULE AgentScan ------------------------------
(***************************************************************************)
(* The agent on one host: the WebSocket to the console and its successors, *)
(* the worker that handles the commands of a connection one by one, the    *)
(* scans they start, each a goroutine of its own, the map that finds the   *)
(* cancel function of a task, the offline queue, and the loops that beat.  *)
(* The console appears as what it sends and as the results it has saved.   *)
(***************************************************************************)
EXTENDS Integers, Sequences, FiniteSets, SequencesExt

CONSTANTS
  Commands,    \* scan commands, records [task, engine]; an engine is "matcher" or "nuclei"
  MaxConns,    \* bound: connections the agent dials
  MaxLoad,     \* bound: connections and scans together
  MaxBatches,  \* bound: batches of findings, of all scans
  MaxFaults    \* bound: results the console fails to save, queues not popped, crashes

ASSUME AgentScanAssumption ==
  /\ Commands \subseteq [task : {c.task : c \in Commands}, engine : {"matcher", "nuclei"}]
  /\ MaxConns \in Nat \ {0} /\ MaxLoad \in Nat /\ MaxBatches \in Nat /\ MaxFaults \in Nat

Tasks == {c.task : c \in Commands}
Conns == 1 .. MaxConns
NoConn == 0
Depths == {1, 2}   \* Execute, and Execute called again by runNuclei
NoScan == <<>>
Modules == {"sys_vuln", "baseline", "nuclei"}

VARIABLES
  conn,     \* Client.conn
  up,       \* connection whose transport works, if any
  dialed,   \* connections dialed so far
  reading,  \* connection the read loop reads, NoConn while Connect dials
  inbox,    \* handlerCh of each connection: what its worker has still to handle
  wire,     \* what was written to each connection and the console has not read
  unpopped, \* connections whose processQueue has not popped the queue yet
  replay,   \* what the processQueue of each connection popped and has still to send
  beating,  \* connections whose heartbeatLoop runs
  pc,       \* where the Execute of each command is
  depth,    \* which Execute that is
  done,     \* depths whose context is cancelled
  cancels,  \* ScanEngine.cancels: the Execute a task's cancel function belongs to
  batch,    \* next batch number of each scan
  scanned,  \* modules each scan has completed
  outbox,   \* the offline queue, which is on disk
  saved,    \* results of each scan the console has saved, in order
  issued,   \* commands and cancellations the console has sent
  sent,     \* history: every result handed to Client.send
  usurped,  \* history: scans during which another scan of their task began or ended
  stuck,    \* history: connections whose processQueue could not pop the queue
  faults    \* history: failures so far

link  == <<conn, up, dialed, reading, beating, stuck>>
mail  == <<wire, unpopped, replay, outbox, saved, sent>>
scans == <<pc, depth, done, cancels, batch, scanned, usurped>>
agentScanVars  == <<link, mail, scans, inbox, issued, faults>>

Results == [run : Commands, batch : 1 .. MaxBatches + 1, of : {"", "sys_vuln", "baseline", "nuclei"},
            final : BOOLEAN, scanned : SUBSET Modules]
Pcs == {"none", "spawned", "guard", "sys", "collecting", "throttle", "baseline", "checking",
        "final", "nuclei", "stream", "returning", "ended", "killed"}
Cancels == [task : Tasks, engine : {"cancel"}]
Asks == Commands \cup Cancels

AgentScanTypeOK ==
  /\ conn \in {NoConn} \cup Conns /\ up \in {NoConn} \cup Conns
  /\ dialed \in 0 .. MaxConns /\ reading \in {NoConn} \cup Conns
  /\ \A i \in Conns : /\ Range(inbox[i]) \subseteq Asks
                      /\ Range(wire[i]) \cup Range(replay[i]) \subseteq Results
  /\ unpopped \subseteq Conns /\ beating \subseteq Conns
  /\ pc \in [Commands -> Pcs] /\ depth \in [Commands -> Depths]
  /\ done \in [Commands -> SUBSET Depths]
  /\ cancels \in [Tasks -> {NoScan} \cup (Commands \X Depths)]
  /\ batch \in [Commands -> 1 .. MaxBatches + 1] /\ scanned \in [Commands -> SUBSET Modules]
  /\ Range(outbox) \cup sent \subseteq Results
  /\ \A c \in Commands : Range(saved[c]) \subseteq Results
  /\ issued \subseteq Asks /\ usurped \subseteq Commands /\ stuck \subseteq Conns
  /\ faults \in 0 .. MaxFaults

AgentScanInit ==
  /\ conn = NoConn /\ up = NoConn /\ dialed = 0 /\ reading = NoConn
  /\ inbox = [i \in Conns |-> <<>>] /\ wire = [i \in Conns |-> <<>>]
  /\ unpopped = {} /\ replay = [i \in Conns |-> <<>>] /\ beating = {}
  /\ pc = [c \in Commands |-> "none"] /\ depth = [c \in Commands |-> 1]
  /\ done = [c \in Commands |-> {}] /\ cancels = [t \in Tasks |-> NoScan]
  /\ batch = [c \in Commands |-> 1] /\ scanned = [c \in Commands |-> {}]
  /\ outbox = <<>> /\ saved = [c \in Commands |-> <<>>]
  /\ issued = {} /\ sent = {} /\ usurped = {} /\ stuck = {}
  /\ faults = 0

\* Connections so far, and commands: the bound on both.
Room == dialed + Cardinality(issued \cap Commands) < MaxLoad

Fault == faults < MaxFaults /\ faults' = faults + 1

----------------------------------------------------------------------------
(* Client.send: the queue when there is no connection; an error of the write is
   logged, and the message is gone. *)

Send(m) ==
  /\ outbox' = IF conn = NoConn THEN Append(outbox, m) ELSE outbox
  /\ wire' = IF conn # NoConn /\ conn = up THEN [wire EXCEPT ![conn] = Append(@, m)] ELSE wire

----------------------------------------------------------------------------
(* The connection *)

Dial ==
  /\ reading = NoConn /\ dialed < MaxConns /\ Room
  /\ dialed' = dialed + 1
  /\ conn' = dialed' /\ up' = dialed' /\ reading' = dialed'
  /\ unpopped' = unpopped \cup {dialed'}
  /\ beating' = beating \cup {dialed'}
  /\ UNCHANGED <<stuck, wire, replay, outbox, saved, sent, scans, inbox, issued, faults>>

\* The transport dies; some of what was written last never arrives.
Break ==
  /\ up # NoConn
  /\ \E k \in 0 .. Len(wire[up]) : wire' = [wire EXCEPT ![up] = SubSeq(@, 1, k)]
  /\ up' = NoConn
  /\ UNCHANGED <<conn, dialed, reading, beating, stuck, unpopped, replay, outbox, saved, sent, scans, inbox, issued, faults>>

\* The read fails.  Closing `done` ends the loops that wait on it: one that is
\* amid a heartbeat finds the channel that replaces it.
ReadError ==
  /\ reading # NoConn /\ reading # up
  /\ conn' = NoConn /\ reading' = NoConn
  /\ beating' \in SUBSET beating
  /\ UNCHANGED <<up, dialed, stuck, mail, scans, inbox, issued, faults>>

\* The read deadline passes: `conn` stays, closed, and so does `done`, with the loops.
ReadDeadline ==
  /\ reading # NoConn /\ reading # up
  /\ reading' = NoConn
  /\ UNCHANGED <<conn, up, dialed, beating, stuck, mail, scans, inbox, issued, faults>>

\* Defect: the queue is emptied only after everything was sent again.
PopNothing(i) ==
  /\ i \in unpopped
  /\ unpopped' = unpopped \ {i}
  /\ replay' = [replay EXCEPT ![i] = outbox]
  /\ UNCHANGED <<outbox, link, wire, saved, sent, scans, inbox, issued,
                 faults>>

\* processQueue takes everything off the disk before it sends the first message.
PopAll(i) ==
  /\ i \in unpopped
  /\ unpopped' = unpopped \ {i}
  /\ replay' = [replay EXCEPT ![i] = outbox] /\ outbox' = <<>>
  /\ UNCHANGED <<link, wire, saved, sent, scans, inbox, issued, faults>>

\* The transaction fails, and processQueue gives up: rolled back, or committed and
\* the answer lost.
PopFails(i) ==
  /\ i \in unpopped /\ Fault
  /\ unpopped' = unpopped \ {i} /\ stuck' = stuck \cup {i}
  /\ outbox' \in {outbox, <<>>}
  /\ UNCHANGED <<conn, up, dialed, reading, beating, wire, replay, saved, sent, scans, inbox, issued>>

Resend(i) ==
  /\ replay[i] # <<>>
  /\ replay' = [replay EXCEPT ![i] = Tail(@)]
  /\ Send(Head(replay[i]))
  /\ UNCHANGED <<link, unpopped, saved, sent, scans, inbox, issued, faults>>

----------------------------------------------------------------------------
(* The console *)

\* dispatch and cancel: a command goes to the connection, or is lost with it.
Ask(m) ==
  /\ m \notin issued /\ up # NoConn /\ (m \in Commands => Room)
  /\ m \in Cancels => \E c \in Commands \cap issued : c.task = m.task
  /\ issued' = issued \cup {m}
  /\ inbox' = [inbox EXCEPT ![up] = Append(@, m)]
  /\ UNCHANGED <<link, mail, scans, faults>>

\* _handle_scan_result
Save(i) ==
  /\ wire[i] # <<>>
  /\ LET m == Head(wire[i])
     IN /\ wire' = [wire EXCEPT ![i] = Tail(@)]
        /\ saved' = [saved EXCEPT ![m.run] = Append(@, m)]
  /\ UNCHANGED <<link, unpopped, replay, outbox, sent, scans, inbox, issued, faults>>

\* save_result raised: the message is dropped, the connection stays.
SaveFails(i) ==
  /\ wire[i] # <<>> /\ Fault
  /\ wire' = [wire EXCEPT ![i] = Tail(@)]
  /\ UNCHANGED <<link, unpopped, replay, outbox, saved, sent, scans, inbox, issued>>

----------------------------------------------------------------------------
(* Commands *)

\* handleMessage for scan_command: HandleScanCommand only starts a goroutine.
HandleScan(i) ==
  /\ inbox[i] # <<>> /\ Head(inbox[i]) \in Commands
  /\ inbox' = [inbox EXCEPT ![i] = Tail(@)]
  /\ pc' = [pc EXCEPT ![Head(inbox[i])] = "spawned"]
  /\ UNCHANGED <<link, mail, depth, done, cancels, batch, scanned, usurped, issued, faults>>

\* handleMessage for scan_cancel: CancelScan
HandleCancel(i) ==
  /\ inbox[i] # <<>> /\ Head(inbox[i]) \notin Commands
  /\ inbox' = [inbox EXCEPT ![i] = Tail(@)]
  /\ LET found == cancels[Head(inbox[i]).task]
     IN done' = IF found = NoScan THEN done
                ELSE [done EXCEPT ![found[1]] = @ \cup {found[2]}]
  /\ UNCHANGED <<link, mail, pc, depth, cancels, batch, scanned, usurped, issued, faults>>

----------------------------------------------------------------------------
(* Execute *)

\* Begun, and its function not deferred to yet: in the second Execute too.
Live(c) == pc[c] \notin {"none", "ended", "killed"} /\ (pc[c] = "spawned" => depth[c] = 2)
Siblings(c) == {d \in Commands \ {c} : d.task = c.task /\ Live(d)}
Cancelled(c) == depth[c] \in done[c]

Go(c, to) == pc' = [pc EXCEPT ![c] = to]

\* A batch of findings of a module.
Findings(c, of) ==
  LET m == [run |-> c, batch |-> batch[c], of |-> of, final |-> FALSE, scanned |-> {}]
  IN /\ Cardinality({r \in sent : ~r.final}) < MaxBatches
     /\ Send(m) /\ sent' = sent \cup {m}
     /\ batch' = [batch EXCEPT ![c] = @ + 1]
     /\ UNCHANGED <<unpopped, replay, saved>>

\* The last result of a scan.
Finish(c, covers) ==
  LET m == [run |-> c, batch |-> batch[c], of |-> "", final |-> TRUE, scanned |-> covers]
  IN /\ Send(m) /\ sent' = sent \cup {m}
     /\ Go(c, "returning")
     /\ UNCHANGED <<unpopped, replay, saved, batch>>

Quiet == UNCHANGED <<mail, batch>>
Still == UNCHANGED <<link, depth, done, cancels, usurped, inbox, issued, faults>>

\* The cancel function goes into the map, over that of another scan of the task.
Register(c) ==
  /\ pc[c] = "spawned"
  /\ cancels' = [cancels EXCEPT ![c.task] = <<c, depth[c]>>]
  /\ usurped' = usurped \cup Siblings(c)
  /\ Go(c, "guard")
  /\ UNCHANGED <<link, mail, depth, done, batch, scanned, inbox, issued, faults>>

\* guardAgainstPressure: a host under pressure defers the scan.
Guard(c) ==
  /\ pc[c] = "guard"
  /\ \/ Finish(c, {})
     \/ Go(c, IF c.engine = "nuclei" /\ depth[c] = 1 THEN "nuclei" ELSE "sys") /\ Quiet
  /\ UNCHANGED scanned /\ Still

\* The test of the context before a module.
Check(c) ==
  /\ pc[c] \in {"sys", "baseline"}
  /\ IF Cancelled(c) THEN Finish(c, {})
     ELSE Go(c, IF pc[c] = "sys" THEN "collecting" ELSE "checking") /\ Quiet
  /\ UNCHANGED scanned /\ Still

\* The collection of a module: interrupted, failed or without rules, or done.
Collect(c) ==
  /\ pc[c] \in {"collecting", "checking"}
  /\ LET of == IF pc[c] = "collecting" THEN "sys_vuln" ELSE "baseline"
         next == IF pc[c] = "collecting" THEN "throttle" ELSE "final"
     IN \/ Cancelled(c) /\ Finish(c, {}) /\ UNCHANGED scanned
        \/ Go(c, next) /\ Quiet /\ UNCHANGED scanned
        \/ /\ Go(c, next) /\ Findings(c, of)
           /\ scanned' = [scanned EXCEPT ![c] = @ \cup {of}]
  /\ Still

\* Between the modules: a throttled scan waits, and may be interrupted.
Throttle(c) ==
  /\ pc[c] = "throttle"
  /\ \/ Cancelled(c) /\ Finish(c, {})
     \/ Go(c, "baseline") /\ Quiet
  /\ UNCHANGED scanned /\ Still

Conclude(c) ==
  /\ pc[c] = "final"
  /\ Finish(c, scanned[c])
  /\ UNCHANGED scanned /\ Still

\* runNuclei without the binary calls Execute again, for the matcher: a new
\* context under the root, a new entry in the map.
FallBack(c) ==
  /\ pc[c] = "nuclei"
  /\ depth' = [depth EXCEPT ![c] = 2]
  /\ Go(c, "spawned")
  /\ UNCHANGED <<link, mail, done, cancels, batch, scanned, usurped, inbox, issued, faults>>

\* nuclei starts, or cannot.
RunNuclei(c) ==
  /\ pc[c] = "nuclei"
  /\ (Go(c, "stream") /\ Quiet) \/ Finish(c, {})
  /\ UNCHANGED scanned /\ Still

\* A finding comes, or the output ends (at the time limit too).
Stream(c) ==
  /\ pc[c] = "stream"
  /\ \/ Cancelled(c) /\ Finish(c, {})
     \/ ~Cancelled(c) /\ Findings(c, "nuclei") /\ UNCHANGED pc
     \/ ~Cancelled(c) /\ Finish(c, {"nuclei"})
  /\ UNCHANGED scanned /\ Still

\* The deferred function: out of the map goes whatever is there for the task.
Return(c) ==
  /\ pc[c] = "returning"
  /\ cancels' = [cancels EXCEPT ![c.task] = NoScan]
  /\ done' = [done EXCEPT ![c] = {}]
  /\ scanned' = [scanned EXCEPT ![c] = {}]
  /\ usurped' = (usurped \ {c}) \cup Siblings(c)
  /\ depth' = [depth EXCEPT ![c] = 1]
  /\ Go(c, IF depth[c] = 2 THEN "returning" ELSE "ended")
  /\ UNCHANGED <<link, mail, batch, inbox, issued, faults>>

----------------------------------------------------------------------------
(* Faults *)

\* The process dies and is started again: what is on disk stays.
Crash ==
  /\ Fault
  /\ conn' = NoConn /\ up' = NoConn /\ reading' = NoConn /\ UNCHANGED dialed
  /\ inbox' = [i \in Conns |-> <<>>] /\ unpopped' = {} /\ replay' = [i \in Conns |-> <<>>]
  /\ beating' = {}
  /\ pc' = [c \in Commands |-> IF pc[c] \in {"none", "ended"} THEN pc[c] ELSE "killed"]
  /\ cancels' = [t \in Tasks |-> NoScan]
  /\ UNCHANGED <<stuck, wire, outbox, saved, sent, depth, done, batch, scanned, usurped,
                 issued>>

Serve(i) == \/ PopAll(i) \/ PopFails(i) \/ Resend(i)
            \/ Save(i) \/ SaveFails(i) \/ HandleScan(i) \/ HandleCancel(i)

Execute(c) == \/ Register(c) \/ Guard(c) \/ Check(c) \/ Collect(c) \/ Throttle(c) \/ Conclude(c)
              \/ FallBack(c) \/ RunNuclei(c) \/ Stream(c) \/ Return(c)

AgentScanNext == \/ Dial \/ Break \/ ReadError \/ ReadDeadline \/ Crash
        \/ \E i \in Conns : Serve(i)
        \/ \E m \in Asks : Ask(m)
        \/ \E c \in Commands : Execute(c)

AgentScanSpec == AgentScanInit /\ [][AgentScanNext]_agentScanVars

----------------------------------------------------------------------------
(* Properties *)

\* No result is saved twice, whatever was queued and sent again: the console counts
\* final results.  (PopAll, processQueue, collect_results)
SavedOnce == \A c \in Commands : IsInjective(saved[c])

\* A scan sends one final result, the last of its results, and has sent it when it
\* ends: cancelled, paused, without nuclei or to the end.  (Execute, runNuclei)
Finals(c) == {m \in sent : m.run = c /\ m.final}
OneFinal ==
  \A c \in Commands :
    /\ Cardinality(Finals(c)) <= 1
    /\ pc[c] \in {"returning", "ended"} => Finals(c) # {}
    /\ \A f \in Finals(c) : \A m \in sent : m.run = c => m.batch <= f.batch

\* A final result the console has saved lists a module only when the scan sent
\* findings of it, and on the agent's first connection, without a fault, it is saved
\* after all the other results of the scan: the automatic fix of old findings takes a
\* listed module without a finding for a fixed one.  (Execute, SendResult, aggregate)
CoverageIsBacked ==
  \A c \in Commands : \A k \in DOMAIN saved[c] :
    saved[c][k].final =>
      /\ \A x \in saved[c][k].scanned \ {"nuclei"} : \E m \in sent : m.run = c /\ m.of = x
      /\ dialed = 1 /\ faults = 0 =>
           {m \in sent : m.run = c} \subseteq Range(SubSeq(saved[c], 1, k))

\* The only live scan of a task is found by a cancellation, unless another scan of the
\* task began or ended beside it.  (Execute, CancelScan)
AloneIsCancellable ==
  \A c \in Commands :
    (Live(c) /\ pc[c] \notin {"spawned", "returning"} /\ c \notin usurped) => cancels[c.task] = <<c, depth[c]>>

\* The map holds no cancel function of a scan that is over.  (Execute)
NoStaleCancel ==
  \A t \in Tasks : cancels[t] # NoScan => Live(cancels[t][1])

\* The connection that is read has a loop that beats for it, whatever other loops its
\* predecessors have left.  (Connect, heartbeatLoop)
HeartGoesOn == reading # NoConn => reading \in beating

\* What is in the queue while there is a connection is about to be popped, unless that
\* failed.  (Connect, send, processQueue)
NothingStranded == outbox # <<>> /\ conn # NoConn => conn \in unpopped \cup stuck

AgentScanInv == /\ AgentScanTypeOK /\ SavedOnce /\ OneFinal /\ CoverageIsBacked /\ AloneIsCancellable
                /\ NoStaleCancel /\ HeartGoesOn /\ NothingStranded
=============================================================================
