------------------------------ MODULE MCServices ------------------------------
(* Small instances, side by side, of what the services do beside their queues:
   a behaviour is one of the response pipeline, of the asset scans, of the
   template library, of the files of an agent's nuclei scanner or of one
   conversation with the assistant. *)
EXTENDS ResponsePipeline, AssetScan, NucleiContent, Chat, TLC

VARIABLE part

\* One operation per kind of connector, of the levels the playbooks give them.
KindOf  == [tag |-> "tag", notify |-> "notify", block |-> "dns", kill |-> "plugin", waf |-> "none"]
LevelIs == [tag |-> 1, notify |-> 1, block |-> 3, kill |-> 2, waf |-> 3]
FewPlaybooks == {<<"tag">>, <<"notify", "block", "waf">>, <<"block", "kill">>,
                 <<"block", "tag", "kill">>, <<"tag", "tag">>}

\* A web server with a template, a database without; what the agents' packs hold.
Web == [product |-> <<"nginx">>, release |-> Release(0, 9, 0, FALSE, 2)]
Db  == [product |-> <<"pg", "server">>, release |-> Release(0, 10, 0, TRUE, 0)]
ServedAt  == [p \in {"web", "db"} |-> IF p = "web" THEN Web ELSE Db]
ExposedAt == [p \in {"web", "db"} |-> IF p = "web" THEN {"x1"} ELSE {}]
RuleOn(i, name, r) == [id |-> i, name |-> name, op |-> "lt", value |-> Version(r), fixed |-> r]
Packs == {[version |-> 1,
           rules |-> {RuleOn("c1", <<"nginx">>, Release(0, 9, 0, FALSE, 10)),
                      RuleOn("c2", <<"pg", "server">>, Release(0, 10, 0, FALSE, 0))}]}
FullAndFast == {[engine |-> "full", ports |-> {}, modules |-> {"cve", "nuclei"}],
                [engine |-> "fast", ports |-> {}, modules |-> {"nuclei"}]}

\* A message that asks for a scan and names the events; calls are alike.
FewAsked   == {{"scan", "events"}}
ChatsAlike == Permutations(Chats)

Init ==
  /\ part \in {"pipeline", "assets", "library", "files", "chat"}
  /\ PipelineInit /\ AssetInit /\ NucleiInit /\ ChatInit
  /\ part # "pipeline" => ~dryRun
  /\ part # "assets" => \A t \in AssetTasks : request[t].engine = "full"

Next ==
  /\ UNCHANGED part
  /\ \/ part = "pipeline" /\ PipelineNext /\ UNCHANGED <<assetVars, nucleiVars, chatVars>>
     \/ part = "assets" /\ AssetNext /\ UNCHANGED <<pipelineVars, nucleiVars, chatVars>>
     \/ part = "library" /\ LibraryNext /\ UNCHANGED <<pipelineVars, assetVars, chatVars>>
     \/ part = "files" /\ FilesNext /\ UNCHANGED <<pipelineVars, assetVars, chatVars>>
     \/ part = "chat" /\ ChatNext /\ UNCHANGED <<pipelineVars, assetVars, nucleiVars>>

\* A second run claimed while the first waits for its approval, and one lost mark;
\* a call or a failure in the asset scans, a deletion, of which a request may
\* fail, beside the findings of another task, and a task with two runs alone;
\* tasks and runs are taken in order; a failure beside two calls of the conversation.
Beside == \E e \in Siblings : others'[e] # NoRun
First  == CHOOSE t \in AssetTasks : TRUE
Known  == wiped' \union {t \in AssetTasks : entry'[t] # "none" \/ taskDoc'[t] # "none"}
Few ==
  /\ Cardinality(unmarked') <= 1
  /\ Beside => /\ ~dryRun
               /\ \/ others # [e \in Siblings |-> NoRun]
                  \/ /\ node = "hitl_approval" /\ Len(plan) = 2
                     /\ \A e \in Siblings : others'[e].todo \in {<<>>, plan}
  /\ assetFaults' # assetFaults => assetCalls = 0 \/ deleting' # deleting
  /\ assetCalls' # assetCalls => assetFaults = 0
  /\ wiped' # wiped => \E v \in Identifiers : vulnDocs[v].task \in AssetTasks \ wiped'
  /\ doubled' # {} => wiped' = {} /\ Known # AssetTasks
  /\ Known # {} => First \in Known
  /\ \A r \in Runs : assetNode[r] = "idle" /\ assetNode'[r] # "idle" =>
       \A i \in 1 .. r[2] - 1 : assetNode[<<r[1], i>>] # "idle"
  /\ chatFaults' > 0 => Cardinality({c \in Chats : chat'[c].pc # "idle"}) <= 2

BoundedSpec == Init /\ [][Next /\ Few]_<<part, pipelineVars, assetVars, nucleiVars, chatVars>>
=============================================================================
