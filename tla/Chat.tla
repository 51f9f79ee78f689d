--------------------------------- MODULE Chat ---------------------------------
(***************************************************************************)
(* One conversation of the console's assistant: a row of PostgreSQL with a *)
(* title and an array of messages.  The unified route classifies a         *)
(* message, answers it and appends two turns; the older route does the     *)
(* same without classifying; the console writes the number of a scan task  *)
(* back onto a turn; the operator renames and deletes; and tasks in the    *)
(* background give the conversation a title.  Appending is one UPDATE, but *)
(* writing back reads the array, changes it and stores all of it.          *)
(***************************************************************************)
EXTENDS Naturals, Sequences, FiniteSets

CONSTANTS
  Chats,         \* calls of the API about the conversation
  ChatWorkers,   \* API processes
  Asked,         \* messages, by what their words name
  MaxChatFaults  \* bound: requests that fail, processes that die

Words == {"scan", "noun", "hosts", "stats", "tasks", "rules", "events", "docs", "strong", "weak"}

ASSUME ChatAssumption ==
  IsFiniteSet(Chats) /\ ChatWorkers # {} /\ Asked \subseteq SUBSET Words /\ MaxChatFaults \in Nat

VARIABLES
  title,       \* of the row, "none" before it is created, "gone" once it is deleted
  messages,    \* its array
  chat,        \* what each call is at
  naming,      \* what the title task a call has spawned is at
  inflight,    \* processes that have the conversation in _title_inflight
  chatFaults,  \* requests that failed and processes that died so far
  written,     \* history: turns and task numbers whose UPDATE took effect
  exposed,     \* history: those of them written while a call held an older array
  named,       \* history: the operator gave the conversation a name
  overtaken    \* history: ... while a title task was past its second look

chatVars == <<title, messages, chat, naming, inflight, chatFaults, written, exposed, named, overtaken>>

Speakers    == {"user", "assistant"}
Targets  == {"none", "bare", "tagged"}            \* of an intent: absent, "rocky-01", "host:rocky-01"
Routings == {"none", "scan", "system", "chat"}
Turns    == [of : Chats, role : Speakers, route : Routings, intent : Targets, task : BOOLEAN]
Facts    == Chats \X (Speakers \union {"task"})

Replies  == [classified : BOOLEAN, asksScan : BOOLEAN, route : Routings, intent : Targets]
Plain    == [classified |-> FALSE, asksScan |-> FALSE, route |-> "none", intent |-> "none"]

Calls ==
  [kind : {"none", "chat", "legacy", "patch", "rename", "delete"}, worker : ChatWorkers,
   pc : {"idle", "user", "assistant", "writeback", "done"}, reply : Replies,
   target : Chats, copy : Seq(Turns), ts : BOOLEAN]

ChatTypeOK ==
  /\ title \in {"none", "default", "generated", "named", "gone"}
  /\ messages \in Seq(Turns)
  /\ chat \in [Chats -> Calls]
  /\ naming \in [Chats -> {"none", "get", "ask", "recheck", "write"}]
  /\ inflight \subseteq ChatWorkers
  /\ chatFaults \in 0 .. MaxChatFaults
  /\ written \subseteq Facts /\ exposed \subseteq Facts
  /\ named \in BOOLEAN /\ overtaken \in BOOLEAN

HasRow   == title \notin {"none", "gone"}
Patching == {c \in Chats : chat[c].pc = "writeback"}

\* What is in an array: the two turns of a call, and the number of a task on its answer.
Shows(array, fact) ==
  \E i \in DOMAIN array :
    /\ array[i].of = fact[1]
    /\ IF fact[2] = "task" THEN array[i].role = "assistant" /\ array[i].task
                           ELSE array[i].role = fact[2]

ChatInit ==
  /\ title = "none" /\ messages = <<>>
  /\ \E w \in ChatWorkers :
       chat = [c \in Chats |-> [kind |-> "none", worker |-> w, pc |-> "idle", reply |-> Plain,
                               target |-> c, copy |-> <<>>, ts |-> FALSE]]
  /\ naming = [c \in Chats |-> "none"]
  /\ inflight = {} /\ chatFaults = 0
  /\ written = {} /\ exposed = {} /\ named = FALSE /\ overtaken = FALSE

-----------------------------------------------------------------------------
(* Answers: what the routes make of a message, by what its words name.      *)

Answered == {"answered"}
Fallible == {"answered", "raised"}

AnswerWithHosts  == Answered                      \* each of its requests is guarded
AnswerHostStats  == Fallible
AnswerTaskReport == Fallible
AnswerRules      == Fallible
AnswerEvents     == Fallible
AnswerWithDocs   == Fallible \union {"nothing found"}
AnswerFreeform   == Fallible

\* A search that fails, or has no key, finds nothing, and the model answers alone.
SearchRealtime == {"hits", "nothing found"}
AnswerWithRealtime ==
  UNION {IF hits = "hits" THEN Fallible ELSE AnswerFreeform : hits \in SearchRealtime}

\* Strong words search, weak ones ask the model, which may fail: then no search.
NeedsRealtime(words) ==
  IF "strong" \in words THEN {TRUE} ELSE IF "weak" \in words THEN BOOLEAN ELSE {FALSE}

Capabilities == [hosts |-> AnswerWithHosts, stats |-> AnswerHostStats, tasks |-> AnswerTaskReport,
                 rules |-> AnswerRules, events |-> AnswerEvents, docs |-> AnswerWithDocs]

\* _answer_system_question: the first capability named that answers, else the model.
AnswerSystemQuestion(words) ==
  LET able == words \intersect DOMAIN Capabilities
  IN {"system" : t \in able}
     \union (IF \A t \in able : Capabilities[t] # Answered
               THEN {IF a = "answered" THEN "chat" ELSE a : a \in AnswerFreeform} ELSE {})

\* "scan" asks for a scan, unless it stands in a noun such as "scan report".
LooksLikeScanIntent(words) == "scan" \in words /\ "noun" \notin words

\* Tags are cut off the targets of an intent, and a tag alone is no target.
StripTargetPrefixes(t) == IF t = "tagged" THEN {"bare", "none"} ELSE {t}
\* Targets that the words of the message name.
FallbackExtractTargets == UNION {StripTargetPrefixes(t) : t \in Targets}
ScanIntents ==
  UNION {IF s = "none" THEN FallbackExtractTargets ELSE {s} :
         s \in UNION {StripTargetPrefixes(t) : t \in Targets}}

Reply(classified, words, route, intent) ==
  [classified |-> classified, asksScan |-> LooksLikeScanIntent(words),
   route |-> route, intent |-> intent]

\* The intent is the one of the decision, or of a second call of the model.
DispatchScan(words) == {Reply(TRUE, words, "scan", i) : i \in ScanIntents}
DispatchSystem(words) ==
  {Reply(TRUE, words, r, "none") : r \in AnswerSystemQuestion(words) \ {"raised"}}
DispatchChat(words) ==
  {Reply(TRUE, words, "chat", "none") :
     a \in {a \in UNION {IF need THEN AnswerWithRealtime ELSE AnswerFreeform : need \in NeedsRealtime(words)} :
            a = "answered"}}

\* Without a decision of the model a message is answered only if it asks for no scan.
Degraded(words) ==
  IF LooksLikeScanIntent(words) THEN {}
  ELSE {Reply(FALSE, words, r, "none") : r \in AnswerSystemQuestion(words) \ {"raised"}}

\* api_chat up to the first write: what a message may be answered with, if it is not refused.
AnswersTo(words) == DispatchScan(words) \union DispatchSystem(words) \union DispatchChat(words)
                  \union Degraded(words)
PossibleReplies == UNION {AnswersTo(words) : words \in Asked}

-----------------------------------------------------------------------------
(* The row *)

CreateConversation(name) ==
  /\ title = "none"
  /\ title' = name /\ named' = (name = "named")
  /\ UNCHANGED <<messages, chat, naming, inflight, chatFaults, written, exposed, overtaken>>

\* What was written while a call holds an older array is lost when that is stored.
Remember(fact, holders) ==
  /\ written' = written \union {fact}
  /\ exposed' = IF holders = {} THEN exposed ELSE exposed \union {fact}

\* append_message: one UPDATE, which finds no row after a deletion.
AppendMessage(c, role) ==
  LET turn == [of |-> c, role |-> role, task |-> FALSE,
               route  |-> IF role = "assistant" THEN chat[c].reply.route ELSE "none",
               intent |-> IF role = "assistant" THEN chat[c].reply.intent ELSE "none"]
  IN IF HasRow
       THEN messages' = Append(messages, turn) /\ Remember(<<c, role>>, Patching)
       ELSE UNCHANGED <<messages, written, exposed>>

-----------------------------------------------------------------------------
(* Title tasks *)

\* One at a time for the conversation in a process, when the unified route asks.
SpawnTitleTask(c) ==
  IF chat[c].kind = "chat"
    THEN IF chat[c].worker \in inflight
           THEN UNCHANGED <<naming, inflight>>
           ELSE /\ inflight' = inflight \union {chat[c].worker}
                /\ naming' = [naming EXCEPT ![c] = "get"]
    ELSE naming' = [naming EXCEPT ![c] = "get"] /\ UNCHANGED inflight

TitleEnds(c) ==
  /\ naming' = [naming EXCEPT ![c] = "none"]
  /\ inflight' = IF chat[c].kind = "chat" THEN inflight \ {chat[c].worker} ELSE inflight

Untitled == title = "default"
Frame    == UNCHANGED <<messages, chat, chatFaults, written, exposed, named>>

\* get_conversation: it goes on with a conversation that has no name and a turn of the user.
FirstLook(c) ==
  /\ naming[c] = "get"
  /\ IF Untitled /\ \E i \in DOMAIN messages : messages[i].role = "user"
       THEN naming' = [naming EXCEPT ![c] = "ask"] /\ UNCHANGED inflight
       ELSE TitleEnds(c)
  /\ UNCHANGED <<title, overtaken>> /\ Frame

\* The model answers with a title, or with nothing, or not at all.
AskTitle(c) ==
  /\ naming[c] = "ask"
  /\ \/ naming' = [naming EXCEPT ![c] = "recheck"] /\ UNCHANGED inflight
     \/ TitleEnds(c)
  /\ UNCHANGED <<title, overtaken>> /\ Frame

\* Defect: the title is written without a look at what became of it meanwhile.
NoSecondLook(c) ==
  /\ naming[c] = "recheck"
  /\ naming' = [naming EXCEPT ![c] = "write"]
  /\ UNCHANGED <<title, inflight, overtaken>> /\ Frame

SecondLook(c) ==
  /\ naming[c] = "recheck"
  /\ IF Untitled THEN naming' = [naming EXCEPT ![c] = "write"] /\ UNCHANGED inflight
                 ELSE TitleEnds(c)
  /\ UNCHANGED <<title, overtaken>> /\ Frame

WriteTitle(c) ==
  /\ naming[c] = "write"
  /\ TitleEnds(c)
  /\ title' = IF HasRow THEN "generated" ELSE title
  /\ UNCHANGED overtaken /\ Frame

TitleFails(c) ==
  /\ chatFaults < MaxChatFaults /\ chatFaults' = chatFaults + 1
  /\ naming[c] \in {"get", "recheck", "write"}
  /\ TitleEnds(c)
  /\ UNCHANGED <<title, messages, chat, written, exposed, named, overtaken>>

-----------------------------------------------------------------------------
(* Calls.  What happens before the first access to the row - the checks of  *)
(* the request, the model, searches, reads of other stores - is one step     *)
(* with it, for nothing of the conversation is read or written there.        *)

Steady == UNCHANGED <<title, messages, naming, inflight, chatFaults, written, exposed, named, overtaken>>
BeginCall(c, kind, w) == [chat[c] EXCEPT !.kind = kind, !.worker = w]
Finished(c)           == [chat EXCEPT ![c].pc = "done"]

\* A conversation is known only once it is created.  404, 502 and 503 leave nothing.
Chat(c, w) ==
  /\ chat[c].pc = "idle" /\ title # "none"
  /\ \/ \E r \in PossibleReplies :
          chat' = [chat EXCEPT ![c] = [BeginCall(c, "chat", w) EXCEPT !.pc = "user", !.reply = r]]
     \/ chat' = [chat EXCEPT ![c] = [BeginCall(c, "chat", w) EXCEPT !.pc = "done"]]
  /\ Steady

\* The older route reads the conversation and asks the model with all of it.
LegacyChat(c, w) ==
  /\ chat[c].pc = "idle" /\ title # "none"
  /\ \E next \in IF HasRow THEN {"user", "done"} ELSE {"done"} :
       chat' = [chat EXCEPT ![c] = [BeginCall(c, "legacy", w) EXCEPT !.pc = next]]
  /\ Steady

AppendUser(c) ==
  /\ chat[c].pc = "user"
  /\ AppendMessage(c, "user")
  /\ chat' = [chat EXCEPT ![c].pc = "assistant"]
  /\ UNCHANGED <<title, naming, inflight, chatFaults, named, overtaken>>

\* The answer carries the time stamp of the turn that was stored.
AppendAssistant(c) ==
  /\ chat[c].pc = "assistant"
  /\ AppendMessage(c, "assistant")
  /\ SpawnTitleTask(c)
  /\ chat' = [chat EXCEPT ![c].pc = "done", ![c].ts = HasRow]
  /\ UNCHANGED <<title, chatFaults, named, overtaken>>

\* The request fails, or its reply is lost: the unified route answers all the
\* same, without a time stamp, and the older one with an error.
AppendFails(c) ==
  /\ chatFaults < MaxChatFaults /\ chatFaults' = chatFaults + 1
  /\ chat[c].pc \in Speakers
  /\ AppendMessage(c, chat[c].pc) \/ UNCHANGED <<messages, written, exposed>>
  /\ IF chat[c].kind = "chat" THEN SpawnTitleTask(c) ELSE UNCHANGED <<naming, inflight>>
  /\ chat' = Finished(c)
  /\ UNCHANGED <<title, named, overtaken>>

\* patch_message reads the array; one without messages ends the call with an error.
PatchRead(c, t, w) ==
  /\ chat[c].pc = "idle" /\ title # "none"
  /\ chat' = [chat EXCEPT ![c] = IF HasRow /\ messages # <<>>
                THEN [BeginCall(c, "patch", w) EXCEPT !.pc = "writeback", !.target = t, !.copy = messages]
                ELSE [BeginCall(c, "patch", w) EXCEPT !.pc = "done"]]
  /\ Steady

\* Defect: the array is rebuilt with the new number alone.
MarkedAlone(array, t) ==
  [i \in DOMAIN array |-> [array[i] EXCEPT !.task = array[i].of = t /\ array[i].role = "assistant"]]

\* The turn with the time stamp gets the number; the array is stored as a whole,
\* a turn found or not.
Marked(array, t) ==
  [i \in DOMAIN array |-> [array[i] EXCEPT !.task = @ \/ (array[i].of = t /\ array[i].role = "assistant")]]

PatchWrite(c) ==
  /\ chat[c].pc = "writeback"
  /\ chat' = [chat EXCEPT ![c].pc = "done", ![c].copy = <<>>]
  /\ messages' = IF HasRow THEN Marked(chat[c].copy, chat[c].target) ELSE messages
  /\ IF HasRow /\ Shows(chat[c].copy, <<chat[c].target, "assistant">>)
       THEN Remember(<<chat[c].target, "task">>, Patching \ {c})
       ELSE UNCHANGED <<written, exposed>>
  /\ UNCHANGED <<title, naming, inflight, chatFaults, named, overtaken>>

PatchFails(c) ==
  /\ chatFaults < MaxChatFaults /\ chatFaults' = chatFaults + 1
  /\ chat[c].pc = "writeback"
  /\ chat' = [chat EXCEPT ![c].pc = "done", ![c].copy = <<>>]
  /\ UNCHANGED <<title, messages, naming, inflight, written, exposed, named, overtaken>>

Rename(c, w) ==
  /\ chat[c].pc = "idle" /\ title # "none"
  /\ chat' = [chat EXCEPT ![c] = [BeginCall(c, "rename", w) EXCEPT !.pc = "done"]]
  /\ title' = IF HasRow THEN "named" ELSE title
  /\ named' = (named \/ HasRow)
  /\ overtaken' = (overtaken \/ \E d \in Chats : naming[d] = "write")
  /\ UNCHANGED <<messages, naming, inflight, chatFaults, written, exposed>>

DeleteConversation(c, w) ==
  /\ chat[c].pc = "idle" /\ title # "none"
  /\ chat' = [chat EXCEPT ![c] = [BeginCall(c, "delete", w) EXCEPT !.pc = "done"]]
  /\ title' = "gone" /\ messages' = <<>>
  /\ UNCHANGED <<naming, inflight, chatFaults, written, exposed, named, overtaken>>

\* A process dies with its calls, its title tasks and its set of them.
WorkerDies(w) ==
  /\ chatFaults < MaxChatFaults /\ chatFaults' = chatFaults + 1
  /\ chat' = [c \in Chats |-> IF chat[c].worker = w /\ chat[c].pc # "idle"
                                THEN [chat[c] EXCEPT !.pc = "done", !.copy = <<>>] ELSE chat[c]]
  /\ naming' = [c \in Chats |-> IF chat[c].worker = w THEN "none" ELSE naming[c]]
  /\ inflight' = inflight \ {w}
  /\ UNCHANGED <<title, messages, written, exposed, named, overtaken>>

-----------------------------------------------------------------------------
TitleStep(c) == FirstLook(c) \/ AskTitle(c) \/ SecondLook(c) \/ WriteTitle(c) \/ TitleFails(c)

AnswerStep(c) == AppendUser(c) \/ AppendAssistant(c) \/ AppendFails(c)
PatchStep(c)  == PatchWrite(c) \/ PatchFails(c)

ChatRequest(c, w) ==
  \/ Chat(c, w) \/ LegacyChat(c, w) \/ Rename(c, w) \/ DeleteConversation(c, w)
  \/ \E t \in Chats : PatchRead(c, t, w)

ChatNext ==
  \/ \E name \in {"default", "named"} : CreateConversation(name)
  \/ \E c \in Chats : TitleStep(c) \/ AnswerStep(c) \/ PatchStep(c) \/ \E w \in ChatWorkers : ChatRequest(c, w)
  \/ \E w \in ChatWorkers : WorkerDies(w)

ChatSpec == ChatInit /\ [][ChatNext]_chatVars

-----------------------------------------------------------------------------
(* Properties *)

\* A turn or a task number that was stored stays in its conversation, whatever
\* other calls append, write back or rename, unless patch_message was rewriting
\* an array read before it (conversation.py:299-327).
TurnsStay == HasRow => \A fact \in written \ exposed : Shows(messages, fact)

\* A name the operator gave is not replaced by a generated one, except between
\* the second look of maybe_generate_title and its update (conversation.py:149-155).
NamesStay == named /\ ~overtaken => title \in {"named", "gone"}

\* An answer stands behind its question: the two turns of a call are appended in
\* order and the second never without the first (chat.py:1281-1284).
AnswersFollow ==
  \A i \in DOMAIN messages : messages[i].role = "assistant" =>
    \/ <<messages[i].of, "user">> \in exposed
    \/ \E j \in 1 .. i - 1 : messages[j].of = messages[i].of /\ messages[j].role = "user"

\* A message the model could not classify leaves no card to start a scan from, and
\* no turn at all if it asks for a scan; cards hold bare targets (chat.py:1110-1160).
CardsAreDecided ==
  \A i \in DOMAIN messages :
    LET m == messages[i] r == chat[m.of].reply
    IN /\ m.route = "scan" => r.classified
       /\ chat[m.of].kind = "chat" /\ ~r.classified => ~r.asksScan
       /\ m.intent # "tagged"

\* The time stamp in an answer is that of a stored turn, and a process names the
\* conversation once at a time for the unified route (chat.py:54-78).
StampsAreStored == \A c \in Chats : chat[c].ts => <<c, "assistant">> \in written
OneTitleTask ==
  \A c, d \in Chats :
    /\ chat[c].kind = "chat" /\ chat[d].kind = "chat" /\ chat[c].worker = chat[d].worker
    /\ naming[c] # "none" /\ naming[d] # "none"
    => c = d

\* The types, and what else a conversation keeps under overlapping calls, title
\* tasks, failed requests and processes that die (chat.py, conversation.py).
ChatInv ==
  /\ ChatTypeOK /\ NamesStay /\ AnswersFollow /\ CardsAreDecided
  /\ StampsAreStored /\ OneTitleTask
=============================================================================
