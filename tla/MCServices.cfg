\* Two runs of one event through five playbooks; two asset scans of one host with
\* two open ports, one call and one fault; two synchronisations within three
\* seconds, and two template updates, with three failures; three calls
\* about one conversation, one fault.
SPECIFICATION BoundedSpec
CONSTANTS
  Ops = {"tag", "notify", "block", "kill", "waf"}
  Kind <- KindOf
  Level <- LevelIs
  Playbooks <- FewPlaybooks
  MaxIterations = 10
  RecursionLimit = 35
  Siblings = {e2}
  MaxRuns = 2
  AssetTasks = {a1, a2}
  Hosts = {h1}
  Listening = {"web", "db"}
  TopPorts = {"web"}
  Serving <- ServedAt
  Exposed <- ExposedAt
  ScanRequests <- FullAndFast
  RuleIndex <- Packs
  AssetDeliveries = 2
  Slots = {1, 2}
  MaxAssetCalls = 1
  MaxAssetFaults = 1
  Syncs = {s1, s2}
  MaxSecond = 3
  MaxUpdates = 2
  MaxTrouble = 3
  Chats = {c1, c2, c3}
  ChatWorkers = {w1}
  Asked <- FewAsked
  MaxChatFaults = 1
SYMMETRY ChatsAlike
INVARIANTS
  PipelineInv
  ConfirmedBeforeActing
  RepeatOnlyWithoutMark
  RolledBackOnRaise
  StoredStatusTruthful
  AssetInv
  
  TurnsStay
  ChatInv
CHECK_DEADLOCK FALSE
