\* Two runs of one event beside each other, two approvers, one fault; three requests
\* about two administrators, two at a time.
SPECIFICATION BoundedSpec
CONSTANTS
  Runs = {r1, r2}
  Voters = {v1, v2}
  Levels = {"L2", "L4"}
  MaxVotes = 2
  MaxFaults = 1
  Names <- People
  Seeded <- Seeds
  Changes <- Patches
  Routes = {h1, h2}
  MaxRequests = 3
SYMMETRY Symmetry
INVARIANTS
  NoDeafWaiter
  QuorumResolves
  NoEarlyCompletion
  AccountsInv
PROPERTY KeepsGate
CHECK_DEADLOCK FALSE
