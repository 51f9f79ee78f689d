\* One run, two approvers, three calls, two faults: does a decision arrive?
SPECIFICATION FairSpec
CONSTANTS
  Runs = {r1}
  Voters = {v1, v2}
  Levels = {"L2", "L3", "L4"}
  MaxVotes = 3
  MaxFaults = 2
PROPERTY DecisionReachesRun
CHECK_DEADLOCK FALSE
