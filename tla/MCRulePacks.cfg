\* Two publications within two seconds, one agent, one failure.
SPECIFICATION BoundedSpec
CONSTANTS
  Calls = {1, 2}
  Baseline <- OneBaseline
  NvdPages <- TwoPages
  Advisories <- TwoAdvisories
  Archives <- TwoArchives
  Installed <- Releases
  MaxTime = 2
  MaxFaults = 1
INVARIANTS
  RulesInv
PROPERTIES
  AgentCatchesUp
  FindsTheAffected
CHECK_DEADLOCK FALSE
