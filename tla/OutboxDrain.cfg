\* Two processes, three commits of two projects, all that may delay them
SPECIFICATION Spec
CONSTANTS
  NumCommits = 3
  ProjectOf <- ThreeCommits
  Workers <- TwoWorkers
  Wirings <- BothWirings
  Poison = {}
  MaxFailures = 1
  MaxLate = 1
  MaxKills = 1
INVARIANTS
  PublishedForGood
PROPERTIES
  ClaimRespected
  EveryCommitReady
