\* Nodes that are behind, without faults.
SPECIFICATION FairCatchUpSpec
CONSTANTS
  n1 = n1
  n2 = n2
  n3 = n3
  Nobody = Nobody
  Empty = Empty
  NoRecord = NoRecord
  Node = {n1, n2, n3}
  Value = {a, b}
  MaxInst = 1
  ProposalIds <- NoProposer
  MaxBreaks = 0
  MaxCrashes = 0
  CrashingNodes = {}
  MayFail = {}
  Unparsable = {}
  SpuriousWakeups = FALSE
  AskingNodes = {n3}
INVARIANTS
  AskIsAnswered
PROPERTIES
  LaggardCatchesUp
CHECK_DEADLOCK FALSE
