\* One node proposes three times and is free to time out and retry; nothing is lost and nobody crashes.
SPECIFICATION Spec
CONSTANTS
  n1 = n1
  n2 = n2
  n3 = n3
  Nobody = Nobody
  Empty = Empty
  NoRecord = NoRecord
  Node = {n1, n2, n3}
  Value = {a, b}
  MaxInst = 1
  ProposalIds <- ThreeProposals
  MaxBreaks = 0
  MaxCrashes = 0
  CrashingNodes = {}
  MayFail = {}
  Unparsable = {}
  SpuriousWakeups = FALSE
  AskingNodes = {}
SYMMETRY FollowerSymmetry
INVARIANTS
  ResultSound
  
PROPERTIES
  ImplementsReplicatedLog
CHECK_DEADLOCK FALSE
