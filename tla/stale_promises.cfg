\* One node proposes three times for one instance; no fault.
SPECIFICATION Spec
CONSTANTS
  n1 = n1
  n2 = n2
  n3 = n3
  Nobody = Nobody
  Empty = Empty
  NoRecord = NoRecord
  Node = {n1, n2, n3}
  Value = {a, b}
  MaxInst = 0
  ProposalIds <- ThreeProposals
  MaxBreaks = 0
  MaxCrashes = 0
  CrashingNodes = {}
  MayFail = {}
  Unparsable = {}
  SpuriousWakeups = FALSE
  AskingNodes = {}
SYMMETRY FollowerSymmetry
INVARIANTS
  ExecutedIsChosen
CHECK_DEADLOCK FALSE
