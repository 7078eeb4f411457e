\* Two nodes propose, a connection breaks, one of them crashes and restarts.
SPECIFICATION Spec
CONSTANTS
  n1 = n1
  n2 = n2
  n3 = n3
  Nobody = Nobody
  Empty = Empty
  NoRecord = NoRecord
  Node = {n1, n2}
  Value = {a, b}
  MaxInst = 1
  ProposalIds <- TwoProposers
  MaxBreaks = 1
  MaxCrashes = 1
  CrashingNodes = {n2}
  MayFail = {}
  Unparsable = {}
  SpuriousWakeups = FALSE
  AskingNodes = {}
SYMMETRY ValueSymmetry
INVARIANTS
  TypeOK
  WriteAhead
  
PROPERTIES
  AcceptRespectsPromise
CHECK_DEADLOCK FALSE
