\* Two nodes are up; the client of one calls Propose three times, access by access.
SPECIFICATION FairCallSpec
CONSTANTS
  n1 = n1
  n2 = n2
  Nobody = Nobody
  Empty = Empty
  NoRecord = NoRecord
  Node = {n1, n2}
  Value = {a, b}
  MaxInst = 1
  ProposalIds <- ThreeProposals
  MaxBreaks = 0
  MaxCrashes = 0
  CrashingNodes = {}
  MayFail = {}
  Unparsable = {}
  SpuriousWakeups = FALSE
  AskingNodes = {}
INVARIANTS
  CallTypeOK
  ResultSound
PROPERTIES
  WaitReturns
CHECK_DEADLOCK FALSE
