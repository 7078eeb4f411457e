\* One proposal and a broken connection.
SPECIFICATION Spec
CONSTANTS
  n1 = n1
  n2 = n2
  n3 = n3
  Nobody = Nobody
  Empty = Empty
  NoRecord = NoRecord
  Node = {n1, n2, n3}
  Value = {a}
  MaxInst = 0
  ProposalIds <- OneProposal
  MaxBreaks = 1
  MaxCrashes = 0
  CrashingNodes = {}
  MayFail = {}
  Unparsable = {}
  SpuriousWakeups = FALSE
  AskingNodes = {}
INVARIANTS
  Agreement
CHECK_DEADLOCK FALSE
