\* Nodes that are behind; the one that asks crashes, and executions fail.
SPECIFICATION CatchUpSpec
CONSTANTS
  n1 = n1
  n2 = n2
  n3 = n3
  Nobody = Nobody
  Empty = Empty
  NoRecord = NoRecord
  Node = {n1, n2, n3}
  Value = {a, b}
  MaxInst = 1
  ProposalIds <- NoProposer
  MaxBreaks = 0
  MaxCrashes = 1
  CrashingNodes = {n3}
  MayFail = {a}
  Unparsable = {}
  SpuriousWakeups = FALSE
  AskingNodes = {n3}
SYMMETRY AheadSymmetry
INVARIANTS
  Agreement
  
PROPERTIES
  CopiesOnlyChosen
CHECK_DEADLOCK FALSE
