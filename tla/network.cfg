SPECIFICATION Spec
CONSTANTS
  n1 = n1
  n2 = n2
  Node <- TwoNodes
  Flow <- OneWay
  Nobody = Nobody
  MaxConns = 3
  MaxSent = 2
  MaxFaults = 1
INVARIANTS TypeOK OneOutgoing EndsMeet InOrder
PROPERTY RequestConnects
CHECK_DEADLOCK FALSE
