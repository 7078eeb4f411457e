\* Three calls of a client whose timers run 2, the learner's timer runs 3.
SPECIFICATION Spec
CONSTANTS
  Event = {e1, e2}
  Stub = Stub
  ProposeMs = 2
  AskMs = 3
  MaxTime = 6
  MaxQueue = 2
  MaxTimers = 4
INVARIANTS
  TypeOK
  HeapCoversItems
PROPERTIES
  ImplementsReactor
  DueTimerFires
