SPECIFICATION FairGateSpec
CONSTANTS
  Request = {r1, r2}
  Background = {b1, b2}
  NoCaller = NoCaller
INVARIANTS
  MutualExclusion
  SlotConserved
  WaitersCounted
  NoWorkAfterDrain
PROPERTIES
  EveryCallReturns
  ImplementsAbstractGate
