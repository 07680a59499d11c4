SPECIFICATION RSpec
CONSTANTS
  h1 = h1
  h2 = h2
  h3 = h3
  h4 = h4
  h5 = h5
  o1 = o1
  o2 = o2
  o3 = o3
  Hydrogens = {h1, h2, h3, h4}
  Oxygens = {o1, o2, o3}
  total_atoms = 6
INVARIANTS
  TypeOK
  NoLostWakeup
  CountsMatchThreads
  TwoHydrogensPerOxygen
  NoMissedReaction
PROPERTIES
  ImplementsMolecules
  EventuallyAllBonded
  FaultReportsAreLateThreads
CHECK_DEADLOCK FALSE
