SPECIFICATION FairSpec
CONSTANTS
  c1 = c1
  t1 = t1
  t2 = t2
  j1 = j1
  j2 = j2
  NoTask = NoTask
  Keys <- MCKeys
  Tasks <- MCTasks
  Clients <- MCClients
  KeyOf <- MCKeyOf
  Targets <- MCTargets
INVARIANTS
  OneCurrentRun
  NoGhostEntry
  WaitsForDisplacedRun
PROPERTIES
  ImplementsSlots
  EveryWaitEnds
CHECK_DEADLOCK FALSE
