SPECIFICATION FairSpec
CONSTANTS
  MAX_PROCESSES = 3
  SCHED_DEFAULT_TIMESLICE = 2
  SCHED_AGING_MAX = 4
  SCHED_PRIORITY_DEFAULT = 3
  TickMod = 3
  MaxSleep = 1
INVARIANTS StatesAreSound ExecutingIsCharged ScanFindsBest
PROPERTIES CurrentNotDestroyed ImplementsProcStates NoStarvation SleeperWakes
