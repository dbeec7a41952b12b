SPECIFICATION HostSpec
CONSTANTS
  q1 = q1
  la = la
  h0 = h0
  h1 = h1
  hx = hx
  t1 = t1
  None = None
  Procs <- MCProcs
  Labels <- MCLabels
  Hashes <- MCHashes
  DefaultHash = h0
  Oversized <- MCOversized
  Tasks <- MCTasks
  Onboarded = TRUE
  MaxCommands = 2
INVARIANTS
  HostTypeOK
  HashesConverge
  DroppedOnce
  RegisteredAreChildren
  AtMostOnce
PROPERTIES
  ExitCollected
  WaitEnds
CHECK_DEADLOCK FALSE
