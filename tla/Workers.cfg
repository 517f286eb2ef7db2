\* A refill ring smaller than the ready set, so that a send can be refused; two disk
\* streams, so that an output of the first can meet the second; two takes of one hash,
\* saved and renamed under two names; a clock of two to the beat; a ring of two periods of
\* two frames.
SPECIFICATION WorkersSpec
CONSTANTS
  ReadyBlocks = 3
  RefillCapacity = 1
  ReturnCapacity = 2
  MaxChained = 4
  MaxStreams = 2
  PoolBlocks = 3
  Instances = 3
  UpdateCapacity = 2
  MaxCallers = 2
  MaxHeld = 3
  Takes = {"t1", "t2"}
  Slots = {1}
  GivenNames = {"a", "b"}
  MaxFaults = 2
  U32Max = 12
  ShortTap = 2
  ClocksPerBeat = 2
  SyncSpeeds = {1, 2}
  ClockLoops = {3}
  ClockGaps = {4, 9}
  ClockRoom = 2
  MaxOrders = 4
  RingFrames = 4
  ExpectedFrames = 2
  MAX_CALLBACK_FRAMES = 2
  Bursts = {1, 2, 3}
  Requests = {0, 1, 2, 3}
  MaxCaptured = 6
  MaxCallbacks = 3
INVARIANTS
  ClockKeepsTime
  FollowersAreTold
  CaptureFlows
  MemoryBounded
  LosesAtMostOne
  SlotsConserved
  SavedTakesAreKept
  SavedPairIsWhole
PROPERTIES
  ReplacementArrives
  ImplementsReadyPool
  StopReturns
  StockReturns
