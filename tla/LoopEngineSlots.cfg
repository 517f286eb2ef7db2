SPECIFICATION Spec
CONSTANTS
  NSlots = 2
  BlockFrames = 4
  MaxBlocks = 1
  ReadyBlocks = 2
  WorkerKeepsUp = TRUE
  BufferFrames = 3
  TailFrames = 1
  SmoothFrames = 1
  Alignment = 0
  CallbackFrames = 1
  CopyFrames = 2
  StartPulse = 0
  PulseLengths = {}
  TapGaps = {}
  ImportLengths = {2}
  Subdivision = 1
  MaxElapsed = 0
  U32Max = 12
  ShortTap = 2
  Commands = {"Record", "StopRecord", "StopAgain", "DuringRecording", "Trigger", "Overdub", "Erase", "MoveLoop", "ImportLoop", "RequestLoopExport", "CalibrateLatency"}
INVARIANTS ReadsInside OneRecorder
