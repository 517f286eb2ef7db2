SPECIFICATION LiveSpec
CONSTANTS
  NSlots = 1
  BlockFrames = 6
  MaxBlocks = 2
  ReadyBlocks = 1
  WorkerKeepsUp = FALSE
  BufferFrames = 8
  TailFrames = 2
  SmoothFrames = 1
  Alignment = 0
  CallbackFrames = 2
  CopyFrames = 2
  StartPulse = 5
  PulseLengths = {}
  TapGaps = {}
  ImportLengths = {}
  Subdivision = 1
  MaxElapsed = 12
  U32Max = 12
  ShortTap = 2
  Commands = {"Record", "StopRecord", "StopAgain", "Overdub", "Erase"}
PROPERTIES RecordsWholeBeats EndsOnlyWhenAsked StopIsObeyed
