SPECIFICATION Spec
CONSTANTS
  NSlots = 1
  BlockFrames = 4
  MaxBlocks = 1
  ReadyBlocks = 1
  WorkerKeepsUp = TRUE
  BufferFrames = 8
  TailFrames = 1
  SmoothFrames = 1
  Alignment = 2
  CallbackFrames = 1
  CopyFrames = 2
  StartPulse = 0
  PulseLengths = {3}
  TapGaps = {2, 20}
  ImportLengths = {}
  Subdivision = 1
  MaxElapsed = 3
  U32Max = 6
  ShortTap = 3
  Commands = {"Record", "StopRecord", "Trigger", "Mute", "Unmute", "SetPulse",
              "SetPulseFromLoop", "TapPulse", "ClearPulse", "DeletePulse"}
INVARIANTS Playable
