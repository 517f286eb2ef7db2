\* Two loops, saved one by one and as a scene, with a load in between.
SPECIFICATION FairSpec
CONSTANTS
  NSlots = 2
  NTransfers = 2
  CommandRoom = 4
  StatusRoom = 3
  CopyBlocks = 1
  UserActions = {"Record", "StopRecord", "EraseSelected", "SaveLoop",
                 "SaveScene", "ToggleStreaming", "LoadScene"}
  SceneLoops <- SceneOrder
  DiskOutcomes = {TRUE, FALSE}
  AutoSave = FALSE
  MaxActions = 3
INVARIANTS
  TransfersComeHome
  ExportsMoveOn
  SceneIsWhole
PROPERTIES
  SaveEnds
\* The session may end.
CHECK_DEADLOCK FALSE
