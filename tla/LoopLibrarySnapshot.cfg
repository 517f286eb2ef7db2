\* A snapshot of the loops of the session.
SPECIFICATION Spec
CONSTANTS
  NSlots = 2
  NTransfers = 2
  CommandRoom = 4
  StatusRoom = 3
  CopyBlocks = 1
  UserActions = {"Record", "StopRecord", "SaveScene", "CreateSnapshot"}
  SceneLoops <- SceneOrder
  DiskOutcomes = {TRUE, FALSE}
  AutoSave = FALSE
  MaxActions = 3
PROPERTIES
  SnapshotIsKept
\* The session may end.
CHECK_DEADLOCK FALSE
