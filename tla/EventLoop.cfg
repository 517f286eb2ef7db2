\* Two transfers, two loops: imports and exports of one, moved to and fro; two slots, one
\* with a loop; two keys, two outputs; configurations of up to two bindings.
SPECIFICATION EventLoopSpec
CONSTANTS
  NTransfers = 2
  Slots = {"s1", "s2"}
  ImportSlots = {"s1"}
  ExportSlots = {"s1"}
  Capacity = 1
  MaxLen = 1
  MaxGeneration = 2
  PanelSlots = {1, 2}
  Loaded = {1}
  CommandCapacity = 2
  StatusCapacity = 1
  MaxGestures = 3
  Sets = {1}
  Keys = {1, 2}
  Outputs = 2
  Channels = {1, 2}
  Patches <- EchoPatches
  MaxTranspose = 1
  MaxSettings = 2
  Nodes <- Elements
  MaxNodes = 2
  MaxIndex = 2
  RawValues <- Carried
  VarValues = {0, 1}
  MAX_GOSUB_DEPTH = 2
  BatchCapacity = 2
  MaxEvents = 2
  Fingers = {1, 2}
  Height = 3
  ListHeight = 1
  DRAG_THRESHOLD = 1
  DRAG_WHEEL_STEP = 2
  DOUBLE_TAP_DIST = 1
  MaxContacts = 2
  MaxStrokes = 1
  PumpRoom = 1
  Anything = Anything
  Var = Var
  Arg = Arg
INVARIANTS
  ExclusiveAccess
  ExportFits
  PanelFollowsLoops
  NotesEnd
  SpecificFirst
  SendsSeeWrites
  GesturesAreWhole
  InputIsKept
  LoopsInSync
PROPERTIES
  ImplementsOwnership
