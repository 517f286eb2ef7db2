\* The three back ends, three routes of two rates; queues of one event; two slots, one
\* with a loop, and two gestures.
SPECIFICATION ControlSpec
CONSTANTS
  Backends = {"cpal", "coreaudio", "jack"}
  Routes = {1, 2, 3}
  SlowRoutes = {2}
  MaxChanges = 2
  RECOVERY_MAX_ATTEMPTS = 3
  PortCapacity = 1
  BridgeCapacity = 1
  QueueCapacity = 1
  InboxCapacity = 1
  MaxMidi = 2
  MaxKeys = 2
  PanelSlots = {1, 2}
  Loaded = {1}
  CommandCapacity = 2
  StatusCapacity = 1
  MaxGestures = 2
  Sets = {1}
INVARIANTS
  CallbackIsServed
  LoopHasItsAudio
  InOrder
  LossesAreCounted
PROPERTIES
  EndedSessionIsClosed
  LoopAnswersRequest
  PanelCatchesUp
  DeliveryMovesOn
