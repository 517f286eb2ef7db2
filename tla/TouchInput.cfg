\* One finger and three keys; the overlay takes two strokes.
SPECIFICATION TouchSpec
CONSTANTS
  Fingers = {1}
  Height = 2
  ListHeight = 1
  DRAG_THRESHOLD = 1
  DRAG_WHEEL_STEP = 2
  DOUBLE_TAP_DIST = 1
  MaxContacts = 1
  MaxStrokes = 2
  PumpRoom = 1
INVARIANTS CloseIsAnswered
CHECK_DEADLOCK FALSE
