\* The limit of the code; as many saves as it takes to come round.
SPECIFICATION SceneSpec
CONSTANTS
  MAX_SCENE_BACKUPS = 8
  MaxSaves = 12
INVARIANT FreshBackupIsKept
CHECK_DEADLOCK FALSE
