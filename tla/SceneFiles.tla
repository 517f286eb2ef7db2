----------------------------- MODULE SceneFiles -----------------------------
(***************************************************************************)
(* A scene saved over and over (native_runtime.rs, maybe_save_scene and    *)
(* prune_scene_backups): the file of the last save is renamed to the first *)
(* free backup number, backups beyond the MAX_SCENE_BACKUPS with the       *)
(* highest numbers are removed, and only then the new file is written.     *)
(* Every call of the file system may fail, and the process may end before  *)
(* the next.                                                               *)
(***************************************************************************)
EXTENDS Naturals, FiniteSets, FiniteSetsExt

CONSTANTS
  MAX_SCENE_BACKUPS,
  MaxSaves            \* bound: how often the scene is saved

Numbers == 1..MaxSaves
NoVersion == 0

VARIABLES
  scene,    \* the version in the scene's file, or NoVersion
  backups,  \* backups[n]: the version in its n-th backup, or NoVersion
  version,  \* the version saved last or being saved
  step,     \* where the save is
  backup    \* the number the present save has set the scene aside under, or 0

sceneVars == <<scene, backups, version, step, backup>>

SceneInit ==
  /\ scene = NoVersion /\ backups = [n \in Numbers |-> NoVersion]
  /\ version = 0 /\ step = "idle" /\ backup = 0

Taken == {n \in Numbers : backups[n] # NoVersion}

\* The first save, or one after the file has gone: nothing to set aside.
SaveNew ==
  /\ step = "idle" /\ version < MaxSaves /\ scene = NoVersion
  /\ version' = version + 1 /\ step' = "write" /\ backup' = 0
  /\ UNCHANGED <<scene, backups>>

\* A save over another: its file takes the smallest number that is free.  A
\* rename that fails ends the save with nothing changed.
SetAside ==
  /\ step = "idle" /\ version < MaxSaves /\ scene # NoVersion
  /\ backup' = Min(Numbers \ Taken)
  /\ backups' = [backups EXCEPT ![backup'] = scene]
  /\ scene' = NoVersion
  /\ version' = version + 1 /\ step' = "prune"

\* prune_scene_backups: the MAX_SCENE_BACKUPS highest numbers stay; what
\* cannot be removed stays, too.
Spare == {n \in Taken : Cardinality({m \in Taken : m > n}) >= MAX_SCENE_BACKUPS}

Prune ==
  /\ step = "prune" /\ step' = "write"
  /\ \E removed \in {Spare, {}} :
       backups' = [n \in Numbers |-> IF n \in removed THEN NoVersion ELSE backups[n]]
  /\ UNCHANGED <<scene, version, backup>>

Write ==
  /\ step = "write" /\ step' = "idle"
  /\ scene' = version
  /\ UNCHANGED <<backups, version, backup>>

\* The file cannot be created or written, and the backup is renamed back over
\* it, if there is one.  Nothing else removes what was written of the file,
\* which stands for its version from then on.
WriteFails ==
  /\ step = "write" /\ step' = "idle"
  /\ IF backup # 0 /\ backups[backup] # NoVersion
     THEN scene' = backups[backup] /\ backups' = [backups EXCEPT ![backup] = NoVersion]
     ELSE scene' \in {NoVersion, version} /\ UNCHANGED backups
  /\ UNCHANGED <<version, backup>>

\* The process ends; the next session finds what is there.
SessionEnds ==
  /\ step # "idle" /\ step' = "idle"
  /\ \/ UNCHANGED scene
     \/ step = "write" /\ scene' = version
  /\ UNCHANGED <<backups, version, backup>>

SceneNext == SaveNew \/ SetAside \/ Prune \/ Write \/ WriteFails \/ SessionEnds

SceneSpec == SceneInit /\ [][SceneNext]_sceneVars

-----------------------------------------------------------------------------
\* Pruning removes older backups and keeps the newest: the scene this save
\* replaces is there, under its new name, until the new file is written
\* (the comment of maybe_save_scene at 3005).  A write that fails after that
\* has something to restore.
FreshBackupIsKept ==
  step = "write" /\ backup # 0 => backups[backup] # NoVersion
=============================================================================
