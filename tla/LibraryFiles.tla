---------------------------- MODULE LibraryFiles ----------------------------
(***************************************************************************)
(* The library directory: the pairs of audio and metadata in which loops   *)
(* are saved, and their renaming (native_runtime.rs, save_exported_loop,   *)
(* rename_persisted_path; file_codecs.rs, encode_audio_file).              *)
(*                                                                         *)
(* A file's name starts with the hash of its audio, then has a name the    *)
(* user gave it or none (Unnamed).  Files of two hashes never meet, so the *)
(* model has those of one hash.  Two takes with that hash are the          *)
(* collision the code guards against.  Every call of the file system is a  *)
(* step: it may fail, and the process may die before the next one.         *)
(***************************************************************************)
EXTENDS Naturals, FiniteSets

CONSTANTS
  Takes,       \* recordings that share one hash
  Slots,       \* the loops of the session
  GivenNames,  \* what a user calls a loop
  MaxFaults    \* bound: how many calls of the file system fail

Unnamed == "unnamed"
Names == GivenNames \union {Unnamed}
Files == {"audio", "meta"} \X Names
None == "none"
Torn == "torn"
Whole == "whole"

ASSUME TakesAssumption == {None, Torn, Whole} \intersect Takes = {}
ASSUME MaxFaultsAssumption == MaxFaults \in Nat

VARIABLES
  dir,         \* dir[f]: what a file holds, None when there is no such file
  recorded,    \* recorded[slot]: the take in a loop, or None
  loop_files,  \* loop_files[slot]: the name its audio is known under, or None
  job,         \* the operation under way
  saved,       \* the takes whose save was answered with Ok (history)
  faults,      \* the calls that failed (history)
  interrupted  \* an operation was cut short by the end of the process (history)

libraryHistory == <<saved, faults, interrupted>>
libraryVars == <<dir, recorded, loop_files, job, saved, faults, interrupted>>

NoJob == [kind |-> "none"]

\* What finish_loop_export is doing with a loop, or apply_rename_result with the files.
Saves == [kind : {"encode", "describe", "write"}, slot : Slots, take : Takes, created : BOOLEAN]
Renames == [kind : {"rename", "back"}, name : Names, todo : SUBSET Files, moved : SUBSET Files]

FilesTypeOK ==
  /\ dir \in [Files -> Takes \union {None, Torn, Whole}]
  /\ \A n \in Names : dir[<<"audio", n>>] # Whole /\ dir[<<"meta", n>>] \notin Takes
  /\ recorded \in [Slots -> Takes \union {None}]
  /\ loop_files \in [Slots -> Names \union {None}]
  /\ job \in {NoJob} \union Saves \union Renames
  /\ saved \subseteq Takes /\ faults \in 0..MaxFaults /\ interrupted \in BOOLEAN

FilesInit ==
  /\ dir = [f \in Files |-> None]
  /\ recorded = [s \in Slots |-> None] /\ loop_files = [s \in Slots |-> None]
  /\ job = NoJob
  /\ saved = {} /\ faults = 0 /\ interrupted = FALSE

Exists(f) == dir[f] # None

\* So many calls fail in this step.
Failing(n) == faults + n <= MaxFaults /\ faults' = faults + n

-----------------------------------------------------------------------------
(* The loops of the session. *)

\* A take is recorded: what was known of the loop's file stays.
RecordTake(slot, take) ==
  /\ job = NoJob
  /\ recorded' = [recorded EXCEPT ![slot] = take]
  /\ UNCHANGED <<dir, loop_files, job>> /\ UNCHANGED libraryHistory

\* EraseSelectedLoops.
EraseLoop(slot) ==
  /\ job = NoJob
  /\ recorded' = [recorded EXCEPT ![slot] = None]
  /\ loop_files' = [loop_files EXCEPT ![slot] = None]
  /\ UNCHANGED <<dir, job>> /\ UNCHANGED libraryHistory

\* A scene with one loop of this hash is loaded: the first audio file the
\* directory yields, under whatever name; one that is torn does not decode.
LoadLoop(slot, name) ==
  /\ job = NoJob /\ Exists(<<"audio", name>>)
  /\ loop_files' = [s \in Slots |-> IF s = slot THEN name ELSE None]
  /\ recorded' = [s \in Slots |->
       IF s = slot /\ dir[<<"audio", name>>] # Torn THEN dir[<<"audio", name>>] ELSE None]
  /\ UNCHANGED <<dir, job>> /\ UNCHANGED libraryHistory

-----------------------------------------------------------------------------
(* save_exported_loop, and what finish_loop_export keeps of its answer. *)

AudioFile == <<"audio", Unnamed>>
MetaFile == <<"meta", Unnamed>>

Saved(slot, take) ==
  /\ loop_files' = [loop_files EXCEPT ![slot] = Unnamed]
  /\ saved' = saved \union {take}
  /\ job' = NoJob

\* The audio is in the library already, with its metadata.
ReuseAudio(slot) ==
  /\ job = NoJob /\ recorded[slot] # None
  /\ dir[AudioFile] = recorded[slot] /\ Exists(MetaFile)
  /\ Saved(slot, recorded[slot])
  /\ UNCHANGED <<dir, recorded, faults, interrupted>>

\* It is there without its metadata, which is written; a failure of that
\* leaves the audio alone.
FillMetadata(slot) ==
  /\ job = NoJob /\ recorded[slot] # None
  /\ dir[AudioFile] = recorded[slot] /\ ~Exists(MetaFile)
  /\ dir' = [dir EXCEPT ![MetaFile] = Torn]
  /\ job' = [kind |-> "write", slot |-> slot, take |-> recorded[slot], created |-> FALSE]
  /\ UNCHANGED <<recorded, loop_files>> /\ UNCHANGED libraryHistory

\* The file is new: it is created, never opened over another one.
CreateAudio(slot) ==
  /\ job = NoJob /\ recorded[slot] # None
  /\ ~Exists(AudioFile)
  /\ dir' = [dir EXCEPT ![AudioFile] = Torn]
  /\ job' = [kind |-> "encode", slot |-> slot, take |-> recorded[slot], created |-> TRUE]
  /\ UNCHANGED <<recorded, loop_files>> /\ UNCHANGED libraryHistory

Encoded ==
  /\ job.kind = "encode"
  /\ dir' = [dir EXCEPT ![AudioFile] = job.take]
  /\ job' = [job EXCEPT !.kind = "describe"]
  /\ UNCHANGED <<recorded, loop_files>> /\ UNCHANGED libraryHistory

\* An error while encoding removes the file, if it can.
EncodeFails ==
  /\ job.kind = "encode"
  /\ \/ Failing(1) /\ dir' = [dir EXCEPT ![AudioFile] = None]
     \/ Failing(2) /\ UNCHANGED dir
  /\ job' = NoJob
  /\ UNCHANGED <<recorded, loop_files, saved, interrupted>>

\* The metadata is truncated when it is opened, and then written.
OpenMetadata ==
  /\ job.kind = "describe"
  /\ dir' = [dir EXCEPT ![MetaFile] = Torn]
  /\ job' = [job EXCEPT !.kind = "write"]
  /\ UNCHANGED <<recorded, loop_files>> /\ UNCHANGED libraryHistory

WriteMetadata ==
  /\ job.kind = "write"
  /\ dir' = [dir EXCEPT ![MetaFile] = Whole]
  /\ Saved(job.slot, job.take)
  /\ UNCHANGED <<recorded, faults, interrupted>>

\* write_loop_metadata_or_remove_audio: opening or writing fails, and the
\* audio written before it is removed, if it can be.
MetadataFails ==
  /\ job.kind \in {"describe", "write"}
  /\ \/ job.created /\ Failing(1) /\ dir' = [dir EXCEPT ![AudioFile] = None]
     \/ Failing(IF job.created THEN 2 ELSE 1) /\ UNCHANGED dir
  /\ job' = NoJob
  /\ UNCHANGED <<recorded, loop_files, saved, interrupted>>

-----------------------------------------------------------------------------
(* rename_persisted_path *)

\* The files of the hash that do not have the new name yet.
FilesToRename(name) == {f \in Files : Exists(f) /\ f[2] # name}
Destination(f, name) == <<f[1], name>>

\* Mutant: files that would become one are not refused.
BadStartRename(name) ==
  /\ job = NoJob /\ FilesToRename(name) # {}
  /\ \A f \in FilesToRename(name) : ~Exists(Destination(f, name))
  /\ job' = [kind |-> "rename", name |-> name, todo |-> FilesToRename(name), moved |-> {}]
  /\ UNCHANGED <<dir, recorded, loop_files>> /\ UNCHANGED libraryHistory

\* Nothing is touched when a destination exists, or two files would become one.
StartRename(name) ==
  /\ job = NoJob /\ FilesToRename(name) # {}
  /\ \A f \in FilesToRename(name) : ~Exists(Destination(f, name))
  /\ \A f, g \in FilesToRename(name) : Destination(f, name) = Destination(g, name) => f = g
  /\ job' = [kind |-> "rename", name |-> name, todo |-> FilesToRename(name), moved |-> {}]
  /\ UNCHANGED <<dir, recorded, loop_files>> /\ UNCHANGED libraryHistory

\* fs::rename replaces what has the new name.
Moved(from, to) == [dir EXCEPT ![to] = dir[from], ![from] = None]

RenameFile(f) ==
  /\ job.kind = "rename" /\ f \in job.todo
  /\ dir' = Moved(f, Destination(f, job.name))
  /\ job' = [job EXCEPT !.todo = @ \ {f}, !.moved = @ \union {f}]
  /\ UNCHANGED <<recorded, loop_files>> /\ UNCHANGED libraryHistory

\* Mutant: what was renamed stays renamed.
BadRenameFails ==
  /\ job.kind = "rename" /\ job.todo # {} /\ Failing(1)
  /\ job' = NoJob
  /\ UNCHANGED <<dir, recorded, loop_files, saved, interrupted>>

\* One of the files cannot be renamed: those that were are renamed back.
RenameFails ==
  /\ job.kind = "rename" /\ job.todo # {} /\ Failing(1)
  /\ job' = [job EXCEPT !.kind = "back"]
  /\ UNCHANGED <<dir, recorded, loop_files, saved, interrupted>>

RenameBack(f) ==
  /\ job.kind = "back" /\ f \in job.moved
  /\ \/ dir' = Moved(Destination(f, job.name), f) /\ UNCHANGED faults
     \/ Failing(1) /\ UNCHANGED dir
  /\ job' = [job EXCEPT !.moved = @ \ {f}]
  /\ UNCHANGED <<recorded, loop_files, saved, interrupted>>

RolledBack ==
  /\ job.kind = "back" /\ job.moved = {}
  /\ job' = NoJob
  /\ UNCHANGED <<dir, recorded, loop_files>> /\ UNCHANGED libraryHistory

\* All are renamed: the session follows.
Renamed ==
  /\ job.kind = "rename" /\ job.todo = {}
  /\ loop_files' = [s \in Slots |->
       IF <<"audio", loop_files[s]>> \in job.moved THEN job.name ELSE loop_files[s]]
  /\ job' = NoJob
  /\ UNCHANGED <<dir, recorded>> /\ UNCHANGED libraryHistory

-----------------------------------------------------------------------------
\* The process ends at any point, and a new session finds the directory as it is.
Restart ==
  /\ recorded' = [s \in Slots |-> None] /\ loop_files' = [s \in Slots |-> None]
  /\ job' = NoJob
  /\ interrupted' = (interrupted \/ job # NoJob)
  /\ UNCHANGED <<dir, saved, faults>>

FilesNext ==
  \/ \E s \in Slots, t \in Takes : RecordTake(s, t)
  \/ \E s \in Slots : EraseLoop(s) \/ ReuseAudio(s) \/ FillMetadata(s) \/ CreateAudio(s)
  \/ \E s \in Slots, n \in Names : LoadLoop(s, n)
  \/ Encoded \/ EncodeFails \/ OpenMetadata \/ WriteMetadata \/ MetadataFails
  \/ \E n \in Names : StartRename(n)
  \/ \E f \in Files : RenameFile(f) \/ RenameBack(f)
  \/ RenameFails \/ RolledBack \/ Renamed
  \/ Restart

FilesSpec == FilesInit /\ [][FilesNext]_libraryVars

-----------------------------------------------------------------------------
\* A take whose save was reported done is in the library for good, whole and
\* under some name: no collision of hashes, failed save, rename, failed rename
\* or restart between two calls replaces or removes it (save_exported_loop,
\* rename_persisted_path).
SavedTakesAreKept ==
  \A t \in saved : \E n \in Names : dir[<<"audio", n>>] = t

\* As long as no operation was cut short, one call of the file system that
\* fails separates no saved take from its metadata: between two operations
\* both are there under one name (write_loop_metadata_or_remove_audio, the
\* rollback of rename_persisted_path), and the session knows its loops' audio
\* by names that exist.
SavedPairIsWhole ==
  faults <= 1 /\ job = NoJob =>
    /\ \A s \in Slots : loop_files[s] # None => Exists(<<"audio", loop_files[s]>>)
    /\ ~interrupted => \A t \in saved : \E n \in Names :
         dir[<<"audio", n>>] = t /\ dir[<<"meta", n>>] = Whole
=============================================================================
