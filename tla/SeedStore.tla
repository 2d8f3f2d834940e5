----------------------------- MODULE SeedStore ------------------------------
(***************************************************************************)
(* The recovery seed store of a Unit: neuro_recovery_seed_store_save and   *)
(* neuro_recovery_seed_store_load, one file system call at a time, with    *)
(* power failures in between and calls that fail.                          *)
(*                                                                         *)
(* Snapshots are numbered in the order in which they are saved, so that    *)
(* "older" can be said; 0 stands for none.  What is inside a snapshot is   *)
(* the business of UpdateService.  A file is whole, torn (the size, magic, *)
(* version or checksum test of the decoder fails) or written and not yet   *)
(* synced, which a power failure turns into one of the two.                *)
(***************************************************************************)
EXTENDS Naturals

CONSTANTS
    MaxSaves,       \* bound on the saves attempted
    CallFaults,     \* the faults explored, a subset of AllCallFaults
    NoSeedFile,     \* no file at a path
    NoCall          \* no call of the store in progress

\* io: open, write, sync, close, unlink and the first rename of a save fail;
\* exists: rename refuses to replace a file; rename_again: the rename after
\* the unlink fails; load: a file system call of the load fails.
AllCallFaults == {"crash", "io", "exists", "rename_again", "load"}

ASSUME CallFaultsAssumption == CallFaults \subseteq AllCallFaults
ASSUME SavesAssumption == MaxSaves \in Nat

VARIABLES
    path,       \* the seed file
    tmp,        \* its .tmp file
    legacy,     \* the seed file at the path older releases used
    call,       \* the save or load in progress
    ready,      \* the load of this boot has been done
    acked,      \* the snapshot last saved or loaded with success
    seq,        \* saves attempted
    harmed      \* a call whose failure the store does not survive has failed

files == <<path, tmp, legacy>>
seedvars == <<files, call, ready, acked, seq, harmed>>

Whole == [snap : Nat, state : {"whole"}]
File == [snap : Nat, state : {"whole", "torn", "unsynced"}]
Call == [op : {"save"}, snap : Nat,
         step : {"open", "write", "sync", "close", "rename", "unlink",
                 "rename_again"}]
        \cup [op : {"load"}, snap : Nat, step : {"migrate", "recover", "read"}]

ASSUME SeedMarkersAssumption == NoCall \notin Call /\ NoSeedFile \notin File

\* Besides the types: only whole files are ever put at the seed's own path.
SeedTypeOK ==
    /\ path \in Whole \cup {NoSeedFile}
    /\ tmp \in File \cup {NoSeedFile}
    /\ legacy \in Whole \cup {NoSeedFile}
    /\ call \in Call \cup {NoCall}
    /\ ready \in BOOLEAN
    /\ acked \in Nat
    /\ seq \in Nat
    /\ harmed \in BOOLEAN

-----------------------------------------------------------------------------
InCall(op, step) == call # NoCall /\ call.op = op /\ call.step = step
NextCall(step) == call' = [call EXCEPT !.step = step]

\* Before the first boot of this release: nothing, a seed, or a legacy seed.
SeedInit ==
    /\ \E first \in {NoSeedFile, [snap |-> 1, state |-> "whole"]} :
          \/ path = first /\ legacy = NoSeedFile
          \/ path = NoSeedFile /\ legacy = first
    /\ tmp = NoSeedFile
    /\ call = NoCall
    /\ ready = FALSE
    /\ acked = IF path = NoSeedFile /\ legacy = NoSeedFile THEN 0 ELSE 1
    /\ seq = 1
    /\ harmed = FALSE

-----------------------------------------------------------------------------
\* neuro_recovery_seed_store_save.

SaveBegins ==
    /\ call = NoCall /\ ready
    /\ seq < MaxSaves
    /\ seq' = seq + 1
    /\ call' = [op |-> "save", step |-> "open", snap |-> seq + 1]
    /\ UNCHANGED <<files, ready, acked, harmed>>

\* The .tmp file is unlinked, which may fail in turn, and the save has failed.
SaveFails ==
    /\ tmp' = NoSeedFile \/ ("io" \in CallFaults /\ tmp' = tmp)
    /\ call' = NoCall
    /\ UNCHANGED <<path, legacy, ready, acked, seq>>

Written(state) == [snap |-> call.snap, state |-> state]

OpenTmp_Mutant ==
    /\ InCall("save", "open")
    /\ path' = NoSeedFile /\ tmp' = Written("torn") /\ NextCall("write")
    /\ UNCHANGED <<legacy, ready, acked, seq, harmed>>

\* ensure_parent_dir, encode, and open with FS_O_TRUNC.
OpenTmp ==
    /\ InCall("save", "open")
    /\ \/ tmp' = Written("torn") /\ NextCall("write")
       \/ "io" \in CallFaults /\ call' = NoCall /\ UNCHANGED tmp
    /\ UNCHANGED <<path, legacy, ready, acked, seq, harmed>>

WriteTmp ==
    /\ InCall("save", "write")
    /\ \/ /\ tmp' = Written("unsynced") /\ NextCall("sync")
          /\ UNCHANGED <<path, legacy, ready, acked, seq, harmed>>
       \/ "io" \in CallFaults /\ SaveFails /\ UNCHANGED harmed

SyncTmp ==
    /\ InCall("save", "sync")
    /\ \/ /\ tmp' = Written("whole") /\ NextCall("close")
          /\ UNCHANGED <<path, legacy, ready, acked, seq, harmed>>
       \/ "io" \in CallFaults /\ SaveFails /\ UNCHANGED harmed

CloseTmp ==
    /\ InCall("save", "close")
    /\ \/ NextCall("rename") /\ UNCHANGED <<files, ready, acked, seq, harmed>>
       \/ "io" \in CallFaults /\ SaveFails /\ UNCHANGED harmed

TmpReplacesSeed_Mutant ==
    /\ path' = tmp /\ tmp' = NoSeedFile
    /\ call' = NoCall
    /\ UNCHANGED <<legacy, ready, acked, seq, harmed>>

\* The rename puts the .tmp file in place and the save has succeeded.
TmpReplacesSeed ==
    /\ path' = tmp /\ tmp' = NoSeedFile
    /\ acked' = call.snap
    /\ call' = NoCall
    /\ UNCHANGED <<legacy, ready, seq, harmed>>

RenameTmp_Mutant ==
    /\ InCall("save", "rename")
    /\ \/ TmpReplacesSeed
       \/ /\ "exists" \in CallFaults /\ path # NoSeedFile
          /\ acked' = call.snap /\ call' = NoCall
          /\ UNCHANGED <<files, ready, seq, harmed>>

\* Some file systems replace an existing target, others refuse (-EEXIST).
RenameTmp ==
    /\ InCall("save", "rename")
    /\ \/ TmpReplacesSeed
       \/ /\ "exists" \in CallFaults /\ path # NoSeedFile
          /\ NextCall("unlink") /\ UNCHANGED <<files, ready, acked, seq, harmed>>
       \/ "io" \in CallFaults /\ SaveFails /\ UNCHANGED harmed

UnlinkSeed ==
    /\ InCall("save", "unlink")
    /\ \/ /\ path' = NoSeedFile /\ NextCall("rename_again")
          /\ UNCHANGED <<tmp, legacy, ready, acked, seq, harmed>>
       \/ "io" \in CallFaults /\ SaveFails /\ UNCHANGED harmed

RenameTmpAgain ==
    /\ InCall("save", "rename_again")
    /\ \/ TmpReplacesSeed
       \/ "rename_again" \in CallFaults /\ SaveFails /\ harmed' = TRUE

-----------------------------------------------------------------------------
\* neuro_recovery_seed_store_load, once after each boot.

LoadBegins ==
    /\ call = NoCall /\ ~ready
    /\ call' = [op |-> "load", step |-> "migrate", snap |-> 0]
    /\ UNCHANGED <<files, ready, acked, seq, harmed>>

\* A load that fails leaves the service ready with empty tables.
LoadFails ==
    /\ call' = NoCall /\ ready' = TRUE
    /\ UNCHANGED <<path, legacy, acked, seq>>

migrate_legacy_seed_if_needed ==
    /\ InCall("load", "migrate")
    /\ \/ /\ path = NoSeedFile /\ legacy # NoSeedFile
          /\ path' = legacy /\ legacy' = NoSeedFile
          /\ NextCall("recover") /\ UNCHANGED <<tmp, ready, acked, seq, harmed>>
       \/ /\ path # NoSeedFile \/ legacy = NoSeedFile
          /\ NextCall("recover") /\ UNCHANGED <<files, ready, acked, seq, harmed>>
       \/ "load" \in CallFaults /\ LoadFails /\ harmed' = TRUE /\ UNCHANGED tmp

recover_tmp_seed_if_needed ==
    /\ InCall("load", "recover")
    /\ \/ /\ path = NoSeedFile /\ tmp # NoSeedFile /\ tmp.state = "whole"
          /\ path' = tmp /\ tmp' = NoSeedFile
          /\ NextCall("read") /\ UNCHANGED <<legacy, ready, acked, seq, harmed>>
       \/ /\ path = NoSeedFile /\ tmp # NoSeedFile /\ tmp.state # "whole"
          /\ tmp' = NoSeedFile /\ LoadFails /\ UNCHANGED harmed
       \/ /\ path # NoSeedFile \/ tmp = NoSeedFile
          /\ NextCall("read") /\ UNCHANGED <<files, ready, acked, seq, harmed>>
       \/ "load" \in CallFaults /\ LoadFails /\ harmed' = TRUE /\ UNCHANGED tmp

read_snapshot_file ==
    /\ InCall("load", "read")
    /\ \/ /\ path # NoSeedFile
          /\ acked' = path.snap
          /\ call' = NoCall /\ ready' = TRUE
          /\ UNCHANGED <<files, seq, harmed>>
       \/ path = NoSeedFile /\ LoadFails /\ UNCHANGED <<tmp, harmed>>
       \/ "load" \in CallFaults /\ LoadFails /\ harmed' = TRUE /\ UNCHANGED tmp

-----------------------------------------------------------------------------
PowerFails ==
    /\ "crash" \in CallFaults
    /\ IF tmp # NoSeedFile /\ tmp.state = "unsynced"
       THEN \E s \in {"whole", "torn"} : tmp' = [tmp EXCEPT !.state = s]
       ELSE UNCHANGED tmp
    /\ call' = NoCall /\ ready' = FALSE
    /\ UNCHANGED <<path, legacy, acked, seq, harmed>>

SeedNext ==
    \/ SaveBegins
    \/ OpenTmp \/ WriteTmp \/ SyncTmp \/ CloseTmp
    \/ RenameTmp \/ UnlinkSeed \/ RenameTmpAgain
    \/ LoadBegins
    \/ migrate_legacy_seed_if_needed
    \/ recover_tmp_seed_if_needed
    \/ read_snapshot_file
    \/ PowerFails

SeedSpec == SeedInit /\ [][SeedNext]_seedvars

-----------------------------------------------------------------------------
\* Properties.

\* What a load would find if power failed now: the seed, else the legacy
\* file, else the .tmp file.
Survivor ==
    IF path # NoSeedFile THEN path ELSE IF legacy # NoSeedFile THEN legacy ELSE tmp

Readable == Survivor # NoSeedFile /\ Survivor.state = "whole"

\* Once a snapshot has been saved or loaded with success, there is at every
\* instant a whole file that the next boot finds, and it is never older: power
\* failures and failing calls of a save cost nothing.  It holds until one of
\* the two failures the store does not survive has happened: of the second
\* rename of a save, or of a file system call of a load.
Recoverable ==
    (acked > 0 /\ ~harmed) => Readable /\ Survivor.snap >= acked

\* Between calls the seed is the very snapshot last acknowledged: a save that
\* failed has left no trace in it.
SettledIsLastSaved ==
    (ready /\ call = NoCall /\ acked > 0 /\ ~harmed) =>
        path # NoSeedFile /\ path.snap = acked

\* The promise: saves are atomic.  It is about the snapshot the next boot
\* finds, once one has been acknowledged.
Stored == IF acked = 0 THEN 0 ELSE Survivor.snap
Saving == IF call # NoCall /\ call.op = "save" THEN call.snap ELSE 0
Atomic == INSTANCE AtomicSeed WITH up <- ready, stored <- Stored, told <- acked,
                                   saving <- Saving, lost <- harmed

\* However many calls a save takes and whichever of them fail, the service
\* sees it replace the seed at one instant or leave it, and is told which;
\* UpdateService counts on that when it takes a save for one step.
ImplementsAtomicSeed == Atomic!Spec
=============================================================================
