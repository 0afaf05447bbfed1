----------------------------- MODULE SectorStore -----------------------------
(***************************************************************************)
(* The transactional store of the public sector pair (index.md and            *)
(* latest.json, sector_dashboard/public_store.py): promotion, hold and read,  *)
(* each under the store lock and each starting with the recovery of what an   *)
(* earlier process left behind.  Every write, rename, unlink and directory    *)
(* removal may fail, with or without its effect, and the process may die      *)
(* there; a new process starts from the disk alone.                           *)
(*                                                                            *)
(* A version stands for a verified pair; the two files of the pair belong     *)
(* together exactly when they are of the same version.  The lock is exclusive *)
(* and dies with its process, so one operation runs at a time.                *)
(***************************************************************************)
EXTENDS Naturals

CONSTANTS
  Versions,   \* verified, promotable projections
  None,       \* no file, no version, no marker, no directory
  Partial,    \* a transaction directory that is not (or no longer) complete
  Initially   \* the pair a behaviour starts with (a version, or None before
              \* launch) and a bound on the faults, failed steps and crashes,
              \* that may follow

Directories == {"prepared", "backup", "rebackup"}

\* _TransactionState
Transactions ==
  [phase : {"promoting", "rolled_back"}, expected : Versions,
   old : Versions \cup {None}, backup : Directories \cup {None}]

ASSUME StoreAssumption ==
  /\ None \notin Versions \cup Directories \cup Transactions
  /\ Partial \notin Versions /\ None # Partial
  /\ Initially \subseteq [pair : Versions \cup {None}, faults : Nat]

VARIABLES
  markdown, snapshot,  \* the two files of the public pair
  directory,           \* the prepared and backup directories
  marker,              \* the transaction marker
  pc,                  \* the next step of the running process, or "idle"
  operation, target,   \* what was asked of it
  mode,                \* what its current steps are part of
  existing,            \* the pair it read after recovery
  state,               \* its _TransactionState, None before it has one
  cleaning,            \* cleanup_started
  outcome, reported,   \* what the last operation returned; the pair it told of
  faults               \* faults that may still occur

disk == <<markdown, snapshot, directory, marker>>
memory == <<operation, target, existing, cleaning>>
result == <<outcome, reported>>
vars == <<disk, pc, mode, state, memory, result, faults>>

\* _read_optional_pair_from_descriptor: nothing, a verified pair, or an error.
Valid == markdown = snapshot
Pair == IF Valid THEN markdown ELSE None

-----------------------------------------------------------------------------
Init ==
  /\ \E start \in Initially : markdown = start.pair /\ faults = start.faults
  /\ snapshot = markdown
  /\ directory = [d \in Directories |-> None]
  /\ marker = None
  /\ pc = "idle"
  /\ operation = "read" /\ target = None /\ mode = "recover"
  /\ existing = None /\ state = None /\ cleaning = FALSE
  /\ outcome = "none" /\ reported = markdown

Goto(step) == pc' = step /\ UNCHANGED <<mode, state, memory, result, faults>>

Return(status, told) ==
  /\ pc' = "idle"
  /\ outcome' = status
  /\ reported' = told
  /\ UNCHANGED <<mode, state, memory, faults>>

\* The lock dies with the process; what it had in memory is gone.
Die ==
  /\ pc' = "idle"
  /\ outcome' = "none"
  /\ UNCHANGED <<mode, state, memory, reported>>

\* The exception handlers: recovery and rollback report recovery_failed; a
\* promotion undoes what it did, from a fresh copy of the prior pair if cleanup
\* may already have removed the first one.
NeedsFreshBackup == cleaning /\ existing # None

Raise ==
  \/ /\ mode \in {"recover", "rollback"}
     /\ pc' = "idle" /\ outcome' = "failed"
     /\ UNCHANGED <<mode, state, memory, reported>>
  \/ /\ mode = "promote" /\ state = None
     /\ pc' = "discard"
     /\ UNCHANGED <<mode, state, memory, result>>
  \/ /\ mode = "promote" /\ state # None
     /\ pc' = IF NeedsFreshBackup THEN "restage"
              ELSE IF state.backup # None THEN "restore_markdown"
              ELSE "clear_markdown"
     /\ mode' = "rollback"
     /\ UNCHANGED <<state, memory, result>>

Fault ==
  /\ faults > 0
  /\ faults' = faults - 1
  /\ Die \/ Raise

-----------------------------------------------------------------------------
\* A file is replaced by rename: the old or the new one, never a torn one.
WriteMarkdown(step, v, next) ==
  /\ pc = step
  /\ \/ markdown' = v /\ Goto(next)
     \/ markdown' \in {markdown, v} /\ Fault
  /\ UNCHANGED <<snapshot, directory, marker>>

WriteSnapshot(step, v, next) ==
  /\ pc = step
  /\ \/ snapshot' = v /\ Goto(next)
     \/ snapshot' \in {snapshot, v} /\ Fault
  /\ UNCHANGED <<markdown, directory, marker>>

\* _stage_pair into a new directory; it may be left incomplete.
StagePair(step, d, v, next) ==
  /\ pc = step
  /\ \/ directory' = [directory EXCEPT ![d] = v] /\ Goto(next)
     \/ directory' \in {directory, [directory EXCEPT ![d] = Partial]} /\ Fault
  /\ UNCHANGED <<markdown, snapshot, marker>>

\* _remove_unpublished_directory: its files go first, one by one.
Removed(d) == [directory EXCEPT ![d] = None]
Removing(d) ==
  {directory, Removed(d)} \cup
  (IF directory[d] = None THEN {} ELSE {[directory EXCEPT ![d] = Partial]})

-----------------------------------------------------------------------------
Start ==
  /\ pc = "idle"
  /\ \/ operation' = "promote" /\ target' \in Versions
     \/ operation' \in {"hold", "read"} /\ target' = None
  /\ pc' = "recover" /\ mode' = "recover"
  /\ existing' = None /\ state' = None /\ cleaning' = FALSE
  /\ UNCHANGED <<disk, result, faults>>

(* _recover_transaction_unchecked: what the marker and the pair together say. *)
Adopt(step) == pc' = step /\ state' = marker /\ UNCHANGED <<mode, memory, result>>

PromotionVisible(pair) == pair = marker.expected   \* a bug: the wrong snapshot id

RollbackVisible(pair) == pair = marker.old

\* A pair that cannot be read counts as none.
ReadPair(pair) ==
  \/ pair = Pair /\ UNCHANGED faults
  \/ pair = None /\ Pair # None /\ faults > 0 /\ faults' = faults - 1

Recover ==
  /\ pc = "recover"
  /\ \/ marker = None /\ Goto("orphans")
     \/ \E pair \in {Pair, None} :
          /\ marker # None /\ ReadPair(pair)
          /\ \/ /\ marker.phase = "rolled_back" /\ RollbackVisible(pair)
                /\ Adopt("complete_prepared")
             \/ /\ marker.phase = "rolled_back" /\ ~RollbackVisible(pair)
                /\ Raise
             \/ /\ marker.phase = "promoting" /\ pair = marker.expected
                /\ Adopt("complete_prepared")
             \/ /\ marker.phase = "promoting" /\ pair # marker.expected
                /\ Adopt(IF marker.backup # None THEN "restore_markdown"
                         ELSE "clear_markdown")
     \/ Fault
  /\ UNCHANGED disk

(* _restore_backup_or_clear: both files of the backup, or no file at all.     *)
BackupUsable == state.backup # None /\ directory[state.backup] = state.old

RestoreMarkdownOnly ==     \* a bug: the snapshot is not restored
  /\ BackupUsable
  /\ WriteMarkdown("restore_markdown", state.old, "mark")

RestorePair ==
  /\ BackupUsable
  /\ WriteMarkdown("restore_markdown", state.old, "restore_snapshot")

RestoreMarkdown ==
  /\ pc = "restore_markdown"
  /\ \/ RestorePair
     \/ ~BackupUsable /\ Return("failed", reported) /\ UNCHANGED disk

RestoreSnapshot == WriteSnapshot("restore_snapshot", state.old, "mark")

ClearMarkdown == WriteMarkdown("clear_markdown", None, "clear_snapshot")

ClearSnapshot == WriteSnapshot("clear_snapshot", None, "mark")

NotMarked ==               \* a bug: the backup goes under a promoting marker
  pc = "mark" /\ Goto("complete_prepared") /\ UNCHANGED disk

\* _mark_rolled_back: a rollback that got this far is not repeated.
Mark ==
  LET rolledBack == [state EXCEPT !.phase = "rolled_back"]
  IN  /\ pc = "mark"
      /\ \/ marker' = rolledBack /\ Goto("complete_prepared")
         \/ marker' \in {marker, rolledBack} /\ Fault
      /\ UNCHANGED <<markdown, snapshot, directory>>

(* _complete_transaction: prepared directory, backup directory, marker.       *)
CompletePrepared ==
  /\ pc = "complete_prepared"
  /\ \/ directory' = Removed("prepared")
        /\ Goto(IF state.backup = None THEN "complete_marker"
                ELSE "complete_backup")
     \/ directory' \in Removing("prepared") /\ Fault
  /\ UNCHANGED <<markdown, snapshot, marker>>

CompleteBackup ==
  /\ pc = "complete_backup"
  /\ \/ directory' = Removed(state.backup) /\ Goto("complete_marker")
     \/ directory' \in Removing(state.backup) /\ Fault
  /\ UNCHANGED <<markdown, snapshot, marker>>

RemoveMarker == marker' = None

CompleteMarker ==
  /\ pc = "complete_marker"
  /\ \/ /\ RemoveMarker
        /\ \/ mode = "promote" /\ Return("promoted", target)
           \/ mode # "promote" /\ Goto("orphans")
     \/ marker' \in {marker, None} /\ Fault
  /\ UNCHANGED <<markdown, snapshot, directory>>

\* _cleanup_orphan_transaction_directories, whichever order they are listed in.
Orphans ==
  /\ pc = "orphans"
  /\ \/ /\ directory' = [d \in Directories |-> None]
        /\ \/ mode = "recover" /\ Goto("serve")
           \/ mode = "rollback" /\ Return("failed", reported)
     \/ /\ \E d \in Directories : directory' \in Removing(d)
        /\ Fault
  /\ UNCHANGED <<markdown, snapshot, marker>>

-----------------------------------------------------------------------------
(* After recovery: the pair is read and reported, or the promotion begins.    *)
Serve ==
  /\ pc = "serve"
  /\ \/ ~Valid /\ Return("failed", reported)
     \/ /\ Valid
        /\ \/ operation = "read" /\ Return("read", Pair)
           \/ operation = "hold" /\ Return(IF Pair = None THEN "blocked"
                                           ELSE "held_last_good", Pair)
           \/ /\ operation = "promote" /\ Pair = target
              /\ Return("unchanged", target)
           \/ /\ operation = "promote" /\ Pair # target
              /\ pc' = "stage_prepared" /\ mode' = "promote" /\ existing' = Pair
              /\ state' = None
              /\ UNCHANGED <<operation, target, cleaning, result, faults>>
     \/ Fault
  /\ UNCHANGED disk

StagePrepared ==
  StagePair("stage_prepared", "prepared", target,
            IF existing = None THEN "write_marker" ELSE "stage_backup")

StageBackup == StagePair("stage_backup", "backup", existing, "write_marker")

NoPriorId ==               \* a bug: the prior snapshot id is not recorded
  [phase |-> "promoting", expected |-> target, old |-> None,
   backup |-> IF existing = None THEN None ELSE "backup"]

Transaction ==
  [phase |-> "promoting", expected |-> target, old |-> existing,
   backup |-> IF existing = None THEN None ELSE "backup"]

\* The state exists before its marker is written, so a failure rolls back.
FormState ==
  /\ pc = "write_marker" /\ state = None
  /\ state' = Transaction
  /\ UNCHANGED <<disk, pc, mode, memory, result, faults>>

PutMarker(step, t, next) ==
  /\ pc = step
  /\ \/ marker' = t /\ Goto(next)
     \/ marker' \in {marker, t} /\ Fault
  /\ UNCHANGED <<markdown, snapshot, directory>>

WriteMarker == state # None /\ PutMarker("write_marker", state, "write_markdown")

PromoteMarkdown == WriteMarkdown("write_markdown", target, "write_snapshot")

PromoteSnapshot == WriteSnapshot("write_snapshot", target, "verify")

\* The promoted pair is read back before anything of the transaction goes.
Verify ==
  /\ pc = "verify"
  /\ \/ /\ Pair = target
        /\ pc' = "complete_prepared" /\ cleaning' = TRUE
        /\ UNCHANGED <<operation, target, existing, mode, state, result, faults>>
     \/ Fault
  /\ UNCHANGED disk

\* Failure before there is a transaction: the staged directories go.
Discard ==
  /\ pc = "discard"
  /\ \/ /\ directory' = [directory EXCEPT !["prepared"] = None, !["backup"] = None]
        /\ Return("failed", reported)
     \/ /\ directory' \in Removing("prepared") \cup Removing("backup")
        /\ faults > 0 /\ faults' = faults - 1
        /\ Die
  /\ UNCHANGED <<markdown, snapshot, marker>>

\* Failure during cleanup: the prior pair is persisted again before rollback.
Restage == StagePair("restage", "rebackup", existing, "restage_state")

RestageState ==
  /\ pc = "restage_state"
  /\ state' = [state EXCEPT !.backup = "rebackup"]
  /\ pc' = "remark"
  /\ UNCHANGED <<disk, mode, memory, result, faults>>

Remark == PutMarker("remark", state, "restore_markdown")

Process ==
  \/ Recover \/ RestoreMarkdown \/ RestoreSnapshot \/ ClearMarkdown
  \/ ClearSnapshot \/ Mark \/ CompletePrepared \/ CompleteBackup
  \/ CompleteMarker \/ Orphans \/ Serve \/ StagePrepared \/ StageBackup
  \/ FormState \/ WriteMarker \/ PromoteMarkdown \/ PromoteSnapshot \/ Verify
  \/ Discard \/ Restage \/ RestageState \/ Remark

Next == Start \/ Process

Spec == Init /\ [][Next]_vars

FairSpec == Spec /\ WF_vars(Process) /\ WF_vars(Start)

-----------------------------------------------------------------------------

\* No process leaves a half or mixed pair behind without the marker that
\* repairs it ("a second interruption cannot strand a mixed pair on disk").
NoStrandedPair == pc = "idle" /\ marker = None => Valid

\* Wherever the process dies, the next one can recover: the pair is the
\* promoted one, or the prior pair is complete in the backup the marker names,
\* or there was none.
Recoverable ==
  marker # None =>
    /\ marker.phase = "rolled_back" => Valid /\ Pair = marker.old
    /\ marker.phase = "promoting" =>
         \/ Pair = marker.expected
         \/ marker.old = None
         \/ marker.backup # None /\ directory[marker.backup] = marker.old

\* The version a reader gets once recovery has run on this disk.
Published ==
  IF marker = None THEN Pair
  ELSE IF marker.phase = "promoting" /\ Pair = marker.expected
       THEN marker.expected ELSE marker.old

\* The version a failing promotion goes back to.
Previous ==
  IF pc # "idle" /\ mode \in {"promote", "rollback"} THEN existing
  ELSE IF marker # None /\ Published = marker.expected THEN marker.old
  ELSE Published

Atomic == INSTANCE AtomicPair WITH published <- Published, previous <- Previous

\* The store implements one atomically replaced version.
IsAtomic == Atomic!Spec

\* An interrupted transaction is eventually completed or undone.
EventuallyRecovered == marker # None ~> marker = None
=============================================================================
