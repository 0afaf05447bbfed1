----------------------------- MODULE PublishStage -----------------------------
(***************************************************************************)
(* _stage_publish_segments: the public files of a run are written one after   *)
(* the other, each by a thread the coroutine waits for, then committed and    *)
(* pushed by another thread.  Whatever goes wrong before the commit, also a   *)
(* cancellation of the coroutine at any moment, every file is to be put back. *)
(*                                                                            *)
(* A commit is what its outcome tells the stage: done, failed before the      *)
(* commit, failed after it, or failed with the commit unknown                 *)
(* (PublicationReceipts says when).  Rendering and the gates between two      *)
(* writes are failed steps.                                                   *)
(***************************************************************************)
EXTENDS Functions

CONSTANTS
  Files,      \* files written by threads: documents, indexes, pages, histories
  Metadata,   \* transactional_metadata and promoted artifacts
  None        \* no thread runs

ASSUME StageAssumption ==
  {None, "commit"} \cap (Files \cup Metadata) = {} /\ None # "commit"

Paths == Files \cup Metadata
Contents == {"absent", "prior", "new"}

VARIABLES
  before,     \* the files as the stage found them
  policy,     \* "receipts", "legacy" (no publication_request) or "dry"
  disk,
  index,      \* the Git index: "clean" or "staged"
  head,       \* HEAD: "base", "published"
  pc,         \* "prepare", "write", "commit", "returned", "raised"
  todo,       \* files not written yet
  snapshots,  \* what rollback restores
  thread,     \* the file the worker writes, "commit", or None
  task,       \* "none", "running", "ok", "error": the future awaited
  cancelled,  \* _to_thread_drained holds a CancelledError
  phase,      \* phase of the PublicationReceiptError, "none" without one
  broken      \* a file could not be put back

repository == <<disk, index, head>>
stageVars == <<before, policy, repository, pc, todo, snapshots, thread, task,
          cancelled, phase, broken>>

StageInit ==
  /\ before \in [Paths -> {"absent", "prior"}]
  /\ policy \in {"receipts", "legacy", "dry"}
  /\ disk = before /\ index = "clean" /\ head = "base"
  /\ pc = "prepare" /\ todo = Files
  /\ \E archive \in SUBSET Files : snapshots = Restrict(disk, archive \cup Metadata)
  /\ thread = None /\ task = "none" /\ cancelled = FALSE
  /\ phase = "none" /\ broken = FALSE

-----------------------------------------------------------------------------
(* Rollback.                                                                  *)
FilesOnly == index                  \* a bug: the index keeps the staged files

\* index_snapshot, taken for a publication with receipts only.
IndexRestored == IF policy = "receipts" THEN "clean" ELSE index

\* _rollback_paths stops at a write that fails, and an unlink may fail
\* unnoticed; the index is restored unless a write failed.
RollBack(now) ==
  \/ /\ disk' = [p \in Paths |-> IF p \in DOMAIN snapshots THEN snapshots[p] ELSE now[p]]
     /\ index' = IndexRestored
     /\ UNCHANGED broken
  \/ /\ \E lost \in (SUBSET DOMAIN snapshots) \ {{}} :
          disk' = [p \in Paths |->
                     IF p \in DOMAIN snapshots \ lost THEN snapshots[p] ELSE now[p]]
     /\ index' \in {index, IndexRestored}
     /\ broken' = TRUE

-----------------------------------------------------------------------------
\* Metadata and artifacts are written without awaiting anything.
Prepare ==
  /\ pc = "prepare"
  /\ \/ /\ disk' = [p \in Paths |-> IF p \in Metadata THEN "new" ELSE disk[p]]
        /\ pc' = "write"
        /\ UNCHANGED <<index, broken>>
     \/ /\ \E written \in SUBSET Metadata :
             RollBack([p \in Paths |-> IF p \in written THEN "new" ELSE disk[p]])
        /\ pc' = "raised"
  /\ UNCHANGED <<before, policy, head, todo, snapshots, thread, task, cancelled, phase>>

SnapshotOf(p) == [q \in DOMAIN snapshots \cup {p} |->
                    IF q \in DOMAIN snapshots THEN snapshots[q] ELSE disk[p]]

StartWrite ==
  /\ pc = "write" /\ task = "none"
  /\ \E p \in todo :
       /\ snapshots' = SnapshotOf(p)
       /\ todo' = todo \ {p}
       /\ thread' = p
  /\ task' = "running"
  /\ UNCHANGED <<before, policy, repository, pc, cancelled, phase, broken>>

StartCommit ==
  /\ pc = "write" /\ task = "none" /\ todo = {}
  /\ pc' = "commit"
  /\ thread' = "commit" /\ task' = "running"
  /\ UNCHANGED <<before, policy, repository, todo, snapshots, cancelled, phase, broken>>

\* A gate or renderer between two writes raises.
Gate ==
  /\ pc = "write" /\ task = "none"
  /\ RollBack(disk)
  /\ pc' = "raised"
  /\ UNCHANGED <<before, policy, head, todo, snapshots, thread, task, cancelled, phase>>

\* The worker ends, with or without having replaced the file.
Write ==
  /\ thread \in Files
  /\ \/ disk' = [disk EXCEPT ![thread] = "new"] /\ task' \in {"ok", "error"}
     \/ UNCHANGED disk /\ task' = "error"
  /\ thread' = None
  /\ UNCHANGED <<before, policy, index, head, pc, todo, snapshots, cancelled, phase, broken>>

\* commit_and_push
CommitFiles ==
  /\ thread = "commit"
  /\ \/ /\ task' = "ok" /\ phase' = phase
        /\ IF policy = "dry" THEN UNCHANGED <<head, index>>
           ELSE head' = "published" /\ index' = "clean"
     \/ /\ task' = "error" /\ policy # "dry"
        /\ \/ /\ phase' = "pre_commit" /\ head' = head
              /\ index' \in {"clean", "staged"}
           \/ /\ phase' = "commit_unknown"
              /\ \/ head' = "published" /\ index' = "clean"
                 \/ head' = head /\ index' \in {"clean", "staged"}
           \/ phase' = "post_commit" /\ head' = "published" /\ index' = "clean"
  /\ thread' = None
  /\ UNCHANGED <<before, policy, disk, pc, todo, snapshots, cancelled, broken>>

\* A CancelledError is thrown into the coroutine where it waits.
Cancel ==
  /\ task # "none"
  /\ cancelled' = TRUE
  /\ UNCHANGED <<before, policy, repository, pc, todo, snapshots, thread, task, phase, broken>>

\* A bug: a cancellation is propagated while the worker still runs.
NotDrained == task \in {"ok", "error"} \/ cancelled

Drained == task \in {"ok", "error"}

AnyFailure == pc \in {"write", "commit"}    \* a bug: the phase is not looked at

MayRollBack ==
  \/ pc = "write"
  \/ pc = "commit" /\ policy = "receipts" /\ phase = "pre_commit"

Swallowed == task = "error"         \* a bug: the cancellation is forgotten

Interrupted == task = "error" \/ cancelled

Resume ==
  /\ pc \in {"write", "commit"} /\ Drained /\ ~Interrupted
  /\ pc' = IF pc = "commit" THEN "returned" ELSE pc
  /\ task' = "none"
  /\ UNCHANGED <<before, policy, repository, todo, snapshots, thread, cancelled, phase, broken>>

Raise ==
  /\ pc \in {"write", "commit"} /\ Drained /\ Interrupted
  /\ IF MayRollBack THEN RollBack(disk) ELSE UNCHANGED <<disk, index, broken>>
  /\ pc' = "raised"
  /\ task' = "none"
  /\ UNCHANGED <<before, policy, head, todo, snapshots, thread, cancelled, phase>>

StageNext ==
  \/ Prepare \/ StartWrite \/ StartCommit \/ Gate
  \/ Write \/ CommitFiles \/ Cancel \/ Resume \/ Raise

StageSpec == StageInit /\ [][StageNext]_stageVars

-----------------------------------------------------------------------------
Ended == pc \in {"returned", "raised"}

\* Types; a snapshot holds what a path may have held before the stage.
TypeOK ==
  /\ before \in [Paths -> {"absent", "prior"}] /\ disk \in [Paths -> Contents]
  /\ policy \in {"receipts", "legacy", "dry"}
  /\ index \in {"clean", "staged"} /\ head \in {"base", "published"}
  /\ pc \in {"prepare", "write", "commit", "returned", "raised"}
  /\ todo \subseteq Files /\ thread \in Files \cup {"commit", None}
  /\ DOMAIN snapshots \subseteq Paths /\ Range(snapshots) \subseteq {"absent", "prior"}
  /\ task \in {"none", "running", "ok", "error"}
  /\ cancelled \in BOOLEAN /\ broken \in BOOLEAN
  /\ phase \in {"none", "pre_commit", "commit_unknown", "post_commit"}

\* A stage that raised before it committed left every file and the index as it
\* found them (snapshots, _rollback_paths, GitIndexSnapshot.restore).  Without
\* receipts a failed commit keeps its files; so does a rehearsal cancelled in
\* the place of its commit.
Restored ==
  pc = "raised" /\ ~broken /\ head = "base" /\ phase \in {"none", "pre_commit"} =>
    \/ disk = before /\ index = "clean"
    \/ policy = "legacy" /\ phase = "pre_commit"
    \/ policy = "dry" /\ todo = {}

\* The committed files are never rolled back: HEAD and the files agree.
CommittedIsKept ==
  head = "published" => \A p \in Paths : disk[p] = "new"

\* A stage that returned has committed everything, unless it rehearsed, and
\* does not swallow a cancellation.
ReturnedIsCommitted ==
  pc = "returned" => ~cancelled /\ (policy = "dry" \/ head = "published")

\* No thread of the stage writes once the stage has ended
\* (_to_thread_drained waits for it).
NoLateWrite == [][Ended => UNCHANGED repository]_stageVars
=============================================================================
