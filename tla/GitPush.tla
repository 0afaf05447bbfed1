-------------------------------- MODULE GitPush --------------------------------
(***************************************************************************)
(* The publication without a receipt (publisher/git_ops.py): add, commit and  *)
(* push, up to Attempts times; a push rejected because main moved is followed *)
(* by a fetch and a rebase.  Other jobs push to main without looking at this  *)
(* one; any command may fail, and the answer to a push may be lost.           *)
(***************************************************************************)
EXTENDS Integers, Sequences, FiniteSets

CONSTANTS
  Attempts,    \* retries + 1
  MaxOthers    \* bound: commits other jobs push

ASSUME GitPushAssumption == Attempts \in Nat \ {0} /\ MaxOthers \in Nat

VARIABLES
  remote,     \* main: a sequence of "ours" and "other"
  base,       \* how much of main the local branch contains
  fetched,    \* how much of it origin/main shows
  unpushed,   \* commits on top of base
  committed,  \* the local branch contains the commit
  rebasing,   \* a failed rebase was not aborted
  attempt,
  step,       \* the next command, or how commit_and_push ended
  trouble,    \* commands that failed, commits of others
  conflict    \* a rebase failed

local == <<base, fetched, unpushed, committed, rebasing>>
gitVars == <<remote, local, attempt, step, trouble, conflict>>

GitInit ==
  /\ remote = <<>> /\ base = 0 /\ fetched = 0 /\ unpushed = 0
  /\ committed = FALSE /\ rebasing = FALSE
  /\ attempt = 1 /\ step = "commit" /\ trouble = 0 /\ conflict = FALSE

\* Another job's push.
Advance ==
  /\ Cardinality({i \in DOMAIN remote : remote[i] = "other"}) < MaxOthers
  /\ remote' = Append(remote, "other")
  /\ trouble' = trouble + 1
  /\ UNCHANGED <<local, attempt, step, conflict>>

\* The loop of commit_and_push: the attempt has failed.
NextAttempt ==
  IF attempt < Attempts
  THEN attempt' = attempt + 1 /\ step' = "commit"
  ELSE step' = "failed" /\ UNCHANGED attempt

\* A command returns an error of its own or cannot be run.
CommandFails ==
  /\ step \in {"commit", "push", "fetch", "rebase"}
  /\ trouble' = trouble + 1
  /\ NextAttempt
  /\ UNCHANGED <<remote, local, conflict>>

-----------------------------------------------------------------------------
\* git commit with nothing to commit: _is_idempotent_commit_noop.
NoopFails == FALSE                  \* a bug: an empty commit is an error

NoopSucceeds == TRUE

NoopReturns == "ok"                 \* a bug: nothing to commit, nothing to push

NoopContinues == "push"

CommitEmpty == TRUE                 \* a bug: git commit --allow-empty

NeedsCommit == ~committed

\* git add, git commit
Commit ==
  /\ step = "commit"
  /\ IF NeedsCommit
     THEN /\ unpushed' = unpushed + 1 /\ committed' = TRUE /\ step' = "push"
          /\ UNCHANGED attempt
     ELSE /\ IF NoopSucceeds THEN step' = NoopContinues /\ UNCHANGED attempt
             ELSE NextAttempt
          /\ UNCHANGED <<unpushed, committed>>
  /\ UNCHANGED <<remote, base, fetched, rebasing, trouble, conflict>>

Ours == [i \in 1..unpushed |-> "ours"]

\* git push origin HEAD: the remote takes it, and says so or not.
Push ==
  /\ step = "push" /\ ~rebasing /\ base = Len(remote)
  /\ remote' = remote \o Ours
  /\ base' = Len(remote') /\ unpushed' = 0
  /\ \/ step' = "ok" /\ UNCHANGED <<attempt, trouble>>
     \/ NextAttempt /\ trouble' = trouble + 1
  /\ UNCHANGED <<fetched, committed, rebasing, conflict>>

\* _is_recoverable_remote_ahead_push: main moved, or HEAD is detached.
PushRejected ==
  /\ step = "push" /\ (rebasing \/ base < Len(remote))
  /\ IF attempt < Attempts THEN step' = "fetch" /\ UNCHANGED attempt
     ELSE NextAttempt
  /\ UNCHANGED <<remote, local, trouble, conflict>>

-----------------------------------------------------------------------------
(* _try_rebase_onto_origin_main                                              *)
Fetch ==
  /\ step = "fetch"
  /\ fetched' = Len(remote) /\ step' = "rebase"
  /\ UNCHANGED <<remote, base, unpushed, committed, rebasing, attempt, trouble,
                 conflict>>

Rebase ==
  /\ step = "rebase" /\ ~rebasing
  /\ base' = fetched
  /\ NextAttempt
  /\ UNCHANGED <<remote, fetched, unpushed, committed, rebasing, trouble, conflict>>

\* A conflict, a dirty tree, or an earlier rebase still under way; the abort
\* may not run.
RebaseFails ==
  /\ step = "rebase"
  /\ conflict' = TRUE
  /\ rebasing' \in BOOLEAN
  /\ NextAttempt
  /\ UNCHANGED <<remote, base, fetched, unpushed, committed, trouble>>

GitNext ==
  CommandFails \/ Commit \/ Push \/ PushRejected \/ Fetch \/ Rebase \/ RebaseFails
=============================================================================
