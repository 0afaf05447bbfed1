------------------------- MODULE PublicationReceipts -------------------------
(***************************************************************************)
(* publish_with_receipt (publisher/publication_receipts.py): one local      *)
(* publication commit is pushed to the remote branch, confirmed by fetch    *)
(* and ancestry, rebased at most once, and every fact it learns is recorded *)
(* as a receipt that outlives the process.                                  *)
(*                                                                          *)
(* The remote branch is a sequence of commits that other writers extend at  *)
(* any moment.  A commit is identified by its parent's position in that     *)
(* sequence and by its content, of which only two paths matter here: the    *)
(* metadata the compare-and-swap protects and the rest of the owned files.  *)
(* Every Git command may fail with no effect, or take effect and lose its   *)
(* result; a push may also reach the remote after the client gave it up.    *)
(***************************************************************************)
EXTENDS Integers, Sequences, FiniteSets, SequencesExt

CONSTANTS
  Values,          \* contents a path may have
  Mixed,           \* the content of a path merged from two different edits
  InitialRemotes,  \* histories the remote branch may start with
  Works,           \* contents of the owned files in the working tree
  OtherTrees,      \* trees another writer may push
  MaxOther,        \* bound: commits other writers add during the publication
  Retries,         \* the "retries" argument of publish_with_receipt
  NoCommit,        \* "no commit" (local_sha is None)
  NoContent        \* "no content hash" (content_hash is None)

Trees == [meta : Values, body : Values]

Commits == [base : Nat, tree : Trees, pub : BOOLEAN]

WellFormed(history) ==
  /\ Len(history) > 0
  /\ \A i \in DOMAIN history : history[i].base = i - 1 /\ ~history[i].pub

ASSUME ConstantsAssumption ==
  /\ Mixed \in Values
  /\ \A h \in InitialRemotes : h \in Seq(Commits) /\ WellFormed(h)
  /\ Works \subseteq Trees
  /\ OtherTrees \subseteq Trees
  /\ MaxOther \in Nat
  /\ Retries \in Nat
  /\ NoCommit \notin Commits
  /\ NoContent \notin Trees

Statuses == {"pending", "remote_confirmed", "definitely_unpublished",
             "outcome_unknown"}

Receipts == [sha : Commits \cup {NoCommit}, status : Statuses,
             content : Trees \cup {NoContent}]

Phases == {"pre_commit", "post_commit", "commit_unknown"}

Finished == {"returned", "failed", "crashed"}

Steps == {"preflight", "stage", "commit", "read_head", "hash_content",
          "push", "observe", "observe_again", "rebase", "abort", "inspect",
          "verify", "rehash"} \cup Finished

VARIABLES
  remote,        \* refs/heads/main on origin: a sequence of commits
  tracking,      \* refs/remotes/origin/main: how many of them are known
  head,          \* HEAD of the local clone
  rebasing,      \* a stopped rebase is in progress in the local clone
  delayed,       \* commits of pushes whose client gave up before they arrived
  stored,        \* receipts the sink has persisted, oldest first
  request,       \* the call's inputs
  initialHead,   \* initial_head, fixed by the preflight
  step,          \* the next statement of publish_with_receipt
  phase,         \* phase
  receipt,       \* receipt
  commitOk,      \* commit_ok
  contentHash,   \* content_hash: the tree identity stands for its hash
  aborted,       \* aborted
  attempts,      \* attempt_count
  observation,   \* observation
  fetches        \* remote observations made since the commit

clone == <<tracking, head, rebasing>>
control == <<request, initialHead, commitOk, contentHash, aborted, attempts, observation,
             fetches>>
vars == <<remote, delayed, stored, step, phase, receipt, clone, control>>

-----------------------------------------------------------------------------
(* Git, as far as the code relies on it.                                    *)

\* merge-base --is-ancestor c history[n]
InHistory(c, history, n) ==
  c.base < n /\ c.base < Len(history) /\ history[c.base + 1] = c

OnRemote(c) == InHistory(c, remote, Len(remote))

Onto == remote[tracking]

\* The commit HEAD gets when the owned files of the working tree are committed.
CommitOn(parent) ==
  [base |-> parent.base + 1, tree |-> request.work, pub |-> TRUE]

\* Three-way merge of one path.
Merged(old, ours, theirs) ==
  CASE ours = old -> theirs
    [] theirs = old \/ ours = theirs -> ours
    [] OTHER -> Mixed

\* git rebase --onto remote_sha initial_head: the commit is replayed on
\* remote_sha, and dropped when nothing of it is left to apply.
Rebased ==
  LET tree == [p \in {"meta", "body"} |->
                 Merged(initialHead.tree[p], head.tree[p], Onto.tree[p])]
  IN  IF tree = Onto.tree THEN Onto
      ELSE [base |-> tracking, tree |-> tree, pub |-> TRUE]

FastForward(c) == c.base = Len(remote)

-----------------------------------------------------------------------------
(* record: the receipt is handed to the sink before anything else happens.  *)
(* A sink that fails ends the call, except after remote confirmation.       *)

Record(r, next) ==
  /\ receipt' = r
  /\ \/ stored' = Append(stored, r) /\ step' = next
     \/ stored' = stored
        /\ step' = IF r.status = "remote_confirmed" THEN next ELSE "failed"

With(status) == [receipt EXCEPT !.status = status]

Unknown == With("outcome_unknown")

Fail == step' = "failed" /\ UNCHANGED <<receipt, stored>>

Goto(next) == step' = next /\ UNCHANGED <<receipt, stored>>

-----------------------------------------------------------------------------
Init ==
  /\ remote \in InitialRemotes
  /\ tracking \in 1..Len(remote)
  /\ head \in {remote[i] : i \in 1..Len(remote)}
              \cup {[base |-> Len(remote), tree |-> t, pub |-> FALSE] :
                       t \in OtherTrees}
  /\ request \in [work : Works,
                  baseline : {c.tree.meta : c \in
                                {remote[i] : i \in 1..Len(remote)}},
                  foreign : BOOLEAN]
  /\ initialHead = head
  /\ rebasing = FALSE
  /\ delayed = {}
  /\ stored = <<>>
  /\ step = "preflight"
  /\ phase = "pre_commit"
  /\ receipt = [sha |-> NoCommit, status |-> "definitely_unpublished",
                content |-> NoContent]
  /\ commitOk = FALSE
  /\ contentHash = NoContent
  /\ aborted = FALSE
  /\ attempts = 0
  /\ observation = 0
  /\ fetches = 0

(* Lines 293-303: HEAD and the tracking ref are read; the metadata baseline *)
(* must be the one the publication was generated from, HEAD must already be *)
(* part of the remote, and the index must hold no path of somebody else.    *)
UncheckedMetadata ==      \* a bug: no look at the metadata baseline
  InHistory(head, remote, tracking) /\ ~request.foreign

Acceptable ==
  /\ Onto.tree.meta = request.baseline
  /\ InHistory(head, remote, tracking)
  /\ ~request.foreign

Preflight ==
  /\ step = "preflight"
  /\ \/ Acceptable /\ Goto("stage")
     \/ Fail
  /\ UNCHANGED <<remote, delayed, phase, clone, control>>

\* min(2, retries + 2 - attempt_count), attempt_count as the commit left it.
TwoConfirmations == 2     \* a bug: the retries argument is no ceiling

Confirmations ==
  LET committedAt == attempts - observation
  IN  IF committedAt > Retries THEN 1 ELSE 2

\* A failed attempt is repeated until attempt = retries.
NextAttempt ==
  IF attempts > Retries THEN Fail ELSE Goto("stage")

SameAttempt == attempts       \* a bug: the attempt is not counted

ThisAttempt == attempts + 1

Stage ==
  /\ step = "stage"
  /\ attempts' = ThisAttempt
  /\ \/ ~request.foreign /\ Goto("commit")
     \/ IF attempts = Retries THEN Fail ELSE Goto("stage")
  /\ UNCHANGED <<remote, delayed, phase, clone, request, initialHead, commitOk,
                 contentHash, aborted, observation, fetches>>

\* git commit: it happens or not; its result arrives or not.
Commit ==
  /\ step = "commit"
  /\ \/ head' = head /\ commitOk' = (request.work = head.tree)
     \/ head' = head /\ commitOk' = FALSE
     \/ /\ request.work # head.tree
        /\ head' = CommitOn(head)
        /\ commitOk' \in BOOLEAN
  /\ Goto("read_head")
  /\ UNCHANGED <<remote, delayed, phase, tracking, rebasing, request,
                 initialHead, contentHash, aborted, attempts, observation,
                 fetches>>

Committed == head # initialHead \/ commitOk

UnreadableHead ==
  /\ phase' = "commit_unknown"
  /\ Record(Unknown, "failed")

ReadHead ==
  /\ step = "read_head"
  /\ \/ UnreadableHead
     \/ /\ Committed
        /\ phase' = "post_commit"
        /\ Record([receipt EXCEPT !.sha = head, !.status = "pending"],
                  "hash_content")
     \/ /\ ~Committed
        /\ phase' = phase
        /\ NextAttempt
  /\ UNCHANGED <<remote, delayed, clone, control>>

HashContent ==
  /\ step = "hash_content"
  /\ \/ /\ contentHash' = receipt.sha.tree
        /\ Record([receipt EXCEPT !.content = receipt.sha.tree], "push")
     \/ Fail /\ UNCHANGED contentHash
  /\ UNCHANGED <<remote, delayed, phase, clone, request, initialHead, commitOk,
                 aborted, attempts, observation, fetches>>

-----------------------------------------------------------------------------
(* The confirmation loop.  Only HEAD is pushed, without force; every error  *)
(* of the push is suppressed, so its outcome is known only to the remote.   *)
Push ==
  /\ step = "push"
  /\ \/ /\ Goto("observe")
        /\ \/ /\ FastForward(head)
              /\ remote' = Append(remote, head)
              /\ UNCHANGED delayed
           \/ /\ FastForward(head)
              /\ delayed' = delayed \cup {head}
              /\ UNCHANGED remote
           \/ UNCHANGED <<remote, delayed>>
     \/ observation > 0 /\ Fail /\ UNCHANGED <<remote, delayed>>
  /\ UNCHANGED <<phase, clone, control>>

\* _observe_remote: fetch, then ancestry of the receipt's commit.
Fetch == tracking' = Len(remote) /\ fetches' = fetches + 1

FetchFailed ==
  /\ tracking' \in {tracking, Len(remote)}
  /\ fetches' = fetches + 1

RemoteMoved == receipt.sha.base < Len(remote)   \* a bug: not this commit

Present == OnRemote(receipt.sha)

LastObservation == observation = Confirmations - 1

Observe ==
  /\ step = "observe"
  /\ \/ /\ FetchFailed
        /\ Record(Unknown,
                  IF observation = 0 /\ Confirmations > 1
                  THEN "observe_again" ELSE "failed")
     \/ /\ Fetch /\ Present
        /\ Record(With("remote_confirmed"), "returned")
     \/ /\ Fetch /\ ~Present
        /\ Record(With("definitely_unpublished"),
                  IF \/ remote[Len(remote)].tree.meta # request.baseline
                     \/ LastObservation
                  THEN "failed" ELSE "rebase")
  /\ UNCHANGED <<remote, delayed, phase, head, rebasing, request, initialHead,
                 commitOk, contentHash, aborted, attempts, observation>>

\* An unknown outcome is observed once more, and never pushed or rebased again.
ObserveAgain ==
  /\ step = "observe_again"
  /\ \/ FetchFailed /\ Fail
     \/ /\ Fetch /\ Present
        /\ Record(With("remote_confirmed"), "returned")
     \/ /\ Fetch /\ ~Present
        /\ Record(With("definitely_unpublished"), "failed")
  /\ UNCHANGED <<remote, delayed, phase, head, rebasing, request, initialHead,
                 commitOk, contentHash, aborted, attempts, observation>>

(* Lines 397-415: only a single commit on top of initial_head is rebased.   *)
(* A rebase may finish, stop on a conflict or when killed, or never start,  *)
(* and the result of a finished one may be lost.                            *)
OneCommitAhead ==
  receipt.sha.base = initialHead.base + 1

Rebase ==
  /\ step = "rebase"
  /\ \/ Fail /\ UNCHANGED clone
     \/ /\ OneCommitAhead
        /\ \/ /\ head' = Rebased
              /\ Goto("verify") \/ Goto("abort")
              /\ UNCHANGED rebasing
           \/ /\ head' = Onto
              /\ rebasing' = TRUE
              /\ Goto("abort")
           \/ UNCHANGED <<head, rebasing>> /\ Goto("abort")
        /\ UNCHANGED tracking
  /\ UNCHANGED <<remote, delayed, phase, control>>

\* git rebase --abort: it fails when no rebase is in progress.
Abort ==
  /\ step = "abort"
  /\ \/ /\ rebasing
        /\ head' = receipt.sha
        /\ rebasing' = FALSE
        /\ aborted' \in BOOLEAN
     \/ UNCHANGED <<head, rebasing>> /\ aborted' = FALSE
  /\ Goto("inspect")
  /\ UNCHANGED <<remote, delayed, phase, tracking, request, initialHead,
                 commitOk, contentHash, attempts, observation, fetches>>

\* The HEAD an interrupted rebase left behind selects the retained receipt.
Recovered ==
  /\ head.tree = contentHash
  /\ head.base = tracking

Inspect ==
  /\ step = "inspect"
  /\ \/ Record(Unknown, "failed")
     \/ head = receipt.sha /\ aborted /\ Fail
     \/ /\ head # receipt.sha /\ Recovered
        /\ Record([sha |-> head, content |-> head.tree,
                   status |-> IF aborted THEN "pending" ELSE "outcome_unknown"],
                  "failed")
  /\ UNCHANGED <<remote, delayed, phase, clone, control>>

(* Lines 454-464: the rebased commit becomes the transaction only when its  *)
(* content and the metadata below it are the ones that were published.      *)
FormerSha == [receipt EXCEPT !.content = NoContent]   \* a bug: old local_sha

NewSha == [sha |-> head, status |-> "pending", content |-> NoContent]

Verify ==
  /\ step = "verify"
  /\ \/ Record(NewSha, "rehash")
     \/ Fail
  /\ UNCHANGED <<remote, delayed, phase, clone, control>>

AnyContent == Onto.tree.meta = request.baseline   \* a bug: content unchecked

Preserved ==
  /\ head.tree = contentHash
  /\ Onto.tree.meta = request.baseline

Rehash ==
  /\ step = "rehash"
  /\ \/ Fail /\ UNCHANGED <<attempts, observation>>
     \/ /\ Preserved
        /\ Record([receipt EXCEPT !.content = head.tree], "push")
        /\ attempts' = attempts + 1
        /\ observation' = observation + 1
     \/ /\ ~Preserved
        /\ Record([receipt EXCEPT !.content = head.tree], "failed")
        /\ UNCHANGED <<attempts, observation>>
  /\ UNCHANGED <<remote, delayed, phase, clone, request, initialHead, commitOk,
                 contentHash, aborted, fetches>>

Publisher ==
  \/ Preflight \/ Stage \/ Commit \/ ReadHead \/ HashContent
  \/ Push \/ Observe \/ ObserveAgain
  \/ Rebase \/ Abort \/ Inspect \/ Verify \/ Rehash

-----------------------------------------------------------------------------
(* What happens around the call. *)

OtherWriter ==
  /\ Cardinality({i \in DOMAIN remote : ~remote[i].pub}) < MaxOther
  /\ \E t \in OtherTrees :
       remote' = Append(remote, [base |-> Len(remote), tree |-> t, pub |-> FALSE])
  /\ UNCHANGED <<delayed, stored, step, phase, receipt, clone, control>>

\* A push the client gave up reaches the remote, whose ref has not moved since.
LatePush ==
  /\ \E c \in delayed :
       /\ FastForward(c)
       /\ remote' = Append(remote, c)
  /\ UNCHANGED <<delayed, stored, step, phase, receipt, clone, control>>

Crash ==
  /\ step \notin Finished
  /\ step' = "crashed"
  /\ UNCHANGED <<remote, delayed, stored, phase, receipt, clone, control>>

Next == Publisher \/ OtherWriter \/ LatePush \/ Crash

Spec == Init /\ [][Next]_vars

FairSpec == Spec /\ WF_vars(Publisher)

-----------------------------------------------------------------------------
\* Types, and the ceilings of the confirmation loop: at most Retries + 1
\* attempts, one rebase and two observations.
TypeOK ==
  /\ remote \in Seq(Commits)
  /\ tracking \in Nat
  /\ head \in Commits
  /\ rebasing \in BOOLEAN
  /\ delayed \subseteq Commits
  /\ stored \in Seq(Receipts)
  /\ request \in [work : Trees, baseline : Values, foreign : BOOLEAN]
  /\ initialHead \in Commits
  /\ step \in Steps
  /\ phase \in Phases
  /\ receipt \in Receipts
  /\ commitOk \in BOOLEAN
  /\ contentHash \in Trees \cup {NoContent}
  /\ aborted \in BOOLEAN
  /\ attempts \in 0..(Retries + 1)
  /\ observation \in 0..1
  /\ fetches \in 0..2

Published == {i \in DOMAIN remote : remote[i].pub}

\* A receipt that says remote_confirmed, held or persisted, names a commit of
\* the remote branch with exactly the content of the working tree.
ConfirmedIsPublished ==
  \A r \in {receipt} \cup Range(stored) :
    r.status = "remote_confirmed" =>
      OnRemote(r.sha) /\ r.sha.tree = request.work

\* Compare-and-swap: the publication lands only on the metadata it was
\* generated from, whatever other writers push meanwhile.
MetadataSwap ==
  \A i \in Published : i > 1 /\ remote[i - 1].tree.meta = request.baseline

\* Whenever the process dies, the last persisted receipt names the commit the
\* remote holds, so that reconcile_publication finds it.
PublishedIsRecorded ==
  \A i \in Published : stored # <<>> /\ Last(stored).sha = remote[i]

\* The call as its caller sees it.
Outcome ==
  CASE step = "returned" -> "confirmed"
    [] step = "failed" /\ phase = "pre_commit" -> "clean"
    [] step = "crashed" \/ (step = "failed" /\ phase # "pre_commit") -> "retained"
    [] OTHER -> "running"

Contract == INSTANCE PublicationContract
  WITH Histories <- InitialRemotes, branch <- remote, asked <- request,
       outcome <- Outcome

\* The detailed call implements its contract: retries, rebase and late pushes
\* included, the publication joins the branch at most once, with the content
\* that was generated, and each way to end means what the caller takes it for.
MeetsContract == Contract!Spec

\* The call ends, whatever fails.
Terminates == <>(step \in Finished)
=============================================================================
