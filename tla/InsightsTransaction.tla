-------------------------- MODULE InsightsTransaction --------------------------
(***************************************************************************)
(* One publication of the insights bundle after another                       *)
(* (orchestrator/insights_publication.py: _phase) over the journal of         *)
(* publisher/insights/store.py: every run first settles what the last one     *)
(* left, then journals the old files, writes the new ones, and hands them to  *)
(* publish_with_receipt, whose receipts it adds to the journal.  A step may   *)
(* fail with or without its effect, and the process may die anywhere.         *)
(*                                                                            *)
(* A bundle is a number, new for each publication because it holds the time   *)
(* it was evaluated at; zero is no bundle.  A commit is named by the bundle   *)
(* in it.  Of publish_with_receipt only what PublicationContract promises is  *)
(* used: commit, push and observation, each of which may fail or be lost.     *)
(* The lease is exclusive and dies with its process: one run at a time.       *)
(***************************************************************************)
EXTENDS Naturals, FiniteSets

CONSTANTS
  Paths,      \* the owned files of a bundle
  NoJournal,  \* no journal directory
  Incomplete, \* a journal directory without a readable journal.json
  MaxBundles, \* bound: bundles prepared here or published elsewhere
  MaxFaults   \* bound: failed steps and deaths in a behaviour

ASSUME InsightsAssumption ==
  /\ IsFiniteSet(Paths) /\ Paths # {}
  /\ NoJournal # Incomplete
  /\ MaxBundles \in Nat /\ MaxFaults \in Nat

Bundles == 0..MaxBundles
Whole(bundle) == [p \in Paths |-> bundle]

Receipts == {"none", "pending", "remote_confirmed", "definitely_unpublished",
             "outcome_unknown"}

\* old and backups: what the files held, and which copies of it still exist.
Journals ==
  [initial : Bundles, bundle : Bundles, old : [Paths -> Bundles],
   backups : SUBSET Paths, receipt : Receipts, named : BOOLEAN]

ASSUME JournalAssumption == NoJournal \notin Journals /\ Incomplete \notin Journals

VARIABLES
  file, index, head,        \* working tree, index and HEAD of the clone
  journal,                  \* .tmp/insights-publication
  remote, landed, delayed,  \* origin/main: its bundle, all it held, late pushes
  pc, mode,                 \* next step of the run; what a rollback is part of
  bundle, baseline,         \* the run's bundle and the one it was made from
  todo,                     \* files still to be written or restored
  outcome, made, faults

clone == <<file, index, head>>
origin == <<remote, landed, delayed>>
run == <<mode, bundle, baseline, todo, made>>
vars == <<clone, journal, origin, pc, run, outcome, faults>>

Journalled == journal \notin {NoJournal, Incomplete}

-----------------------------------------------------------------------------
Init ==
  /\ file = Whole(0) /\ index = Whole(0) /\ head = 0
  /\ journal = NoJournal
  /\ remote = 0 /\ landed = {0} /\ delayed = {}
  /\ pc = "idle" /\ mode = "recover"
  /\ bundle = 0 /\ baseline = 0 /\ todo = {}
  /\ outcome = "none" /\ made = 0 /\ faults = 0

Goto(step) == pc' = step /\ UNCHANGED <<mode, todo, outcome, faults>>

Enter(step, m) == pc' = step /\ mode' = m /\ UNCHANGED <<todo, outcome, faults>>

Do(step, files) == pc' = step /\ todo' = files /\ UNCHANGED <<mode, outcome, faults>>

End(status) == pc' = "idle" /\ outcome' = status /\ UNCHANGED <<mode, todo, faults>>

\* A failed step: the process dies, or the exception ends the run as status.
FaultEnding(status) ==
  /\ faults < MaxFaults /\ faults' = faults + 1
  /\ pc' = "idle" /\ outcome' \in {"died", status}
  /\ UNCHANGED <<mode, todo>>

\* In stage() an exception is handled before it ends the run.
FaultHandled(step) ==
  /\ faults < MaxFaults /\ faults' = faults + 1
  /\ \/ pc' = "idle" /\ outcome' = "died" /\ UNCHANGED mode
     \/ pc' = step /\ mode' = "stage" /\ UNCHANGED outcome
  /\ UNCHANGED todo

Step(step) == pc = step /\ UNCHANGED <<bundle, baseline, made>>

-----------------------------------------------------------------------------
Start ==
  /\ pc = "idle" /\ made < MaxBundles
  /\ made' = made + 1 /\ bundle' = made + 1
  /\ pc' = "reconcile" /\ outcome' = "running"
  /\ UNCHANGED <<clone, journal, origin, mode, baseline, todo, faults>>

(* reconcile_publication, and record_receipt of what it found.               *)
Reconciled ==
  IF ~journal.named THEN {"outcome_unknown"}
  ELSE {"outcome_unknown", IF journal.bundle \in landed THEN "remote_confirmed"
                           ELSE "definitely_unpublished"}

Reconcile ==
  /\ Step("reconcile")
  /\ \/ /\ journal = Incomplete
        /\ End("failed") /\ UNCHANGED journal
     \/ /\ \/ journal = NoJournal
           \/ Journalled /\ journal.receipt \in {"none", "remote_confirmed"}
        /\ Goto("recover") /\ UNCHANGED journal
     \/ /\ Journalled /\ journal.receipt \notin {"none", "remote_confirmed"}
        /\ \E status \in Reconciled :
             LET recorded == [journal EXCEPT !.receipt = status]
             IN  \/ journal' = recorded /\ Goto("recover")
                 \/ journal' \in {journal, recorded} /\ FaultEnding("failed")
  /\ UNCHANGED <<clone, origin>>

\* recover: only an unrecorded transaction whose HEAD is still the initial one
\* is rolled back.
AnyHead == TRUE                     \* a bug: HEAD is not compared

SameHead == journal.initial = head

Recover ==
  /\ Step("recover")
  /\ \/ journal = NoJournal /\ Goto("load")
     \/ /\ Journalled /\ journal.receipt = "remote_confirmed"
        /\ Enter("finish", "recover")
     \/ /\ Journalled /\ journal.receipt \notin {"none", "remote_confirmed"}
        /\ End("failed")
     \/ /\ Journalled /\ journal.receipt = "none"
        /\ \/ ~SameHead /\ End("outcome_unknown")
           \/ SameHead /\ Enter("check", "recover")
     \/ FaultEnding("failed")
  /\ UNCHANGED <<clone, journal, origin>>

-----------------------------------------------------------------------------
(* rollback: all files and backups are validated before the first is touched *)
Restorable(p) ==
  /\ journal.old[p] # 0 => p \in journal.backups
  /\ \/ file[p] = journal.bundle
     \/ file[p] = journal.old[p] /\ (mode # "pre_commit" \/ file[p] = 0)

Check ==
  /\ Step("check")
  /\ \/ /\ \A p \in Paths : Restorable(p)
        /\ Do(IF mode = "stage" THEN "restore" ELSE "restore_index",
              {p \in Paths : file[p] # journal.old[p]})
     \/ /\ \E p \in Paths : ~Restorable(p)
        /\ End("failed")
     \/ FaultEnding("failed")
  /\ UNCHANGED <<clone, journal, origin>>

(* _restore_owned_index: nothing is reset unless all that is staged is the   *)
(* bundle, over the old content.  HEAD is the one just compared: the lease    *)
(* keeps other runs away.                                                     *)
IndexKept == index' = index         \* a bug: the staged files stay staged

ResetIndex == index' = Whole(head)

RestoreIndex ==
  /\ Step("restore_index")
  /\ \/ /\ \A p \in Paths : index[p] # head =>
             index[p] = journal.bundle /\ journal.old[p] = head
        /\ ResetIndex
        /\ Goto("restore")
     \/ index' \in {index, Whole(head)} /\ FaultEnding("failed")
  /\ UNCHANGED <<file, head, journal, origin>>

RestoreOne ==
  \E p \in todo :
    /\ file' = [file EXCEPT ![p] = journal.old[p]]
    /\ Do("restore", todo \ {p})

Restore ==
  /\ Step("restore")
  /\ \/ RestoreOne
     \/ todo = {} /\ Goto("finish") /\ UNCHANGED file
     \/ /\ \E p \in todo : file' \in {file, [file EXCEPT ![p] = journal.old[p]]}
        /\ FaultEnding("failed")
  /\ UNCHANGED <<index, head, journal, origin>>

(* finish: rmtree of the journal directory, in whatever order it lists its   *)
(* entries.                                                                   *)
Interrupted ==
  {journal, Incomplete} \cup
  (IF Journalled THEN {[journal EXCEPT !.backups = b] : b \in SUBSET journal.backups}
   ELSE {})

Finish ==
  /\ Step("finish")
  /\ \/ /\ journal' = NoJournal
        /\ \/ mode = "recover" /\ Goto("load")
           \/ mode \in {"stage", "pre_commit"} /\ End("failed")
           \/ mode = "confirmed" /\ End("remote_confirmed")
     \/ /\ journal' \in Interrupted \cup {NoJournal}
        /\ FaultEnding(IF mode = "confirmed" THEN "remote_confirmed" ELSE "failed")
  /\ UNCHANGED <<clone, origin>>

-----------------------------------------------------------------------------
(* load_remote_baseline, projection, and the check that nothing owned is     *)
(* dirty and nothing at all is staged.                                        *)
Load ==
  /\ pc = "load"
  /\ \/ baseline' = remote /\ Goto("clean")
     \/ baseline' = baseline /\ FaultEnding("failed")
  /\ UNCHANGED <<clone, journal, origin, bundle, made>>

Clean ==
  /\ Step("clean")
  /\ \/ file = Whole(head) /\ index = Whole(head) /\ Goto("directory")
     \/ (file # Whole(head) \/ index # Whole(head)) /\ End("failed")
     \/ FaultEnding("failed")
  /\ UNCHANGED <<clone, journal, origin>>

(* stage: directory, backups and journal come before the first public file.  *)
MakeDirectory ==
  /\ Step("directory")
  /\ \/ journal' = Incomplete /\ Goto("journal")
     \/ journal' \in {journal, Incomplete} /\ FaultEnding("failed")
  /\ UNCHANGED <<clone, origin>>

JournalFirst ==                     \* a bug: the journal precedes the backups
  [initial |-> head, bundle |-> bundle, old |-> file,
   backups |-> {}, receipt |-> "none", named |-> FALSE]

NewJournal ==
  [initial |-> head, bundle |-> bundle, old |-> file,
   backups |-> {p \in Paths : file[p] # 0}, receipt |-> "none", named |-> FALSE]

WriteJournal ==
  /\ Step("journal")
  /\ \/ journal' = NewJournal /\ Do("write", Paths)
     \/ journal' = NewJournal /\ FaultHandled("check")
     \/ journal' = journal /\ FaultHandled("finish")
  /\ UNCHANGED <<clone, origin>>

WriteFile ==
  /\ Step("write")
  /\ \/ todo = {} /\ Goto("verify") /\ UNCHANGED file
     \/ \E p \in todo :
          LET written == [file EXCEPT ![p] = bundle]
          IN  \/ file' = written /\ Do("write", todo \ {p})
              \/ file' \in {file, written} /\ FaultHandled("check")
  /\ UNCHANGED <<index, head, journal, origin>>

Verify ==
  /\ Step("verify")
  /\ \/ file = Whole(bundle) /\ Goto("commit")
     \/ FaultEnding("failed")
  /\ UNCHANGED <<clone, journal, origin>>

-----------------------------------------------------------------------------
(* publish_with_receipt as its contract has it: a failure before the commit  *)
(* is rolled back, anything later is retained.                               *)
PreCommitFailure ==
  /\ \E staged \in SUBSET Paths :
       index' = [p \in Paths |-> IF p \in staged THEN bundle ELSE index[p]]
  /\ Enter("check", "pre_commit")
  /\ UNCHANGED <<head, journal>>

\* record_receipt; the sink's own failure leaves the journal as it was.
Record(status, isNamed) ==
  journal' = [journal EXCEPT !.receipt = status, !.named = isNamed]

CommitUnknown ==
  /\ head' \in {head, bundle} /\ index' = Whole(bundle)
  /\ Record("outcome_unknown", FALSE) \/ UNCHANGED journal
  /\ End("outcome_unknown")

Committed ==
  /\ head' = bundle /\ index' = Whole(bundle)
  /\ Goto("pending")
  /\ UNCHANGED journal

Commit ==
  /\ Step("commit")
  /\ \/ PreCommitFailure \/ CommitUnknown \/ Committed
     \/ /\ head' = head /\ index' \in {index, Whole(bundle)} /\ UNCHANGED journal
        /\ faults < MaxFaults /\ faults' = faults + 1
        /\ pc' = "idle" /\ outcome' = "died" /\ UNCHANGED <<mode, todo>>
  /\ UNCHANGED <<file, origin>>

\* The pending receipt; the committed content is compared with the bundle.
RecordPending ==
  /\ Step("pending")
  /\ \/ Record("pending", TRUE) /\ Goto("push")
     \/ (Record("pending", TRUE) \/ UNCHANGED journal) /\ FaultEnding("outcome_unknown")
  /\ UNCHANGED <<clone, origin>>

Push ==
  /\ Step("push")
  /\ \/ remote = baseline /\ remote' = bundle /\ landed' = landed \cup {bundle}
        /\ UNCHANGED delayed
     \/ /\ remote = baseline
        /\ delayed' = delayed \cup {[base |-> baseline, bundle |-> bundle]}
        /\ UNCHANGED <<remote, landed>>
     \/ UNCHANGED origin
  /\ \/ Goto("observe")
     \/ FaultEnding("outcome_unknown")
  /\ UNCHANGED <<clone, journal>>

Observed ==
  {"outcome_unknown", IF bundle \in landed THEN "remote_confirmed"
                      ELSE "definitely_unpublished"}

Observe ==
  /\ Step("observe")
  /\ \E status \in Observed :
       /\ Record(status, TRUE) \/ UNCHANGED journal
       /\ \/ status = "remote_confirmed" /\ Enter("finish", "confirmed")
          \/ status = "definitely_unpublished" /\ (Goto("push") \/ End("failed"))
          \/ status = "outcome_unknown" /\ End("outcome_unknown")
  /\ UNCHANGED <<clone, origin>>

Run ==
  \/ Reconcile \/ Recover \/ Check \/ RestoreIndex \/ Restore \/ Finish \/ Load
  \/ Clean \/ MakeDirectory \/ WriteJournal \/ WriteFile \/ Verify \/ Commit
  \/ RecordPending \/ Push \/ Observe

-----------------------------------------------------------------------------
(* What happens around the runs. *)

LatePush ==
  /\ \E push \in delayed :
       /\ push.base = remote
       /\ remote' = push.bundle /\ landed' = landed \cup {push.bundle}
       /\ delayed' = delayed \ {push}
  /\ UNCHANGED <<clone, journal, pc, run, outcome, faults>>

PublishedElsewhere ==
  /\ made < MaxBundles
  /\ made' = made + 1
  /\ remote' = made + 1 /\ landed' = landed \cup {made + 1}
  /\ UNCHANGED <<clone, journal, delayed, pc, mode, bundle, baseline, todo,
                 outcome, faults>>

\* A new runner: a fresh clone, and no journal.
FreshClone ==
  /\ pc = "idle"
  /\ head' = remote /\ file' = Whole(remote) /\ index' = Whole(remote)
  /\ journal' = NoJournal
  /\ outcome' = "none"
  /\ UNCHANGED <<origin, pc, run, faults>>

Next == Start \/ Run \/ LatePush \/ PublishedElsewhere \/ FreshClone

Spec == Init /\ [][Next]_vars

-----------------------------------------------------------------------------

\* When no journal is left, the files and the index are those of HEAD: no run,
\* however interrupted, leaves half a bundle that nothing will repair.
CleanWithoutJournal ==
  pc = "idle" /\ ~Journalled => file = Whole(head) /\ index = Whole(head)

\* From the moment a bundle is committed, its files are never rolled back.
CommittedSurvives ==
  Journalled /\ head = journal.bundle => file = Whole(head)

\* A commit the remote never held has its journal, the one of that bundle: with
\* the commit's receipt, or still as a preparation when the process died before
\* the receipt, which SameHead keeps from being rolled back (recover).
UndecidedIsRetained ==
  head \notin landed => Journalled /\ journal.bundle = head

\* The old content of a file is in HEAD's tree, in the file or in its backup
\* until the transaction is decided.
OldContentKept ==
  Journalled /\ journal.receipt = "none" /\ SameHead =>
    \A p \in Paths : \/ journal.old[p] \in {0, file[p]}
                     \/ p \in journal.backups

\* What a run prepared without committing can be rolled back by the next run.
PreparationRecovers ==
  pc = "idle" =>
    /\ journal # Incomplete
    /\ Journalled /\ journal.receipt = "none" /\ SameHead =>
         \A p \in Paths : journal.old[p] # 0 => p \in journal.backups
=============================================================================
