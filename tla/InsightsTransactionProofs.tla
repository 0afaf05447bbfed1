----------------------- MODULE InsightsTransactionProofs -----------------------
(***************************************************************************)
(* That a bundle is never left half undone, and a commit never undone, for    *)
(* every set of files, number of bundles and number of faults.  While there   *)
(* is no journal, the clone is its HEAD's; while there is one, HEAD is its    *)
(* initial commit, and every file is old or new, or HEAD is its bundle, and   *)
(* every file is new; and only in the second case can the bundle have left    *)
(* the clone.                                                                 *)
(***************************************************************************)
EXTENDS InsightsTransaction, TLAPS

TypeOK ==
  /\ file \in [Paths -> Bundles] /\ index \in [Paths -> Bundles] /\ head \in Bundles
  /\ journal \in Journals \cup {NoJournal, Incomplete}
  /\ remote \in landed /\ landed \subseteq Bundles
  /\ delayed \subseteq [base : Bundles, bundle : Bundles]
  /\ bundle \in Bundles /\ baseline \in Bundles /\ made \in Bundles
  /\ todo \subseteq Paths

\* Every bundle that exists was made.
Numbers ==
  /\ head <= made /\ bundle <= made
  /\ \A b \in landed : b <= made
  /\ \A d \in delayed : d.bundle <= made
  /\ Journalled => journal.bundle <= made

Left(b) == b \in landed \/ \E d \in delayed : d.bundle = b

\* The clone, seen from the journal.
CloneOK ==
  /\ ~Journalled => file = Whole(head) /\ index = Whole(head) /\ head \in landed
  /\ Journalled =>
       /\ journal.initial \in landed /\ journal.initial # journal.bundle
       /\ journal.old = Whole(journal.initial)
       /\ head \in {journal.initial, journal.bundle}
       /\ Left(journal.bundle) => head = journal.bundle
       /\ journal.receipt = "remote_confirmed" => journal.bundle \in landed
       /\ head = journal.bundle => file = Whole(head) /\ index = Whole(head)
       /\ \A p \in Paths : /\ file[p] \in {journal.initial, journal.bundle}
                           /\ index[p] \in {journal.initial, journal.bundle}
       /\ head = journal.initial =>
            \A p \in Paths : journal.initial = 0 \/ file[p] = head \/ p \in journal.backups

Undoing == pc \in {"check", "restore_index", "restore", "finish"}

\* The run's own bundle is new until its commit.
Fresh == ~Left(bundle) /\ head # bundle

Before ==
  \/ pc \in {"reconcile", "recover", "load", "clean", "directory", "journal"}
  \/ Undoing /\ mode = "recover"

PreparingOK == Before => Fresh

\* What the run is about to do is safe.
StepOK ==
  /\ pc \in {"load", "clean", "directory"} => journal = NoJournal
  /\ pc = "journal" => journal = Incomplete
  /\ pc \in {"write", "verify", "commit", "pending", "push", "observe"} =>
       Journalled /\ journal.bundle = bundle
  /\ pc \in {"write", "verify", "commit"} =>
       /\ head = journal.initial /\ index = Whole(head)
       /\ \A p \in Paths : journal.initial = 0 \/ p \in journal.backups
  /\ pc = "write" => \A p \in Paths \ todo : file[p] = bundle
  /\ pc = "commit" => file = Whole(bundle)
  /\ pc \in {"pending", "push", "observe"} => head = bundle
  /\ pc \in {"check", "restore_index", "restore"} => Journalled /\ head = journal.initial
  /\ pc = "check" /\ mode = "stage" => index = Whole(head)
  /\ pc = "restore" => index = Whole(head)
  /\ pc \in {"restore_index", "restore"} => \A p \in Paths \ todo : file[p] = head
  /\ pc = "finish" => file = Whole(head) /\ index = Whole(head) /\ head \in landed

Inv == TypeOK /\ Numbers /\ CloneOK /\ PreparingOK /\ StepOK

-----------------------------------------------------------------------------
(* Bundles as trees, and journals. *)

LEMMA WholeFacts ==
  /\ \A b \in Bundles : Whole(b) \in [Paths -> Bundles]
  /\ \A b, p : p \in Paths => Whole(b)[p] = b
  /\ \A b, c : Whole(b) = Whole(c) => b = c
  /\ \A f \in [Paths -> Bundles] : \A b : (\A p \in Paths : f[p] = b) => f = Whole(b)
<1>1. PICK p \in Paths : TRUE
  BY InsightsAssumption
<1> QED
  BY <1>1 DEF Whole

LEMMA BundleFacts == 0 \in Bundles /\ Bundles \subseteq Nat /\ MaxBundles \in Nat
  BY InsightsAssumption DEF Bundles

\* The fields of a journal; no record is one of the two other values.
LEMMA JournalFacts ==
  ASSUME NEW j \in Journals
  PROVE  /\ j \notin {NoJournal, Incomplete}
         /\ j.initial \in Bundles /\ j.bundle \in Bundles /\ j.old \in [Paths -> Bundles]
         /\ j.backups \subseteq Paths /\ j.receipt \in Receipts /\ j.named \in BOOLEAN
  BY JournalAssumption DEF Journals

LEMMA JournalledFacts ==
  ASSUME TypeOK
  PROVE  /\ Journalled <=> journal \in Journals
         /\ Journalled <=> journal # NoJournal /\ journal # Incomplete
         /\ Journalled => journal.initial \in Bundles /\ journal.bundle \in Bundles
  BY JournalFacts DEF TypeOK, Journalled

-----------------------------------------------------------------------------
LEMMA InitInv == Init => Inv
<1> SUFFICES ASSUME Init PROVE Inv
  OBVIOUS
<1>1. TypeOK
  BY WholeFacts, BundleFacts DEF Init, TypeOK
<1>2. Numbers
  BY BundleFacts DEF Init, Numbers, Journalled
<1>3. CloneOK
  BY DEF Init, CloneOK, Journalled
<1>4. PreparingOK /\ StepOK
  BY DEF Init, PreparingOK, Before, Undoing, StepOK
<1> QED
  BY <1>1, <1>2, <1>3, <1>4 DEF Inv

\* Between runs nothing is asked of the step.
LEMMA Ended == pc' = "idle" => PreparingOK' /\ StepOK'
  BY DEF PreparingOK, Before, Undoing, StepOK

LEMMA SameClone ==
  ASSUME Inv, UNCHANGED <<clone, journal, origin, bundle, made>>
  PROVE  Numbers' /\ CloneOK' /\ (Fresh => Fresh') /\ (Journalled' <=> Journalled)
  BY DEF Inv, Numbers, CloneOK, Fresh, Left, Journalled, clone, origin

\* A step that only looks, and where it leads.
LEMMA Looked ==
  ASSUME Inv, UNCHANGED <<clone, journal, origin, bundle, baseline, made>>,
         todo' \subseteq Paths, PreparingOK', StepOK'
  PROVE  Inv'
<1>1. TypeOK'
  BY DEF Inv, TypeOK, clone, origin
<1> QED
  BY <1>1, SameClone DEF Inv

LEMMA StartKeeps == Inv /\ Start => Inv'
<1> SUFFICES ASSUME Inv, Start PROVE Inv'
  OBVIOUS
<1> USE BundleFacts DEF Start, clone, origin
<1>1. made' \in Bundles /\ made' = made + 1 /\ bundle' = made'
  BY DEF Inv, TypeOK, Bundles
<1>2. TypeOK'
  BY <1>1 DEF Inv, TypeOK
<1>3. Numbers' /\ Fresh'
  <2>1. \A n : n \in Nat /\ n <= made => n <= made + 1 /\ n # made + 1
    BY DEF Inv, TypeOK
  <2>2. /\ head <= made /\ head \in Nat /\ made + 1 <= made + 1
        /\ \A b \in landed : b \in Nat /\ b <= made
    BY DEF Inv, TypeOK, Numbers
  <2>3. \A d \in delayed : d.bundle \in Nat /\ d.bundle <= made
    <3>1. \A d \in delayed : d.bundle \in Bundles
      BY DEF Inv, TypeOK
    <3> QED
      BY <3>1 DEF Inv, Numbers
  <2>4. Journalled => journal.bundle \in Nat /\ journal.bundle <= made
    BY JournalledFacts DEF Inv, Numbers
  <2> QED
    BY <1>1, <2>1, <2>2, <2>3, <2>4 DEF Numbers, Fresh, Left, Journalled
<1>4. CloneOK'
  BY DEF Inv, CloneOK, Left, Journalled
<1>5. PreparingOK' /\ StepOK'
  BY <1>3 DEF PreparingOK, Before, Undoing, StepOK
<1> QED
  BY <1>2, <1>3, <1>4, <1>5 DEF Inv

LEMMA RecoverKeeps == Inv /\ Recover => Inv'
<1> SUFFICES ASSUME Inv, Recover PROVE Inv'
  OBVIOUS
<1>1. UNCHANGED <<clone, journal, origin, bundle, baseline, made>> /\ pc = "recover"
  BY DEF Recover, Step
<1>2. todo' = todo /\ Fresh /\ Fresh'
  BY <1>1, SameClone
  DEF Recover, Goto, Enter, End, FaultEnding, Inv, PreparingOK, Before
<1>3. CASE journal = NoJournal /\ Goto("load")
  BY <1>1, <1>2, <1>3, Looked DEF Inv, TypeOK, Goto, PreparingOK, StepOK, Undoing
<1>4. CASE Journalled /\ journal.receipt = "remote_confirmed" /\ Enter("finish", "recover")
  <2>1. file = Whole(head) /\ index = Whole(head) /\ head \in landed
    BY <1>4 DEF Inv, CloneOK, Left
  <2> QED
    BY <1>1, <1>2, <1>4, <2>1, Looked
    DEF Inv, TypeOK, Enter, PreparingOK, StepOK, Undoing, clone, origin
<1>5. CASE pc' = "idle"
  BY <1>1, <1>2, <1>5, Looked, Ended DEF Inv, TypeOK
<1>6. CASE Journalled /\ SameHead /\ Enter("check", "recover")
  BY <1>1, <1>2, <1>6, Looked, SameClone
  DEF Inv, TypeOK, Enter, SameHead, PreparingOK, StepOK, Undoing, clone, origin
<1> QED
  BY <1>3, <1>4, <1>5, <1>6 DEF Recover, End, FaultEnding

LEMMA CheckKeeps == Inv /\ Check => Inv'
<1> SUFFICES ASSUME Inv, Check PROVE Inv'
  OBVIOUS
<1>1. UNCHANGED <<clone, journal, origin, bundle, baseline, made>> /\ pc = "check"
  BY DEF Check, Step
<1>2. CASE pc' = "idle"
  BY <1>1, <1>2, Looked, Ended DEF Check, Do, End, FaultEnding, Inv, TypeOK
<1>3. CASE Do(IF mode = "stage" THEN "restore" ELSE "restore_index",
              {p \in Paths : file[p] # journal.old[p]})
  <2>1. Journalled /\ head = journal.initial /\ journal.old = Whole(head)
    BY <1>1 DEF Inv, StepOK, CloneOK
  <2>2. \A p \in Paths \ todo' : file[p] = head
    BY <1>3, <2>1, WholeFacts DEF Do
  <2>3. mode' = mode /\ todo' \subseteq Paths
        /\ pc' = IF mode = "stage" THEN "restore" ELSE "restore_index"
    BY <1>3 DEF Do
  <2>4. PreparingOK'
    BY <1>1, <2>3, SameClone DEF Inv, PreparingOK, Before, Undoing
  <2>5. StepOK'
    BY <1>1, <2>1, <2>2, <2>3, SameClone DEF Inv, StepOK, clone, origin
  <2> QED
    BY <1>1, <2>3, <2>4, <2>5, Looked
<1> QED
  BY <1>2, <1>3 DEF Check, End, FaultEnding

LEMMA LoadKeeps == Inv /\ Load => Inv'
<1> SUFFICES ASSUME Inv, Load PROVE Inv'
  OBVIOUS
<1>1. UNCHANGED <<clone, journal, origin, bundle, made>> /\ pc = "load"
  BY DEF Load
<1>2. TypeOK' /\ mode' = mode
  BY <1>1 DEF Load, Goto, FaultEnding, Inv, TypeOK, clone, origin
<1>3. PreparingOK' /\ StepOK'
  <2>1. CASE pc' = "idle"
    BY <2>1, Ended
  <2>2. CASE Goto("clean")
    BY <1>1, <2>2, SameClone
    DEF Goto, Inv, PreparingOK, Before, Undoing, StepOK
  <2> QED
    BY <2>1, <2>2 DEF Load, FaultEnding
<1> QED
  BY <1>1, <1>2, <1>3, SameClone DEF Inv

LEMMA CleanKeeps == Inv /\ Clean => Inv'
<1> SUFFICES ASSUME Inv, Clean PROVE Inv'
  OBVIOUS
<1>1. UNCHANGED <<clone, journal, origin, bundle, baseline, made>> /\ pc = "clean"
      /\ todo' = todo
  BY DEF Clean, Step, Goto, End, FaultEnding
<1>2. PreparingOK' /\ StepOK'
  <2>1. CASE pc' = "idle"
    BY <2>1, Ended
  <2>2. CASE Goto("directory")
    BY <1>1, <2>2, SameClone
    DEF Goto, Inv, PreparingOK, Before, Undoing, StepOK
  <2> QED
    BY <2>1, <2>2 DEF Clean, End, FaultEnding
<1> QED
  BY <1>1, <1>2, Looked DEF Inv, TypeOK

LEMMA VerifyKeeps == Inv /\ Verify => Inv'
<1> SUFFICES ASSUME Inv, Verify PROVE Inv'
  OBVIOUS
<1>1. UNCHANGED <<clone, journal, origin, bundle, baseline, made>> /\ pc = "verify"
      /\ todo' = todo
  BY DEF Verify, Step, Goto, FaultEnding
<1>2. PreparingOK' /\ StepOK'
  <2>1. CASE pc' = "idle"
    BY <2>1, Ended
  <2>2. CASE file = Whole(bundle) /\ Goto("commit")
    BY <1>1, <2>2, SameClone
    DEF Goto, Inv, PreparingOK, Before, Undoing, StepOK, clone, origin
  <2> QED
    BY <2>1, <2>2 DEF Verify, FaultEnding
<1> QED
  BY <1>1, <1>2, Looked DEF Inv, TypeOK

\* A recorded receipt changes nothing else; a confirmation is the truth.
LEMMA Recorded ==
  ASSUME Inv, Journalled, UNCHANGED <<clone, origin, bundle, made>>,
         NEW r \in Receipts, NEW n \in BOOLEAN,
         r = "remote_confirmed" => journal.bundle \in landed,
         \/ journal' = [journal EXCEPT !.receipt = r]
         \/ journal' = [journal EXCEPT !.receipt = r, !.named = n]
  PROVE  /\ journal' \in Journals /\ Journalled'
         /\ journal'.bundle = journal.bundle /\ journal'.initial = journal.initial
         /\ Numbers' /\ CloneOK'
<1>1. journal \in Journals
  BY JournalledFacts DEF Inv
<1>2. /\ journal' \in Journals
      /\ journal'.initial = journal.initial /\ journal'.bundle = journal.bundle
      /\ journal'.old = journal.old /\ journal'.backups = journal.backups
      /\ journal'.receipt = r
  <2>1. CASE journal' = [journal EXCEPT !.receipt = r]
    BY <1>1, <2>1 DEF Journals
  <2>2. CASE journal' = [journal EXCEPT !.receipt = r, !.named = n]
    <3>1. journal' = [initial |-> journal.initial, bundle |-> journal.bundle,
                      old |-> journal.old, backups |-> journal.backups,
                      receipt |-> r, named |-> n]
      BY <1>1, <2>2 DEF Journals
    <3> QED
      BY <1>1, <3>1, JournalFacts DEF Journals
  <2> QED
    BY <2>1, <2>2
<1>3. Journalled'
  BY <1>2, JournalFacts DEF Journalled
<1>4. Numbers'
  BY <1>2 DEF Inv, Numbers, clone, origin
<1>5. CloneOK'
  BY <1>2, <1>3 DEF Inv, CloneOK, Left, clone, origin
<1> QED
  BY <1>2, <1>3, <1>4, <1>5

LEMMA ReconcileKeeps == Inv /\ Reconcile => Inv'
<1> SUFFICES ASSUME Inv, Reconcile PROVE Inv'
  OBVIOUS
<1>1. UNCHANGED <<clone, origin, bundle, baseline, made>> /\ pc = "reconcile"
      /\ todo' = todo
  BY DEF Reconcile, Step, Goto, End, FaultEnding
<1>2. Fresh
  BY <1>1 DEF Inv, PreparingOK, Before
<1>3. Fresh'
  BY <1>1, <1>2 DEF Fresh, Left, clone, origin
<1>4. PreparingOK' /\ StepOK'
  <2>1. CASE pc' = "idle"
    BY <2>1, Ended
  <2>2. CASE pc' = "recover"
    BY <1>3, <2>2 DEF PreparingOK, StepOK, Undoing
  <2> QED
    BY <2>1, <2>2 DEF Reconcile, Goto, End, FaultEnding
<1>5. CASE journal' = journal
  BY <1>1, <1>4, <1>5, Looked DEF Inv, TypeOK
<1>6. CASE Journalled /\ \E status \in Reconciled :
             journal' = [journal EXCEPT !.receipt = status]
  <2>1. PICK status \in Reconciled : journal' = [journal EXCEPT !.receipt = status]
    BY <1>6
  <2>2. status \in Receipts /\ (status = "remote_confirmed" => journal.bundle \in landed)
    BY <2>1 DEF Reconciled, Receipts
  <2>3. journal' \in Journals /\ Numbers' /\ CloneOK'
    BY <1>1, <1>6, <2>1, <2>2, Recorded
  <2>4. TypeOK'
    BY <1>1, <2>3 DEF Inv, TypeOK, clone, origin
  <2> QED
    BY <1>4, <2>3, <2>4 DEF Inv
<1> QED
  BY <1>5, <1>6 DEF Reconcile

LEMMA RecordPendingKeeps == Inv /\ RecordPending => Inv'
<1> SUFFICES ASSUME Inv, RecordPending PROVE Inv'
  OBVIOUS
<1>1. UNCHANGED <<clone, origin, bundle, baseline, made>> /\ pc = "pending"
      /\ todo' = todo /\ mode' = mode
  BY DEF RecordPending, Step, Goto, FaultEnding
<1>2. Journalled /\ journal.bundle = bundle /\ head = bundle
  BY <1>1 DEF Inv, StepOK
<1>3. CASE journal' = journal /\ pc' = "idle"
  BY <1>1, <1>3, Looked, Ended DEF Inv, TypeOK
<1>4. CASE Record("pending", TRUE)
  <2>1. /\ journal' \in Journals /\ Journalled' /\ journal'.bundle = journal.bundle
        /\ Numbers' /\ CloneOK'
    BY <1>1, <1>2, <1>4, Recorded DEF Record, Receipts
  <2>2. TypeOK'
    BY <1>1, <2>1 DEF Inv, TypeOK, clone, origin
  <2>3. pc' \in {"idle", "push"}
    BY DEF RecordPending, Goto, FaultEnding
  <2>4. PreparingOK' /\ StepOK'
    BY <1>1, <1>2, <2>1, <2>3 DEF PreparingOK, Before, Undoing, StepOK, clone
  <2> QED
    BY <2>1, <2>2, <2>4 DEF Inv
<1> QED
  BY <1>3, <1>4 DEF RecordPending, FaultEnding

LEMMA ObserveKeeps == Inv /\ Observe => Inv'
<1> SUFFICES ASSUME Inv, Observe PROVE Inv'
  OBVIOUS
<1>1. UNCHANGED <<clone, origin, bundle, baseline, made>> /\ pc = "observe"
      /\ todo' = todo
  BY DEF Observe, Step, Goto, Enter, End
<1>2. Journalled /\ journal.bundle = bundle /\ head = bundle
  BY <1>1 DEF Inv, StepOK
<1>3. PICK status \in Observed :
        /\ Record(status, TRUE) \/ UNCHANGED journal
        /\ \/ status = "remote_confirmed" /\ Enter("finish", "confirmed")
           \/ status = "definitely_unpublished" /\ (Goto("push") \/ End("failed"))
           \/ status = "outcome_unknown" /\ End("outcome_unknown")
  BY DEF Observe
<1>4. status \in Receipts /\ (status = "remote_confirmed" => bundle \in landed)
  BY DEF Observed, Receipts
<1>5. /\ TypeOK' /\ Journalled' /\ journal'.bundle = bundle /\ Numbers' /\ CloneOK'
  <2>1. CASE journal' = journal
    <3>1. Numbers' /\ CloneOK' /\ Journalled'
      BY <1>1, <1>2, <2>1, SameClone
    <3>2. TypeOK'
      BY <1>1, <2>1 DEF Inv, TypeOK, clone, origin
    <3> QED
      BY <1>2, <2>1, <3>1, <3>2
  <2>2. CASE Record(status, TRUE)
    <3>1. /\ journal' \in Journals /\ Journalled' /\ journal'.bundle = journal.bundle
          /\ Numbers' /\ CloneOK'
      BY <1>1, <1>2, <1>4, <2>2, Recorded DEF Record
    <3>2. TypeOK'
      BY <1>1, <3>1 DEF Inv, TypeOK, clone, origin
    <3> QED
      BY <1>2, <3>1, <3>2
  <2> QED
    BY <1>3, <2>1, <2>2
<1>6. PreparingOK' /\ StepOK'
  <2>1. CASE pc' = "idle"
    BY <2>1, Ended
  <2>2. CASE pc' = "push"
    BY <1>1, <1>2, <1>5, <2>2 DEF PreparingOK, Before, Undoing, StepOK, clone
  <2>3. CASE status = "remote_confirmed" /\ Enter("finish", "confirmed")
    <3>1. file = Whole(head) /\ index = Whole(head) /\ head \in landed
      BY <1>2, <1>4, <2>3 DEF Inv, CloneOK
    <3> QED
      BY <1>1, <2>3, <3>1 DEF Enter, PreparingOK, Before, Undoing, StepOK, clone, origin
  <2> QED
    BY <1>3, <2>1, <2>2, <2>3 DEF Goto, End
<1> QED
  BY <1>5, <1>6 DEF Inv

-----------------------------------------------------------------------------
\* Before the commit the files and the index may be anything between the old
\* content and the bundle, as long as no old content is lost.
LEMMA Touched ==
  ASSUME Inv, Journalled, head = journal.initial,
         UNCHANGED <<head, journal, origin, bundle, baseline, made>>,
         file' \in [Paths -> Bundles], index' \in [Paths -> Bundles], todo' \subseteq Paths,
         \A p \in Paths :
           /\ file'[p] \in {file[p], head, journal.bundle}
           /\ index'[p] \in {index[p], head, journal.bundle}
           /\ journal.initial = 0 \/ p \in journal.backups \/ file'[p] \in {file[p], head}
  PROVE  TypeOK' /\ Numbers' /\ CloneOK' /\ Journalled' /\ (Fresh => Fresh')
<1>1. TypeOK' /\ Numbers' /\ Journalled' /\ (Fresh => Fresh')
  BY DEF Inv, TypeOK, Numbers, Journalled, Fresh, Left, origin
<1>2. head # journal.bundle
  BY DEF Inv, CloneOK
<1>3. \A p \in Paths : /\ file'[p] \in {journal.initial, journal.bundle}
                       /\ index'[p] \in {journal.initial, journal.bundle}
                       /\ journal.initial = 0 \/ file'[p] = head \/ p \in journal.backups
  BY DEF Inv, CloneOK
<1>4. CloneOK'
  BY <1>1, <1>2, <1>3 DEF Inv, CloneOK, Left, origin
<1> QED
  BY <1>1, <1>4

LEMMA RestoreIndexKeeps == Inv /\ RestoreIndex => Inv'
<1> SUFFICES ASSUME Inv, RestoreIndex PROVE Inv'
  OBVIOUS
<1>1. UNCHANGED <<file, head, journal, origin, bundle, baseline, made>>
      /\ pc = "restore_index" /\ todo' = todo /\ mode' = mode
  BY DEF RestoreIndex, Step, Goto, FaultEnding
<1>2. Journalled /\ head = journal.initial /\ \A p \in Paths \ todo : file[p] = head
  BY <1>1 DEF Inv, StepOK
<1>3. index' \in {index, Whole(head)}
  BY DEF RestoreIndex, ResetIndex
<1>4. index' \in [Paths -> Bundles] /\ \A p \in Paths : index'[p] \in {index[p], head}
  BY <1>3, WholeFacts DEF Inv, TypeOK
<1>5. TypeOK' /\ Numbers' /\ CloneOK' /\ Journalled' /\ (Fresh => Fresh')
  <2>1. file' \in [Paths -> Bundles] /\ todo' \subseteq Paths
    BY <1>1 DEF Inv, TypeOK
  <2> QED
    BY <1>1, <1>2, <1>4, <2>1, Touched
<1>6. PreparingOK' /\ StepOK'
  <2>1. CASE pc' = "idle"
    BY <2>1, Ended
  <2>2. CASE ResetIndex /\ pc' = "restore"
    BY <1>1, <1>2, <1>5, <2>2
    DEF ResetIndex, Inv, PreparingOK, Before, Undoing, StepOK
  <2> QED
    BY <2>1, <2>2 DEF RestoreIndex, Goto, FaultEnding
<1> QED
  BY <1>5, <1>6 DEF Inv

LEMMA RestoreKeeps == Inv /\ Restore => Inv'
<1> SUFFICES ASSUME Inv, Restore PROVE Inv'
  OBVIOUS
<1>1. UNCHANGED <<index, head, journal, origin, bundle, baseline, made>>
      /\ pc = "restore" /\ mode' = mode
  BY DEF Restore, RestoreOne, Step, Goto, Do, FaultEnding
<1>2. /\ Journalled /\ head = journal.initial /\ index = Whole(head)
      /\ \A p \in Paths \ todo : file[p] = head
      /\ \A p \in Paths : journal.old[p] = head
  BY <1>1, WholeFacts DEF Inv, StepOK, CloneOK
<1>3. todo \subseteq Paths /\ file \in [Paths -> Bundles] /\ head \in Bundles
      /\ index \in [Paths -> Bundles]
  BY DEF Inv, TypeOK
<1>4. CASE todo = {} /\ Goto("finish") /\ UNCHANGED file
  <2>1. file = Whole(head) /\ head \in landed
    BY <1>2, <1>3, <1>4, WholeFacts DEF Inv, CloneOK
  <2>2. PreparingOK'
    BY <1>1, <1>4, SameClone DEF Goto, Inv, PreparingOK, Before, Undoing, clone
  <2>3. StepOK'
    BY <1>1, <1>2, <1>4, <2>1 DEF Goto, StepOK, origin
  <2> QED
    BY <1>1, <1>3, <1>4, <2>2, <2>3, Looked DEF Goto, clone
<1>5. CASE \E p \in todo : file' \in {file, [file EXCEPT ![p] = journal.old[p]]}
                           /\ FaultEnding("failed")
  <2>1. file' \in [Paths -> Bundles] /\ \A p \in Paths : file'[p] \in {file[p], head}
    BY <1>2, <1>3, <1>5
  <2>2. todo' = todo /\ pc' = "idle"
    BY <1>5 DEF FaultEnding
  <2>3. TypeOK' /\ Numbers' /\ CloneOK'
    BY <1>1, <1>2, <1>3, <2>1, <2>2, Touched
  <2> QED
    BY <2>2, <2>3, Ended DEF Inv
<1>6. CASE RestoreOne
  <2>1. PICK p \in todo : file' = [file EXCEPT ![p] = journal.old[p]]
                          /\ Do("restore", todo \ {p})
    BY <1>6 DEF RestoreOne
  <2>2. /\ file' \in [Paths -> Bundles] /\ \A q \in Paths : file'[q] \in {file[q], head}
        /\ \A q \in Paths \ todo' : file'[q] = head
        /\ todo' \subseteq Paths /\ pc' = "restore"
    BY <1>2, <1>3, <2>1 DEF Do
  <2>3. TypeOK' /\ Numbers' /\ CloneOK' /\ Journalled' /\ (Fresh => Fresh')
    BY <1>1, <1>2, <1>3, <2>2, Touched
  <2>4. PreparingOK' /\ StepOK'
    BY <1>1, <1>2, <2>2, <2>3 DEF Inv, PreparingOK, Before, Undoing, StepOK
  <2> QED
    BY <2>3, <2>4 DEF Inv
<1> QED
  BY <1>4, <1>5, <1>6 DEF Restore

LEMMA WriteFileKeeps == Inv /\ WriteFile => Inv'
<1> SUFFICES ASSUME Inv, WriteFile PROVE Inv'
  OBVIOUS
<1>1. UNCHANGED <<index, head, journal, origin, bundle, baseline, made>>
      /\ pc = "write"
  BY DEF WriteFile, Step
<1>2. /\ Journalled /\ journal.bundle = bundle /\ head = journal.initial
      /\ index = Whole(head) /\ \A p \in Paths \ todo : file[p] = bundle
      /\ \A p \in Paths : journal.initial = 0 \/ p \in journal.backups
  BY <1>1 DEF Inv, StepOK
<1>3. todo \subseteq Paths /\ file \in [Paths -> Bundles] /\ bundle \in Bundles
      /\ index \in [Paths -> Bundles]
  BY DEF Inv, TypeOK
<1>4. CASE todo = {} /\ Goto("verify") /\ UNCHANGED file
  BY <1>1, <1>2, <1>3, <1>4, Looked, SameClone
  DEF Goto, PreparingOK, Before, Undoing, StepOK, clone
<1>5. CASE \E p \in todo : LET written == [file EXCEPT ![p] = bundle]
                          IN  \/ file' = written /\ Do("write", todo \ {p})
                              \/ file' \in {file, written} /\ FaultHandled("check")
  <2>1. PICK p \in todo :
          \/ file' = [file EXCEPT ![p] = bundle] /\ Do("write", todo \ {p})
          \/ file' \in {file, [file EXCEPT ![p] = bundle]} /\ FaultHandled("check")
    BY <1>5
  <2>2. file' \in [Paths -> Bundles] /\ \A q \in Paths : file'[q] \in {file[q], bundle}
    BY <1>3, <2>1
  <2>3. todo' \subseteq Paths
    BY <1>3, <2>1 DEF Do, FaultHandled
  <2>4. TypeOK' /\ Numbers' /\ CloneOK' /\ Journalled'
    BY <1>1, <1>2, <1>3, <2>2, <2>3, Touched
  <2>5. CASE file' = [file EXCEPT ![p] = bundle] /\ Do("write", todo \ {p})
    <3>1. pc' = "write" /\ \A q \in Paths \ todo' : file'[q] = bundle
      BY <1>2, <1>3, <2>5 DEF Do
    <3>2. PreparingOK' /\ StepOK'
      BY <1>1, <1>2, <2>4, <3>1 DEF PreparingOK, Before, Undoing, StepOK
    <3> QED
      BY <2>4, <3>2 DEF Inv
  <2>6. CASE pc' = "check" /\ mode' = "stage"
    <3>1. PreparingOK' /\ StepOK'
      BY <1>1, <1>2, <2>4, <2>6 DEF PreparingOK, Before, Undoing, StepOK
    <3> QED
      BY <2>4, <3>1 DEF Inv
  <2>7. CASE pc' = "idle"
    BY <2>4, <2>7, Ended DEF Inv
  <2> QED
    BY <2>1, <2>5, <2>6, <2>7 DEF FaultHandled
<1> QED
  BY <1>4, <1>5 DEF WriteFile

-----------------------------------------------------------------------------
\* Only a clone that is its HEAD's, and whose HEAD the remote has, loses its
\* journal, or part of it.
LEMMA FinishKeeps == Inv /\ Finish => Inv'
<1> SUFFICES ASSUME Inv, Finish PROVE Inv'
  OBVIOUS
<1>1. UNCHANGED <<file, index, head, origin, bundle, baseline, made>> /\ pc = "finish"
      /\ todo' = todo
  BY DEF Finish, Step, Goto, End, FaultEnding, clone
<1>2. file = Whole(head) /\ index = Whole(head) /\ head \in landed
  BY <1>1 DEF Inv, StepOK
<1>3. \/ journal' \in {journal, NoJournal, Incomplete}
      \/ Journalled /\ \E b \in SUBSET journal.backups :
                          journal' = [journal EXCEPT !.backups = b]
  BY DEF Finish, Interrupted
<1>4. journal' \in Journals \cup {NoJournal, Incomplete} /\ Numbers' /\ CloneOK'
  <2>1. CASE journal' = journal
    BY <1>1, <2>1, SameClone DEF Inv, TypeOK, clone
  <2>2. CASE journal' \in {NoJournal, Incomplete}
    BY <1>1, <1>2, <2>2 DEF Inv, Numbers, CloneOK, Journalled, origin
  <2>3. CASE Journalled /\ \E b \in SUBSET journal.backups :
                             journal' = [journal EXCEPT !.backups = b]
    <3>1. PICK b \in SUBSET journal.backups : journal' = [journal EXCEPT !.backups = b]
      BY <2>3
    <3>2. journal \in Journals
      BY <2>3, JournalledFacts DEF Inv
    <3>3. /\ journal' \in Journals
          /\ journal'.initial = journal.initial /\ journal'.bundle = journal.bundle
          /\ journal'.old = journal.old /\ journal'.receipt = journal.receipt
      BY <3>1, <3>2 DEF Journals
    <3>4. Journalled'
      BY <3>3, JournalFacts DEF Journalled
    <3>5. Numbers'
      BY <1>1, <2>3, <3>3 DEF Inv, Numbers, origin
    <3>6. head = journal.initial => \A p \in Paths : file[p] = head
      BY <1>2, WholeFacts
    <3>7. CloneOK'
      BY <1>1, <2>3, <3>3, <3>4, <3>6 DEF Inv, CloneOK, Left, origin
    <3> QED
      BY <3>3, <3>5, <3>7
  <2> QED
    BY <1>3, <2>1, <2>2, <2>3
<1>5. TypeOK'
  BY <1>1, <1>4 DEF Inv, TypeOK, origin
<1>6. PreparingOK' /\ StepOK'
  <2>1. CASE pc' = "idle"
    BY <2>1, Ended
  <2>2. CASE journal' = NoJournal /\ mode = "recover" /\ Goto("load")
    <3>1. Fresh
      BY <1>1, <2>2 DEF Inv, PreparingOK, Before, Undoing
    <3> QED
      BY <1>1, <2>2, <3>1 DEF Goto, PreparingOK, Fresh, Left, StepOK, origin
  <2> QED
    BY <2>1, <2>2 DEF Finish, End, FaultEnding
<1> QED
  BY <1>4, <1>5, <1>6 DEF Inv

LEMMA MakeDirectoryKeeps == Inv /\ MakeDirectory => Inv'
<1> SUFFICES ASSUME Inv, MakeDirectory PROVE Inv'
  OBVIOUS
<1>1. UNCHANGED <<file, index, head, origin, bundle, baseline, made>>
      /\ pc = "directory" /\ todo' = todo /\ mode' = mode
  BY DEF MakeDirectory, Step, Goto, FaultEnding, clone
<1>2. ~Journalled /\ ~Journalled' /\ journal' \in {NoJournal, Incomplete} /\ Fresh
  BY <1>1 DEF Inv, StepOK, PreparingOK, Before, Journalled, MakeDirectory
<1>3. TypeOK' /\ Numbers' /\ CloneOK' /\ Fresh'
  BY <1>1, <1>2 DEF Inv, TypeOK, Numbers, CloneOK, Fresh, Left, origin
<1>4. PreparingOK' /\ StepOK'
  <2>1. CASE pc' = "idle"
    BY <2>1, Ended
  <2>2. CASE journal' = Incomplete /\ Goto("journal")
    BY <1>3, <2>2 DEF Goto, PreparingOK, StepOK, Undoing
  <2> QED
    BY <2>1, <2>2 DEF MakeDirectory, FaultEnding
<1> QED
  BY <1>3, <1>4 DEF Inv

LEMMA WriteJournalKeeps == Inv /\ WriteJournal => Inv'
<1> SUFFICES ASSUME Inv, WriteJournal PROVE Inv'
  OBVIOUS
<1>1. UNCHANGED <<file, index, head, origin, bundle, baseline, made>> /\ pc = "journal"
  BY DEF WriteJournal, Step, clone
<1>2. /\ journal = Incomplete /\ ~Journalled /\ ~Left(bundle) /\ head # bundle
      /\ file = Whole(head) /\ index = Whole(head) /\ head \in landed
  BY <1>1 DEF Inv, StepOK, PreparingOK, Before, Fresh, CloneOK, Journalled
<1>3. todo' \subseteq Paths
  BY DEF WriteJournal, Do, FaultHandled, Inv, TypeOK
<1>4. CASE journal' = journal /\ FaultHandled("finish")
  <2>1. CASE pc' = "idle"
    BY <1>1, <1>3, <1>4, <2>1, Ended, Looked DEF clone
  <2>2. CASE pc' = "finish" /\ mode' = "stage"
    <3>1. PreparingOK' /\ StepOK'
      BY <1>1, <1>2, <2>2 DEF PreparingOK, Before, Undoing, StepOK, origin
    <3> QED
      BY <1>1, <1>3, <1>4, <3>1, Looked DEF clone
  <2> QED
    BY <1>4, <2>1, <2>2 DEF FaultHandled
<1>5. CASE journal' = NewJournal
  <2>1. /\ head \in Bundles /\ bundle \in Bundles /\ file \in [Paths -> Bundles]
        /\ \A p \in Paths : file[p] = head /\ index[p] = head
    BY <1>2, WholeFacts DEF Inv, TypeOK
  <2>2. /\ journal' \in Journals
        /\ journal'.initial = head /\ journal'.bundle = bundle /\ journal'.old = file
        /\ journal'.receipt = "none"
        /\ journal'.backups = {p \in Paths : file[p] # 0}
    BY <1>5, <2>1 DEF NewJournal, Journals, Receipts
  <2>3. Journalled'
    BY <2>2, JournalFacts DEF Journalled
  <2>4. \A p \in Paths : journal'.initial = 0 \/ p \in journal'.backups
    BY <2>1, <2>2
  <2>5. TypeOK'
    BY <1>1, <1>3, <2>2 DEF Inv, TypeOK, origin
  <2>6. Numbers'
    BY <1>1, <2>2 DEF Inv, Numbers, origin
  <2>7. CloneOK'
    BY <1>1, <1>2, <2>1, <2>2, <2>3 DEF CloneOK, Left, origin
  <2>8. PreparingOK' /\ StepOK'
    <3>1. CASE pc' = "idle"
      BY <3>1, Ended
    <3>2. CASE Do("write", Paths)
      BY <1>1, <1>2, <2>2, <2>3, <2>4, <3>2
      DEF Do, PreparingOK, Before, Undoing, StepOK
    <3>3. CASE pc' = "check" /\ mode' = "stage"
      BY <1>1, <1>2, <2>2, <2>3, <3>3 DEF PreparingOK, Before, Undoing, StepOK
    <3> QED
      <4>1. journal' # journal
        BY <1>2, <2>3 DEF Journalled
      <4> QED
        BY <3>1, <3>2, <3>3, <4>1 DEF WriteJournal, FaultHandled
  <2> QED
    BY <2>5, <2>6, <2>7, <2>8 DEF Inv
<1> QED
  BY <1>4, <1>5 DEF WriteJournal

\* A bundle leaves the index only for a commit of all its files.
LEMMA CommitKeeps == Inv /\ Commit => Inv'
<1> SUFFICES ASSUME Inv, Commit PROVE Inv'
  OBVIOUS
<1>1. UNCHANGED <<file, origin, bundle, baseline, made>> /\ pc = "commit" /\ todo' = todo
  BY DEF Commit, Step, PreCommitFailure, CommitUnknown, Committed, Enter, End, Goto
<1>2. /\ Journalled /\ journal.bundle = bundle /\ head = journal.initial
      /\ file = Whole(bundle)
  BY <1>1 DEF Inv, StepOK
<1>3. /\ file \in [Paths -> Bundles] /\ index \in [Paths -> Bundles]
      /\ bundle \in Bundles /\ todo \subseteq Paths
  BY DEF Inv, TypeOK
<1>4. CASE PreCommitFailure
  <2>1. PICK staged \in SUBSET Paths :
          index' = [p \in Paths |-> IF p \in staged THEN bundle ELSE index[p]]
    BY <1>4 DEF PreCommitFailure
  <2>2. index' \in [Paths -> Bundles] /\ \A p \in Paths : index'[p] \in {index[p], bundle}
    BY <1>3, <2>1
  <2>3. head' = head /\ journal' = journal /\ pc' = "check" /\ mode' = "pre_commit"
    BY <1>4 DEF PreCommitFailure, Enter
  <2>4. TypeOK' /\ Numbers' /\ CloneOK' /\ Journalled'
    BY <1>1, <1>2, <1>3, <2>2, <2>3, Touched
  <2>5. PreparingOK' /\ StepOK'
    BY <1>2, <2>3, <2>4 DEF PreparingOK, Before, Undoing, StepOK
  <2> QED
    BY <2>4, <2>5 DEF Inv
<1>5. CASE head' = head /\ index' \in {index, Whole(bundle)} /\ UNCHANGED journal
           /\ pc' = "idle"
  <2>1. index' \in [Paths -> Bundles] /\ \A p \in Paths : index'[p] \in {index[p], bundle}
    BY <1>3, <1>5, WholeFacts
  <2>2. TypeOK' /\ Numbers' /\ CloneOK'
    BY <1>1, <1>2, <1>3, <1>5, <2>1, Touched
  <2> QED
    BY <1>5, <2>2, Ended DEF Inv
<1>6. CASE UNCHANGED journal /\ head' = bundle /\ index' = Whole(bundle)
  <2>1. \A p \in Paths : file[p] = bundle /\ index'[p] = bundle
    BY <1>2, <1>6, WholeFacts
  <2>2. TypeOK'
    BY <1>1, <1>3, <1>6, WholeFacts DEF Inv, TypeOK, origin
  <2>3. Numbers' /\ Journalled'
    BY <1>1, <1>2, <1>6 DEF Inv, Numbers, Journalled, origin
  <2>4. CloneOK'
    BY <1>1, <1>2, <1>6, <2>1, <2>3 DEF Inv, CloneOK, Left, origin
  <2>5. pc' \in {"idle", "pending"}
    BY <1>2, <1>6 DEF Commit, PreCommitFailure, CommitUnknown, Committed, End, Goto,
       Inv, CloneOK
  <2>6. PreparingOK' /\ StepOK'
    BY <1>1, <1>2, <1>6, <2>3, <2>5 DEF PreparingOK, Before, Undoing, StepOK
  <2> QED
    BY <2>2, <2>3, <2>4, <2>6 DEF Inv
<1>7. CASE CommitUnknown /\ Record("outcome_unknown", FALSE)
  <2>1. journal \in Journals
    BY <1>2, JournalledFacts DEF Inv
  <2>2. journal' = [initial |-> journal.initial, bundle |-> journal.bundle,
                    old |-> journal.old, backups |-> journal.backups,
                    receipt |-> "outcome_unknown", named |-> FALSE]
    BY <1>7, <2>1 DEF Record, Journals
  <2>3. journal' \in Journals
    BY <2>1, <2>2, JournalFacts DEF Journals, Receipts
  <2>4. Journalled'
    BY <2>3, JournalFacts DEF Journalled
  <2>5. head' \in {head, bundle} /\ index' = Whole(bundle) /\ pc' = "idle"
    BY <1>7 DEF CommitUnknown, End
  <2>6. \A p \in Paths : file[p] = bundle /\ index'[p] = bundle
    BY <1>2, <2>5, WholeFacts
  <2>7. TypeOK'
    BY <1>1, <1>3, <2>3, <2>5, WholeFacts DEF Inv, TypeOK, origin
  <2>8. Numbers'
    BY <1>1, <1>2, <2>2, <2>5 DEF Inv, Numbers, origin
  <2>9. CloneOK'
    BY <1>1, <1>2, <2>2, <2>4, <2>5, <2>6 DEF Inv, CloneOK, Left, origin
  <2> QED
    BY <2>5, <2>7, <2>8, <2>9, Ended DEF Inv
<1>8. CASE CommitUnknown /\ UNCHANGED journal /\ head' = head
  BY <1>5, <1>8 DEF CommitUnknown, End
<1> QED
  BY <1>4, <1>5, <1>6, <1>7, <1>8 DEF Commit, CommitUnknown, Committed

-----------------------------------------------------------------------------
\* What lands is on top of what landed; the journal, if there is one, is for a
\* commit that HEAD holds, or nothing of its bundle has landed.
LEMMA Landed ==
  ASSUME Inv, UNCHANGED <<clone, journal, bundle>>, landed \subseteq landed',
         Journalled /\ Left(journal.bundle)' => Left(journal.bundle) \/ head = journal.bundle
  PROVE  CloneOK'
  BY DEF Inv, CloneOK, Journalled, clone

LEMMA PushKeeps == Inv /\ Push => Inv'
<1> SUFFICES ASSUME Inv, Push PROVE Inv'
  OBVIOUS
<1>1. UNCHANGED <<clone, journal, bundle, baseline, made>> /\ pc = "push"
      /\ todo' = todo /\ mode' = mode /\ pc' \in {"observe", "idle"}
  BY DEF Push, Step, Goto, FaultEnding
<1>2. Journalled /\ journal.bundle = bundle /\ head = bundle
  BY <1>1 DEF Inv, StepOK
<1>3. bundle \in Bundles /\ baseline \in Bundles
  BY DEF Inv, TypeOK
<1>4. /\ remote' \in landed' /\ landed' \subseteq landed \cup {bundle}
      /\ landed \subseteq landed'
      /\ delayed' \subseteq delayed \cup {[base |-> baseline, bundle |-> bundle]}
  BY DEF Push, Inv, TypeOK, origin
<1>5. TypeOK'
  BY <1>1, <1>3, <1>4 DEF Inv, TypeOK, clone
<1>6. Numbers'
  BY <1>1, <1>4 DEF Inv, Numbers, Journalled, clone
<1>7. CloneOK'
  BY <1>1, <1>2, <1>4, Landed
<1>8. PreparingOK' /\ StepOK'
  BY <1>1, <1>2 DEF PreparingOK, Before, Undoing, StepOK, Journalled, clone
<1> QED
  BY <1>5, <1>6, <1>7, <1>8 DEF Inv

\* What happens around a run changes none of its premises.
LEMMA Around ==
  ASSUME Inv, UNCHANGED <<clone, journal, pc, mode, bundle, todo>>,
         landed \subseteq landed', Fresh => Fresh'
  PROVE  PreparingOK' /\ StepOK'
  BY DEF Inv, PreparingOK, Before, Undoing, StepOK, Journalled, clone

LEMMA LatePushKeeps == Inv /\ LatePush => Inv'
<1> SUFFICES ASSUME Inv, LatePush PROVE Inv'
  OBVIOUS
<1>1. PICK push \in delayed :
        /\ remote' = push.bundle /\ landed' = landed \cup {push.bundle}
        /\ delayed' = delayed \ {push}
  BY DEF LatePush
<1>2. UNCHANGED <<clone, journal, pc, mode, bundle, baseline, todo, made>>
  BY DEF LatePush, run
<1>3. push.bundle \in Bundles /\ push.bundle <= made
  BY <1>1 DEF Inv, TypeOK, Numbers
<1>4. \A b : Left(b)' => Left(b)
  BY <1>1 DEF Left
<1>5. TypeOK' /\ Numbers'
  BY <1>1, <1>2, <1>3 DEF Inv, TypeOK, Numbers, Journalled, clone
<1>6. CloneOK'
  BY <1>1, <1>2, <1>4, Landed
<1>7. PreparingOK' /\ StepOK'
  BY <1>1, <1>2, <1>4, Around DEF Fresh, clone
<1> QED
  BY <1>5, <1>6, <1>7 DEF Inv

LEMMA PublishedElsewhereKeeps == Inv /\ PublishedElsewhere => Inv'
<1> SUFFICES ASSUME Inv, PublishedElsewhere PROVE Inv'
  OBVIOUS
<1>1. /\ made < MaxBundles /\ made' = made + 1
      /\ remote' = made + 1 /\ landed' = landed \cup {made + 1}
      /\ UNCHANGED <<clone, journal, delayed, pc, mode, bundle, baseline, todo>>
  BY DEF PublishedElsewhere
<1>2. made + 1 \in Bundles
  BY <1>1, BundleFacts DEF Inv, TypeOK, Bundles
<1>3. \A n \in Bundles : n <= made => n <= made + 1 /\ n # made + 1
  BY BundleFacts DEF Inv, TypeOK
<1>4. TypeOK'
  BY <1>1, <1>2 DEF Inv, TypeOK, clone
<1>5. Numbers'
  <2>1. head <= made' /\ bundle <= made' /\ \A b \in landed' : b <= made'
    BY <1>1, <1>2, <1>3, BundleFacts DEF Inv, TypeOK, Numbers
  <2>2. \A d \in delayed : d.bundle \in Bundles
    BY DEF Inv, TypeOK
  <2>3. \A d \in delayed' : d.bundle <= made'
    BY <1>1, <1>3, <2>2 DEF Inv, Numbers
  <2>4. Journalled => journal.bundle <= made'
    BY <1>1, <1>3, JournalledFacts DEF Inv, Numbers
  <2> QED
    BY <1>1, <2>1, <2>3, <2>4 DEF Numbers, Journalled, clone
<1>6. /\ Fresh => Fresh'
      /\ Journalled /\ Left(journal.bundle)' => Left(journal.bundle)
  <2>1. bundle # made + 1 /\ (Journalled => journal.bundle # made + 1)
    BY <1>3, JournalledFacts DEF Inv, TypeOK, Numbers
  <2> QED
    BY <1>1, <2>1 DEF Fresh, Left, clone
<1>7. CloneOK'
  BY <1>1, <1>6, Landed
<1>8. PreparingOK' /\ StepOK'
  BY <1>1, <1>6, Around
<1> QED
  BY <1>4, <1>5, <1>7, <1>8 DEF Inv

LEMMA FreshCloneKeeps == Inv /\ FreshClone => Inv'
<1> SUFFICES ASSUME Inv, FreshClone PROVE Inv'
  OBVIOUS
<1>1. /\ head' = remote /\ file' = Whole(remote) /\ index' = Whole(remote)
      /\ journal' = NoJournal /\ ~Journalled' /\ pc' = "idle"
      /\ UNCHANGED <<origin, mode, bundle, baseline, todo, made>>
  BY DEF FreshClone, run, Journalled
<1>2. remote \in landed /\ remote \in Bundles /\ remote <= made
  BY DEF Inv, TypeOK, Numbers
<1>3. TypeOK' /\ Numbers' /\ CloneOK'
  BY <1>1, <1>2, WholeFacts DEF Inv, TypeOK, Numbers, CloneOK, origin
<1> QED
  BY <1>1, <1>3, Ended DEF Inv

LEMMA StutterKeeps == Inv /\ UNCHANGED vars => Inv'
<1> SUFFICES ASSUME Inv, UNCHANGED vars PROVE Inv'
  OBVIOUS
<1>1. PreparingOK' /\ StepOK'
  BY Around DEF vars, run, origin, Fresh, Left, clone
<1> QED
  BY <1>1, Looked DEF vars, run, Inv, TypeOK

LEMMA NextInv == Inv /\ [Next]_vars => Inv'
<1>1. Inv /\ Run => Inv'
  BY ReconcileKeeps, RecoverKeeps, CheckKeeps, RestoreIndexKeeps, RestoreKeeps,
     FinishKeeps, LoadKeeps, CleanKeeps, MakeDirectoryKeeps, WriteJournalKeeps,
     WriteFileKeeps, VerifyKeeps, CommitKeeps, RecordPendingKeeps, PushKeeps,
     ObserveKeeps DEF Run
<1> QED
  BY <1>1, StartKeeps, LatePushKeeps, PublishedElsewhereKeeps, FreshCloneKeeps,
     StutterKeeps DEF Next

-----------------------------------------------------------------------------
LEMMA Always == Spec => []Inv
  BY InitInv, NextInv, PTL DEF Spec

\* A clone without a journal is its HEAD's, files and index: no run, wherever
\* it stopped, leaves half a bundle that no journal can undo
\* (InsightTransaction.stage and .finish).
THEOREM NothingIsHalfDone == Spec => []CleanWithoutJournal
<1>1. Inv => CleanWithoutJournal
  BY DEF Inv, CloneOK, CleanWithoutJournal
<1> QED
  BY <1>1, Always, PTL

\* While HEAD is the journal's bundle its files are whole: recovery never rolls
\* a committed bundle back (InsightTransaction.recover).
THEOREM CommitsAreKept == Spec => []CommittedSurvives
<1>1. Inv => CommittedSurvives
  BY DEF Inv, CloneOK, CommittedSurvives
<1> QED
  BY <1>1, Always, PTL

\* A HEAD the remote never held has its bundle's journal, whatever the push, the
\* observation and the runs after it did (publish_with_receipt, recover).
THEOREM UndecidedIsNamed == Spec => []UndecidedIsRetained
<1>1. Inv => UndecidedIsRetained
  BY DEF Inv, CloneOK, UndecidedIsRetained
<1> QED
  BY <1>1, Always, PTL

\* Until the transaction is decided, a file holds its old content or has a
\* backup of it, or did not exist (InsightTransaction.stage, .rollback).
THEOREM OldContentIsKept == Spec => []OldContentKept
<1>1. Inv => OldContentKept
  <2> SUFFICES ASSUME Inv, Journalled, SameHead, NEW p \in Paths
               PROVE  journal.old[p] \in {0, file[p]} \/ p \in journal.backups
    BY DEF OldContentKept
  <2>1. journal.old[p] = head /\ head = journal.initial
    BY WholeFacts DEF Inv, CloneOK, SameHead
  <2>2. journal.initial = 0 \/ file[p] = head \/ p \in journal.backups
    BY <2>1 DEF Inv, CloneOK
  <2> QED
    BY <2>1, <2>2
<1> QED
  BY <1>1, Always, PTL
=============================================================================
