-------------------------- MODULE SectorStoreProofs --------------------------
(***************************************************************************)
(* For every set of versions and every number of faults: wherever a process  *)
(* dies, what the next one needs to recover is on the disk; and once a pair   *)
(* has been published, no fault leaves a mixed pair without its marker.       *)
(***************************************************************************)
EXTENDS SectorStore, TLAPS

Contents == Versions \cup {None}

Staging == {"stage_prepared", "stage_backup", "discard"}

Writing == {"write_marker", "write_markdown", "write_snapshot", "verify"}

Completing == {"complete_prepared", "complete_backup", "complete_marker"}

Restoring == {"restore_markdown", "restore_snapshot", "clear_markdown", "clear_snapshot",
              "mark"}

Restaging == {"restage", "restage_state", "remark"}

Steps == {"idle", "recover", "orphans", "serve"} \cup Staging \cup Writing \cup Completing
           \cup Restoring \cup Restaging

\* A transaction names a backup exactly when there is a prior pair.
Backed(t) == t.backup = None <=> t.old = None

OnDisk ==
  /\ markdown \in Contents /\ snapshot \in Contents
  /\ directory \in [Directories -> Contents \cup {Partial}]
  /\ marker \in Transactions \cup {None}
  /\ marker # None => Backed(marker)

TypeOK ==
  /\ OnDisk
  /\ state \in Transactions \cup {None}
  /\ pc \in Steps
  /\ operation \in {"promote", "hold", "read"}
  /\ operation = "promote" => target \in Versions
  /\ mode \in {"recover", "promote", "rollback"}
  /\ existing \in Contents
  /\ faults \in Nat

\* The transaction that the running promotion formed.
Formed ==
  /\ state # None
  /\ state.phase = "promoting" /\ state.expected = target /\ state.old = existing

Shows(v) == markdown = v /\ snapshot = v

\* The backup the state names is a complete copy of the prior pair.
Kept == state.backup # None /\ directory[state.backup] = state.old

Records ==
  /\ state # None => Backed(state)
  /\ pc # "idle" /\ mode \in {"promote", "rollback"} /\ state # None => Formed
  /\ pc # "idle" /\ mode \in {"promote", "rollback"} => operation = "promote"
  /\ (pc # "idle" /\ mode = "recover") \/ pc \in (Staging \ {"discard"}) \cup Writing => cleaning
     = FALSE

Begun ==
  /\ pc \in {"recover", "serve"} => mode = "recover"
  /\ pc \in {"orphans", "serve"} => marker = None
  /\ pc = "orphans" => mode \in {"recover", "rollback"}

Staged ==
  /\ pc \in Staging => mode = "promote" /\ state = None /\ marker = None /\ Shows(existing)
  /\ pc = "stage_backup" => existing # None

Written ==
  /\ pc \in Writing =>
       /\ mode = "promote"
       /\ pc # "write_marker" => state # None /\ marker = state
       /\ existing # None => directory["backup"] = existing
       /\ state # None => state.backup \in {None, "backup"}
  /\ pc = "write_marker" => marker = None /\ Shows(existing)
  /\ pc = "write_markdown" => Shows(existing)
  /\ pc = "write_snapshot" => markdown = target /\ snapshot = existing
  /\ pc = "verify" => Shows(target)

Completed ==
  /\ pc \in Completing =>
       /\ state # None /\ marker # None /\ Valid
       /\ marker.backup = state.backup
       /\ marker.phase = "promoting" => markdown = marker.expected
       /\ mode = "promote" => marker = state /\ cleaning
  /\ pc = "complete_backup" => state.backup # None

Restored ==
  /\ pc \in Restoring =>
       /\ mode \in {"recover", "rollback"}
       /\ state # None /\ marker \in {None, state}
       /\ state.phase = "promoting"
  /\ pc \in {"restore_markdown", "restore_snapshot"} =>
       /\ state.backup # None
       /\ marker = None => Shows(state.old)
  /\ pc = "restore_snapshot" => Kept /\ markdown = state.old
  /\ pc \in {"clear_markdown", "clear_snapshot"} => state.old = None
  /\ pc = "clear_snapshot" => markdown = None
  /\ pc = "mark" => Shows(state.old)

Restaged ==
  /\ pc \in Restaging =>
       /\ mode = "rollback" /\ state # None /\ existing # None
       /\ Shows(target)
       /\ marker # None => marker.phase = "promoting" /\ marker.expected = target
  /\ pc \in {"restage_state", "remark"} => directory["rebackup"] = existing
  /\ pc = "remark" => state.backup = "rebackup"

Inv == TypeOK /\ Records /\ Begun /\ Staged /\ Written /\ Completed /\ Restored /\ Restaged
         /\ Recoverable

-----------------------------------------------------------------------------
LEMMA InitInv == Init => Inv
<1> SUFFICES ASSUME Init PROVE Inv
  OBVIOUS
<1>1. TypeOK
  <2>1. PICK start \in Initially : markdown = start.pair /\ faults = start.faults
    BY DEF Init
  <2>2. markdown \in Contents /\ faults \in Nat
    BY <2>1, StoreAssumption DEF Contents
  <2> QED  BY <2>2, StoreAssumption DEF Init, TypeOK, OnDisk, Contents, Steps
<1>2. Records /\ Begun /\ Staged /\ Written /\ Completed /\ Restored /\ Restaged /\ Recoverable
  BY DEF Init, Records, Begun, Staged, Written, Completed, Restored, Restaged, Recoverable,
     Staging, Writing, Completing, Restoring, Restaging
<1> QED  BY <1>1, <1>2 DEF Inv

\* A process that is gone leaves nothing but the disk.
LEMMA Stopped ==
  ASSUME Inv, pc' = "idle", UNCHANGED <<mode, state, memory>>, faults' \in Nat,
         OnDisk', Recoverable'
  PROVE  Inv'
<1>1. TypeOK' /\ Records'
  BY DEF Inv, TypeOK, Records, memory, Steps, Backed,
     Staging, Writing
<1>2. Begun' /\ Staged' /\ Written' /\ Completed' /\ Restored' /\ Restaged'
  BY DEF Begun, Staged, Written, Completed, Restored, Restaged,
     Staging, Writing, Completing, Restoring, Restaging
<1> QED  BY <1>1, <1>2 DEF Inv

\* A step that fails ends the process or begins the way back.
LEMMA Faulty ==
  ASSUME Inv, Fault, pc # "idle", OnDisk', Recoverable',
         mode = "promote" /\ state = None => marker' = None /\ Shows(existing)',
         mode = "promote" /\ state # None =>
           /\ marker' \in {None, state}
           /\ IF NeedsFreshBackup THEN Shows(target)'
              ELSE marker' = None /\ existing # None => Shows(existing)'
  PROVE  Inv'
<1>1. faults' \in Nat /\ UNCHANGED <<state, memory>>
  BY DEF Fault, Die, Raise, Inv, TypeOK
<1>2. CASE pc' = "idle"
  <2>1. UNCHANGED mode
    BY <1>2 DEF Fault, Die, Raise
  <2> QED  BY <1>1, <1>2, <2>1, Stopped
<1>3. CASE pc' = "discard"
  <2>1. mode = "promote" /\ state = None /\ UNCHANGED mode
    BY <1>3 DEF Fault, Die, Raise
  <2>2. TypeOK' /\ Records'
    BY <1>1, <1>3, <2>1 DEF Inv, TypeOK, Records, memory, Steps, Staging, Writing
  <2>3. Staged'
    BY <1>1, <1>3, <2>1 DEF Staged, Staging, memory
  <2>4. Begun' /\ Written' /\ Completed' /\ Restored' /\ Restaged'
    BY <1>3 DEF Begun, Written, Completed, Restored, Restaged,
       Staging, Writing, Completing, Restoring, Restaging
  <2> QED  BY <2>2, <2>3, <2>4 DEF Inv
<1>4. CASE pc' \notin {"idle", "discard"}
  <2>1. /\ mode = "promote" /\ state # None /\ mode' = "rollback"
        /\ pc' = IF NeedsFreshBackup THEN "restage"
                 ELSE IF state.backup # None THEN "restore_markdown" ELSE "clear_markdown"
    BY <1>4 DEF Fault, Die, Raise
  <2>2. Formed /\ Backed(state) /\ operation = "promote"
    BY <2>1 DEF Inv, Records
  <2>3. TypeOK' /\ Records'
    <3>1. pc' \in Steps
      BY <2>1 DEF Steps, Restoring, Restaging
    <3> QED  BY <1>1, <2>1, <2>2, <3>1 DEF Inv, TypeOK, Records, Formed, Backed, memory, Staging,
       Writing
  <2>4. Begun' /\ Staged' /\ Written' /\ Completed'
    BY <2>1 DEF Begun, Staged, Written, Completed, Staging, Writing, Completing
  <2>5. Restored'
    BY <1>1, <2>1, <2>2 DEF Restored, Restoring, Formed, Backed, Shows, memory
  <2>6. Restaged'
    BY <1>1, <2>1, <2>2 DEF Restaged, Restaging, Formed, NeedsFreshBackup, Shows, memory
  <2> QED  BY <2>3, <2>4, <2>5, <2>6 DEF Inv
<1> QED  BY <1>2, <1>3, <1>4

LEMMA StartInv == ASSUME Inv, Start PROVE Inv'
<1>1. /\ pc' = "recover" /\ mode' = "recover" /\ existing' = None /\ state' = None
      /\ cleaning' = FALSE
      /\ UNCHANGED <<markdown, snapshot, directory, marker, faults>>
      /\ operation' \in {"promote", "hold", "read"}
      /\ operation' = "promote" => target' \in Versions
  BY DEF Start, disk
<1>2. TypeOK' /\ Records'
  BY <1>1 DEF Inv, TypeOK, OnDisk, Backed, Records, Steps, Contents, Staging, Writing
<1>3. Begun' /\ Staged' /\ Written' /\ Completed' /\ Restored' /\ Restaged'
  BY <1>1 DEF Begun, Staged, Written, Completed, Restored, Restaged,
     Staging, Writing, Completing, Restoring, Restaging
<1>4. Recoverable'
  BY <1>1 DEF Inv, Recoverable, Valid, Pair
<1> QED  BY <1>2, <1>3, <1>4 DEF Inv

\* What the disk promises depends on the disk alone.
LEMMA SameDisk ==
  ASSUME Inv, UNCHANGED disk
  PROVE  OnDisk' /\ Recoverable'
  BY DEF Inv, TypeOK, OnDisk, Backed, Recoverable, Valid, Pair, disk

\* A step that fails without an effect.
LEMMA Ineffective ==
  ASSUME Inv, Fault, pc # "idle", UNCHANGED disk,
         mode = "promote" /\ state = None => marker = None /\ Shows(existing),
         mode = "promote" /\ state # None =>
           /\ marker \in {None, state}
           /\ IF NeedsFreshBackup THEN Shows(target)
              ELSE marker = None /\ existing # None => Shows(existing)
  PROVE  Inv'
<1>1. UNCHANGED memory
  BY DEF Fault, Die, Raise
<1> QED  BY <1>1, SameDisk, Faulty DEF Shows, disk, memory

LEMMA RecoverInv == ASSUME Inv, Recover PROVE Inv'
<1>1. pc = "recover" /\ mode = "recover" /\ UNCHANGED disk
  BY DEF Recover, Inv, Begun
<1>2. OnDisk' /\ Recoverable'
  BY <1>1, SameDisk
<1>3. CASE Fault
  BY <1>1, <1>3, Ineffective
<1>4. CASE faults' \in Nat /\ Raise
  <2>1. pc' = "idle" /\ UNCHANGED <<mode, state, memory>>
    BY <1>1, <1>4 DEF Raise
  <2> QED  BY <1>2, <1>4, <2>1, Stopped
<1>5. CASE marker = None /\ Goto("orphans")
  <2>1. TypeOK' /\ Records'
    BY <1>1, <1>2, <1>5 DEF Goto, Inv, TypeOK, Records, Backed, Steps, memory, Staging, Writing
  <2>2. Begun'
    BY <1>1, <1>5 DEF Goto, Begun, disk
  <2>3. Staged' /\ Written' /\ Completed' /\ Restored' /\ Restaged'
    BY <1>5 DEF Goto, Staged, Written, Completed, Restored, Restaged,
       Staging, Writing, Completing, Restoring, Restaging
  <2> QED  BY <1>2, <2>1, <2>2, <2>3 DEF Inv
<1>6. CASE marker # None /\ Valid /\ (marker.phase = "promoting" => markdown = marker.expected)
           /\ Adopt("complete_prepared") /\ faults' \in Nat
  <2>1. TypeOK' /\ Records'
    BY <1>1, <1>2, <1>6
    DEF Adopt, Inv, TypeOK, OnDisk, Records, Backed, Steps, Completing, memory, Staging, Writing
  <2>2. Completed'
    BY <1>1, <1>6 DEF Adopt, Completed, Completing, Valid, disk
  <2>3. Begun' /\ Staged' /\ Written' /\ Restored' /\ Restaged'
    BY <1>6 DEF Adopt, Begun, Staged, Written, Restored, Restaged,
       Staging, Writing, Restoring, Restaging
  <2> QED  BY <1>2, <2>1, <2>2, <2>3 DEF Inv
<1>7. CASE marker # None /\ marker.phase = "promoting"
           /\ Adopt(IF marker.backup # None THEN "restore_markdown" ELSE "clear_markdown")
           /\ faults' \in Nat
  <2>1. TypeOK' /\ Records'
    BY <1>1, <1>2, <1>7
    DEF Adopt, Inv, TypeOK, OnDisk, Records, Backed, Steps, Restoring, memory, Staging, Writing
  <2>2. Restored'
    BY <1>1, <1>7 DEF Adopt, Inv, TypeOK, OnDisk, Backed, Restored, Restoring, disk
  <2>3. Begun' /\ Staged' /\ Written' /\ Completed' /\ Restaged'
    BY <1>7 DEF Adopt, Begun, Staged, Written, Completed, Restaged,
       Staging, Writing, Completing, Restaging
  <2> QED  BY <1>2, <2>1, <2>2, <2>3 DEF Inv
<1>8. marker # None /\ marker.phase = "rolled_back" => Valid
  BY DEF Inv, Recoverable
<1>9. marker # None /\ Pair = marker.expected => Valid /\ markdown = marker.expected
  BY StoreAssumption DEF Inv, TypeOK, OnDisk, Transactions, Pair
<1>10. ASSUME NEW pair \in {Pair, None}, marker # None, ReadPair(pair)
       PROVE  faults' \in Nat /\ (pair = marker.expected => pair = Pair)
  <2>1. marker.expected # None
    BY <1>10, StoreAssumption DEF Inv, TypeOK, OnDisk, Transactions
  <2>2. faults' \in Nat
    BY <1>10 DEF ReadPair, Inv, TypeOK
  <2> QED  BY <2>1, <2>2, <1>10
<1>11. CASE \E pair \in {Pair, None} :
          /\ marker # None /\ ReadPair(pair)
          /\ \/ marker.phase = "rolled_back" /\ Adopt("complete_prepared")
             \/ Raise
             \/ /\ marker.phase = "promoting" /\ pair = marker.expected
                /\ Adopt("complete_prepared")
             \/ /\ marker.phase = "promoting"
                /\ Adopt(IF marker.backup # None THEN "restore_markdown"
                         ELSE "clear_markdown")
  <2>1. PICK pair \in {Pair, None} :
          /\ marker # None /\ ReadPair(pair)
          /\ \/ marker.phase = "rolled_back" /\ Adopt("complete_prepared")
             \/ Raise
             \/ /\ marker.phase = "promoting" /\ pair = marker.expected
                /\ Adopt("complete_prepared")
             \/ /\ marker.phase = "promoting"
                /\ Adopt(IF marker.backup # None THEN "restore_markdown"
                         ELSE "clear_markdown")
    BY <1>11
  <2>2. faults' \in Nat /\ (pair = marker.expected => pair = Pair)
    BY <1>10, <2>1
  <2>3. CASE marker.phase = "rolled_back" /\ Adopt("complete_prepared")
    BY <1>6, <1>8, <2>1, <2>2, <2>3
  <2>4. CASE Raise
    BY <1>4, <2>2, <2>4
  <2>5. CASE pair = marker.expected /\ Adopt("complete_prepared")
    BY <1>6, <1>9, <2>1, <2>2, <2>5
  <2>6. CASE marker.phase = "promoting"
             /\ Adopt(IF marker.backup # None THEN "restore_markdown" ELSE "clear_markdown")
    BY <1>7, <2>1, <2>2, <2>6
  <2> QED  BY <2>1, <2>3, <2>4, <2>5, <2>6
<1>12. (marker = None /\ Goto("orphans")) \/ Fault
       \/ \E pair \in {Pair, None} :
          /\ marker # None /\ ReadPair(pair)
          /\ \/ marker.phase = "rolled_back" /\ Adopt("complete_prepared")
             \/ Raise
             \/ /\ marker.phase = "promoting" /\ pair = marker.expected
                /\ Adopt("complete_prepared")
             \/ /\ marker.phase = "promoting"
                /\ Adopt(IF marker.backup # None THEN "restore_markdown"
                         ELSE "clear_markdown")
  BY DEF Recover
<1> QED  BY <1>3, <1>5, <1>11, <1>12

-----------------------------------------------------------------------------
(* Rollback: the marker is the state's, and the prior pair is kept.          *)

LEMMA Undoing ==
  ASSUME Inv, pc \in Restoring
  PROVE  /\ mode \in {"recover", "rollback"} /\ state \in Transactions /\ state # None
         /\ Backed(state)
         /\ state.phase = "promoting" /\ state.old \in Contents /\ marker \in {None, state}
  BY DEF Inv, Restored, Records, TypeOK, Transactions, Contents

\* The rollback goes on with its next step.
LEMMA NextUndoing ==
  ASSUME Inv, pc \in Restoring, pc' \in Restoring, OnDisk', Recoverable',
         Goto(pc'), Restored'
  PROVE  Inv'
<1>1. TypeOK' /\ Records'
  BY DEF Goto, Inv, TypeOK, Records, Backed, Formed, Steps, Restoring, memory,
     Staging, Writing
<1>2. Begun' /\ Staged' /\ Written' /\ Completed' /\ Restaged'
  BY DEF Begun, Staged, Written, Completed, Restaged, Staging, Writing, Completing,
     Restoring, Restaging
<1> QED  BY <1>1, <1>2 DEF Inv

\* A file of the pair may be lost while the marker names its copy.
LEMMA Covered ==
  ASSUME Inv, pc \in Restoring, Kept \/ state.old = None, UNCHANGED <<directory, marker, state>>
  PROVE  Recoverable'
<1>1. marker \in {None, state} /\ state.phase = "promoting"
  BY Undoing
<1> QED  BY <1>1 DEF Recoverable, Kept

LEMMA RestoreMarkdownInv == ASSUME Inv, RestoreMarkdown PROVE Inv'
<1>1. pc = "restore_markdown" /\ pc \in Restoring /\ state.backup # None
      /\ (marker = None => Shows(state.old))
  BY DEF RestoreMarkdown, Restoring, Inv, Restored
<1>2. /\ mode \in {"recover", "rollback"} /\ state \in Transactions /\ state # None
      /\ state.phase = "promoting" /\ state.old \in Contents /\ marker \in {None, state}
  BY <1>1, Undoing
<1>3. CASE Return("failed", reported) /\ UNCHANGED disk
  <2>1. UNCHANGED <<mode, state, memory, faults>> /\ pc' = "idle"
    BY <1>3 DEF Return
  <2> QED  BY <1>3, <2>1, SameDisk, Stopped DEF Inv, TypeOK
<1>4. CASE RestorePair
  <2>1. /\ Kept /\ markdown' \in {markdown, state.old} /\ UNCHANGED <<snapshot, directory, marker>>
        /\ \/ markdown' = state.old /\ Goto("restore_snapshot")
           \/ Fault
    BY <1>4 DEF RestorePair, BackupUsable, Kept, WriteMarkdown
  <2>2. UNCHANGED state
    BY <2>1 DEF Goto, Fault, Die, Raise
  <2>3. OnDisk' /\ Recoverable'
    <3>1. OnDisk'
      BY <1>2, <2>1 DEF Inv, TypeOK, OnDisk, Backed
    <3> QED  BY <1>1, <2>1, <2>2, <3>1, Covered
  <2>4. CASE Fault
    BY <1>1, <1>2, <2>3, <2>4, Faulty
  <2>5. CASE markdown' = state.old /\ Goto("restore_snapshot")
    <3>1. Restored'
      BY <1>1, <1>2, <2>1, <2>5 DEF Goto, Restored, Restoring, Kept, Shows
    <3> QED  BY <1>1, <2>3, <2>5, <3>1, NextUndoing DEF Goto, Restoring
  <2> QED  BY <2>1, <2>4, <2>5
<1> QED  BY <1>3, <1>4 DEF RestoreMarkdown

LEMMA RestoreSnapshotInv == ASSUME Inv, RestoreSnapshot PROVE Inv'
<1>1. pc = "restore_snapshot" /\ pc \in Restoring /\ Kept /\ markdown = state.old
  BY DEF RestoreSnapshot, WriteSnapshot, Restoring, Inv, Restored
<1>2. /\ mode \in {"recover", "rollback"} /\ state \in Transactions /\ state # None
      /\ state.phase = "promoting" /\ state.old \in Contents /\ marker \in {None, state}
  BY <1>1, Undoing
<1>3. /\ snapshot' \in {snapshot, state.old} /\ UNCHANGED <<markdown, directory, marker>>
      /\ \/ snapshot' = state.old /\ Goto("mark")
         \/ Fault
  BY DEF RestoreSnapshot, WriteSnapshot
<1>4. UNCHANGED state
  BY <1>3 DEF Goto, Fault, Die, Raise
<1>5. OnDisk' /\ Recoverable'
  <2>1. OnDisk'
    BY <1>2, <1>3 DEF Inv, TypeOK, OnDisk, Backed
  <2> QED  BY <1>1, <1>3, <1>4, <2>1, Covered
<1>6. CASE Fault
  BY <1>1, <1>2, <1>5, <1>6, Faulty
<1>7. CASE snapshot' = state.old /\ Goto("mark")
  <2>1. Restored'
    BY <1>1, <1>2, <1>3, <1>7 DEF Goto, Restored, Restoring, Shows
  <2> QED  BY <1>1, <1>5, <1>7, <2>1, NextUndoing DEF Goto, Restoring
<1> QED  BY <1>3, <1>6, <1>7

LEMMA ClearMarkdownInv == ASSUME Inv, ClearMarkdown PROVE Inv'
<1>1. pc = "clear_markdown" /\ pc \in Restoring /\ state.old = None
  BY DEF ClearMarkdown, WriteMarkdown, Restoring, Inv, Restored
<1>2. /\ mode \in {"recover", "rollback"} /\ state \in Transactions /\ state # None
      /\ state.phase = "promoting" /\ marker \in {None, state}
  BY <1>1, Undoing
<1>3. /\ markdown' \in {markdown, None} /\ UNCHANGED <<snapshot, directory, marker>>
      /\ \/ markdown' = None /\ Goto("clear_snapshot")
         \/ Fault
  BY DEF ClearMarkdown, WriteMarkdown
<1>4. UNCHANGED state
  BY <1>3 DEF Goto, Fault, Die, Raise
<1>5. OnDisk' /\ Recoverable'
  <2>1. OnDisk'
    BY <1>3 DEF Inv, TypeOK, OnDisk, Backed, Contents
  <2> QED  BY <1>1, <1>3, <1>4, <2>1, Covered
<1>6. CASE Fault
  BY <1>1, <1>2, <1>5, <1>6, Faulty
<1>7. CASE markdown' = None /\ Goto("clear_snapshot")
  <2>1. Restored'
    BY <1>1, <1>2, <1>3, <1>7 DEF Goto, Restored, Restoring, Shows
  <2> QED  BY <1>1, <1>5, <1>7, <2>1, NextUndoing DEF Goto, Restoring
<1> QED  BY <1>3, <1>6, <1>7

LEMMA ClearSnapshotInv == ASSUME Inv, ClearSnapshot PROVE Inv'
<1>1. pc = "clear_snapshot" /\ pc \in Restoring /\ state.old = None /\ markdown = None
  BY DEF ClearSnapshot, WriteSnapshot, Restoring, Inv, Restored
<1>2. /\ mode \in {"recover", "rollback"} /\ state \in Transactions /\ state # None
      /\ state.phase = "promoting" /\ marker \in {None, state}
  BY <1>1, Undoing
<1>3. /\ snapshot' \in {snapshot, None} /\ UNCHANGED <<markdown, directory, marker>>
      /\ \/ snapshot' = None /\ Goto("mark")
         \/ Fault
  BY DEF ClearSnapshot, WriteSnapshot
<1>4. UNCHANGED state
  BY <1>3 DEF Goto, Fault, Die, Raise
<1>5. OnDisk' /\ Recoverable'
  <2>1. OnDisk'
    BY <1>3 DEF Inv, TypeOK, OnDisk, Backed, Contents
  <2> QED  BY <1>1, <1>3, <1>4, <2>1, Covered
<1>6. CASE Fault
  BY <1>1, <1>2, <1>5, <1>6, Faulty
<1>7. CASE snapshot' = None /\ Goto("mark")
  <2>1. Restored'
    BY <1>1, <1>2, <1>3, <1>7 DEF Goto, Restored, Restoring, Shows
  <2> QED  BY <1>1, <1>5, <1>7, <2>1, NextUndoing DEF Goto, Restoring
<1> QED  BY <1>3, <1>6, <1>7

\* A rollback that is done is on the disk before its copy goes.
LEMMA MarkInv == ASSUME Inv, Mark PROVE Inv'
<1> DEFINE rolledBack == [state EXCEPT !.phase = "rolled_back"]
<1>1. pc = "mark" /\ pc \in Restoring /\ Shows(state.old)
  BY DEF Mark, Restoring, Inv, Restored
<1>2. /\ mode \in {"recover", "rollback"} /\ state \in Transactions /\ Backed(state)
      /\ state.phase = "promoting" /\ marker \in {None, state} /\ state # None
  BY <1>1, Undoing, StoreAssumption
<1>3. /\ rolledBack \in Transactions /\ rolledBack.phase = "rolled_back"
      /\ rolledBack.old = state.old /\ rolledBack.backup = state.backup /\ rolledBack # None
  BY <1>2, StoreAssumption DEF Transactions
<1>4. /\ marker' \in {marker, rolledBack} /\ UNCHANGED <<markdown, snapshot, directory>>
      /\ \/ marker' = rolledBack /\ Goto("complete_prepared")
         \/ Fault
  BY DEF Mark
<1> HIDE DEF rolledBack
<1>5. OnDisk' /\ Recoverable'
  <2>1. CASE marker' = marker
    BY <1>4, <2>1, SameDisk DEF disk
  <2>2. CASE marker' = rolledBack
    <3>1. OnDisk'
      BY <1>2, <1>3, <1>4, <2>2 DEF Inv, TypeOK, OnDisk, Backed
    <3>2. Recoverable'
      BY <1>1, <1>3, <1>4, <2>2 DEF Recoverable, Shows, Valid, Pair
    <3> QED  BY <3>1, <3>2
  <2> QED  BY <1>4, <2>1, <2>2
<1>6. CASE Fault
  BY <1>1, <1>2, <1>5, <1>6, Faulty
<1>7. CASE marker' = rolledBack /\ Goto("complete_prepared")
  <2>1. TypeOK' /\ Records'
    BY <1>1, <1>2, <1>5, <1>7
    DEF Goto, Inv, TypeOK, Records, Backed, Formed, Steps, Completing, memory, Staging, Writing
  <2>2. Completed'
    BY <1>1, <1>2, <1>3, <1>4, <1>7 DEF Goto, Completed, Completing, Valid, Shows
  <2>3. Begun' /\ Staged' /\ Written' /\ Restored' /\ Restaged'
    BY <1>7 DEF Goto, Begun, Staged, Written, Restored, Restaged,
       Staging, Writing, Restoring, Restaging
  <2> QED  BY <1>5, <2>1, <2>2, <2>3 DEF Inv
<1> QED  BY <1>4, <1>6, <1>7

-----------------------------------------------------------------------------
(* Completion: the pair is the one the marker stands for, so that its copies  *)
(* and at last the marker itself may go.                                      *)

LEMMA RemovedTypes ==
  ASSUME directory \in [Directories -> Contents \cup {Partial}], NEW d \in Directories
  PROVE  /\ Removed(d) \in [Directories -> Contents \cup {Partial}]
         /\ Removing(d) \subseteq [Directories -> Contents \cup {Partial}]
  BY DEF Removed, Removing, Contents

LEMMA Visible ==
  ASSUME Inv, pc \in Completing, UNCHANGED <<markdown, snapshot>>, marker' \in {marker, None},
         directory' \in [Directories -> Contents \cup {Partial}]
  PROVE  OnDisk' /\ Recoverable'
<1>1. marker # None /\ Valid /\ (marker.phase = "promoting" => markdown = marker.expected)
  BY DEF Inv, Completed
<1>2. OnDisk'
  BY DEF Inv, TypeOK, OnDisk, Backed
<1>3. Recoverable'
  BY <1>1 DEF Inv, Recoverable, Valid, Pair
<1> QED  BY <1>2, <1>3

\* A promotion that fails here restores the prior pair from a fresh copy.
LEMMA CompletingFails ==
  ASSUME Inv, pc \in Completing, UNCHANGED <<markdown, snapshot>>, marker' \in {marker, None},
         directory' \in [Directories -> Contents \cup {Partial}], Fault
  PROVE  Inv'
<1>1. OnDisk' /\ Recoverable' /\ pc # "idle"
  BY Visible DEF Completing
<1>2. UNCHANGED memory
  BY DEF Fault, Die, Raise
<1>3. ASSUME mode = "promote"
      PROVE  /\ state # None /\ marker = state /\ cleaning
             /\ Shows(target)' /\ (NeedsFreshBackup <=> existing # None)
  <2>1. state # None /\ marker = state /\ cleaning /\ Valid /\ Formed
    BY <1>1, <1>3 DEF Inv, Completed, Records
  <2>2. markdown = state.expected
    BY <1>1, <1>3, <2>1 DEF Inv, Completed, Formed
  <2> QED  BY <1>2, <2>1, <2>2 DEF Formed, Shows, Valid, NeedsFreshBackup, memory
<1> QED  BY <1>1, <1>3, Faulty

LEMMA NextCompleting ==
  ASSUME Inv, pc \in Completing, UNCHANGED <<markdown, snapshot, marker>>,
         directory' \in [Directories -> Contents \cup {Partial}],
         pc' \in {"complete_backup", "complete_marker"}, Goto(pc'),
         pc' = "complete_backup" => state.backup # None
  PROVE  Inv'
<1>1. OnDisk' /\ Recoverable'
  BY Visible
<1>2. TypeOK' /\ Records'
  BY <1>1 DEF Goto, Inv, TypeOK, Records, Backed, Formed, Steps, Completing, memory, Staging,
     Writing
<1>3. Completed'
  BY DEF Goto, Inv, Completed, Completing, Valid, memory
<1>4. Begun' /\ Staged' /\ Written' /\ Restored' /\ Restaged'
  BY DEF Begun, Staged, Written, Restored, Restaged, Staging, Writing, Restoring, Restaging
<1> QED  BY <1>1, <1>2, <1>3, <1>4 DEF Inv

LEMMA CompletePreparedInv == ASSUME Inv, CompletePrepared PROVE Inv'
<1>1. /\ pc = "complete_prepared" /\ pc \in Completing /\ UNCHANGED <<markdown, snapshot, marker>>
      /\ directory \in [Directories -> Contents \cup {Partial}]
  BY DEF CompletePrepared, Completing, Inv, TypeOK, OnDisk
<1>2. "prepared" \in Directories
  BY DEF Directories
<1>3. CASE directory' \in Removing("prepared") /\ Fault
  BY <1>1, <1>2, <1>3, RemovedTypes, CompletingFails
<1>4. CASE /\ directory' = Removed("prepared")
           /\ Goto(IF state.backup = None THEN "complete_marker" ELSE "complete_backup")
  BY <1>1, <1>2, <1>4, RemovedTypes, NextCompleting DEF Goto
<1> QED  BY <1>3, <1>4 DEF CompletePrepared

LEMMA CompleteBackupInv == ASSUME Inv, CompleteBackup PROVE Inv'
<1>1. /\ pc = "complete_backup" /\ pc \in Completing /\ UNCHANGED <<markdown, snapshot, marker>>
      /\ directory \in [Directories -> Contents \cup {Partial}]
  BY DEF CompleteBackup, Completing, Inv, TypeOK, OnDisk
<1>2. state.backup \in Directories
  BY <1>1 DEF Inv, Completed, TypeOK, Transactions
<1>3. CASE directory' \in Removing(state.backup) /\ Fault
  BY <1>1, <1>2, <1>3, RemovedTypes, CompletingFails
<1>4. CASE directory' = Removed(state.backup) /\ Goto("complete_marker")
  BY <1>1, <1>2, <1>4, RemovedTypes, NextCompleting DEF Goto
<1> QED  BY <1>3, <1>4 DEF CompleteBackup

LEMMA CompleteMarkerInv == ASSUME Inv, CompleteMarker PROVE Inv'
<1>1. /\ pc = "complete_marker" /\ pc \in Completing
      /\ UNCHANGED <<markdown, snapshot, directory>> /\ marker' \in {marker, None}
      /\ directory \in [Directories -> Contents \cup {Partial}]
  BY DEF CompleteMarker, RemoveMarker, Completing, Inv, TypeOK, OnDisk
<1>2. OnDisk' /\ Recoverable'
  BY <1>1, Visible
<1>3. CASE Fault
  BY <1>1, <1>3, CompletingFails
<1>4. CASE Return("promoted", target)
  BY <1>2, <1>4, Stopped DEF Return, Inv, TypeOK
<1>5. CASE mode # "promote" /\ marker' = None /\ Goto("orphans")
  <2>1. TypeOK' /\ Records'
    BY <1>1, <1>2, <1>5 DEF Goto, Inv, TypeOK, Records, Backed, Formed, Steps, memory, Staging,
       Writing
  <2>2. Begun'
    BY <1>5 DEF Goto, Begun, Inv, TypeOK
  <2>3. Staged' /\ Written' /\ Completed' /\ Restored' /\ Restaged'
    BY <1>5 DEF Goto, Staged, Written, Completed, Restored, Restaged,
       Staging, Writing, Completing, Restoring, Restaging
  <2> QED  BY <1>2, <2>1, <2>2, <2>3 DEF Inv
<1> QED  BY <1>3, <1>4, <1>5 DEF CompleteMarker, RemoveMarker

\* Directories that no marker names may go in any order.
LEMMA Unmarked ==
  ASSUME Inv, marker = None, UNCHANGED <<markdown, snapshot, marker>>,
         directory' \in [Directories -> Contents \cup {Partial}]
  PROVE  OnDisk' /\ Recoverable'
  BY DEF Inv, TypeOK, OnDisk, Recoverable

LEMMA OrphansInv == ASSUME Inv, Orphans PROVE Inv'
<1>1. /\ pc = "orphans" /\ marker = None /\ mode \in {"recover", "rollback"}
      /\ UNCHANGED <<markdown, snapshot, marker>>
      /\ directory \in [Directories -> Contents \cup {Partial}]
  BY DEF Orphans, Inv, TypeOK, OnDisk, Begun
<1>2. directory' \in [Directories -> Contents \cup {Partial}]
  <2>1. [d \in Directories |-> None] \in [Directories -> Contents \cup {Partial}]
    BY DEF Contents
  <2> QED  BY <1>1, <2>1, RemovedTypes DEF Orphans
<1>3. OnDisk' /\ Recoverable'
  BY <1>1, <1>2, Unmarked
<1>4. CASE Fault
  BY <1>1, <1>3, <1>4, Faulty
<1>5. CASE Return("failed", reported)
  BY <1>3, <1>5, Stopped DEF Return, Inv, TypeOK
<1>6. CASE mode = "recover" /\ Goto("serve")
  <2>1. TypeOK' /\ Records'
    BY <1>1, <1>3, <1>6 DEF Goto, Inv, TypeOK, Records, Backed, Formed, Steps, memory, Staging,
       Writing
  <2>2. Begun'
    BY <1>1, <1>6 DEF Goto, Begun
  <2>3. Staged' /\ Written' /\ Completed' /\ Restored' /\ Restaged'
    BY <1>6 DEF Goto, Staged, Written, Completed, Restored, Restaged,
       Staging, Writing, Completing, Restoring, Restaging
  <2> QED  BY <1>3, <2>1, <2>2, <2>3 DEF Inv
<1> QED  BY <1>4, <1>5, <1>6 DEF Orphans

-----------------------------------------------------------------------------
(* Promotion: both copies are complete before the first file is replaced.     *)

LEMMA ServeInv == ASSUME Inv, Serve PROVE Inv'
<1>1. pc = "serve" /\ mode = "recover" /\ marker = None /\ cleaning = FALSE /\ UNCHANGED disk
  BY DEF Serve, Inv, Begun, Records
<1>2. OnDisk' /\ Recoverable'
  BY <1>1, SameDisk
<1>3. CASE Fault
  BY <1>1, <1>3, Ineffective
<1>4. ASSUME NEW status, NEW told, Return(status, told) PROVE Inv'
  BY <1>2, <1>4, Stopped DEF Return, Inv, TypeOK
<1>5. CASE /\ Valid /\ operation = "promote" /\ pc' = "stage_prepared" /\ mode' = "promote"
           /\ existing' = Pair /\ state' = None
           /\ UNCHANGED <<operation, target, cleaning, result, faults>>
  <2>1. existing' = markdown /\ markdown = snapshot /\ markdown \in Contents
    BY <1>5 DEF Valid, Pair, Inv, TypeOK, OnDisk
  <2>2. TypeOK' /\ Records'
    BY <1>1, <1>2, <1>5, <2>1 DEF Inv, TypeOK, Records, Backed, Formed, Steps, Staging, Writing
  <2>3. Staged'
    BY <1>1, <1>5, <2>1 DEF Staged, Staging, Shows, disk
  <2>4. Begun' /\ Written' /\ Completed' /\ Restored' /\ Restaged'
    BY <1>5 DEF Begun, Written, Completed, Restored, Restaged,
       Staging, Writing, Completing, Restoring, Restaging
  <2> QED  BY <1>2, <2>2, <2>3, <2>4 DEF Inv
<1> QED  BY <1>3, <1>4, <1>5 DEF Serve

\* A directory is staged, or staging it fails.
LEMMA StagingTypes ==
  ASSUME Inv, marker = None, NEW d \in Directories, NEW v \in Contents, NEW step, NEW next,
         StagePair(step, d, v, next)
  PROVE  /\ OnDisk' /\ Recoverable' /\ UNCHANGED <<markdown, snapshot, marker>> /\ pc = step
         /\ (directory' = [directory EXCEPT ![d] = v] /\ Goto(next)) \/ Fault
<1>1. directory' \in [Directories -> Contents \cup {Partial}]
  BY DEF StagePair, Inv, TypeOK, OnDisk, Contents
<1>2. UNCHANGED <<markdown, snapshot, marker>> /\ pc = step
  BY DEF StagePair
<1>3. OnDisk' /\ Recoverable'
  BY <1>1, <1>2, Unmarked
<1> QED  BY <1>2, <1>3 DEF StagePair

LEMMA StagePreparedInv == ASSUME Inv, StagePrepared PROVE Inv'
<1> DEFINE next == IF existing = None THEN "write_marker" ELSE "stage_backup"
<1>1. /\ pc = "stage_prepared" /\ mode = "promote" /\ state = None /\ marker = None
      /\ Shows(existing) /\ target \in Contents /\ "prepared" \in Directories
      /\ operation = "promote" /\ cleaning = FALSE
  BY DEF StagePrepared, StagePair, Inv, Staged, Staging, Records, TypeOK, Contents, Directories
<1>2. /\ OnDisk' /\ Recoverable' /\ UNCHANGED <<markdown, snapshot, marker>>
      /\ (directory' = [directory EXCEPT !["prepared"] = target] /\ Goto(next)) \/ Fault
  BY <1>1, StagingTypes DEF StagePrepared
<1>3. CASE Fault
  <2>1. UNCHANGED memory
    BY <1>3 DEF Fault, Die, Raise
  <2> QED  BY <1>1, <1>2, <1>3, <2>1, Faulty DEF Shows, memory
<1>4. CASE directory' = [directory EXCEPT !["prepared"] = target] /\ Goto(next)
  <2>1. TypeOK' /\ Records'
    BY <1>1, <1>2, <1>4 DEF Goto, Inv, TypeOK, Records, Backed, Formed, Steps, memory,
       Staging, Writing
  <2>2. Staged' /\ Written'
    BY <1>1, <1>2, <1>4 DEF Goto, Staged, Staging, Written, Writing, Shows, memory
  <2>3. Begun' /\ Completed' /\ Restored' /\ Restaged'
    BY <1>4 DEF Goto, Begun, Completed, Restored, Restaged, Completing, Restoring, Restaging
  <2> QED  BY <1>2, <2>1, <2>2, <2>3 DEF Inv
<1> QED  BY <1>2, <1>3, <1>4

LEMMA StageBackupInv == ASSUME Inv, StageBackup PROVE Inv'
<1>1. /\ pc = "stage_backup" /\ mode = "promote" /\ state = None /\ marker = None
      /\ Shows(existing) /\ existing \in Contents /\ "backup" \in Directories
      /\ operation = "promote" /\ cleaning = FALSE
      /\ directory \in [Directories -> Contents \cup {Partial}]
  BY DEF StageBackup, StagePair, Inv, Staged, Staging, Records, TypeOK, OnDisk, Directories
<1>2. /\ OnDisk' /\ Recoverable' /\ UNCHANGED <<markdown, snapshot, marker>>
      /\ (directory' = [directory EXCEPT !["backup"] = existing] /\ Goto("write_marker")) \/ Fault
  BY <1>1, StagingTypes DEF StageBackup
<1>3. CASE Fault
  <2>1. UNCHANGED memory
    BY <1>3 DEF Fault, Die, Raise
  <2> QED  BY <1>1, <1>2, <1>3, <2>1, Faulty DEF Shows, memory
<1>4. CASE directory' = [directory EXCEPT !["backup"] = existing] /\ Goto("write_marker")
  <2>1. TypeOK' /\ Records'
    BY <1>1, <1>2, <1>4 DEF Goto, Inv, TypeOK, Records, Backed, Formed, Steps, memory,
       Staging, Writing
  <2>2. Staged' /\ Written'
    BY <1>1, <1>2, <1>4 DEF Goto, Staged, Staging, Written, Writing, Shows, memory
  <2>3. Begun' /\ Completed' /\ Restored' /\ Restaged'
    BY <1>4 DEF Goto, Begun, Completed, Restored, Restaged, Completing, Restoring, Restaging
  <2> QED  BY <1>2, <2>1, <2>2, <2>3 DEF Inv
<1> QED  BY <1>2, <1>3, <1>4

LEMMA DiscardInv == ASSUME Inv, Discard PROVE Inv'
<1>1. /\ pc = "discard" /\ marker = None /\ UNCHANGED <<markdown, snapshot, marker>>
      /\ directory \in [Directories -> Contents \cup {Partial}]
      /\ {"prepared", "backup"} \subseteq Directories
  BY DEF Discard, Inv, Staged, Staging, TypeOK, OnDisk, Directories
<1>2. directory' \in [Directories -> Contents \cup {Partial}]
  <2>1. [directory EXCEPT !["prepared"] = None, !["backup"] = None]
          \in [Directories -> Contents \cup {Partial}]
    BY <1>1 DEF Contents
  <2>2. Removing("prepared") \cup Removing("backup")
          \subseteq [Directories -> Contents \cup {Partial}]
    BY <1>1, RemovedTypes
  <2> QED  BY <2>1, <2>2 DEF Discard
<1>3. OnDisk' /\ Recoverable'
  BY <1>1, <1>2, Unmarked
<1>4. pc' = "idle" /\ UNCHANGED <<mode, state, memory>> /\ faults' \in Nat
  BY DEF Discard, Return, Die, Inv, TypeOK
<1> QED  BY <1>3, <1>4, Stopped

LEMMA FormStateInv == ASSUME Inv, FormState PROVE Inv'
<1>1. /\ pc = "write_marker" /\ mode = "promote" /\ state' = Transaction
      /\ marker = None /\ Shows(existing) /\ target \in Versions /\ existing \in Contents
      /\ UNCHANGED <<disk, pc, mode, memory, faults>>
  BY DEF FormState, Inv, Written, Writing, Records, TypeOK
<1>2. /\ Transaction \in Transactions /\ Transaction # None /\ Backed(Transaction)
      /\ Transaction.phase = "promoting" /\ Transaction.expected = target
      /\ Transaction.old = existing /\ Transaction.backup \in {None, "backup"}
  <2>1. Transaction \in Transactions
    BY <1>1 DEF Transaction, Transactions, Directories, Contents
  <2>2. "backup" # None
    BY StoreAssumption DEF Directories
  <2> QED  BY <2>1, <2>2, StoreAssumption DEF Transaction, Backed
<1>3. OnDisk' /\ Recoverable'
  BY <1>1, SameDisk
<1>4. TypeOK' /\ Records'
  BY <1>1, <1>2, <1>3 DEF Inv, TypeOK, Records, Formed, memory, Staging, Writing
<1>5. Written'
  BY <1>1, <1>2 DEF Inv, Written, Writing, Shows, disk, memory
<1>6. Begun' /\ Staged' /\ Completed' /\ Restored' /\ Restaged'
  BY <1>1 DEF Begun, Staged, Completed, Restored, Restaged,
     Staging, Completing, Restoring, Restaging
<1> QED  BY <1>3, <1>4, <1>5, <1>6 DEF Inv

\* While a promotion writes, its backup is complete.
LEMMA Writes ==
  ASSUME Inv, pc \in Writing, state # None
  PROVE  /\ mode = "promote" /\ cleaning = FALSE /\ Formed /\ Backed(state)
         /\ state \in Transactions /\ target \in Versions /\ existing \in Contents
         /\ (existing # None => Kept)
  BY DEF Inv, Written, Records, Formed, Backed, Kept, Writing, TypeOK

LEMMA NextWriting ==
  ASSUME Inv, pc \in Writing, state # None, pc' \in Writing, UNCHANGED directory, Goto(pc'),
         OnDisk', Recoverable', Written'
  PROVE  Inv'
<1>1. TypeOK' /\ Records'
  BY Writes DEF Goto, Inv, TypeOK, Records, Backed, Formed, Steps, memory, Staging, Writing
<1>2. Begun' /\ Staged' /\ Completed' /\ Restored' /\ Restaged'
  BY DEF Begun, Staged, Completed, Restored, Restaged, Writing,
     Staging, Completing, Restoring, Restaging
<1> QED  BY <1>1, <1>2 DEF Inv

LEMMA WriteMarkerInv == ASSUME Inv, WriteMarker PROVE Inv'
<1>1. /\ pc = "write_marker" /\ pc \in Writing /\ state # None /\ Shows(existing)
      /\ marker = None /\ UNCHANGED <<markdown, snapshot, directory>> /\ marker' \in {None, state}
      /\ (marker' = state /\ Goto("write_markdown")) \/ Fault
  BY DEF WriteMarker, PutMarker, Inv, Written, Writing
<1>2. /\ mode = "promote" /\ cleaning = FALSE /\ Formed /\ Backed(state)
      /\ state \in Transactions /\ target \in Versions /\ existing \in Contents
      /\ (existing # None => Kept)
  BY <1>1, Writes
<1>3. UNCHANGED <<state, memory>>
  BY <1>1 DEF Goto, Fault, Die, Raise
<1>4. OnDisk' /\ Recoverable'
  <2>1. OnDisk'
    BY <1>1, <1>2 DEF Inv, TypeOK, OnDisk, Backed
  <2>2. Recoverable'
    BY <1>1, <1>2 DEF Recoverable, Formed, Kept
  <2> QED  BY <2>1, <2>2
<1>5. CASE Fault
  BY <1>1, <1>2, <1>3, <1>4, <1>5, Faulty DEF NeedsFreshBackup, Shows, memory
<1>6. CASE marker' = state /\ Goto("write_markdown")
  <2>1. Written'
    BY <1>1, <1>2, <1>6 DEF Goto, Inv, Written, Writing, Shows, memory
  <2> QED  BY <1>1, <1>4, <1>6, <2>1, NextWriting DEF Goto, Writing
<1> QED  BY <1>1, <1>5, <1>6

\* The files of the pair are replaced under the marker.
LEMMA Protected ==
  ASSUME Inv, pc \in Writing, state # None, marker = state,
         UNCHANGED <<directory, marker, state>>
  PROVE  Recoverable'
<1>1. Formed /\ (existing # None => Kept)
  BY Writes
<1> QED  BY <1>1 DEF Recoverable, Formed, Kept

LEMMA PromoteMarkdownInv == ASSUME Inv, PromoteMarkdown PROVE Inv'
<1>1. /\ pc = "write_markdown" /\ pc \in Writing /\ state # None /\ marker = state
      /\ Shows(existing) /\ UNCHANGED <<snapshot, directory, marker>>
      /\ markdown' \in {markdown, target}
      /\ (markdown' = target /\ Goto("write_snapshot")) \/ Fault
  BY DEF PromoteMarkdown, WriteMarkdown, Inv, Written, Writing
<1>2. mode = "promote" /\ cleaning = FALSE /\ target \in Versions
  BY <1>1, Writes
<1>3. UNCHANGED <<state, memory>>
  BY <1>1 DEF Goto, Fault, Die, Raise
<1>4. OnDisk' /\ Recoverable'
  <2>1. OnDisk'
    BY <1>1, <1>2 DEF Inv, TypeOK, OnDisk, Backed, Contents
  <2> QED  BY <1>1, <1>3, <2>1, Protected
<1>5. CASE Fault
  BY <1>1, <1>2, <1>4, <1>5, Faulty DEF NeedsFreshBackup
<1>6. CASE markdown' = target /\ Goto("write_snapshot")
  <2>1. Written'
    BY <1>1, <1>2, <1>6 DEF Goto, Inv, Written, Writing, Shows, memory
  <2> QED  BY <1>1, <1>4, <1>6, <2>1, NextWriting DEF Goto, Writing
<1> QED  BY <1>1, <1>5, <1>6

LEMMA PromoteSnapshotInv == ASSUME Inv, PromoteSnapshot PROVE Inv'
<1>1. /\ pc = "write_snapshot" /\ pc \in Writing /\ state # None /\ marker = state
      /\ markdown = target /\ UNCHANGED <<markdown, directory, marker>>
      /\ snapshot' \in {snapshot, target}
      /\ (snapshot' = target /\ Goto("verify")) \/ Fault
  BY DEF PromoteSnapshot, WriteSnapshot, Inv, Written, Writing
<1>2. mode = "promote" /\ cleaning = FALSE /\ target \in Versions
  BY <1>1, Writes
<1>3. UNCHANGED <<state, memory>>
  BY <1>1 DEF Goto, Fault, Die, Raise
<1>4. OnDisk' /\ Recoverable'
  <2>1. OnDisk'
    BY <1>1, <1>2 DEF Inv, TypeOK, OnDisk, Backed, Contents
  <2> QED  BY <1>1, <1>3, <2>1, Protected
<1>5. CASE Fault
  BY <1>1, <1>2, <1>4, <1>5, Faulty DEF NeedsFreshBackup
<1>6. CASE snapshot' = target /\ Goto("verify")
  <2>1. Written'
    BY <1>1, <1>2, <1>6 DEF Goto, Inv, Written, Writing, Shows, memory
  <2> QED  BY <1>1, <1>4, <1>6, <2>1, NextWriting DEF Goto, Writing
<1> QED  BY <1>1, <1>5, <1>6

LEMMA VerifyInv == ASSUME Inv, Verify PROVE Inv'
<1>1. /\ pc = "verify" /\ pc \in Writing /\ state # None /\ marker = state /\ Shows(target)
      /\ UNCHANGED disk
  BY DEF Verify, Inv, Written, Writing
<1>2. mode = "promote" /\ cleaning = FALSE /\ Formed /\ Backed(state)
  BY <1>1, Writes
<1>3. OnDisk' /\ Recoverable'
  BY <1>1, SameDisk
<1>4. CASE Fault
  BY <1>1, <1>2, <1>4, Ineffective DEF NeedsFreshBackup
<1>5. CASE /\ pc' = "complete_prepared" /\ cleaning' = TRUE
           /\ UNCHANGED <<operation, target, existing, mode, state, result, faults>>
  <2>1. TypeOK' /\ Records'
    BY <1>1, <1>2, <1>3, <1>5 DEF Inv, TypeOK, Records, Backed, Formed, Steps, Completing,
       Staging, Writing
  <2>2. Completed'
    BY <1>1, <1>2, <1>5 DEF Completed, Completing, Formed, Shows, Valid, disk
  <2>3. Begun' /\ Staged' /\ Written' /\ Restored' /\ Restaged'
    BY <1>5 DEF Begun, Staged, Written, Restored, Restaged, Staging, Writing, Restoring, Restaging
  <2> QED  BY <1>3, <2>1, <2>2, <2>3 DEF Inv
<1> QED  BY <1>4, <1>5 DEF Verify

-----------------------------------------------------------------------------
(* A failure after cleanup began: the prior pair is copied again first.       *)

LEMMA Again ==
  ASSUME Inv, pc \in Restaging
  PROVE  /\ mode = "rollback" /\ state \in Transactions /\ state # None /\ Formed /\ Backed(state)
         /\ existing # None /\ existing \in Contents /\ target \in Versions /\ Shows(target)
         /\ (marker # None => marker.phase = "promoting" /\ marker.expected = target)
  BY DEF Inv, Restaged, Restaging, Records, TypeOK

\* The promoted pair is there, whatever becomes of its prior copies.
LEMMA StillPromoted ==
  ASSUME Inv, pc \in Restaging, UNCHANGED <<markdown, snapshot, marker>>,
         directory' \in [Directories -> Contents \cup {Partial}]
  PROVE  OnDisk' /\ Recoverable'
<1>1. Shows(target) /\ (marker # None => marker.phase = "promoting" /\ marker.expected = target)
  BY Again
<1>2. OnDisk'
  BY DEF Inv, TypeOK, OnDisk, Backed
<1>3. Recoverable'
  BY <1>1 DEF Recoverable, Pair, Valid, Shows
<1> QED  BY <1>2, <1>3

LEMMA RestageInv == ASSUME Inv, Restage PROVE Inv'
<1>1. /\ pc = "restage" /\ pc \in Restaging /\ UNCHANGED <<markdown, snapshot, marker>>
      /\ directory \in [Directories -> Contents \cup {Partial}] /\ "rebackup" \in Directories
      /\ directory' \in [Directories -> Contents \cup {Partial}]
  BY DEF Restage, StagePair, Restaging, Inv, TypeOK, OnDisk, Directories, Contents
<1>2. /\ mode = "rollback" /\ state # None /\ Formed /\ Backed(state)
      /\ existing # None /\ Shows(target)
      /\ (marker # None => marker.phase = "promoting" /\ marker.expected = target)
  BY <1>1, Again
<1>3. OnDisk' /\ Recoverable'
  BY <1>1, StillPromoted
<1>4. CASE Fault
  BY <1>1, <1>2, <1>3, <1>4, Faulty
<1>5. CASE directory' = [directory EXCEPT !["rebackup"] = existing] /\ Goto("restage_state")
  <2>1. TypeOK' /\ Records'
    BY <1>1, <1>2, <1>3, <1>5 DEF Goto, Inv, TypeOK, Records, Backed, Formed, Steps, Restaging,
       memory, Staging, Writing
  <2>2. Restaged'
    BY <1>1, <1>2, <1>5 DEF Goto, Restaged, Restaging, Shows, memory
  <2>3. Begun' /\ Staged' /\ Written' /\ Completed' /\ Restored'
    BY <1>5 DEF Goto, Begun, Staged, Written, Completed, Restored, Staging, Writing, Completing,
       Restoring
  <2> QED  BY <1>3, <2>1, <2>2, <2>3 DEF Inv
<1> QED  BY <1>4, <1>5 DEF Restage, StagePair

LEMMA RestageStateInv == ASSUME Inv, RestageState PROVE Inv'
<1> DEFINE renamed == [state EXCEPT !.backup = "rebackup"]
<1>1. /\ pc = "restage_state" /\ pc \in Restaging /\ pc' = "remark" /\ state' = renamed
      /\ UNCHANGED <<disk, mode, memory, faults>> /\ directory["rebackup"] = existing
  BY DEF RestageState, Restaging, Inv, Restaged
<1>2. /\ mode = "rollback" /\ state \in Transactions /\ Formed /\ existing # None
      /\ Shows(target) /\ operation = "promote"
      /\ (marker # None => marker.phase = "promoting" /\ marker.expected = target)
  BY <1>1, Again DEF Inv, Records
<1>3. /\ renamed \in Transactions /\ renamed # None /\ renamed.backup = "rebackup"
      /\ renamed.phase = state.phase /\ renamed.expected = state.expected
      /\ renamed.old = state.old /\ "rebackup" # None
  <2>1. "rebackup" \in Directories
    BY DEF Directories
  <2> QED  BY <1>2, <2>1, StoreAssumption DEF Transactions
<1> HIDE DEF renamed
<1>4. OnDisk' /\ Recoverable'
  BY <1>1, SameDisk
<1>5. TypeOK' /\ Records'
  BY <1>1, <1>2, <1>3, <1>4 DEF Inv, TypeOK, Records, Backed, Formed, Steps, Restaging, memory,
     Staging, Writing
<1>6. Restaged'
  BY <1>1, <1>2, <1>3 DEF Restaged, Restaging, Shows, disk, memory
<1>7. Begun' /\ Staged' /\ Written' /\ Completed' /\ Restored'
  BY <1>1 DEF Begun, Staged, Written, Completed, Restored, Staging, Writing, Completing, Restoring
<1> QED  BY <1>4, <1>5, <1>6, <1>7 DEF Inv

LEMMA RemarkInv == ASSUME Inv, Remark PROVE Inv'
<1>1. /\ pc = "remark" /\ pc \in Restaging /\ UNCHANGED <<markdown, snapshot, directory>>
      /\ directory["rebackup"] = existing /\ state.backup = "rebackup"
      /\ marker' \in {marker, state}
      /\ (marker' = state /\ Goto("restore_markdown")) \/ Fault
  BY DEF Remark, PutMarker, Restaging, Inv, Restaged
<1>2. /\ mode = "rollback" /\ state \in Transactions /\ state # None /\ Formed /\ Backed(state)
      /\ existing # None /\ Shows(target)
  BY <1>1, Again
<1>3. OnDisk' /\ Recoverable'
  <2>1. CASE marker' = marker
    BY <1>1, <2>1, SameDisk DEF disk
  <2>2. CASE marker' = state
    <3>1. OnDisk'
      BY <1>1, <1>2, <2>2 DEF Inv, TypeOK, OnDisk, Backed
    <3>2. Recoverable'
      BY <1>1, <1>2, <2>2 DEF Recoverable, Formed, Backed
    <3> QED  BY <3>1, <3>2
  <2> QED  BY <1>1, <2>1, <2>2
<1>4. CASE Fault
  BY <1>1, <1>2, <1>3, <1>4, Faulty
<1>5. CASE marker' = state /\ Goto("restore_markdown")
  <2>1. TypeOK' /\ Records'
    BY <1>1, <1>2, <1>3, <1>5 DEF Goto, Inv, TypeOK, Records, Backed, Formed, Steps, Restoring,
       Restaging, memory, Staging, Writing
  <2>2. Restored'
    BY <1>1, <1>2, <1>5 DEF Goto, Restored, Restoring, Formed, Backed, memory
  <2>3. Begun' /\ Staged' /\ Written' /\ Completed' /\ Restaged'
    BY <1>5 DEF Goto, Begun, Staged, Written, Completed, Restaged, Staging, Writing, Completing,
       Restaging
  <2> QED  BY <1>3, <2>1, <2>2, <2>3 DEF Inv
<1> QED  BY <1>1, <1>4, <1>5

-----------------------------------------------------------------------------
LEMMA StepInv == Inv /\ [Next]_vars => Inv'
<1> SUFFICES ASSUME Inv, [Next]_vars PROVE Inv'
  OBVIOUS
<1>1. CASE UNCHANGED vars
  <2>1. UNCHANGED <<markdown, snapshot, directory, marker, pc, mode, state, operation, target,
                    existing, cleaning, faults>>
    BY <1>1 DEF vars, disk, memory
  <2>2. OnDisk' /\ Recoverable' /\ TypeOK' /\ Records'
    BY <2>1, SameDisk DEF Inv, TypeOK, Records, Backed, Formed, disk
  <2>3. Begun' /\ Staged' /\ Written' /\ Completed' /\ Restored' /\ Restaged'
    BY <2>1 DEF Inv, Begun, Staged, Written, Completed, Restored, Restaged, Shows, Kept, Valid
  <2> QED  BY <2>2, <2>3 DEF Inv
<1> QED
  BY <1>1, StartInv, RecoverInv, RestoreMarkdownInv, RestoreSnapshotInv, ClearMarkdownInv,
     ClearSnapshotInv, MarkInv, CompletePreparedInv, CompleteBackupInv, CompleteMarkerInv,
     OrphansInv, ServeInv, StagePreparedInv, StageBackupInv, FormStateInv, WriteMarkerInv,
     PromoteMarkdownInv, PromoteSnapshotInv, VerifyInv, DiscardInv, RestageInv, RestageStateInv,
     RemarkInv
  DEF Next, Process

LEMMA Always == Spec => []Inv
BY InitInv, StepInv, PTL DEF Spec

\* Wherever a promotion, a recovery or a rollback dies, and however often, the
\* next process finds the promoted pair, or a complete copy of the prior one in
\* the directory the marker names, or that there was none.
THEOREM Recovery == Spec => []Recoverable
<1>1. Inv => Recoverable
  BY DEF Inv
<1> QED  BY <1>1, Always, PTL

-----------------------------------------------------------------------------
(* Mixed pairs.  A first publication that fails after its marker is gone is   *)
(* undone without one, so that a second fault there strands half a pair; the  *)
(* theorem is about every other behaviour: a store that has a pair, with any  *)
(* number of faults, or a first publication that meets at most one.           *)

\* Once there is a pair, there always was a prior one to go back to.
Seasoned ==
  /\ markdown # None /\ snapshot # None
  /\ marker # None => marker.old # None
  /\ state # None => state.old # None
  /\ pc # "idle" /\ mode \in {"promote", "rollback"} => existing # None

Whole ==
  /\ faults <= 1 \/ Seasoned
  /\ marker = None => Valid \/ (pc = "clear_snapshot" /\ faults = 0)
  /\ pc = "clear_markdown" /\ marker = None => Shows(None) \/ faults = 0

FirstTimeIsCalm == \A start \in Initially : start.pair # None \/ start.faults <= 1

LEMMA InitWhole == ASSUME FirstTimeIsCalm PROVE Init => Whole
  BY DEF FirstTimeIsCalm, Init, Whole, Seasoned, Valid

\* A fault leaves the state as it is and uses itself up.
LEMMA FaultKeeps ==
  ASSUME Inv, Fault, pc # "idle"
  PROVE  /\ UNCHANGED <<state, memory>> /\ faults > 0 /\ faults' = faults - 1
         /\ \/ pc' = "idle" /\ UNCHANGED mode
            \/ pc' = "discard" /\ mode = "promote" /\ UNCHANGED mode
            \/ /\ mode = "promote" /\ state # None /\ mode' = "rollback"
               /\ pc' \in {"restage", "restore_markdown", "clear_markdown"}
               /\ pc' = "clear_markdown" => existing = None
<1>1. UNCHANGED <<state, memory>> /\ faults > 0 /\ faults' = faults - 1
  BY DEF Fault, Die, Raise
<1>2. mode = "promote" /\ state # None => (state.backup = None <=> existing = None)
  BY DEF Inv, Records, Formed, Backed
<1> QED  BY <1>1, <1>2 DEF Fault, Die, Raise

\* Recovery reads what the disk says and changes nothing on it.
LEMMA RecoverKeeps ==
  ASSUME Inv, Recover
  PROVE  /\ pc = "recover" /\ mode = "recover"
         /\ UNCHANGED <<disk, memory, mode, reported>>
         /\ state' = state \/ state' = marker
         /\ faults' = faults \/ (faults > 0 /\ faults' = faults - 1)
<1>1. pc = "recover" /\ mode = "recover" /\ UNCHANGED disk
  BY DEF Recover, Inv, Begun
<1>2. CASE Fault
  BY <1>1, <1>2, FaultKeeps DEF Fault, Die, Raise
<1>3. CASE Goto("orphans")
  BY <1>1, <1>3 DEF Goto, result
<1>4. CASE \E pair \in {Pair, None} :
             ReadPair(pair) /\ (Raise \/ \E step : Adopt(step))
  <2>1. PICK pair \in {Pair, None} :
             ReadPair(pair) /\ (Raise \/ \E step : Adopt(step))
    BY <1>4
  <2>2. faults' = faults \/ (faults > 0 /\ faults' = faults - 1)
    BY <2>1 DEF ReadPair
  <2>3. CASE Raise
    BY <1>1, <2>2, <2>3 DEF Raise
  <2>4. CASE \E step : Adopt(step)
    BY <1>1, <2>2, <2>4 DEF Adopt, result
  <2> QED  BY <2>1, <2>3, <2>4
<1> QED  BY <1>2, <1>3, <1>4 DEF Recover

LEMMA SeasonedStep == ASSUME Inv, Inv', Seasoned, [Next]_vars PROVE Seasoned'
<1>1. CASE Start \/ UNCHANGED vars
  BY <1>1 DEF Start, Seasoned, vars, disk, memory
<1>2. CASE Recover \/ Verify
  <2>1. UNCHANGED disk /\ (state' = state \/ state' = marker)
    BY <1>2, FaultKeeps, RecoverKeeps DEF Verify
  <2>2. pc' # "idle" /\ mode' \in {"promote", "rollback"} =>
          existing' = existing /\ pc # "idle" /\ mode = "promote"
    BY <1>2, FaultKeeps, RecoverKeeps DEF Verify, Inv, Written, Writing, memory
  <2> QED  BY <2>1, <2>2 DEF Seasoned, disk
<1>3. CASE RestoreMarkdown \/ RestoreSnapshot \/ ClearMarkdown \/ ClearSnapshot \/ Mark
  <2>1. /\ pc # "idle" /\ mode \in {"recover", "rollback"} /\ state # None /\ state.old # None
        /\ state \in Transactions
    <3>1. pc \in Restoring
      BY <1>3 DEF RestoreMarkdown, RestoreSnapshot, ClearMarkdown, ClearSnapshot, Mark,
         WriteMarkdown, WriteSnapshot, Restoring
    <3> QED  BY <3>1, Undoing DEF Seasoned, Restoring
  <2>2. UNCHANGED <<state, existing>> /\ (pc' # "idle" => mode' = mode)
    BY <1>3, <2>1, FaultKeeps
    DEF RestoreMarkdown, RestorePair, RestoreSnapshot, ClearMarkdown, ClearSnapshot, Mark,
        WriteMarkdown, WriteSnapshot, Goto, Return, memory
  <2>3. markdown' \in {markdown, state.old} /\ snapshot' \in {snapshot, state.old}
    <3>1. pc \notin {"clear_markdown", "clear_snapshot"}
      BY <2>1 DEF Inv, Restored
    <3> QED
      BY <1>3, <3>1
      DEF RestoreMarkdown, RestorePair, RestoreSnapshot, ClearMarkdown, ClearSnapshot, Mark,
          WriteMarkdown, WriteSnapshot, Return, disk
  <2>4. marker' = marker \/ marker'.old = state.old
    BY <1>3, <2>1
    DEF RestoreMarkdown, RestorePair, RestoreSnapshot, ClearMarkdown, ClearSnapshot, Mark,
        WriteMarkdown, WriteSnapshot, disk, Transactions
  <2> QED  BY <2>1, <2>2, <2>3, <2>4 DEF Seasoned
<1>4. CASE CompletePrepared \/ CompleteBackup \/ CompleteMarker \/ Orphans
  <2>1. UNCHANGED <<markdown, snapshot, state, existing>> /\ marker' \in {marker, None}
    BY <1>4, FaultKeeps DEF CompletePrepared, CompleteBackup, CompleteMarker, RemoveMarker,
       Orphans, Goto, Return, memory
  <2>2. pc # "idle" /\ (pc' # "idle" /\ mode' \in {"promote", "rollback"}
                          => mode \in {"promote", "rollback"})
    BY <1>4, FaultKeeps DEF CompletePrepared, CompleteBackup, CompleteMarker, Orphans, Goto,
       Return
  <2> QED  BY <2>1, <2>2 DEF Seasoned
<1>5. CASE Serve
  <2>1. UNCHANGED disk /\ mode = "recover"
    BY <1>5 DEF Serve, Inv, Begun
  <2>2. \/ pc' = "idle" /\ UNCHANGED <<state, existing>>
        \/ existing' = markdown /\ state' = None
    BY <1>5, <2>1, FaultKeeps DEF Serve, Return, Pair, memory
  <2> QED  BY <2>1, <2>2 DEF Seasoned, disk
<1>6. CASE StagePrepared \/ StageBackup \/ Discard \/ Restage \/ PromoteMarkdown \/ PromoteSnapshot
  <2>1. /\ UNCHANGED <<marker, state, existing>> /\ pc # "idle"
        /\ pc' = "idle" \/ mode \in {"promote", "rollback"}
    BY <1>6, FaultKeeps DEF StagePrepared, StageBackup, Discard, Restage, PromoteMarkdown,
       PromoteSnapshot, StagePair, WriteMarkdown, WriteSnapshot, Goto, Return, Die, memory,
       Inv, Staged, Staging, Written, Writing, Restaged, Restaging
  <2>2. markdown' \in {markdown, target} /\ snapshot' \in {snapshot, target}
    BY <1>6 DEF StagePrepared, StageBackup, Discard, Restage, PromoteMarkdown,
       PromoteSnapshot, StagePair, WriteMarkdown, WriteSnapshot
  <2>3. CASE UNCHANGED <<markdown, snapshot>>
    BY <2>1, <2>3 DEF Seasoned
  <2>4. CASE PromoteMarkdown \/ PromoteSnapshot
    <3>1. target \in Versions
      BY <2>4, Writes DEF PromoteMarkdown, PromoteSnapshot, WriteMarkdown, WriteSnapshot, Writing,
         Inv, Written
    <3> QED  BY <2>1, <2>2, <3>1, StoreAssumption DEF Seasoned
  <2> QED  BY <1>6, <2>3, <2>4 DEF StagePrepared, StageBackup, Discard, Restage, StagePair
<1>7. CASE FormState \/ WriteMarker \/ RestageState \/ Remark
  <2>1. /\ UNCHANGED <<markdown, snapshot, existing>> /\ pc # "idle"
        /\ mode \in {"promote", "rollback"}
    BY <1>7, FaultKeeps DEF FormState, WriteMarker, RestageState, Remark, PutMarker, Goto, disk,
       memory, Inv, Written, Writing, Restaged, Restaging
  <2>2. state' # None => state'.old # None
    <3>1. CASE FormState
      BY <2>1, <3>1 DEF FormState, Transaction, Seasoned
    <3>2. CASE RestageState
      <4>1. state \in Transactions
        BY <3>2, Again DEF RestageState, Restaging
      <4> QED  BY <3>2, <4>1, StoreAssumption DEF RestageState, Seasoned, Transactions
    <3>3. CASE WriteMarker \/ Remark
      BY <3>3, FaultKeeps DEF WriteMarker, Remark, PutMarker, Goto, Seasoned
    <3> QED  BY <1>7, <3>1, <3>2, <3>3
  <2>3. marker' \in {marker, state}
    BY <1>7 DEF FormState, WriteMarker, RestageState, Remark, PutMarker, disk
  <2> QED  BY <2>1, <2>2, <2>3 DEF Seasoned
<1> QED  BY <1>1, <1>2, <1>3, <1>4, <1>5, <1>6, <1>7 DEF Next, Process

LEMMA Spent == ASSUME Inv, [Next]_vars PROVE faults' \in Nat /\ faults' <= faults
<1>1. faults' = faults \/ (faults > 0 /\ faults' = faults - 1)
  BY RecoverKeeps DEF Next, Process, Start, RestoreMarkdown, RestorePair, RestoreSnapshot,
     ClearMarkdown, ClearSnapshot, Mark, CompletePrepared, CompleteBackup, CompleteMarker, Orphans,
     Serve, StagePrepared, StageBackup, FormState, WriteMarker, PromoteMarkdown, PromoteSnapshot,
     Verify, Discard, Restage, RestageState, Remark, WriteMarkdown, WriteSnapshot, StagePair,
     PutMarker, Goto, Return, Fault, vars
<1> QED  BY <1>1 DEF Inv, TypeOK

\* No pair is mixed while nothing marks it.
LEMMA UnmarkedIsValid ==
  ASSUME Inv, Whole, [Next]_vars
  PROVE  (marker = None => Valid \/ (pc = "clear_snapshot" /\ faults = 0))'
<1>1. CASE Start \/ Recover \/ CompletePrepared \/ CompleteBackup \/ Orphans \/ Serve
           \/ StagePrepared \/ StageBackup \/ FormState \/ Verify \/ Discard \/ Restage
           \/ RestageState
  <2>1. UNCHANGED <<markdown, snapshot, marker>> /\ pc # "clear_snapshot"
    BY <1>1 DEF Start, Recover, CompletePrepared, CompleteBackup, Orphans, Serve, StagePrepared,
       StageBackup, FormState, Verify, Discard, Restage, RestageState, StagePair, disk
  <2> QED  BY <2>1 DEF Whole, Valid
<1>2. CASE RestoreMarkdown
  <2>1. /\ UNCHANGED <<snapshot, marker>> /\ markdown' \in {markdown, state.old}
        /\ marker = None => Shows(state.old)
    BY <1>2 DEF RestoreMarkdown, RestorePair, WriteMarkdown, disk, Inv, Restored
  <2> QED  BY <2>1 DEF Shows, Valid
<1>3. CASE RestoreSnapshot
  <2>1. /\ UNCHANGED <<markdown, marker>> /\ snapshot' \in {snapshot, state.old}
        /\ marker = None => Shows(state.old)
    BY <1>3 DEF RestoreSnapshot, WriteSnapshot, Inv, Restored
  <2> QED  BY <2>1 DEF Shows, Valid
<1>4. CASE ClearMarkdown
  <2>1. /\ pc = "clear_markdown" /\ UNCHANGED <<snapshot, marker>> /\ markdown' \in {markdown, None}
        /\ (pc' = "clear_snapshot" /\ UNCHANGED faults) \/ faults > 0
    BY <1>4 DEF ClearMarkdown, WriteMarkdown, Goto, Fault
  <2> QED  BY <2>1 DEF Whole, Shows, Valid, Inv, TypeOK
<1>5. CASE ClearSnapshot
  <2>1. /\ pc = "clear_snapshot" /\ markdown = None /\ UNCHANGED <<markdown, marker>>
        /\ snapshot' = None \/ (faults > 0 /\ snapshot' \in {snapshot, None})
    BY <1>5 DEF ClearSnapshot, WriteSnapshot, Fault, Inv, Restored
  <2> QED  BY <2>1 DEF Whole, Valid, Inv, TypeOK
<1>6. CASE Mark \/ CompleteMarker \/ WriteMarker \/ Remark
  <2>1. Valid /\ UNCHANGED <<markdown, snapshot>>
    BY <1>6 DEF Mark, CompleteMarker, WriteMarker, Remark, PutMarker, Inv, Restored, Restoring,
       Completed, Completing, Written, Writing, Restaged, Restaging, Shows, Valid
  <2> QED  BY <2>1 DEF Valid
<1>7. CASE PromoteMarkdown \/ PromoteSnapshot
  BY <1>7 DEF PromoteMarkdown, PromoteSnapshot, WriteMarkdown, WriteSnapshot, Inv, Written, Writing
<1>8. CASE UNCHANGED vars
  BY <1>8 DEF Whole, Valid, vars, disk
<1> QED  BY <1>1, <1>2, <1>3, <1>4, <1>5, <1>6, <1>7, <1>8 DEF Next, Process

\* A first publication is undone without a marker only by its last fault.
LEMMA UnmarkedIsCleared ==
  ASSUME Inv, Whole, [Next]_vars
  PROVE  (pc = "clear_markdown" /\ marker = None => Shows(None) \/ faults = 0)'
<1> SUFFICES ASSUME pc' = "clear_markdown", marker' = None PROVE Shows(None)' \/ faults' = 0
  OBVIOUS
<1>1. CASE UNCHANGED vars
  BY <1>1 DEF Whole, Shows, vars, disk
<1>2. CASE Fault /\ pc # "idle"
  <2>1. mode = "promote" /\ state # None /\ existing = None /\ faults > 0 /\ faults' = faults - 1
    BY <1>2, FaultKeeps
  <2>2. faults <= 1 /\ faults \in Nat
    BY <1>2, <2>1 DEF Whole, Seasoned, Inv, TypeOK
  <2> QED  BY <2>1, <2>2
<1>3. CASE Recover /\ ~Fault
  <2>1. marker # None /\ UNCHANGED disk
    BY <1>3 DEF Recover, Adopt, Goto, Return
  <2> QED  BY <2>1 DEF disk
<1>4. pc' # "clear_markdown" \/ Fault \/ Recover \/ UNCHANGED vars
  BY DEF Next, Process, Start, RestoreMarkdown, RestorePair, RestoreSnapshot,
     ClearMarkdown, ClearSnapshot, Mark, CompletePrepared, CompleteBackup, CompleteMarker, Orphans,
     Serve, StagePrepared, StageBackup, FormState, WriteMarker, PromoteMarkdown, PromoteSnapshot,
     Verify, Discard, Restage, RestageState, Remark, WriteMarkdown, WriteSnapshot, StagePair,
     PutMarker, Goto, Return, Die
<1>5. pc # "idle" \/ Start \/ UNCHANGED vars
  BY DEF Next, Process, Recover, RestoreMarkdown, RestoreSnapshot, ClearMarkdown, ClearSnapshot,
     Mark, CompletePrepared, CompleteBackup, CompleteMarker, Orphans, Serve, StagePrepared,
     StageBackup, FormState, WriteMarker, PromoteMarkdown, PromoteSnapshot, Verify, Discard,
     Restage, RestageState, Remark, WriteMarkdown, WriteSnapshot, StagePair, PutMarker
<1>6. ~Start
  BY DEF Start
<1> QED  BY <1>1, <1>2, <1>3, <1>4, <1>5, <1>6

LEMMA WholeStep == Inv /\ Inv' /\ Whole /\ [Next]_vars => Whole'
<1> SUFFICES ASSUME Inv, Inv', Whole, [Next]_vars PROVE Whole'
  OBVIOUS
<1>1. (faults <= 1 \/ Seasoned)'
  BY Spent, SeasonedStep DEF Whole, Inv, TypeOK
<1> QED  BY <1>1, UnmarkedIsValid, UnmarkedIsCleared DEF Whole

\* No process leaves half a pair, or files of two versions, without the marker
\* that repairs them: for a store that has a pair whatever fails and dies, and
\* for the first publication if one thing does.
THEOREM Unstranded == ASSUME FirstTimeIsCalm PROVE Spec => []NoStrandedPair
<1>1. Whole => NoStrandedPair
  BY DEF Whole, NoStrandedPair
<1>2. Init => Whole
  BY InitWhole
<1> QED  BY <1>1, <1>2, Always, WholeStep, PTL DEF Spec

-----------------------------------------------------------------------------
(* The store implements one atomically replaced version (AtomicPair).        *)

Working == pc # "idle" /\ mode \in {"promote", "rollback"}

\* What a promotion wrote is told from what was there before.
Traced ==
  /\ marker # None => marker.old # marker.expected
  /\ state # None => state.old # state.expected
  /\ Working => /\ existing # target
                /\ marker # None => marker.expected = target /\ marker.old = existing
  /\ pc \in Restoring /\ mode = "recover" => marker # None

LEMMA InitTraced == Init => Traced
  BY DEF Init, Traced, Working, Restoring

\* A marker is written from the state.
LEMMA MarkerBecomes ==
  ASSUME Inv, [Next]_vars, marker' \notin {marker, None}
  PROVE  /\ state # None /\ pc # "idle"
         /\ marker'.old = state.old /\ marker'.expected = state.expected
<1>1. \/ Mark \/ WriteMarker \/ Remark
  BY DEF Next, Process, Start, Recover, RestoreMarkdown, RestorePair, RestoreSnapshot,
     ClearMarkdown, ClearSnapshot, CompletePrepared, CompleteBackup, CompleteMarker, RemoveMarker,
     Orphans, Serve, StagePrepared, StageBackup, FormState, PromoteMarkdown, PromoteSnapshot,
     Verify, Discard, Restage, RestageState, WriteMarkdown, WriteSnapshot, StagePair, vars, disk
<1>2. state # None /\ state \in Transactions
  BY <1>1, Undoing, Again, Writes
  DEF Mark, WriteMarker, Remark, PutMarker, Restoring, Restaging, Writing
<1> QED  BY <1>1, <1>2 DEF Mark, WriteMarker, Remark, PutMarker, Transactions

\* The state is formed by a promotion, or read from a marker.
LEMMA StateBecomes ==
  ASSUME Inv, [Next]_vars, state' # state
  PROVE  \/ state' \in {None, marker}
         \/ state'.old = existing /\ state'.expected = target /\ Working
<1>1. CASE FormState
  <2>1. Working
    BY <1>1 DEF FormState, Working, Inv, Written, Writing
  <2> QED  BY <1>1, <2>1 DEF FormState, Transaction
<1>2. CASE RestageState
  <2>1. /\ state \in Transactions /\ Formed /\ mode = "rollback"
    BY <1>2, Again DEF RestageState, Restaging
  <2> QED  BY <1>2, <2>1 DEF RestageState, Transactions, Formed, Working
<1>3. state' \in {None, marker} \/ FormState \/ RestageState
  BY FaultKeeps, RecoverKeeps
  DEF Next, Process, Start, RestoreMarkdown, RestorePair, RestoreSnapshot,
     ClearMarkdown, ClearSnapshot, Mark, CompletePrepared, CompleteBackup, CompleteMarker, Orphans,
     Serve, StagePrepared, StageBackup, WriteMarker, PromoteMarkdown, PromoteSnapshot,
     Verify, Discard, Restage, Remark, WriteMarkdown, WriteSnapshot, StagePair,
     PutMarker, Goto, Return, Die, vars
<1> QED  BY <1>1, <1>2, <1>3

\* Work begins when the pair that is there is not the one to publish.
LEMMA WorkBegins ==
  ASSUME Inv, [Next]_vars, Working'
  PROVE  \/ Working /\ UNCHANGED <<existing, target>>
         \/ existing' # target' /\ marker' = None
<1>1. CASE Serve
  <2>1. pc = "serve" /\ mode = "recover" /\ marker' = None
    BY <1>1 DEF Serve, Inv, Begun, disk
  <2> QED  BY <1>1, <2>1, FaultKeeps DEF Serve, Return, Working
<1>2. CASE UNCHANGED vars
  BY <1>2 DEF Working, vars, memory
<1>3. CASE Verify
  BY <1>3, FaultKeeps DEF Verify, Working, memory
<1>4. CASE Start
  BY <1>4 DEF Start, Working
<1>5. CASE ~(Serve \/ Verify \/ Start \/ UNCHANGED vars)
  <2>1. pc # "idle" /\ (pc' = "idle" \/ (UNCHANGED memory /\ (mode' = mode \/ mode = "promote")))
    BY <1>5, FaultKeeps, RecoverKeeps
    DEF Next, Process, RestoreMarkdown, RestorePair, RestoreSnapshot,
     ClearMarkdown, ClearSnapshot, Mark, CompletePrepared, CompleteBackup, CompleteMarker, Orphans,
     StagePrepared, StageBackup, FormState, WriteMarker, PromoteMarkdown, PromoteSnapshot,
     Discard, Restage, RestageState, Remark, WriteMarkdown, WriteSnapshot, StagePair,
     PutMarker, Goto, Return, Die
  <2> QED  BY <2>1 DEF Working, memory
<1> QED  BY <1>1, <1>2, <1>3, <1>4, <1>5

\* Recovery restores under its marker.
LEMMA RecoveryMarked ==
  ASSUME Inv, Traced, [Next]_vars, pc' \in Restoring, mode' = "recover"
  PROVE  marker' # None
<1>1. CASE Recover
  <2>1. marker # None /\ UNCHANGED marker
    BY <1>1, FaultKeeps DEF Recover, Adopt, Goto, Return, Restoring, disk
  <2> QED  BY <2>1
<1>2. CASE pc \in Restoring
  <2>1. mode = "recover"
    BY <1>2, FaultKeeps DEF Next, Process, Start, Recover, RestoreMarkdown, RestorePair,
     RestoreSnapshot, ClearMarkdown, ClearSnapshot, Mark, CompletePrepared, CompleteBackup,
     CompleteMarker, Orphans, Serve, StagePrepared, StageBackup, FormState, WriteMarker,
     PromoteMarkdown, PromoteSnapshot, Verify, Discard, Restage, RestageState, Remark,
     WriteMarkdown, WriteSnapshot, StagePair, PutMarker, Goto, Return, Adopt, Restoring, vars
  <2>2. marker # None
    BY <1>2, <2>1 DEF Traced
  <2>3. marker' = marker \/ Mark
    BY <1>2 DEF Next, Process, Start, Recover, RestoreMarkdown, RestorePair,
     RestoreSnapshot, ClearMarkdown, ClearSnapshot, CompletePrepared, CompleteBackup,
     CompleteMarker, Orphans, Serve, StagePrepared, StageBackup, FormState, WriteMarker,
     PromoteMarkdown, PromoteSnapshot, Verify, Discard, Restage, RestageState, Remark,
     WriteMarkdown, WriteSnapshot, StagePair, PutMarker, Restoring, vars, disk
  <2>4. Mark => pc' \notin Restoring
    BY FaultKeeps, <2>1 DEF Mark, Goto, Restoring
  <2> QED  BY <2>2, <2>3, <2>4
<1>3. CASE pc \notin Restoring /\ ~Recover
  BY <1>3, FaultKeeps DEF Next, Process, Start, RestoreMarkdown, RestorePair,
     RestoreSnapshot, ClearMarkdown, ClearSnapshot, Mark, CompletePrepared, CompleteBackup,
     CompleteMarker, Orphans, Serve, StagePrepared, StageBackup, FormState, WriteMarker,
     PromoteMarkdown, PromoteSnapshot, Verify, Discard, Restage, RestageState, Remark,
     WriteMarkdown, WriteSnapshot, StagePair, PutMarker, Goto, Return, Adopt, Die, Restoring, vars,
     Inv, Restaged, Restaging
<1> QED  BY <1>1, <1>2, <1>3

LEMMA TracedStep == Inv /\ Inv' /\ Traced /\ [Next]_vars => Traced'
<1> SUFFICES ASSUME Inv, Inv', Traced, [Next]_vars PROVE Traced'
  OBVIOUS
<1>1. marker' # None => marker'.old # marker'.expected
  BY MarkerBecomes DEF Traced
<1>2. state' # None => state'.old # state'.expected
  BY StateBecomes DEF Traced
<1>3. ASSUME Working'
      PROVE  /\ existing' # target'
             /\ marker' # None => marker'.expected = target' /\ marker'.old = existing'
  <2>1. CASE existing' # target' /\ marker' = None
    BY <2>1
  <2>2. CASE Working /\ UNCHANGED <<existing, target>>
    <3>1. Working /\ state # None => Formed
      BY DEF Inv, Records, Working
    <3> QED  BY <2>2, <3>1, MarkerBecomes DEF Traced, Formed
  <2> QED  BY <1>3, <2>1, <2>2, WorkBegins
<1>4. pc' \in Restoring /\ mode' = "recover" => marker' # None
  BY RecoveryMarked
<1> QED  BY <1>1, <1>2, <1>3, <1>4 DEF Traced

\* The version an interrupted transaction goes back to.
Back == IF marker # None /\ Published = marker.expected THEN marker.old ELSE Published

LEMMA PreviousIs ==
  /\ Previous = IF Working THEN existing ELSE Back
  /\ Previous' = IF Working' THEN existing' ELSE Back'
  BY DEF Previous, Working, Back

LEMMA AtomicInit == Init => Atomic!Init
<1> SUFFICES ASSUME Init PROVE Atomic!Init
  OBVIOUS
<1>1. markdown \in Versions \cup {None}
  BY StoreAssumption DEF Init
<1>2. Published = markdown /\ Previous = markdown /\ reported = markdown
  BY DEF Init, Published, Previous, Pair, Valid
<1> QED  BY <1>1, <1>2 DEF Atomic!Init

\* A step that shows what was there, or undoes it, when the process goes on or
\* ends.
LEMMA Moves ==
  ASSUME Inv, Traced, [Next]_vars, pc # "idle", UNCHANGED reported,
         \/ pc' = "idle"
         \/ existing' = existing /\ (mode' = mode \/ (mode = "promote" /\ mode' = "rollback")),
         Published' \in {Published, Previous},
         mode = "recover" => UNCHANGED marker \/ (Published' = Published /\ Back' = Published')
  PROVE  [Atomic!Next]_(Atomic!vars)
<1>1. CASE Working
  <2>1. Previous = existing
    BY <1>1, PreviousIs
  <2>2. CASE pc' = "idle"
    <3>1. marker' # None => marker'.old = existing
      <4>1. state # None => Formed
        BY <1>1 DEF Inv, Records, Working
      <4> QED  BY <1>1, <4>1, MarkerBecomes DEF Traced, Formed
    <3>2. Previous' \in {existing, Published'}
      BY <2>2, <3>1, PreviousIs DEF Working, Back
    <3> QED  BY <2>1, <3>2 DEF Atomic!Next, Atomic!Undo, Atomic!Settle, Atomic!vars
  <2>3. CASE pc' # "idle"
    <3>1. Previous' = existing
      BY <1>1, <2>3, PreviousIs DEF Working
    <3> QED  BY <2>1, <3>1 DEF Atomic!Next, Atomic!Undo, Atomic!vars
  <2> QED  BY <2>2, <2>3
<1>2. CASE ~Working
  <2>1. mode = "recover" /\ Previous = Back /\ Previous' = Back'
    <3>1. mode = "recover"
      BY <1>2 DEF Working, Inv, TypeOK
    <3> QED  BY <1>2, <3>1, PreviousIs DEF Working
  <2>2. CASE Published' = Published /\ Back' = Published'
    BY <2>1, <2>2 DEF Atomic!Next, Atomic!Settle
  <2>3. CASE UNCHANGED marker
    <3>1. Back' = Back \/ (Published' = Back /\ Back' = Published')
      BY <2>1, <2>3 DEF Back, Traced
    <3>2. Published' = Published => Back' = Back
      BY <2>3 DEF Back
    <3> QED  BY <2>1, <3>1, <3>2 DEF Atomic!Next, Atomic!Undo, Atomic!vars
  <2> QED  BY <2>1, <2>2, <2>3
<1> QED  BY <1>1, <1>2

\* How a step may leave a process.
LEMMA Leaves ==
  ASSUME Inv, pc # "idle",
         Fault \/ (\E next : Goto(next)) \/ (\E status : Return(status, reported))
  PROVE  /\ UNCHANGED reported
         /\ \/ pc' = "idle"
            \/ existing' = existing /\ (mode' = mode \/ (mode = "promote" /\ mode' = "rollback"))
  BY FaultKeeps DEF Fault, Die, Raise, Goto, Return, memory, result

LEMMA SamePair ==
  ASSUME UNCHANGED <<markdown, snapshot, marker>>
  PROVE  Published' = Published /\ Back' = Back
  BY DEF Published, Back, Pair, Valid

\* Steps that leave the pair and the marker alone.
LEMMA QuietMoves ==
  ASSUME Inv, Traced, [Next]_vars,
         \/ RestoreMarkdown /\ ~RestorePair
         \/ Recover \/ CompletePrepared \/ CompleteBackup \/ StagePrepared \/ StageBackup
         \/ FormState \/ Verify \/ Restage \/ RestageState \/ Orphans \/ Discard
  PROVE  [Atomic!Next]_(Atomic!vars)
<1>1. pc # "idle" /\ UNCHANGED <<markdown, snapshot, marker>>
  BY DEF RestoreMarkdown, Recover, CompletePrepared, CompleteBackup, StagePrepared, StageBackup,
     FormState, Verify, Restage, RestageState, Orphans, Discard, StagePair, disk
<1>2. /\ UNCHANGED reported
      /\ \/ pc' = "idle"
         \/ existing' = existing /\ (mode' = mode \/ (mode = "promote" /\ mode' = "rollback"))
  <2>1. CASE FormState \/ RestageState \/ Verify \/ Discard
    BY <1>1, <2>1, FaultKeeps, Leaves DEF FormState, RestageState, Verify, Discard, Return, Die, memory, result
  <2>2. CASE ~(FormState \/ RestageState \/ Verify \/ Discard)
    BY <1>1, <2>2, Leaves, RecoverKeeps DEF memory, RestoreMarkdown, CompletePrepared, CompleteBackup,
       StagePrepared, StageBackup, Restage, Orphans, StagePair
  <2> QED  BY <2>1, <2>2
<1> QED  BY <1>1, <1>2, SamePair, Moves

LEMMA IdleMoves == ASSUME Inv, Start \/ UNCHANGED vars PROVE [Atomic!Next]_(Atomic!vars)
<1>1. CASE Start
  <2>1. UNCHANGED <<markdown, snapshot, marker, reported>> /\ ~Working /\ ~Working'
    BY <1>1 DEF Start, Working, disk, result
  <2> QED  BY <2>1, SamePair, PreviousIs DEF Atomic!vars
<1>2. CASE UNCHANGED vars
  BY <1>2 DEF vars, disk, memory, result, Atomic!vars, Published, Previous, Pair, Valid
<1> QED  BY <1>1, <1>2

LEMMA ServeMoves == ASSUME Inv, Traced, [Next]_vars, Serve PROVE [Atomic!Next]_(Atomic!vars)
<1>1. /\ pc = "serve" /\ mode = "recover" /\ marker = None /\ UNCHANGED disk
      /\ UNCHANGED <<markdown, snapshot, marker>> /\ Published = Pair /\ ~Working
      /\ Previous = Published
  <2>1. pc = "serve" /\ mode = "recover" /\ marker = None /\ UNCHANGED disk
    BY DEF Serve, Inv, Begun
  <2> QED  BY <2>1, PreviousIs DEF Working, Published, Back, disk
<1>2. Published' = Published /\ Back' = Published
  BY <1>1, SamePair DEF Back
<1>3. CASE Fault \/ Return("failed", reported)
  BY <1>1, <1>2, <1>3, Leaves, Moves
<1>4. ASSUME NEW status, Return(status, Pair)
      PROVE  [Atomic!Next]_(Atomic!vars)
  <2>1. ~Working' /\ reported' = Published
    BY <1>1, <1>4 DEF Return, Working
  <2> QED  BY <1>2, <2>1, PreviousIs DEF Atomic!Next, Atomic!Report
<1>5. CASE pc' = "stage_prepared" /\ mode' = "promote" /\ existing' = Pair /\ UNCHANGED reported
  <2>1. Working' /\ Previous' = Published
    BY <1>1, <1>5, PreviousIs DEF Working
  <2> QED  BY <1>1, <1>2, <1>5, <2>1 DEF Atomic!vars
<1> QED  BY <1>3, <1>4, <1>5 DEF Serve, result

\* While a promotion runs, the prior pair is not the one to publish.
LEMMA WritesOver ==
  ASSUME Inv, Traced, pc \in Writing, state # None
  PROVE  /\ Working /\ mode = "promote" /\ existing # target /\ Previous = existing
         /\ state.expected = target /\ state.old = existing /\ state.phase = "promoting"
         /\ target \in Versions /\ target # None
  BY Writes, PreviousIs, StoreAssumption DEF Working, Traced, Formed, Writing

LEMMA WriteMarkerMoves ==
  ASSUME Inv, Traced, [Next]_vars, WriteMarker PROVE [Atomic!Next]_(Atomic!vars)
<1>1. /\ pc = "write_marker" /\ pc \in Writing /\ state # None /\ Shows(existing)
      /\ marker = None /\ UNCHANGED <<markdown, snapshot>> /\ marker' \in {None, state}
      /\ Fault \/ Goto("write_markdown")
  BY DEF WriteMarker, PutMarker, Inv, Written, Writing
<1>2. /\ mode = "promote" /\ existing # target /\ state.expected = target
      /\ state.old = existing /\ state.phase = "promoting"
  BY <1>1, WritesOver
<1>3. Published = existing /\ Published' = existing
  BY <1>1, <1>2 DEF Published, Pair, Valid, Shows
<1> QED  BY <1>1, <1>2, <1>3, Leaves, Moves

LEMMA PromoteMarkdownMoves ==
  ASSUME Inv, Traced, [Next]_vars, PromoteMarkdown PROVE [Atomic!Next]_(Atomic!vars)
<1>1. /\ pc = "write_markdown" /\ pc \in Writing /\ state # None /\ marker = state
      /\ Shows(existing) /\ UNCHANGED <<snapshot, marker>> /\ markdown' \in {markdown, target}
      /\ Fault \/ Goto("write_snapshot")
  BY DEF PromoteMarkdown, WriteMarkdown, Inv, Written, Writing
<1>2. /\ mode = "promote" /\ existing # target /\ state.expected = target
      /\ state.old = existing /\ state.phase = "promoting" /\ target # None
  BY <1>1, WritesOver
<1>3. Published = existing /\ Published' = existing
  BY <1>1, <1>2 DEF Published, Pair, Valid, Shows
<1> QED  BY <1>1, <1>2, <1>3, Leaves, Moves

\* The second rename is the switch.
LEMMA PromoteSnapshotMoves ==
  ASSUME Inv, Traced, [Next]_vars, PromoteSnapshot PROVE [Atomic!Next]_(Atomic!vars)
<1>1. /\ pc = "write_snapshot" /\ pc \in Writing /\ state # None /\ marker = state
      /\ markdown = target /\ snapshot = existing
      /\ UNCHANGED <<markdown, marker>> /\ snapshot' \in {snapshot, target}
      /\ Fault \/ Goto("verify")
  BY DEF PromoteSnapshot, WriteSnapshot, Inv, Written, Writing
<1>2. /\ mode = "promote" /\ existing # target /\ state.expected = target /\ Working
      /\ state.old = existing /\ state.phase = "promoting" /\ target # None
      /\ target \in Versions /\ Previous = existing
  BY <1>1, WritesOver
<1>3. Published = existing /\ Published' \in {existing, target}
  BY <1>1, <1>2 DEF Published, Pair, Valid
<1>4. CASE Published' = existing
  BY <1>1, <1>2, <1>3, <1>4, Leaves, Moves
<1>5. CASE Published' = target
  <2>1. Previous' = existing
    <3>1. Back' = existing
      BY <1>1, <1>2, <1>5 DEF Back
    <3>2. Working' => existing' = existing
      BY <1>1, Leaves DEF Working
    <3> QED  BY <3>1, <3>2, PreviousIs
  <2>2. UNCHANGED reported
    BY <1>1, Leaves
  <2> QED  BY <1>2, <1>3, <1>5, <2>1, <2>2 DEF Atomic!Next, Atomic!Switch
<1> QED  BY <1>3, <1>4, <1>5

LEMMA CompleteMarkerMoves ==
  ASSUME Inv, Traced, [Next]_vars, CompleteMarker PROVE [Atomic!Next]_(Atomic!vars)
<1>1. /\ pc = "complete_marker" /\ UNCHANGED <<markdown, snapshot>> /\ marker' \in {marker, None}
      /\ marker # None /\ Valid /\ (marker.phase = "promoting" => markdown = marker.expected)
      /\ mode = "promote" => marker = state
  BY DEF CompleteMarker, RemoveMarker, Inv, Completed, Completing
<1>2. Published = markdown /\ Published' = markdown
  <2>1. marker.phase = "promoting" \/ markdown = marker.old
    BY <1>1 DEF Inv, Recoverable, Pair, TypeOK, OnDisk, Transactions
  <2> QED  BY <1>1, <2>1 DEF Published, Pair, Valid
<1>3. UNCHANGED marker \/ Back' = Published'
  BY <1>1 DEF Back
<1>4. CASE Fault \/ (\E next : Goto(next))
  BY <1>1, <1>2, <1>3, <1>4, Leaves, Moves
<1>5. CASE mode = "promote" /\ marker' = None /\ Return("promoted", target)
  <2>1. state.phase = "promoting" /\ state.expected = target
    BY <1>1, <1>5 DEF Inv, Records, Formed
  <2>2. reported' = markdown /\ ~Working' /\ Back' = markdown
    BY <1>1, <1>2, <1>5, <2>1 DEF Return, Working, Back
  <2> QED  BY <1>2, <2>2, PreviousIs DEF Atomic!Next, Atomic!Report
<1> QED  BY <1>4, <1>5 DEF CompleteMarker, RemoveMarker

\* What a rollback goes back to.
LEMMA GoesBack ==
  ASSUME Inv, Traced, pc \in Restoring
  PROVE  /\ state.phase = "promoting" /\ marker \in {None, state} /\ state # None
         /\ state.old # state.expected /\ state.expected # None
         /\ mode \in {"recover", "rollback"} /\ (mode = "recover" => marker = state)
         /\ mode = "rollback" => Previous = state.old
         /\ mode = "recover" => state.old \in {Published, Previous}
         /\ Published \in {Pair, state.old}
<1>1. /\ mode \in {"recover", "rollback"} /\ state \in Transactions /\ state # None
      /\ state.phase = "promoting" /\ marker \in {None, state}
  BY Undoing
<1>2. mode = "recover" => marker = state
  BY <1>1 DEF Traced
<1>3. mode = "rollback" => Previous = state.old
  BY <1>1, PreviousIs DEF Working, Restoring, Inv, Records, Formed
<1>4. mode = "recover" => state.old \in {Published, Previous}
  <2>1. mode = "recover" => Previous = Back
    BY PreviousIs DEF Working
  <2> QED  BY <1>1, <1>2, <2>1 DEF Back, Published
<1>5. Published \in {Pair, state.old}
  BY <1>1 DEF Published
<1> QED  BY <1>1, <1>2, <1>3, <1>4, <1>5, StoreAssumption DEF Traced, Transactions

LEMMA RestorePairMoves ==
  ASSUME Inv, Traced, [Next]_vars, RestorePair PROVE [Atomic!Next]_(Atomic!vars)
<1>1. /\ pc = "restore_markdown" /\ pc \in Restoring /\ UNCHANGED <<snapshot, marker>>
      /\ markdown' \in {markdown, state.old} /\ (marker = None => Shows(state.old))
      /\ Fault \/ Goto("restore_snapshot")
  BY DEF RestorePair, WriteMarkdown, Restoring, Inv, Restored
<1>2. /\ state.phase = "promoting" /\ marker \in {None, state} /\ state # None
      /\ state.old # state.expected /\ state.expected # None
      /\ mode \in {"recover", "rollback"}
      /\ mode = "rollback" => Previous = state.old
      /\ mode = "recover" => state.old \in {Published, Previous}
  BY <1>1, GoesBack
<1>3. Published' \in {Published, state.old}
  BY <1>1, <1>2 DEF Published, Pair, Valid, Shows
<1> QED  BY <1>1, <1>2, <1>3, Leaves, Moves

LEMMA RestoreSnapshotMoves ==
  ASSUME Inv, Traced, [Next]_vars, RestoreSnapshot PROVE [Atomic!Next]_(Atomic!vars)
<1>1. /\ pc = "restore_snapshot" /\ pc \in Restoring /\ UNCHANGED <<markdown, marker>>
      /\ snapshot' \in {snapshot, state.old} /\ (marker = None => Shows(state.old))
      /\ markdown = state.old
      /\ Fault \/ Goto("mark")
  BY DEF RestoreSnapshot, WriteSnapshot, Restoring, Inv, Restored
<1>2. /\ state.phase = "promoting" /\ marker \in {None, state} /\ state # None
      /\ state.old # state.expected /\ state.expected # None
  BY <1>1, GoesBack
<1>3. Published' = Published
  BY <1>1, <1>2 DEF Published, Pair, Valid, Shows
<1> QED  BY <1>1, <1>3, Leaves, Moves

LEMMA ClearMarkdownMoves ==
  ASSUME Inv, Traced, [Next]_vars, ClearMarkdown PROVE [Atomic!Next]_(Atomic!vars)
<1>1. /\ pc = "clear_markdown" /\ pc \in Restoring /\ UNCHANGED <<snapshot, marker>>
      /\ markdown' \in {markdown, None} /\ state.old = None
      /\ Fault \/ Goto("clear_snapshot")
  BY DEF ClearMarkdown, WriteMarkdown, Restoring, Inv, Restored
<1>2. /\ state.phase = "promoting" /\ marker \in {None, state} /\ state # None
      /\ state.old # state.expected /\ state.expected # None
      /\ mode \in {"recover", "rollback"}
      /\ mode = "rollback" => Previous = state.old
      /\ mode = "recover" => state.old \in {Published, Previous}
  BY <1>1, GoesBack
<1>3. Published' \in {Published, state.old}
  BY <1>1, <1>2 DEF Published, Pair, Valid
<1> QED  BY <1>1, <1>2, <1>3, Leaves, Moves

LEMMA ClearSnapshotMoves ==
  ASSUME Inv, Traced, [Next]_vars, ClearSnapshot PROVE [Atomic!Next]_(Atomic!vars)
<1>1. /\ pc = "clear_snapshot" /\ pc \in Restoring /\ UNCHANGED <<markdown, marker>>
      /\ snapshot' \in {snapshot, None} /\ state.old = None /\ markdown = None
      /\ Fault \/ Goto("mark")
  BY DEF ClearSnapshot, WriteSnapshot, Restoring, Inv, Restored
<1>2. /\ state.phase = "promoting" /\ marker \in {None, state} /\ state # None
      /\ state.old # state.expected /\ state.expected # None
  BY <1>1, GoesBack
<1>3. Published' = Published
  BY <1>1, <1>2 DEF Published, Pair, Valid
<1> QED  BY <1>1, <1>3, Leaves, Moves

LEMMA MarkMoves == ASSUME Inv, Traced, [Next]_vars, Mark PROVE [Atomic!Next]_(Atomic!vars)
<1>1. /\ pc = "mark" /\ pc \in Restoring /\ UNCHANGED <<markdown, snapshot>> /\ Shows(state.old)
      /\ marker' \in {marker, [state EXCEPT !.phase = "rolled_back"]}
      /\ Fault \/ Goto("complete_prepared")
  BY DEF Mark, Restoring, Inv, Restored
<1>2. /\ state.phase = "promoting" /\ marker \in {None, state} /\ state # None
      /\ state.old # state.expected /\ state.expected # None /\ state \in Transactions
  BY <1>1, GoesBack, Undoing
<1>3. Published = state.old
  BY <1>1, <1>2 DEF Published, Pair, Valid, Shows
<1>4. CASE marker' = marker
  BY <1>1, <1>4, SamePair, Leaves, Moves
<1>5. CASE marker' # marker
  <2>1. /\ marker'.phase = "rolled_back" /\ marker'.old = state.old
        /\ marker'.expected = state.expected
    BY <1>1, <1>2, <1>5 DEF Transactions
  <2>2. Published' = state.old
    BY <1>1, <1>2, <1>5, <2>1 DEF Published, Pair, Valid, Shows
  <2>3. Back' = Published'
    BY <1>2, <2>1, <2>2 DEF Back
  <2> QED  BY <1>1, <1>3, <2>2, <2>3, Leaves, Moves
<1> QED  BY <1>4, <1>5

LEMMA RemarkMoves == ASSUME Inv, Traced, [Next]_vars, Remark PROVE [Atomic!Next]_(Atomic!vars)
<1>1. /\ pc = "remark" /\ pc \in Restaging /\ UNCHANGED <<markdown, snapshot>>
      /\ marker' \in {marker, state}
      /\ Fault \/ Goto("restore_markdown")
  BY DEF Remark, PutMarker, Restaging
<1>2. /\ mode = "rollback" /\ state # None /\ Formed /\ Shows(target)
      /\ (marker # None => marker.phase = "promoting" /\ marker.expected = target)
  BY <1>1, Again
<1>3. Published = target /\ Published' = target
  BY <1>1, <1>2 DEF Published, Pair, Valid, Shows, Formed
<1> QED  BY <1>1, <1>2, <1>3, Leaves, Moves

LEMMA AtomicStep == Inv /\ Traced /\ [Next]_vars => [Atomic!Next]_(Atomic!vars)
BY IdleMoves, QuietMoves, ServeMoves, WriteMarkerMoves, PromoteMarkdownMoves,
   PromoteSnapshotMoves, CompleteMarkerMoves, RestorePairMoves, RestoreSnapshotMoves,
   ClearMarkdownMoves, ClearSnapshotMoves, MarkMoves, RemarkMoves
DEF Next, Process

\* The two files are one atomically replaced version, for every number of
\* failed steps and deaths, the first publication included: a reader is told of
\* whole versions, a promotion is visible in one step, and it is undone only to
\* the version before it and only until somebody was told of it.
THEOREM Atomicity == Spec => IsAtomic
BY AtomicInit, InitTraced, TracedStep, Always, AtomicStep, PTL DEF Spec, IsAtomic, Atomic!Spec
=============================================================================
