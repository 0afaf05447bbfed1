-------------------------- MODULE CodexRuntimeProofs --------------------------
(***************************************************************************)
(* That the stored credential is the last one, for any number of calls and    *)
(* rotations.  Once close() has had the lock, no call can launch the CLI and  *)
(* none is alive: the file is at rest (AtRest) when it is read, and whatever  *)
(* reaches the secret from then on is its content.                            *)
(***************************************************************************)
EXTENDS CodexRuntime, TLAPS

Launching == {"cleared", "running", "stopping"}

Holding == {"admitted"} \cup Launching

LockHeld == \A c \in Calls : call[c] \in Holding => lock = c

\* A living CLI belongs to its call, or survived stop_process: then nothing is
\* launched any more.
Survivors ==
  /\ alive # {} => active
  /\ active => poisoned \/ pc = "killed" \/ \E c \in Calls : call[c] \in {"running", "stopping"}
  /\ \A d \in alive :
       \/ call[d] \in {"running", "stopping"}
       \/ /\ poisoned \/ pc = "killed"
          /\ \A c \in Calls : call[c] \notin Launching
  /\ pc = "killed" => \A c \in Calls : call[c] = "done"

AtRest ==
  /\ closed /\ alive = {}
  /\ \A c \in Calls : call[c] \notin Launching

ClosedRefuses == closed => \A c \in Calls : call[c] \notin Launching

Stored ==
  /\ secret = persisted \/ (AtRest /\ secret = auth)
  /\ pc \in {"read", "put", "publish"} => AtRest
  /\ pc = "put" => doc = auth
  /\ pc = "publish" \/ published => AtRest /\ secret = auth
  /\ pc = "exit" /\ ~raised /\ rc # 1 => AtRest /\ secret = auth
  /\ pc = "ended" /\ rc # 1 => AtRest /\ secret = auth

Inv == TypeOK /\ LockHeld /\ Survivors /\ ClosedRefuses /\ Stored /\ OneProcess

USE DEF runner, result, Supervisor, CallSteps, Steps, Parts, Credentials, Launching, Holding

-----------------------------------------------------------------------------
LEMMA InitInv == Init => Inv
<1> SUFFICES ASSUME Init PROVE Inv
  OBVIOUS
<1> USE RuntimeAssumption DEF Init
<1>1. TypeOK
  <2> USE DEF TypeOK
  <2>1. (auth \in Credentials \cup {Corrupt})
    OBVIOUS
  <2>2. (secret \in Credentials /\ persisted \in Credentials /\ doc \in Credentials)
    OBVIOUS
  <2>3. (call \in [Calls -> CallSteps])
    OBVIOUS
  <2>4. (lock \in Calls \cup {None} /\ alive \subseteq Calls)
    OBVIOUS
  <2>5. (active \in BOOLEAN /\ stop \in BOOLEAN /\ closed \in BOOLEAN /\ poisoned \in BOOLEAN)
    OBVIOUS
  <2>6. (pc \in Steps /\ part \in Parts)
    OBVIOUS
  <2>7. (failed \in BOOLEAN /\ raised \in BOOLEAN /\ published \in BOOLEAN)
    OBVIOUS
  <2>8. (rc \in 0..2)
    OBVIOUS
  <2> QED
    BY <2>1, <2>2, <2>3, <2>4, <2>5, <2>6, <2>7, <2>8
<1>2. LockHeld /\ ClosedRefuses
  BY DEF LockHeld, ClosedRefuses
<1>3. Survivors /\ OneProcess
  BY DEF Survivors, OneProcess
<1>4. Stored
  BY DEF Stored
<1> QED
  BY <1>1, <1>2, <1>3, <1>4 DEF Inv

LEMMA ArriveInv == ASSUME Inv, NEW c \in Calls, Arrive(c) PROVE Inv'
<1> USE RuntimeAssumption DEF Inv, Arrive, Move
<1>1. TypeOK'
  BY DEF TypeOK
<1>2. LockHeld'
  BY DEF LockHeld, TypeOK
<1>3. ClosedRefuses'
  BY DEF ClosedRefuses, LockHeld, TypeOK
<1>4. Survivors'
  BY DEF Survivors, LockHeld, TypeOK
<1>5. OneProcess'
  BY DEF OneProcess, Survivors, LockHeld, TypeOK
<1>6. Stored'
  BY DEF Stored, AtRest, ClosedRefuses, LockHeld, TypeOK
<1> QED
  BY <1>1, <1>2, <1>3, <1>4, <1>5, <1>6

LEMMA WaitInv == ASSUME Inv, NEW c \in Calls, Wait(c) PROVE Inv'
<1> USE RuntimeAssumption DEF Inv, Wait, Move
<1>1. TypeOK'
  BY DEF TypeOK
<1>2. LockHeld'
  BY DEF LockHeld, TypeOK
<1>3. ClosedRefuses'
  BY DEF ClosedRefuses, LockHeld, TypeOK
<1>4. Survivors'
  BY DEF Survivors, LockHeld, TypeOK
<1>5. OneProcess'
  BY DEF OneProcess, Survivors, LockHeld, TypeOK
<1>6. Stored'
  BY DEF Stored, AtRest, ClosedRefuses, LockHeld, TypeOK
<1> QED
  BY <1>1, <1>2, <1>3, <1>4, <1>5, <1>6

LEMMA AcquireInv == ASSUME Inv, NEW c \in Calls, Acquire(c) PROVE Inv'
<1> USE RuntimeAssumption DEF Inv, Acquire, Move
<1>1. TypeOK'
  BY DEF TypeOK
<1>2. LockHeld'
  BY DEF LockHeld, TypeOK
<1>3. ClosedRefuses'
  BY DEF ClosedRefuses, LockHeld, TypeOK
<1>4. Survivors'
  BY DEF Survivors, LockHeld, TypeOK
<1>5. OneProcess'
  BY DEF OneProcess, Survivors, LockHeld, TypeOK
<1>6. Stored'
  BY DEF Stored, AtRest, ClosedRefuses, LockHeld, TypeOK
<1> QED
  BY <1>1, <1>2, <1>3, <1>4, <1>5, <1>6

LEMMA CheckInv == ASSUME Inv, NEW c \in Calls, Check(c) PROVE Inv'
<1> USE RuntimeAssumption DEF Inv, Check, Move, Refused, Released
<1>1. TypeOK'
  BY DEF TypeOK
<1>2. LockHeld'
  BY DEF LockHeld, TypeOK
<1>3. ClosedRefuses'
  BY DEF ClosedRefuses, LockHeld, TypeOK
<1>4. Survivors'
  BY DEF Survivors, LockHeld, TypeOK
<1>5. OneProcess'
  BY DEF OneProcess, Survivors, LockHeld, TypeOK
<1>6. Stored'
  BY DEF Stored, AtRest, ClosedRefuses, LockHeld, TypeOK
<1> QED
  BY <1>1, <1>2, <1>3, <1>4, <1>5, <1>6

LEMMA LaunchInv == ASSUME Inv, NEW c \in Calls, Launch(c) PROVE Inv'
<1> USE RuntimeAssumption DEF Inv, Launch, Move, Readable, Released
<1>1. TypeOK'
  <2> USE DEF TypeOK
  <2>1. (auth \in Credentials \cup {Corrupt})'
    OBVIOUS
  <2>2. (secret \in Credentials /\ persisted \in Credentials /\ doc \in Credentials)'
    OBVIOUS
  <2>3. (call \in [Calls -> CallSteps])'
    OBVIOUS
  <2>4. (lock \in Calls \cup {None} /\ alive \subseteq Calls)'
    OBVIOUS
  <2>5. (active \in BOOLEAN /\ stop \in BOOLEAN /\ closed \in BOOLEAN /\ poisoned \in BOOLEAN)'
    OBVIOUS
  <2>6. (pc \in Steps /\ part \in Parts)'
    OBVIOUS
  <2>7. (failed \in BOOLEAN /\ raised \in BOOLEAN /\ published \in BOOLEAN)'
    OBVIOUS
  <2>8. (rc \in 0..2)'
    OBVIOUS
  <2> QED
    BY <2>1, <2>2, <2>3, <2>4, <2>5, <2>6, <2>7, <2>8
<1>2. LockHeld'
  BY DEF LockHeld, TypeOK
<1>3. ClosedRefuses'
  BY DEF ClosedRefuses, LockHeld, TypeOK
<1>4. Survivors'
  BY DEF Survivors, LockHeld, TypeOK
<1>5. OneProcess'
  BY DEF OneProcess, Survivors, LockHeld, TypeOK
<1>6. Stored'
  BY DEF Stored, AtRest, ClosedRefuses, LockHeld, TypeOK
<1> QED
  BY <1>1, <1>2, <1>3, <1>4, <1>5, <1>6

LEMMA CaptureInv == ASSUME Inv, NEW c \in Calls, Capture(c) PROVE Inv'
<1> USE RuntimeAssumption DEF Inv, Capture, Move
<1>1. TypeOK'
  BY DEF TypeOK
<1>2. LockHeld'
  BY DEF LockHeld, TypeOK
<1>3. ClosedRefuses'
  BY DEF ClosedRefuses, LockHeld, TypeOK
<1>4. Survivors'
  BY DEF Survivors, LockHeld, TypeOK
<1>5. OneProcess'
  BY DEF OneProcess, Survivors, LockHeld, TypeOK
<1>6. Stored'
  BY DEF Stored, AtRest, ClosedRefuses, LockHeld, TypeOK
<1> QED
  BY <1>1, <1>2, <1>3, <1>4, <1>5, <1>6

LEMMA StopProcessInv == ASSUME Inv, NEW c \in Calls, StopProcess(c) PROVE Inv'
<1> USE RuntimeAssumption DEF Inv, StopProcess, Move, Released
<1>1. TypeOK'
  <2> USE DEF TypeOK
  <2>1. (auth \in Credentials \cup {Corrupt})'
    OBVIOUS
  <2>2. (secret \in Credentials /\ persisted \in Credentials /\ doc \in Credentials)'
    OBVIOUS
  <2>3. (call \in [Calls -> CallSteps])'
    OBVIOUS
  <2>4. (lock \in Calls \cup {None} /\ alive \subseteq Calls)'
    OBVIOUS
  <2>5. (active \in BOOLEAN /\ stop \in BOOLEAN /\ closed \in BOOLEAN /\ poisoned \in BOOLEAN)'
    OBVIOUS
  <2>6. (pc \in Steps /\ part \in Parts)'
    OBVIOUS
  <2>7. (failed \in BOOLEAN /\ raised \in BOOLEAN /\ published \in BOOLEAN)'
    OBVIOUS
  <2>8. (rc \in 0..2)'
    OBVIOUS
  <2> QED
    BY <2>1, <2>2, <2>3, <2>4, <2>5, <2>6, <2>7, <2>8
<1>2. LockHeld'
  BY DEF LockHeld, TypeOK
<1>3. ClosedRefuses'
  BY DEF ClosedRefuses, LockHeld, TypeOK
<1>4. Survivors'
  BY DEF Survivors, LockHeld, TypeOK
<1>5. OneProcess'
  BY DEF OneProcess, Survivors, LockHeld, TypeOK
<1>6. Stored'
  BY DEF Stored, AtRest, ClosedRefuses, LockHeld, TypeOK
<1> QED
  BY <1>1, <1>2, <1>3, <1>4, <1>5, <1>6

LEMMA RotateInv == ASSUME Inv, NEW c \in Calls, Rotate(c) PROVE Inv'
<1> USE DEF Inv, Rotate
<1>1. TypeOK'
  BY RuntimeAssumption DEF TypeOK
<1>2. (LockHeld /\ ClosedRefuses /\ Survivors /\ OneProcess)'
  BY DEF LockHeld, ClosedRefuses, Survivors, OneProcess
<1>3. ~AtRest
  BY DEF AtRest
<1>4. Stored'
  BY <1>3 DEF Stored, AtRest
<1> QED
  BY <1>1, <1>2, <1>4

LEMMA VerifyInv == ASSUME Inv, Verify PROVE Inv'
<1> USE RuntimeAssumption DEF Inv, Verify, Goto, Leave, Finally, Return
<1>1. TypeOK'
  BY DEF TypeOK
<1>2. (LockHeld /\ ClosedRefuses)'
  BY DEF LockHeld, ClosedRefuses, TypeOK
<1>3. (Survivors /\ OneProcess)'
  BY DEF Survivors, OneProcess, TypeOK
<1>4. Stored'
  BY DEF Stored, AtRest, Survivors, ClosedRefuses, LockHeld, TypeOK
<1> QED
  BY <1>1, <1>2, <1>3, <1>4

LEMMA ExecuteInv == ASSUME Inv, Execute PROVE Inv'
<1> USE RuntimeAssumption DEF Inv, Execute, Goto, Leave, Finally, Return
<1>1. TypeOK'
  BY DEF TypeOK
<1>2. (LockHeld /\ ClosedRefuses)'
  BY DEF LockHeld, ClosedRefuses, TypeOK
<1>3. (Survivors /\ OneProcess)'
  BY DEF Survivors, OneProcess, TypeOK
<1>4. Stored'
  BY DEF Stored, AtRest, Survivors, ClosedRefuses, LockHeld, TypeOK
<1> QED
  BY <1>1, <1>2, <1>3, <1>4

LEMMA CloseInv == ASSUME Inv, Close PROVE Inv'
<1> USE RuntimeAssumption DEF Inv, Close, Goto, Leave, Finally, Return
<1>1. TypeOK'
  BY DEF TypeOK
<1>2. (LockHeld /\ ClosedRefuses)'
  BY DEF LockHeld, ClosedRefuses, TypeOK
<1>3. (Survivors /\ OneProcess)'
  BY DEF Survivors, OneProcess, TypeOK
<1>4. Stored'
  BY DEF Stored, AtRest, Survivors, ClosedRefuses, LockHeld, TypeOK
<1> QED
  BY <1>1, <1>2, <1>3, <1>4

LEMMA QuiesceInv == ASSUME Inv, Quiesce PROVE Inv'
<1> USE RuntimeAssumption DEF Inv, Quiesce, Goto, Leave, Finally, Return, Quiescent, NotPreserved, Blamed
<1>1. TypeOK'
  <2> USE DEF TypeOK
  <2>1. (auth \in Credentials \cup {Corrupt})'
    OBVIOUS
  <2>2. (secret \in Credentials /\ persisted \in Credentials /\ doc \in Credentials)'
    OBVIOUS
  <2>3. (call \in [Calls -> CallSteps])'
    OBVIOUS
  <2>4. (lock \in Calls \cup {None} /\ alive \subseteq Calls)'
    OBVIOUS
  <2>5. (active \in BOOLEAN /\ stop \in BOOLEAN /\ closed \in BOOLEAN /\ poisoned \in BOOLEAN)'
    OBVIOUS
  <2>6. (pc \in Steps /\ part \in Parts)'
    OBVIOUS
  <2>7. (failed \in BOOLEAN /\ raised \in BOOLEAN /\ published \in BOOLEAN)'
    OBVIOUS
  <2>8. (rc \in 0..2)'
    OBVIOUS
  <2> QED
    BY <2>1, <2>2, <2>3, <2>4, <2>5, <2>6, <2>7, <2>8
<1>2. (LockHeld /\ ClosedRefuses)'
  BY DEF LockHeld, ClosedRefuses, TypeOK
<1>3. (Survivors /\ OneProcess)'
  BY DEF Survivors, OneProcess, TypeOK
<1>4. Stored'
  BY DEF Stored, AtRest, Survivors, ClosedRefuses, LockHeld, TypeOK
<1> QED
  BY <1>1, <1>2, <1>3, <1>4

LEMMA ReadInv == ASSUME Inv, Read PROVE Inv'
<1> USE RuntimeAssumption DEF Inv, Read, Goto, Leave, Finally, Return, Readable, NotPreserved, Blamed, Preserved
<1>1. TypeOK'
  <2> USE DEF TypeOK
  <2>1. (auth \in Credentials \cup {Corrupt})'
    OBVIOUS
  <2>2. (secret \in Credentials /\ persisted \in Credentials /\ doc \in Credentials)'
    OBVIOUS
  <2>3. (call \in [Calls -> CallSteps])'
    OBVIOUS
  <2>4. (lock \in Calls \cup {None} /\ alive \subseteq Calls)'
    OBVIOUS
  <2>5. (active \in BOOLEAN /\ stop \in BOOLEAN /\ closed \in BOOLEAN /\ poisoned \in BOOLEAN)'
    OBVIOUS
  <2>6. (pc \in Steps /\ part \in Parts)'
    OBVIOUS
  <2>7. (failed \in BOOLEAN /\ raised \in BOOLEAN /\ published \in BOOLEAN)'
    OBVIOUS
  <2>8. (rc \in 0..2)'
    OBVIOUS
  <2> QED
    BY <2>1, <2>2, <2>3, <2>4, <2>5, <2>6, <2>7, <2>8
<1>2. (LockHeld /\ ClosedRefuses)'
  BY DEF LockHeld, ClosedRefuses, TypeOK
<1>3. (Survivors /\ OneProcess)'
  BY DEF Survivors, OneProcess, TypeOK
<1>4. Stored'
  BY DEF Stored, AtRest, Survivors, ClosedRefuses, LockHeld, TypeOK
<1> QED
  BY <1>1, <1>2, <1>3, <1>4

LEMMA PutInv == ASSUME Inv, Put PROVE Inv'
<1> USE RuntimeAssumption DEF Inv, Put, Goto, Leave, Finally, Return, NotPreserved, Blamed, Preserved, InterruptedPut
<1>1. TypeOK'
  <2> USE DEF TypeOK
  <2>1. (auth \in Credentials \cup {Corrupt})'
    OBVIOUS
  <2>2. (secret \in Credentials /\ persisted \in Credentials /\ doc \in Credentials)'
    OBVIOUS
  <2>3. (call \in [Calls -> CallSteps])'
    OBVIOUS
  <2>4. (lock \in Calls \cup {None} /\ alive \subseteq Calls)'
    OBVIOUS
  <2>5. (active \in BOOLEAN /\ stop \in BOOLEAN /\ closed \in BOOLEAN /\ poisoned \in BOOLEAN)'
    OBVIOUS
  <2>6. (pc \in Steps /\ part \in Parts)'
    OBVIOUS
  <2>7. (failed \in BOOLEAN /\ raised \in BOOLEAN /\ published \in BOOLEAN)'
    OBVIOUS
  <2>8. (rc \in 0..2)'
    OBVIOUS
  <2> QED
    BY <2>1, <2>2, <2>3, <2>4, <2>5, <2>6, <2>7, <2>8
<1>2. (LockHeld /\ ClosedRefuses)'
  BY DEF LockHeld, ClosedRefuses, TypeOK
<1>3. (Survivors /\ OneProcess)'
  BY DEF Survivors, OneProcess, TypeOK
<1>4. Stored'
  BY DEF Stored, AtRest, Survivors, ClosedRefuses, LockHeld, TypeOK
<1> QED
  BY <1>1, <1>2, <1>3, <1>4

LEMMA PublishInv == ASSUME Inv, Publish PROVE Inv'
<1> USE RuntimeAssumption DEF Inv, Publish, Goto, Leave, Finally, Return
<1>1. TypeOK'
  BY DEF TypeOK
<1>2. (LockHeld /\ ClosedRefuses)'
  BY DEF LockHeld, ClosedRefuses, TypeOK
<1>3. (Survivors /\ OneProcess)'
  BY DEF Survivors, OneProcess, TypeOK
<1>4. Stored'
  BY DEF Stored, AtRest, Survivors, ClosedRefuses, LockHeld, TypeOK
<1> QED
  BY <1>1, <1>2, <1>3, <1>4

LEMMA ExitInv == ASSUME Inv, Exit PROVE Inv'
<1> USE RuntimeAssumption DEF Inv, Exit, Goto, Leave, Finally, Return
<1>1. TypeOK'
  <2> USE DEF TypeOK
  <2>1. (auth \in Credentials \cup {Corrupt})'
    OBVIOUS
  <2>2. (secret \in Credentials /\ persisted \in Credentials /\ doc \in Credentials)'
    OBVIOUS
  <2>3. (call \in [Calls -> CallSteps])'
    OBVIOUS
  <2>4. (lock \in Calls \cup {None} /\ alive \subseteq Calls)'
    OBVIOUS
  <2>5. (active \in BOOLEAN /\ stop \in BOOLEAN /\ closed \in BOOLEAN /\ poisoned \in BOOLEAN)'
    OBVIOUS
  <2>6. (pc \in Steps /\ part \in Parts)'
    OBVIOUS
  <2>7. (failed \in BOOLEAN /\ raised \in BOOLEAN /\ published \in BOOLEAN)'
    OBVIOUS
  <2>8. (rc \in 0..2)'
    OBVIOUS
  <2> QED
    BY <2>1, <2>2, <2>3, <2>4, <2>5, <2>6, <2>7, <2>8
<1>2. (LockHeld /\ ClosedRefuses)'
  BY DEF LockHeld, ClosedRefuses, TypeOK
<1>3. (Survivors /\ OneProcess)'
  BY DEF Survivors, OneProcess, TypeOK
<1>4. Stored'
  BY DEF Stored, AtRest, Survivors, ClosedRefuses, LockHeld, TypeOK
<1> QED
  BY <1>1, <1>2, <1>3, <1>4

LEMMA KillInv == ASSUME Inv, Kill PROVE Inv'
<1> USE RuntimeAssumption DEF Inv, Kill
<1>1. TypeOK'
  BY DEF TypeOK
<1>2. (LockHeld /\ ClosedRefuses /\ Survivors /\ OneProcess)'
  BY DEF LockHeld, ClosedRefuses, Survivors, OneProcess, TypeOK
<1>3. Stored'
  BY DEF Stored, AtRest, TypeOK
<1> QED
  BY <1>1, <1>2, <1>3

LEMMA StepInv == Inv /\ [Next]_vars => Inv'
<1> SUFFICES ASSUME Inv, [Next]_vars PROVE Inv'
  OBVIOUS
<1>1. CASE \E c \in Calls : Arrive(c) \/ Thread(c) \/ Rotate(c)
  BY <1>1, ArriveInv, WaitInv, AcquireInv, CheckInv, LaunchInv, CaptureInv,
     StopProcessInv, RotateInv DEF Thread
<1>2. CASE Run
  BY <1>2, VerifyInv, ExecuteInv, CloseInv, QuiesceInv, ReadInv, PutInv, PublishInv,
     ExitInv DEF Run
<1>3. CASE Kill
  BY <1>3, KillInv
<1>4. CASE UNCHANGED vars
  BY <1>4 DEF vars, Inv, TypeOK, LockHeld, ClosedRefuses, Survivors, OneProcess,
     Stored, AtRest
<1> QED
  BY <1>1, <1>2, <1>3, <1>4 DEF Next

-----------------------------------------------------------------------------
\* What holds throughout a run, for any number of calls and rotations.
THEOREM Invariance == Spec => []Inv
<1>1. Inv /\ [Next]_vars => Inv'
  BY StepInv
<1> QED
  BY <1>1, InitInv, PTL DEF Spec

\* No document is published before the secret is the credential the CLI wrote
\* last (AuthLifecycle.checkpoint).
THEOREM CredentialSafety == Spec => []PublishedIsStored
<1>1. Inv => PublishedIsStored
  BY DEF Inv, Stored, PublishedIsStored
<1> QED
  BY <1>1, Invariance, PTL

\* A run that ends without having stored that credential ends with exit code 1
\* (the finally clause of run).
THEOREM NoQuietLoss == Spec => []LossIsReported
<1>1. Inv => LossIsReported
  BY DEF Inv, Stored, LossIsReported
<1> QED
  BY <1>1, Invariance, PTL

\* Never two processes on one credential (CodexRunner._lock, _cleanup_failed).
THEOREM Serialized == Spec => []OneProcess
<1>1. Inv => OneProcess
  BY DEF Inv
<1> QED
  BY <1>1, Invariance, PTL
=============================================================================
