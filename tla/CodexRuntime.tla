----------------------------- MODULE CodexRuntime -----------------------------
(***************************************************************************)
(* A run under the private supervisor (orchestrator/codex_runtime.py): the    *)
(* CLI that generates text rotates its own credential, a file restored from   *)
(* the environment's secret, and only the last one it wrote is of use to the  *)
(* next run.  Before publication, and at the end whatever happened, the       *)
(* supervisor stops the CLI, reads the file and writes the secret.            *)
(*                                                                            *)
(* Calls are threads (briefing/codex_cli.py) that a cancelled coroutine       *)
(* leaves running.  Signals and the work's time limit interrupt the           *)
(* coroutine where it awaits; the process may be killed anywhere.  Runs do    *)
(* not overlap: production-briefing.yml and event-preview.yml share the       *)
(* concurrency group investo-codex-auth-v1.                                   *)
(***************************************************************************)
EXTENDS Naturals

CONSTANTS
  Calls,        \* threads that call the CLI
  None,         \* no thread
  Corrupt,      \* a credential file the CLI was killed over
  MaxRotations  \* bound: how often the CLI rotates the credential

ASSUME RuntimeAssumption ==
  /\ None \notin Calls
  /\ Corrupt \notin Nat
  /\ MaxRotations \in Nat

Credentials == 0..MaxRotations

VARIABLES
  auth,       \* auth.json
  secret,     \* CODEX_AUTH_JSON in the environment
  call,       \* where each thread is in CodexRunner.__call__
  lock,       \* CodexRunner._lock
  alive,      \* process groups of the CLI that exist
  active,     \* _active is not None
  stop,       \* _cancelled
  closed,     \* _closed
  poisoned,   \* _cleanup_failed
  pc,         \* the supervisor's next step
  part,       \* what preserve() is called for
  doc,        \* the document preserve() read
  persisted,  \* AuthLifecycle._persisted
  failed,     \* failed_checkpoint
  raised,     \* an exception is on its way out of run()
  rc,
  published   \* the pipeline got as far as its publish stage

runner == <<call, lock, alive, active, stop, closed, poisoned>>
result == <<failed, raised, rc>>
vars == <<auth, secret, runner, pc, part, doc, persisted, result, published>>

CallSteps == {"idle", "arrived", "waiting", "admitted", "cleared", "running",
              "stopping", "done"}

Steps == {"verify", "execute", "publish", "exit", "ended", "killed",
          "close", "quiesce", "read", "put"}    \* the last four: preserve()

Parts == {"checkpoint", "final"}

Init ==
  /\ auth = 0 /\ secret = 0 /\ persisted = 0 /\ doc = 0
  /\ call = [c \in Calls |-> "idle"]
  /\ lock = None /\ alive = {} /\ active = FALSE
  /\ stop = FALSE /\ closed = FALSE /\ poisoned = FALSE
  /\ pc = "verify" /\ part = "checkpoint"
  /\ failed = FALSE /\ raised = FALSE /\ rc = 1
  /\ published = FALSE

-----------------------------------------------------------------------------
(* CodexRunner.__call__ and _run, in a thread of their own.                   *)
Move(c, from, to) == call[c] = from /\ call' = [call EXCEPT ![c] = to]

Supervisor == <<pc, part, doc, persisted, result, published>>

\* asyncio.to_thread, while the pipeline generates.
Arrive(c) ==
  /\ pc = "execute"
  /\ Move(c, "idle", "arrived")
  /\ UNCHANGED <<auth, secret, lock, alive, active, stop, closed, poisoned, Supervisor>>

\* The look before the lock.
Wait(c) ==
  /\ Move(c, "arrived", IF poisoned \/ stop THEN "done" ELSE "waiting")
  /\ UNCHANGED <<auth, secret, lock, alive, active, stop, closed, poisoned, Supervisor>>

Acquire(c) ==
  /\ \/ lock = None /\ lock' = c /\ Move(c, "waiting", "admitted")
     \/ lock # None /\ Move(c, "waiting", "done") /\ UNCHANGED lock   \* timeout
  /\ UNCHANGED <<auth, secret, alive, active, stop, closed, poisoned, Supervisor>>

LookedBefore(c) == FALSE            \* a bug: no second look inside the lock

Refused(c) == poisoned \/ closed \/ stop

KeptLock(c) == lock' = lock         \* a bug: a refused call keeps the lock

Released(c) == lock' = None

\* The look inside the lock; also the call's own deadline.
Check(c) ==
  /\ \/ Move(c, "admitted", "done") /\ Released(c)
     \/ ~Refused(c) /\ Move(c, "admitted", "cleared") /\ UNCHANGED lock
  /\ UNCHANGED <<auth, secret, alive, active, stop, closed, poisoned, Supervisor>>

\* read_auth
Readable == auth # Corrupt

\* read_auth and the version check, then Popen.
Launch(c) ==
  /\ \/ /\ Move(c, "cleared", "done") /\ Released(c)
        /\ UNCHANGED <<alive, active>>
     \/ /\ Readable
        /\ Move(c, "cleared", "running")
        /\ alive' = alive \cup {c} /\ active' = TRUE
        /\ UNCHANGED lock
  /\ UNCHANGED <<auth, secret, stop, closed, poisoned, Supervisor>>

\* capture: output, end of file, deadline, or _cancelled.
Capture(c) ==
  /\ Move(c, "running", "stopping")
  /\ UNCHANGED <<auth, secret, lock, alive, active, stop, closed, poisoned, Supervisor>>

\* stop_process: SIGTERM, SIGKILL, reap.  It may fail, and the CLI survive.
StopProcess(c) ==
  /\ Move(c, "stopping", "done") /\ Released(c)
  /\ auth' \in {auth, Corrupt}
  /\ \/ /\ alive' = alive \ {c} /\ active' = FALSE
        /\ UNCHANGED <<stop, poisoned>>
     \/ /\ poisoned' = TRUE /\ stop' = TRUE
        /\ alive' \in {alive, alive \ {c}}
        /\ UNCHANGED active
  /\ UNCHANGED <<secret, closed, Supervisor>>

\* The CLI renews its login.
Rotate(c) ==
  /\ c \in alive
  /\ auth \in Credentials /\ auth < MaxRotations
  /\ auth' = auth + 1
  /\ UNCHANGED <<secret, runner, Supervisor>>

Thread(c) ==
  Wait(c) \/ Acquire(c) \/ Check(c) \/ Launch(c) \/ Capture(c) \/ StopProcess(c)

-----------------------------------------------------------------------------
(* The supervisor: run().                                                     *)
Goto(step) == pc' = step /\ UNCHANGED <<part, result>>

\* The finally clause of the work preserves.
Finally == pc' = "close" /\ part' = "final"

\* A signal, the work's time limit or another exception leaves the work.
Leave == Finally /\ raised' = TRUE /\ UNCHANGED <<failed, rc>>

\* The operation returns an exit code.
Return(code) == Finally /\ rc' = code /\ UNCHANGED <<failed, raised>>

Verify ==
  /\ pc = "verify"
  /\ Goto("execute") \/ Leave
  /\ UNCHANGED <<auth, secret, runner, doc, persisted, published>>

\* Generation: reaches the publish stage, ends without it, or is left.
Execute ==
  /\ pc = "execute"
  /\ Goto("close") \/ (\E code \in 0..2 : Return(code)) \/ Leave
  /\ UNCHANGED <<auth, secret, runner, doc, persisted, published>>

-----------------------------------------------------------------------------
(* AuthLifecycle.preserve, for the checkpoint and at the end.                 *)
Preserved == Goto(IF part = "final" THEN "exit" ELSE "publish")

Tolerated(code) == code             \* a bug: the exit code stays

Blamed(code) == 1

\* The checkpoint's failure ends the operation (AuthPersistenceError, which
\* _async_main turns into 1), the last one is logged.
NotPreserved ==
  /\ IF part = "final" THEN pc' = "exit" /\ UNCHANGED part ELSE Finally
  /\ failed' = (failed \/ part = "checkpoint")
  /\ rc' = Blamed(rc)
  /\ UNCHANGED raised

\* A signal, or the time limit while that is still the work's.
InterruptedPut ==
  IF part = "final" THEN pc' = "exit" /\ raised' = TRUE /\ UNCHANGED <<part, failed, rc>>
  ELSE Leave

\* close() first forbids new calls ...
Close ==
  /\ pc = "close"
  /\ stop' = TRUE
  /\ Goto("quiesce")
  /\ UNCHANGED <<auth, secret, call, lock, alive, active, closed, poisoned, doc,
                 persisted, published>>

Anytime == TRUE                     \* a bug: close() does not wait

Quiescent == lock = None

\* ... then waits for the lock, eleven seconds at most.
Quiesce ==
  /\ pc = "quiesce"
  /\ \/ /\ Quiescent
        /\ closed' = TRUE
        /\ IF poisoned \/ active THEN NotPreserved ELSE Goto("read")
        /\ UNCHANGED poisoned
     \/ /\ lock # None
        /\ poisoned' = TRUE
        /\ NotPreserved
        /\ UNCHANGED closed
  /\ UNCHANGED <<auth, secret, call, lock, alive, active, stop, doc, persisted,
                 published>>

Read ==
  /\ pc = "read"
  /\ \/ ~Readable /\ NotPreserved /\ UNCHANGED doc
     \/ /\ Readable /\ doc' = auth
        /\ IF auth = persisted THEN Preserved ELSE Goto("put")
  /\ UNCHANGED <<auth, secret, runner, persisted, published>>

\* persist(): the public key, then the secret, with three attempts each.
\* Whatever it reports, the secret may have been written.
Put ==
  /\ pc = "put"
  /\ \/ secret' = doc /\ persisted' = doc /\ Preserved
     \/ /\ secret' \in {secret, doc} /\ UNCHANGED persisted
        /\ NotPreserved \/ InterruptedPut
  /\ UNCHANGED <<auth, runner, doc, published>>

-----------------------------------------------------------------------------
Publish ==
  /\ pc = "publish"
  /\ published' = TRUE
  /\ \/ \E code \in 0..2 : Return(code)
     \/ Leave
  /\ UNCHANGED <<auth, secret, runner, doc, persisted>>

\* The last close(), the client's __aexit__, and _supervised.
Exit ==
  /\ pc = "exit"
  /\ stop' = TRUE
  /\ IF lock = None THEN closed' = TRUE /\ UNCHANGED poisoned
     ELSE poisoned' = TRUE /\ UNCHANGED closed
  /\ \E interrupted \in BOOLEAN :
       rc' = IF failed \/ raised \/ interrupted \/ lock # None \/ poisoned \/ active
             THEN 1 ELSE rc
  /\ pc' = "ended"
  /\ UNCHANGED <<auth, secret, call, lock, alive, active, part, doc, persisted,
                 failed, raised, published>>

Run == Verify \/ Execute \/ Close \/ Quiesce \/ Read \/ Put \/ Publish \/ Exit

\* SIGKILL, or the end of the runner.  Threads die with the process; the CLI,
\* in a session of its own, need not.
Kill ==
  /\ pc \notin {"ended", "killed"}
  /\ pc' = "killed"
  /\ call' = [c \in Calls |-> "done"] /\ lock' = None
  /\ UNCHANGED <<auth, secret, alive, active, stop, closed, poisoned, part, doc,
                 persisted, result, published>>

Next ==
  \/ Run \/ Kill
  \/ \E c \in Calls : Arrive(c) \/ Thread(c) \/ Rotate(c)

Spec == Init /\ [][Next]_vars

\* Deadlines bound every wait of the supervisor and of a call.
FairSpec == Spec /\ WF_vars(Run) /\ \A c \in Calls : WF_vars(Thread(c))

-----------------------------------------------------------------------------
\* Types: the secret and what the supervisor has read are credentials; only
\* the file itself may be corrupt.
TypeOK ==
  /\ auth \in Credentials \cup {Corrupt}
  /\ secret \in Credentials /\ persisted \in Credentials /\ doc \in Credentials
  /\ call \in [Calls -> CallSteps]
  /\ lock \in Calls \cup {None} /\ alive \subseteq Calls
  /\ active \in BOOLEAN /\ stop \in BOOLEAN /\ closed \in BOOLEAN
  /\ poisoned \in BOOLEAN
  /\ pc \in Steps /\ part \in Parts
  /\ failed \in BOOLEAN /\ raised \in BOOLEAN /\ published \in BOOLEAN
  /\ rc \in 0..2

\* "codex_runtime owns [the] pre-publication checkpoint": from the publish
\* stage on, even if the process is killed, the secret is the credential the
\* CLI wrote last.
PublishedIsStored == published => secret = auth

\* A run that ends with another exit code than 1 has stored the credential, so
\* the next one can log in; a lost credential always shows.
LossIsReported == pc = "ended" /\ rc # 1 => secret = auth

\* "One dedicated auth stream": two processes that rotate the same credential
\* would lock each other out, also when one could not be killed.
OneProcess == \A c, d \in alive : c = d

\* Once close() was called every call ends and gives the lock back.
Quiesces ==
  stop ~> lock = None /\ \A c \in Calls : call[c] \in {"idle", "done"}
=============================================================================
