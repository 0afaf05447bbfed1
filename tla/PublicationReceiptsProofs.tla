---------------------- MODULE PublicationReceiptsProofs ----------------------
(***************************************************************************)
(* For every remote history, every number of other writers and retries:     *)
(* the variables keep their types and bounds, the publication lands only on *)
(* the metadata it was generated from (the compare-and-swap), receipts are  *)
(* true and recorded before they matter, and every step of the call is one  *)
(* its contract allows.                                                     *)
(***************************************************************************)
EXTENDS PublicationReceipts, TLAPS

BeforePush == {"preflight", "stage", "commit", "read_head", "hash_content"}

Rebasing == {"rebase", "abort", "inspect", "verify", "rehash"}

\* Where the call stands bounds what it has attempted and observed.
Counters ==
  /\ step \in {"preflight", "stage"} => attempts <= Retries
  /\ step \in BeforePush => observation = 0 /\ fetches = 0
  /\ step \in {"push", "observe"} => fetches = observation
  /\ step = "observe_again" => fetches = 1 /\ observation = 0
  /\ step \in Rebasing => fetches = 1 /\ observation = 0 /\ attempts <= Retries
  /\ step \in {"hash_content", "push", "observe", "observe_again"} \cup Rebasing
       => receipt.sha \in Commits

\* The remote is a chain, of which the tracking ref knows a prefix.
Chain ==
  /\ tracking \in 1..Len(remote)
  /\ \A i \in 1..Len(remote) : remote[i].base = i - 1

\* A commit that is either no fast-forward of the remote, or the publication
\* on top of the metadata it was generated from.  No writer can undo this.
SafeToPush(c) ==
  \/ c.base < Len(remote)
  \/ c.pub /\ c.base = Len(remote) /\ remote[c.base].tree.meta = request.baseline

PushSafety ==
  /\ \A c \in delayed : SafeToPush(c)
  /\ step \in {"read_head", "hash_content", "push", "verify", "rehash"}
       => SafeToPush(head)
  /\ step \in {"preflight", "stage", "commit"} => head = initialHead
  /\ step \in {"stage", "commit", "read_head"} => initialHead.base < tracking
  /\ step \in {"stage", "commit", "read_head", "rebase"}
       => Onto.tree.meta = request.baseline

Inv == TypeOK /\ Counters /\ Chain /\ PushSafety /\ MetadataSwap

LEMMA InitInv == Init => Inv
<1> SUFFICES ASSUME Init PROVE Inv
  OBVIOUS
<1>1. /\ remote \in Seq(Commits)
      /\ WellFormed(remote)
  BY ConstantsAssumption DEF Init
<1>2. TypeOK
  <2>1. \A i \in 1..Len(remote) : remote[i] \in Commits
    BY <1>1
  <2>2. head \in Commits /\ initialHead \in Commits
    <3>1. CASE head \in {remote[i] : i \in 1..Len(remote)}
      BY <3>1, <2>1 DEF Init
    <3>2. CASE head \in {[base |-> Len(remote), tree |-> t, pub |-> FALSE] :
                            t \in OtherTrees}
      <4>1. PICK t \in OtherTrees :
              head = [base |-> Len(remote), tree |-> t, pub |-> FALSE]
        BY <3>2
      <4>2. t \in Trees /\ Len(remote) \in Nat
        BY <1>1, ConstantsAssumption
      <4>3. head \in Commits
        BY <4>1, <4>2 DEF Commits
      <4> QED  BY <4>3 DEF Init
    <3> QED  BY <3>1, <3>2 DEF Init
  <2>3. request \in [work : Trees, baseline : Values, foreign : BOOLEAN]
    <3>1. \A i \in 1..Len(remote) : remote[i].tree.meta \in Values
      BY <2>1 DEF Commits, Trees
    <3> QED  BY <3>1, ConstantsAssumption DEF Init
  <2>4. receipt \in Receipts
    BY DEF Init, Receipts, Statuses
  <2>5. tracking \in Nat /\ attempts \in 0..(Retries + 1)
    BY <1>1, ConstantsAssumption DEF Init
  <2>6. /\ rebasing = FALSE /\ commitOk = FALSE /\ aborted = FALSE
        /\ delayed = {} /\ stored = <<>> /\ contentHash = NoContent
        /\ step = "preflight" /\ phase = "pre_commit"
        /\ observation = 0 /\ fetches = 0
    BY DEF Init
  <2>7. /\ delayed \subseteq Commits /\ stored \in Seq(Receipts)
        /\ step \in Steps /\ phase \in Phases
        /\ observation \in 0..1 /\ fetches \in 0..2
        /\ contentHash \in Trees \cup {NoContent}
    BY <2>6 DEF Steps, Phases
  <2> QED
    BY <1>1, <2>2, <2>3, <2>4, <2>5, <2>6, <2>7 DEF TypeOK
<1>3. Counters /\ Chain /\ PushSafety /\ MetadataSwap
  BY <1>1, ConstantsAssumption
  DEF Init, Counters, Chain, PushSafety, MetadataSwap, Published, WellFormed,
      BeforePush, Rebasing
<1> QED  BY <1>2, <1>3 DEF Inv

\* What the receipts that record is given may be.
LEMMA WithType ==
  ASSUME TypeOK, NEW s \in Statuses
  PROVE  With(s) \in Receipts /\ With(s).sha = receipt.sha
BY DEF TypeOK, With, Receipts


\* record keeps the receipts well-typed and goes on or ends the call.
LEMMA RecordStep ==
  ASSUME TypeOK, NEW r \in Receipts, NEW next \in Steps, Record(r, next)
  PROVE  /\ receipt' = r
         /\ receipt' \in Receipts /\ stored' \in Seq(Receipts)
         /\ step' \in Steps /\ step' \in {next, "failed"}
BY DEF TypeOK, Record, Steps, Finished

LEMMA PlainStep ==
  ASSUME TypeOK, NEW next \in Steps, Goto(next) \/ Fail
  PROVE  /\ receipt' = receipt
         /\ receipt' \in Receipts /\ stored' \in Seq(Receipts)
         /\ step' \in Steps /\ step' \in {next, "failed"}
BY DEF TypeOK, Goto, Fail, Steps, Finished

\* A step that leaves the remote, the request and the clone's view of the
\* remote alone keeps the chain and what is on it.
LEMMA RemoteKept ==
  ASSUME Inv, UNCHANGED <<remote, request, tracking>>
  PROVE  /\ Chain' /\ MetadataSwap'
         /\ Onto' = Onto
         /\ \A c : SafeToPush(c)' <=> SafeToPush(c)
BY DEF Inv, Chain, MetadataSwap, Published, Onto, SafeToPush

LEMMA PreflightInv == ASSUME Inv, Preflight PROVE Inv'
<1>1. TypeOK'
  BY ConstantsAssumption, RecordStep, PlainStep
  DEF Inv, TypeOK, Counters, Preflight, Goto, Fail, Acceptable, InHistory, Onto, clone, control, Steps, BeforePush, Rebasing
<1>2. Counters'
  BY ConstantsAssumption, RecordStep, PlainStep
  DEF Inv, TypeOK, Counters, Preflight, Goto, Fail, Acceptable, InHistory, Onto, clone, control, Steps, BeforePush, Rebasing
<1>3. Chain' /\ MetadataSwap'
  BY RemoteKept DEF Preflight, clone, control
<1>4. PushSafety'
  BY RemoteKept, RecordStep, PlainStep
  DEF Inv, TypeOK, PushSafety, Preflight, Goto, Fail, Acceptable, InHistory, Onto, clone, control, Steps
<1> QED  BY <1>1, <1>2, <1>3, <1>4 DEF Inv

LEMMA StageInv == ASSUME Inv, Stage PROVE Inv'
<1>1. TypeOK'
  BY ConstantsAssumption, RecordStep, PlainStep
  DEF Inv, TypeOK, Counters, Stage, ThisAttempt, Goto, Fail, clone, control, Steps, BeforePush, Rebasing
<1>2. Counters'
  BY ConstantsAssumption, RecordStep, PlainStep
  DEF Inv, TypeOK, Counters, Stage, ThisAttempt, Goto, Fail, clone, control, Steps, BeforePush, Rebasing
<1>3. Chain' /\ MetadataSwap'
  BY RemoteKept DEF Stage, clone, control
<1>4. PushSafety'
  BY RemoteKept, RecordStep, PlainStep
  DEF Inv, TypeOK, PushSafety, Stage, Goto, Fail, clone, control, Steps
<1> QED  BY <1>1, <1>2, <1>3, <1>4 DEF Inv

LEMMA CommitInv == ASSUME Inv, Commit PROVE Inv'
<1>1. /\ CommitOn(head) \in Commits
      /\ CommitOn(head).base = head.base + 1 /\ CommitOn(head).pub
  BY DEF Inv, TypeOK, CommitOn, Commits
<1>2. SafeToPush(CommitOn(head)) /\ SafeToPush(head)
  <2>1. /\ head = initialHead /\ head.base < tracking /\ head.base \in Nat
        /\ tracking \in 1..Len(remote) /\ Onto.tree.meta = request.baseline
    BY DEF Inv, TypeOK, PushSafety, Chain, Commit, Commits
  <2> QED  BY <1>1, <2>1 DEF SafeToPush, Onto
<1>3. TypeOK'
  BY <1>1, PlainStep DEF Inv, TypeOK, Commit, Steps
<1>4. Counters'
  BY PlainStep DEF Inv, Counters, Commit, Steps, BeforePush, Rebasing
<1>5. Chain' /\ MetadataSwap'
  BY RemoteKept DEF Commit
<1>6. PushSafety'
  BY <1>2, RemoteKept, PlainStep DEF Inv, PushSafety, Commit, Steps
<1> QED  BY <1>3, <1>4, <1>5, <1>6 DEF Inv

LEMMA ReadHeadInv == ASSUME Inv, ReadHead PROVE Inv'
<1> DEFINE pending == [receipt EXCEPT !.sha = head, !.status = "pending"]
<1>1. pending \in Receipts /\ pending.sha = head /\ Unknown \in Receipts
  BY WithType DEF Inv, TypeOK, Receipts, Statuses, Unknown
<1>2. UNCHANGED <<remote, delayed, clone, control>> /\ step = "read_head"
  BY DEF ReadHead
<1>3. /\ receipt' \in Receipts /\ stored' \in Seq(Receipts)
      /\ step' \in Steps /\ phase' \in Phases
      /\ \/ step' = "failed"
         \/ step' = "hash_content" /\ receipt' = pending
         \/ step' = "stage" /\ attempts <= Retries /\ ~Committed
  <2>1. CASE UnreadableHead
    BY <2>1, <1>1, RecordStep DEF Inv, UnreadableHead, Steps, Finished, Phases
  <2>2. CASE Committed /\ phase' = "post_commit" /\ Record(pending, "hash_content")
    BY <2>2, <1>1, RecordStep DEF Inv, Steps, Phases
  <2>3. CASE ~Committed /\ phase' = phase /\ NextAttempt
    BY <2>3, PlainStep, ConstantsAssumption
    DEF Inv, TypeOK, Steps, NextAttempt, Goto, Fail
  <2> QED  BY <2>1, <2>2, <2>3 DEF ReadHead
<1>4. TypeOK'
  BY <1>2, <1>3 DEF Inv, TypeOK, clone, control
<1>5. Counters'
  BY <1>1, <1>2, <1>3
  DEF Inv, TypeOK, Counters, clone, control, BeforePush, Rebasing
<1>6. Chain' /\ MetadataSwap'
  BY <1>2, RemoteKept DEF clone, control
<1>7. PushSafety'
  BY <1>2, <1>3, RemoteKept
  DEF Inv, TypeOK, PushSafety, Committed, clone, control
<1> QED  BY <1>4, <1>5, <1>6, <1>7 DEF Inv

LEMMA HashContentInv == ASSUME Inv, HashContent PROVE Inv'
<1> DEFINE hashed == [receipt EXCEPT !.content = receipt.sha.tree]
<1>1. /\ receipt.sha \in Commits /\ receipt.sha.tree \in Trees
      /\ hashed \in Receipts /\ hashed.sha = receipt.sha
  BY DEF Inv, TypeOK, Counters, HashContent, Receipts, Commits
<1>2. /\ receipt' \in Receipts /\ stored' \in Seq(Receipts)
      /\ step' \in {"push", "failed"} /\ step' \in Steps
      /\ receipt'.sha = receipt.sha
      /\ contentHash' \in Trees \cup {NoContent}
  BY <1>1, RecordStep, PlainStep DEF Inv, TypeOK, HashContent, Steps, Finished
<1>3. /\ step = "hash_content"
      /\ UNCHANGED <<remote, delayed, phase, clone, request, initialHead,
                     commitOk, aborted, attempts, observation, fetches>>
  BY DEF HashContent
<1>4. TypeOK'
  BY <1>2, <1>3 DEF Inv, TypeOK, clone
<1>5. Counters'
  BY <1>1, <1>2, <1>3 DEF Inv, Counters, clone, BeforePush, Rebasing
<1>6. Chain' /\ MetadataSwap'
  BY <1>3, RemoteKept DEF clone
<1>7. PushSafety'
  BY <1>2, <1>3, RemoteKept DEF Inv, PushSafety, clone
<1> QED  BY <1>4, <1>5, <1>6, <1>7 DEF Inv

\* A commit that lands on the remote keeps every commit safe to push, and the
\* swap sound if it is the publication on its own baseline.
LEMMA Landed ==
  ASSUME Inv, NEW c \in Commits, c.base = Len(remote),
         c.pub => remote[Len(remote)].tree.meta = request.baseline,
         remote' = Append(remote, c), UNCHANGED <<request, tracking>>
  PROVE  /\ remote' \in Seq(Commits) /\ Chain' /\ MetadataSwap'
         /\ Onto' = Onto
         /\ \A d \in Commits : SafeToPush(d) => SafeToPush(d)'
<1>1. /\ remote \in Seq(Commits) /\ Len(remote) \in Nat \ {0}
      /\ tracking \in 1..Len(remote)
  BY DEF Inv, TypeOK, Chain
<1>2. /\ remote' \in Seq(Commits) /\ Len(remote') = Len(remote) + 1
      /\ \A i \in 1..Len(remote) : remote'[i] = remote[i]
      /\ remote'[Len(remote) + 1] = c
  BY <1>1
<1>3. Chain'
  BY <1>1, <1>2 DEF Inv, Chain
<1>4. MetadataSwap'
  BY <1>1, <1>2 DEF Inv, MetadataSwap, Published
<1>5. Onto' = Onto
  BY <1>1, <1>2 DEF Onto
<1>6. \A d \in Commits : SafeToPush(d) => SafeToPush(d)'
  BY <1>1, <1>2 DEF SafeToPush, Commits
<1> QED  BY <1>2, <1>3, <1>4, <1>5, <1>6

LEMMA PushInv == ASSUME Inv, Push PROVE Inv'
<1>1. /\ step = "push" /\ SafeToPush(head) /\ head \in Commits
      /\ UNCHANGED <<phase, clone, control>>
  BY DEF Inv, TypeOK, PushSafety, Push
<1>2. /\ receipt' = receipt /\ receipt' \in Receipts
      /\ stored' \in Seq(Receipts)
      /\ step' \in {"observe", "failed"} /\ step' \in Steps
  BY PlainStep DEF Inv, TypeOK, Push, Steps, Finished
<1>3. CASE FastForward(head) /\ remote' = Append(remote, head) /\ delayed' = delayed
  <2>1. head.base = Len(remote) /\ remote[Len(remote)].tree.meta = request.baseline
    BY <1>1, <1>3 DEF FastForward, SafeToPush, Inv, TypeOK
  <2>2. /\ remote' \in Seq(Commits) /\ Chain' /\ MetadataSwap' /\ Onto' = Onto
        /\ \A d \in Commits : SafeToPush(d) => SafeToPush(d)'
    BY <1>1, <1>3, <2>1, Landed DEF clone, control
  <2>3. TypeOK'
    BY <1>1, <1>2, <1>3, <2>2 DEF Inv, TypeOK, clone, control
  <2>4. Counters'
    BY <1>1, <1>2 DEF Inv, Counters, clone, control, BeforePush, Rebasing
  <2>5. PushSafety'
    BY <1>1, <1>2, <1>3, <2>2 DEF Inv, TypeOK, PushSafety, clone, control
  <2> QED  BY <2>2, <2>3, <2>4, <2>5 DEF Inv
<1>4. CASE remote' = remote /\ delayed' \in {delayed, delayed \cup {head}}
  <2>1. TypeOK'
    BY <1>1, <1>2, <1>4 DEF Inv, TypeOK, clone, control
  <2>2. Counters'
    BY <1>1, <1>2 DEF Inv, Counters, clone, control, BeforePush, Rebasing
  <2>3. Chain' /\ MetadataSwap'
    BY <1>1, <1>4, RemoteKept DEF clone, control
  <2>4. PushSafety'
    BY <1>1, <1>2, <1>4, RemoteKept DEF Inv, PushSafety, clone, control
  <2> QED  BY <2>1, <2>2, <2>3, <2>4 DEF Inv
<1> QED  BY <1>3, <1>4 DEF Push

\* An observation moves the tracking ref within the remote, at most to its end.
LEMMA Observed ==
  ASSUME Inv, UNCHANGED <<remote, delayed, request>>,
         tracking' \in {tracking, Len(remote)},
         step' \in {"returned", "failed", "observe_again", "rebase"},
         step' = "rebase" => /\ tracking' = Len(remote)
                             /\ remote[Len(remote)].tree.meta = request.baseline
  PROVE  Chain' /\ MetadataSwap' /\ PushSafety'
<1>1. Len(remote) \in 1..Len(remote) /\ tracking' \in 1..Len(remote)
  BY DEF Inv, TypeOK, Chain
<1>2. Chain' /\ MetadataSwap'
  BY <1>1 DEF Inv, Chain, MetadataSwap, Published
<1>3. \A c : SafeToPush(c)' <=> SafeToPush(c)
  BY DEF SafeToPush
<1>4. step' = "rebase" => Onto'.tree.meta = request'.baseline
  BY DEF Onto
<1> QED  BY <1>2, <1>3, <1>4 DEF Inv, PushSafety

LEMMA ObserveInv == ASSUME Inv, Observe PROVE Inv'
<1>1. /\ step = "observe" /\ fetches = observation
      /\ receipt.sha \in Commits
      /\ UNCHANGED <<remote, delayed, phase, head, rebasing, request,
                     initialHead, commitOk, contentHash, aborted, attempts,
                     observation>>
      /\ tracking' \in {tracking, Len(remote)} /\ fetches' = fetches + 1
  BY DEF Inv, Counters, Observe, FetchFailed, Fetch
<1>2. \A s \in Statuses : With(s) \in Receipts /\ With(s).sha = receipt.sha
  BY WithType DEF Inv
<1>3. /\ receipt' \in Receipts /\ stored' \in Seq(Receipts)
      /\ step' \in Steps /\ receipt'.sha = receipt.sha
      /\ step' \in {"returned", "failed", "observe_again", "rebase"}
      /\ step' = "observe_again" => observation = 0
      /\ step' = "rebase" => /\ ~LastObservation
                             /\ tracking' = Len(remote)
                             /\ remote[Len(remote)].tree.meta = request.baseline
  <2>1. CASE /\ FetchFailed
             /\ Record(Unknown, IF observation = 0 /\ Confirmations > 1
                                THEN "observe_again" ELSE "failed")
    BY <2>1, <1>2, RecordStep DEF Inv, Unknown, Statuses, Steps, Finished
  <2>2. CASE Fetch /\ Record(With("remote_confirmed"), "returned")
    BY <2>2, <1>2, RecordStep DEF Inv, Statuses, Steps, Finished
  <2>3. CASE /\ Fetch
             /\ Record(With("definitely_unpublished"),
                       IF \/ remote[Len(remote)].tree.meta # request.baseline
                          \/ LastObservation
                       THEN "failed" ELSE "rebase")
    BY <2>3, <1>2, RecordStep DEF Inv, Statuses, Steps, Finished, Fetch
  <2> QED  BY <2>1, <2>2, <2>3 DEF Observe
<1>4. step' = "rebase" => observation = 0 /\ attempts <= Retries
  BY <1>3, ConstantsAssumption DEF LastObservation, Confirmations, Inv, TypeOK
<1>5. TypeOK'
  BY <1>1, <1>3 DEF Inv, TypeOK, Chain
<1>6. Counters'
  BY <1>1, <1>3, <1>4 DEF Inv, Counters, BeforePush, Rebasing
<1>7. Chain' /\ MetadataSwap' /\ PushSafety'
  BY <1>1, <1>3, Observed
<1> QED  BY <1>5, <1>6, <1>7 DEF Inv

LEMMA ObserveAgainInv == ASSUME Inv, ObserveAgain PROVE Inv'
<1>1. /\ step = "observe_again" /\ fetches = 1
      /\ UNCHANGED <<remote, delayed, phase, head, rebasing, request,
                     initialHead, commitOk, contentHash, aborted, attempts,
                     observation>>
      /\ tracking' \in {tracking, Len(remote)} /\ fetches' = 2
  BY DEF Inv, Counters, ObserveAgain, FetchFailed, Fetch
<1>2. \A s \in Statuses : With(s) \in Receipts
  BY WithType DEF Inv
<1>3. /\ receipt' \in Receipts /\ stored' \in Seq(Receipts)
      /\ step' \in Steps /\ step' \in {"returned", "failed"}
  BY <1>2, RecordStep, PlainStep
  DEF Inv, ObserveAgain, Statuses, Steps, Finished
<1>4. TypeOK'
  BY <1>1, <1>3 DEF Inv, TypeOK, Chain
<1>5. Counters'
  BY <1>1, <1>3 DEF Inv, Counters, BeforePush, Rebasing
<1>6. Chain' /\ MetadataSwap' /\ PushSafety'
  BY <1>1, <1>3, Observed
<1> QED  BY <1>4, <1>5, <1>6 DEF Inv

LEMMA RebaseInv == ASSUME Inv, Rebase PROVE Inv'
<1>1. /\ step = "rebase" /\ Onto.tree.meta = request.baseline
      /\ Onto \in Commits /\ Onto.base = tracking - 1
      /\ tracking \in 1..Len(remote)
      /\ UNCHANGED <<remote, delayed, phase, tracking, control>>
  BY DEF Inv, TypeOK, Chain, PushSafety, Onto, Rebase, clone
<1>2. Rebased \in Commits /\ SafeToPush(Rebased)
  <2>1. \A p \in {"meta", "body"} :
          Merged(initialHead.tree[p], head.tree[p], Onto.tree[p]) \in Values
    BY <1>1, ConstantsAssumption DEF Inv, TypeOK, Merged, Commits, Trees
  <2> DEFINE tree == [p \in {"meta", "body"} |->
                        Merged(initialHead.tree[p], head.tree[p], Onto.tree[p])]
             successor == [base |-> tracking, tree |-> tree, pub |-> TRUE]
  <2>2. tree \in Trees
    BY <2>1 DEF Trees
  <2> HIDE DEF tree
  <2>3. successor \in Commits /\ successor.base = tracking /\ successor.pub
    BY <1>1, <2>2 DEF Commits, Inv, TypeOK
  <2>4. SafeToPush(successor) /\ SafeToPush(Onto)
    BY <1>1, <2>3 DEF SafeToPush, Onto, Inv, TypeOK
  <2>5. Rebased \in {Onto, successor}
    BY DEF Rebased, tree
  <2> QED  BY <1>1, <2>3, <2>4, <2>5
<1>3. /\ receipt' = receipt /\ receipt' \in Receipts
      /\ stored' \in Seq(Receipts) /\ step' \in Steps
      /\ step' \in {"verify", "abort", "failed"}
  BY PlainStep DEF Inv, TypeOK, Rebase, Steps, Finished
<1>4. /\ head' \in Commits /\ rebasing' \in BOOLEAN
      /\ step' = "verify" => head' = Rebased
  BY <1>1, <1>2 DEF Inv, TypeOK, Rebase, clone, Goto, Fail
<1>5. TypeOK'
  BY <1>1, <1>3, <1>4 DEF Inv, TypeOK, control
<1>6. Counters'
  BY <1>1, <1>3 DEF Inv, Counters, control, BeforePush, Rebasing
<1>7. Chain' /\ MetadataSwap'
  BY <1>1, RemoteKept DEF control
<1>8. PushSafety'
  BY <1>1, <1>2, <1>3, <1>4, RemoteKept DEF Inv, PushSafety, control
<1> QED  BY <1>5, <1>6, <1>7, <1>8 DEF Inv

LEMMA AbortInv == ASSUME Inv, Abort PROVE Inv'
<1>1. /\ step = "abort" /\ receipt.sha \in Commits
      /\ head' \in {head, receipt.sha}
      /\ rebasing' \in BOOLEAN /\ aborted' \in BOOLEAN
      /\ UNCHANGED <<remote, delayed, phase, tracking, request, initialHead,
                     commitOk, contentHash, attempts, observation, fetches>>
  BY DEF Inv, TypeOK, Counters, Rebasing, Abort
<1>2. /\ receipt' = receipt /\ receipt' \in Receipts
      /\ stored' \in Seq(Receipts) /\ step' = "inspect"
  BY DEF Inv, TypeOK, Abort, Goto
<1>3. TypeOK'
  BY <1>1, <1>2 DEF Inv, TypeOK, Steps
<1>4. Counters'
  BY <1>1, <1>2 DEF Inv, Counters, BeforePush, Rebasing
<1>5. Chain' /\ MetadataSwap'
  BY <1>1, RemoteKept
<1>6. PushSafety'
  BY <1>1, <1>2, RemoteKept DEF Inv, PushSafety
<1> QED  BY <1>3, <1>4, <1>5, <1>6 DEF Inv

LEMMA InspectInv == ASSUME Inv, Inspect PROVE Inv'
<1> DEFINE kept == [sha |-> head, content |-> head.tree,
                    status |-> IF aborted THEN "pending" ELSE "outcome_unknown"]
<1>1. Unknown \in Receipts /\ kept \in Receipts
  BY WithType DEF Inv, TypeOK, Unknown, Statuses, Receipts, Commits
<1>2. receipt' \in Receipts /\ stored' \in Seq(Receipts) /\ step' = "failed"
  BY <1>1, RecordStep, PlainStep DEF Inv, TypeOK, Inspect, Steps, Finished, Fail
<1>3. UNCHANGED <<remote, delayed, phase, clone, control>>
  BY DEF Inspect
<1>4. TypeOK'
  BY <1>2, <1>3 DEF Inv, TypeOK, clone, control, Steps, Finished
<1>5. Counters'
  BY <1>2 DEF Counters, BeforePush, Rebasing
<1>6. Chain' /\ MetadataSwap'
  BY <1>3, RemoteKept DEF clone, control
<1>7. PushSafety'
  BY <1>2, <1>3, RemoteKept DEF Inv, PushSafety, clone, control
<1> QED  BY <1>4, <1>5, <1>6, <1>7 DEF Inv

LEMMA VerifyInv == ASSUME Inv, Verify PROVE Inv'
<1>1. NewSha \in Receipts /\ NewSha.sha = head /\ head \in Commits
  BY DEF Inv, TypeOK, NewSha, Receipts, Statuses
<1>2. /\ receipt' \in Receipts /\ stored' \in Seq(Receipts)
      /\ step' \in {"rehash", "failed"} /\ step' \in Steps
      /\ step' = "rehash" => receipt'.sha \in Commits
  BY <1>1, RecordStep, PlainStep DEF Inv, Verify, Steps, Finished, Fail
<1>3. step = "verify" /\ UNCHANGED <<remote, delayed, phase, clone, control>>
  BY DEF Verify
<1>4. TypeOK'
  BY <1>2, <1>3 DEF Inv, TypeOK, clone, control
<1>5. Counters'
  BY <1>2, <1>3 DEF Inv, Counters, clone, control, BeforePush, Rebasing
<1>6. Chain' /\ MetadataSwap'
  BY <1>3, RemoteKept DEF clone, control
<1>7. PushSafety'
  BY <1>2, <1>3, RemoteKept DEF Inv, PushSafety, clone, control
<1> QED  BY <1>4, <1>5, <1>6, <1>7 DEF Inv

LEMMA RehashInv == ASSUME Inv, Rehash PROVE Inv'
<1> DEFINE hashed == [receipt EXCEPT !.content = head.tree]
<1>1. /\ step = "rehash" /\ fetches = 1 /\ observation = 0
      /\ attempts <= Retries /\ receipt.sha \in Commits
      /\ UNCHANGED <<remote, delayed, phase, clone, request, initialHead,
                     commitOk, contentHash, aborted, fetches>>
  BY DEF Inv, Counters, Rebasing, Rehash
<1>2. hashed \in Receipts /\ hashed.sha = receipt.sha
  BY DEF Inv, TypeOK, Receipts, Commits
<1>3. /\ receipt' \in Receipts /\ stored' \in Seq(Receipts)
      /\ step' \in {"push", "failed"} /\ step' \in Steps
      /\ receipt'.sha = receipt.sha
  BY <1>2, RecordStep, PlainStep DEF Inv, Rehash, Steps, Finished, Fail
<1>4. /\ attempts' \in {attempts, attempts + 1}
      /\ observation' \in {0, 1}
      /\ step' = "push" => observation' = 1
  BY <1>1 DEF Rehash, Fail, Record
<1>5. TypeOK'
  BY <1>1, <1>3, <1>4, ConstantsAssumption DEF Inv, TypeOK, clone
<1>6. Counters'
  BY <1>1, <1>3, <1>4 DEF Counters, clone, BeforePush, Rebasing
<1>7. Chain' /\ MetadataSwap'
  BY <1>1, RemoteKept DEF clone
<1>8. PushSafety'
  BY <1>1, <1>3, RemoteKept DEF Inv, PushSafety, clone
<1> QED  BY <1>5, <1>6, <1>7, <1>8 DEF Inv

\* Commits of others, and pushes that arrive late.
LEMMA EnvironmentInv == ASSUME Inv, OtherWriter \/ LatePush PROVE Inv'
<1>1. UNCHANGED <<delayed, stored, step, phase, receipt, clone, control>>
  BY DEF OtherWriter, LatePush
<1>2. PICK c \in Commits :
        /\ c.base = Len(remote) /\ remote' = Append(remote, c)
        /\ c.pub => remote[Len(remote)].tree.meta = request.baseline
  <2>1. CASE OtherWriter
    <3>1. PICK t \in OtherTrees :
            remote' = Append(remote, [base |-> Len(remote), tree |-> t,
                                      pub |-> FALSE])
      BY <2>1 DEF OtherWriter
    <3>2. [base |-> Len(remote), tree |-> t, pub |-> FALSE] \in Commits
      BY ConstantsAssumption DEF Commits, Inv, TypeOK
    <3> QED  BY <3>1, <3>2
  <2>2. CASE LatePush
    BY <2>2 DEF LatePush, FastForward, Inv, TypeOK, PushSafety, SafeToPush
  <2> QED  BY <2>1, <2>2
<1>3. /\ remote' \in Seq(Commits) /\ Chain' /\ MetadataSwap' /\ Onto' = Onto
      /\ \A d \in Commits : SafeToPush(d) => SafeToPush(d)'
  BY <1>1, <1>2, Landed DEF clone, control
<1>4. TypeOK'
  BY <1>1, <1>3 DEF Inv, TypeOK, clone, control
<1>5. Counters'
  BY <1>1 DEF Inv, Counters, clone, control, BeforePush, Rebasing
<1>6. PushSafety'
  BY <1>1, <1>3 DEF Inv, TypeOK, PushSafety, clone, control
<1> QED  BY <1>3, <1>4, <1>5, <1>6 DEF Inv

LEMMA CrashInv == ASSUME Inv, Crash \/ UNCHANGED vars PROVE Inv'
<1>1. /\ UNCHANGED <<remote, delayed, stored, phase, receipt, clone, control>>
      /\ step' = "crashed" \/ step' = step
  BY DEF Crash, vars
<1>2. TypeOK'
  BY <1>1 DEF Inv, TypeOK, clone, control, Steps, Finished
<1>3. Counters'
  BY <1>1 DEF Inv, Counters, clone, control, BeforePush, Rebasing
<1>4. Chain' /\ MetadataSwap'
  BY <1>1, RemoteKept DEF clone, control
<1>5. PushSafety'
  BY <1>1, RemoteKept DEF Inv, PushSafety, clone, control
<1> QED  BY <1>2, <1>3, <1>4, <1>5 DEF Inv

LEMMA StepInv == Inv /\ [Next]_vars => Inv'
BY PreflightInv, StageInv, CommitInv, ReadHeadInv, HashContentInv, PushInv,
   ObserveInv, ObserveAgainInv, RebaseInv, AbortInv, InspectInv, VerifyInv,
   RehashInv, EnvironmentInv, CrashInv
DEF Next, Publisher

\* Everything the later theorems rest on holds in every state of the call.
THEOREM Invariance == Spec => []Inv
BY InitInv, StepInv, PTL DEF Spec

\* Every variable keeps its type; at most "retries" plus one attempts are made
\* and at most two observations, as the docstring of the function promises.
THEOREM TypeCorrectness == Spec => []TypeOK
<1>1. Inv => TypeOK
  BY DEF Inv
<1> QED  BY <1>1, Invariance, PTL

\* The compare-and-swap on the metadata paths: no interleaving of other
\* writers, lost results, late pushes, rebase and crashes publishes on a
\* baseline other than the one the publication was generated from.
THEOREM SwapSafety == Spec => []MetadataSwap
<1>1. Inv => MetadataSwap
  BY DEF Inv
<1> QED  BY <1>1, Invariance, PTL

-----------------------------------------------------------------------------
(* What has left the clone, and the receipt that names it.  The call pushes   *)
(* one commit on top of the initial head; when the rebase replays it on the   *)
(* parent it already has, it is the same commit, so that a push which was     *)
(* given up and arrives late is still the one the last receipt names; when it *)
(* has another parent, the late push is not a fast-forward any more.          *)
Confirming == {"push", "observe", "observe_again"}

Alive(c) == c.base >= Len(remote)

Origin ==
  /\ step \notin {"preflight"} \cup Finished =>
       InHistory(initialHead, remote, Len(remote)) /\ initialHead.base < tracking
  /\ (\/ step \in {"read_head", "hash_content", "rebase"}
      \/ step \in {"push", "observe"} /\ observation = 0)
     => \/ head = initialHead
        \/ head = CommitOn(initialHead) /\ request.work # initialHead.tree
  /\ step = "read_head" /\ commitOk => head.tree = request.work

Content ==
  /\ step \in {"hash_content", "rehash"} => receipt.status = "pending"
  /\ step \in {"hash_content", "rehash", "rebase"} \cup Confirming => receipt.sha = head
  /\ step \in ({"hash_content"} \cup Confirming \cup Rebasing) \ {"rehash"} =>
       receipt.sha.tree = request.work
  /\ step \in Confirming \cup Rebasing => contentHash = request.work

\* A failure before the commit left nothing that could still be published.
Phased ==
  phase = "pre_commit" =>
    /\ step \in {"preflight", "stage", "commit", "read_head", "failed", "crashed"}
    /\ delayed = {} /\ Published = {}

Named(c) == stored # <<>> /\ Last(stored).sha = c

Recorded ==
  /\ step \in Confirming \cup Rebasing \cup {"returned"} => Named(receipt.sha)
  /\ step \in BeforePush => delayed = {} /\ Published = {}
  /\ \A c \in delayed : Alive(c) => Named(c) /\ c.pub /\ c.tree = request.work
  /\ \A i \in Published : Named(remote[i])
  /\ step = "returned" => receipt.status = "remote_confirmed"

\* Where the rebase may have put HEAD.
Aims ==
  /\ step \in Rebasing \ {"rehash"} => \A i \in Published : i > tracking
  /\ step = "verify" => head = receipt.sha \/ receipt.sha.base < tracking
  /\ step \in {"abort", "inspect"} =>
       head = receipt.sha \/ receipt.sha.base < tracking \/ head.base < tracking

Truthful ==
  \A r \in {receipt} \cup Range(stored) :
    r.status = "remote_confirmed" =>
      r.sha \in Commits /\ OnRemote(r.sha) /\ r.sha.tree = request.work

Ledger == Origin /\ Content /\ Phased /\ Recorded /\ Aims

LEMMA InitLedger == Init => Ledger /\ Truthful
<1> SUFFICES ASSUME Init PROVE Ledger /\ Truthful
  OBVIOUS
<1>1. Published = {}
  BY ConstantsAssumption DEF Init, Published, WellFormed
<1>2. Ledger
  BY <1>1 DEF Init, Ledger, Origin, Content, Phased, Recorded, Aims, Finished,
     BeforePush, Confirming, Rebasing
<1>3. Truthful
  BY DEF Init, Truthful, Range
<1> QED  BY <1>2, <1>3

\* A receipt is confirmed truthfully, and what is on the remote stays there.
LEMMA TruthfulKept ==
  ASSUME Inv, Truthful, UNCHANGED request, receipt' \in Receipts,
         \A c \in Commits : OnRemote(c) => OnRemote(c)',
         stored' = stored \/ stored' = Append(stored, receipt'),
         \/ receipt' = receipt
         \/ receipt'.status # "remote_confirmed"
         \/ (receipt.sha \in Commits /\ OnRemote(receipt.sha)
             /\ receipt.sha.tree = request.work)'
  PROVE  Truthful'
<1>1. stored \in Seq(Receipts) /\ receipt \in Receipts
  BY DEF Inv, TypeOK
<1>2. Range(stored') \subseteq Range(stored) \cup {receipt'}
  BY <1>1 DEF Range
<1>5. \A r \in Range(stored) \cup {receipt} :
        r.status = "remote_confirmed" =>
          r.sha \in Commits /\ OnRemote(r.sha)' /\ r.sha.tree = request.work
  BY DEF Truthful
<1>6. SUFFICES ASSUME NEW r \in Range(stored') \cup {receipt'},
                      r.status = "remote_confirmed"
               PROVE  r.sha \in Commits /\ OnRemote(r.sha)' /\ r.sha.tree = request'.work
  BY DEF Truthful
<1>7. CASE r \in Range(stored) \cup {receipt}
  BY <1>5, <1>6, <1>7
<1>8. CASE r = receipt'
  BY <1>5, <1>6, <1>8
<1> QED  BY <1>2, <1>6, <1>7, <1>8

\* record appends the receipt or ends the call, but for a confirmation.
LEMMA RecordStores ==
  ASSUME TypeOK, NEW r \in Receipts, NEW next \in Steps, Record(r, next)
  PROVE  /\ receipt' = r
         /\ \/ stored' = stored
               /\ step' = IF r.status = "remote_confirmed" THEN next ELSE "failed"
            \/ stored' = Append(stored, r) /\ stored' # <<>> /\ Last(stored') = r
               /\ step' = next
  BY DEF TypeOK, Record, Last

\* The remote as it was.
LEMMA RemoteSame ==
  ASSUME UNCHANGED <<remote>>
  PROVE  /\ Published' = Published
         /\ \A c : (OnRemote(c)' <=> OnRemote(c)) /\ (Alive(c)' <=> Alive(c))
  BY DEF Published, OnRemote, InHistory, Alive

\* A failure keeps what the last receipt names, or nothing is out there.
LEMMA Concluded ==
  ASSUME Inv, Ledger, UNCHANGED <<remote, delayed, request>>,
         step' \in {"failed", "crashed"},
         \/ stored' = stored
         \/ stored' # <<>> /\ Last(stored').sha = Last(stored).sha
         \/ Published = {} /\ \A c \in delayed : ~Alive(c),
         phase' = phase \/ phase' # "pre_commit"
  PROVE  Ledger'
<1>1. Origin' /\ Content' /\ Aims'
  BY DEF Origin, Content, Aims, Finished, Confirming, Rebasing
<1>2. Phased'
  BY RemoteSame DEF Ledger, Phased
<1>3. Recorded'
  BY RemoteSame DEF Ledger, Recorded, Confirming, Rebasing, BeforePush, Named
<1> QED  BY <1>1, <1>2, <1>3 DEF Ledger

-----------------------------------------------------------------------------
LEMMA PreflightLedger == ASSUME Inv, Ledger, Preflight PROVE Ledger'
<1>1. step = "preflight" /\ UNCHANGED <<remote, delayed, phase, clone, control, stored, receipt>>
  BY DEF Preflight, Goto, Fail
<1>2. CASE Fail
  BY <1>1, <1>2, Concluded DEF Fail, control
<1>3. CASE Acceptable /\ Goto("stage")
  <2>1. InHistory(initialHead, remote, tracking) /\ tracking <= Len(remote)
    BY <1>1, <1>3 DEF Acceptable, Inv, PushSafety, Chain
  <2>2. Origin'
    BY <1>1, <1>3, <2>1 DEF Goto, Origin, InHistory, clone, control, Finished
  <2>3. Content' /\ Aims'
    BY <1>3 DEF Goto, Content, Aims, Confirming, Rebasing
  <2>4. Phased' /\ Recorded'
    BY <1>1, <1>3, RemoteSame
    DEF Goto, Ledger, Phased, Recorded, Named, BeforePush, Confirming, Rebasing, control
  <2> QED  BY <2>2, <2>3, <2>4 DEF Ledger
<1> QED  BY <1>2, <1>3 DEF Preflight

LEMMA StageLedger == ASSUME Inv, Ledger, Stage PROVE Ledger'
<1>1. step = "stage" /\ UNCHANGED <<remote, delayed, phase, clone, request, initialHead,
                                    stored, receipt>>
  BY DEF Stage, Goto, Fail
<1>2. CASE Fail
  BY <1>1, <1>2, Concluded DEF Fail
<1>3. CASE Goto("commit") \/ Goto("stage")
  <2>1. step' \in {"stage", "commit"}
    BY <1>3 DEF Goto
  <2>2. Origin'
    BY <1>1, <2>1 DEF Ledger, Origin, InHistory, clone, Finished
  <2>3. Content' /\ Aims'
    BY <2>1 DEF Content, Aims, Confirming, Rebasing
  <2>4. Phased' /\ Recorded'
    BY <1>1, <2>1, RemoteSame
    DEF Ledger, Phased, Recorded, Named, BeforePush, Confirming, Rebasing
  <2> QED  BY <2>2, <2>3, <2>4 DEF Ledger
<1> QED  BY <1>2, <1>3 DEF Stage

LEMMA CommitLedger == ASSUME Inv, Ledger, Commit PROVE Ledger'
<1>1. step = "commit" /\ step' = "read_head" /\ head = initialHead
      /\ UNCHANGED <<remote, delayed, phase, tracking, request, initialHead, stored, receipt>>
  BY DEF Commit, Goto, Inv, PushSafety
<1>2. /\ \/ head' = initialHead
         \/ head' = CommitOn(initialHead) /\ request.work # initialHead.tree
      /\ commitOk' => head'.tree = request.work
  <2>1. CommitOn(head).tree = request.work
    BY DEF CommitOn
  <2>2. CASE head' = head /\ commitOk' = (request.work = head.tree)
    BY <1>1, <2>2
  <2>3. CASE head' = head /\ commitOk' = FALSE
    BY <1>1, <2>3
  <2>4. CASE request.work # head.tree /\ head' = CommitOn(head)
    BY <1>1, <2>1, <2>4
  <2> QED  BY <2>2, <2>3, <2>4 DEF Commit
<1>3. CommitOn(initialHead)' = CommitOn(initialHead)
  BY <1>1 DEF CommitOn
<1>4. Origin'
  BY <1>1, <1>2, <1>3 DEF Ledger, Origin, InHistory, Finished
<1>5. Content' /\ Aims'
  BY <1>1 DEF Content, Aims, Confirming, Rebasing
<1>6. Phased' /\ Recorded'
  BY <1>1, RemoteSame
  DEF Ledger, Phased, Recorded, Named, BeforePush, Confirming, Rebasing
<1> QED  BY <1>4, <1>5, <1>6 DEF Ledger

LEMMA ReadHeadLedger == ASSUME Inv, Ledger, ReadHead PROVE Ledger'
<1> DEFINE pending == [receipt EXCEPT !.sha = head, !.status = "pending"]
<1>1. step = "read_head" /\ UNCHANGED <<remote, delayed, clone, control>>
      /\ delayed = {} /\ Published = {}
  BY DEF ReadHead, Ledger, Recorded, BeforePush
<1>2. pending \in Receipts /\ pending.sha = head /\ pending.status = "pending"
  BY DEF Inv, TypeOK, Receipts, Statuses
<1> HIDE DEF pending
<1>3. CASE step' = "failed"
  BY <1>1, <1>3, Concluded DEF control, ReadHead, UnreadableHead
<1>4. CASE UnreadableHead
  <2>1. Unknown \in Receipts
    BY WithType DEF Inv, Unknown, Statuses
  <2>2. step' = "failed"
    BY <1>4, <2>1, RecordStep DEF UnreadableHead, Inv, Steps, Finished
  <2> QED  BY <1>3, <2>2
<1>5. CASE Committed /\ phase' = "post_commit" /\ Record(pending, "hash_content")
  <2>1. /\ receipt' = pending /\ step' \in {"hash_content", "failed"}
        /\ step' = "hash_content" => Named(head)'
    BY <1>1, <1>2, <1>5, RecordStores DEF Inv, Steps, Named, clone
  <2>2. SUFFICES ASSUME step' = "hash_content" PROVE Ledger'
    BY <1>3, <2>1
  <2>3. head.tree = request.work
    BY <1>1, <1>5 DEF Committed, CommitOn, Ledger, Origin
  <2>4. Origin'
    <3>1. CommitOn(initialHead)' = CommitOn(initialHead)
      BY <1>1 DEF CommitOn, control
    <3> QED  BY <1>1, <2>2, <3>1 DEF Ledger, Origin, InHistory, clone, control, Finished
  <2>5. Content'
    BY <1>1, <1>2, <2>1, <2>2, <2>3 DEF Content, clone, control, Confirming, Rebasing
  <2>6. Phased' /\ Aims'
    BY <1>5, <2>2 DEF Phased, Aims, Rebasing
  <2>7. Recorded'
    BY <1>1, <2>2, RemoteSame DEF Recorded, Confirming, Rebasing
  <2> QED  BY <2>4, <2>5, <2>6, <2>7 DEF Ledger
<1>6. CASE phase' = phase /\ Goto("stage")
  <2>1. Origin'
    BY <1>1, <1>6 DEF Goto, Ledger, Origin, InHistory, clone, control, Finished
  <2>2. Content' /\ Aims'
    BY <1>6 DEF Goto, Content, Aims, Confirming, Rebasing
  <2>3. Phased' /\ Recorded'
    BY <1>1, <1>6, RemoteSame DEF Goto, Ledger, Phased, Recorded, Confirming, Rebasing
  <2> QED  BY <2>1, <2>2, <2>3 DEF Ledger
<1> QED  BY <1>3, <1>4, <1>5, <1>6 DEF ReadHead, NextAttempt, Fail, pending

LEMMA HashContentLedger == ASSUME Inv, Ledger, HashContent PROVE Ledger'
<1> DEFINE hashed == [receipt EXCEPT !.content = receipt.sha.tree]
<1>1. /\ step = "hash_content" /\ delayed = {} /\ Published = {}
      /\ UNCHANGED <<remote, delayed, phase, clone, request, initialHead, commitOk,
                     aborted, attempts, observation, fetches>>
      /\ receipt.sha = head /\ receipt.sha.tree = request.work /\ receipt.status = "pending"
      /\ phase # "pre_commit"
  BY DEF HashContent, Ledger, Recorded, BeforePush, Content, Rebasing, Phased
<1>2. /\ receipt.sha \in Commits
      /\ hashed \in Receipts /\ hashed.sha = receipt.sha /\ hashed.status = receipt.status
  BY <1>1 DEF Inv, TypeOK, Counters, Receipts, Commits
<1> HIDE DEF hashed
<1>3. CASE step' = "failed"
  BY <1>1, <1>3, Concluded
<1>4. CASE contentHash' = receipt.sha.tree /\ Record(hashed, "push")
  <2>1. /\ receipt' = hashed /\ step' \in {"push", "failed"}
        /\ step' = "push" => Named(receipt.sha)'
    BY <1>1, <1>2, <1>4, RecordStores DEF Inv, Steps, Named
  <2>2. SUFFICES ASSUME step' = "push" PROVE Ledger'
    BY <1>3, <2>1
  <2>3. Origin'
    <3>1. CommitOn(initialHead)' = CommitOn(initialHead)
      BY <1>1 DEF CommitOn
    <3> QED  BY <1>1, <2>2, <3>1 DEF Ledger, Origin, InHistory, clone, Finished
  <2>4. Content'
    BY <1>1, <1>2, <1>4, <2>1, <2>2 DEF Content, clone, Confirming, Rebasing
  <2>5. Phased' /\ Aims'
    BY <1>1, <2>2 DEF Phased, Aims, Rebasing
  <2>6. Recorded'
    BY <1>1, <2>1, <2>2, RemoteSame DEF Recorded, Confirming, Rebasing, BeforePush
  <2> QED  BY <2>3, <2>4, <2>5, <2>6 DEF Ledger
<1> QED  BY <1>3, <1>4 DEF HashContent, Fail, hashed

-----------------------------------------------------------------------------
\* What is named stays so while the remote grows: it takes the named commit,
\* or another writer's; and no commit comes back to life.
LEMMA Grown ==
  ASSUME Inv, Ledger, NEW c \in Commits, c.base = Len(remote),
         remote' = Append(remote, c), UNCHANGED <<request, tracking, initialHead>>
  PROVE  /\ \A d \in Commits : Alive(d)' => Alive(d)
         /\ \A d \in Commits : OnRemote(d) => OnRemote(d)'
         /\ Published' = IF c.pub THEN Published \cup {Len(remote) + 1} ELSE Published
         /\ \A i \in Published : remote'[i] = remote[i]
         /\ remote'[Len(remote) + 1] = c
         /\ InHistory(initialHead, remote, Len(remote))
              => InHistory(initialHead, remote, Len(remote))'
         /\ tracking <= Len(remote) /\ Len(remote) \in Nat
<1>1. /\ remote \in Seq(Commits) /\ Len(remote) \in Nat \ {0}
      /\ tracking \in 1..Len(remote)
  BY DEF Inv, TypeOK, Chain
<1>2. /\ Len(remote') = Len(remote) + 1
      /\ \A i \in 1..Len(remote) : remote'[i] = remote[i]
      /\ remote'[Len(remote) + 1] = c
  BY <1>1
<1>3. \A d \in Commits : Alive(d)' => Alive(d)
  BY <1>1, <1>2 DEF Alive, Commits
<1>4. Published' = IF c.pub THEN Published \cup {Len(remote) + 1} ELSE Published
  <2>1. DOMAIN remote = 1..Len(remote) /\ DOMAIN remote' = 1..Len(remote) \cup {Len(remote) + 1}
    BY <1>1, <1>2
  <2> QED  BY <1>1, <1>2, <2>1 DEF Published
<1>5. ASSUME NEW d \in Commits, OnRemote(d)
      PROVE  OnRemote(d)'
  <2>1. d.base \in Nat /\ d.base < Len(remote) /\ remote[d.base + 1] = d
    BY <1>5 DEF Commits, OnRemote, InHistory
  <2> QED  BY <1>1, <1>2, <2>1 DEF OnRemote, InHistory
<1>6. initialHead \in Commits
  BY DEF Inv, TypeOK
<1> QED  BY <1>1, <1>2, <1>3, <1>4, <1>5, <1>6 DEF OnRemote, Published

LEMMA NamedLands ==
  ASSUME Inv, Ledger, NEW c \in Commits, c.base = Len(remote),
         remote' = Append(remote, c),
         UNCHANGED <<delayed, stored, request, tracking, initialHead>>,
         c.pub => Named(c) /\ step \notin BeforePush /\ phase # "pre_commit"
  PROVE  /\ \A d \in delayed : Alive(d)' => Named(d)' /\ d.pub /\ d.tree = request.work
         /\ \A i \in Published' : Named(remote[i])'
         /\ step \in Rebasing \ {"rehash"} => \A i \in Published' : i > tracking
         /\ step \in BeforePush \/ phase = "pre_commit" => Published' = Published
<1>1. \A d \in delayed : d \in Commits /\ Named(d)' = Named(d)
  BY DEF Inv, TypeOK, Named
<1>2. \A d \in delayed : Alive(d)' => Named(d)' /\ d.pub /\ d.tree = request.work
  BY <1>1, Grown DEF Ledger, Recorded
<1>3. \A i \in Published' : Named(remote'[i])
  BY Grown DEF Ledger, Recorded
<1>4. \A i \in Published' : Named(remote[i])'
  BY <1>3 DEF Named
<1>5. step \in Rebasing \ {"rehash"} => \A i \in Published' : i > tracking
  <2>1. Len(remote) + 1 > tracking
    BY Grown DEF Inv, TypeOK
  <2> QED  BY <2>1, Grown DEF Ledger, Aims
<1> QED  BY <1>2, <1>4, <1>5, Grown

LEMMA EnvironmentLedger == ASSUME Inv, Ledger, OtherWriter \/ LatePush PROVE Ledger'
<1>1. UNCHANGED <<delayed, stored, step, phase, receipt, clone, control>>
  BY DEF OtherWriter, LatePush
<1>2. PICK c \in Commits :
        /\ c.base = Len(remote) /\ remote' = Append(remote, c)
        /\ c.pub => c \in delayed
  <2>1. CASE OtherWriter
    <3>1. PICK t \in OtherTrees :
            remote' = Append(remote, [base |-> Len(remote), tree |-> t, pub |-> FALSE])
      BY <2>1 DEF OtherWriter
    <3>2. [base |-> Len(remote), tree |-> t, pub |-> FALSE] \in Commits
      BY ConstantsAssumption DEF Commits, Inv, TypeOK
    <3> QED  BY <3>1, <3>2
  <2>2. CASE LatePush
    BY <2>2 DEF LatePush, FastForward, Inv, TypeOK
  <2> QED  BY <2>1, <2>2
<1>3. c.pub => Named(c) /\ step \notin BeforePush /\ phase # "pre_commit"
  <2>1. Alive(c)
    BY <1>2 DEF Alive, Inv, TypeOK
  <2> QED  BY <1>2, <2>1 DEF Ledger, Recorded, Phased
<1>4. /\ \A d \in delayed : Alive(d)' => Named(d)' /\ d.pub /\ d.tree = request.work
      /\ \A i \in Published' : Named(remote[i])'
      /\ step \in Rebasing \ {"rehash"} => \A i \in Published' : i > tracking
      /\ step \in BeforePush \/ phase = "pre_commit" => Published' = Published
  BY <1>1, <1>2, <1>3, NamedLands DEF clone, control
<1>5. InHistory(initialHead, remote, Len(remote)) => InHistory(initialHead, remote, Len(remote))'
  BY <1>1, <1>2, Grown DEF clone, control
<1>6. Origin'
  <2>1. CommitOn(initialHead)' = CommitOn(initialHead)
    BY <1>1 DEF CommitOn, control
  <2> QED  BY <1>1, <1>5, <2>1 DEF Ledger, Origin, clone, control
<1>7. Content'
  BY <1>1 DEF Ledger, Content, clone, control
<1>8. Phased'
  BY <1>1, <1>4 DEF Ledger, Phased
<1>9. Recorded'
  <2>1. \A d : Named(d)' <=> Named(d)
    BY <1>1 DEF Named
  <2> QED  BY <1>1, <1>4, <2>1 DEF Ledger, Recorded, control
<1>10. Aims'
  BY <1>1, <1>4 DEF Ledger, Aims, clone
<1> QED  BY <1>6, <1>7, <1>8, <1>9, <1>10 DEF Ledger

LEMMA PushLedger == ASSUME Inv, Ledger, Push PROVE Ledger'
<1>1. /\ step = "push" /\ UNCHANGED <<phase, clone, control, stored, receipt>>
      /\ receipt.sha = head /\ head \in Commits /\ head.tree = request.work /\ Named(head)
      /\ phase # "pre_commit" /\ SafeToPush(head)
      /\ step' \in {"observe", "failed"}
  BY DEF Push, Goto, Fail, Ledger, Content, Confirming, Recorded, Phased, Inv, TypeOK, PushSafety
<1>2. CASE step' = "failed"
  BY <1>1, <1>2, Concluded DEF Push, Goto, Fail, control
<1>3. CASE step' = "observe" /\ UNCHANGED remote
  <2>1. \/ delayed' = delayed
        \/ delayed' = delayed \cup {head} /\ FastForward(head)
    BY <1>3 DEF Push
  <2>2. FastForward(head) => head.pub
    BY <1>1 DEF FastForward, SafeToPush, Inv, TypeOK
  <2>3. \A c : Named(c)' <=> Named(c)
    BY <1>1 DEF Named
  <2>4. \A c \in delayed' : Alive(c)' => Named(c)' /\ c.pub /\ c.tree = request.work
    BY <1>1, <1>3, <2>1, <2>2, <2>3, RemoteSame DEF Ledger, Recorded
  <2>5. Origin'
    <3>1. CommitOn(initialHead)' = CommitOn(initialHead)
      BY <1>1 DEF CommitOn, control
    <3> QED  BY <1>1, <1>3, <3>1 DEF Ledger, Origin, InHistory, clone, control, Finished
  <2>6. Content'
    BY <1>1, <1>3 DEF Ledger, Content, clone, control, Confirming, Rebasing
  <2>7. Phased' /\ Aims'
    BY <1>1, <1>3 DEF Phased, Aims, Rebasing
  <2>8. Recorded'
    BY <1>1, <1>3, <2>3, <2>4, RemoteSame
    DEF Ledger, Recorded, Confirming, Rebasing, BeforePush, control
  <2> QED  BY <2>5, <2>6, <2>7, <2>8 DEF Ledger
<1>4. CASE FastForward(head) /\ remote' = Append(remote, head) /\ UNCHANGED delayed
           /\ step' = "observe"
  <2>1. head.base = Len(remote) /\ step \notin BeforePush
    BY <1>1, <1>4 DEF FastForward, BeforePush
  <2>2. /\ \A d \in delayed : Alive(d)' => Named(d)' /\ d.pub /\ d.tree = request.work
        /\ \A i \in Published' : Named(remote[i])'
    BY <1>1, <1>4, <2>1, NamedLands DEF clone, control
  <2>3. Origin'
    <3>1. CommitOn(initialHead)' = CommitOn(initialHead)
      BY <1>1 DEF CommitOn, control
    <3>2. InHistory(initialHead, remote, Len(remote)) => InHistory(initialHead, remote, Len(remote))'
      BY <1>1, <1>4, <2>1, Grown DEF clone, control
    <3> QED  BY <1>1, <1>4, <3>1, <3>2 DEF Ledger, Origin, clone, control, Finished
  <2>4. Content'
    BY <1>1, <1>4 DEF Ledger, Content, clone, control, Confirming, Rebasing
  <2>5. Phased' /\ Aims'
    BY <1>1, <1>4 DEF Phased, Aims, Rebasing
  <2>6. Recorded'
    <3>1. Named(receipt.sha)'
      BY <1>1 DEF Named
    <3> QED  BY <1>1, <1>4, <2>2, <3>1 DEF Recorded, Confirming, Rebasing, BeforePush, control
  <2> QED  BY <2>3, <2>4, <2>5, <2>6 DEF Ledger
<1> QED  BY <1>1, <1>2, <1>3, <1>4 DEF Push

-----------------------------------------------------------------------------
\* A commit that was published and is not the remote's cannot be the named one.
LEMMA NothingOut ==
  ASSUME Inv, Ledger, Named(receipt.sha), ~Present
  PROVE  Published = {}
<1> SUFFICES ASSUME NEW i \in Published PROVE FALSE
  OBVIOUS
<1>1. i \in 1..Len(remote) /\ remote[i] = receipt.sha /\ remote[i].base = i - 1
  BY DEF Ledger, Recorded, Named, Published, Inv, TypeOK, Chain
<1> QED  BY <1>1 DEF Present, OnRemote, InHistory, Inv, TypeOK

\* What an observation records is about the same commit.
LEMMA ObservedLedger ==
  ASSUME Inv, Ledger, step \in {"observe", "observe_again"}, NEW s \in Statuses, NEW next \in Steps,
         UNCHANGED <<remote, delayed, phase, head, request, initialHead, contentHash, observation>>,
         Record(With(s), next), tracking' \in {tracking, Len(remote)},
         next \in {"returned", "failed", "observe_again", "rebase"},
         next = "returned" => s = "remote_confirmed",
         next = "rebase" => ~Present /\ observation = 0 /\ step = "observe"
  PROVE  Ledger'
<1>1. With(s) \in Receipts /\ With(s).sha = receipt.sha /\ With(s).status = s
  BY WithType DEF Inv, TypeOK, With, Receipts
<1>2. receipt' = With(s) /\ step' \in {next, "failed"}
  BY <1>1, RecordStores DEF Inv
<1>3. receipt.sha = head /\ receipt.sha.tree = request.work /\ contentHash = request.work
      /\ Named(receipt.sha) /\ phase # "pre_commit"
  BY DEF Ledger, Content, Confirming, Recorded, Phased
<1>4. \/ stored' = stored
      \/ stored' # <<>> /\ Last(stored').sha = Last(stored).sha
  BY <1>1, <1>3, RecordStores DEF Inv, Named
<1>5. \A c : Named(c)' <=> Named(c)
  BY <1>3, <1>4 DEF Named
<1>6. CASE step' = "failed"
  BY <1>4, <1>6, Concluded
<1>7. CASE step' = next
  <2>1. tracking <= tracking' /\ tracking \in Nat /\ tracking' \in Nat
    BY DEF Inv, TypeOK, Chain
  <2>2. Origin'
    <3>1. CommitOn(initialHead)' = CommitOn(initialHead)
      BY DEF CommitOn
    <3>2. initialHead.base \in Nat
      BY DEF Inv, TypeOK, Commits
    <3> QED  BY <1>7, <2>1, <3>1, <3>2 DEF Ledger, Origin, InHistory, Finished
  <2>3. Content'
    BY <1>1, <1>2, <1>3, <1>7 DEF Content, Confirming, Rebasing
  <2>4. Phased'
    BY <1>3 DEF Phased
  <2>5. Recorded'
    BY <1>1, <1>2, <1>3, <1>5, <1>7, RemoteSame
    DEF Ledger, Recorded, Confirming, Rebasing, BeforePush
  <2>6. Aims'
    BY <1>3, <1>7, NothingOut, RemoteSame DEF Aims, Rebasing
  <2> QED  BY <2>2, <2>3, <2>4, <2>5, <2>6 DEF Ledger
<1> QED  BY <1>2, <1>6, <1>7

LEMMA ObserveLedger == ASSUME Inv, Ledger, Observe PROVE Ledger'
<1>1. /\ step = "observe" /\ tracking' \in {tracking, Len(remote)}
      /\ UNCHANGED <<remote, delayed, phase, head, request, initialHead, contentHash, observation>>
  BY DEF Observe, FetchFailed, Fetch
<1>2. /\ "outcome_unknown" \in Statuses /\ "remote_confirmed" \in Statuses
      /\ "definitely_unpublished" \in Statuses
      /\ {"observe_again", "failed", "returned", "rebase"} \subseteq Steps
  BY DEF Statuses, Steps, Finished
<1>3. CASE Record(Unknown, IF observation = 0 /\ Confirmations > 1
                           THEN "observe_again" ELSE "failed")
  BY <1>1, <1>2, <1>3, ObservedLedger DEF Unknown
<1>4. CASE Record(With("remote_confirmed"), "returned")
  BY <1>1, <1>2, <1>4, ObservedLedger
<1>5. CASE /\ ~Present
           /\ Record(With("definitely_unpublished"),
                     IF \/ remote[Len(remote)].tree.meta # request.baseline
                        \/ LastObservation
                     THEN "failed" ELSE "rebase")
  <2>1. CASE Record(With("definitely_unpublished"), "failed")
    BY <1>1, <1>2, <2>1, ObservedLedger
  <2>2. CASE Record(With("definitely_unpublished"), "rebase") /\ ~LastObservation
    <3>1. observation = 0
      BY <2>2, ConstantsAssumption DEF LastObservation, Confirmations, Inv, TypeOK
    <3> QED  BY <1>1, <1>2, <1>5, <2>2, <3>1, ObservedLedger
  <2> QED  BY <1>5, <2>1, <2>2
<1> QED  BY <1>3, <1>4, <1>5 DEF Observe

LEMMA ObserveAgainLedger == ASSUME Inv, Ledger, ObserveAgain PROVE Ledger'
<1>1. /\ step = "observe_again" /\ tracking' \in {tracking, Len(remote)}
      /\ UNCHANGED <<remote, delayed, phase, head, request, initialHead, contentHash, observation>>
  BY DEF ObserveAgain, FetchFailed, Fetch
<1>2. /\ "remote_confirmed" \in Statuses /\ "definitely_unpublished" \in Statuses
      /\ "failed" \in Steps /\ "returned" \in Steps
  BY DEF Statuses, Steps, Finished
<1>3. CASE Fail
  BY <1>1, <1>3, Concluded DEF Fail
<1>4. CASE Record(With("remote_confirmed"), "returned")
  BY <1>1, <1>2, <1>4, ObservedLedger
<1>5. CASE Record(With("definitely_unpublished"), "failed")
  BY <1>1, <1>2, <1>5, ObservedLedger
<1> QED  BY <1>3, <1>4, <1>5 DEF ObserveAgain

-----------------------------------------------------------------------------
\* Replayed on the parent it has, the commit is the commit it was.
LEMMA SameCommit ==
  ASSUME Inv, Ledger, step = "rebase", OneCommitAhead, receipt.sha.base >= tracking
  PROVE  Rebased = head
<1>1. /\ receipt.sha = head /\ head \in Commits /\ initialHead \in Commits
      /\ tracking \in 1..Len(remote) /\ remote[tracking].base = tracking - 1
      /\ InHistory(initialHead, remote, Len(remote)) /\ initialHead.base < tracking
  BY DEF Ledger, Content, Origin, Finished, Inv, TypeOK, Chain
<1>2. head.base = initialHead.base + 1 /\ initialHead.base \in Nat /\ tracking \in Nat
      /\ head.base \in Nat
  BY <1>1 DEF OneCommitAhead, Commits
<1>3. head.base = tracking /\ initialHead.base + 1 = tracking
  BY <1>1, <1>2
<1>4. Onto = initialHead
  BY <1>1, <1>3 DEF Onto, InHistory
<1>5. head = CommitOn(initialHead) /\ request.work # initialHead.tree
  BY <1>2 DEF Ledger, Origin
<1>6. head.pub /\ head.tree = request.work /\ head.tree \in Trees
  BY <1>1, <1>5 DEF CommitOn, Commits
<1> DEFINE tree == [p \in {"meta", "body"} |->
                      Merged(initialHead.tree[p], head.tree[p], Onto.tree[p])]
<1>7. \A p : Merged(initialHead.tree[p], head.tree[p], Onto.tree[p]) = head.tree[p]
  BY <1>4 DEF Merged
<1>8. tree = head.tree
  BY <1>6, <1>7 DEF Trees
<1>9. head = [base |-> tracking, tree |-> head.tree, pub |-> TRUE]
  BY <1>1, <1>3, <1>6 DEF Commits
<1> HIDE DEF tree
<1>10. Rebased = IF tree = Onto.tree THEN Onto
                 ELSE [base |-> tracking, tree |-> tree, pub |-> TRUE]
  BY DEF Rebased, tree
<1>11. tree # Onto.tree
  BY <1>4, <1>5, <1>6, <1>8
<1> QED  BY <1>8, <1>9, <1>10, <1>11

\* A step of the rebase that records nothing.
LEMMA Unrecorded ==
  ASSUME Inv, Ledger, step \in Rebasing,
         UNCHANGED <<remote, delayed, phase, tracking, request, initialHead, contentHash,
                     stored, receipt>>,
         step' \in {"abort", "inspect", "verify"},
         receipt.sha.tree = request.work, \A i \in Published : i > tracking,
         \/ head' = receipt.sha
         \/ receipt.sha.base < tracking
         \/ head'.base < tracking /\ step' # "verify"
  PROVE  Ledger'
<1>1. Origin'
  BY DEF Ledger, Origin, InHistory, Finished, Rebasing
<1>2. Content' /\ Phased'
  BY DEF Ledger, Content, Phased, Confirming, Rebasing
<1>3. Recorded'
  BY RemoteSame DEF Ledger, Recorded, Named, Confirming, Rebasing, BeforePush
<1>4. Aims'
  BY RemoteSame DEF Aims, Rebasing
<1> QED  BY <1>1, <1>2, <1>3, <1>4 DEF Ledger

LEMMA RebaseLedger == ASSUME Inv, Ledger, Rebase PROVE Ledger'
<1>1. /\ step = "rebase" /\ UNCHANGED <<remote, delayed, phase, control, stored, receipt>>
      /\ receipt.sha = head /\ head.tree = request.work
      /\ \A i \in Published : i > tracking
      /\ tracking \in 1..Len(remote) /\ remote[tracking].base = tracking - 1
      /\ head.base \in Nat
  BY DEF Rebase, Goto, Fail, Ledger, Content, Confirming, Rebasing, Aims, Inv, TypeOK, Chain, Commits
<1>2. CASE Fail /\ UNCHANGED clone
  BY <1>1, <1>2, Concluded DEF Fail, control
<1>3. CASE OneCommitAhead /\ head' = Rebased /\ UNCHANGED tracking
           /\ (Goto("verify") \/ Goto("abort"))
  <2>1. head' = receipt.sha \/ receipt.sha.base < tracking
    BY <1>1, <1>3, SameCommit DEF Inv, TypeOK
  <2> QED  BY <1>1, <1>3, <2>1, Unrecorded DEF Goto, Rebasing, control
<1>4. CASE head' = Onto /\ UNCHANGED tracking /\ Goto("abort")
  BY <1>1, <1>4, Unrecorded DEF Goto, Onto, Rebasing, control, Inv, TypeOK
<1>5. CASE UNCHANGED <<head, tracking>> /\ Goto("abort")
  BY <1>1, <1>5, Unrecorded DEF Goto, Rebasing, control
<1> QED  BY <1>2, <1>3, <1>4, <1>5 DEF Rebase

LEMMA AbortLedger == ASSUME Inv, Ledger, Abort PROVE Ledger'
<1>1. /\ step = "abort" /\ step' = "inspect" /\ head' \in {head, receipt.sha}
      /\ UNCHANGED <<remote, delayed, phase, tracking, request, initialHead, contentHash,
                     stored, receipt>>
  BY DEF Abort, Goto
<1>2. /\ receipt.sha.tree = request.work /\ \A i \in Published : i > tracking
      /\ head = receipt.sha \/ receipt.sha.base < tracking \/ head.base < tracking
  BY <1>1 DEF Ledger, Content, Aims, Rebasing, Confirming
<1> QED  BY <1>1, <1>2, Unrecorded DEF Rebasing

\* The old commit is dead and not published, so nothing needs its receipt.
LEMMA Forgotten ==
  ASSUME Inv, Ledger, step \in Rebasing \ {"rehash"}, receipt.sha.base < tracking
  PROVE  Published = {} /\ \A c \in delayed : ~Alive(c)
<1>1. Named(receipt.sha) /\ tracking \in 1..Len(remote)
  BY DEF Ledger, Recorded, Inv, Chain
<1>2. ASSUME NEW i \in Published PROVE FALSE
  <2>1. i \in 1..Len(remote) /\ i > tracking /\ remote[i] = receipt.sha /\ remote[i].base = i - 1
    BY <1>1, <1>2 DEF Ledger, Recorded, Aims, Named, Published, Inv, TypeOK, Chain
  <2> QED  BY <1>1, <2>1 DEF Inv, TypeOK
<1>3. ASSUME NEW c \in delayed, Alive(c) PROVE FALSE
  <2>1. c = receipt.sha /\ c.base \in Nat
    BY <1>1, <1>3 DEF Ledger, Recorded, Named, Inv, TypeOK, Commits
  <2> QED  BY <1>1, <1>3, <2>1 DEF Alive, Inv, TypeOK
<1> QED  BY <1>2, <1>3

LEMMA InspectLedger == ASSUME Inv, Ledger, Inspect PROVE Ledger'
<1> DEFINE kept == [sha |-> head, content |-> head.tree,
                    status |-> IF aborted THEN "pending" ELSE "outcome_unknown"]
<1>1. /\ step = "inspect" /\ UNCHANGED <<remote, delayed, phase, clone, control>>
      /\ Named(receipt.sha)
  BY DEF Inspect, Ledger, Recorded, Rebasing
<1>2. /\ Unknown \in Receipts /\ Unknown.sha = receipt.sha /\ Unknown.status # "remote_confirmed"
      /\ kept \in Receipts /\ kept.status # "remote_confirmed" /\ "failed" \in Steps
  BY WithType DEF Inv, TypeOK, Unknown, With, Statuses, Receipts, Commits, Steps, Finished
<1> HIDE DEF kept
<1>3. CASE Record(Unknown, "failed")
  <2>1. step' = "failed" /\ (stored' = stored \/ (stored' # <<>> /\ Last(stored').sha = receipt.sha))
    BY <1>2, <1>3, RecordStores DEF Inv
  <2> QED  BY <1>1, <2>1, Concluded DEF Named, control
<1>4. CASE Fail
  BY <1>1, <1>4, Concluded DEF Fail, control
<1>5. CASE head # receipt.sha /\ Recovered /\ Record(kept, "failed")
  <2>1. receipt.sha.base < tracking
    BY <1>1, <1>5 DEF Recovered, Ledger, Aims, Inv, TypeOK
  <2>2. step' = "failed"
    BY <1>2, <1>5, RecordStores DEF Inv
  <2> QED  BY <1>1, <2>1, <2>2, Forgotten, Concluded DEF Rebasing, control
<1> QED  BY <1>3, <1>4, <1>5 DEF Inspect, kept

LEMMA VerifyLedger == ASSUME Inv, Ledger, Verify PROVE Ledger'
<1>1. /\ step = "verify" /\ UNCHANGED <<remote, delayed, phase, clone, control>>
      /\ Named(receipt.sha) /\ phase # "pre_commit" /\ contentHash = request.work
  BY DEF Verify, Ledger, Recorded, Rebasing, Phased, Content
<1>2. NewSha \in Receipts /\ NewSha.sha = head /\ NewSha.status = "pending" /\ "rehash" \in Steps
  BY DEF Inv, TypeOK, NewSha, Receipts, Statuses, Steps
<1>3. \/ head = receipt.sha
      \/ Published = {} /\ \A c \in delayed : ~Alive(c)
  BY <1>1, Forgotten DEF Ledger, Aims, Rebasing
<1>4. CASE Fail
  BY <1>1, <1>4, Concluded DEF Fail, control
<1>5. CASE Record(NewSha, "rehash")
  <2>1. CASE stored' = stored /\ step' = "failed"
    BY <1>1, <2>1, Concluded DEF control
  <2>2. CASE stored' # <<>> /\ Last(stored').sha = head /\ step' = "rehash" /\ receipt' = NewSha
    <3>1. Origin'
      BY <1>1, <2>2 DEF Ledger, Origin, InHistory, clone, control, Finished
    <3>2. Content' /\ Phased'
      BY <1>1, <1>2, <2>2 DEF Content, Phased, clone, control, Confirming, Rebasing
    <3>3. head = receipt.sha => \A c : Named(c)' <=> Named(c)
      BY <1>1, <2>2 DEF Named
    <3>4. Named(receipt.sha)'
      BY <1>2, <2>2 DEF Named
    <3>5. Recorded'
      BY <1>1, <1>3, <2>2, <3>3, <3>4, RemoteSame
      DEF Ledger, Recorded, Confirming, Rebasing, BeforePush, control
    <3>6. Aims'
      BY <2>2 DEF Aims
    <3> QED  BY <3>1, <3>2, <3>5, <3>6 DEF Ledger
  <2> QED  BY <1>2, <1>5, <2>1, <2>2, RecordStores DEF Inv
<1> QED  BY <1>4, <1>5 DEF Verify

LEMMA RehashLedger == ASSUME Inv, Ledger, Rehash PROVE Ledger'
<1> DEFINE hashed == [receipt EXCEPT !.content = head.tree]
<1>1. /\ step = "rehash"
      /\ UNCHANGED <<remote, delayed, phase, clone, request, initialHead, commitOk,
                     contentHash, aborted, fetches>>
      /\ receipt.sha = head /\ receipt.status = "pending" /\ contentHash = request.work
      /\ Named(receipt.sha) /\ phase # "pre_commit"
  BY DEF Rehash, Ledger, Content, Recorded, Rebasing, Phased
<1>2. hashed \in Receipts /\ hashed.sha = receipt.sha /\ hashed.status = "pending"
      /\ "push" \in Steps /\ "failed" \in Steps
  BY <1>1 DEF Inv, TypeOK, Receipts, Commits, Steps, Finished
<1> HIDE DEF hashed
<1>3. CASE Fail
  BY <1>1, <1>3, Concluded DEF Fail
<1>4. ASSUME NEW next \in {"push", "failed"}, Record(hashed, next)
      PROVE  /\ receipt' = hashed /\ step' \in {next, "failed"}
             /\ stored' = stored \/ (stored' # <<>> /\ Last(stored').sha = receipt.sha)
             /\ \A c : Named(c)' <=> Named(c)
  <2>1. /\ receipt' = hashed /\ step' \in {next, "failed"}
        /\ stored' = stored \/ (stored' # <<>> /\ Last(stored').sha = receipt.sha)
    BY <1>1, <1>2, <1>4, RecordStores DEF Inv
  <2> QED  BY <1>1, <2>1 DEF Named
<1>5. CASE Record(hashed, "failed")
  BY <1>1, <1>4, <1>5, Concluded DEF Named
<1>6. CASE Preserved /\ Record(hashed, "push") /\ observation' = observation + 1
  <2>1. CASE step' = "failed"
    BY <1>1, <1>4, <1>6, <2>1, Concluded DEF Named
  <2>2. CASE step' = "push"
    <3>1. observation' # 0
      BY <1>6 DEF Inv, TypeOK
    <3>2. Origin'
      BY <1>1, <2>2, <3>1 DEF Ledger, Origin, InHistory, clone, Finished
    <3>3. receipt'.sha = head /\ head.tree = request.work
      BY <1>1, <1>2, <1>4, <1>6 DEF Preserved
    <3>4. Content' /\ Phased' /\ Aims'
      BY <1>1, <2>2, <3>3 DEF Content, Phased, Aims, clone, Confirming, Rebasing
    <3>5. Recorded'
      BY <1>1, <1>4, <1>6, <2>2, <3>3, RemoteSame
      DEF Ledger, Recorded, Confirming, Rebasing, BeforePush
    <3> QED  BY <3>2, <3>4, <3>5 DEF Ledger
  <2> QED  BY <1>4, <1>6, <2>1, <2>2
<1> QED  BY <1>3, <1>5, <1>6 DEF Rehash, hashed

LEMMA CrashLedger == ASSUME Inv, Ledger, Crash \/ UNCHANGED vars PROVE Ledger'
<1>1. CASE Crash
  BY <1>1, Concluded DEF Crash, control
<1>2. CASE UNCHANGED vars
  <2>1. Origin' /\ Content'
    BY <1>2 DEF vars, clone, control, Ledger, Origin, Content, InHistory, CommitOn
  <2>2. Phased' /\ Recorded' /\ Aims'
    BY <1>2, RemoteSame DEF vars, clone, control, Ledger, Phased, Recorded, Aims, Named
  <2> QED  BY <2>1, <2>2 DEF Ledger
<1> QED  BY <1>1, <1>2

LEMMA LedgerStep == Inv /\ Ledger /\ [Next]_vars => Ledger'
BY PreflightLedger, StageLedger, CommitLedger, ReadHeadLedger, HashContentLedger, PushLedger,
   ObserveLedger, ObserveAgainLedger, RebaseLedger, AbortLedger, InspectLedger, VerifyLedger,
   RehashLedger, EnvironmentLedger, CrashLedger
DEF Next, Publisher

-----------------------------------------------------------------------------
(* Only an observation that found the commit on the remote confirms it.      *)

\* Other commits join the remote behind the ones it has.
LEMMA Lasting ==
  ASSUME Inv, Ledger, [Next]_vars
  PROVE  \A c \in Commits : OnRemote(c) => OnRemote(c)'
<1>1. \/ UNCHANGED remote
      \/ Push \/ OtherWriter \/ LatePush
  BY DEF Next, Publisher, Preflight, Stage, Commit, ReadHead, HashContent, Observe, ObserveAgain,
     Rebase, Abort, Inspect, Verify, Rehash, Crash, vars
<1>2. CASE UNCHANGED remote
  BY <1>2, RemoteSame
<1>3. CASE Push /\ ~UNCHANGED remote
  <2>1. /\ head \in Commits /\ head.base = Len(remote) /\ remote' = Append(remote, head)
        /\ UNCHANGED <<request, tracking, initialHead>>
    BY <1>3 DEF Push, FastForward, clone, control, Inv, TypeOK
  <2> QED  BY <2>1, Grown
<1>4. CASE OtherWriter
  <2>1. PICK t \in OtherTrees :
          remote' = Append(remote, [base |-> Len(remote), tree |-> t, pub |-> FALSE])
    BY <1>4 DEF OtherWriter
  <2>2. [base |-> Len(remote), tree |-> t, pub |-> FALSE] \in Commits
    BY ConstantsAssumption DEF Commits, Inv, TypeOK
  <2>3. UNCHANGED <<request, tracking, initialHead>>
    BY <1>4 DEF OtherWriter, clone, control
  <2> QED  BY <2>1, <2>2, <2>3, Grown
<1>5. CASE LatePush
  <2>1. PICK c \in delayed : c.base = Len(remote) /\ remote' = Append(remote, c)
    BY <1>5 DEF LatePush, FastForward
  <2>2. c \in Commits /\ UNCHANGED <<request, tracking, initialHead>>
    BY <1>5 DEF LatePush, clone, control, Inv, TypeOK
  <2> QED  BY <2>1, <2>2, Grown
<1> QED  BY <1>1, <1>2, <1>3, <1>4, <1>5

\* What is recorded is the receipt the call holds next.
LEMMA Stores ==
  ASSUME [Next]_vars
  PROVE  /\ UNCHANGED request
         /\ stored' = stored \/ stored' = Append(stored, receipt')
  BY DEF Next, Publisher, Preflight, Stage, NextAttempt, Commit, ReadHead, UnreadableHead,
     HashContent, Push, Observe, ObserveAgain, Rebase, Abort, Inspect, Verify, Rehash, Crash,
     OtherWriter, LatePush, Record, Goto, Fail, vars, control

\* A receipt becomes "remote_confirmed" in an observation that finds it.
LEMMA Confirms ==
  ASSUME Inv, Ledger, [Next]_vars
  PROVE  \/ receipt' = receipt
         \/ receipt'.status # "remote_confirmed"
         \/ (receipt.sha \in Commits /\ OnRemote(receipt.sha)
             /\ receipt.sha.tree = request.work)'
<1>0. receipt \in Receipts
  BY DEF Inv, TypeOK
<1>1. CASE Observe \/ ObserveAgain
  <2>1. /\ step \in Confirming /\ UNCHANGED <<remote, request>>
        /\ \/ receipt' = receipt
           \/ receipt' = Unknown
           \/ receipt' = With("definitely_unpublished")
           \/ Present /\ receipt' = With("remote_confirmed")
    BY <1>1 DEF Observe, ObserveAgain, Confirming, Record, Fail
  <2>2. /\ Unknown.status # "remote_confirmed"
        /\ With("definitely_unpublished").status # "remote_confirmed"
        /\ With("remote_confirmed").sha = receipt.sha
    BY <1>0 DEF Unknown, With, Receipts
  <2>3. receipt.sha \in Commits /\ receipt.sha.tree = request.work
    BY <2>1 DEF Confirming, Inv, Counters, Ledger, Content
  <2> QED  BY <2>1, <2>2, <2>3 DEF Present, OnRemote
<1>2. CASE ReadHead
  <2>1. \/ receipt' = receipt
        \/ receipt' = Unknown
        \/ receipt' = [receipt EXCEPT !.sha = head, !.status = "pending"]
    BY <1>2 DEF ReadHead, UnreadableHead, Record, NextAttempt, Fail, Goto
  <2> QED  BY <1>0, <2>1 DEF Unknown, With, Receipts
<1>3. CASE HashContent \/ Rehash
  <2>1. /\ receipt.status = "pending"
        /\ \/ receipt' = receipt
           \/ receipt' = [receipt EXCEPT !.content = receipt.sha.tree]
           \/ receipt' = [receipt EXCEPT !.content = head.tree]
    BY <1>3 DEF HashContent, Rehash, Record, Fail, Ledger, Content
  <2> QED  BY <1>0, <2>1 DEF Receipts
<1>4. CASE Inspect \/ Verify
  <2>1. \/ receipt' = receipt
        \/ receipt' = Unknown
        \/ receipt' = NewSha
        \/ receipt' = [sha |-> head, content |-> head.tree,
                       status |-> IF aborted THEN "pending" ELSE "outcome_unknown"]
    BY <1>4 DEF Inspect, Verify, Record, Fail
  <2> QED  BY <1>0, <2>1 DEF Unknown, With, NewSha, Receipts
<1>5. CASE Preflight \/ Stage \/ Commit \/ Push \/ Rebase \/ Abort \/ OtherWriter \/ LatePush
            \/ Crash \/ UNCHANGED vars
  BY <1>5 DEF Preflight, Stage, Commit, Push, Rebase, Abort, OtherWriter, LatePush, Crash, vars,
     Goto, Fail
<1> QED  BY <1>1, <1>2, <1>3, <1>4, <1>5 DEF Next, Publisher

LEMMA TruthfulStep == Inv /\ Ledger /\ Truthful /\ [Next]_vars => Truthful'
<1> SUFFICES ASSUME Inv, Ledger, Truthful, [Next]_vars PROVE Truthful'
  OBVIOUS
<1>1. receipt' \in Receipts
  BY StepInv DEF Inv, TypeOK
<1> QED  BY <1>1, Lasting, Stores, Confirms, TruthfulKept

\* What the next three theorems rest on.
LEMMA LedgerAlways == Spec => [](Inv /\ Ledger /\ Truthful)
BY InitInv, InitLedger, StepInv, LedgerStep, TruthfulStep, PTL DEF Spec

\* A receipt that says remote_confirmed tells the truth: the commit it names is
\* on the remote branch, with exactly the content of the working tree, whatever
\* was pushed, rebased or added by other writers in between.
THEOREM Confirmation == Spec => []ConfirmedIsPublished
<1>1. Truthful => ConfirmedIsPublished
  BY DEF Truthful, ConfirmedIsPublished
<1> QED  BY <1>1, LedgerAlways, PTL

\* At every moment at which the process may die, the receipt persisted last
\* names the publication the remote has, a late push included.
THEOREM Recording == Spec => []PublishedIsRecorded
<1>1. Ledger => PublishedIsRecorded
  BY DEF Ledger, Recorded, Named, PublishedIsRecorded
<1> QED  BY <1>1, LedgerAlways, PTL

-----------------------------------------------------------------------------
(* The call implements its contract, step by step.                           *)

LEMMA OutcomeIs ==
  /\ step \notin Finished => Outcome = "running"
  /\ step = "returned" => Outcome = "confirmed"
  /\ step = "failed" /\ phase = "pre_commit" => Outcome = "clean"
  /\ step = "crashed" \/ (step = "failed" /\ phase # "pre_commit") => Outcome = "retained"
  BY DEF Outcome, Finished

LEMMA OutcomeIsNext ==
  /\ step' \notin Finished => Outcome' = "running"
  /\ step' = "returned" => Outcome' = "confirmed"
  /\ step' = "failed" /\ phase' = "pre_commit" => Outcome' = "clean"
  /\ step' = "crashed" \/ (step' = "failed" /\ phase' # "pre_commit") => Outcome' = "retained"
  BY DEF Outcome, Finished

LEMMA ContractInit == Init => Contract!Init
<1> SUFFICES ASSUME Init PROVE Contract!Init
  OBVIOUS
<1>1. remote \in InitialRemotes /\ \A i \in DOMAIN remote : ~remote[i].pub
  BY ConstantsAssumption DEF Init, WellFormed
<1>2. Outcome = "running"
  BY OutcomeIs DEF Init, Finished
<1> QED  BY <1>1, <1>2 DEF Contract!Init

\* The publication that joins the branch is the first, and it is the whole one.
LEMMA Publishes ==
  ASSUME Inv, Ledger, NEW c \in Commits, c.base = Len(remote), Named(c),
         c.tree = request.work, SafeToPush(c), remote' = Append(remote, c),
         UNCHANGED <<request, Outcome>>, Outcome \in {"running", "retained"}
  PROVE  Contract!Publish
<1>1. c.pub /\ remote[Len(remote)].tree.meta = request.baseline
  BY DEF SafeToPush, Inv, TypeOK
<1>2. c = [base |-> Len(remote), tree |-> request.work, pub |-> TRUE]
  BY <1>1 DEF Commits
<1>3. ASSUME NEW i \in Published PROVE FALSE
  <2>1. i \in 1..Len(remote) /\ remote[i] = c /\ remote[i].base = i - 1
    BY <1>3 DEF Ledger, Recorded, Named, Published, Inv, TypeOK, Chain
  <2> QED  BY <2>1 DEF Inv, TypeOK
<1>4. Contract!Ours = {}
  BY <1>3 DEF Contract!Ours, Published
<1> QED  BY <1>1, <1>2, <1>4 DEF Contract!Publish, Contract!Commit

\* The call ends, or goes on, while the branch stays what it is.
LEMMA Finishes ==
  ASSUME Inv, Ledger', Truthful', step \notin Finished, step' \in Steps,
         UNCHANGED <<remote, request>>
  PROVE  Contract!Finish \/ UNCHANGED Contract!vars
<1>1. Outcome = "running"
  BY OutcomeIs
<1>2. CASE step' \notin Finished
  BY <1>1, <1>2, OutcomeIsNext DEF Contract!vars
<1>3. CASE step' = "returned"
  <2>1. receipt'.status = "remote_confirmed"
    BY <1>3 DEF Ledger, Recorded
  <2>2. receipt'.sha \in Commits /\ OnRemote(receipt.sha)' /\ receipt'.sha.tree = request.work
    BY <2>1 DEF Truthful
  <2>3. \E i \in DOMAIN remote : remote[i].tree = request.work
    <3>1. remote \in Seq(Commits)
      BY DEF Inv, TypeOK
    <3> QED  BY <2>2, <3>1 DEF OnRemote, InHistory, Commits
  <2> QED  BY <1>1, <1>3, <2>3, OutcomeIsNext DEF Contract!Finish
<1>4. CASE step' = "failed" /\ phase' = "pre_commit"
  <2>1. Contract!Ours = {}
    BY <1>4 DEF Ledger, Phased, Published, Contract!Ours
  <2> QED  BY <1>1, <1>4, <2>1, OutcomeIsNext DEF Contract!Finish
<1>5. CASE step' = "crashed" \/ (step' = "failed" /\ phase' # "pre_commit")
  BY <1>1, <1>5, OutcomeIsNext DEF Contract!Finish
<1> QED  BY <1>2, <1>3, <1>4, <1>5 DEF Finished

LEMMA ContractStep ==
  ASSUME Inv, Ledger, Truthful, Inv', Ledger', Truthful', [Next]_vars
  PROVE  [Contract!Next]_(Contract!vars)
<1>1. CASE Preflight \/ Stage \/ Commit \/ ReadHead \/ HashContent \/ Observe \/ ObserveAgain
           \/ Rebase \/ Abort \/ Inspect \/ Verify \/ Rehash \/ Crash
  <2>1. step \notin Finished /\ UNCHANGED <<remote, request>>
    BY <1>1 DEF Preflight, Stage, Commit, ReadHead, HashContent, Observe, ObserveAgain, Rebase,
       Abort, Inspect, Verify, Rehash, Crash, Finished, control
  <2>2. step' \in Steps
    BY DEF Inv, TypeOK
  <2> QED  BY <2>1, <2>2, Finishes DEF Contract!Next
<1>2. CASE Push
  <2>1. /\ step = "push" /\ UNCHANGED request /\ step' \in {"observe", "failed"}
        /\ receipt.sha = head /\ head.tree = request.work /\ Named(head) /\ head \in Commits
        /\ SafeToPush(head)
    BY <1>2 DEF Push, Goto, Fail, control, Ledger, Content, Recorded, Confirming, Inv, TypeOK,
       PushSafety
  <2>2. CASE UNCHANGED remote
    BY <2>1, <2>2, Finishes DEF Contract!Next, Finished, Steps
  <2>3. CASE FastForward(head) /\ remote' = Append(remote, head) /\ step' = "observe"
    <3>1. Outcome = "running" /\ Outcome' = "running"
      BY <2>1, <2>3, OutcomeIs, OutcomeIsNext DEF Finished
    <3> QED  BY <2>1, <2>3, <3>1, Publishes DEF Contract!Next, FastForward
  <2> QED  BY <1>2, <2>1, <2>2, <2>3 DEF Push, Goto, Fail
<1>3. CASE OtherWriter
  <2>1. PICK t \in OtherTrees :
          remote' = Append(remote, [base |-> Len(remote), tree |-> t, pub |-> FALSE])
    BY <1>3 DEF OtherWriter
  <2>2. UNCHANGED <<request, Outcome>>
    BY <1>3 DEF OtherWriter, control, Outcome
  <2>3. t \in Trees
    BY ConstantsAssumption
  <2> QED  BY <2>1, <2>2, <2>3 DEF Contract!Next, Contract!Extend, Contract!Commit
<1>4. CASE LatePush
  <2>1. PICK c \in delayed : c.base = Len(remote) /\ remote' = Append(remote, c)
    BY <1>4 DEF LatePush, FastForward
  <2>2. UNCHANGED <<request, Outcome>>
    BY <1>4 DEF LatePush, control, Outcome
  <2>3. c \in Commits /\ Alive(c) /\ Named(c) /\ c.tree = request.work /\ SafeToPush(c)
    BY <2>1 DEF Inv, TypeOK, Alive, Ledger, Recorded, PushSafety
  <2>4. step # "returned"
    <3> SUFFICES ASSUME step = "returned" PROVE FALSE
      OBVIOUS
    <3>1. c = receipt.sha /\ OnRemote(receipt.sha)
      BY <2>3 DEF Ledger, Recorded, Named, Truthful
    <3> QED  BY <2>1, <2>3, <3>1 DEF OnRemote, InHistory, Inv, TypeOK
  <2>5. phase # "pre_commit" /\ step \in Steps
    BY DEF Ledger, Phased, Inv, TypeOK
  <2>6. Outcome \in {"running", "retained"}
    BY <2>4, <2>5, OutcomeIs DEF Finished
  <2> QED  BY <2>1, <2>2, <2>3, <2>6, Publishes DEF Contract!Next
<1>5. CASE UNCHANGED vars
  BY <1>5 DEF vars, control, Contract!vars, Outcome
<1> QED  BY <1>1, <1>2, <1>3, <1>4, <1>5 DEF Next, Publisher

\* publish_with_receipt implements its contract for every history of the
\* remote, every number of other writers and of retries: the publication joins
\* the branch at most once, whole and on its own baseline, and "confirmed",
\* "clean" and "retained" mean what the caller takes them for, then and later.
THEOREM Refinement == Spec => MeetsContract
<1>1. Inv /\ Ledger /\ Truthful /\ Inv' /\ Ledger' /\ Truthful' /\ [Next]_vars
        => [Contract!Next]_(Contract!vars)
  BY ContractStep
<1> QED  BY <1>1, ContractInit, LedgerAlways, PTL DEF Spec, MeetsContract, Contract!Spec
=============================================================================
