---------------------------- MODULE OutboundProofs ----------------------------
(***************************************************************************)
(* From the files on disk to main and the chat.                               *)
(*                                                                            *)
(* First, that main contains the commit once and nothing is announced before, *)
(* for any number of attempts, retries and other jobs: the commit is either   *)
(* still local, and main does not contain it, or it is on main, once.  That   *)
(* each attempt that failed was caused; that only a lost answer sends the     *)
(* briefing twice; and that no alert the run owes is left untried.            *)
(*                                                                            *)
(* Second, that the publish stage puts every file back or commits all, for    *)
(* every set of files.                                                        *)
(***************************************************************************)
EXTENDS Outbound, PublishStage, FiniteSetTheorems, TLAPS

GitTypeOK ==
  /\ remote \in Seq({"ours", "other"})
  /\ unpushed \in {0, 1} /\ committed \in BOOLEAN

\* Where the commit is.
Whereabouts ==
  /\ ~committed => unpushed = 0 /\ OursAt = {}
  /\ unpushed = 1 => OursAt = {}
  /\ committed /\ unpushed = 0 => \E i \in DOMAIN remote : OursAt = {i}
  /\ step = "push" => committed
  /\ step = "ok" => committed /\ unpushed = 0

\* No dispatch carries the briefing before the push has succeeded.
Silence ==
  /\ copies \in [Messages -> Nat]
  /\ call # Idle => call \in Dispatches
  /\ OursAt = {} => /\ copies["briefing"] = 0
                    /\ call # Idle => call.message # "briefing"

Inv == GitTypeOK /\ Whereabouts /\ Silence

-----------------------------------------------------------------------------
LEMMA InitInv == Init => Inv
<1> SUFFICES ASSUME Init PROVE Inv
  OBVIOUS
<1>1. remote \in Seq({"ours", "other"}) /\ OursAt = {}
  BY DEF Init, GitInit, OursAt
<1>2. GitTypeOK /\ Whereabouts
  BY <1>1 DEF Init, GitInit, GitTypeOK, Whereabouts
<1>3. Silence
  BY OutboundAssumption DEF Init, DeliveryInit, Silence
<1> QED
  BY <1>2, <1>3 DEF Inv

\* Only a push of the commit itself changes which positions are ours.
LEMMA AdvanceKeeps ==
  ASSUME GitTypeOK, Advance
  PROVE  OursAt' = OursAt /\ remote' \in Seq({"ours", "other"}) /\ Len(remote') = Len(remote) + 1
  BY DEF GitTypeOK, Advance, OursAt

LEMMA PushAdds ==
  ASSUME GitTypeOK, remote' = remote \o Ours
  PROVE  /\ remote' \in Seq({"ours", "other"})
         /\ unpushed = 0 => remote' = remote
         /\ unpushed = 1 => OursAt' = OursAt \cup {Len(remote) + 1}
                            /\ Len(remote) + 1 \in DOMAIN remote'
<1>1. Ours \in Seq({"ours", "other"}) /\ Len(Ours) = unpushed
  BY DEF GitTypeOK, Ours
<1>2. CASE unpushed = 0
  <2>1. Ours = <<>>
    BY <1>1, <1>2
  <2> QED
    BY <1>2, <2>1 DEF GitTypeOK
<1>3. CASE unpushed = 1
  <2>1. Ours[1] = "ours" /\ Len(remote') = Len(remote) + 1
    BY <1>1, <1>3 DEF GitTypeOK, Ours
  <2>2. /\ \A i \in 1..Len(remote) : remote'[i] = remote[i]
        /\ remote'[Len(remote) + 1] = "ours"
    BY <1>1, <1>3, <2>1 DEF GitTypeOK
  <2>3. /\ remote' \in Seq({"ours", "other"})
        /\ DOMAIN remote = 1..Len(remote) /\ DOMAIN remote' = 1..(Len(remote) + 1)
    BY <2>1, <1>1 DEF GitTypeOK
  <2>4. Len(remote) \in Nat
    BY DEF GitTypeOK
  <2>5. OursAt' = OursAt \cup {Len(remote) + 1}
    BY <2>2, <2>3, <2>4 DEF OursAt
  <2> QED
    BY <1>3, <2>3, <2>4, <2>5
<1> QED
  BY <1>2, <1>3 DEF GitTypeOK

-----------------------------------------------------------------------------
LEMMA GitKeeps ==
  ASSUME GitTypeOK, Whereabouts, GitNext
  PROVE  GitTypeOK' /\ Whereabouts' /\ (OursAt' = {} => OursAt = {})
<1> USE DEF GitTypeOK, Whereabouts, OursAt, NextAttempt, local
<1>1. CASE CommandFails
  BY <1>1 DEF CommandFails
<1>2. CASE Commit
  <2>1. remote' = remote /\ OursAt' = OursAt
    BY <1>2 DEF Commit
  <2>2. CASE ~committed
    <3>1. unpushed' = 1 /\ committed' = TRUE /\ step' = "push" /\ OursAt = {}
      BY <1>2, <2>2 DEF Commit, NeedsCommit
    <3> QED
      BY <2>1, <3>1
  <2>3. CASE committed
    <3>1. unpushed' = unpushed /\ committed' = committed /\ step' = "push"
      BY <1>2, <2>3 DEF Commit, NeedsCommit, NoopSucceeds, NoopContinues
    <3> QED
      BY <2>1, <2>3, <3>1
  <2> QED
    BY <2>2, <2>3
<1>3. CASE Push
  <2>1. OursAt' = {} => OursAt = {}
    BY <1>3, PushAdds DEF Push
  <2>2. \E i \in DOMAIN remote' : OursAt' = {i}
    <3>1. CASE unpushed = 0
      BY <1>3, <3>1, PushAdds DEF Push
    <3>2. CASE unpushed = 1
      BY <1>3, <3>2, PushAdds DEF Push
    <3> QED
      BY <3>1, <3>2
  <2>3. committed' /\ unpushed' = 0 /\ step' # "push"
    BY <1>3 DEF Push
  <2>4. remote' \in Seq({"ours", "other"})
    BY <1>3, PushAdds DEF Push
  <2> QED
    BY <2>1, <2>2, <2>3, <2>4
<1>4. CASE PushRejected
  BY <1>4 DEF PushRejected
<1>5. CASE Fetch
  BY <1>5 DEF Fetch
<1>6. CASE Rebase
  BY <1>6 DEF Rebase
<1>7. CASE RebaseFails
  BY <1>7 DEF RebaseFails
<1> QED
  BY <1>1, <1>2, <1>3, <1>4, <1>5, <1>6, <1>7 DEF GitNext

\* A step that leaves Git alone.
LEMMA GitIdle ==
  ASSUME GitTypeOK, Whereabouts, UNCHANGED gitVars
  PROVE  GitTypeOK' /\ Whereabouts' /\ OursAt' = OursAt
<1>1. remote' = remote /\ unpushed' = unpushed /\ committed' = committed /\ step' = step
  BY DEF gitVars, local
<1>2. OursAt' = OursAt
  BY <1>1 DEF OursAt
<1> QED
  BY <1>1, <1>2 DEF GitTypeOK, Whereabouts

\* dispatch of a message that may be sent.
LEMMA BeginKeeps ==
  ASSUME Silence, OursAt' = OursAt, NEW m \in Messages, Begin(m),
         OursAt # {} \/ m # "briefing"
  PROVE  Silence'
<1>1. call' \in Dispatches /\ call'.message = m
  BY DEF Begin, Dispatches, Answers
<1>2. copies' = copies
  BY DEF Begin
<1> QED
  BY <1>1, <1>2 DEF Silence

LEMMA DeliveryKeeps ==
  ASSUME Silence, OursAt' = OursAt, DeliveryNext
  PROVE  Silence'
<1>1. CASE Post
  <2>1. PICK last \in Answers : Outcome(last)
    <3>1. \/ Outcome("ok") \/ Outcome("refused") \/ Outcome("transient")
          \/ \E last \in {"transient", "refused", "unparsable"} : Outcome(last)
      BY <1>1 DEF Post, Answered, Garbled, TimedOut, Declined
    <3> QED
      BY <3>1 DEF Answers
  <2>2. call # Idle /\ call' = [call EXCEPT !.last = last]
    BY <2>1 DEF Outcome, Sending
  <2>3. call \in Dispatches
    BY <2>2 DEF Silence
  <2>4. call' \in Dispatches /\ call'.message = call.message
    BY <2>2, <2>3 DEF Dispatches
  <2>5. \/ copies' = copies
        \/ copies' = [copies EXCEPT ![call.message] = @ + 1]
    BY <1>1 DEF Post, Answered, Garbled, TimedOut, Declined, Delivered
  <2>6. copies' \in [Messages -> Nat]
    BY <2>5 DEF Silence
  <2>7. OursAt = {} => copies'["briefing"] = 0
    BY <2>2, <2>5, OutboundAssumption DEF Silence
  <2> QED
    BY <2>2, <2>4, <2>6, <2>7 DEF Silence
<1>2. CASE Retry \/ Fallback
  <2>1. call # Idle /\ copies' = copies
    BY <1>2 DEF Retry, Fallback, Sending
  <2>2. call \in Dispatches
    BY <2>1 DEF Silence
  <2>3. call' \in Dispatches /\ call'.message = call.message
    <3>0. call.attempt \in Nat /\ call = [message |-> call.message, mode |-> call.mode,
                                         attempt |-> call.attempt, last |-> call.last]
      BY <2>2 DEF Dispatches
    <3>1. CASE Retry
      <4>1. call' = [call EXCEPT !.attempt = call.attempt + 1, !.last = "none"]
        BY <3>1 DEF Retry
      <4>2. call' = [message |-> call.message, mode |-> call.mode,
                     attempt |-> call.attempt + 1, last |-> "none"]
        BY <2>2, <4>1 DEF Dispatches
      <4> QED
        BY <2>2, <3>0, <4>2 DEF Dispatches, Answers
    <3>2. CASE Fallback
      <4>1. call' = [call EXCEPT !.mode = "plain", !.attempt = 0, !.last = "none"]
        BY <3>2 DEF Fallback
      <4>2. call' = [message |-> call.message, mode |-> "plain", attempt |-> 0, last |-> "none"]
        BY <2>2, <4>1 DEF Dispatches
      <4> QED
        BY <2>2, <4>2 DEF Dispatches, Answers
    <3> QED
      BY <1>2, <3>1, <3>2
  <2> QED
    BY <2>1, <2>3 DEF Silence
<1> QED
  BY <1>1, <1>2 DEF DeliveryNext

\* One step per action.
LEMMA NextInv == Inv /\ [Next]_vars => Inv'
<1> SUFFICES ASSUME Inv, [Next]_vars PROVE Inv'
  OBVIOUS
<1> USE DEF Inv
<1>0. UNCHANGED gitVars => GitTypeOK' /\ Whereabouts' /\ OursAt' = OursAt
  BY GitIdle
<1>1. CASE AlertGenerate
  <2>1. UNCHANGED gitVars /\ Begin("generate")
    BY <1>1 DEF AlertGenerate
  <2> QED
    BY <1>0, <2>1, BeginKeeps, OutboundAssumption
<1>2. CASE StartPublish
  <2>1. UNCHANGED gitVars /\ UNCHANGED deliveryVars
    BY <1>2 DEF StartPublish
  <2> QED
    BY <1>0, <2>1 DEF deliveryVars, Silence
<1>3. CASE GitStep
  <2>1. GitTypeOK' /\ Whereabouts' /\ (OursAt' = {} => OursAt = {})
    BY <1>3, GitKeeps DEF GitStep
  <2> QED
    BY <1>3, <2>1 DEF GitStep, deliveryVars, Silence
<1>4. CASE Others
  <2>1. OursAt' = OursAt /\ remote' \in Seq({"ours", "other"}) /\ Len(remote') = Len(remote) + 1
    BY <1>4, AdvanceKeeps DEF Others
  <2>2. DOMAIN remote \subseteq DOMAIN remote'
    BY <2>1 DEF GitTypeOK
  <2>3. UNCHANGED <<local, step, deliveryVars>>
    BY <1>4 DEF Others, Advance
  <2>4. GitTypeOK' /\ Whereabouts'
    BY <2>1, <2>2, <2>3 DEF local, GitTypeOK, Whereabouts
  <2> QED
    BY <2>1, <2>3, <2>4 DEF deliveryVars, Silence
<1>5. CASE Announce
  <2>1. UNCHANGED gitVars /\ Begin("briefing") /\ step = "ok"
    BY <1>5 DEF Announce
  <2>2. OursAt # {}
    BY <2>1 DEF Whereabouts
  <2> QED
    BY <1>0, <2>1, <2>2, BeginKeeps, OutboundAssumption
<1>6. CASE PublishFailed \/ NotifyFailed
  <2>1. UNCHANGED gitVars /\ (Begin("publish") \/ Begin("notify"))
    BY <1>6 DEF PublishFailed, NotifyFailed, Owe
  <2> QED
    BY <1>0, <2>1, BeginKeeps, OutboundAssumption
<1>7. CASE DeliveryStep
  BY <1>0, <1>7, DeliveryKeeps DEF DeliveryStep
<1>8. CASE Sent \/ AlertGivenUp
  <2>1. UNCHANGED gitVars /\ call' = Idle /\ copies' = copies
    BY <1>8 DEF Sent, AlertGivenUp, Settle
  <2> QED
    BY <1>0, <2>1 DEF Silence
<1>9. CASE AlertAgain
  <2>1. UNCHANGED gitVars /\ Begin(call.message) /\ call # Idle
    BY <1>9 DEF AlertAgain, Returned, Sending
  <2>2. call.message \in Messages /\ (OursAt # {} \/ call.message # "briefing")
    BY <2>1 DEF Silence, Dispatches
  <2> QED
    BY <1>0, <2>1, <2>2, BeginKeeps
<1>10. CASE UNCHANGED vars
  <2>1. UNCHANGED gitVars /\ UNCHANGED deliveryVars
    BY <1>10 DEF vars
  <2> QED
    BY <1>0, <2>1 DEF deliveryVars, Silence
<1> QED
  BY <1>1, <1>2, <1>3, <1>4, <1>5, <1>6, <1>7, <1>8, <1>9, <1>10 DEF Next

LEMMA InvImplies == Inv => OnceOnMain /\ AnnouncedIsOnMain
<1> SUFFICES ASSUME Inv PROVE OnceOnMain /\ AnnouncedIsOnMain
  OBVIOUS
<1>1. OursAt = {} \/ \E i \in DOMAIN remote : OursAt = {i}
  BY DEF Inv, GitTypeOK, Whereabouts
<1>2. Cardinality(OursAt) \in {0, 1}
  <2>1. CASE OursAt = {}
    BY <2>1, FS_EmptySet
  <2>2. CASE \E i \in DOMAIN remote : OursAt = {i}
    BY <2>2, FS_Singleton
  <2> QED
    BY <1>1, <2>1, <2>2
<1> QED
  BY <1>2 DEF Inv, Silence, OnceOnMain, AnnouncedIsOnMain

LEMMA Always == Spec => []Inv
  BY InitInv, NextInv, PTL DEF Spec

\* For any number of attempts, of retries and of other jobs' commits, whatever
\* answers were lost and rebases failed: main contains the run's commit at most
\* once (commit_and_push).
THEOREM PushedOnce == Spec => []OnceOnMain
  BY Always, InvImplies, PTL

\* The chat hears of the documents only when main contains the commit
\* (NotifyStage).
THEOREM PushedFirst == Spec => []AnnouncedIsOnMain
  BY Always, InvImplies, PTL

-----------------------------------------------------------------------------
(* Each attempt but the first follows a command that failed or a rebase onto  *)
(* commits of others: what the branch already contains of main accounts for   *)
(* the rebases.                                                               *)
Effort ==
  /\ base \in Nat /\ fetched \in Nat /\ trouble \in Nat /\ attempt \in 1..Attempts
  /\ base <= Len(remote) /\ fetched <= Len(remote)
  /\ ~conflict =>
       /\ ~rebasing
       /\ attempt - 1 + (Len(remote) - base) <= trouble
       /\ step = "fetch" => base < Len(remote)
       /\ step = "rebase" => base < fetched
  /\ FailureIsCaused

LEMMA InitEffort == Init => Effort
  BY GitPushAssumption DEF Init, GitInit, Effort, FailureIsCaused

\* An attempt ends in the next one or, after the last one, in failure.
LEMMA AttemptEnds ==
  ASSUME attempt \in 1..Attempts, NextAttempt
  PROVE  /\ attempt' \in 1..Attempts
         /\ \/ step' = "commit" /\ attempt' = attempt + 1
            \/ step' = "failed" /\ attempt' = attempt /\ attempt = Attempts
  BY GitPushAssumption DEF NextAttempt

LEMMA EffortStep == Inv /\ Effort /\ (GitNext \/ Advance) => Effort'
<1> SUFFICES ASSUME GitTypeOK, Effort, GitNext \/ Advance PROVE Effort'
  BY DEF Inv
<1>0. Len(remote) \in Nat /\ Attempts \in Nat /\ attempt \in Nat
  BY GitPushAssumption DEF GitTypeOK, Effort
<1>1. CASE Advance
  <2>1. Len(remote') = Len(remote) + 1 /\ trouble' = trouble + 1
        /\ UNCHANGED <<base, fetched, rebasing, attempt, step, conflict>>
    BY <1>1, AdvanceKeeps DEF Advance, local
  <2> QED
    BY <1>0, <2>1 DEF Effort, FailureIsCaused
<1>2. CASE CommandFails
  <2>1. trouble' = trouble + 1 /\ NextAttempt
        /\ UNCHANGED <<remote, base, fetched, rebasing, conflict>>
    BY <1>2 DEF CommandFails, local
  <2> QED
    BY <1>0, <2>1, AttemptEnds DEF Effort, FailureIsCaused
<1>3. CASE Commit
  <2>1. step' = "push" /\ UNCHANGED <<remote, base, fetched, rebasing, attempt, trouble, conflict>>
    BY <1>3 DEF Commit, NoopSucceeds, NoopContinues
  <2> QED
    BY <1>0, <2>1 DEF Effort, FailureIsCaused
<1>4. CASE Push
  <2>1. /\ base = Len(remote) /\ base' = Len(remote') /\ Len(remote') \in Nat
        /\ Len(remote) <= Len(remote')
    BY <1>0, <1>4, PushAdds DEF Push, GitTypeOK, Ours
  <2>2. UNCHANGED <<fetched, rebasing, conflict>>
    BY <1>4 DEF Push
  <2>3. CASE step' = "ok" /\ UNCHANGED <<attempt, trouble>>
    BY <1>0, <2>1, <2>2, <2>3 DEF Effort, FailureIsCaused
  <2>4. CASE NextAttempt /\ trouble' = trouble + 1
    BY <1>0, <2>1, <2>2, <2>4, AttemptEnds DEF Effort, FailureIsCaused
  <2> QED
    BY <1>4, <2>3, <2>4 DEF Push
<1>5. CASE PushRejected
  <2>1. UNCHANGED <<remote, base, fetched, rebasing, trouble, conflict>>
        /\ (rebasing \/ base < Len(remote))
    BY <1>5 DEF PushRejected, local
  <2>2. attempt' = attempt /\ (step' = "fetch" \/ (step' = "failed" /\ attempt = Attempts))
    BY <1>0, <1>5 DEF PushRejected, NextAttempt, Effort
  <2> QED
    BY <1>0, <2>1, <2>2 DEF Effort, FailureIsCaused
<1>6. CASE Fetch
  BY <1>0, <1>6 DEF Fetch, Effort, FailureIsCaused
<1>7. CASE Rebase
  <2>1. base' = fetched /\ NextAttempt /\ step = "rebase"
        /\ UNCHANGED <<remote, fetched, rebasing, trouble, conflict>>
    BY <1>7 DEF Rebase
  <2> QED
    BY <1>0, <2>1, AttemptEnds DEF Effort, FailureIsCaused
<1>8. CASE RebaseFails
  <2>1. conflict' /\ NextAttempt /\ UNCHANGED <<remote, base, fetched, trouble>>
    BY <1>8 DEF RebaseFails
  <2> QED
    BY <1>0, <2>1, AttemptEnds DEF Effort, FailureIsCaused
<1> QED
  BY <1>1, <1>2, <1>3, <1>4, <1>5, <1>6, <1>7, <1>8 DEF GitNext

\* commit_and_push gives up only when as many things went wrong as it had
\* attempts, or a rebase failed: no attempt that failed is the reason why the
\* next one fails (commit_and_push, _try_rebase_onto_origin_main).
THEOREM GivingUp == Spec => []FailureIsCaused
<1>1. Init => Inv /\ Effort
  BY InitInv, InitEffort
<1>2. Inv /\ Effort /\ [Next]_vars => (Inv /\ Effort)'
  <2> SUFFICES ASSUME Inv, Effort, [Next]_vars PROVE Effort'
    BY NextInv
  <2>1. CASE UNCHANGED gitVars
    BY <2>1 DEF gitVars, local, Effort, FailureIsCaused
  <2>2. CASE GitStep \/ Others
    BY <2>2, EffortStep DEF GitStep, Others
  <2> QED
    BY <2>1, <2>2
    DEF Next, AlertGenerate, StartPublish, Announce, PublishFailed, NotifyFailed, Owe,
        DeliveryStep, Sent, AlertGivenUp, Settle, AlertAgain, vars
<1>3. Effort => FailureIsCaused
  BY DEF Effort
<1> QED
  BY <1>1, <1>2, <1>3, PTL DEF Spec

-----------------------------------------------------------------------------
(* What the run has sent, and what it still owes.                             *)
Called(m) == call # Idle /\ call.message = m

Stages ==
  /\ stage \in {"generate", "publish", "notify", "alert", "done"}
  /\ stage \in {"publish", "done"} => call = Idle
  /\ stage = "notify" => Called("briefing")
  /\ stage \in {"generate", "alert"} /\ call # Idle => call.message \in due
  /\ due \subseteq Messages \ {"briefing"}
  /\ stage \in {"generate", "publish", "notify"} => due \subseteq {"generate"}

Tallies ==
  /\ posts \in [Messages -> Nat] /\ lost \in [Messages -> Nat]
  /\ \A m \in Messages : posts[m] <= AlertAttempts
  /\ \A m \in Messages \ (due \cup {"briefing"}) : posts[m] = 0
  /\ stage \in {"generate", "publish"} =>
       posts["briefing"] = 0 /\ copies["briefing"] = 0 /\ lost["briefing"] = 0

\* While the briefing's exchange is not finished, each copy is a lost answer's.
Exchange ==
  /\ NoNeedlessCopy
  /\ Called("briefing") /\ call.last \notin {"ok", "refused"} =>
       copies["briefing"] = lost["briefing"]

\* A dispatch that has made no POST may still count as a try.
Unposted ==
  call # Idle /\ call.mode = "Markdown" /\ call.attempt = 0 /\ call.last = "none" =>
    posts[call.message] < AlertAttempts

Tries ==
  /\ Unposted
  /\ call # Idle /\ call.last = "ok" => copies[call.message] > 0
  /\ \A m \in due : copies[m] > 0 \/ posts[m] = AlertAttempts \/ Called(m)

Sendings == Stages /\ Tallies /\ Exchange /\ Tries

LEMMA InitSendings == Init => Sendings
<1> SUFFICES ASSUME Init PROVE Sendings
  OBVIOUS
<1> USE OutboundAssumption DEF Init, DeliveryInit
<1>1. Stages
  BY DEF Stages
<1>2. Tallies
  BY DEF Tallies
<1>3. Exchange /\ Tries
  BY DEF Exchange, NoNeedlessCopy, Called, Tries, Unposted
<1> QED
  BY <1>1, <1>2, <1>3 DEF Sendings

\* What one POST does to the tallies, by what is made of its answer.
LEMMA PostShape ==
  ASSUME Silence, Post
  PROVE  /\ call # Idle /\ call \in Dispatches /\ call.last = "none"
         /\ call' \in Dispatches /\ call'.message = call.message
         /\ call'.last # "none"
         /\ posts' = IF call.mode = "Markdown" /\ call.attempt = 0
                     THEN [posts EXCEPT ![call.message] = @ + 1] ELSE posts
         /\ \/ /\ copies' = copies /\ lost' = lost /\ call'.last # "ok"
            \/ /\ copies' = [copies EXCEPT ![call.message] = @ + 1] /\ lost' = lost
               /\ call'.last \in {"ok", "refused"}
            \/ /\ copies' = [copies EXCEPT ![call.message] = @ + 1]
               /\ lost' = [lost EXCEPT ![call.message] = @ + 1]
               /\ call'.last = "transient"
<1>1. PICK last \in Answers \ {"none"} :
        /\ Outcome(last)
        /\ \/ copies' = copies /\ lost' = lost /\ last # "ok"
           \/ Delivered /\ lost' = lost /\ last \in {"ok", "refused"}
           \/ /\ Delivered /\ last = "transient"
              /\ lost' = [lost EXCEPT ![call.message] = @ + 1]
  <2>1. CASE Answered
    BY <2>1 DEF Answered, Answers
  <2>2. CASE Garbled
    BY <2>2 DEF Garbled, Answers
  <2>3. CASE TimedOut
    BY <2>3 DEF TimedOut, Answers
  <2>4. CASE Declined
    BY <2>4 DEF Declined, Answers
  <2> QED
    BY <2>1, <2>2, <2>3, <2>4 DEF Post
<1>2. call # Idle /\ call.last = "none" /\ call' = [call EXCEPT !.last = last]
  BY <1>1 DEF Outcome, Sending
<1>3. call \in Dispatches
  BY <1>2 DEF Silence
<1>4. call' \in Dispatches /\ call'.message = call.message /\ call'.last = last
  BY <1>1, <1>2, <1>3 DEF Dispatches
<1> QED
  BY <1>1, <1>2, <1>3, <1>4 DEF Outcome, Delivered

\* A retry or the plain text continues the exchange.
LEMMA RetryShape ==
  ASSUME Silence, Retry \/ Fallback
  PROVE  /\ call # Idle /\ call \in Dispatches /\ call.last \in {"transient", "unparsable"}
         /\ call' \in Dispatches /\ call'.message = call.message /\ call'.last = "none"
         /\ ~(call'.mode = "Markdown" /\ call'.attempt = 0)
         /\ UNCHANGED <<copies, lost, posts>>
<1>1. call # Idle
  BY DEF Retry, Fallback, Sending
<1>2. call \in Dispatches
  BY <1>1 DEF Silence
<1>3. CASE Retry
  <2>1. call' = [message |-> call.message, mode |-> call.mode,
                 attempt |-> call.attempt + 1, last |-> "none"]
    BY <1>2, <1>3 DEF Retry, Dispatches
  <2>2. call.message \in Messages /\ call.mode \in {"Markdown", "plain"}
        /\ call.attempt + 1 \in Nat /\ call.attempt + 1 # 0
    BY <1>2 DEF Dispatches
  <2>3. call' \in Dispatches
    BY <2>1, <2>2 DEF Dispatches, Answers
  <2> QED
    BY <1>1, <1>2, <1>3, <2>1, <2>2, <2>3 DEF Retry, Retried
<1>4. CASE Fallback
  <2>1. call' = [message |-> call.message, mode |-> "plain", attempt |-> 0, last |-> "none"]
    BY <1>2, <1>4 DEF Fallback, Dispatches
  <2>2. call' \in Dispatches
    BY <1>2, <2>1 DEF Dispatches, Answers
  <2> QED
    BY <1>1, <1>2, <1>4, <2>1, <2>2 DEF Fallback
<1> QED
  BY <1>3, <1>4

LEMMA DeliverySends ==
  ASSUME Silence, Sendings, DeliveryNext, UNCHANGED <<stage, due>>
  PROVE  Sendings'
<1> DEFINE m == call.message
<1>1. /\ call # Idle /\ call' # Idle /\ call'.message = m /\ m \in Messages
      /\ Called(m) /\ \A x : Called(x) => x = m
      /\ \A x : Called(x)' <=> Called(x)
  BY PostShape, RetryShape, IdleAssumption DEF DeliveryNext, Dispatches, Called
<1>2. /\ m \in due \/ m = "briefing"
      /\ stage \in {"generate", "publish"} => m # "briefing"
      /\ stage \in {"generate", "notify", "alert"}
  BY <1>1 DEF Sendings, Stages
<1>3. Stages'
  BY <1>1 DEF Sendings, Stages
<1>4. /\ copies \in [Messages -> Nat] /\ lost \in [Messages -> Nat]
      /\ posts \in [Messages -> Nat] /\ AlertAttempts \in Nat /\ "briefing" \in Messages
      /\ due \subseteq Messages
  BY OutboundAssumption DEF Silence, Sendings, Tallies, Stages
<1>5. CASE Post
  <2>1. \A x \in Messages : x # m =>
          posts'[x] = posts[x] /\ copies'[x] = copies[x] /\ lost'[x] = lost[x]
    BY <1>1, <1>4, <1>5, PostShape
  <2>2. /\ posts' \in [Messages -> Nat] /\ lost' \in [Messages -> Nat]
        /\ copies' \in [Messages -> Nat]
    BY <1>1, <1>4, <1>5, PostShape
  <2>3. \/ posts'[m] = posts[m]
        \/ posts[m] < AlertAttempts /\ posts'[m] = posts[m] + 1
    BY <1>1, <1>4, <1>5, PostShape DEF Sendings, Tries, Unposted
  <2>4. /\ posts[m] <= posts'[m] /\ posts'[m] <= AlertAttempts
    BY <1>1, <1>4, <2>3 DEF Sendings, Tallies
  <2>5. \/ copies'[m] = copies[m] /\ lost'[m] = lost[m] /\ call'.last # "ok"
        \/ copies'[m] = copies[m] + 1 /\ lost'[m] = lost[m] /\ call'.last \in {"ok", "refused"}
        \/ copies'[m] = copies[m] + 1 /\ lost'[m] = lost[m] + 1 /\ call'.last = "transient"
    BY <1>1, <1>4, <1>5, PostShape
  <2>6. Tallies'
    BY <1>1, <1>2, <1>4, <2>1, <2>2, <2>4 DEF Sendings, Tallies
  <2>7. Exchange'
    <3>1. call.last = "none"
      BY <1>5, PostShape
    <3>2. CASE m = "briefing"
      <4>1. copies["briefing"] = lost["briefing"]
        BY <1>1, <3>1, <3>2 DEF Sendings, Exchange
      <4> QED
        BY <1>1, <1>4, <2>5, <3>2, <4>1 DEF Exchange, NoNeedlessCopy
    <3>3. CASE m # "briefing"
      BY <1>1, <1>4, <2>1, <3>3 DEF Sendings, Exchange, NoNeedlessCopy
    <3> QED
      BY <3>2, <3>3
  <2>8. Unposted' /\ (call'.last = "ok" => copies'[m] > 0)
    BY <1>1, <1>4, <1>5, <2>5, PostShape DEF Unposted
  <2>9. \A x \in due : copies'[x] > 0 \/ posts'[x] = AlertAttempts \/ Called(x)
    BY <1>1, <1>4, <2>1 DEF Sendings, Tries
  <2> QED
    BY <1>1, <1>3, <2>6, <2>7, <2>8, <2>9 DEF Sendings, Tries
<1>6. CASE Retry \/ Fallback
  <2>1. UNCHANGED <<copies, lost, posts>> /\ call.last \in {"transient", "unparsable"}
        /\ call'.last = "none" /\ ~(call'.mode = "Markdown" /\ call'.attempt = 0)
    BY <1>6, RetryShape
  <2>2. Tallies'
    BY <2>1 DEF Sendings, Tallies
  <2>3. Exchange'
    BY <1>1, <2>1 DEF Sendings, Exchange, NoNeedlessCopy
  <2>4. Tries'
    BY <1>1, <2>1 DEF Sendings, Tries, Unposted
  <2> QED
    BY <1>3, <2>2, <2>3, <2>4 DEF Sendings
<1> QED
  BY <1>5, <1>6 DEF DeliveryNext

\* A dispatch is begun: the briefing's, the first for an alert, or another try.
LEMMA BeginSends ==
  ASSUME Sendings, NEW m \in Messages, Begin(m), posts[m] < AlertAttempts,
         Stages', due \subseteq due', due' \subseteq due \cup {m},
         stage' \in {"generate", "publish"} => stage \in {"generate", "publish"},
         \A x : Called(x) => x = m \/ x = "briefing",
         m = "briefing" => copies["briefing"] = lost["briefing"]
  PROVE  Sendings'
<1>1. /\ call' # Idle /\ call'.message = m /\ call'.last = "none"
      /\ \A x : Called(x)' <=> x = m
  <2>1. call' \in Dispatches
    BY DEF Begin, Dispatches, Answers
  <2> QED
    BY <2>1, IdleAssumption DEF Begin, Called
<1>2. UNCHANGED <<copies, lost, posts>>
  BY DEF Begin
<1>3. Tallies'
  BY <1>2 DEF Sendings, Tallies
<1>4. Exchange'
  BY <1>1, <1>2 DEF Sendings, Exchange, NoNeedlessCopy
<1>5. Tries'
  <2>1. Unposted' /\ ~(call'.last = "ok")
    BY <1>1, <1>2 DEF Unposted
  <2>2. ASSUME NEW x \in due'
        PROVE  copies[x] > 0 \/ posts[x] = AlertAttempts \/ x = m
    BY <2>2 DEF Sendings, Tries, Stages
  <2> QED
    BY <1>1, <1>2, <2>1, <2>2 DEF Tries
<1> QED
  BY <1>3, <1>4, <1>5 DEF Sendings

LEMMA SendingsStep ==
  ASSUME Inv, Sendings, [Next]_vars
  PROVE  Sendings'
<1>0. /\ "briefing" \in Messages /\ "generate" \in Messages /\ "publish" \in Messages
      /\ "notify" \in Messages /\ AlertAttempts \in Nat \ {0}
      /\ copies \in [Messages -> Nat] /\ lost \in [Messages -> Nat]
  BY OutboundAssumption DEF Inv, Silence, Sendings, Tallies
<1>1. CASE AlertGenerate
  <2>1. posts["generate"] = 0 /\ call = Idle
    BY <1>0, <1>1 DEF AlertGenerate, Sending, Sendings, Tallies
  <2>2. Stages'
    <3>1. call' \in Dispatches /\ call'.message = "generate"
      BY <1>0, <1>1 DEF AlertGenerate, Begin, Dispatches, Answers
    <3> QED
      BY <1>0, <1>1, <3>1, IdleAssumption DEF AlertGenerate, Stages
  <2> QED
    BY <1>0, <1>1, <2>1, <2>2, BeginSends DEF AlertGenerate, Called
<1>2. CASE StartPublish
  <2>1. stage = "generate" /\ stage' = "publish" /\ call = Idle
        /\ UNCHANGED <<call, copies, lost, posts, due>>
    BY <1>2 DEF StartPublish, Sending, deliveryVars
  <2> QED
    BY <2>1 DEF Sendings, Stages, Tallies, Exchange, NoNeedlessCopy, Tries, Unposted, Called
<1>3. CASE UNCHANGED <<deliveryVars, stage, due>>
  BY <1>3 DEF deliveryVars, Sendings, Stages, Tallies, Exchange, NoNeedlessCopy, Tries,
     Unposted, Called
<1>4. CASE Announce
  <2>1. /\ posts["briefing"] = 0 /\ copies["briefing"] = lost["briefing"] /\ call = Idle
        /\ due \subseteq {"generate"}
    BY <1>4 DEF Announce, Sendings, Tallies, Stages
  <2>2. call' # Idle /\ call'.message = "briefing"
    BY <1>0, <1>4, IdleAssumption DEF Announce, Begin, Dispatches, Answers
  <2>3. Stages'
    BY <1>0, <1>4, <2>1, <2>2 DEF Announce, Stages, Called
  <2> QED
    BY <1>0, <1>4, <2>1, <2>3, BeginSends DEF Announce, Called
<1>5. ASSUME NEW m \in {"publish", "notify"}, Owe(m),
             \/ PublishFailed /\ m = "publish"
             \/ NotifyFailed /\ m = "notify"
      PROVE  Sendings'
  <2>1. due \subseteq {"generate"} /\ (call = Idle \/ call.message = "briefing")
    BY <1>5 DEF PublishFailed, NotifyFailed, Sendings, Stages, Called
  <2>2. posts[m] = 0 /\ m \in Messages
    BY <1>0, <2>1 DEF Sendings, Tallies
  <2>3. call' # Idle /\ call'.message = m
    BY <1>0, <1>5, IdleAssumption DEF Owe, Begin, Dispatches, Answers
  <2>4. Stages'
    BY <1>0, <1>5, <2>1, <2>3 DEF Owe, Stages
  <2> QED
    BY <1>0, <1>5, <2>1, <2>2, <2>4, BeginSends DEF Owe, Called
<1>6. CASE DeliveryStep
  BY <1>6, DeliverySends DEF DeliveryStep, Inv
<1>7. CASE Sent \/ AlertGivenUp
  <2>1. /\ call # Idle /\ call' = Idle /\ UNCHANGED <<copies, lost, posts, due>>
        /\ stage' = IF stage = "generate" THEN stage ELSE "done"
    BY <1>7 DEF Sent, AlertGivenUp, Returned, Sending, Settle
  <2>2. \/ call.last = "ok"
        \/ ~(posts[call.message] < AlertAttempts)
    BY <1>7 DEF Sent, AlertGivenUp, Returned, MoreAttempts
  <2>3. call.message \in Messages
    BY <2>1 DEF Inv, Silence, Dispatches
  <2>4. copies[call.message] > 0 \/ posts[call.message] = AlertAttempts
    BY <1>0, <2>1, <2>2, <2>3 DEF Sendings, Tries, Tallies
  <2>5. Stages' /\ Exchange'
    BY <2>1 DEF Sendings, Stages, Exchange, NoNeedlessCopy, Called
  <2>6. Tallies'
    BY <2>1 DEF Sendings, Stages, Tallies
  <2>7. Tries'
    BY <2>1, <2>4 DEF Sendings, Tries, Unposted, Called
  <2> QED
    BY <2>5, <2>6, <2>7 DEF Sendings
<1>8. CASE AlertAgain
  <2>1. /\ call # Idle /\ stage # "notify" /\ posts[call.message] < AlertAttempts
        /\ Begin(call.message) /\ UNCHANGED <<stage, due>>
    BY <1>8 DEF AlertAgain, Returned, Sending, MoreAttempts
  <2>2. call.message \in Messages /\ call.message \in due /\ call.message # "briefing"
    BY <2>1 DEF Inv, Silence, Dispatches, Sendings, Stages
  <2>3. call' # Idle /\ call'.message = call.message
    BY <2>1, <2>2, IdleAssumption DEF Begin, Dispatches, Answers
  <2>4. Stages'
    BY <2>1, <2>3 DEF Sendings, Stages, Called
  <2> QED
    BY <2>1, <2>2, <2>4, BeginSends DEF Called
<1>9. CASE UNCHANGED vars
  BY <1>3, <1>9 DEF vars
<1>10. CASE PublishFailed \/ NotifyFailed
  BY <1>5, <1>10 DEF PublishFailed, NotifyFailed
<1>11. CASE GitStep \/ Others
  BY <1>3, <1>11 DEF GitStep, Others
<1> QED
  BY <1>1, <1>2, <1>4, <1>6, <1>7, <1>8, <1>9, <1>10, <1>11 DEF Next

LEMMA AlwaysSendings == Spec => []Sendings
<1>1. Init => Inv /\ Sendings
  BY InitInv, InitSendings
<1>2. Inv /\ Sendings /\ [Next]_vars => (Inv /\ Sendings)'
  BY NextInv, SendingsStep
<1> QED
  BY <1>1, <1>2, PTL DEF Spec

\* The briefing is in the chat once, and once more for each POST of it that was
\* delivered and not answered (send_message, dispatch).
THEOREM CopiesAreLost == Spec => []NoNeedlessCopy
<1>1. Sendings => NoNeedlessCopy
  BY DEF Sendings, Exchange
<1> QED
  BY <1>1, AlwaysSendings, PTL

\* A run that ends has delivered each alert it owes or tried it as often as it
\* may, whatever earlier messages left of the retry budget (_safe_alert).
THEOREM AlertsAreTried == Spec => []AlertIsTried
<1>1. Sendings => AlertIsTried
  BY DEF Sendings, Stages, Tries, AlertIsTried, Called
<1> QED
  BY <1>1, AlwaysSendings, PTL
-----------------------------------------------------------------------------
(* The publish stage: every file is put back, for every set of files.  A      *)
(* snapshot holds what the stage found, a file without one is untouched, and  *)
(* a commit is started, ended or unknown only when every file is new.         *)

\* What rollback would restore is what the stage found.
Snapshots ==
  /\ \A p \in DOMAIN snapshots : snapshots[p] = before[p]
  /\ Metadata \cup (Files \ todo) \subseteq DOMAIN snapshots
  /\ todo = {} \/ pc # "commit"
  /\ thread \notin todo

\* Files without a snapshot are untouched; the others are new up to the one
\* being written.
Progress ==
  /\ \A p \in Paths \ DOMAIN snapshots : disk[p] = before[p]
  /\ pc = "write" =>
       \A p \in Paths \ todo : disk[p] = "new" \/ p = thread \/ task = "error"
  /\ pc = "commit" => \A p \in Paths : disk[p] = "new"

Worker ==
  /\ thread = None <=> task # "running"
  /\ pc = "prepare" => disk = before /\ task = "none" /\ todo = Files
  /\ pc = "write" => thread # "commit"
  /\ pc = "commit" => thread \in {"commit", None} /\ task # "none"
  /\ Ended => thread = None /\ task = "none"
  /\ pc # "returned" /\ cancelled /\ ~Ended => task # "none"
  /\ pc = "returned" => ~cancelled

Uncommitted ==
  /\ pc \in {"prepare", "write"} => head = "base" /\ index = "clean" /\ phase = "none"
  /\ pc = "commit" /\ task = "running" => head = "base" /\ index = "clean" /\ phase = "none"
  /\ pc = "commit" /\ task = "error" => phase # "none" /\ policy # "dry"
  /\ phase = "none" /\ head = "base" => index = "clean"
  /\ phase = "pre_commit" => head = "base"
  /\ pc = "commit" /\ task = "ok" => policy = "dry" \/ head = "published"

StageInv ==
  /\ TypeOK /\ Snapshots /\ Progress /\ Worker /\ Uncommitted
  /\ Restored /\ CommittedIsKept /\ ReturnedIsCommitted

USE DEF repository

-----------------------------------------------------------------------------
LEMMA StageInitInv == StageInit => StageInv
  BY StageAssumption DEF StageInit, StageInv, TypeOK, Snapshots, Progress,
     Worker, Uncommitted, Restored, CommittedIsKept, ReturnedIsCommitted,
     Ended, Paths, Contents, Range, Restrict

\* What a rollback leaves.
LEMMA RollBackTypes ==
  ASSUME TypeOK, NEW now \in [Paths -> Contents], RollBack(now)
  PROVE  /\ disk' \in [Paths -> Contents]
         /\ index' \in {"clean", "staged"} /\ broken' \in BOOLEAN
<1>1. \A p \in DOMAIN snapshots : snapshots[p] \in Contents
  BY DEF TypeOK, Range, Contents
<1>2. disk' \in [Paths -> Contents]
  BY <1>1 DEF RollBack
<1> QED
  BY <1>2 DEF RollBack, IndexRestored, TypeOK

\* A rollback that met no error puts back what the stage found.
LEMMA RollBackRestores ==
  ASSUME TypeOK, Snapshots, NEW now \in [Paths -> Contents], RollBack(now),
         \A p \in Paths \ DOMAIN snapshots : now[p] = before[p],
         ~broken'
  PROVE  disk' = before /\ index' = IndexRestored
<1>1. /\ disk' = [p \in Paths |-> IF p \in DOMAIN snapshots THEN snapshots[p] ELSE now[p]]
      /\ index' = IndexRestored
  BY DEF RollBack
<1>2. \A p \in Paths : disk'[p] = before[p]
  BY <1>1 DEF Snapshots
<1> QED
  BY <1>1, <1>2 DEF TypeOK

LEMMA StageStepInv == StageInv /\ [StageNext]_stageVars => StageInv'
<1> SUFFICES ASSUME StageInv, [StageNext]_stageVars PROVE StageInv'
  OBVIOUS
<1> USE StageAssumption DEF StageInv
<1>1. CASE Prepare
  <2>1. TypeOK'
    <3>1. \A written \in SUBSET Metadata :
             [p \in Paths |-> IF p \in written THEN "new" ELSE disk[p]]
               \in [Paths -> Contents]
      BY DEF TypeOK, Contents
    <3>2. /\ disk' \in [Paths -> Contents]
          /\ index' \in {"clean", "staged"} /\ broken' \in BOOLEAN
      <4>1. CASE /\ disk' = [p \in Paths |-> IF p \in Metadata THEN "new" ELSE disk[p]]
                 /\ UNCHANGED <<index, broken>>
        BY <4>1, <3>1 DEF TypeOK
      <4>2. CASE \E written \in SUBSET Metadata :
                   RollBack([p \in Paths |-> IF p \in written THEN "new" ELSE disk[p]])
        BY <4>2, <3>1, RollBackTypes
      <4> QED
        BY <1>1, <4>1, <4>2 DEF Prepare
    <3> QED
      BY <1>1, <3>2 DEF Prepare, TypeOK
  <2>2. Snapshots'
    BY <1>1 DEF Prepare, RollBack, IndexRestored, TypeOK,
       Snapshots, Paths, Worker
  <2>3. Progress'
    BY <1>1 DEF Prepare, RollBack, IndexRestored, TypeOK,
       Snapshots, Progress, Worker, Ended, Paths
  <2>4. Worker'
    BY <1>1 DEF Prepare, RollBack, IndexRestored, TypeOK, Worker,
       Ended
  <2>5. Uncommitted'
    BY <1>1 DEF Prepare, RollBack, IndexRestored, TypeOK, Worker,
       Ended, Uncommitted
  <2>6. Restored'
    <3>1. SUFFICES ASSUME pc' = "raised", ~broken'
                   PROVE  disk' = before /\ index' = "clean"
      BY <1>1 DEF Prepare, Restored
    <3>2. PICK written \in SUBSET Metadata :
            RollBack([p \in Paths |-> IF p \in written THEN "new" ELSE disk[p]])
      BY <1>1, <3>1 DEF Prepare
    <3>3. [p \in Paths |-> IF p \in written THEN "new" ELSE disk[p]]
            \in [Paths -> Contents]
      BY DEF TypeOK, Contents
    <3>4. \A p \in Paths \ DOMAIN snapshots :
            [q \in Paths |-> IF q \in written THEN "new" ELSE disk[q]][p] = before[p]
      BY DEF Snapshots, Progress
    <3>5. disk' = before /\ index' = IndexRestored
      BY <3>1, <3>2, <3>3, <3>4, RollBackRestores
    <3> QED
      BY <1>1, <3>5 DEF Prepare, IndexRestored, Uncommitted
  <2>7. CommittedIsKept'
    BY <1>1 DEF Prepare, RollBack, IndexRestored, TypeOK, Progress,
       Worker, Ended, Uncommitted, CommittedIsKept, Paths
  <2>8. ReturnedIsCommitted'
    BY <1>1 DEF Prepare, RollBack, IndexRestored, TypeOK, Worker,
       Ended, Uncommitted, ReturnedIsCommitted
  <2> QED  BY <2>1, <2>2, <2>3, <2>4, <2>5, <2>6, <2>7, <2>8
<1>2. CASE StartWrite
  <2>1. TypeOK'
    <3>1. PICK p \in todo : snapshots' = SnapshotOf(p) /\ todo' = todo \ {p} /\ thread' = p
      BY <1>2 DEF StartWrite
    <3>2. DOMAIN snapshots' = DOMAIN snapshots \cup {p}
      BY <3>1 DEF SnapshotOf
    <3>3. \A q \in DOMAIN snapshots' : snapshots'[q] \in {"absent", "prior"}
      <4>1. p \notin DOMAIN snapshots => disk[p] \in {"absent", "prior"}
        BY DEF Progress, TypeOK, Paths
      <4> QED
        BY <3>1, <4>1 DEF SnapshotOf, TypeOK, Range
    <3> QED
      BY <1>2, <3>1, <3>2, <3>3 DEF StartWrite, TypeOK, Paths, Range
  <2>2. Snapshots'
    <3>1. PICK p \in todo : snapshots' = SnapshotOf(p) /\ todo' = todo \ {p}
      BY <1>2 DEF StartWrite
    <3>2. p \notin DOMAIN snapshots => disk[p] = before[p]
      BY DEF Progress, TypeOK, Paths
    <3>3. DOMAIN snapshots' = DOMAIN snapshots \cup {p}
      BY <3>1 DEF SnapshotOf
    <3>4. \A q \in DOMAIN snapshots' : snapshots'[q] = before[q]
      BY <3>1, <3>2 DEF SnapshotOf, Snapshots
    <3> QED
      BY <1>2, <3>1, <3>3, <3>4 DEF StartWrite, Snapshots
  <2>3. Progress'
    <3>1. PICK p \in todo : snapshots' = SnapshotOf(p) /\ todo' = todo \ {p} /\ thread' = p
      BY <1>2 DEF StartWrite
    <3>2. DOMAIN snapshots' = DOMAIN snapshots \cup {p}
      BY <3>1 DEF SnapshotOf
    <3>3. thread = None
      BY <1>2 DEF StartWrite, Worker
    <3> QED
      BY <1>2, <3>1, <3>2, <3>3 DEF StartWrite, Progress, TypeOK, Paths
  <2>4. Worker'
    BY <1>2 DEF StartWrite, SnapshotOf, TypeOK, Worker, Ended
  <2>5. Uncommitted'
    BY <1>2 DEF StartWrite, SnapshotOf, TypeOK, Worker, Ended,
       Uncommitted
  <2>6. Restored'
    BY <1>2 DEF StartWrite, SnapshotOf, TypeOK, Snapshots, Progress,
       Worker, Ended, Uncommitted, Restored, Paths
  <2>7. CommittedIsKept'
    BY <1>2 DEF StartWrite, SnapshotOf, TypeOK, Progress, Worker,
       Ended, Uncommitted, CommittedIsKept, Paths
  <2>8. ReturnedIsCommitted'
    BY <1>2 DEF StartWrite, SnapshotOf, TypeOK, Worker, Ended,
       Uncommitted, ReturnedIsCommitted
  <2> QED  BY <2>1, <2>2, <2>3, <2>4, <2>5, <2>6, <2>7, <2>8
<1>3. CASE StartCommit
  <2>1. TypeOK'
    BY <1>3 DEF StartCommit, TypeOK, Paths, Contents, Range
  <2>2. Snapshots'
    BY <1>3 DEF StartCommit, TypeOK, Snapshots, Paths, Worker
  <2>3. Progress'
    BY <1>3 DEF StartCommit, TypeOK, Snapshots, Progress, Worker, Ended,
       Paths
  <2>4. Worker'
    BY <1>3 DEF StartCommit, TypeOK, Worker, Ended
  <2>5. Uncommitted'
    BY <1>3 DEF StartCommit, TypeOK, Worker, Ended, Uncommitted
  <2>6. Restored'
    BY <1>3 DEF StartCommit, TypeOK, Snapshots, Progress, Worker, Ended,
       Uncommitted, Restored, Paths
  <2>7. CommittedIsKept'
    BY <1>3 DEF StartCommit, TypeOK, Progress, Worker, Ended,
       Uncommitted, CommittedIsKept, Paths
  <2>8. ReturnedIsCommitted'
    BY <1>3 DEF StartCommit, TypeOK, Worker, Ended, Uncommitted,
       ReturnedIsCommitted
  <2> QED  BY <2>1, <2>2, <2>3, <2>4, <2>5, <2>6, <2>7, <2>8
<1>4. CASE Gate
  <2>1. TypeOK'
    <3>1. /\ disk' \in [Paths -> Contents]
          /\ index' \in {"clean", "staged"} /\ broken' \in BOOLEAN
      BY <1>4, RollBackTypes DEF Gate, TypeOK
    <3> QED
      BY <1>4, <3>1 DEF Gate, TypeOK
  <2>2. Snapshots'
    BY <1>4 DEF Gate, RollBack, IndexRestored, TypeOK, Snapshots,
       Paths, Worker
  <2>3. Progress'
    BY <1>4 DEF Gate, RollBack, IndexRestored, TypeOK, Snapshots,
       Progress, Worker, Ended, Paths
  <2>4. Worker'
    BY <1>4 DEF Gate, RollBack, IndexRestored, TypeOK, Worker,
       Ended
  <2>5. Uncommitted'
    BY <1>4 DEF Gate, RollBack, IndexRestored, TypeOK, Worker,
       Ended, Uncommitted
  <2>6. Restored'
    BY <1>4 DEF Gate, RollBack, IndexRestored, TypeOK, Snapshots,
       Progress, Worker, Ended, Uncommitted, Restored, Paths
  <2>7. CommittedIsKept'
    BY <1>4 DEF Gate, RollBack, IndexRestored, TypeOK, Progress,
       Worker, Ended, Uncommitted, CommittedIsKept, Paths
  <2>8. ReturnedIsCommitted'
    BY <1>4 DEF Gate, RollBack, IndexRestored, TypeOK, Worker,
       Ended, Uncommitted, ReturnedIsCommitted
  <2> QED  BY <2>1, <2>2, <2>3, <2>4, <2>5, <2>6, <2>7, <2>8
<1>5. CASE Write
  <2>1. TypeOK'
    BY <1>5 DEF Write, TypeOK, Paths, Contents, Range
  <2>2. Snapshots'
    BY <1>5 DEF Write, TypeOK, Snapshots, Paths, Worker
  <2>3. Progress'
    <3>1. thread \in DOMAIN snapshots /\ pc = "write" /\ task = "running"
      BY <1>5 DEF Write, TypeOK, Snapshots, Worker, Ended
    <3>2. task' = "error" => disk' = disk \/ disk' = [disk EXCEPT ![thread] = "new"]
      BY <1>5 DEF Write
    <3>3. task' # "error" => disk' = [disk EXCEPT ![thread] = "new"]
      BY <1>5 DEF Write
    <3> QED
      BY <1>5, <3>1, <3>2, <3>3 DEF Write, TypeOK, Progress, Paths
  <2>4. Worker'
    BY <1>5 DEF Write, TypeOK, Worker, Ended
  <2>5. Uncommitted'
    BY <1>5 DEF Write, TypeOK, Worker, Ended, Uncommitted
  <2>6. Restored'
    BY <1>5 DEF Write, TypeOK, Snapshots, Progress, Worker, Ended,
       Uncommitted, Restored, Paths
  <2>7. CommittedIsKept'
    BY <1>5 DEF Write, TypeOK, Progress, Worker, Ended, Uncommitted,
       CommittedIsKept, Paths
  <2>8. ReturnedIsCommitted'
    BY <1>5 DEF Write, TypeOK, Worker, Ended, Uncommitted,
       ReturnedIsCommitted
  <2> QED  BY <2>1, <2>2, <2>3, <2>4, <2>5, <2>6, <2>7, <2>8
<1>6. CASE CommitFiles
  <2>1. TypeOK'
    BY <1>6 DEF CommitFiles, TypeOK, Paths, Contents, Range
  <2>2. Snapshots'
    BY <1>6 DEF CommitFiles, TypeOK, Snapshots, Paths, Worker
  <2>3. Progress'
    BY <1>6 DEF CommitFiles, TypeOK, Snapshots, Progress, Worker, Ended,
       Paths
  <2>4. Worker'
    BY <1>6 DEF CommitFiles, TypeOK, Worker, Ended
  <2>5. Uncommitted'
    BY <1>6 DEF CommitFiles, TypeOK, Worker, Ended, Uncommitted
  <2>6. Restored'
    BY <1>6 DEF CommitFiles, TypeOK, Snapshots, Progress, Worker, Ended,
       Uncommitted, Restored, Paths
  <2>7. CommittedIsKept'
    BY <1>6 DEF CommitFiles, TypeOK, Progress, Worker, Ended, Uncommitted,
       CommittedIsKept, Paths
  <2>8. ReturnedIsCommitted'
    BY <1>6 DEF CommitFiles, TypeOK, Worker, Ended, Uncommitted,
       ReturnedIsCommitted
  <2> QED  BY <2>1, <2>2, <2>3, <2>4, <2>5, <2>6, <2>7, <2>8
<1>7. CASE Cancel
  <2>1. TypeOK'
    BY <1>7 DEF Cancel, TypeOK, Paths, Contents, Range
  <2>2. Snapshots'
    BY <1>7 DEF Cancel, TypeOK, Snapshots, Paths, Worker
  <2>3. Progress'
    BY <1>7 DEF Cancel, TypeOK, Snapshots, Progress, Worker, Ended,
       Paths
  <2>4. Worker'
    BY <1>7 DEF Cancel, TypeOK, Worker, Ended
  <2>5. Uncommitted'
    BY <1>7 DEF Cancel, TypeOK, Worker, Ended, Uncommitted
  <2>6. Restored'
    BY <1>7 DEF Cancel, TypeOK, Snapshots, Progress, Worker, Ended,
       Uncommitted, Restored, Paths
  <2>7. CommittedIsKept'
    BY <1>7 DEF Cancel, TypeOK, Progress, Worker, Ended, Uncommitted,
       CommittedIsKept, Paths
  <2>8. ReturnedIsCommitted'
    BY <1>7 DEF Cancel, TypeOK, Worker, Ended, Uncommitted,
       ReturnedIsCommitted
  <2> QED  BY <2>1, <2>2, <2>3, <2>4, <2>5, <2>6, <2>7, <2>8
<1>8. CASE Resume
  <2>1. TypeOK'
    BY <1>8 DEF Resume, Drained, Interrupted, TypeOK, Paths,
       Contents, Range
  <2>2. Snapshots'
    BY <1>8 DEF Resume, Drained, Interrupted, TypeOK, Snapshots,
       Paths, Worker
  <2>3. Progress'
    BY <1>8 DEF Resume, Drained, Interrupted, TypeOK, Snapshots,
       Progress, Worker, Ended, Paths
  <2>4. Worker'
    BY <1>8 DEF Resume, Drained, Interrupted, TypeOK, Worker,
       Ended
  <2>5. Uncommitted'
    BY <1>8 DEF Resume, Drained, Interrupted, TypeOK, Worker,
       Ended, Uncommitted
  <2>6. Restored'
    BY <1>8 DEF Resume, Drained, Interrupted, TypeOK, Snapshots,
       Progress, Worker, Ended, Uncommitted, Restored, Paths
  <2>7. CommittedIsKept'
    BY <1>8 DEF Resume, Drained, Interrupted, TypeOK, Progress,
       Worker, Ended, Uncommitted, CommittedIsKept, Paths
  <2>8. ReturnedIsCommitted'
    BY <1>8 DEF Resume, Drained, Interrupted, TypeOK, Worker,
       Ended, Uncommitted, ReturnedIsCommitted
  <2> QED  BY <2>1, <2>2, <2>3, <2>4, <2>5, <2>6, <2>7, <2>8
<1>9. CASE Raise
  <2>1. TypeOK'
    <3>1. /\ disk' \in [Paths -> Contents]
          /\ index' \in {"clean", "staged"} /\ broken' \in BOOLEAN
      BY <1>9, RollBackTypes DEF Raise, TypeOK
    <3> QED
      BY <1>9, <3>1 DEF Raise, TypeOK
  <2>2. Snapshots'
    BY <1>9 DEF Raise, Drained, Interrupted, MayRollBack,
       RollBack, IndexRestored, TypeOK, Snapshots, Paths, Worker
  <2>3. Progress'
    BY <1>9 DEF Raise, Drained, Interrupted, MayRollBack,
       RollBack, IndexRestored, TypeOK, Snapshots, Progress, Worker,
       Ended, Paths
  <2>4. Worker'
    BY <1>9 DEF Raise, Drained, Interrupted, MayRollBack,
       RollBack, IndexRestored, TypeOK, Worker, Ended
  <2>5. Uncommitted'
    BY <1>9 DEF Raise, Drained, Interrupted, MayRollBack,
       RollBack, IndexRestored, TypeOK, Worker, Ended, Uncommitted
  <2>6. Restored'
    BY <1>9 DEF Raise, Drained, Interrupted, MayRollBack,
       RollBack, IndexRestored, TypeOK, Snapshots, Progress, Worker,
       Ended, Uncommitted, Restored, Paths
  <2>7. CommittedIsKept'
    BY <1>9 DEF Raise, Drained, Interrupted, MayRollBack,
       RollBack, IndexRestored, TypeOK, Progress, Worker, Ended,
       Uncommitted, CommittedIsKept, Paths
  <2>8. ReturnedIsCommitted'
    BY <1>9 DEF Raise, Drained, Interrupted, MayRollBack,
       RollBack, IndexRestored, TypeOK, Worker, Ended, Uncommitted,
       ReturnedIsCommitted
  <2> QED  BY <2>1, <2>2, <2>3, <2>4, <2>5, <2>6, <2>7, <2>8
<1>10. CASE UNCHANGED stageVars
  BY <1>10 DEF stageVars, TypeOK, Snapshots, Progress, Worker, Uncommitted,
     Restored, CommittedIsKept, ReturnedIsCommitted, Ended,
     Paths, Contents
<1> QED
  BY <1>1, <1>2, <1>3, <1>4, <1>5, <1>6, <1>7, <1>8, <1>9, <1>10 DEF StageNext

\* The invariant holds in every state of the stage.
THEOREM StageInvariance == StageSpec => []StageInv
<1>1. StageInit => StageInv  BY StageInitInv
<1>2. StageInv /\ [StageNext]_stageVars => StageInv'  BY StageStepInv
<1> QED  BY <1>1, <1>2, PTL DEF StageSpec

\* A stage that raised before it committed left every file and the index as it
\* found them, unless putting one back failed.
THEOREM RollBackSafety == StageSpec => []Restored
<1>1. StageInv => Restored
  BY DEF StageInv
<1> QED  BY <1>1, StageInvariance, PTL

\* Committed files are never rolled back.
THEOREM CommitSafety == StageSpec => []CommittedIsKept
<1>1. StageInv => CommittedIsKept
  BY DEF StageInv
<1> QED  BY <1>1, StageInvariance, PTL

\* A stage that returned has committed.
THEOREM ReturnSafety == StageSpec => []ReturnedIsCommitted
<1>1. StageInv => ReturnedIsCommitted
  BY DEF StageInv
<1> QED  BY <1>1, StageInvariance, PTL

\* No thread of the stage writes once the stage has ended.
THEOREM Drains == StageSpec => NoLateWrite
<1>1. StageInv /\ [StageNext]_stageVars => [Ended => UNCHANGED repository]_stageVars
  <2> SUFFICES ASSUME StageInv, [StageNext]_stageVars, Ended
               PROVE  UNCHANGED repository \/ UNCHANGED stageVars
    OBVIOUS
  <2>1. /\ thread = None /\ task = "none"
        /\ pc \notin {"prepare", "write", "commit"}
    BY DEF StageInv, Worker, Ended
  <2> QED
    BY <2>1, StageAssumption DEF StageInv,
       StageNext, Prepare, StartWrite, StartCommit, Gate,
       Write, CommitFiles, Cancel, Resume, Raise, stageVars
<1> QED
  BY <1>1, StageInvariance, PTL DEF StageSpec, NoLateWrite
=============================================================================
