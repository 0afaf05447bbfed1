------------------------------- MODULE Delivery -------------------------------
(***************************************************************************)
(* One Telegram dispatch at a time (notifier/_dispatcher.py, _telegram.py):   *)
(* Markdown first, plain text when Telegram cannot parse it, each sent with   *)
(* up to MaxRetries retries that are charged to one budget of the process     *)
(* (_internal/retry_budget.py).                                               *)
(***************************************************************************)
EXTENDS Integers

CONSTANTS
  Messages,    \* the briefing's, and one for each alert
  MaxRetries,  \* _MAX_RETRIES
  Budget,      \* INVESTO_RETRY_BUDGET
  Idle         \* no dispatch under way

ASSUME DeliveryAssumption == {MaxRetries, Budget} \subseteq Nat

Answers == {"none", "ok", "refused", "transient", "unparsable"}

Dispatches ==
  [message : Messages, mode : {"Markdown", "plain"}, attempt : Nat, last : Answers]

ASSUME IdleAssumption == Idle \notin Dispatches

VARIABLES
  used,     \* _budget_used
  call,     \* the dispatch under way
  copies,   \* by message: how often it is in its chat
  lost,     \* by message: POSTs that were delivered and not answered
  posts     \* by message: dispatches that made a POST

deliveryVars == <<used, call, copies, lost, posts>>

DeliveryInit ==
  /\ used = 0 /\ call = Idle
  /\ copies = [m \in Messages |-> 0] /\ lost = [m \in Messages |-> 0]
  /\ posts = [m \in Messages |-> 0]

\* dispatch
Begin(m) ==
  /\ call' = [message |-> m, mode |-> "Markdown", attempt |-> 0, last |-> "none"]
  /\ UNCHANGED <<used, copies, lost, posts>>

Sending == call # Idle

\* _send_message_once
Outcome(last) ==
  /\ Sending /\ call.last = "none"
  /\ call' = [call EXCEPT !.last = last]
  /\ posts' = IF call.mode = "Markdown" /\ call.attempt = 0
              THEN [posts EXCEPT ![call.message] = @ + 1] ELSE posts
  /\ UNCHANGED used

Delivered == copies' = [copies EXCEPT ![call.message] = @ + 1]

Answered == Outcome("ok") /\ Delivered /\ UNCHANGED lost

\* 200 with a body that is not JSON: delivered, and reported as a failure.
Garbled == Outcome("refused") /\ Delivered /\ UNCHANGED lost

\* A timeout or a broken connection: delivered or not.
TimedOut ==
  /\ Outcome("transient")
  /\ \/ Delivered /\ lost' = [lost EXCEPT ![call.message] = @ + 1]
     \/ UNCHANGED <<copies, lost>>

\* 429 and 5xx, other statuses, entities that cannot be parsed.
Declined ==
  /\ \E last \in {"transient", "refused", "unparsable"} :
       /\ Outcome(last)
       /\ last = "unparsable" => call.mode = "Markdown"
  /\ UNCHANGED <<copies, lost>>

Post == Answered \/ Garbled \/ TimedOut \/ Declined

RetryAlso == {"transient", "refused"}  \* a bug: a finished exchange is repeated

Retried == {"transient"}

\* allow_retry
Retry ==
  /\ Sending /\ call.last \in Retried
  /\ call.attempt < MaxRetries /\ used < Budget
  /\ used' = used + 1
  /\ call' = [call EXCEPT !.attempt = @ + 1, !.last = "none"]
  /\ UNCHANGED <<copies, lost, posts>>

Fallback ==
  /\ Sending /\ call.last = "unparsable"
  /\ call' = [call EXCEPT !.mode = "plain", !.attempt = 0, !.last = "none"]
  /\ UNCHANGED <<used, copies, lost, posts>>

\* What dispatch returns; Returned leaves what happens next to the caller.
Returned(ok) ==
  /\ Sending
  /\ \/ ok /\ call.last = "ok"
     \/ ~ok /\ call.last = "refused"
     \/ ~ok /\ call.last = "transient"
        /\ (call.attempt = MaxRetries \/ used >= Budget)

DeliveryNext == Post \/ Retry \/ Fallback
=============================================================================
