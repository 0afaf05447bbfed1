-------------------------------- MODULE Outbound --------------------------------
(***************************************************************************)
(* A run's way out (orchestrator/pipeline.py): alerts for segments that could *)
(* not be generated, the push of the documents, the briefing's message, and   *)
(* the alert when one of these fails.  The push is GitPush's, each message is *)
(* one dispatch of Delivery; every dispatch draws on the same retry budget.   *)
(***************************************************************************)
EXTENDS GitPush, Delivery

CONSTANTS AlertAttempts    \* _ALERT_DELIVERY_ATTEMPTS

ASSUME OutboundAssumption ==
  /\ AlertAttempts \in Nat \ {0}
  /\ Messages = {"briefing", "generate", "publish", "notify"}

VARIABLES
  stage,   \* generate, publish, notify_briefing, alert, done
  due      \* the alerts the run owes the operator

vars == <<gitVars, deliveryVars, stage, due>>

Init ==
  /\ GitInit /\ DeliveryInit
  /\ stage = "generate" /\ due = {}

\* _stage_alerts of GenerateStage: a segment could not be generated.
AlertGenerate ==
  /\ stage = "generate" /\ ~Sending /\ due = {}
  /\ due' = {"generate"} /\ Begin("generate")
  /\ UNCHANGED <<gitVars, stage>>

\* PublishStage
StartPublish ==
  /\ stage = "generate" /\ ~Sending
  /\ stage' = "publish"
  /\ UNCHANGED <<gitVars, deliveryVars, due>>

GitStep ==
  /\ stage = "publish" /\ GitNext
  /\ UNCHANGED <<deliveryVars, stage, due>>

Others ==
  /\ Advance
  /\ UNCHANGED <<deliveryVars, stage, due>>

\* NotifyStage, once the push has succeeded.
Announce ==
  /\ stage = "publish" /\ step = "ok"
  /\ stage' = "notify" /\ Begin("briefing")
  /\ UNCHANGED <<gitVars, due>>

\* _route_failure of PublisherGitError, NotifyDeliveryError
Owe(m) ==
  /\ stage' = "alert" /\ due' = due \cup {m} /\ Begin(m)
  /\ UNCHANGED gitVars

PublishFailed == stage = "publish" /\ step = "failed" /\ Owe("publish")

NotifyFailed == stage = "notify" /\ Returned(FALSE) /\ Owe("notify")

DeliveryStep ==
  /\ DeliveryNext
  /\ UNCHANGED <<gitVars, stage, due>>

\* A dispatch that ends its part of the run.
Settle ==
  /\ call' = Idle
  /\ stage' = IF stage = "generate" THEN stage ELSE "done"
  /\ UNCHANGED <<gitVars, used, copies, lost, posts, due>>

Sent == Returned(TRUE) /\ Settle

\* _safe_alert: its attempts do not depend on the budget, their retries do.
MoreIfBudget ==                     \* a bug: an alert counts as a retry
  posts[call.message] < AlertAttempts /\ used < Budget

MoreAttempts == posts[call.message] < AlertAttempts

AlertAgain ==
  /\ stage # "notify" /\ Returned(FALSE) /\ MoreAttempts
  /\ Begin(call.message)
  /\ UNCHANGED <<gitVars, stage, due>>

AlertGivenUp ==
  /\ stage # "notify" /\ Returned(FALSE) /\ ~MoreAttempts
  /\ Settle

Next ==
  \/ AlertGenerate \/ StartPublish \/ GitStep \/ Others \/ Announce
  \/ PublishFailed \/ NotifyFailed \/ DeliveryStep
  \/ Sent \/ AlertAgain \/ AlertGivenUp

Spec == Init /\ [][Next]_vars

-----------------------------------------------------------------------------
OursAt == {i \in DOMAIN remote : remote[i] = "ours"}

\* The chat hears of the documents only when they are on main, whatever the
\* remote, the network and other jobs did to the push (NotifyStage after
\* commit_and_push).
AnnouncedIsOnMain == copies["briefing"] > 0 => OursAt # {}

\* However often the push is repeated, rebased, or its answer lost, main
\* contains the run's commit once (_try_attempt, _try_rebase_onto_origin_main).
OnceOnMain == Cardinality(OursAt) <= 1

\* commit_and_push gives up only if as many things went wrong as it had
\* attempts, or a rebase failed: no failed attempt makes the next one fail.
FailureIsCaused == step = "failed" => trouble >= Attempts \/ conflict

\* The chat gets the briefing a second time only for a POST that was delivered
\* and not answered: no finished exchange is repeated (send_message).
NoNeedlessCopy == copies["briefing"] <= 1 + lost["briefing"]

\* A run that ends owing the operator an alert has delivered it, or has tried
\* as often as it may: retries of earlier messages that used up the budget
\* do not silence it (_safe_alert, retry_budget).
AlertIsTried ==
  stage = "done" => \A m \in due : copies[m] > 0 \/ posts[m] = AlertAttempts
=============================================================================
