------------------------------- MODULE Pipeline -------------------------------
(***************************************************************************)
(* One scheduled run, from the first stage to the colour of its job: the      *)
(* stage loop (orchestrator/pipeline.py), the end of the process              *)
(* (__main__.py) and the job's last steps (daily-briefing.yml).               *)
(*                                                                            *)
(* A run collects, generates a draft per segment, finalizes drafts to         *)
(* documents and publishes them in one commit, then announces them.  What a   *)
(* stage does with a document is left out; which segments survive it, how it  *)
(* fails and what each failure turns into is not.  The commit and its push    *)
(* are one step here (PublicationReceipts looks into it): they succeed, or    *)
(* fail with the commit on origin/main or not.                                *)
(***************************************************************************)
EXTENDS Naturals

CONSTANTS
  Segments,     \* SEGMENT_ORDER
  None          \* the exit code of a process that has not ended

ASSUME PipelineAssumption == Segments # {} /\ None \notin {0, 1, 2}

VARIABLES
  dry,          \* INVESTO_DRY_RUN=1
  pc,           \* the stage that runs next; then the job's step; then "ended"
  drafts,       \* segments generated
  flawed,       \* visual_assets_failed
  bundle,       \* segments finalized, {} if the finalizer gave no bundle
  committed,    \* accumulated["publication_committed"]
  main,         \* this run's documents that are on origin/main
  messages,     \* what the public channel got: segments named and missing
  fanout,       \* the webhooks were told of a publication
  notified,     \* notify_result.ok
  status,       \* PipelineStatus, "running" until it is known
  alerts,       \* stages of whose failure an alert reached the operator
  unheard,      \* stages of whose alert no attempt arrived: a WARNING is logged
  outputs,      \* publication_committed in GITHUB_OUTPUT; "lost" if unwritable
  rc,           \* exit code of the process
  dispatched,   \* pages.yml was started
  red           \* the job failed

content == <<drafts, flawed, bundle>>
public == <<main, messages, fanout>>
told == <<alerts, unheard>>
job == <<rc, outputs, dispatched, red>>
vars == <<dry, pc, content, committed, public, notified, status, told, job>>

Stages == {"collect", "generate", "publish", "notify", "health", "report"}

Init ==
  /\ dry \in BOOLEAN
  /\ pc = "collect"
  /\ drafts = {} /\ flawed = FALSE /\ bundle = {}
  /\ committed = FALSE
  /\ main = {} /\ messages = {} /\ fanout = FALSE
  /\ notified = FALSE
  /\ status = "running"
  /\ alerts = {} /\ unheard = {}
  /\ rc = None /\ outputs = "none" /\ dispatched = FALSE /\ red = FALSE

-----------------------------------------------------------------------------
(* The loop of _execute_pipeline_stages.                                     *)

NotAlerted(stage) == UNCHANGED told  \* a bug: the failure is only logged

\* _safe_alert: two attempts, both of which may fail; then the failure of the
\* alert is a WARNING in the log and nothing more.  In a dry run the alerter
\* stays silent and answers ok.
Alerted(stage) ==
  \/ dry /\ UNCHANGED told
  \/ ~dry /\ alerts' = alerts \cup {stage} /\ UNCHANGED unheard
  \/ ~dry /\ unheard' = unheard \cup {stage} /\ UNCHANGED alerts

\* A stage that returns "failed": routed, alerted, and the loop ends.
Failed(stage) ==
  /\ Alerted(stage)
  /\ status' = "failed"
  /\ pc' = "report"

Collect ==
  /\ pc = "collect"
  /\ \/ pc' = "generate" /\ UNCHANGED <<status, told>>
     \/ Failed("collect")                               \* EmptyCollectError
  /\ UNCHANGED <<dry, content, committed, public, notified, job>>

\* A failed segment is isolated and alerted (one alert stands for those of all
\* failed segments), unless all of them failed.
Generate ==
  /\ pc = "generate"
  /\ \/ /\ \E segments \in (SUBSET Segments) \ {{}}, visuals \in BOOLEAN :
             /\ drafts' = segments /\ flawed' = visuals
             /\ IF segments # Segments THEN Alerted("generate") ELSE UNCHANGED told
        /\ pc' = "publish"
        /\ UNCHANGED <<status, bundle>>
     \/ Failed("generate") /\ UNCHANGED content         \* BriefingGenerationError
  /\ UNCHANGED <<dry, committed, public, notified, job>>

\* The documents may be on origin/main, unless the run is a rehearsal.
Pushed(documents) == IF dry THEN {} ELSE {documents}

AnyPush(documents) == {main} \cup Pushed(documents)    \* a bug: its error is lost

SafePush(documents) == IF dry THEN {main} ELSE Pushed(documents)

\* _stage_publish_segments wrote everything, and commit_and_push succeeded.
Published(documents) ==
  /\ committed' = ~dry
  /\ main' \in SafePush(documents)
  /\ pc' = "notify"
  /\ UNCHANGED <<status, told>>

\* A write, a gate or the push failed: one of _PUBLISH_FAILURES.
Unpublished(documents) ==
  /\ main' \in {main} \cup Pushed(documents)
  /\ Failed("publish")
  /\ UNCHANGED committed

Publish ==
  /\ pc = "publish"
  /\ \/ \E documents \in (SUBSET drafts) \ {{}} :
          bundle' = documents /\ (Published(documents) \/ Unpublished(documents))
     \/ Failed("publish") /\ UNCHANGED <<bundle, committed, main>>   \* all blocked
  /\ UNCHANGED <<dry, drafts, flawed, messages, fanout, notified, job>>

\* missing_segments: not generated, or blocked by the finalizer.
OnlyFailed == Segments \ drafts     \* a bug: blocked segments are forgotten

Missing == (Segments \ drafts) \cup (drafts \ bundle)

Announcement == [named |-> bundle, missing |-> Missing]

\* The message may have been delivered although no attempt came back with ok.
Notify ==
  /\ pc = "notify"
  /\ \E ok \in BOOLEAN, delivered \in BOOLEAN :
       /\ ok => delivered
       /\ dry => ok
       /\ notified' = ok
       /\ messages' = IF delivered /\ ~dry THEN {Announcement} ELSE messages
       /\ status' = IF ok /\ ~flawed /\ Missing = {} THEN "success" ELSE "partial"
       /\ IF ok THEN UNCHANGED told ELSE Alerted("notify")
  /\ pc' = "health"
  /\ UNCHANGED <<dry, content, committed, main, fanout, job>>

HealthTracking ==
  /\ pc = "health"
  /\ UNCHANGED told \/ Alerted("health")
  /\ pc' = "report"
  /\ UNCHANGED <<dry, content, committed, public, notified, status, job>>

-----------------------------------------------------------------------------
(* _async_main after run_pipeline returned.                                  *)
Completeness ==
  CASE bundle = Segments -> "complete"
    [] bundle # {} /\ bundle # Segments -> "partial"
    [] bundle = {} -> IF status = "failed" THEN "none" ELSE "complete"

StatusOnly == IF status = "failed" THEN 1 ELSE 0        \* a bug

ExitCode ==
  CASE Completeness = "partial" -> 2
    [] Completeness # "partial" /\ (status = "failed" \/ Completeness = "none") -> 1
    [] OTHER -> 0

\* Webhooks, step summary, GITHUB_OUTPUT (an OSError is swallowed), exit code.
Report ==
  /\ pc = "report"
  /\ fanout' \in {FALSE, ~dry /\ status # "failed"}
  /\ outputs' \in {"lost", IF committed THEN "true" ELSE "false"}
  /\ rc' = ExitCode
  /\ pc' = "pages"
  /\ UNCHANGED <<dry, content, committed, main, messages, notified, status, told,
                 dispatched, red>>

\* What the stage that did not come back may have done.
HalfDone ==
  /\ \/ main' = main
     \/ pc = "publish" /\ \E documents \in (SUBSET drafts) \ {{}} : main' \in Pushed(documents)
  /\ \/ messages' = messages
     \/ pc = "notify" /\ ~dry /\ messages' = {Announcement}
  /\ fanout' \in {FALSE, pc = "report" /\ ~dry /\ status # "failed"}

\* An exception outside the routing table, in any stage: codex_runtime's
\* checkpoint failed, a publication was not confirmed.  The boot alert may be
\* suppressed as a duplicate.
Crash ==
  /\ pc \in Stages
  /\ HalfDone
  /\ UNCHANGED told \/ Alerted("boot")
  /\ rc' = 1
  /\ pc' = "pages"
  /\ UNCHANGED <<dry, content, committed, notified, status, outputs, dispatched, red>>

\* The job is cancelled or runs into its timeout: no later step is run.
Kill ==
  /\ pc \in Stages
  /\ HalfDone
  /\ red' = TRUE
  /\ pc' = "ended"
  /\ UNCHANGED <<dry, content, committed, notified, status, told, rc, outputs,
                 dispatched>>

-----------------------------------------------------------------------------
(* The job's steps after the process.                                        *)

\* A bug: an unannounced publication is not deployed.
DispatchSuccess == outputs = "true" /\ status = "success"

Dispatchable == outputs = "true"

TriggerPages ==
  /\ pc = "pages"
  /\ IF Dispatchable THEN \/ dispatched' = TRUE /\ UNCHANGED red
                          \/ red' = TRUE /\ UNCHANGED dispatched
     ELSE UNCHANGED <<dispatched, red>>
  /\ pc' = "reemit"
  /\ UNCHANGED <<dry, content, committed, public, notified, status, told, rc, outputs>>

ReemitExitCode ==
  /\ pc = "reemit"
  /\ red' = (red \/ rc # 0)
  /\ pc' = "ended"
  /\ UNCHANGED <<dry, content, committed, public, notified, status, told, rc,
                 outputs, dispatched>>

Next ==
  \/ Collect \/ Generate \/ Publish \/ Notify \/ HealthTracking \/ Report
  \/ Crash \/ Kill \/ TriggerPages \/ ReemitExitCode

Spec == Init /\ [][Next]_vars

-----------------------------------------------------------------------------
\* Types, and no stage adds segments: documents on main were drafted, and so
\* were those of the bundle.
TypeOK ==
  /\ dry \in BOOLEAN /\ flawed \in BOOLEAN /\ committed \in BOOLEAN
  /\ fanout \in BOOLEAN /\ notified \in BOOLEAN
  /\ dispatched \in BOOLEAN /\ red \in BOOLEAN
  /\ pc \in Stages \cup {"pages", "reemit", "ended"}
  /\ drafts \subseteq Segments /\ main \subseteq drafts
  /\ bundle \subseteq drafts
  /\ messages \subseteq [named : SUBSET Segments, missing : SUBSET Segments]
  /\ status \in {"running", "success", "partial", "failed"}
  /\ alerts \subseteq Stages \cup {"boot"} /\ unheard \subseteq Stages \cup {"boot"}
  /\ outputs \in {"none", "lost", "true", "false"}
  /\ rc \in {None, 0, 1, 2}

\* Whatever tells the public of a publication, the channel, the webhooks or
\* the deployment, is preceded by documents on origin/main (the stage order,
\* publication_committed and the condition of the Pages step).
AnnouncedIsPublished ==
  messages # {} \/ fanout \/ dispatched => main # {}

\* The message accounts for every segment: the named ones are those that were
\* published, the others are named as missing (NotifyStage).
MessageIsComplete ==
  \A message \in messages :
    message.named = main /\ message.missing = Segments \ main

\* A green job published every segment, unless it rehearsed
\* (_pipeline_exit_code and the step that re-emits it).
GreenIsComplete ==
  pc = "ended" /\ ~red /\ ~dry => main = Segments

\* A job in which the public was not told of every segment is red, or the
\* operator got an alert about the announcement (_pipeline_exit_code,
\* _safe_alert).  One case is silent in the code and is stated as such: all
\* segments are on main, and neither the message nor the alert about it
\* arrived.  The exit code is 0 then, and a WARNING in the log of a green job
\* is all there is; an alert that did not arrive for any other stage, or for an
\* incomplete publication, leaves the job red.
NothingSilent ==
  pc = "ended" /\ ~dry /\ ~(notified /\ main = Segments) =>
    \/ red
    \/ "notify" \in alerts
    \/ main = Segments /\ "notify" \in unheard

\* Published documents whose deployment was not started make the job red, if
\* the process could write its outputs.
PublishedIsDeployed ==
  pc = "ended" /\ main # {} /\ ~dispatched => red \/ outputs = "lost"
=============================================================================
