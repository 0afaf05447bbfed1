# TLA+ specifications of investo

investo collects market news once a day, has an LLM write one briefing per
market segment, publishes the documents as commits on `main` of its own
repository, announces them on a Telegram channel and lets GitHub Pages deploy
the site.  The code is Python under `src/src/investo`, the schedule is GitHub
Actions under `src/.github/workflows`.  Nothing but the repository itself, the
runner's disk for the length of a job, and one environment secret persists:
every guarantee hangs on files, commits and exit codes written in the right
order.

These specifications model that part of the system: who writes which file,
commit, secret or receipt, in which order, and what is left behind when a step
fails, a result is lost, a coroutine is cancelled or the process dies.

## 1. The system

### 1.1 Components

Paths are below `src/src/investo` unless they name another directory.

| Component | State | Operations | Hard behaviour | What makes it correct |
|---|---|---|---|---|
| Publication receipts: `publisher/publication_receipts.py`, `models/publication_receipt.py` | local HEAD, tracking ref, receipt (commit, status, content hash), phase; origin/main | `publish_with_receipt`, `observe_remote`, `reconcile_publication` | lost results of every Git command, pushes that arrive late, other writers, an interrupted rebase, death | receipts are true; rollback only before a commit; published once, whole, on the metadata it was made from |
| Publish stage: `orchestrator/pipeline.py` (`PublishStage`, `_to_thread_drained`, `_rollback_paths`), `orchestrator/_stage_support.py` | public files, index, snapshots, the awaited worker | write, gate, commit, roll back | cancellation while a thread writes, failing rollback | all files new and committed, or all as before |
| Pipeline run: `orchestrator/pipeline.py` (stage loop), `__main__.py`, `daily-briefing.yml` | drafts, bundle, status, alerts, exit code, outputs | collect, generate, finalize, publish, notify, health, report, exit, pages | segments lost at any stage, failures after the commit | nothing announced that is not published; nothing silent; green means complete |
| Codex runtime: `orchestrator/codex_runtime.py`, `codex_secrets.py`, `briefing/codex_cli.py`, `_internal/cli_process.py` | `auth.json`, the environment secret, a lock, the CLI's process group | call the CLI, checkpoint, close, persist, exit | threads that outlive their coroutine, a CLI that rotates its credential and may not die, signals during cleanup | the secret is the last credential; a lost one shows |
| News windows: `orchestrator/news_window.py`, `models/news_window.py` | `news_cursors.json`: cursor per segment and source, seen revisions | plan, fetch, filter, prepare the ledger | overlapping runs, partial fetches, late documents, forgetting | none lost, none again while it is remembered, cursors only advance |
| Insights publication: `orchestrator/insights_publication.py`, `publisher/insights/store.py` | journal directory with backups, bundle files, receipt | recover, stage, commit, observe, finish | death anywhere, unknown commits, a bundle that is half written | no half bundle without a journal; no commit lost or rolled back |
| Sector store: `sector_dashboard/public_store.py` | two public files, prepared and backup directories, marker, lock | promote, hold, read, recover | death in promotion, in rollback and in cleanup | the pair is replaced as one |
| Event and story ledgers: `orchestrator/event_*.py`, `publisher/event_archive_reader.py` | event identities of thirty days, story records | read at one commit of origin/main, compare facts, advance stories, merge | stale baselines, clocks of overlapping runs, forgetting | old facts are not news again; stories only go forward |
| Public document finalizer: `publisher/public_document.py`, `_public_document_policy.py`, `numeric_containment.py` | blocked segments, minimal sources, documents of a pass | assemble, repair, contain, gate, seal, start over | a segment blocked after others were sealed, repairs that hide findings, a bounded loop | one set of survivors; no finding repaired away; no survivor lost |
| Legacy commit and push: `publisher/git_ops.py` | clone, origin/main | add, commit, push, rebase | lost push results, a stopped rebase | on main once |
| Delivery and alerts: `notifier/`, `_internal/retry_budget.py`, `orchestrator/boot_alert_dedup.py`, `source_health.py` | retry budget, ledger of sent alerts | send, retry, plain-text fallback, deduplicate | timeouts after delivery, a shared budget | no needless copy; an alert that is due is tried |
| Source retries: `sources/_retry.py`, `aggregator.py` | attempts, total budget | get, sleep, isolate adapters | cancellation by the budget | one source cannot lose the others' items |
| Generation: `briefing/pipeline.py`, `claude_code.py`, `llm.py` | retry budget per segment | generate, segment after segment | one of three segments raises | the others are generated |
| Workflows: `sector-dashboard.yml`, `pages.yml`, `event-preview.yml` | concurrency groups, deployments | commit and push, deploy | independent jobs on one branch | the newest commit is deployed |
| Rendering, adapters, projections, visuals, histories, models, scripts | none that outlives a call (histories: one file each) | text and data | – | decided by tests |

### 1.2 How they interact

```
 daily-briefing.yml
   __main__ -- Codex runtime (supervisor) ........................ CodexRuntime
      | runs                                    | checkpoint before publication
      v                                         v
   stage loop: collect > generate > finalize > publish > notify > health
      |             |            |        |       |      ......... Pipeline
      |             | news plan, |        |       +-- dispatches ... Outbound =
      |             v filter     v        |              GitPush + Delivery
      |        news windows   finalizer   v
      |         NewsWindow    Finalizer  publish stage ........ PublishStage
      |             |            |        | commit thread
      |             |  event and |        v
      |             |  story     +-> publish_with_receipt .. PublicationReceipts
      |             |  ledgers   |   (or commit_and_push ... GitPush)
      |             +------------+                          implements
      |              EventLedgers                          PublicationContract
      |   insights phase ----------------^
      |    InsightsTransaction
      v
   exit code, outputs > pages.yml                 sector store   SectorStore
                                                  implements  AtomicPair
```

* The publish stage and the insights phase call `publish_with_receipt`; they
  rely on its phases only (`pre_commit`, `post_commit`, `commit_unknown`).
  `PublicationContract` is that promise.  `PublishStage`, `InsightsTransaction`
  and `Pipeline` use it as an environment, `PublicationReceipts` is shown to
  implement it.
* The news ledger and the event and story ledgers are metadata files of that
  commit, so two runs that overlap are decided by its compare-and-swap:
  `SameBase` of `NewsWindow` and of `EventLedgers` is
  `PublicationReceipts.MetadataSwap`.
* The finalizer decides which segments the later stages publish and announce.
  `Pipeline` takes its outcome (a bundle of some survivors, or none) as any
  choice; `Finalizer` shows what a bundle is made of.
* A run with neither news nor event ledger uses `commit_and_push`.  Its message
  depends on that push only, and alerts of earlier stages share the message's
  retry budget: `Outbound` composes the two.
* The Codex supervisor interrupts the stages between generation and
  publication (`authorize_commit`); `CodexRuntime` takes the rest of the
  pipeline as "generates", "publishes" and "returns an exit code".
* The sector store belongs to another job and shares only `main`.

## 2. The modules

One module per component, one action per statement, or group of statements,
between which another process can act, a call can fail or the process can die.
`PROJECT.json` maps every definition to its lines.  Content is a version, a
bundle number or a model value; text is left out throughout.  Operators marked
"a bug" are plausible mistakes in the definition that follows them; nothing
uses them, they are put in its place to see that each property notices one.

**PublicationReceipts.**  The remote branch is a sequence of commits, a commit
its parent's position and its tree, and a tree has two paths: `meta` (what the
compare-and-swap protects) and `body`.  `step` is the next statement of
`publish_with_receipt`; `Preflight`, `Stage`, `Commit`, `ReadHead`,
`HashContent`, `Push`, `Observe`, `ObserveAgain`, `Rebase`, `Abort`,
`Inspect`, `Verify` and `Rehash` follow it in order.  Every Git command may
fail without effect, or take effect and lose its result; a push whose client
gave up is put into `delayed` and may arrive at any later moment.  Every
receipt goes through `Record`, the sink that may fail.  `OtherWriter`,
`LatePush` and `Crash` are the environment.

**PublicationContract.**  The same call without Git: the branch grows, the
publication joins it at most once on unchanged metadata, and the call ends
`confirmed`, `clean` or `retained`.  Refinement: the branch is `remote`, and
`Outcome` reads the ending off `step` and `phase`.

**SectorStore** and **AtomicPair.**  Every write, rename, unlink and directory
removal is a step that may fail with or without effect, and the process may die
there; memory (`state`, `existing`, `cleaning`) is lost, the disk is not.
Recovery takes a pair it fails to read for none (`ReadPair`) and goes on.
`AtomicPair` is one version that switches in one step and can be undone only to
the version before it and only until somebody was told.  Refinement: the
published version is what a reader gets after recovery: while the marker stands,
the new pair if both files are in place, else the old one.

**InsightsTransaction.**  Runs follow each other over one clone, another clone
(`FreshClone`) and a remote others publish to.  A journal is its base commit,
its bundle, the old content of every file, the backups that still exist, and
the last receipt.  `mode` tells what a rollback is part of, since recovery, a
failed preparation and a `pre_commit` failure share `Check`, `RestoreIndex`,
`Restore` and `Finish`.

**NewsWindow.**  The committed ledger, and per run its clock, the ledger it
read, what it fetched and whether it saw everything.  `delivered`,
`settled` (when a window last consumed the document) and `beyond` are history,
used by properties only.  A document covers an interval: one instant if its
timestamp is exact, a day if only its date is known.

**Pipeline.**  One run from the first stage to the colour of its job.  Sets of
segments shrink from stage to stage; a stage fails, crashes or is killed; the
process's exit code and outputs, and the last two steps of the workflow, decide
what is deployed and what is red.  Commit and push are one step.  An alert
(`Alerted`, the whole of `_safe_alert`) arrives and joins `alerts`, or fails in
both attempts and joins `unheard`, which the code only logs.

**PublishStage.**  Files on disk, index and HEAD; the coroutine starts a thread
per write (`StartWrite`, `Write`), `Cancel` throws into it while it waits, and
`Resume` or `Raise` continues when the worker is done.  The order of the writes
is left open, which includes the code's.  A failing `RollBack` sets `broken`.

**CodexRuntime.**  Threads that call the CLI (`Wait`, `Acquire`, `Check`,
`Launch`, `Capture`, `StopProcess`) against the supervisor (`Verify`,
`Execute`, `Close`, `Quiesce`, `Read`, `Put`, `Publish`, `Exit`).  `auth` is the
file, a number that a living CLI increments; `secret` is what the next run will
restore; `persisted` is what this run believes is stored.  `part` tells the
checkpoint from the last preservation: both run the same four steps and differ
in what a failure does.  A cancelled coroutine leaves its thread running, so
threads and supervisor share nothing but the runner's lock and flags.  `Kill`
ends the process and its threads, but not the CLI's own session.

**GitPush**, **Delivery** and **Outbound.**  `GitPush` is the push without a
receipt, one action per Git command: `Commit`, `Push`, `PushRejected`, `Fetch`,
`Rebase` and their failures; a push may be taken by the remote and its answer
lost.  `unpushed` and `committed` tell where the commit is, `Advance` is any
other job (the sector job's single `git push` is one).  `Delivery` is one
Telegram dispatch: Markdown, then plain text, each with retries that are charged
to `used`, the process's budget; `copies` is what arrived in the chat.
`Outbound` lets a run send an alert for a segment, push, announce, and send the
alert of the stage that failed, with `_safe_alert`'s second attempt.  It
EXTENDS the other two: `Announce` waits for GitPush's `step`, every dispatch
draws on one `used`.

**Finalizer.**  A pass finalizes every segment that is not blocked, from its
original draft, under a context made for these segments.  A layout is a function
from regions to bodies, a body the codes of the surface scanner and the findings
of the trust gates; a link inside a protected region is a code of its own, which
blocks everywhere.  `Disposition`, `Decision` and `Applied` are the policy
tables and the one action a region gets; `RepairSurface`, `Contain`,
`ValidateBlocked` and `Seal` are the steps of a draft in the code's order;
`SealNative` and `NativeBlocked` those of an event edition.  `StartPass`,
`EndPass` and `Exhaust` are the bounded loop, for legacy bundles (twice the
number of segments) and for bundles with native drafts (the number of
generated segments + 1).

**EventLedgers.**  The committed ledgers (for each event its facts and last
evidence; for each story its state, time and disposition), and per run its clock
and the ledgers it read.  `Known` and `Added` are the comparison of facts,
`Deltas` the follow-ups that the sealed documents may carry, `NewIdentity` and
`NewStory` what is written, `Publish` the commit with its compare-and-swap.
`told` is history, used by properties only.

## 3. What is checked

| Run | Module, instance | Bounds and why they are enough |
|---|---|---|
| `receipts` | `MCPublicationReceipts`: three histories, three publications (both paths, one, nothing), four trees of other writers | `MaxOther` 3: one commit before the push, one between observation and rebase, one after the rebase. `Retries` 2: a retried attempt, and the ceiling on confirmations |
| `sector` | two versions | Four faults when there is a pair (promotion, rollback, its own rollback and recovery each interrupted), one before there is any |
| `sector_stranded` | the first publication | two faults: see finding 1 |
| `insights` | two files | Three bundles (a transaction, its successor, and one published elsewhere), two faults: one that leaves a journal, one in its recovery |
| `insights_stuck` | two files, one bundle | one fault: see finding 2 |
| `news` | two segments that share a fetch, one document, two overlapping runs | a document of time 0, exact or known by its date only; time 0..4 with a horizon of 2, overlap and delay of 1, a run of up to 1: bootstrap, overlapping windows, segments whose cursors drift apart, an outage longer than the horizon, and a revision forgotten while its date is still within reach all happen |
| `events` | two markets with a story and an event each, three facts, two overlapping runs | time 0..3, retention of 2 days, a run of up to 1: evidence expires, a story closes, is archived and is forgotten while another run is under way |
| `run` | three segments, as in `SEGMENT_ORDER` | no bound: a run is finite; every alert may arrive or not |
| `finalizer` | three segments, any of them absent or native; layouts of four regions | at most one region with surface codes and one with claims: one for each disposition and each kind of containment. No bound on the passes but the code's |
| `outbound` | three pushes and three retries, as in the code | two commits of other jobs: one before each rebase that is followed by a push; a budget of 3, less than what the message and its alerts may ask for |
| `publish` | three written files, one metadata file | one before, one under and one after the worker, each absent or present before |
| `codex` | two calls | one in the CLI and one at any point behind it; two rotations: one before and one after the checkpoint has read the file |

`news` and `events` use symmetry (interchangeable runs, and for `news`
segments); both check safety only.

What they show:

* `receipts`: a receipt that says `remote_confirmed` names a commit of the
  branch with exactly the content that was to be published
  (`ConfirmedIsPublished`); the publication lands only on the metadata it was
  made from (`MetadataSwap`); whenever the process dies, the last persisted
  receipt names what the remote holds (`PublishedIsRecorded`); the call
  implements its contract, which says that a failure in phase `pre_commit`
  leaves no commit here or under way and that the publication lands whole and
  once (`MeetsContract`); and it ends (`Terminates`) within `retries` + 1
  attempts and two observations (`TypeOK`).
* `sector`: no half pair without a marker, the marker always allows recovery,
  the store implements one atomic version, so an outcome that was told stays
  (`IsAtomic`), and an interrupted transaction is eventually settled
  (`EventuallyRecovered`).  `NoStrandedPair` fails for a first publication with
  two faults (`sector_stranded`).
* `insights`: no clone is left unlike its HEAD without a journal
  (`CleanWithoutJournal`), a committed bundle is never rolled back
  (`CommittedSurvives`), a commit nobody has seen on the remote is retained
  (`UndecidedIsRetained`), and old content exists somewhere until it is decided
  (`OldContentKept`).
* `news`: what the cursor has passed was delivered, unless no window the code
  could plan held it (`NoSilentLoss`, with `beyond` naming that excuse); what a
  window consumed is not given to the segment again within the horizon, less
  what a run may last (`NoRedelivery`); cursors never go back
  (`CursorMonotonic`).  `NoRedelivery` does not say "never again", because that
  is false of the code for documents known by their date (3.3).  They occur in
  the instance, and the bound is tight: one unit more, and TLC finds such a
  document given again.
* `events`: a fact is told as new again only when its event had no evidence for
  the retention period less what a run may last (`NewsIsNew`); a committed story
  never loses evidence or state, changes no more once closed, and is forgotten
  only long after (`StoriesGoForward`).  A run with the earlier clock that
  dropped, instead of rejecting, what a later one published would break the
  first.
* `finalizer`: the documents of a bundle are those of its survivors, each made
  for exactly these (`OneSurvivorSet`); what a trust gate found before repair is
  blocked, or reported by a degraded domestic document (`EvidenceSurvives`); the
  bundle is given up only if every generated segment was blocked, so the number
  of passes is enough, and never for the bookkeeping of omitted regions
  (`NoLostSurvivor`).  Two ends are excluded and named in the property: a
  handler raised, or a legacy domestic draft beside native ones asked for its
  minimal source and nobody caught the request (`escaped`, see 3.3), which loses
  every survivor.  The property says that no other bundle ends that way.
* `outbound`: the chat hears of the documents only when they are on main
  (`AnnouncedIsOnMain`); main has the commit once (`OnceOnMain`); a push gives up
  only for as many troubles as it had attempts, or a failed rebase
  (`FailureIsCaused`); a second copy of the message needs a lost answer
  (`NoNeedlessCopy`); an alert that is due is delivered, or tried as often as it
  may be, whatever is left of the budget (`AlertIsTried`).
* `run`: nothing is announced or deployed that is not on main
  (`AnnouncedIsPublished`); the message names what is, and calls every other
  segment missing (`MessageIsComplete`); a green job published all segments
  (`GreenIsComplete`); published documents are deployed or the job is red,
  unless its outputs were lost (`PublishedIsDeployed`).  When the public was not
  told of every segment, the job is red or the operator got the alert about the
  announcement, with one exception that the property names: all segments are on
  main, and message and alert were both lost (`NothingSilent`, see 3.3).
* `publish`: an uncommitted stage that raised left everything as it was
  (`Restored`), committed files stay (`CommittedIsKept`), a stage that returned
  has committed and swallowed no cancellation (`ReturnedIsCommitted`), and no
  thread writes after the end (`NoLateWrite`).
* `codex`: from the publish stage on, even when the process is killed, the
  secret is the credential the CLI wrote last (`PublishedIsStored`); every exit
  code but 1 means that it is stored (`LossIsReported`); there are never two
  CLI processes on one credential (`OneProcess`); once `close()` was called
  every call ends and gives the lock back (`Quiesces`).

### 3.1 Fairness

* `receipts`: WF of the publisher's steps.  Each Git command has a timeout and
  the code between them is sequential.  Other writers, late pushes and the
  death of the process are not fair.
* `sector`: WF of the process and of `Start`, since the job is scheduled daily
  and every entry point begins with recovery.  Faults are bounded; a disk that
  fails for ever is never recovered.
* `codex`: WF of the supervisor and of each thread: every wait has a deadline
  (lock timeouts, `capture`'s deadline, stop and reap deadlines, the work's
  limit).  Rotation and arrival of calls are not fair.
* All other runs check safety only and state none.

### 3.2 Findings

1. **A first sector publication can strand half a pair**
   (`sector_stranded`; `sector_dashboard/public_store.py:210`).  The prior pair
   and its marker are written again before a rollback only if there was a prior
   pair.  If the very first promotion fails after the marker's unlink took
   effect, the rollback unlinks two files without a marker; dying between them
   leaves one file, and every later operation raises `pair_invalid`.  The
   comment at line 211 promises that a second interruption cannot do this.
2. **An interrupted preparation can block insights for good**
   (`insights_stuck`; `publisher/insights/store.py:340`).  The journal's
   directory is made before `journal.json` and removed in any order; a failure
   in between leaves a directory that every later run rejects, although nothing
   was committed.  The module promises recoverable preparation.

### 3.3 Observations

Disagreements met while modelling.  None is a listed finding: each would need a
module of its own, an instance that shows nothing else, or rests on text that
the models leave out.

* With Telegram down and all segments published, the notify stage fails, both
  attempts at its alert fail, and the exit code is 0
  (`pipeline.py:4824-4841`, `__main__.py:341-347`): the job is green, nobody was
  told, and a WARNING in its log is all there is.  `NothingSilent` states this
  end as its third alternative; without it TLC finds it at once.  Every other
  lost alert leaves the job red.
* `orchestrator/news_window.py:425` forgets a revision after seven days, while a
  window may reach back exactly seven days and a document known by its date
  covers the rest of its day: after an outage of seven to eight days it is
  consumed again.  `news` contains such documents, and `NoRedelivery` bounds the
  repetition from below.
  The code also forgets by the clock of the run that publishes.  A run that
  started earlier, and publishes after it, plans a window that reaches further
  back, so that even an exact document can return, the sooner the longer runs
  last: `NoRedelivery` subtracts `Duration`.  The workflow's concurrency group
  (`daily-briefing.yml:96-98`) lets the scheduled jobs of a branch only follow
  each other, so that it takes a run from elsewhere.
  `models/news_window.py:134` records a gap of 0 for cursors of six to seven
  days, whose overlap is already cut short.
* `_pipeline_exit_code` (`__main__.py:343`) looks at the bundle's completeness
  first, and a failed publish stage hands over its bundle
  (`pipeline.py:4221`): exit code 2 without a commit, which
  `daily-briefing.yml:67-68` documents as committed.  The job is red either way
  (`PublishedIsDeployed`, `NothingSilent` hold).
* `_finalize_variant_bundle` (`public_document.py:4617`) does not catch
  `_MinimalFallbackRequestError`; with native and legacy drafts in one bundle
  the request ends the run with no bundle (`result = "escaped"`), although other
  segments survived.  The comment at `pipeline.py:4405-4407` says that all
  terminal gate failures arrive as `PublicDocumentFinalizationError`; this one
  does not.  `NoLostSurvivor` excludes this end for exactly those bundles.
* The finalizer's business rule of `len(SEGMENT_ORDER)` passes (unit 144,
  `business-rules.md:239`) would lose a survivor, as the mutant `OnePassEach`
  shows; the code (`public_document.py:4010`) uses twice as many.
* Event receipts of schema two that are later than a run's clock are dropped
  without a word (`event_receipts.py:104-107`), so that the run's own publication
  erases them; schema three rejects the ledger instead.  The mutant
  `FutureFiltered` is the former.
* A document has at most three follow-ups (`briefing/event_story.py:72`), but
  identity records take every fact of the plan
  (`public_document.py:4549-4611`): the transition of a fourth story is known
  afterwards, hence never told.
* Stories archived as unknown are never dropped, and a story ledger above its
  size limit fails every later publication.
* `_internal/retry_budget.py:1-26` says sources, Telegram and Git push share the
  budget; only `_telegram.py:147` asks for it.  `Delivery` charges what the code
  charges.

## 4. What is proved

For every value of the constants, from the named assumptions on them
(`ConstantsAssumption`, `StageAssumption`, `PipelineAssumption`,
`RuntimeAssumption`, `GitPushAssumption`, `DeliveryAssumption`,
`IdleAssumption`, `OutboundAssumption`, `FinalizerAssumption`,
`StoreAssumption`, `InsightsAssumption`, `JournalAssumption`,
`EventLedgersAssumption`, `NewsAssumption`), each by an inductive invariant with
one lemma or step per action.  TLC checked each
invariant on its component's instance before it was proved.  Most assumptions
say that a number is a natural one or that a "none" differs from what it stands
beside; the others (histories that are well formed, supplements that may be
omitted) are what the code's callers establish.

* **PublicationReceiptsProofs** – `TypeCorrectness`, `SwapSafety`,
  `Confirmation`, `Recording`, `Refinement`.
  `MetadataSwap` is not inductive: a push may be delayed, and the branch may
  move and move back in content while it is.  The strengthening `SafeToPush(c)`
  says of every commit that is, or may be, pushed: either the branch has grown
  past its parent, so it is no fast-forward and never will be, or its parent
  is the tip with the right metadata.  Other writers keep it because the branch
  only grows (`Chain`); the rebase keeps it because `Rehash` compares the new
  parent's metadata.  `Counters` ties attempts and observations to the step,
  which gives the ceilings in `TypeOK`.
  On top of it, `Ledger` says what a receipt is worth at each step: the commit
  it names is the one that is hashed, pushed and looked for (`Content`); before
  the first push nothing is published or under way, and afterwards every commit
  that can still arrive has the sink's last receipt (`Recorded`); the rebase
  starts from a commit that is not on the branch, so it never names a second
  one while the first is published (`Aims`).  `Truthful` extends
  `ConfirmedIsPublished` to every receipt the sink ever took.
  `Refinement` is a step simulation: `ContractInit` and, in
  `ContractStep`, one step per action that changes `remote` or `Outcome`; the
  others stutter (`control`).  It uses
  `Phased` for "clean" and `SwapSafety`'s invariant for the publication itself.
* **SectorStoreProofs** – `Recovery` (`Recoverable`), `Unstranded`
  (`NoStrandedPair`), `Atomicity` (`IsAtomic`), for any number of failed steps
  and deaths.  `Recoverable` is about the marker on disk, so the invariant
  follows the running step: what is staged while there is no marker (`Staged`),
  that the files change only under a marker whose backup is complete
  (`Written`), that a restoring step has the files it restores or a marker for
  the next one (`Restored`), and that a rollback after the marker is gone writes
  a fresh backup and marker first (`Restaged`).  `Unstranded` has a hypothesis,
  `FirstTimeIsCalm`: a behaviour starts with a pair, or meets at most one fault.
  It is needed, see finding 1; with a pair, `Seasoned` says that there always is
  a prior one to go back to.  `Atomicity` has no such hypothesis: it rests on
  `Traced` (what a promotion writes is told from what was there before).
* **InsightsTransactionProofs** – `NothingIsHalfDone` (`CleanWithoutJournal`),
  `CommitsAreKept` (`CommittedSurvives`), `UndecidedIsNamed`
  (`UndecidedIsRetained`), `OldContentIsKept` (`OldContentKept`), for any set
  of files, number of bundles and of faults.  All four are parts of `CloneOK`,
  the clone as its journal sees it.  It needs `StepOK` (which files a step in
  the middle has already written or restored) and `PreparingOK`: until its
  commit, a bundle is fresh, so that no late push of an earlier one can be taken
  for it.  `Numbers` makes every bundle's number one that was handed out.
* **PipelineProofs** – `Announcements` (`AnnouncedIsPublished`), `Messages`
  (`MessageIsComplete`), `GreenJobs` (`GreenIsComplete`), `JobColour`
  (`NothingSilent`) and `Deployments` (`PublishedIsDeployed`).  The invariant
  says what is public, known and alerted at each stage (`StageOrder`,
  `PublishedBundle`, `Alarm`, `JobEnd`); `Alarm` follows the alerts that
  arrived and those that did not.
* **CodexRuntimeProofs** – `CredentialSafety` (`PublishedIsStored`),
  `NoQuietLoss` (`LossIsReported`) and `Serialized` (`OneProcess`), for any
  number of calls and rotations.  `PublishedIsStored` alone says nothing of a
  CLI that might still rotate.  `AtRest` does: after `close()` has had the lock,
  no call is past its second look at the flags and no process group is alive, so
  the file cannot change.  `Survivors` is needed for it: a process that outlived
  `stop_process` leaves `_cleanup_failed` set, which both refuses further calls
  and prevents the file from being read.
* **OutboundProofs**, on `Outbound` – `PushedOnce` (`OnceOnMain`), `PushedFirst`
  (`AnnouncedIsOnMain`), `GivingUp` (`FailureIsCaused`), `CopiesAreLost`
  (`NoNeedlessCopy`) and `AlertsAreTried` (`AlertIsTried`), for any number of
  attempts, retries, other jobs and any budget.  `OnceOnMain` is not inductive:
  a second push is harmless only because the first took the commit along.
  `Whereabouts` says where it is: nowhere, local, or at one place of main;
  `Silence` that no dispatch carries the briefing while main does not have it.
  `Effort` pays for each attempt with a trouble, counting those of the commits
  of others that the branch does not contain yet.  `Sendings` follows the
  messages: what a stage may send and owes (`Stages`), the POSTs counted so far
  (`Tallies`), that copies are lost answers until an exchange ends (`Exchange`),
  and that an alert is delivered, tried out or under way (`Tries`).
  On `PublishStage` – `RollBackSafety` (`Restored`), `CommitSafety`
  (`CommittedIsKept`), `ReturnSafety` (`ReturnedIsCommitted`) and `Drains`
  (`NoLateWrite`), for any set of files.  `Snapshots` says a snapshot is what the
  stage found, `Progress` that a file without one is untouched and that the
  commit starts only when all are new, `Worker` that the coroutine never leaves
  a thread behind.  Without `Progress` a rollback could leave a new file that
  has no snapshot.
* **BriefingProofs**, on `Finalizer` – `BundleSoundness` (`OneSurvivorSet`), `FindingsSurvive`
  (`EvidenceSurvives`) and `NoneIsLost` (`NoLostSurvivor`), for every set of
  segments, assignment of block kinds and layouts.  `Accounting` divides the
  active segments into those to do, sealed, newly blocked and waiting for their
  minimal source, so that a pass that ends without the last two has sealed all
  of them, once each.  `Explained` follows the evidence of a draft:
  it still is what the gates find in its layout, so that the draft cannot be
  sealed, or the draft was contained.  `Passes` bounds the passes by the blocked
  segments and the one minimal source, `Artifacts` relates the omitted regions
  to the forms of a layout, `Escapes` the request nobody catches to native
  drafts beside a legacy domestic one.
  On `NewsWindow` – `CursorsAdvance` (`CursorMonotonic`), `NothingIsLost`
  (`NoSilentLoss`) and `NothingIsRepeated` (`NoRedelivery`), for any recipients,
  documents and number of overlapping runs.  `NothingIsLost` assumes
  `OverlapCoversDelay`: what appears later than the overlap looks back is lost,
  as the code intends.  `Complete` says what a complete fetch holds although
  documents keep appearing, `Remembrance` that a seen revision was delivered.
  `NothingIsRepeated` has no hypothesis: dates, exact timestamps and any overlap
  of runs.  `Recalled` says that the ledger remembers when a document was last
  consumed, behind a cursor, until more than `Horizon` has passed since; no run
  under way is more than `Duration` behind the present.
  `ExactNewsIsGivenOnce` is the stronger `GivenOnce`, "never again", under the
  hypothesis `Punctual`: every timestamp is exact, and runs follow each other or
  differ by no more than the slack of the memory.  Both are needed (3.3), and no
  run checks it.  `Consumed` says there that what was consumed is remembered, or
  lies before every window that a run under way or to come can plan
  (`OutOfReach`).
* **EventLedgersProofs** – `OldFactsStayOld` (`NewsIsNew`) and `StoriesAdvance`
  (`StoriesGoForward`), for any markets, stories, facts, number of overlapping
  runs and periods.  `Memory` says that a fact that was told is in the ledger,
  with evidence at least as late, or was told longer ago than the retention;
  `Clocks` that no run is older than `Duration`; `Dispositions` that only silence
  archives a story that is not closed.

`OutboundProofs` and `BriefingProofs` each hold the theorems of two components;
`PublishStage` and `NewsWindow` prefix `Init`, `Next` and `Spec` so that a module
can extend them beside another.  No theorem is about both.

`TypeOK` of `PublicationReceipts` is a theorem of its own; elsewhere the types
are a conjunct of the inductive invariant (`OnDisk` and `TypeOK` of
`SectorStoreProofs`, `GitTypeOK` and `Tallies` of `OutboundProofs`).

Only model-checked:

* Liveness (`Terminates`, `EventuallyRecovered`, `Quiesces`), which is out of
  the prover's reach as it needs fairness and ENABLED.
* That the two violations of 3.2 happen, and that the exceptions stated in
  `NothingSilent`, `NoLostSurvivor` and `NoRedelivery` do: TLC's counterexamples
  show it.

## 5. What is not modelled

* A death is a death of the process, not of the machine: what the code wrote
  and renamed is on disk, and `fsync` only appears as a step that may fail.
* Text: rendering, prompts, parsers.  Each is an outcome (rendered or failed)
  that the models leave open.  `Finalizer` keeps of a text what the scanner and
  the gates report of it; what assembly writes is any of `Layouts`.
* The finalizer's last gates that have no effect but to block (summary,
  preamble, disclaimers) are one nondeterministic `ValidateBlocked`.
* Generation of segments: sequential, a retry loop per segment with a budget of
  its own; whether a segment was generated is an input of `Pipeline`, the CLI's
  threads are in `CodexRuntime`.
* Source adapters and their retries: stateless coroutines under one total
  budget; what a fetch returned (everything, a part, nothing) is an input of
  `NewsWindow`.
* The ledger that suppresses repeated boot alerts, and the webhooks: one process
  writes, the next run reads.
* The sector job's, the preview's and the pages' workflows: independent jobs,
  one push without retry (`sector-dashboard.yml:68`).  That other jobs push to
  main is part of `PublicationReceipts`, `InsightsTransaction` and `GitPush`.
* Schema two of the event receipts, which schema three replaces.
* Numbers: sector metrics and quality scores.
* Ownership, inode and symlink checks, encryption and validation of documents:
  failed steps.
* Replay, dry and shadow runs of news and insights, which return before they
  write.  `NEWS_WINDOW_ACTIVE_READY` is `False` at this commit: `NewsWindow`
  models finished code that no schedule activates yet.
* The insights phase's and the pipeline's weekly digest, quality traces and
  early exit on an invalid configuration: they influence no modelled state.
* Most of the source by lines (about three quarters) is text and numbers:
  adapters, renderers, the sector's metrics, surface rules, models with
  validators.  It keeps no state and orders nothing; modelling it would
  restate it.

## 6. Plan

Done, in this order: PublicationReceipts with its contract; SectorStore with
AtomicPair; InsightsTransaction; NewsWindow; Pipeline and PublishStage;
CodexRuntime; GitPush, Delivery and Outbound; Finalizer; EventLedgers.  Proved:
every invariant and every action property the runs check, and both refinements.

To come: the source adapters' total budget (`sources/_retry.py`), the one hazard
without a property; and the parts of EventLedgers, Delivery and the finalizer
that are left out (see `PROJECT.json`).
