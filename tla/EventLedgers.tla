------------------------------ MODULE EventLedgers ------------------------------
(***************************************************************************)
(* What the event briefings of schema three remember from run to run          *)
(* (orchestrator/event_publication.py, event_receipts.py, event_story.py):    *)
(* for each market the events that were published, with their facts, and in   *)
(* one ledger for all markets the stories the events belong to.  A run reads  *)
(* both at one commit, tells as new the facts they do not contain, advances   *)
(* stories on new facts only, and publishes the ledgers with its sealed       *)
(* documents, provided that they still are what it read (PublicationContract).*)
(*                                                                            *)
(* Time is counted in days.  A run's clock is the time at which it started:   *)
(* a run that started earlier may read what one that started later published. *)
(***************************************************************************)
EXTENDS Integers, FiniteSets

CONSTANTS
  Segments,      \* V3_SEGMENTS
  Stories,       \* keys of stories
  Market,        \* each story's segment
  Events,        \* canonical events
  StoryOf,       \* each event's story
  Facts,         \* each event's facts
  Closed,        \* the last of _ORDER: resolved or cancelled, 5
  Runs,          \* pipeline runs that may be under way at a time
  None,          \* no record
  Retention,     \* 30 days
  ClosedFor,     \* 90 days
  ArchiveAfter,  \* 180 days
  MaxActive,     \* active stories of a segment: 200
  MaxFollowUps,  \* story follow-ups of a document: 3
  Duration,      \* how long a run may last: the job's timeout
  MaxTime        \* bound: time

\* CanonicalEventReceipt, and StoryRecord.
IdentityRecords ==
  [first : Nat, last : Nat, facts : SUBSET UNION {Facts[e] : e \in Events}]
StoryRecords ==
  [state : 1..Closed, at : Nat, disposition : {"active", "closed", "archived_unknown"}]

ASSUME EventLedgersAssumption ==
  /\ Market \in [Stories -> Segments] /\ StoryOf \in [Events -> Stories]
  /\ {Retention, ClosedFor, ArchiveAfter, MaxActive, MaxFollowUps, Duration,
      MaxTime} \subseteq Nat
  /\ Duration < Retention /\ Duration < ClosedFor
  /\ Closed \in Nat \ {0}
  /\ None \notin Int \cup IdentityRecords \cup StoryRecords

VARIABLES
  now,      \* the time of day
  ledger,   \* committed event_identity_v3/*.json and event_stories_v3.json
  run,      \* the runs under way
  told      \* by event and fact: when a document last told it as new

vars == <<now, ledger, run, told>>

Idle == [pc |-> "idle"]
SegmentOf(e) == Market[StoryOf[e]]

Init ==
  /\ now = 0
  /\ ledger = [identity |-> [e \in Events |-> None], story |-> [s \in Stories |-> None]]
  /\ run = [r \in Runs |-> Idle]
  /\ told = [e \in Events |-> [f \in Facts[e] |-> None]]

-----------------------------------------------------------------------------
\* event_observed_at, run_started_at
Start(r) ==
  /\ run[r] = Idle
  /\ run' = [run EXCEPT ![r] = [pc |-> "started", clock |-> now]]
  /\ UNCHANGED <<now, ledger, told>>

\* load_event_v3_baseline: both ledgers at one commit.
Load(r) ==
  /\ run[r].pc = "started"
  /\ run' = [run EXCEPT ![r] =
               [pc |-> "loaded", clock |-> run[r].clock, base |-> ledger]]
  /\ UNCHANGED <<now, ledger, told>>

\* load_committed_event_identity_v3: a record from the run's future.
FutureFiltered(r, g) == TRUE        \* a bug, event_receipts' way: it is dropped

IdentityAvailable(r, g) ==
  \A e \in Events :
    LET old == run[r].base.identity[e]
    IN  SegmentOf(e) = g /\ old # None => old.last <= run[r].clock

Known(r, e) ==
  LET old == run[r].base.identity[e]
  IN  IF old = None THEN None
      ELSE IF old.last \in (run[r].clock - Retention)..run[r].clock THEN old
      ELSE None

Active(stories, g) ==
  {s \in Stories : /\ Market[s] = g /\ stories[s] # None
                   /\ stories[s].disposition = "active"}

Budgeted(stories) == \A g \in Segments : Cardinality(Active(stories, g)) <= MaxActive

\* load_committed_story_ledger
StoriesAvailable(r) ==
  /\ \A s \in Stories : LET old == run[r].base.story[s]
                        IN  old # None => old.at <= run[r].clock
  /\ Budgeted(run[r].base.story)

-----------------------------------------------------------------------------
\* compare_event_facts; report[e] are the facts of e in the sealed documents.
Added(r, report, e) ==
  report[e] \ (IF Known(r, e) = None THEN {} ELSE Known(r, e).facts)

\* event_identity_v3_bytes: a report without a new fact is no evidence.
Evidence(r, report, e) ==
  IF Added(r, report, e) = {} THEN Known(r, e).last ELSE run[r].clock

NewIdentity(r, sealed, report, e) ==
  IF SegmentOf(e) \notin sealed THEN run[r].base.identity[e]
  ELSE IF report[e] = {} THEN Known(r, e)
  ELSE IF Known(r, e) = None
       THEN [first |-> run[r].clock, last |-> run[r].clock, facts |-> report[e]]
  ELSE [first |-> Known(r, e).first, last |-> Evidence(r, report, e),
        facts |-> Known(r, e).facts \cup report[e]]

\* propose_story, and the checks of story_ledger_bytes.
Advances(r, report, e, state) ==
  LET prior == run[r].base.story[StoryOf[e]]
  IN  /\ Added(r, report, e) # {}
      /\ prior # None => /\ prior.state # Closed /\ state >= prior.state
                         /\ run[r].clock > prior.at

\* attach_story_follow_ups and the deltas of _seal_native_document: the state to
\* which an event moves its story; 0, none.  One event of a story, few stories
\* of a document, and a document may leave out the claim.
Deltas(r, report) ==
  {deltas \in [Events -> 0..Closed] :
     /\ \A e \in Events : deltas[e] # 0 => Advances(r, report, e, deltas[e])
     /\ \A s \in Stories :
          Cardinality({e \in Events : StoryOf[e] = s /\ deltas[e] # 0}) <= 1
     /\ \A g \in Segments :
          Cardinality({e \in Events : SegmentOf(e) = g /\ deltas[e] # 0}) <= MaxFollowUps}

\* story_ledger_bytes: closed stories are dropped, silent ones archived.
KeptClosed(story, clock) ==
  story.state = Closed /\ clock - story.at >= ClosedFor

KeptNothing(story, clock) ==        \* a bug: the clock of the archive for all
  clock - story.at >= ClosedFor

Forgotten(story, clock) == KeptClosed(story, clock)

NewStory(r, deltas, s) ==
  LET clock == run[r].clock
      current == {e \in Events : StoryOf[e] = s /\ deltas[e] # 0}
      next == IF current = {} THEN run[r].base.story[s]
              ELSE LET state == deltas[CHOOSE e \in current : TRUE]
                   IN  [state |-> state, at |-> clock,
                        disposition |-> IF state = Closed THEN "closed" ELSE "active"]
  IN  IF next = None THEN None
      ELSE IF Forgotten(next, clock) THEN None
      ELSE IF next.state # Closed /\ clock - next.at >= ArchiveAfter
           THEN [next EXCEPT !.disposition = "archived_unknown"]
      ELSE next

AnyBase(r) == TRUE                  \* a bug: no compare before the swap

SameBase(r) == ledger = run[r].base

\* prepare_event_v3_publication; sealed: the segments with a native document.
Publish(r, sealed, report, deltas) ==
  LET stories == [s \in Stories |-> NewStory(r, deltas, s)]
  IN  /\ SameBase(r)
      /\ StoriesAvailable(r) /\ \A g \in sealed : IdentityAvailable(r, g)
      /\ Budgeted(stories)
      /\ ledger' = [identity |-> [e \in Events |-> NewIdentity(r, sealed, report, e)],
                    story |-> stories]
      /\ told' = [e \in Events |-> [f \in Facts[e] |->
                    IF f \in Added(r, report, e) THEN run[r].clock ELSE told[e][f]]]
      /\ run' = [run EXCEPT ![r] = Idle]
      /\ UNCHANGED now

PublishSome(r) ==
  /\ run[r].pc = "loaded"
  /\ \E sealed \in SUBSET Segments \ {{}}, report \in [Events -> SUBSET UNION {Facts[e] : e \in Events}] :
       /\ \A e \in Events :
            report[e] \subseteq IF SegmentOf(e) \in sealed THEN Facts[e] ELSE {}
       /\ \E deltas \in Deltas(r, report) : Publish(r, sealed, report, deltas)

\* A baseline that cannot be read, an occurrence in conflict, a run that dies,
\* a publication that fails or finds other ledgers: nothing is published.
Fail(r) ==
  /\ run[r] # Idle
  /\ run' = [run EXCEPT ![r] = Idle]
  /\ UNCHANGED <<now, ledger, told>>

\* A run that lasts longer is stopped first.
Tick ==
  /\ now < MaxTime
  /\ \A r \in Runs : run[r] # Idle => now < run[r].clock + Duration
  /\ now' = now + 1
  /\ UNCHANGED <<ledger, run, told>>

Next ==
  \/ \E r \in Runs : Start(r) \/ Load(r) \/ PublishSome(r) \/ Fail(r)
  \/ Tick

Spec == Init /\ [][Next]_vars

-----------------------------------------------------------------------------
\* A fact is told as new a second time only when the event had no evidence for
\* Retention days since, less what a run may last: repeats, runs that overlap
\* and runs whose clock is behind do not make old facts news again
\* (load_committed_event_identity_v3, event_identity_v3_bytes).
NewsIsNew ==
  [][\A e \in Events : \A f \in Facts[e] :
       told'[e][f] # told[e][f] /\ told[e][f] # None =>
         told'[e][f] > told[e][f] + Retention - Duration]_vars

\* A committed story never goes back or loses evidence; it changes no more
\* once closed, and is forgotten only when it has been closed for ClosedFor
\* days, however runs overlap (story_ledger_bytes, advance_story).
StoriesGoForward ==
  [][\A s \in Stories :
       LET old == ledger.story[s]
           new == ledger'.story[s]
       IN  old # None =>
             IF new = None THEN old.state = Closed /\ now - old.at >= ClosedFor
             ELSE /\ new.state >= old.state /\ new.at >= old.at
                  /\ old.state = Closed => new = old
                  /\ new.disposition = "active" \/ new.state = Closed \/
                       now - new.at >= ArchiveAfter]_vars
=============================================================================
