------------------------------ MODULE NewsWindow ------------------------------
(***************************************************************************)
(* Which news a segment's briefing is generated from, run after run           *)
(* (orchestrator/news_window.py): a run plans one interval per segment from   *)
(* the committed cursors, fetches the union of them once, gives each segment  *)
(* what lies in its own interval and was not seen before, and publishes new   *)
(* cursors together with the sealed documents.                                *)
(*                                                                            *)
(* One source is modelled; sources share nothing but the commit.  Time is an  *)
(* integer; a document covers the times from start up to, not including,      *)
(* finish: one instant if its timestamp is exact, Day of them if only its     *)
(* date is known.  The commit is the compare-and-swap PublicationContract     *)
(* promises: the ledger is replaced only if it still is the one that was      *)
(* read.  Several runs may overlap.                                           *)
(***************************************************************************)
EXTENDS Integers, FiniteSets

CONSTANTS
  Recipients,   \* segments the source's news is routed to
  Documents,    \* document revisions
  Runs,         \* pipeline runs that may be under way at a time
  Never,        \* no cursor, no document, not seen
  Bootstrap,    \* 72 hours
  Overlap,      \* 24 hours
  Horizon,      \* 7 days
  Lengths,      \* what finish - start may be: 1, and Day for date precision
  Delay,        \* how much later than published a document may appear
  MaxRevisions, \* MAX_NEWS_REVISIONS
  Duration,     \* how long a run may last: the job's timeout
  MaxTime,      \* bound: time
  Starts        \* bound: when a document may be published

ASSUME NewsAssumption ==
  /\ Never \notin Int
  /\ {Bootstrap, Overlap, Horizon, Delay, MaxRevisions, Duration, MaxTime}
       \subseteq Nat
  /\ 0 < Overlap /\ Overlap < Horizon /\ 0 < Bootstrap /\ Bootstrap <= Horizon
  /\ Lengths \subseteq Nat \ {0} /\ Starts \subseteq Nat

VARIABLES
  now,          \* the time of day
  document,     \* what the provider shows: each document's extent, or Never
  ledger,       \* committed news_cursors.json: cursors and seen revisions
  run,          \* the runs under way
  delivered,    \* by segment: documents in a published briefing's input
  settled,      \* by segment and document: the end of the last window that
                \* consumed it and advanced, or Never
  beyond        \* by segment: times no window has covered or will cover

history == <<delivered, settled, beyond>>
newsVars == <<now, document, ledger, run, history>>

\* NewsWindowPlan, coverage and consumptions of a run.
Idle == [pc |-> "idle"]

Shown == {d \in Documents : document[d] # Never}

NewsInit ==
  /\ now = 0
  /\ document = [d \in Documents |-> Never]
  /\ ledger = [cursor |-> [s \in Recipients |-> Never],
               seen |-> [s \in Recipients |-> [d \in Documents |-> Never]]]
  /\ run = [r \in Runs |-> Idle]
  /\ delivered = [s \in Recipients |-> {}]
  /\ settled = [s \in Recipients |-> [d \in Documents |-> Never]]
  /\ beyond = [s \in Recipients |-> {}]

-----------------------------------------------------------------------------
(* make_news_window_plan: the interval of a segment in a scheduled run.      *)
Logical(base, clock, s) ==
  IF base.cursor[s] = Never THEN clock - Bootstrap ELSE base.cursor[s]

FetchAlways(base, clock, s) == TRUE    \* a bug: a late clock is not held back

FetchRequired(base, clock, s) == clock > Logical(base, clock, s)

NoOverlap(base, clock, s) ==        \* a bug: late documents are not looked for
  IF clock <= Logical(base, clock, s) THEN clock
  ELSE IF Logical(base, clock, s) > clock - Horizon THEN Logical(base, clock, s)
  ELSE clock - Horizon

RequestedStart(base, clock, s) ==
  LET logical == Logical(base, clock, s)
  IN  IF clock <= logical THEN clock
      ELSE IF base.cursor[s] = Never THEN logical
      ELSE IF logical - Overlap > clock - Horizon THEN logical - Overlap
      ELSE clock - Horizon

\* news_item_in_window
InWindow(extent, start, end) == extent.start < end /\ extent.finish > start

Required(r) == {s \in Recipients : FetchRequired(run[r].base, run[r].clock, s)}

Requested(r, s) == RequestedStart(run[r].base, run[r].clock, s)

\* union_news_windows
InFirst(r, d) ==                    \* a bug: one recipient's window is fetched
  /\ Required(r) # {}
  /\ InWindow(document[d], Requested(r, CHOOSE s \in Required(r) : TRUE),
              run[r].clock)

InUnion(r, d) ==
  \E s \in Required(r) : InWindow(document[d], Requested(r, s), run[r].clock)

-----------------------------------------------------------------------------
\* run_started_at is the end of every window of the run.
Start(r) ==
  /\ run[r] = Idle
  /\ run' = [run EXCEPT ![r] = [pc |-> "started", clock |-> now]]
  /\ UNCHANGED <<now, document, ledger, history>>

\* load_committed_news_cursors
Load(r) ==
  /\ run[r].pc = "started"
  /\ run' = [run EXCEPT ![r] =
               [pc |-> "loaded", clock |-> run[r].clock, base |-> ledger]]
  /\ UNCHANGED <<now, document, ledger, history>>

\* fetch_with_coverage: everything the provider shows of the union, or less.
Fetch(r) ==
  LET found == {d \in Shown : InUnion(r, d)}
  IN  /\ run[r].pc = "loaded"
      /\ \E items \in SUBSET found, full \in BOOLEAN :
           /\ full => Required(r) # {} /\ items = found
           /\ run' = [run EXCEPT ![r] =
                        [pc |-> "fetched", clock |-> run[r].clock,
                         base |-> run[r].base, items |-> items, full |-> full]]
      /\ UNCHANGED <<now, document, ledger, history>>

\* filter_news_items_for_segment
NothingRemembered(r, s) == {}       \* a bug: no look at the seen revisions

Remembered(r, s) ==
  {d \in Documents :
     /\ run[r].base.seen[s][d] # Never
     /\ run[r].base.seen[s][d] \in (run[r].clock - Horizon)..run[r].clock}

Input(r, s) ==
  {d \in run[r].items :
     /\ s \in Required(r)
     /\ InWindow(document[d], Requested(r, s), run[r].clock)} \ Remembered(r, s)

-----------------------------------------------------------------------------
(* prepare_news_window_publication                                           *)
\* sealed: the segments whose document was generated and finalized.
Advancing(r, sealed) ==
  IF run[r].full THEN sealed \cap Required(r) ELSE {}

\* A revision is forgotten Horizon after the window that consumed it.
NewSeen(r, sealed, s, d) ==
  LET before == run[r].base.seen[s][d]
  IN  IF s \in Advancing(r, sealed) /\ d \in Input(r, s) THEN run[r].clock
      ELSE IF before # Never /\ before >= run[r].clock - Horizon THEN before
      ELSE Never

NewLedger(r, sealed) ==
  [cursor |-> [s \in Recipients |-> IF s \in Advancing(r, sealed) THEN run[r].clock
                                  ELSE run[r].base.cursor[s]],
   seen |-> [s \in Recipients |-> [d \in Documents |-> NewSeen(r, sealed, s, d)]]]

Fits(base) ==
  Cardinality({p \in Recipients \X Documents : base.seen[p[1]][p[2]] # Never})
    <= MaxRevisions

\* What no window of the run may cover: it reaches back Horizon, the first one
\* Bootstrap.  Late documents of the last Overlap before the cursor count.
LeftOut(r, s) ==
  IF run[r].base.cursor[s] = Never THEN 0..(run[r].clock - Bootstrap)
  ELSE (run[r].base.cursor[s] - Overlap + 1)..(run[r].clock - Horizon)

SameBase(r) == ledger = run[r].base

Publish(r, sealed) ==
  /\ run[r].pc = "fetched" /\ sealed # {}
  /\ SameBase(r)
  /\ run' = [run EXCEPT ![r] = Idle]
  /\ Fits(NewLedger(r, sealed))
  /\ ledger' = NewLedger(r, sealed)
  /\ delivered' = [s \in Recipients |->
       delivered[s] \cup (IF s \in sealed THEN Input(r, s) ELSE {})]
  /\ settled' = [s \in Recipients |-> [d \in Documents |->
       IF s \in Advancing(r, sealed) /\ d \in Input(r, s) THEN run[r].clock
       ELSE settled[s][d]]]
  /\ beyond' = [s \in Recipients |->
       beyond[s] \cup (IF s \in Advancing(r, sealed) THEN LeftOut(r, s) ELSE {})]
  /\ UNCHANGED <<now, document>>

\* A baseline that cannot be read, a run that dies, a publication that fails
\* or finds another ledger: nothing of the run is published.
Fail(r) ==
  /\ run[r] # Idle
  /\ run' = [run EXCEPT ![r] = Idle]
  /\ UNCHANGED <<now, document, ledger, history>>

Pipeline(r) ==
  \/ Start(r) \/ Load(r) \/ Fetch(r) \/ Fail(r)
  \/ \E sealed \in SUBSET Recipients : Publish(r, sealed)

\* A run that lasts longer is stopped first.
Tick ==
  /\ now < MaxTime
  /\ \A r \in Runs : run[r] # Idle => now < run[r].clock + Duration
  /\ now' = now + 1
  /\ UNCHANGED <<document, ledger, run, history>>

\* The provider shows a document, at most Delay after it was published.
Appear ==
  /\ \E d \in Documents, start \in Starts, length \in Lengths :
       /\ document[d] = Never
       /\ start <= now /\ now < start + length + Delay
       /\ document' = [document EXCEPT ![d] = [start |-> start, finish |-> start + length]]
  /\ UNCHANGED <<now, ledger, run, history>>

NewsNext == (\E r \in Runs : Pipeline(r)) \/ Tick \/ Appear

NewsSpec == NewsInit /\ [][NewsNext]_newsVars

-----------------------------------------------------------------------------

\* Once a segment's cursor has left a document behind for good, the segment
\* was given it, whatever runs failed, overlapped or saw less than everything:
\* unless no interval that the code could plan held the document.  Delay is
\* at most Overlap: make_news_window_plan promises nothing about later ones.
NoSilentLoss ==
  \A s \in Recipients : ledger.cursor[s] # Never =>
    \A d \in Shown :
      document[d].finish <= ledger.cursor[s] - Overlap =>
        d \in delivered[s] \/ document[d].finish \in beyond[s]

\* What a run would give a segment again within Horizon, less what a run may
\* last, after a window consumed it.
TooSoon(r, s) ==
  {d \in Documents :
     /\ settled[s][d] # Never /\ run[r].pc = "fetched"
     /\ run[r].clock <= settled[s][d] + Horizon - Duration
     /\ d \in Input(r, s)}

\* A revision consumed by a window that advanced is not given to the segment
\* again so soon: the overlap of windows is filtered by what the ledger
\* remembers, a run that planned with an older ledger is not published, and a
\* run behind the one that forgets is not further behind than it may last
\* (filter_news_items_for_segment, the expiry in
\* prepare_news_window_publication).  Later it may be given again: a document
\* whose extent reaches beyond its consumption, one known by its date only, is
\* forgotten while windows still reach it.
NoRedelivery ==
  [][\A r \in Runs, s \in Recipients : TooSoon(r, s) # {} =>
       \A sealed \in SUBSET Recipients :
         Publish(r, sealed) => s \notin sealed]_newsVars

\* Runs that overlap, or whose clock is behind, never move a cursor back
\* (prepare_news_window_publication and the metadata hash it publishes on).
CursorMonotonic ==
  [][\A s \in Recipients :
       ledger.cursor[s] # Never =>
         ledger'.cursor[s] # Never /\ ledger'.cursor[s] >= ledger.cursor[s]]_newsVars
=============================================================================
