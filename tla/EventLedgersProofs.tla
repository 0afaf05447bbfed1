--------------------------- MODULE EventLedgersProofs ---------------------------
(***************************************************************************)
(* That old facts are not told as news again and that stories only go forward, *)
(* for every number of runs, events and stories: what was told is in the      *)
(* ledger, with evidence at least as late, until its retention has passed.    *)
(***************************************************************************)
EXTENDS EventLedgers, TLAPS

Ledgers ==
  [identity : [Events -> IdentityRecords \cup {None}],
   story : [Stories -> StoryRecords \cup {None}]]

RunStates ==
  {Idle} \cup [pc : {"started"}, clock : Nat] \cup [pc : {"loaded"}, clock : Nat, base : Ledgers]

TypeOK ==
  /\ now \in Nat /\ ledger \in Ledgers /\ run \in [Runs -> RunStates]
  /\ \A e \in Events : \A f \in Facts[e] : told[e][f] \in Nat \cup {None}

\* A run is stopped before it lasts longer than Duration.
Clocks ==
  \A r \in Runs : run[r] # Idle => run[r].clock <= now /\ now <= run[r].clock + Duration

\* A fact that was told is remembered with later evidence, or it was told so
\* long ago that its event was forgotten.
Memory ==
  \A e \in Events : \A f \in Facts[e] :
    told[e][f] # None =>
      \/ /\ ledger.identity[e] # None
         /\ f \in ledger.identity[e].facts /\ told[e][f] <= ledger.identity[e].last
      \/ told[e][f] + Retention < now

\* Only silence archives a story that is not closed.
Dispositions ==
  \A s \in Stories :
    LET old == ledger.story[s]
    IN  old # None =>
          old.disposition = "active" \/ old.state = Closed \/ now - old.at >= ArchiveAfter

Inv == TypeOK /\ Clocks /\ Memory /\ Dispositions
-----------------------------------------------------------------------------
LEMMA InitInv == Init => Inv
<1> SUFFICES ASSUME Init PROVE Inv
  OBVIOUS
<1> USE EventLedgersAssumption DEF Init
<1>1. TypeOK
  BY DEF TypeOK, Ledgers, RunStates
<1>2. Clocks
  BY DEF Clocks
<1>3. Memory /\ Dispositions
  BY DEF Memory, Dispositions
<1> QED
  BY <1>1, <1>2, <1>3 DEF Inv

\* A run that starts, reads, fails or waits leaves the ledgers as they are.
LEMMA StartInv == ASSUME Inv, NEW r \in Runs, Start(r) PROVE Inv'
<1>1. run'[r] = [pc |-> "started", clock |-> now] /\ run'[r] \in RunStates
  BY DEF Start, Inv, TypeOK, RunStates
<1>2. TypeOK'
  BY <1>1 DEF Start, Inv, TypeOK
<1>3. Clocks'
  BY <1>1, EventLedgersAssumption DEF Start, Inv, TypeOK, Clocks
<1> QED
  BY <1>2, <1>3 DEF Start, Inv, Memory, Dispositions

LEMMA LoadInv == ASSUME Inv, NEW r \in Runs, Load(r) PROVE Inv'
<1>1. run[r] # Idle /\ run[r].clock \in Nat
  BY DEF Load, Inv, TypeOK, RunStates, Idle
<1>2. /\ run'[r] = [pc |-> "loaded", clock |-> run[r].clock, base |-> ledger]
      /\ run'[r] \in RunStates
  BY <1>1 DEF Load, Inv, TypeOK, RunStates
<1>3. TypeOK'
  BY <1>2 DEF Load, Inv, TypeOK
<1>4. Clocks'
  BY <1>1, <1>2 DEF Load, Inv, TypeOK, Clocks
<1> QED
  BY <1>3, <1>4 DEF Load, Inv, Memory, Dispositions

LEMMA FailInv == ASSUME Inv, NEW r \in Runs, Fail(r) PROVE Inv'
<1>1. TypeOK'
  BY DEF Fail, Inv, TypeOK, RunStates
<1>2. Clocks'
  BY DEF Fail, Inv, TypeOK, Clocks
<1> QED
  BY <1>1, <1>2 DEF Fail, Inv, Memory, Dispositions

LEMMA ClockType == ASSUME TypeOK, NEW r \in Runs, run[r] # Idle PROVE run[r].clock \in Nat
  BY DEF TypeOK, RunStates

LEMMA TickInv == ASSUME Inv, Tick PROVE Inv'
<1> USE EventLedgersAssumption
<1>1. TypeOK'
  BY DEF Tick, Inv, TypeOK
<1>2. Clocks'
  BY ClockType DEF Tick, Inv, TypeOK, Clocks
<1>3. Memory'
  BY DEF Tick, Inv, TypeOK, Memory
<1>4. Dispositions'
  <2> SUFFICES ASSUME NEW s \in Stories, ledger.story[s] # None
               PROVE  \/ ledger.story[s].disposition = "active" \/ ledger.story[s].state = Closed
                      \/ now' - ledger.story[s].at >= ArchiveAfter
    BY DEF Tick, Dispositions
  <2>1. ledger.story[s].at \in Nat
    BY DEF Inv, TypeOK, Ledgers, StoryRecords
  <2> QED
    BY <2>1 DEF Tick, Inv, TypeOK, Dispositions
<1> QED
  BY <1>1, <1>2, <1>3, <1>4 DEF Inv

-----------------------------------------------------------------------------
(* A run that publishes: what becomes of one story.                           *)

\* The story after the run's follow-ups, before old ones are put away.
Advanced(r, deltas, s) ==
  LET current == {e \in Events : StoryOf[e] = s /\ deltas[e] # 0}
  IN  IF current = {} THEN run[r].base.story[s]
      ELSE LET state == deltas[CHOOSE e \in current : TRUE]
           IN  [state |-> state, at |-> run[r].clock,
                disposition |-> IF state = Closed THEN "closed" ELSE "active"]

Moved(story, old, clock) ==
  /\ story.at = clock /\ (story.disposition = "active" \/ story.state = Closed)
  /\ old # None => old.state # Closed /\ story.state >= old.state /\ clock > old.at

LEMMA AdvancedIs ==
  ASSUME Inv, NEW r \in Runs, run[r].pc = "loaded", SameBase(r),
         NEW report, NEW deltas \in Deltas(r, report), NEW s \in Stories
  PROVE  LET story == Advanced(r, deltas, s)
             old == ledger.story[s]
         IN  /\ story \in StoryRecords \cup {None}
             /\ story = old \/ (story # None /\ Moved(story, old, run[r].clock))
<1> DEFINE current == {e \in Events : StoryOf[e] = s /\ deltas[e] # 0}
<1>1. run[r].clock \in Nat
  BY ClockType DEF Inv, Idle
<1>2. CASE current = {}
  BY <1>2 DEF Advanced, SameBase, Inv, TypeOK, Ledgers
<1>3. CASE current # {}
  <2> DEFINE e == CHOOSE x \in current : TRUE
             story == [state |-> deltas[e], at |-> run[r].clock,
                       disposition |-> IF deltas[e] = Closed THEN "closed" ELSE "active"]
  <2>1. e \in Events /\ StoryOf[e] = s /\ deltas[e] # 0
    BY <1>3
  <2>2. Advanced(r, deltas, s) = story
    BY <1>3 DEF Advanced
  <2>3. deltas[e] \in 1..Closed /\ Advances(r, report, e, deltas[e])
    BY <2>1, EventLedgersAssumption DEF Deltas
  <2> HIDE DEF e
  <2>4. story \in StoryRecords
    BY <1>1, <2>3 DEF StoryRecords
  <2>5. story # None
    BY <2>4, EventLedgersAssumption
  <2>6. Moved(story, ledger.story[s], run[r].clock)
    BY <2>1, <2>3 DEF Moved, Advances, SameBase
  <2> QED
    BY <2>2, <2>4, <2>5, <2>6
<1> QED
  BY <1>2, <1>3

LEMMA NewStoryIs ==
  ASSUME Inv, NEW r \in Runs, run[r].pc = "loaded", SameBase(r),
         NEW report, NEW deltas \in Deltas(r, report), NEW s \in Stories
  PROVE  LET new == NewStory(r, deltas, s)
             old == ledger.story[s]
         IN  /\ new \in StoryRecords \cup {None}
             /\ new # None =>
                  \/ new.disposition = "active" \/ new.state = Closed
                  \/ now - new.at >= ArchiveAfter
             /\ old # None =>
                  IF new = None THEN old.state = Closed /\ now - old.at >= ClosedFor
                  ELSE /\ new.state >= old.state /\ new.at >= old.at
                       /\ old.state = Closed => new = old
<1> DEFINE clock == run[r].clock
           next == Advanced(r, deltas, s)
           old == ledger.story[s]
<1>1. clock \in Nat /\ clock <= now /\ now \in Nat
  BY ClockType DEF Inv, TypeOK, Clocks, Idle
<1>2. /\ next \in StoryRecords \cup {None}
      /\ next = old \/ (next # None /\ Moved(next, old, clock))
  BY AdvancedIs
<1>3. NewStory(r, deltas, s) =
        IF next = None THEN None
        ELSE IF Forgotten(next, clock) THEN None
        ELSE IF next.state # Closed /\ clock - next.at >= ArchiveAfter
             THEN [next EXCEPT !.disposition = "archived_unknown"]
        ELSE next
  BY DEF NewStory, Advanced
<1>4. old \in StoryRecords \cup {None}
  BY DEF Inv, TypeOK, Ledgers
<1> HIDE DEF next, old, clock
<1>5. CASE next = None
  BY <1>2, <1>3, <1>5 DEF old
<1>6. CASE next # None /\ Forgotten(next, clock)
  <2>1. next.state = Closed /\ clock - next.at >= ClosedFor
    BY <1>6 DEF Forgotten, KeptClosed
  <2>2. next = old
    BY <1>1, <1>2, <2>1, EventLedgersAssumption DEF Moved
  <2>3. old.at \in Nat
    BY <1>2, <1>6, <2>2 DEF StoryRecords
  <2>4. now - old.at >= ClosedFor
    BY <1>1, <2>1, <2>2, <2>3, EventLedgersAssumption
  <2> QED
    BY <1>3, <1>6, <2>1, <2>2, <2>4 DEF old
<1>7. CASE /\ next # None /\ ~Forgotten(next, clock)
           /\ next.state # Closed /\ clock - next.at >= ArchiveAfter
  <2> DEFINE new == [state |-> next.state, at |-> next.at, disposition |-> "archived_unknown"]
  <2>1. next \in StoryRecords
    BY <1>2, <1>7
  <2>2. [next EXCEPT !.disposition = "archived_unknown"] = new /\ new \in StoryRecords
    BY <2>1 DEF StoryRecords
  <2>3. new # None
    BY <2>2, EventLedgersAssumption
  <2>4. now - new.at >= ArchiveAfter
    BY <1>1, <1>7, <2>1, EventLedgersAssumption DEF StoryRecords
  <2>5. old # None =>
          new.state >= old.state /\ new.at >= old.at /\ (old.state = Closed => new = old)
    <3>1. CASE next = old
      BY <1>7, <2>1, <3>1 DEF StoryRecords
    <3>2. CASE Moved(next, old, clock)
      BY <1>1, <1>4, <3>2 DEF Moved, StoryRecords
    <3> QED
      BY <1>2, <3>1, <3>2
  <2> HIDE DEF new
  <2> QED
    BY <1>3, <1>7, <2>2, <2>3, <2>4, <2>5 DEF old
<1>8. CASE /\ next # None /\ ~Forgotten(next, clock)
           /\ ~(next.state # Closed /\ clock - next.at >= ArchiveAfter)
  <2>1. next \in StoryRecords
    BY <1>2, <1>8
  <2>2. next.disposition = "active" \/ next.state = Closed \/ now - next.at >= ArchiveAfter
    BY <1>2, <1>8 DEF Moved, old, Inv, Dispositions
  <2>3. old # None =>
          next.state >= old.state /\ next.at >= old.at /\ (old.state = Closed => next = old)
    <3>1. CASE next = old
      BY <2>1, <3>1 DEF StoryRecords
    <3>2. CASE Moved(next, old, clock)
      BY <1>1, <1>4, <3>2 DEF Moved, StoryRecords
    <3> QED
      BY <1>2, <3>1, <3>2
  <2> QED
    BY <1>3, <1>8, <2>1, <2>2, <2>3 DEF old
<1> QED
  BY <1>5, <1>6, <1>7, <1>8

-----------------------------------------------------------------------------
(* A run that publishes: what becomes of one event.                           *)
Reports == [Events -> SUBSET UNION {Facts[e] : e \in Events}]

\* What the documents of the sealed segments may report.
Covers(report, sealed) ==
  \A e \in Events :
    report[e] \subseteq IF SegmentOf(e) \in sealed THEN Facts[e] ELSE {}

LEMMA NewIdentityIs ==
  ASSUME Inv, NEW r \in Runs, run[r].pc = "loaded", SameBase(r),
         NEW sealed \in SUBSET Segments, NEW report \in Reports, Covers(report, sealed),
         \A g \in sealed : IdentityAvailable(r, g),
         NEW e \in Events
  PROVE  LET new == NewIdentity(r, sealed, report, e)
             old == ledger.identity[e]
         IN  /\ new \in IdentityRecords \cup {None}
             /\ \A f \in Added(r, report, e) :
                  new # None /\ f \in new.facts /\ new.last = run[r].clock
             /\ old # None =>
                  \/ /\ new # None /\ old.facts \subseteq new.facts /\ old.last <= new.last
                  \/ /\ old.last + Retention < run[r].clock
             /\ \A f \in Added(r, report, e) :
                  \/ old = None \/ f \notin old.facts
                  \/ old.last + Retention < run[r].clock
<1> DEFINE clock == run[r].clock
           old == ledger.identity[e]
           new == NewIdentity(r, sealed, report, e)
           known == Known(r, e)
<1>1. clock \in Nat
  BY ClockType DEF Inv, Idle
<1>2. old \in IdentityRecords \cup {None} /\ run[r].base.identity[e] = old
  BY DEF Inv, TypeOK, Ledgers, SameBase
<1>3. report[e] \in SUBSET UNION {Facts[x] : x \in Events}
  BY DEF Reports
<1>4. known = None \/ known = old
  BY <1>2 DEF Known
<1>5. known # None => known = old /\ old.last \in (clock - Retention)..clock
  BY <1>2 DEF Known
<1>6. SegmentOf(e) \in sealed /\ old # None /\ known = None => old.last + Retention < clock
  <2> SUFFICES ASSUME SegmentOf(e) \in sealed, old # None, known = None
               PROVE  old.last + Retention < clock
    OBVIOUS
  <2>1. old.last \in Nat
    BY <1>2 DEF IdentityRecords
  <2>2. old.last <= clock
    BY <1>2 DEF IdentityAvailable
  <2>3. old.last \notin (clock - Retention)..clock
    BY <1>2 DEF Known
  <2> QED
    BY <1>1, <2>1, <2>2, <2>3, EventLedgersAssumption
<1>7. Added(r, report, e) = report[e] \ (IF known = None THEN {} ELSE known.facts)
  BY DEF Added
<1>8. new = IF SegmentOf(e) \notin sealed THEN old
            ELSE IF report[e] = {} THEN known
            ELSE IF known = None THEN [first |-> clock, last |-> clock, facts |-> report[e]]
            ELSE [first |-> known.first,
                  last |-> IF Added(r, report, e) = {} THEN known.last ELSE clock,
                  facts |-> known.facts \cup report[e]]
  BY <1>2 DEF NewIdentity, Evidence
<1>9. SegmentOf(e) \notin sealed => report[e] = {}
  BY DEF Covers
<1> HIDE DEF clock, old, new, known
<1>10. CASE SegmentOf(e) \notin sealed
  <2>1. Added(r, report, e) = {}
    BY <1>7, <1>9, <1>10
  <2>2. old # None => old.last \in Nat
    BY <1>2 DEF IdentityRecords
  <2> QED
    BY <1>2, <1>8, <1>10, <2>1, <2>2 DEF clock, old, new
<1>11. CASE SegmentOf(e) \in sealed /\ report[e] = {}
  <2>1. Added(r, report, e) = {} /\ new = known
    BY <1>7, <1>8, <1>11
  <2>2. old # None => old.last \in Nat
    BY <1>2 DEF IdentityRecords
  <2> QED
    BY <1>2, <1>4, <1>6, <1>11, <2>1, <2>2 DEF clock, old, new
<1>12. CASE SegmentOf(e) \in sealed /\ report[e] # {} /\ known = None
  <2>1. new = [first |-> clock, last |-> clock, facts |-> report[e]]
    BY <1>8, <1>12
  <2>2. new \in IdentityRecords /\ new # None
    BY <1>1, <1>3, <2>1, EventLedgersAssumption DEF IdentityRecords
  <2>3. Added(r, report, e) = report[e]
    BY <1>7, <1>12
  <2> QED
    BY <1>6, <1>12, <2>1, <2>2, <2>3 DEF clock, old, new
<1>13. CASE SegmentOf(e) \in sealed /\ report[e] # {} /\ known # None
  <2> DEFINE last == IF Added(r, report, e) = {} THEN known.last ELSE clock
  <2>1. known = old /\ old \in IdentityRecords /\ old.last <= clock
    BY <1>1, <1>2, <1>5, <1>13, EventLedgersAssumption
  <2>2. new = [first |-> known.first, last |-> last, facts |-> known.facts \cup report[e]]
    BY <1>8, <1>13
  <2>3. last \in Nat /\ old.last <= last /\ (Added(r, report, e) # {} => last = clock)
    BY <1>1, <2>1 DEF IdentityRecords
  <2> HIDE DEF last
  <2>4. /\ known.first \in Nat
        /\ known.facts \cup report[e] \in SUBSET UNION {Facts[x] : x \in Events}
    BY <1>3, <2>1 DEF IdentityRecords
  <2>5. new \in IdentityRecords
    BY <2>2, <2>3, <2>4 DEF IdentityRecords
  <2>6. new # None
    BY <2>5, EventLedgersAssumption
  <2>7. /\ old.facts \subseteq new.facts /\ old.last <= new.last
        /\ report[e] \subseteq new.facts
    BY <2>1, <2>2, <2>3
  <2>8. Added(r, report, e) = report[e] \ old.facts
    BY <1>7, <1>13, <2>1
  <2>9. \A f \in Added(r, report, e) :
          new # None /\ f \in new.facts /\ new.last = clock /\ f \notin old.facts
    BY <2>2, <2>3, <2>6, <2>7, <2>8
  <2> QED
    BY <2>5, <2>6, <2>7, <2>9 DEF clock, old, new
<1> QED
  BY <1>10, <1>11, <1>12, <1>13

\* A fact that is told again was forgotten, or told by a run that was late.
LEMMA ToldAgain ==
  ASSUME Inv, NEW r \in Runs, run[r].pc = "loaded", SameBase(r),
         NEW sealed \in SUBSET Segments, NEW report \in Reports, Covers(report, sealed),
         \A g \in sealed : IdentityAvailable(r, g),
         NEW e \in Events, NEW f \in Facts[e], f \in Added(r, report, e), told[e][f] # None
  PROVE  told[e][f] + Retention < run[r].clock + Duration
<1>1. run[r].clock \in Nat /\ run[r].clock <= now /\ now <= run[r].clock + Duration
  BY ClockType DEF Inv, Clocks, Idle
<1>2. told[e][f] \in Nat /\ now \in Nat /\ Retention \in Nat /\ Duration \in Nat
  BY EventLedgersAssumption DEF Inv, TypeOK
<1>3. CASE told[e][f] + Retention < now
  BY <1>1, <1>2, <1>3
<1>4. CASE /\ ledger.identity[e] # None
           /\ f \in ledger.identity[e].facts /\ told[e][f] <= ledger.identity[e].last
  <2>1. ledger.identity[e].last \in Nat
    BY <1>4 DEF Inv, TypeOK, Ledgers, IdentityRecords
  <2>2. ledger.identity[e].last + Retention < run[r].clock
    BY <1>4, NewIdentityIs
  <2> QED
    BY <1>1, <1>2, <1>4, <2>1, <2>2
<1> QED
  BY <1>3, <1>4 DEF Inv, Memory

-----------------------------------------------------------------------------
LEMMA PublishSomeIs ==
  ASSUME NEW r \in Runs, PublishSome(r)
  PROVE  /\ run[r].pc = "loaded"
         /\ \E sealed \in SUBSET Segments, report \in Reports :
              /\ Covers(report, sealed)
              /\ \E deltas \in Deltas(r, report) : Publish(r, sealed, report, deltas)
  BY DEF PublishSome, Reports, Covers

LEMMA PublishInv == ASSUME Inv, NEW r \in Runs, PublishSome(r) PROVE Inv'
<1>0. run[r].pc = "loaded"
  BY PublishSomeIs
<1>1. PICK sealed \in SUBSET Segments, report \in Reports :
        /\ Covers(report, sealed)
        /\ \E deltas \in Deltas(r, report) : Publish(r, sealed, report, deltas)
  BY PublishSomeIs
<1>2. PICK deltas \in Deltas(r, report) : Publish(r, sealed, report, deltas)
  BY <1>1
<1>3. /\ SameBase(r) /\ \A g \in sealed : IdentityAvailable(r, g)
      /\ ledger' = [identity |-> [e \in Events |-> NewIdentity(r, sealed, report, e)],
                    story |-> [s \in Stories |-> NewStory(r, deltas, s)]]
      /\ told' = [e \in Events |-> [f \in Facts[e] |->
                    IF f \in Added(r, report, e) THEN run[r].clock ELSE told[e][f]]]
      /\ run' = [run EXCEPT ![r] = Idle]
      /\ now' = now
  BY <1>2 DEF Publish
<1>4. run[r].clock \in Nat /\ run[r].clock <= now /\ now \in Nat
  BY <1>0, ClockType DEF Inv, TypeOK, Clocks, Idle
<1>5. TypeOK'
  <2>1. \A e \in Events : NewIdentity(r, sealed, report, e) \in IdentityRecords \cup {None}
    BY <1>0, <1>1, <1>3, NewIdentityIs
  <2>2. \A s \in Stories : NewStory(r, deltas, s) \in StoryRecords \cup {None}
    BY <1>0, <1>3, NewStoryIs
  <2>3. ledger' \in Ledgers
    BY <1>3, <2>1, <2>2 DEF Ledgers
  <2>4. run' \in [Runs -> RunStates]
    BY <1>3 DEF Inv, TypeOK, RunStates
  <2>5. \A e \in Events : \A f \in Facts[e] : told'[e][f] \in Nat \cup {None}
    BY <1>3, <1>4 DEF Inv, TypeOK
  <2> QED
    BY <1>3, <1>4, <2>3, <2>4, <2>5 DEF TypeOK
<1>6. Clocks'
  BY <1>3 DEF Inv, TypeOK, Clocks
<1>7. Memory'
  <2> SUFFICES ASSUME NEW e \in Events, NEW f \in Facts[e], told'[e][f] # None
               PROVE  \/ /\ ledger'.identity[e] # None
                         /\ f \in ledger'.identity[e].facts
                         /\ told'[e][f] <= ledger'.identity[e].last
                      \/ told'[e][f] + Retention < now
    BY <1>3 DEF Memory
  <2> DEFINE new == NewIdentity(r, sealed, report, e)
             old == ledger.identity[e]
  <2>1. /\ \A x \in Added(r, report, e) :
             new # None /\ x \in new.facts /\ new.last = run[r].clock
        /\ old # None =>
             \/ new # None /\ old.facts \subseteq new.facts /\ old.last <= new.last
             \/ old.last + Retention < run[r].clock
        /\ new \in IdentityRecords \cup {None}
    BY <1>0, <1>1, <1>3, NewIdentityIs
  <2>2. ledger'.identity[e] = new
    BY <1>3
  <2> HIDE DEF new
  <2>3. CASE f \in Added(r, report, e)
    <3>1. told'[e][f] = run[r].clock
      BY <1>3, <2>3
    <3> QED
      BY <1>4, <2>1, <2>2, <2>3, <3>1
  <2>4. CASE f \notin Added(r, report, e)
    <3>1. told'[e][f] = told[e][f] /\ told[e][f] \in Nat
      BY <1>3, <2>4 DEF Inv, TypeOK
    <3>2. CASE told[e][f] + Retention < now
      BY <3>1, <3>2
    <3>3. CASE old # None /\ f \in old.facts /\ told[e][f] <= old.last
      <4>1. old.last \in Nat
        BY <3>3 DEF Inv, TypeOK, Ledgers, IdentityRecords
      <4>2. new # None => new.last \in Nat
        BY <2>1 DEF IdentityRecords
      <4> QED
        BY <1>4, <2>1, <2>2, <3>1, <3>3, <4>1, <4>2, EventLedgersAssumption
    <3> QED
      BY <3>1, <3>2, <3>3 DEF Inv, Memory
  <2> QED
    BY <2>3, <2>4
<1>8. Dispositions'
  <2>1. \A s \in Stories :
          NewStory(r, deltas, s) # None =>
            \/ NewStory(r, deltas, s).disposition = "active"
            \/ NewStory(r, deltas, s).state = Closed
            \/ now - NewStory(r, deltas, s).at >= ArchiveAfter
    BY <1>0, <1>3, NewStoryIs
  <2>2. \A s \in Stories : ledger'.story[s] = NewStory(r, deltas, s)
    BY <1>3
  <2> QED
    BY <1>3, <2>1, <2>2 DEF Dispositions
<1> QED
  BY <1>5, <1>6, <1>7, <1>8 DEF Inv

LEMMA StepInv == Inv /\ [Next]_vars => Inv'
<1> SUFFICES ASSUME Inv, [Next]_vars PROVE Inv'
  OBVIOUS
<1>1. CASE UNCHANGED vars
  BY <1>1 DEF vars, Inv, TypeOK, Clocks, Memory, Dispositions
<1> QED
  BY <1>1, StartInv, LoadInv, PublishInv, FailInv, TickInv DEF Next

LEMMA Always == Spec => []Inv
  BY InitInv, StepInv, PTL DEF Spec

\* Repeats, runs that overlap and runs whose clock is behind do not make a
\* fact news again before its event was forgotten
\* (load_committed_event_identity_v3, event_identity_v3_bytes).
THEOREM OldFactsStayOld == Spec => NewsIsNew
<1> DEFINE New ==
      \A e \in Events : \A f \in Facts[e] :
        told'[e][f] # told[e][f] /\ told[e][f] # None =>
          told'[e][f] > told[e][f] + Retention - Duration
<1>1. Inv /\ [Next]_vars => [New]_vars
  <2> SUFFICES ASSUME Inv, Next, NEW e \in Events, NEW f \in Facts[e],
                      told'[e][f] # told[e][f], told[e][f] # None
               PROVE  told'[e][f] > told[e][f] + Retention - Duration
    OBVIOUS
  <2>1. PICK r \in Runs : PublishSome(r)
    BY DEF Next, Start, Load, Fail, Tick
  <2>2. run[r].pc = "loaded"
    BY <2>1, PublishSomeIs
  <2>3. PICK sealed \in SUBSET Segments, report \in Reports :
          /\ Covers(report, sealed)
          /\ \E deltas \in Deltas(r, report) : Publish(r, sealed, report, deltas)
    BY <2>1, PublishSomeIs
  <2>4. /\ SameBase(r) /\ \A g \in sealed : IdentityAvailable(r, g)
        /\ f \in Added(r, report, e) /\ told'[e][f] = run[r].clock
    BY <2>3 DEF Publish
  <2>5. told[e][f] + Retention < run[r].clock + Duration
    BY <2>2, <2>3, <2>4, ToldAgain
  <2>6. run[r].clock \in Nat /\ told[e][f] \in Nat
    BY <2>2, ClockType DEF Inv, TypeOK, Idle
  <2> QED
    BY <2>4, <2>5, <2>6, EventLedgersAssumption
<1> QED
  BY <1>1, Always, PTL DEF Spec, NewsIsNew

\* No run, however late its clock, takes a story back, loses its evidence,
\* reopens it or forgets it early (story_ledger_bytes, advance_story).
THEOREM StoriesAdvance == Spec => StoriesGoForward
<1> DEFINE Forward ==
      \A s \in Stories :
        LET old == ledger.story[s]
            new == ledger'.story[s]
        IN  old # None =>
              IF new = None THEN old.state = Closed /\ now - old.at >= ClosedFor
              ELSE /\ new.state >= old.state /\ new.at >= old.at
                   /\ old.state = Closed => new = old
                   /\ new.disposition = "active" \/ new.state = Closed \/
                        now - new.at >= ArchiveAfter
<1>1. Inv /\ [Next]_vars => [Forward]_vars
  <2> SUFFICES ASSUME Inv, Next PROVE Forward
    OBVIOUS
  <2>1. CASE ledger' = ledger
    <3>1. \A s \in Stories : ledger.story[s] # None => ledger.story[s] \in StoryRecords
      BY DEF Inv, TypeOK, Ledgers
    <3>2. \A s \in Stories : ledger.story[s] # None =>
            ledger.story[s].state \in Int /\ ledger.story[s].at \in Int
      BY <3>1, EventLedgersAssumption DEF StoryRecords
    <3> QED
      BY <2>1, <3>2 DEF Inv, Dispositions
  <2>2. CASE \E r \in Runs : PublishSome(r)
    <3>1. PICK r \in Runs : PublishSome(r)
      BY <2>2
    <3>2. PICK sealed \in SUBSET Segments, report \in Reports :
            \E deltas \in Deltas(r, report) : Publish(r, sealed, report, deltas)
      BY <3>1, PublishSomeIs
    <3>3. PICK deltas \in Deltas(r, report) : Publish(r, sealed, report, deltas)
      BY <3>2
    <3>4. SameBase(r) /\ \A s \in Stories : ledger'.story[s] = NewStory(r, deltas, s)
      BY <3>3 DEF Publish
    <3> QED
      BY <3>1, <3>4, PublishSomeIs, NewStoryIs
  <2> QED
    BY <2>1, <2>2 DEF Next, Start, Load, Fail, Tick
<1> QED
  BY <1>1, Always, PTL DEF Spec, StoriesGoForward
=============================================================================
