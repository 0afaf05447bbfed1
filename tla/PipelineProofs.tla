---------------------------- MODULE PipelineProofs ----------------------------
(***************************************************************************)
(* What a run promises, for every set of segments.  The invariant says what   *)
(* is known after each stage: nothing is public before the publish stage; a   *)
(* status other than "failed" is only given to a run that published its       *)
(* bundle; exit code 0 is only given to a run whose bundle is complete; and   *)
(* the job turns red for every other exit code.                               *)
(***************************************************************************)
EXTENDS Pipeline, TLAPS

Unpublic == main = {} /\ bundle = {} /\ messages = {} /\ ~committed

\* The process runs: nothing is known to the job yet.
InProcess ==
  pc \in Stages => ~fanout /\ ~dispatched /\ ~red /\ outputs = "none" /\ rc = None

StageOrder ==
  /\ pc \in {"collect", "generate", "publish"} => Unpublic
  /\ pc \in {"collect", "generate", "publish", "notify"} =>
       messages = {} /\ status = "running" /\ ~notified
  /\ pc \in {"notify", "health"} => bundle # {} /\ (dry \/ committed)
  /\ pc = "health" => status \in {"success", "partial"}
  /\ pc = "report" => status # "running"

\* What is told to the public is what the commit holds.
PublishedBundle ==
  /\ dry => main = {} /\ messages = {} /\ ~committed
  /\ committed => main = bundle /\ bundle # {}
  /\ status \in {"success", "partial"} => bundle # {} /\ (dry \/ committed)
  /\ \A message \in messages : message = Announcement /\ committed
  /\ fanout \/ dispatched => committed

Alarm ==
  status \in {"success", "partial"} /\ ~notified /\ ~dry =>
    "notify" \in alerts \cup unheard

JobEnd ==
  /\ pc \in {"pages", "reemit"} => rc # None
  /\ rc = 0 => /\ bundle = Segments /\ status \in {"success", "partial"}
               /\ dry \/ outputs \in {"lost", "true"}
  /\ rc # None => pc \in {"pages", "reemit", "ended"}
  /\ outputs = "true" => committed
  /\ pc \in {"reemit", "ended"} /\ rc = 0 /\ outputs = "true" => dispatched \/ red
  /\ pc = "ended" => red \/ rc = 0

Inv == TypeOK /\ InProcess /\ StageOrder /\ PublishedBundle /\ Alarm /\ JobEnd

USE DEF Stages, content, public, told, job

-----------------------------------------------------------------------------
LEMMA InitInv == Init => Inv
<1> SUFFICES ASSUME Init PROVE Inv
  OBVIOUS
<1> USE PipelineAssumption DEF Init
<1>1. TypeOK
  BY DEF TypeOK
<1>2. InProcess /\ StageOrder
  BY DEF InProcess, StageOrder, Unpublic
<1>3. PublishedBundle /\ Alarm /\ JobEnd
  BY DEF PublishedBundle, Alarm, JobEnd
<1> QED
  BY <1>1, <1>2, <1>3 DEF Inv

LEMMA StepInv == Inv /\ [Next]_vars => Inv'
<1> SUFFICES ASSUME Inv, [Next]_vars PROVE Inv'
  OBVIOUS
<1> USE PipelineAssumption DEF Inv, Announcement, Missing
<1>1. CASE Collect
  <2>1. TypeOK'
    BY <1>1 DEF Collect, Failed, Alerted, TypeOK, StageOrder, Unpublic
  <2>2. InProcess'
    BY <1>1 DEF Collect, Failed, Alerted, TypeOK, InProcess
  <2>3. StageOrder'
    BY <1>1 DEF Collect, Failed, Alerted, TypeOK, StageOrder, PublishedBundle, Unpublic
  <2>4. PublishedBundle'
    BY <1>1 DEF Collect, Failed, Alerted, TypeOK, InProcess, StageOrder, PublishedBundle, Unpublic
  <2>5. Alarm'
    BY <1>1 DEF Collect, Failed, Alerted, TypeOK, StageOrder, Alarm
  <2>6. JobEnd'
    BY <1>1 DEF Collect, Failed, Alerted, TypeOK, InProcess, StageOrder, PublishedBundle, JobEnd, Unpublic
  <2> QED  BY <2>1, <2>2, <2>3, <2>4, <2>5, <2>6
<1>2. CASE Generate
  <2>1. TypeOK'
    BY <1>2 DEF Generate, Failed, Alerted, TypeOK, StageOrder, Unpublic
  <2>2. InProcess'
    BY <1>2 DEF Generate, Failed, Alerted, TypeOK, InProcess
  <2>3. StageOrder'
    BY <1>2 DEF Generate, Failed, Alerted, TypeOK, StageOrder, PublishedBundle, Unpublic
  <2>4. PublishedBundle'
    BY <1>2 DEF Generate, Failed, Alerted, TypeOK, InProcess, StageOrder, PublishedBundle, Unpublic
  <2>5. Alarm'
    BY <1>2 DEF Generate, Failed, Alerted, TypeOK, StageOrder, Alarm
  <2>6. JobEnd'
    BY <1>2 DEF Generate, Failed, Alerted, TypeOK, InProcess, StageOrder, PublishedBundle, JobEnd, Unpublic
  <2> QED  BY <2>1, <2>2, <2>3, <2>4, <2>5, <2>6
<1>3. CASE Publish
  <2>1. TypeOK'
    <3>1. main' \subseteq drafts /\ bundle' \subseteq drafts
      BY <1>3 DEF Publish, Published, Unpublished, SafePush, Pushed, TypeOK
    <3>2. /\ committed' \in BOOLEAN /\ alerts' \subseteq Stages \cup {"boot"}
          /\ unheard' \subseteq Stages \cup {"boot"}
          /\ status' \in {"running", "success", "partial", "failed"}
          /\ pc' \in {"notify", "report"}
      BY <1>3 DEF Publish, Published, Unpublished, Failed, Alerted, TypeOK
    <3> QED
      BY <1>3, <3>1, <3>2 DEF Publish, TypeOK
  <2>2. InProcess'
    BY <1>3 DEF Publish, Published, Unpublished, Failed, SafePush, Pushed, Alerted, TypeOK, InProcess
  <2>3. StageOrder'
    <3>1. ASSUME NEW documents \in (SUBSET drafts) \ {{}}, bundle' = documents,
                 Published(documents)
          PROVE  StageOrder'
      <4>0. committed' <=> ~dry
        BY <3>1, Zenon DEF Published
      <4>1. /\ documents # {}
            /\ dry' = dry /\ messages' = messages /\ fanout' = fanout
            /\ notified' = notified /\ dispatched' = dispatched
            /\ pc' = "notify" /\ status' = status /\ bundle' = documents
        BY <1>3, <3>1 DEF Publish, Published
      <4>2. dry => main' = main
        BY <3>1 DEF Published, SafePush
      <4>3. ~dry => main' = documents
        BY <3>1 DEF Published, SafePush, Pushed
      <4>4. pc = "publish"
        BY <1>3 DEF Publish
      <4> QED
        BY <4>0, <4>1, <4>2, <4>3, <4>4 DEF TypeOK, StageOrder, Unpublic
    <3>2. ASSUME NEW documents \in (SUBSET drafts) \ {{}}, bundle' = documents,
                 Unpublished(documents)
          PROVE  StageOrder'
      BY <1>3, <3>2 DEF Publish, Unpublished, Failed, Pushed, TypeOK, StageOrder, Unpublic
    <3>3. CASE Failed("publish") /\ UNCHANGED <<bundle, committed, main>>
      BY <1>3, <3>3 DEF Publish, Failed, TypeOK, StageOrder, Unpublic
    <3> QED
      BY <1>3, <3>1, <3>2, <3>3 DEF Publish
  <2>4. PublishedBundle'
    <3>1. ASSUME NEW documents \in (SUBSET drafts) \ {{}}, bundle' = documents,
                 Published(documents)
          PROVE  PublishedBundle'
      <4>0. committed' <=> ~dry
        BY <3>1, Zenon DEF Published
      <4>1. /\ documents # {}
            /\ dry' = dry /\ messages' = messages /\ fanout' = fanout
            /\ notified' = notified /\ dispatched' = dispatched
            /\ pc' = "notify" /\ status' = status /\ bundle' = documents
        BY <1>3, <3>1 DEF Publish, Published
      <4>2. dry => main' = main
        BY <3>1 DEF Published, SafePush
      <4>3. ~dry => main' = documents
        BY <3>1 DEF Published, SafePush, Pushed
      <4>4. pc = "publish"
        BY <1>3 DEF Publish
      <4> QED
        BY <4>0, <4>1, <4>2, <4>3, <4>4 DEF TypeOK, StageOrder, InProcess, PublishedBundle, Unpublic
    <3>2. ASSUME NEW documents \in (SUBSET drafts) \ {{}}, bundle' = documents,
                 Unpublished(documents)
          PROVE  PublishedBundle'
      BY <1>3, <3>2 DEF Publish, Unpublished, Failed, Pushed, TypeOK, StageOrder, InProcess, PublishedBundle, Unpublic
    <3>3. CASE Failed("publish") /\ UNCHANGED <<bundle, committed, main>>
      BY <1>3, <3>3 DEF Publish, Failed, TypeOK, StageOrder, InProcess, PublishedBundle, Unpublic
    <3> QED
      BY <1>3, <3>1, <3>2, <3>3 DEF Publish
  <2>5. Alarm'
    BY <1>3 DEF Publish, Published, Unpublished, Failed, SafePush, Pushed, Alerted, TypeOK, StageOrder, Alarm
  <2>6. JobEnd'
    BY <1>3 DEF Publish, Published, Unpublished, Failed, SafePush, Pushed, Alerted, TypeOK, InProcess, StageOrder, PublishedBundle, JobEnd, Unpublic
  <2> QED  BY <2>1, <2>2, <2>3, <2>4, <2>5, <2>6
<1>4. CASE Notify
  <2>1. TypeOK'
    <3>1. /\ alerts' \subseteq Stages \cup {"boot"}
          /\ unheard' \subseteq Stages \cup {"boot"}
      BY <1>4 DEF Notify, Alerted, TypeOK
    <3>2. messages' \subseteq [named : SUBSET Segments, missing : SUBSET Segments]
      BY <1>4 DEF Notify, TypeOK
    <3>3. /\ notified' \in BOOLEAN
          /\ status' \in {"running", "success", "partial", "failed"}
      BY <1>4 DEF Notify, TypeOK
    <3> QED
      BY <1>4, <3>1, <3>2, <3>3 DEF Notify, TypeOK
  <2>2. InProcess'
    BY <1>4 DEF Notify, Alerted, TypeOK, InProcess
  <2>3. StageOrder'
    BY <1>4 DEF Notify, Alerted, TypeOK, StageOrder, PublishedBundle, Unpublic
  <2>4. PublishedBundle'
    BY <1>4 DEF Notify, Alerted, TypeOK, InProcess, StageOrder, PublishedBundle, Unpublic
  <2>5. Alarm'
    <3>1. ~notified' => Alerted("notify")
      BY <1>4 DEF Notify
    <3>2. dry' = dry
      BY <1>4 DEF Notify
    <3>3. Alerted("notify") => dry \/ "notify" \in alerts' \/ "notify" \in unheard'
      BY DEF Alerted
    <3> QED
      BY <3>1, <3>2, <3>3 DEF Alarm
  <2>6. JobEnd'
    BY <1>4 DEF Notify, Alerted, TypeOK, InProcess, StageOrder, PublishedBundle, JobEnd, Unpublic
  <2> QED  BY <2>1, <2>2, <2>3, <2>4, <2>5, <2>6
<1>5. CASE HealthTracking
  <2>1. TypeOK'
    <3>1. /\ alerts' \subseteq Stages \cup {"boot"}
          /\ unheard' \subseteq Stages \cup {"boot"}
      BY <1>5 DEF HealthTracking, Alerted, TypeOK
    <3> QED
      BY <1>5, <3>1 DEF HealthTracking, TypeOK
  <2>2. InProcess'
    BY <1>5 DEF HealthTracking, Alerted, TypeOK, InProcess
  <2>3. StageOrder'
    BY <1>5 DEF HealthTracking, Alerted, TypeOK, StageOrder, PublishedBundle, Unpublic
  <2>4. PublishedBundle'
    BY <1>5 DEF HealthTracking, Alerted, TypeOK, InProcess, StageOrder, PublishedBundle, Unpublic
  <2>5. Alarm'
    BY <1>5 DEF HealthTracking, Alerted, TypeOK, StageOrder, Alarm
  <2>6. JobEnd'
    BY <1>5 DEF HealthTracking, Alerted, TypeOK, InProcess, StageOrder, PublishedBundle, JobEnd, Unpublic
  <2> QED  BY <2>1, <2>2, <2>3, <2>4, <2>5, <2>6
<1>6. CASE Report
  <2>1. TypeOK'
    BY <1>6 DEF Report, ExitCode, Completeness, TypeOK, StageOrder, Unpublic
  <2>2. InProcess'
    BY <1>6 DEF Report, ExitCode, Completeness, TypeOK, InProcess
  <2>3. StageOrder'
    BY <1>6 DEF Report, ExitCode, Completeness, TypeOK, StageOrder, PublishedBundle, Unpublic
  <2>4. PublishedBundle'
    BY <1>6 DEF Report, ExitCode, Completeness, TypeOK, InProcess, StageOrder, PublishedBundle, Unpublic
  <2>5. Alarm'
    BY <1>6 DEF Report, ExitCode, Completeness, TypeOK, StageOrder, Alarm
  <2>6. JobEnd'
    BY <1>6 DEF Report, ExitCode, Completeness, TypeOK, InProcess, StageOrder, PublishedBundle, JobEnd, Unpublic
  <2> QED  BY <2>1, <2>2, <2>3, <2>4, <2>5, <2>6
<1>7. CASE Crash
  <2>1. TypeOK'
    <3>1. main' \subseteq drafts
      BY <1>7 DEF Crash, HalfDone, Pushed, TypeOK
    <3>2. messages' \subseteq [named : SUBSET Segments, missing : SUBSET Segments]
      BY <1>7 DEF Crash, HalfDone, TypeOK
    <3>3. fanout' \in BOOLEAN
      BY <1>7 DEF Crash, HalfDone, TypeOK
    <3> QED
      BY <1>7, <3>1, <3>2, <3>3 DEF Crash, Alerted, TypeOK
  <2>2. InProcess'
    BY <1>7 DEF Crash, HalfDone, Pushed, Alerted, TypeOK, InProcess
  <2>3. StageOrder'
    BY <1>7 DEF Crash, HalfDone, Pushed, Alerted, TypeOK, StageOrder, PublishedBundle, Unpublic
  <2>4. PublishedBundle'
    BY <1>7 DEF Crash, HalfDone, Pushed, Alerted, TypeOK, InProcess, StageOrder, PublishedBundle, Unpublic
  <2>5. Alarm'
    BY <1>7 DEF Crash, HalfDone, Pushed, Alerted, TypeOK, StageOrder, Alarm
  <2>6. JobEnd'
    BY <1>7 DEF Crash, HalfDone, Pushed, Alerted, TypeOK, InProcess, StageOrder, PublishedBundle, JobEnd, Unpublic
  <2> QED  BY <2>1, <2>2, <2>3, <2>4, <2>5, <2>6
<1>8. CASE Kill
  <2>1. TypeOK'
    <3>1. main' \subseteq drafts
      BY <1>8 DEF Kill, HalfDone, Pushed, TypeOK
    <3>2. messages' \subseteq [named : SUBSET Segments, missing : SUBSET Segments]
      BY <1>8 DEF Kill, HalfDone, TypeOK
    <3>3. fanout' \in BOOLEAN
      BY <1>8 DEF Kill, HalfDone, TypeOK
    <3> QED
      BY <1>8, <3>1, <3>2, <3>3 DEF Kill, Alerted, TypeOK
  <2>2. InProcess'
    BY <1>8 DEF Kill, HalfDone, Pushed, TypeOK, InProcess
  <2>3. StageOrder'
    BY <1>8 DEF Kill, HalfDone, Pushed, TypeOK, StageOrder, PublishedBundle, Unpublic
  <2>4. PublishedBundle'
    BY <1>8 DEF Kill, HalfDone, Pushed, TypeOK, InProcess, StageOrder, PublishedBundle, Unpublic
  <2>5. Alarm'
    BY <1>8 DEF Kill, HalfDone, Pushed, TypeOK, StageOrder, Alarm
  <2>6. JobEnd'
    BY <1>8 DEF Kill, HalfDone, Pushed, TypeOK, InProcess, StageOrder, PublishedBundle, JobEnd, Unpublic
  <2> QED  BY <2>1, <2>2, <2>3, <2>4, <2>5, <2>6
<1>9. CASE TriggerPages
  <2>1. TypeOK'
    <3>1. dispatched' \in BOOLEAN /\ red' \in BOOLEAN
      BY <1>9 DEF TriggerPages, TypeOK
    <3> QED
      BY <1>9, <3>1 DEF TriggerPages, TypeOK
  <2>2. InProcess'
    BY <1>9 DEF TriggerPages, Dispatchable, TypeOK, InProcess
  <2>3. StageOrder'
    BY <1>9 DEF TriggerPages, Dispatchable, TypeOK, StageOrder, PublishedBundle, Unpublic
  <2>4. PublishedBundle'
    <3>1. dispatched' => dispatched \/ outputs = "true"
      BY <1>9 DEF TriggerPages, Dispatchable
    <3>2. /\ committed' = committed /\ fanout' = fanout /\ Announcement' = Announcement
          /\ UNCHANGED <<dry, main, messages, bundle, status>>
      BY <1>9 DEF TriggerPages
    <3> QED
      BY <3>1, <3>2 DEF TypeOK, PublishedBundle, JobEnd
  <2>5. Alarm'
    BY <1>9 DEF TriggerPages, Dispatchable, TypeOK, StageOrder, Alarm
  <2>6. JobEnd'
    BY <1>9 DEF TriggerPages, Dispatchable, TypeOK, InProcess, StageOrder, PublishedBundle, JobEnd, Unpublic
  <2> QED  BY <2>1, <2>2, <2>3, <2>4, <2>5, <2>6
<1>10. CASE ReemitExitCode
  <2>1. TypeOK'
    BY <1>10 DEF ReemitExitCode, TypeOK, StageOrder, Unpublic
  <2>2. InProcess'
    BY <1>10 DEF ReemitExitCode, TypeOK, InProcess
  <2>3. StageOrder'
    BY <1>10 DEF ReemitExitCode, TypeOK, StageOrder, PublishedBundle, Unpublic
  <2>4. PublishedBundle'
    BY <1>10 DEF ReemitExitCode, TypeOK, InProcess, StageOrder, PublishedBundle, Unpublic
  <2>5. Alarm'
    BY <1>10 DEF ReemitExitCode, TypeOK, StageOrder, Alarm
  <2>6. JobEnd'
    BY <1>10 DEF ReemitExitCode, TypeOK, InProcess, StageOrder, PublishedBundle, JobEnd, Unpublic
  <2> QED  BY <2>1, <2>2, <2>3, <2>4, <2>5, <2>6
<1>11. CASE UNCHANGED vars
  BY <1>11 DEF vars, TypeOK, InProcess, StageOrder, Unpublic, PublishedBundle, Alarm, JobEnd
<1> QED
  BY <1>1, <1>2, <1>3, <1>4, <1>5, <1>6, <1>7, <1>8, <1>9, <1>10, <1>11 DEF Next

\* After every step of a run what is known at its stage holds.
THEOREM Invariance == Spec => []Inv
<1>1. Init => Inv  BY InitInv
<1>2. Inv /\ [Next]_vars => Inv'  BY StepInv
<1> QED  BY <1>1, <1>2, PTL DEF Spec

\* Nothing is announced or deployed that is not on origin/main.
THEOREM Announcements == Spec => []AnnouncedIsPublished
<1>1. Inv => AnnouncedIsPublished
  BY DEF Inv, PublishedBundle, AnnouncedIsPublished
<1> QED
  BY <1>1, Invariance, PTL

\* The message names what is on origin/main and calls every other segment
\* missing, however the run ends (_NotificationStage, missing_segments).
THEOREM Messages == Spec => []MessageIsComplete
<1>1. ASSUME Inv, NEW message \in messages
      PROVE  message.named = main /\ message.missing = Segments \ main
  <2>1. message = Announcement /\ main = bundle /\ main \subseteq drafts /\ drafts \subseteq Segments
    BY <1>1 DEF Inv, PublishedBundle, TypeOK
  <2>2. (Segments \ drafts) \cup (drafts \ main) = Segments \ main
    BY <2>1
  <2> QED
    BY <2>1, <2>2 DEF Announcement, Missing
<1>2. Inv => MessageIsComplete
  BY <1>1 DEF MessageIsComplete
<1> QED
  BY <1>2, Invariance, PTL

\* What a job that ended without turning red has done.
LEMMA GreenJob ==
  ASSUME Inv, pc = "ended", ~red
  PROVE  /\ rc = 0 /\ bundle = Segments
         /\ ~dry => main = Segments /\ (notified \/ "notify" \in alerts \cup unheard)
         /\ dry => main = {}
         /\ dispatched \/ dry \/ outputs = "lost"
  BY DEF Inv, TypeOK, JobEnd, PublishedBundle, Alarm

\* A green job published every segment.
THEOREM GreenJobs == Spec => []GreenIsComplete
<1>1. Inv => GreenIsComplete
  BY GreenJob DEF GreenIsComplete, Inv, TypeOK
<1> QED
  BY <1>1, Invariance, PTL

\* A job in which the public was not told of every segment is red, or the
\* operator got the alert about the announcement, or all segments are on main
\* and that alert is one that did not arrive: the silent case of _safe_alert.
THEOREM JobColour == Spec => []NothingSilent
<1>1. Inv => NothingSilent
  BY GreenJob DEF NothingSilent, Inv, TypeOK
<1> QED
  BY <1>1, Invariance, PTL

\* Published documents are deployed or the job is red, unless its outputs were
\* lost.
THEOREM Deployments == Spec => []PublishedIsDeployed
<1>1. Inv => PublishedIsDeployed
  BY GreenJob DEF PublishedIsDeployed, Inv, TypeOK
<1> QED
  BY <1>1, Invariance, PTL
=============================================================================
