---------------------------- MODULE BriefingProofs ----------------------------
(***************************************************************************)
(* What a briefing is made from, and which briefings make a bundle.           *)
(*                                                                            *)
(* First, that a bundle rests on one set of survivors and hides no finding,   *)
(* for every set of segments, block kinds and layouts.  Within a pass every   *)
(* active segment is still to do, sealed, newly blocked, or asks for its      *)
(* minimal source, and never two of these; what a gate found in a draft stays *)
(* in it until the draft is contained as degraded, or cannot be sealed.       *)
(*                                                                            *)
(* Second, that no segment misses news and none is given the same again so    *)
(* soon, for every set of recipients, documents and overlapping runs: what a  *)
(* cursor has passed was fetched and delivered, and what was consumed is      *)
(* remembered, or was consumed long ago.                                      *)
(***************************************************************************)
EXTENDS Finalizer, NewsWindow, FiniteSetTheorems, FunctionTheorems, TLAPS

Sealed == {d.segment : d \in documents}

\* The segments of a pass, by what became of them.
Accounting ==
  /\ native \subseteq Generated
  /\ blocked \subseteq Segments /\ newly \subseteq Segments
  /\ active # {} =>
       /\ active = Survivors
       /\ active = todo \cup Sealed \cup newly \cup requested
       /\ \A d \in documents : d.active = active
  /\ todo \cap Sealed = {}
  /\ \A d1, d2 \in documents : d1.segment = d2.segment => d1 = d2
  /\ draft # None => draft.segment \in todo \ native
  /\ todo # {} => active # {}
  /\ result = "bundle" => /\ Sealed = Survivors /\ active = {} /\ todo = {}
                          /\ \A d \in documents : d.active = Survivors

\* The gates' findings: EvidenceSurvives at any time, and of drafts.
Honest(d) ==
  d.evidence # {} \/ d.segment \in minimal =>
    d.segment = Domestic /\ d.degraded /\ d.evidence \subseteq {"numeric"}

Explained(d) ==
  \/ d.evidence \in {{}, HardCodes(d.layout)}
  \/ d.phase = "repaired" /\ d.segment = Domestic /\ d.degraded /\ d.evidence \subseteq {"numeric"}

Findings ==
  /\ minimal \subseteq {Domestic} /\ (native # {} => minimal = {})
  /\ \A d \in documents : Honest(d)
  /\ draft # None => /\ draft.segment \in minimal => draft.degraded
                     /\ Explained(draft)

\* Drafts have all their fields.
Fields ==
  draft # None =>
    draft = [segment |-> draft.segment, phase |-> draft.phase, layout |-> draft.layout,
             omitted |-> draft.omitted, evidence |-> draft.evidence,
             degraded |-> draft.degraded]

Inv == Accounting /\ Findings /\ Fields

-----------------------------------------------------------------------------
LEMMA InitInv == Init => Inv
  BY DEF Init, Inv, Accounting, Findings, Fields, Generated, Sealed

\* A repair that the gates allow leaves what they found.
LEMMA RepairKeeps ==
  ASSUME NEW layout, NEW after, ~Mutating(layout),
         \A g \in Regions : after[g] \in Applied(layout, g)
  PROVE  HardCodes(after) = HardCodes(layout)
<1>1. ASSUME NEW g \in Regions PROVE after[g] = layout[g]
  <2>1. /\ Decision(layout, g) # "omit" /\ Decision(layout, g) # "replace"
        /\ Decision(layout, g) # "repair"
    BY DEF Mutating
  <2> QED
    BY <2>1 DEF Applied
<1> QED
  BY <1>1 DEF HardCodes

\* A segment leaves the pass without a document.
LEMMA Dropped ==
  ASSUME Inv, NEW s \in todo, result' = result, documents' = documents,
         todo' = todo \ {s}, draft' = None, active' = active, blocked' = blocked,
         UNCHANGED inputs,
         \/ newly' = newly \cup {s} /\ requested' = requested
         \/ newly' = newly /\ requested' = requested \cup {s}
  PROVE  Accounting'
<1>1. Survivors' = Survivors /\ Generated' = Generated /\ Sealed' = Sealed
  BY DEF inputs, Survivors, Generated, Sealed
<1>2. active # {} /\ s \in Segments
  BY DEF Inv, Accounting, Survivors, Generated
<1> QED
  BY <1>1, <1>2 DEF Inv, Accounting, inputs

\* A segment gets its document.
LEMMA Added ==
  ASSUME Inv, NEW s \in todo, NEW d, d.segment = s, d.active = active,
         documents' = documents \cup {d}, todo' = todo \ {s}, draft' = None,
         result' = result, UNCHANGED <<inputs, loop, newly>>
  PROVE  Accounting'
<1>1. Survivors' = Survivors /\ Generated' = Generated
  BY DEF inputs, loop, Survivors, Generated
<1>2. Sealed' = Sealed \cup {s}
  BY DEF Sealed
<1>3. active # {} /\ s \notin Sealed /\ \A e \in documents : e.segment # s
  BY DEF Inv, Accounting, Sealed
<1>4. \A d1, d2 \in documents' : d1.segment = d2.segment => d1 = d2
  BY <1>3 DEF Inv, Accounting
<1>5. \A e \in documents' : e.active = active
  BY <1>3 DEF Inv, Accounting
<1> QED
  BY <1>1, <1>2, <1>3, <1>4, <1>5 DEF Inv, Accounting, inputs, loop

LEMMA BlockKeeps ==
  ASSUME Inv, result = "running", NEW s \in todo, BlockSegment(s)
  PROVE  Inv'
<1>1. Accounting'
  BY Dropped DEF BlockSegment, loop
<1>2. Findings' /\ Fields'
  BY DEF BlockSegment, loop, inputs, Inv, Findings, Fields, Honest
<1> QED
  BY <1>1, <1>2 DEF Inv

LEMMA RequestKeeps ==
  ASSUME Inv, result = "running", NEW s \in todo, RequestMinimal(s)
  PROVE  Inv'
<1>1. CASE native # {}
  <2>1. result' = "escaped" /\ UNCHANGED <<inputs, loop, todo, newly, draft, documents>>
    BY <1>1 DEF RequestMinimal
  <2>2. Survivors' = Survivors /\ Generated' = Generated /\ Sealed' = Sealed
    BY <2>1 DEF inputs, loop, Survivors, Generated, Sealed
  <2> QED
    BY <2>1, <2>2 DEF inputs, loop, Inv, Accounting, Findings, Fields, Honest, Explained
<1>2. CASE native = {}
  <2>1. Accounting'
    BY <1>2, Dropped DEF RequestMinimal
  <2>2. \/ minimal' = minimal
        \/ s = Domestic /\ minimal' = minimal \cup {s}
    BY <1>2 DEF RequestMinimal
  <2>3. \A d \in documents : d.segment # s
    BY DEF Inv, Accounting, Sealed
  <2>4. documents' = documents /\ draft' = None /\ native' = native
    BY <1>2 DEF RequestMinimal, inputs
  <2> QED
    BY <1>2, <2>1, <2>2, <2>3, <2>4 DEF Inv, Findings, Fields, Honest
<1> QED
  BY <1>1, <1>2

\* A draft of the segment it had; nothing else changes.
LEMMA DraftKeeps ==
  ASSUME Inv, NEW s \in todo \ native, draft'.segment = s,
         UNCHANGED <<inputs, loop, todo, newly, documents, result>>
  PROVE  Accounting' /\ \A d \in documents' : Honest(d)'
<1>1. Survivors' = Survivors /\ Generated' = Generated /\ Sealed' = Sealed
  BY DEF inputs, loop, Survivors, Generated, Sealed
<1> QED
  BY <1>1 DEF inputs, loop, Inv, Accounting, Findings, Honest

-----------------------------------------------------------------------------
LEMMA RepairSurfaceKeeps ==
  ASSUME Inv, RepairSurface
  PROVE  Inv'
<1>1. draft # None /\ result = "running" /\ draft.segment \in todo \ native
  BY DEF RepairSurface, At, Inv, Accounting
<1>2. CASE BlockSegment(draft.segment)
  BY <1>1, <1>2, BlockKeeps
<1>3. CASE ~BlockSegment(draft.segment)
  <2>1. PICK after \in [Regions -> UNION {Applied(draft.layout, g) : g \in Regions}] :
          /\ \A g \in Regions : after[g] \in Applied(draft.layout, g)
          /\ draft' = [draft EXCEPT !.phase = "scanned", !.layout = after,
                                    !.omitted = OmittedBySurface(draft.layout)]
    BY <1>3 DEF RepairSurface
  <2>2. /\ ~MustPreserve(draft.layout)
        /\ UNCHANGED <<inputs, loop, todo, newly, documents, result>>
    BY <1>3 DEF RepairSurface
  <2>3. draft' = [segment |-> draft.segment, phase |-> "scanned", layout |-> after,
                  omitted |-> OmittedBySurface(draft.layout),
                  evidence |-> draft.evidence, degraded |-> draft.degraded]
    BY <1>1, <2>1 DEF Inv, Fields
  <2>4. Accounting' /\ \A d \in documents' : Honest(d)'
    BY <1>1, <2>2, <2>3, DraftKeeps
  <2>5. draft.evidence \in {{}, HardCodes(draft.layout)}
    BY <1>1 DEF RepairSurface, At, Inv, Findings, Explained
  <2>6. draft.evidence \in {{}, HardCodes(after)}
    BY <2>1, <2>2, <2>5, RepairKeeps DEF MustPreserve
  <2>7. Findings'
    BY <1>1, <2>2, <2>3, <2>4, <2>6 DEF Inv, Findings, Explained, inputs, loop, HardCodes
  <2> QED
    BY <2>3, <2>4, <2>7 DEF Inv, Fields
<1> QED
  BY <1>2, <1>3

LEMMA ContainKeeps ==
  ASSUME Inv, Contain
  PROVE  Inv'
<1>1. draft # None /\ result = "running" /\ draft.segment \in todo \ native
  BY DEF Contain, At, Inv, Accounting
<1>2. CASE BlockSegment(draft.segment)
  BY <1>1, <1>2, BlockKeeps
<1>3. CASE RequestMinimal(draft.segment)
  BY <1>1, <1>3, RequestKeeps
<1>4. draft.evidence \in {{}, HardCodes(draft.layout)}
  BY <1>1 DEF Contain, At, Inv, Findings, Explained
<1>5. CASE /\ UNCHANGED <<inputs, loop, todo, newly, documents, result>>
           /\ draft.segment = Domestic /\ HardCodes(draft.layout) = {"numeric"}
           /\ draft' = [draft EXCEPT
                 !.phase = "repaired", !.degraded = TRUE,
                 !.layout = [g \in Regions |-> Contained(draft.layout, g)],
                 !.omitted = @ \cup OmittedByNumeric(draft.layout)]
  <2>1. draft' = [segment |-> draft.segment, phase |-> "repaired",
                  layout |-> [g \in Regions |-> Contained(draft.layout, g)],
                  omitted |-> draft.omitted \cup OmittedByNumeric(draft.layout),
                  evidence |-> draft.evidence, degraded |-> TRUE]
    BY <1>1, <1>5 DEF Inv, Fields
  <2>2. Accounting' /\ \A d \in documents' : Honest(d)'
    BY <1>1, <1>5, <2>1, DraftKeeps
  <2>3. draft'.evidence \subseteq {"numeric"}
    BY <1>4, <1>5, <2>1
  <2>4. Explained(draft)' /\ draft'.degraded
    BY <1>5, <2>1, <2>3 DEF Explained
  <2>5. Findings'
    BY <1>5, <2>2, <2>4 DEF Inv, Findings, inputs, loop
  <2> QED
    BY <2>1, <2>2, <2>5 DEF Inv, Fields
<1>6. CASE /\ UNCHANGED <<inputs, loop, todo, newly, documents, result>>
           /\ draft' = [draft EXCEPT !.phase = "repaired"]
  <2>1. draft' = [segment |-> draft.segment, phase |-> "repaired", layout |-> draft.layout,
                  omitted |-> draft.omitted, evidence |-> draft.evidence,
                  degraded |-> draft.degraded]
    BY <1>1, <1>6 DEF Inv, Fields
  <2>2. Accounting' /\ \A d \in documents' : Honest(d)'
    BY <1>1, <1>6, <2>1, DraftKeeps
  <2>3. Findings'
    BY <1>1, <1>4, <1>6, <2>1, <2>2 DEF Inv, Findings, Explained, inputs, loop, HardCodes
  <2> QED
    BY <2>1, <2>2, <2>3 DEF Inv, Fields
<1> QED
  BY <1>2, <1>3, <1>5, <1>6 DEF Contain

LEMMA SealKeeps ==
  ASSUME Inv, Seal
  PROVE  Inv'
<1>1. draft # None /\ result = "running" /\ draft.segment \in todo
  BY DEF Seal, At, Inv, Accounting
<1>2. CASE ArtifactsAgree
  <2>1. /\ documents' = documents \cup
              {Document(draft.segment, draft.evidence, draft.degraded)}
        /\ todo' = todo \ {draft.segment} /\ draft' = None
        /\ result' = result /\ UNCHANGED <<inputs, loop, newly>>
    BY <1>2 DEF Seal
  <2>2. Accounting'
    BY <1>1, <2>1, Added DEF Document
  <2>3. Honest(Document(draft.segment, draft.evidence, draft.degraded))
    <3>1. \/ draft.evidence = {}
          \/ draft.segment = Domestic /\ draft.degraded /\ draft.evidence \subseteq {"numeric"}
      BY <1>1 DEF Seal, Inv, Findings, Explained
    <3>2. draft.segment \in minimal => draft.segment = Domestic /\ draft.degraded
      BY <1>1 DEF Inv, Findings
    <3> QED
      BY <3>1, <3>2 DEF Honest, Document
  <2>4. Findings' /\ Fields'
    BY <2>1, <2>3 DEF Inv, Findings, Fields, Honest, inputs, loop
  <2> QED
    BY <2>2, <2>4 DEF Inv
<1>3. CASE ~ArtifactsAgree
  <2>1. result' = "invariant" /\ UNCHANGED <<documents, todo, draft, inputs, loop, newly>>
    BY <1>3 DEF Seal
  <2>2. Survivors' = Survivors /\ Generated' = Generated /\ Sealed' = Sealed
    BY <2>1 DEF inputs, loop, Survivors, Generated, Sealed
  <2> QED
    BY <2>1, <2>2 DEF inputs, loop, Inv, Accounting, Findings, Fields, Honest, Explained
<1> QED
  BY <1>2, <1>3

-----------------------------------------------------------------------------
LEMMA AssembleKeeps ==
  ASSUME Inv, NEW s, Assemble(s)
  PROVE  Inv'
<1>1. PICK layout :
        draft' = [segment |-> s, phase |-> "projected", layout |-> layout,
                  omitted |-> {}, evidence |-> HardCodes(layout),
                  degraded |-> s \in minimal]
  BY DEF Assemble
<1>2. s \in todo \ native /\ UNCHANGED <<inputs, loop, todo, newly, documents, result>>
  BY DEF Assemble
<1>3. Accounting' /\ \A d \in documents' : Honest(d)'
  BY <1>1, <1>2, DraftKeeps
<1>4. Findings'
  BY <1>1, <1>2, <1>3 DEF Inv, Findings, Explained, inputs, loop, HardCodes
<1> QED
  BY <1>1, <1>3, <1>4 DEF Inv, Fields

LEMMA SealNativeKeeps ==
  ASSUME Inv, NEW s, SealNative(s)
  PROVE  Inv'
<1>1. PICK claims \in {{}, {"numeric"}} :
        /\ claims = {} \/ s = Domestic
        /\ documents' = documents \cup {Document(s, claims, claims # {})}
  BY DEF SealNative
<1>2. /\ s \in todo /\ s \in native /\ todo' = todo \ {s} /\ draft' = None
      /\ result' = result /\ UNCHANGED <<inputs, loop, newly>>
  BY DEF SealNative
<1>3. Accounting'
  <2>1. /\ Document(s, claims, claims # {}).segment = s
        /\ Document(s, claims, claims # {}).active = active
    BY DEF Document
  <2> QED
    BY <1>1, <1>2, <2>1, Added
<1>4. Honest(Document(s, claims, claims # {}))
  BY <1>1, <1>2 DEF Honest, Document, Inv, Findings
<1>5. Findings' /\ Fields'
  BY <1>1, <1>2, <1>4 DEF Inv, Findings, Fields, Honest, inputs, loop
<1> QED
  BY <1>3, <1>5 DEF Inv

LEMMA PassKeeps ==
  ASSUME Inv, StartPass \/ EndPass \/ Exhaust \/ Fault
  PROVE  Inv'
<1>1. CASE StartPass
  <2>1. /\ result = "running" /\ result' = result /\ active = {} /\ active' = Survivors
        /\ Survivors # {} /\ documents' = {} /\ newly' = {} /\ requested' = {}
        /\ todo' = Survivors \ {d.segment : d \in documents'}
        /\ UNCHANGED <<inputs, blocked, minimal, draft>>
    BY <1>1 DEF StartPass, FreshDocuments
  <2>2. Sealed' = {} /\ todo' = Survivors
    BY <2>1 DEF Sealed
  <2>3. Survivors' = Survivors /\ Generated' = Generated /\ draft = None
    BY <2>1 DEF inputs, Survivors, Generated, Inv, Accounting
  <2>4. Accounting'
    BY <2>1, <2>2, <2>3 DEF Inv, Accounting, inputs
  <2> QED
    BY <2>1, <2>3, <2>4 DEF Inv, Findings, Fields, inputs
<1>2. CASE EndPass
  <2>1. /\ result = "running" /\ active # {} /\ todo = {} /\ draft = None
        /\ blocked' = blocked \cup newly /\ active' = {}
        /\ result' = IF newly = {} /\ requested = {} THEN "bundle" ELSE "running"
        /\ UNCHANGED <<inputs, requested, minimal, todo, newly, draft, documents>>
    BY <1>2 DEF EndPass
  <2>2. Sealed' = Sealed /\ Generated' = Generated
    BY <2>1 DEF inputs, Generated, Sealed
  <2>3. result' = "bundle" => Survivors' = Survivors /\ Sealed = active
    BY <2>1, <2>2 DEF Survivors, Inv, Accounting
  <2>4. Accounting'
    BY <2>1, <2>2, <2>3 DEF Inv, Accounting, inputs
  <2> QED
    BY <2>1, <2>4 DEF Inv, Findings, Fields, Honest, inputs
<1>3. CASE Exhaust \/ Fault
  <2>1. /\ result' \in {"failed", "fault"}
        /\ UNCHANGED <<inputs, loop, todo, newly, draft, documents>>
    BY <1>3 DEF Exhaust, Fault
  <2>2. Survivors' = Survivors /\ Generated' = Generated /\ Sealed' = Sealed
    BY <2>1 DEF inputs, loop, Survivors, Generated, Sealed
  <2> QED
    BY <2>1, <2>2 DEF inputs, loop, Inv, Accounting, Findings, Fields, Honest, Explained
<1> QED
  BY <1>1, <1>2, <1>3

LEMMA NextInv == Inv /\ [Next]_vars => Inv'
<1> SUFFICES ASSUME Inv, [Next]_vars PROVE Inv'
  OBVIOUS
<1>1. CASE StartPass \/ EndPass \/ Exhaust \/ Fault
  BY <1>1, PassKeeps
<1>2. CASE \E s \in Segments : Assemble(s)
  BY <1>2, AssembleKeeps
<1>3. CASE \E s \in Segments : AssembleBlocked(s) \/ NativeBlocked(s)
  <2>1. PICK s \in todo : result = "running" /\ BlockSegment(s)
    BY <1>3 DEF AssembleBlocked, NativeBlocked
  <2> QED
    BY <2>1, BlockKeeps
<1>4. CASE \E s \in Segments : SealNative(s)
  BY <1>4, SealNativeKeeps
<1>5. CASE RepairSurface \/ Contain \/ Seal
  BY <1>5, RepairSurfaceKeeps, ContainKeeps, SealKeeps
<1>6. CASE ValidateBlocked
  <2>1. draft.segment \in todo /\ result = "running"
    BY <1>6 DEF ValidateBlocked, At, Inv, Accounting
  <2> QED
    BY <1>6, <2>1, BlockKeeps DEF ValidateBlocked
<1>7. CASE UNCHANGED vars
  <2>1. UNCHANGED <<inputs, loop, todo, newly, draft, documents, result>>
    BY <1>7 DEF vars
  <2>2. Survivors' = Survivors /\ Generated' = Generated /\ Sealed' = Sealed
    BY <2>1 DEF inputs, loop, Survivors, Generated, Sealed
  <2> QED
    BY <2>1, <2>2 DEF inputs, loop, Inv, Accounting, Findings, Fields, Honest, Explained
<1> QED
  BY <1>1, <1>2, <1>3, <1>4, <1>5, <1>6, <1>7 DEF Next

\* A document for each survivor, and one only: as many as there are survivors.
LEMMA CountDocuments ==
  ASSUME Inv, result = "bundle"
  PROVE  Cardinality(documents) = Cardinality(Survivors)
<1> DEFINE segmentOf == [d \in documents |-> d.segment]
<1>1. Sealed = Survivors /\ \A d1, d2 \in documents : d1.segment = d2.segment => d1 = d2
  BY DEF Inv, Accounting
<1>2. segmentOf \in Bijection(documents, Survivors)
  <2>1. segmentOf \in [documents -> Survivors]
    BY <1>1 DEF Sealed
  <2>2. \A d1, d2 \in documents : segmentOf[d1] = segmentOf[d2] => d1 = d2
    BY <1>1
  <2>3. \A s \in Survivors : \E d \in documents : segmentOf[d] = s
    BY <1>1 DEF Sealed
  <2> QED
    <3> HIDE DEF segmentOf
    <3> QED
      BY <2>1, <2>2, <2>3, Fun_IsBij
<1>3. ExistsBijection(Survivors, documents)
  <2>1. ExistsBijection(documents, Survivors)
    BY <1>2, Fun_ExistsBij
  <2> QED
    BY <2>1, Fun_ExistsBijSymmetric
<1>4. IsFiniteSet(Survivors)
  BY FinalizerAssumption, FS_Subset DEF Survivors, Generated
<1> QED
  BY <1>3, <1>4, FS_Bijection

LEMMA Always == Spec => []Inv
  BY InitInv, NextInv, PTL DEF Spec

\* For every set of segments and every layout their drafts may get: the
\* documents of a bundle are those of its survivors, each assembled for exactly
\* these (_finalize_bundle_skeleton).
THEOREM BundleSoundness == Spec => []OneSurvivorSet
<1>1. Inv => OneSurvivorSet
  BY CountDocuments DEF Inv, Accounting, OneSurvivorSet, Sealed
<1> QED
  BY <1>1, Always, PTL

\* Presentation never leaves a finding of a trust gate unreported
\* (_repair_projected_draft).
THEOREM FindingsSurvive == Spec => []EvidenceSurvives
<1>1. Inv => EvidenceSurvives
  BY DEF Inv, Findings, Honest, EvidenceSurvives
<1> QED
  BY <1>1, Always, PTL

-----------------------------------------------------------------------------
(* Nothing is lost: each pass but the last blocks a segment or uses up the    *)
(* one minimal source, and a draft knows which supplements it lost.           *)
Used(S) == IF S = {} THEN 0 ELSE 1

Passes ==
  /\ pass \in Nat /\ blocked \subseteq Generated /\ minimal \subseteq Generated
  /\ requested \subseteq minimal
  /\ active = {} => pass <= Cardinality(blocked) + Used(minimal) \/ result = "bundle"
  /\ active # {} => pass <= Cardinality(blocked) + Used(minimal) - Used(requested) + 1
  /\ result = "failed" => blocked = Generated

Artifacts ==
  /\ result # "invariant"
  /\ draft # None /\ draft.segment \notin minimal =>
       /\ draft.phase = "projected" => draft.layout \in Layouts
       /\ draft.phase # "projected" =>
            \A g \in Supplements :
              draft.layout[g].form = "empty" <=> g \in draft.omitted

LEMMA Sizes ==
  ASSUME Inv, Passes
  PROVE  /\ IsFiniteSet(Segments) /\ IsFiniteSet(Generated)
         /\ Cardinality(Segments) \in Nat /\ Cardinality(Generated) \in Nat
         /\ Cardinality(Generated) <= Cardinality(Segments)
         /\ Cardinality(blocked) \in Nat /\ Cardinality(blocked) <= Cardinality(Generated)
         /\ Survivors # {} => Cardinality(blocked) < Cardinality(Generated)
         /\ \A S \in SUBSET Generated : IsFiniteSet(S) /\ Cardinality(S) \in Nat
<1>1. IsFiniteSet(Segments) /\ Generated \subseteq Segments
  BY FinalizerAssumption DEF Generated
<1>2. IsFiniteSet(Generated) /\ Cardinality(Generated) <= Cardinality(Segments)
  BY <1>1, FS_Subset
<1>3. \A S \in SUBSET Generated : IsFiniteSet(S) /\ Cardinality(S) \in Nat
  BY <1>2, FS_Subset, FS_CardinalityType
<1>4. /\ Cardinality(blocked) <= Cardinality(Generated)
      /\ Cardinality(blocked) = Cardinality(Generated) => blocked = Generated
  BY <1>2, FS_Subset DEF Passes
<1>5. blocked = Generated => Survivors = {}
  BY DEF Survivors
<1> QED
  BY <1>1, <1>2, <1>3, <1>4, <1>5, FS_CardinalityType DEF Passes

\* The passes never run out while a segment is left.
LEMMA PassesSuffice ==
  ASSUME Inv, Passes, result = "running", active = {}, Survivors # {}
  PROVE  pass < MaxPasses
<1>1. pass <= Cardinality(blocked) + Used(minimal)
  BY DEF Passes
<1>2. Cardinality(blocked) < Cardinality(Generated)
  BY Sizes
<1>3. CASE native = {}
  BY <1>1, <1>2, <1>3, Sizes DEF MaxPasses, Used, Passes
<1>4. CASE native # {}
  BY <1>1, <1>2, <1>4, Sizes DEF MaxPasses, Used, Passes, Inv, Findings
<1> QED
  BY <1>3, <1>4

LEMMA EndPassCounts ==
  ASSUME Inv, Passes, EndPass
  PROVE  Passes'
<1>1. /\ result = "running" /\ active # {} /\ todo = {} /\ active' = {}
      /\ blocked' = blocked \cup newly
      /\ result' = IF newly = {} /\ requested = {} THEN "bundle" ELSE "running"
      /\ UNCHANGED <<inputs, pass, requested, minimal>>
  BY DEF EndPass
<1>2. newly \subseteq Generated \ blocked
  BY <1>1 DEF Inv, Accounting, Survivors
<1>3. Generated' = Generated /\ blocked' \subseteq Generated
  BY <1>1, <1>2 DEF inputs, Generated, Passes
<1>4. pass <= Cardinality(blocked) + Used(minimal) - Used(requested) + 1
  BY <1>1 DEF Passes
<1>5. CASE newly # {}
  <2>1. /\ IsFiniteSet(blocked') /\ Cardinality(blocked') \in Nat
        /\ Cardinality(blocked) \in Nat
    BY <1>3, Sizes
  <2>2. Cardinality(blocked) < Cardinality(blocked')
    BY <1>1, <1>2, <1>5, <2>1, FS_Subset
  <2>3. pass' <= Cardinality(blocked') + Used(minimal)
    <3>1. /\ Used(minimal) \in {0, 1} /\ Used(requested) \in {0, 1}
          /\ pass \in Nat /\ pass' = pass
      BY <1>1 DEF Used, Passes
    <3> HIDE DEF Used
    <3> QED
      BY <1>4, <2>1, <2>2, <3>1
  <2> QED
    BY <1>1, <1>3, <2>3 DEF Passes
<1>6. CASE newly = {} /\ requested # {}
  <2>1. Used(requested) = 1 /\ blocked' = blocked /\ Cardinality(blocked) \in Nat
    BY <1>1, <1>6, Sizes DEF Used
  <2>2. pass' <= Cardinality(blocked') + Used(minimal)
    <3>1. Used(minimal) \in {0, 1} /\ pass \in Nat /\ pass' = pass
      BY <1>1 DEF Used, Passes
    <3>2. Cardinality(blocked') = Cardinality(blocked)
      BY <2>1
    <3> HIDE DEF Used
    <3> QED
      BY <1>4, <2>1, <3>1, <3>2
  <2> QED
    BY <1>1, <1>3, <2>2 DEF Passes
<1>7. CASE newly = {} /\ requested = {}
  BY <1>1, <1>3, <1>7 DEF Passes
<1> QED
  BY <1>5, <1>6, <1>7

\* Steps that neither start nor end a pass, nor use up a minimal source.
LEMMA LoopIdle ==
  ASSUME Passes, UNCHANGED <<inputs, loop>>, result' = result \/ active # {},
         result' = "failed" => result = "failed" \/ blocked = Generated
  PROVE  Passes'
  BY DEF Passes, inputs, loop, Generated

LEMMA PassesStep ==
  ASSUME Inv, Passes, Next
  PROVE  Passes'
<1>1. CASE StartPass
  <2>1. /\ result = "running" /\ active = {} /\ active' # {} /\ pass' = pass + 1
        /\ requested' = {} /\ result' = result
        /\ UNCHANGED <<inputs, blocked, minimal>>
    BY <1>1 DEF StartPass
  <2>2. pass <= Cardinality(blocked) + Used(minimal)
    BY <2>1 DEF Passes
  <2>3. /\ Cardinality(blocked) \in Nat /\ Used(minimal) \in {0, 1}
        /\ Used(requested') = 0 /\ Used(minimal') = Used(minimal) /\ pass \in Nat
    BY <2>1, Sizes DEF Used, Passes
  <2>4. pass' <= Cardinality(blocked') + Used(minimal') - Used(requested') + 1
    BY <2>1, <2>2, <2>3
  <2> QED
    BY <2>1, <2>4 DEF Passes, Generated, inputs
<1>2. CASE EndPass
  BY <1>2, EndPassCounts
<1>3. CASE Exhaust
  <2>1. /\ UNCHANGED <<inputs, loop>> /\ result = "running" /\ active = {}
        /\ result' = "failed" /\ (Survivors = {} \/ pass = MaxPasses)
    BY <1>3 DEF Exhaust
  <2>2. Survivors = {}
    BY <2>1, PassesSuffice, Sizes DEF Passes
  <2>3. blocked = Generated
    BY <2>2 DEF Survivors, Passes
  <2>4. pass' <= Cardinality(blocked') + Used(minimal')
    BY <2>1 DEF Passes, loop, Used
  <2> QED
    BY <2>1, <2>3, <2>4 DEF Passes, inputs, loop, Generated
<1>4. ASSUME NEW s \in todo, RequestMinimal(s), result = "running" PROVE Passes'
  <2>1. active # {} /\ s \in Generated
    BY <1>4 DEF Inv, Accounting, Survivors
  <2>2. CASE UNCHANGED loop /\ result' # "failed" /\ UNCHANGED inputs
    BY <2>1, <2>2, LoopIdle
  <2>3. CASE /\ native = {} /\ s = Domestic /\ s \notin minimal
             /\ minimal' = minimal \cup {s} /\ requested' = requested \cup {s}
             /\ UNCHANGED <<inputs, pass, active, blocked, result>>
    <3>1. minimal = {} /\ requested = {}
      BY <2>3 DEF Inv, Findings, Passes
    <3>2. Used(minimal') - Used(requested') = Used(minimal) - Used(requested)
      BY <2>3, <3>1 DEF Used
    <3>3. minimal' \subseteq Generated' /\ requested' \subseteq minimal'
      BY <2>1, <2>3, <3>1 DEF inputs, Generated
    <3>4. /\ Cardinality(blocked) \in Nat
          /\ {Used(minimal), Used(minimal'), Used(requested), Used(requested')} \subseteq {0, 1}
      BY Sizes DEF Used
    <3>5. pass' <= Cardinality(blocked') + Used(minimal') - Used(requested') + 1
      BY <2>1, <2>3, <3>2, <3>4 DEF Passes
    <3> QED
      BY <1>4, <2>1, <2>3, <3>3, <3>5 DEF Passes, inputs, Generated
  <2> QED
    BY <1>4, <2>2, <2>3 DEF RequestMinimal, loop
<1>5. ASSUME NEW s \in todo, BlockSegment(s), result = "running" PROVE Passes'
  BY <1>5, LoopIdle DEF BlockSegment
<1>6. CASE Fault
  BY <1>6, LoopIdle DEF Fault
<1>7. CASE \E s \in Segments : Assemble(s) \/ SealNative(s)
  BY <1>7, LoopIdle DEF Assemble, SealNative
<1>8. CASE \E s \in Segments : AssembleBlocked(s) \/ NativeBlocked(s)
  BY <1>5, <1>8 DEF AssembleBlocked, NativeBlocked
<1>9. CASE RepairSurface
  <2>1. draft.segment \in todo /\ result = "running"
    BY <1>9 DEF RepairSurface, At, Inv, Accounting
  <2>2. BlockSegment(draft.segment) \/ UNCHANGED <<inputs, loop, result>>
    BY <1>9 DEF RepairSurface
  <2> QED
    BY <1>5, <2>1, <2>2, LoopIdle
<1>10. CASE Contain
  <2>1. draft.segment \in todo /\ result = "running"
    BY <1>10 DEF Contain, At, Inv, Accounting
  <2>2. \/ BlockSegment(draft.segment) \/ RequestMinimal(draft.segment)
        \/ UNCHANGED <<inputs, loop, result>>
    BY <1>10 DEF Contain
  <2> QED
    BY <1>4, <1>5, <2>1, <2>2, LoopIdle
<1>11. CASE ValidateBlocked
  BY <1>5, <1>11 DEF ValidateBlocked, At, Inv, Accounting
<1>12. CASE Seal
  <2>1. active # {} /\ UNCHANGED <<inputs, loop>> /\ result' # "failed"
    BY <1>12 DEF Seal, At, Inv, Accounting
  <2> QED
    BY <2>1, LoopIdle
<1> QED
  BY <1>1, <1>2, <1>3, <1>6, <1>7, <1>8, <1>9, <1>10, <1>11, <1>12 DEF Next

\* What the one action on a region makes of its form.
LEMMA AppliedForms ==
  ASSUME NEW layout \in Layouts, NEW g \in Regions, NEW body \in Applied(layout, g)
  PROVE  body.form = "empty" <=> g \in OmittedBySurface(layout)
<1>1. layout[g] \in Bodies /\ layout[g].form = "written"
  BY FinalizerAssumption
<1>2. ASSUME NEW left PROVE [layout[g] EXCEPT !.issues = left].form = "written"
  BY <1>1 DEF Bodies
<1>3. Empty.form = "empty" /\ Fallback.form = "fallback"
  BY DEF Empty, Fallback
<1>4. CASE Decision(layout, g) = "omit"
  BY <1>3, <1>4 DEF Applied, OmittedBySurface
<1>5. CASE Decision(layout, g) # "omit"
  <2>1. body.form # "empty"
    BY <1>1, <1>2, <1>3, <1>5 DEF Applied
  <2> QED
    BY <1>5, <2>1 DEF OmittedBySurface
<1> QED
  BY <1>4, <1>5

LEMMA ArtifactsStep ==
  ASSUME Inv, Artifacts, Next
  PROVE  Artifacts'
<1>1. CASE StartPass \/ EndPass \/ Exhaust \/ Fault
  BY <1>1 DEF StartPass, EndPass, Exhaust, Fault, Artifacts, loop
<1>2. ASSUME NEW s, BlockSegment(s), result = "running" PROVE Artifacts'
  BY <1>2 DEF BlockSegment, Artifacts
<1>3. ASSUME NEW s, RequestMinimal(s), result = "running" PROVE Artifacts'
  BY <1>3 DEF RequestMinimal, Artifacts, loop
<1>4. CASE \E s \in Segments : Assemble(s)
  <2>1. PICK s \in Segments : Assemble(s)
    BY <1>4
  <2>2. PICK layout \in IF s \in minimal THEN MinimalLayouts ELSE Layouts :
          draft' = [segment |-> s, phase |-> "projected", layout |-> layout,
                    omitted |-> {}, evidence |-> HardCodes(layout),
                    degraded |-> s \in minimal]
    BY <2>1 DEF Assemble
  <2>3. result' = "running" /\ minimal' = minimal
    BY <2>1 DEF Assemble, loop
  <2> QED
    BY <2>2, <2>3 DEF Artifacts
<1>5. CASE \E s \in Segments : AssembleBlocked(s) \/ NativeBlocked(s)
  BY <1>2, <1>5 DEF AssembleBlocked, NativeBlocked
<1>6. CASE \E s \in Segments : SealNative(s)
  BY <1>6 DEF SealNative, Artifacts, loop
<1>7. CASE RepairSurface
  <2>1. CASE BlockSegment(draft.segment)
    BY <1>2, <1>7, <2>1 DEF RepairSurface, At
  <2>2. CASE ~BlockSegment(draft.segment)
    <3>1. PICK after \in [Regions -> UNION {Applied(draft.layout, g) : g \in Regions}] :
            /\ \A g \in Regions : after[g] \in Applied(draft.layout, g)
            /\ draft' = [draft EXCEPT !.phase = "scanned", !.layout = after,
                                      !.omitted = OmittedBySurface(draft.layout)]
      BY <1>7, <2>2 DEF RepairSurface
    <3>2. draft # None /\ draft.phase = "projected" /\ result' = "running" /\ minimal' = minimal
      BY <1>7, <2>2 DEF RepairSurface, At, loop
    <3>3. draft' = [segment |-> draft.segment, phase |-> "scanned", layout |-> after,
                    omitted |-> OmittedBySurface(draft.layout),
                    evidence |-> draft.evidence, degraded |-> draft.degraded]
      BY <3>1, <3>2 DEF Inv, Fields
    <3>4. ASSUME draft.segment \notin minimal, NEW g \in Supplements
          PROVE  after[g].form = "empty" <=> g \in OmittedBySurface(draft.layout)
      <4>1. g \in Regions /\ draft.layout \in Layouts
        BY <3>2, <3>4, FinalizerAssumption DEF Artifacts
      <4> QED
        BY <3>1, <4>1, AppliedForms
    <3> QED
      BY <3>2, <3>3, <3>4 DEF Artifacts
  <2> QED
    BY <2>1, <2>2
<1>8. CASE Contain
  <2>1. draft # None /\ draft.phase = "scanned" /\ result = "running"
    BY <1>8 DEF Contain, At
  <2>2. CASE BlockSegment(draft.segment) \/ RequestMinimal(draft.segment)
    BY <1>2, <1>3, <2>1, <2>2
  <2>3. CASE /\ UNCHANGED <<loop, result>>
             /\ draft' = [draft EXCEPT
                  !.phase = "repaired", !.degraded = TRUE,
                  !.layout = [g \in Regions |-> Contained(draft.layout, g)],
                  !.omitted = @ \cup OmittedByNumeric(draft.layout)]
    <3>1. draft' = [segment |-> draft.segment, phase |-> "repaired",
                    layout |-> [g \in Regions |-> Contained(draft.layout, g)],
                    omitted |-> draft.omitted \cup OmittedByNumeric(draft.layout),
                    evidence |-> draft.evidence, degraded |-> TRUE]
      BY <2>1, <2>3 DEF Inv, Fields
    <3>2. ASSUME draft.segment \notin minimal, NEW g \in Supplements
          PROVE  Contained(draft.layout, g).form = "empty" <=>
                   g \in draft.omitted \cup OmittedByNumeric(draft.layout)
      <4>1. g \in Regions /\ Block[g] \in Omissible
        BY FinalizerAssumption
      <4>2. draft.layout[g].form = "empty" <=> g \in draft.omitted
        BY <2>1, <3>2 DEF Artifacts
      <4>3. CASE draft.layout[g].claims = {}
        <5>1. Contained(draft.layout, g) = draft.layout[g]
          BY <4>3 DEF Contained
        <5>2. g \notin OmittedByNumeric(draft.layout)
          BY <4>3 DEF OmittedByNumeric
        <5> QED
          BY <4>2, <5>1, <5>2
      <4>4. CASE draft.layout[g].claims # {}
        <5>1. Contained(draft.layout, g) = Empty
          BY <4>1, <4>4 DEF Contained, Omissible, Replaceable
        <5>2. g \in OmittedByNumeric(draft.layout)
          BY <4>1, <4>4 DEF OmittedByNumeric
        <5> QED
          BY <5>1, <5>2 DEF Empty
      <4> QED
        BY <4>3, <4>4
    <3>3. /\ draft'.segment = draft.segment /\ draft'.phase = "repaired"
          /\ draft'.omitted = draft.omitted \cup OmittedByNumeric(draft.layout)
          /\ \A g \in Supplements : draft'.layout[g] = Contained(draft.layout, g)
      BY <3>1, FinalizerAssumption
    <3>4. result' = "running" /\ minimal' = minimal
      BY <2>1, <2>3 DEF loop
    <3> QED
      BY <3>2, <3>3, <3>4 DEF Artifacts
  <2>4. CASE UNCHANGED <<loop, result>> /\ draft' = [draft EXCEPT !.phase = "repaired"]
    <3>1. draft' = [segment |-> draft.segment, phase |-> "repaired", layout |-> draft.layout,
                    omitted |-> draft.omitted, evidence |-> draft.evidence,
                    degraded |-> draft.degraded]
      BY <2>1, <2>4 DEF Inv, Fields
    <3> QED
      BY <2>1, <2>4, <3>1 DEF Artifacts, loop
  <2> QED
    BY <1>8, <2>2, <2>3, <2>4 DEF Contain
<1>9. CASE ValidateBlocked
  BY <1>2, <1>9 DEF ValidateBlocked, At
<1>10. CASE Seal
  <2>1. draft # None /\ draft.phase = "repaired"
    BY <1>10 DEF Seal, At
  <2>2. ArtifactsAgree
    BY <2>1 DEF Artifacts, ArtifactsAgree
  <2>3. draft' = None /\ result' = "running"
    BY <1>10, <2>2 DEF Seal, At
  <2> QED
    BY <2>3 DEF Artifacts
<1> QED
  BY <1>1, <1>4, <1>5, <1>6, <1>7, <1>8, <1>9, <1>10 DEF Next

\* Only a bundle of native drafts and a legacy domestic one is left by the
\* request for a minimal source.
Escapes == result = "escaped" => native # {} /\ Domestic \in Generated \ native

LEMMA EscapesStep ==
  ASSUME Inv, Escapes, Next
  PROVE  Escapes'
<1>1. CASE UNCHANGED inputs /\ result' # "escaped"
  BY <1>1 DEF Escapes
<1>2. ASSUME NEW s, BlockSegment(s) PROVE Escapes'
  BY <1>2 DEF BlockSegment, Escapes, inputs, Generated
<1>3. ASSUME RequestMinimal(draft.segment), draft # None, draft.segment = Domestic,
             result = "running"
      PROVE  Escapes'
  <2>1. Domestic \in Generated \ native
    BY <1>3 DEF Inv, Accounting, Survivors
  <2>2. UNCHANGED inputs /\ (result' = "escaped" => native # {})
    BY <1>3 DEF RequestMinimal
  <2> QED
    BY <2>1, <2>2 DEF Escapes, inputs, Generated
<1>4. CASE StartPass \/ EndPass \/ Exhaust \/ Fault
  BY <1>1, <1>4 DEF StartPass, EndPass, Exhaust, Fault
<1>5. CASE \E s \in Segments : Assemble(s) \/ SealNative(s)
  BY <1>1, <1>5 DEF Assemble, SealNative
<1>6. CASE \E s \in Segments : AssembleBlocked(s) \/ NativeBlocked(s)
  BY <1>2, <1>6 DEF AssembleBlocked, NativeBlocked
<1>7. CASE RepairSurface
  <2>1. BlockSegment(draft.segment) \/ (UNCHANGED <<inputs, result>> /\ result = "running")
    BY <1>7 DEF RepairSurface, At
  <2> QED
    BY <1>1, <1>2, <2>1
<1>8. CASE Contain
  <2>1. draft # None /\ result = "running"
    BY <1>8 DEF Contain, At
  <2>2. \/ BlockSegment(draft.segment)
        \/ RequestMinimal(draft.segment) /\ draft.segment = Domestic
        \/ UNCHANGED <<inputs, result>>
    BY <1>8 DEF Contain
  <2> QED
    BY <1>1, <1>2, <1>3, <2>1, <2>2
<1>9. CASE ValidateBlocked
  BY <1>2, <1>9 DEF ValidateBlocked
<1>10. CASE Seal
  <2>1. UNCHANGED inputs /\ result = "running" /\ result' \in {result, "invariant"}
    BY <1>10 DEF Seal, At
  <2> QED
    BY <1>1, <2>1
<1> QED
  BY <1>4, <1>5, <1>6, <1>7, <1>8, <1>9, <1>10 DEF Next

\* For every set of segments, of which any may be native, and every layout:
\* the bundle is given up only when every generated segment was blocked, and
\* never for the bookkeeping of omitted regions (max_passes,
\* _merge_numeric_omission_block_outcomes), unless a handler raises or the
\* minimal source is asked for beside native drafts.
THEOREM NoneIsLost == Spec => []NoLostSurvivor
<1>1. Init => Inv /\ Passes /\ Artifacts /\ Escapes
  <2> SUFFICES ASSUME Init PROVE Passes /\ Artifacts /\ Escapes
    BY InitInv
  <2>1. Cardinality(blocked) = 0 /\ Used(minimal) = 0
    BY FS_EmptySet DEF Init, Used
  <2> QED
    BY <2>1 DEF Init, Passes, Artifacts, Escapes, Generated
<1>2. Inv /\ Passes /\ Artifacts /\ Escapes /\ [Next]_vars =>
        (Inv /\ Passes /\ Artifacts /\ Escapes)'
  <2> SUFFICES ASSUME Inv, Passes, Artifacts, Escapes, [Next]_vars
               PROVE  Inv' /\ Passes' /\ Artifacts' /\ Escapes'
    OBVIOUS
  <2>1. CASE Next
    BY <2>1, NextInv, PassesStep, ArtifactsStep, EscapesStep
  <2>2. CASE UNCHANGED vars
    BY <2>2, NextInv, LoopIdle DEF vars, Artifacts, Escapes, loop, inputs, Generated
  <2> QED
    BY <2>1, <2>2
<1>3. Passes /\ Artifacts /\ Escapes => NoLostSurvivor
  BY DEF Passes, Artifacts, Escapes, NoLostSurvivor
<1> QED
  BY <1>1, <1>2, <1>3, PTL DEF Spec
-----------------------------------------------------------------------------
(* The news windows.                                                          *)

Extents == [start : Nat, finish : Nat]

NewsLedgers ==
  [cursor : [Recipients -> Nat \cup {Never}],
   seen : [Recipients -> [Documents -> Nat \cup {Never}]]]

NewsRuns ==
  {Idle} \cup [pc : {"started"}, clock : Nat]
    \cup [pc : {"loaded"}, clock : Nat, base : NewsLedgers]
    \cup [pc : {"fetched"}, clock : Nat, base : NewsLedgers, items : SUBSET Documents,
          full : BOOLEAN]

NewsTypeOK ==
  /\ now \in Nat /\ ledger \in NewsLedgers /\ run \in [Runs -> NewsRuns]
  /\ document \in [Documents -> Extents \cup {Never}]
  /\ \A d \in Shown :
       /\ document[d] \in Extents
       /\ document[d].finish - document[d].start \in Lengths

NewsClocks ==
  /\ \A r \in Runs : run[r] # Idle =>
       run[r].clock <= now /\ now <= run[r].clock + Duration
  /\ \A s \in Recipients : ledger.cursor[s] # Never => ledger.cursor[s] <= now

\* A run that saw everything has what its windows hold, but for documents that
\* may still appear late.
Complete ==
  \A r \in Runs : run[r].pc = "fetched" /\ run[r].full =>
    \A d \in Shown :
      document[d].finish <= run[r].clock - Overlap /\ InUnion(r, d) => d \in run[r].items

\* What the ledger remembers was delivered.
Remembrance ==
  \A s \in Recipients, d \in Documents : ledger.seen[s][d] # Never => d \in delivered[s]

NewsInv == NewsTypeOK /\ NewsClocks

-----------------------------------------------------------------------------
LEMMA NewsRunType ==
  ASSUME NewsTypeOK, NEW r \in Runs, run[r] # Idle
  PROVE  /\ run[r].clock \in Nat
         /\ run[r].pc \in {"loaded", "fetched"} => run[r].base \in NewsLedgers
         /\ run[r].pc = "fetched" => run[r].items \subseteq Documents /\ run[r].full \in BOOLEAN
  BY DEF NewsTypeOK, NewsRuns

LEMMA NewsInitInv == NewsInit => NewsInv
<1> SUFFICES ASSUME NewsInit PROVE NewsInv
  OBVIOUS
<1>1. ledger \in NewsLedgers
  BY DEF NewsInit, NewsLedgers
<1>2. NewsTypeOK
  BY <1>1 DEF NewsInit, NewsTypeOK, NewsRuns, Shown
<1>3. NewsClocks
  BY DEF NewsInit, NewsClocks
<1> QED
  BY <1>2, <1>3 DEF NewsInv

\* The new ledger of a run.
LEMMA NewLedgerType ==
  ASSUME NewsInv, NEW r \in Runs, run[r].pc = "fetched", NEW sealed \in SUBSET Recipients
  PROVE  NewLedger(r, sealed) \in NewsLedgers
<1>1. run[r].clock \in Nat /\ run[r].base \in NewsLedgers
  BY NewsRunType DEF NewsInv, Idle
<1>2. \A s \in Recipients, d \in Documents : NewSeen(r, sealed, s, d) \in Nat \cup {Never}
  BY <1>1 DEF NewSeen, NewsLedgers
<1> QED
  BY <1>1, <1>2 DEF NewLedger, NewsLedgers

LEMMA NewsInvStep == NewsInv /\ [NewsNext]_newsVars => NewsInv'
<1> SUFFICES ASSUME NewsInv, [NewsNext]_newsVars PROVE NewsInv'
  OBVIOUS
<1>1. ASSUME NEW r \in Runs, Start(r) PROVE NewsInv'
  <2>1. run'[r] = [pc |-> "started", clock |-> now] /\ run'[r] \in NewsRuns
    BY <1>1 DEF Start, NewsInv, NewsTypeOK, NewsRuns
  <2>2. NewsTypeOK'
    BY <1>1, <2>1 DEF Start, NewsInv, NewsTypeOK, Shown
  <2>3. NewsClocks'
    BY <1>1, <2>1, NewsAssumption DEF Start, NewsInv, NewsTypeOK, NewsClocks
  <2> QED
    BY <2>2, <2>3 DEF NewsInv
<1>2. ASSUME NEW r \in Runs, Load(r) PROVE NewsInv'
  <2>1. run[r] # Idle /\ run[r].clock \in Nat
    BY <1>2, NewsRunType DEF Load, NewsInv, Idle
  <2>2. /\ run'[r] = [pc |-> "loaded", clock |-> run[r].clock, base |-> ledger]
        /\ run'[r] \in NewsRuns
    BY <1>2, <2>1 DEF Load, NewsInv, NewsTypeOK, NewsRuns
  <2>3. NewsTypeOK'
    BY <1>2, <2>2 DEF Load, NewsInv, NewsTypeOK, Shown
  <2>4. NewsClocks'
    BY <1>2, <2>1, <2>2 DEF Load, NewsInv, NewsTypeOK, NewsClocks
  <2> QED
    BY <2>3, <2>4 DEF NewsInv
<1>3. ASSUME NEW r \in Runs, Fetch(r) PROVE NewsInv'
  <2>1. run[r] # Idle /\ run[r].clock \in Nat /\ run[r].base \in NewsLedgers
    BY <1>3, NewsRunType DEF Fetch, NewsInv, Idle
  <2>2. PICK items \in SUBSET Documents, full \in BOOLEAN :
          run' = [run EXCEPT ![r] =
                    [pc |-> "fetched", clock |-> run[r].clock, base |-> run[r].base,
                     items |-> items, full |-> full]]
    BY <1>3 DEF Fetch, Shown
  <2>3. run' \in [Runs -> NewsRuns]
    BY <2>1, <2>2 DEF NewsInv, NewsTypeOK, NewsRuns
  <2>4. NewsTypeOK'
    BY <1>3, <2>3 DEF Fetch, NewsInv, NewsTypeOK, Shown
  <2>5. NewsClocks'
    BY <1>3, <2>1, <2>2 DEF Fetch, NewsInv, NewsTypeOK, NewsClocks
  <2> QED
    BY <2>4, <2>5 DEF NewsInv
<1>4. ASSUME NEW r \in Runs, Fail(r) PROVE NewsInv'
  <2>1. NewsTypeOK'
    BY <1>4 DEF Fail, NewsInv, NewsTypeOK, NewsRuns, Shown
  <2>2. NewsClocks'
    BY <1>4 DEF Fail, NewsInv, NewsTypeOK, NewsClocks
  <2> QED
    BY <2>1, <2>2 DEF NewsInv
<1>5. ASSUME NEW r \in Runs, NEW sealed \in SUBSET Recipients, Publish(r, sealed)
      PROVE  NewsInv'
  <2>1. /\ run[r].pc = "fetched" /\ run[r] # Idle
        /\ run' = [run EXCEPT ![r] = Idle]
        /\ ledger' = NewLedger(r, sealed) /\ run[r].base = ledger
        /\ now' = now /\ document' = document
    BY <1>5 DEF Publish, SameBase, Idle
  <2>2. NewsTypeOK'
    <3>1. ledger' \in NewsLedgers
      BY <2>1, NewLedgerType
    <3>2. run' \in [Runs -> NewsRuns]
      BY <2>1 DEF NewsInv, NewsTypeOK, NewsRuns
    <3> QED
      BY <2>1, <3>1, <3>2 DEF NewsInv, NewsTypeOK, Shown
  <2>3. \A s \in Recipients : ledger'.cursor[s] \in {run[r].clock, ledger.cursor[s]}
    BY <2>1 DEF NewLedger
  <2>4. NewsClocks'
    BY <2>1, <2>3 DEF NewsInv, NewsTypeOK, NewsClocks
  <2> QED
    BY <2>2, <2>4 DEF NewsInv
<1>6. CASE Tick
  <2>1. NewsTypeOK'
    BY <1>6 DEF Tick, NewsInv, NewsTypeOK, Shown
  <2>2. \A s \in Recipients : ledger.cursor[s] # Never => ledger.cursor[s] \in Nat
    BY DEF NewsInv, NewsTypeOK, NewsLedgers
  <2>3. NewsClocks'
    BY <1>6, <2>2, NewsRunType, NewsAssumption
    DEF Tick, NewsInv, NewsTypeOK, NewsClocks
  <2> QED
    BY <2>1, <2>3 DEF NewsInv
<1>7. CASE Appear
  <2>1. PICK d \in Documents, start \in Starts, length \in Lengths :
          document' = [document EXCEPT ![d] = [start |-> start, finish |-> start + length]]
    BY <1>7 DEF Appear
  <2>2. start \in Nat /\ start + length \in Nat /\ (start + length) - start = length
    BY NewsAssumption DEF NewsInv
  <2>3. document' \in [Documents -> Extents \cup {Never}]
    BY <2>1, <2>2 DEF NewsInv, NewsTypeOK, Extents
  <2>4. \A x \in Documents : x # d => document'[x] = document[x]
    BY <2>1 DEF NewsInv, NewsTypeOK
  <2>5. document'[d] = [start |-> start, finish |-> start + length]
    BY <2>1 DEF NewsInv, NewsTypeOK
  <2>6. \A x \in Documents : document'[x] # Never =>
          document'[x] \in Extents /\ document'[x].finish - document'[x].start \in Lengths
    BY <2>2, <2>4, <2>5 DEF NewsInv, NewsTypeOK, Shown, Extents
  <2>7. NewsTypeOK'
    BY <1>7, <2>3, <2>6 DEF Appear, NewsInv, NewsTypeOK, Shown
  <2>8. NewsClocks'
    BY <1>7 DEF Appear, NewsInv, NewsClocks
  <2> QED
    BY <2>7, <2>8 DEF NewsInv
<1>8. CASE UNCHANGED newsVars
  BY <1>8 DEF newsVars, NewsInv, NewsTypeOK, NewsClocks, Shown
<1> QED
  BY <1>1, <1>2, <1>3, <1>4, <1>5, <1>6, <1>7, <1>8 DEF NewsNext, Pipeline

-----------------------------------------------------------------------------
(* What a published window moves.                                             *)
LEMMA NewsPublishIs ==
  ASSUME NewsInv, NEW r \in Runs, NEW sealed \in SUBSET Recipients, Publish(r, sealed)
  PROVE  /\ run[r].pc = "fetched" /\ run[r] # Idle /\ run[r].base = ledger
         /\ run[r].clock \in Nat /\ run[r].clock <= now /\ now <= run[r].clock + Duration
         /\ run' = [run EXCEPT ![r] = Idle]
         /\ now' = now /\ document' = document
         /\ \A s \in Recipients :
              /\ ledger'.cursor[s] = IF s \in Advancing(r, sealed) THEN run[r].clock
                                     ELSE ledger.cursor[s]
              /\ \A d \in Documents : ledger'.seen[s][d] = NewSeen(r, sealed, s, d)
              /\ delivered'[s] =
                   delivered[s] \cup (IF s \in sealed THEN Input(r, s) ELSE {})
              /\ \A d \in Documents : settled'[s][d] =
                   IF s \in Advancing(r, sealed) /\ d \in Input(r, s)
                   THEN run[r].clock ELSE settled[s][d]
              /\ beyond'[s] =
                   beyond[s] \cup (IF s \in Advancing(r, sealed)
                                   THEN LeftOut(r, s) ELSE {})
<1>1. run[r].pc = "fetched" /\ run[r] # Idle /\ run[r].base = ledger
  BY DEF Publish, SameBase, Idle
<1>2. run[r].clock \in Nat /\ run[r].clock <= now /\ now <= run[r].clock + Duration
  BY <1>1, NewsRunType DEF NewsInv, NewsClocks
<1> QED
  BY <1>1, <1>2 DEF Publish, NewLedger

\* A segment that advances was fetched for, and its clock is past its cursor.
LEMMA AdvancingIs ==
  ASSUME NewsInv, NEW r \in Runs, NEW sealed \in SUBSET Recipients, NEW s \in Recipients,
         Publish(r, sealed), s \in Advancing(r, sealed)
  PROVE  /\ run[r].full /\ s \in sealed /\ s \in Required(r)
         /\ ledger.cursor[s] # Never => run[r].clock > ledger.cursor[s]
<1>1. run[r].full /\ s \in sealed /\ s \in Required(r)
  BY DEF Advancing
<1>2. run[r].base = ledger
  BY NewsPublishIs
<1> QED
  BY <1>1, <1>2 DEF Required, FetchRequired, Logical

\* Runs that overlap, or whose clock is behind, never move a cursor back
\* (prepare_news_window_publication).
THEOREM CursorsAdvance == NewsSpec => CursorMonotonic
<1> DEFINE Advance ==
      \A s \in Recipients :
        ledger.cursor[s] # Never =>
          ledger'.cursor[s] # Never /\ ledger'.cursor[s] >= ledger.cursor[s]
<1>1. NewsInv /\ [NewsNext]_newsVars => [Advance]_newsVars
  <2> SUFFICES ASSUME NewsInv, NewsNext, NEW s \in Recipients, ledger.cursor[s] # Never
               PROVE  ledger'.cursor[s] # Never /\ ledger'.cursor[s] >= ledger.cursor[s]
    OBVIOUS
  <2>1. ledger.cursor[s] \in Nat
    BY DEF NewsInv, NewsTypeOK, NewsLedgers
  <2>2. CASE \E r \in Runs, sealed \in SUBSET Recipients : Publish(r, sealed)
    <3>1. PICK r \in Runs, sealed \in SUBSET Recipients : Publish(r, sealed)
      BY <2>2
    <3>2. run[r].clock \in Nat
      BY <3>1, NewsPublishIs
    <3>3. Never \notin Nat
      BY NewsAssumption
    <3> QED
      BY <2>1, <3>1, <3>2, <3>3, NewsPublishIs, AdvancingIs
  <2>3. CASE ledger' = ledger
    BY <2>1, <2>3
  <2> QED
    BY <2>2, <2>3 DEF NewsNext, Pipeline, Start, Load, Fetch,
       Fail, Tick, Appear
<1>2. NewsSpec => []NewsInv
  BY NewsInitInv, NewsInvStep, PTL DEF NewsSpec
<1> QED
  BY <1>1, <1>2, PTL DEF NewsSpec, CursorMonotonic

-----------------------------------------------------------------------------
(* Nothing is lost without a word.                                            *)

\* make_news_window_plan looks back Overlap for documents that appear late.
OverlapCoversDelay == Delay <= Overlap

LossInv == NewsInv /\ OverlapCoversDelay /\ Complete /\ Remembrance /\ NoSilentLoss

\* A document that appears is too recent for any clock to have passed it.
LEMMA AppearIs ==
  ASSUME NewsInv, OverlapCoversDelay, Appear
  PROVE  \E d \in Documents :
           /\ d \notin Shown
           /\ \A x \in Documents : x # d => document'[x] = document[x]
           /\ document'[d] \in Extents
           /\ \A clock \in Nat : clock <= now => document'[d].finish > clock - Overlap
<1>1. PICK d \in Documents, start \in Starts, length \in Lengths :
        /\ document[d] = Never /\ now < start + length + Delay
        /\ document' = [document EXCEPT ![d] = [start |-> start, finish |-> start + length]]
  BY DEF Appear
<1>2. document'[d] = [start |-> start, finish |-> start + length]
  BY <1>1 DEF NewsInv, NewsTypeOK
<1>3. start \in Nat /\ start + length \in Nat /\ now \in Nat /\ Delay \in Nat /\ Overlap \in Nat
  BY NewsAssumption DEF NewsInv, NewsTypeOK
<1>4. document'[d] \in Extents
  BY <1>2, <1>3 DEF Extents
<1>5. \A clock \in Nat : clock <= now => document'[d].finish > clock - Overlap
  BY <1>1, <1>2, <1>3 DEF OverlapCoversDelay
<1>6. \A x \in Documents : x # d => document'[x] = document[x]
  BY <1>1 DEF NewsInv, NewsTypeOK
<1> QED
  BY <1>1, <1>4, <1>5, <1>6 DEF Shown

LEMMA LossAppear == ASSUME LossInv, Appear PROVE LossInv'
<1>1. PICK d \in Documents :
        /\ d \notin Shown
        /\ \A x \in Documents : x # d => document'[x] = document[x]
        /\ \A clock \in Nat : clock <= now => document'[d].finish > clock - Overlap
        /\ document'[d] \in Extents
  BY AppearIs DEF LossInv
<1>2. UNCHANGED <<now, ledger, run, delivered, settled, beyond>>
  BY DEF Appear, history
<1>3. NewsInv' /\ OverlapCoversDelay'
  BY NewsInvStep DEF LossInv, NewsNext, OverlapCoversDelay
<1>4. document'[d].finish \in Int /\ Overlap \in Int
  BY <1>1, NewsAssumption DEF Extents, LossInv, NewsInv
<1>5. Complete'
  <2> SUFFICES ASSUME NEW r \in Runs, run[r].pc = "fetched", run[r].full,
                      NEW x \in Shown', document'[x].finish <= run[r].clock - Overlap,
                      InUnion(r, x)'
               PROVE  x \in run[r].items
    BY <1>2 DEF Complete
  <2>1. run[r].clock \in Nat /\ run[r].clock <= now
    BY NewsRunType DEF LossInv, NewsInv, NewsClocks, Idle
  <2>2. x # d /\ x \in Documents
    BY <1>1, <1>4, <2>1 DEF Shown
  <2>3. document'[x] = document[x] /\ x \in Shown
    BY <1>1, <2>2 DEF Shown
  <2>4. InUnion(r, x)
    BY <1>2, <2>3 DEF InUnion, Required, Requested, InWindow
  <2> QED
    BY <2>3, <2>4 DEF LossInv, Complete
<1>6. Remembrance'
  BY <1>2 DEF LossInv, Remembrance
<1>7. NoSilentLoss'
  <2> SUFFICES ASSUME NEW s \in Recipients, ledger.cursor[s] # Never,
                      NEW x \in Shown', document'[x].finish <= ledger.cursor[s] - Overlap
               PROVE  x \in delivered[s] \/ document'[x].finish \in beyond[s]
    BY <1>2 DEF NoSilentLoss
  <2>1. ledger.cursor[s] \in Nat /\ ledger.cursor[s] <= now
    BY DEF LossInv, NewsInv, NewsTypeOK, NewsClocks, NewsLedgers
  <2>2. x # d /\ x \in Documents
    BY <1>1, <1>4, <2>1 DEF Shown
  <2>3. document'[x] = document[x] /\ x \in Shown
    BY <1>1, <2>2 DEF Shown
  <2> QED
    BY <2>3 DEF LossInv, NoSilentLoss
<1> QED
  BY <1>3, <1>5, <1>6, <1>7 DEF LossInv

LEMMA LossFetch == ASSUME LossInv, NEW r \in Runs, Fetch(r) PROVE LossInv'
<1>1. /\ run[r].pc = "loaded"
      /\ UNCHANGED <<now, document, ledger, delivered, settled, beyond>>
  BY DEF Fetch, history
<1>2. PICK items \in SUBSET Documents, full \in BOOLEAN :
        /\ full => items = {d \in Shown : InUnion(r, d)}
        /\ run' = [run EXCEPT ![r] =
                     [pc |-> "fetched", clock |-> run[r].clock, base |-> run[r].base,
                      items |-> items, full |-> full]]
  BY DEF Fetch, Shown
<1>3. NewsInv' /\ OverlapCoversDelay'
  BY NewsInvStep DEF LossInv, NewsNext, Pipeline, OverlapCoversDelay
<1>4. Complete'
  <2> SUFFICES ASSUME NEW q \in Runs, run'[q].pc = "fetched", run'[q].full,
                      NEW x \in Shown, InUnion(q, x)',
                      document[x].finish <= run'[q].clock - Overlap
               PROVE  x \in run'[q].items
    BY <1>1 DEF Complete, Shown
  <2>1. run'[q].base = run[q].base /\ run'[q].clock = run[q].clock
    BY <1>2 DEF LossInv, NewsInv, NewsTypeOK
  <2>2. InUnion(q, x)
    BY <1>1, <2>1 DEF InUnion, Required, Requested, InWindow
  <2>3. CASE q = r
    <3>1. run'[r].full = full /\ run'[r].items = items
      BY <1>2 DEF LossInv, NewsInv, NewsTypeOK
    <3> QED
      BY <1>2, <2>2, <2>3, <3>1
  <2>4. CASE q # r
    BY <1>2, <2>2, <2>4 DEF LossInv, NewsInv, NewsTypeOK, Complete
  <2> QED
    BY <2>3, <2>4
<1> QED
  BY <1>1, <1>3, <1>4 DEF LossInv, Remembrance, NoSilentLoss, Shown

\* A step of a run that publishes nothing and fetches nothing.
LEMMA LossIdles ==
  ASSUME LossInv,
         \/ \E r \in Runs : Start(r) \/ Load(r) \/ Fail(r)
         \/ Tick \/ UNCHANGED newsVars
  PROVE  LossInv'
<1>1. /\ UNCHANGED <<document, ledger, delivered, settled, beyond>>
      /\ \A q \in Runs : run'[q].pc = "fetched" => run'[q] = run[q]
  BY DEF Start, Load, Fail, Tick, newsVars, history, LossInv,
     NewsInv, NewsTypeOK, Idle
<1>2. NewsInv' /\ OverlapCoversDelay'
  BY NewsInvStep DEF LossInv, NewsNext, Pipeline, OverlapCoversDelay
<1>3. Complete'
  <2> SUFFICES ASSUME NEW q \in Runs, run'[q].pc = "fetched", run'[q].full,
                      NEW x \in Shown, InUnion(q, x)',
                      document[x].finish <= run'[q].clock - Overlap
               PROVE  x \in run'[q].items
    BY <1>1 DEF Complete, Shown
  <2>1. run'[q] = run[q]
    BY <1>1
  <2>2. InUnion(q, x)
    BY <1>1, <2>1 DEF InUnion, Required, Requested, InWindow
  <2> QED
    BY <2>1, <2>2 DEF LossInv, Complete
<1> QED
  BY <1>1, <1>2, <1>3 DEF LossInv, Remembrance, NoSilentLoss, Shown

\* Of what lies behind the new cursor, a document is in the window of the run,
\* or behind the old cursor, or before anything a window may cover.
LEMMA Placed ==
  ASSUME LossInv, NEW r \in Runs, NEW sealed \in SUBSET Recipients, Publish(r, sealed),
         NEW s \in Advancing(r, sealed), NEW d \in Shown,
         document[d].finish <= run[r].clock - Overlap
  PROVE  \/ InWindow(document[d], Requested(r, s), run[r].clock)
         \/ ledger.cursor[s] # Never /\ document[d].finish <= ledger.cursor[s] - Overlap
         \/ document[d].finish \in LeftOut(r, s)
<1> DEFINE extent == document[d]
           cursor == ledger.cursor[s]
           clock == run[r].clock
           start == Requested(r, s)
<1>1. /\ Overlap \in Nat /\ 0 < Overlap /\ Bootstrap \in Nat /\ 0 < Bootstrap
      /\ Horizon \in Nat /\ Never \notin Int
  BY NewsAssumption DEF LossInv, NewsInv
<1>2. clock \in Nat /\ run[r].base = ledger /\ s \in Recipients
  BY NewsPublishIs DEF LossInv, Advancing
<1>3. extent.start \in Nat /\ extent.finish \in Nat /\ extent.start < extent.finish
  <2>1. /\ extent \in Extents /\ extent.finish - extent.start \in Lengths
        /\ Lengths \subseteq Nat \ {0}
    BY NewsAssumption DEF LossInv, NewsInv, NewsTypeOK
  <2>2. extent.start \in Nat /\ extent.finish \in Nat
    BY <2>1 DEF Extents
  <2>3. extent.finish - extent.start \in Nat \ {0}
    BY <2>1
  <2> HIDE DEF extent
  <2> QED
    BY <2>2, <2>3
<1>4. cursor \in Nat \cup {Never}
  BY <1>2 DEF LossInv, NewsInv, NewsTypeOK, NewsLedgers
<1>5. clock > (IF cursor = Never THEN clock - Bootstrap ELSE cursor)
  BY <1>1, <1>2, AdvancingIs DEF LossInv
<1>6. start = IF cursor = Never THEN clock - Bootstrap
              ELSE IF cursor - Overlap > clock - Horizon THEN cursor - Overlap
              ELSE clock - Horizon
  <2>1. CASE cursor = Never
    BY <1>1, <1>2, <1>5, <2>1 DEF Requested, RequestedStart, Logical
  <2>2. CASE cursor # Never
    BY <1>1, <1>2, <1>4, <1>5, <2>2 DEF Requested, RequestedStart, Logical
  <2> QED
    BY <2>1, <2>2
<1>7. LeftOut(r, s) = IF cursor = Never THEN 0..(clock - Bootstrap)
                           ELSE (cursor - Overlap + 1)..(clock - Horizon)
  BY <1>2 DEF LeftOut
<1>8. extent.start < clock
  BY <1>1, <1>2, <1>3
<1>9. InWindow(extent, start, clock) <=> extent.start < clock /\ extent.finish > start
  BY DEF InWindow
<1> HIDE DEF extent, cursor, clock, start
<1>10. CASE extent.finish > start
  BY <1>8, <1>9, <1>10 DEF extent, clock, start
<1>11. CASE cursor = Never /\ ~(extent.finish > start)
  <2>1. extent.finish \in 0..(clock - Bootstrap)
    BY <1>1, <1>2, <1>3, <1>6, <1>11
  <2> QED
    BY <1>7, <1>11, <2>1 DEF extent
<1>12. CASE cursor # Never /\ ~(extent.finish > start)
  <2>1. \/ extent.finish <= cursor - Overlap
        \/ extent.finish \in (cursor - Overlap + 1)..(clock - Horizon)
    BY <1>1, <1>2, <1>3, <1>4, <1>6, <1>12
  <2> QED
    BY <1>7, <1>12, <2>1 DEF extent, cursor
<1> QED
  BY <1>10, <1>11, <1>12

LEMMA LossPublish ==
  ASSUME LossInv, NEW r \in Runs, NEW sealed \in SUBSET Recipients, Publish(r, sealed)
  PROVE  LossInv'
<1>1. NewsInv' /\ OverlapCoversDelay'
  BY NewsInvStep DEF LossInv, NewsNext, Pipeline, OverlapCoversDelay
<1>2. /\ run[r].base = ledger /\ run[r].pc = "fetched"
      /\ run' = [run EXCEPT ![r] = Idle] /\ document' = document
  BY NewsPublishIs DEF LossInv
<1>3. Complete'
  <2> SUFFICES ASSUME NEW q \in Runs, run'[q].pc = "fetched", run'[q].full,
                      NEW x \in Shown, InUnion(q, x)',
                      document[x].finish <= run'[q].clock - Overlap
               PROVE  x \in run'[q].items
    BY <1>2 DEF Complete, Shown
  <2>1. run'[q] = run[q]
    BY <1>2 DEF LossInv, NewsInv, NewsTypeOK, Idle
  <2>2. InUnion(q, x)
    BY <1>2, <2>1 DEF InUnion, Required, Requested, InWindow
  <2> QED
    BY <2>1, <2>2 DEF LossInv, Complete
<1>4. Remembrance'
  <2> SUFFICES ASSUME NEW s \in Recipients, NEW d \in Documents, ledger'.seen[s][d] # Never
               PROVE  d \in delivered'[s]
    BY DEF Remembrance
  <2>1. ledger'.seen[s][d] = NewSeen(r, sealed, s, d)
    BY NewsPublishIs DEF LossInv
  <2>2. \/ s \in Advancing(r, sealed) /\ d \in Input(r, s)
        \/ ledger.seen[s][d] # Never
    BY <1>2, <2>1 DEF NewSeen
  <2>3. s \in Advancing(r, sealed) => s \in sealed
    BY DEF Advancing
  <2> QED
    BY <2>2, <2>3, NewsPublishIs DEF LossInv, Remembrance
<1>5. NoSilentLoss'
  <2> SUFFICES ASSUME NEW s \in Recipients, ledger'.cursor[s] # Never, NEW d \in Shown,
                      document[d].finish <= ledger'.cursor[s] - Overlap
               PROVE  d \in delivered'[s] \/ document[d].finish \in beyond'[s]
    BY <1>2 DEF NoSilentLoss, Shown
  <2>1. delivered[s] \subseteq delivered'[s] /\ beyond[s] \subseteq beyond'[s]
    BY NewsPublishIs DEF LossInv
  <2>2. ledger.cursor[s] # Never /\ document[d].finish <= ledger.cursor[s] - Overlap =>
          d \in delivered[s] \/ document[d].finish \in beyond[s]
    BY DEF LossInv, NoSilentLoss
  <2>3. CASE s \notin Advancing(r, sealed)
    BY <2>1, <2>2, <2>3, NewsPublishIs DEF LossInv
  <2>4. CASE s \in Advancing(r, sealed)
    <3>1. /\ ledger'.cursor[s] = run[r].clock
          /\ delivered'[s] = delivered[s] \cup Input(r, s)
          /\ beyond'[s] = beyond[s] \cup LeftOut(r, s)
      BY <2>4, NewsPublishIs, AdvancingIs DEF LossInv
    <3>2. CASE InWindow(document[d], Requested(r, s), run[r].clock)
      <4>1. run[r].full /\ s \in Required(r)
        BY <2>4, AdvancingIs DEF LossInv
      <4>2. d \in run[r].items
        BY <1>2, <3>1, <3>2, <4>1 DEF InUnion, LossInv, Complete
      <4>3. d \in Remembered(r, s) => d \in delivered[s]
        BY <1>2 DEF Remembered, LossInv, Remembrance
      <4> QED
        BY <3>1, <3>2, <4>1, <4>2, <4>3 DEF Input
    <3> QED
      BY <2>1, <2>2, <2>4, <3>1, <3>2, Placed
  <2> QED
    BY <2>3, <2>4
<1> QED
  BY <1>1, <1>3, <1>4, <1>5 DEF LossInv

LEMMA LossStep == LossInv /\ [NewsNext]_newsVars => LossInv'
  BY LossIdles, LossFetch, LossPublish, LossAppear DEF NewsNext, Pipeline

\* Once a segment's cursor has left a document behind for good, the segment was
\* given it, unless no interval that the code could plan held it: if documents
\* do not appear later than the overlap looks back (make_news_window_plan).
THEOREM NothingIsLost ==
  ASSUME OverlapCoversDelay
  PROVE  NewsSpec => []NoSilentLoss
<1>1. NewsInit => LossInv
  <2> SUFFICES ASSUME NewsInit PROVE LossInv
    OBVIOUS
  <2>1. NewsInv
    BY NewsInitInv
  <2>2. Complete /\ Remembrance /\ NoSilentLoss
    BY DEF NewsInit, Idle, Complete, Remembrance, NoSilentLoss, Shown
  <2> QED
    BY <2>1, <2>2 DEF LossInv
<1>2. LossInv /\ [NewsNext]_newsVars => LossInv'
  BY LossStep
<1>3. LossInv => NoSilentLoss
  BY DEF LossInv
<1> QED
  BY <1>1, <1>2, <1>3, PTL DEF NewsSpec

-----------------------------------------------------------------------------
(* Nothing is given twice so soon.                                            *)

\* What windows that advanced consumed of a segment's news.
Given(s) == {d \in Documents : settled[s][d] # Never}

\* The ledger remembers when a revision was consumed, or that is long ago.
Recalled ==
  \A s \in Recipients : \A d \in Given(s) :
    /\ settled[s][d] \in Nat
    /\ \/ settled[s][d] + Horizon < now
       \/ /\ ledger.seen[s][d] = settled[s][d]
          /\ ledger.cursor[s] # Never /\ settled[s][d] <= ledger.cursor[s]

RecallInv == NewsInv /\ Recalled

LEMMA RecallStep == RecallInv /\ [NewsNext]_newsVars => RecallInv'
<1> SUFFICES ASSUME RecallInv, [NewsNext]_newsVars PROVE RecallInv'
  OBVIOUS
<1>1. NewsInv'
  BY NewsInvStep DEF RecallInv
<1>2. Horizon \in Nat /\ Never \notin Nat /\ now \in Nat
  BY NewsAssumption DEF RecallInv, NewsInv, NewsTypeOK
<1>3. ASSUME UNCHANGED <<ledger, settled>>, now' \in Nat, now' >= now
      PROVE  Recalled'
  BY <1>2, <1>3 DEF RecallInv, Recalled, Given
<1>4. ASSUME NEW r \in Runs, NEW sealed \in SUBSET Recipients, Publish(r, sealed)
      PROVE  Recalled'
  <2> SUFFICES ASSUME NEW s \in Recipients, NEW d \in Documents, settled'[s][d] # Never
               PROVE  /\ settled'[s][d] \in Nat
                      /\ \/ settled'[s][d] + Horizon < now
                         \/ /\ ledger'.seen[s][d] = settled'[s][d]
                            /\ ledger'.cursor[s] # Never
                            /\ settled'[s][d] <= ledger'.cursor[s]
    BY <1>4, NewsPublishIs DEF RecallInv, Recalled, Given
  <2> DEFINE clock == run[r].clock
             then == settled[s][d]
             advancing == s \in Advancing(r, sealed)
  <2>1. /\ clock \in Nat /\ clock <= now /\ run[r].base = ledger
        /\ ledger'.cursor[s] = IF advancing THEN clock ELSE ledger.cursor[s]
        /\ ledger'.seen[s][d] = NewSeen(r, sealed, s, d)
        /\ settled'[s][d] = IF advancing /\ d \in Input(r, s) THEN clock ELSE then
    BY <1>4, NewsPublishIs DEF RecallInv
  <2>2. CASE advancing /\ d \in Input(r, s)
    <3>1. /\ ledger'.cursor[s] = clock /\ ledger'.seen[s][d] = clock
          /\ settled'[s][d] = clock
      BY <2>1, <2>2 DEF NewSeen
    <3> QED
      BY <1>2, <2>1, <3>1
  <2>3. CASE ~(advancing /\ d \in Input(r, s))
    <3>1. settled'[s][d] = then /\ d \in Given(s) /\ then \in Nat
      BY <2>1, <2>3 DEF RecallInv, Recalled, Given
    <3>2. CASE then + Horizon < now
      BY <3>1, <3>2
    <3>3. CASE /\ ledger.seen[s][d] = then
               /\ ledger.cursor[s] # Never /\ then <= ledger.cursor[s]
      <4>1. ledger.cursor[s] \in Nat
        BY <3>3 DEF RecallInv, NewsInv, NewsTypeOK, NewsLedgers
      <4>2. /\ ledger'.cursor[s] # Never /\ ledger'.cursor[s] \in Nat
            /\ ledger.cursor[s] <= ledger'.cursor[s]
        BY <1>2, <1>4, <2>1, <3>3, <4>1, AdvancingIs DEF RecallInv
      <4>3. ledger'.seen[s][d] = IF then >= clock - Horizon THEN then ELSE Never
        BY <1>2, <2>1, <2>3, <3>1, <3>3 DEF NewSeen
      <4> HIDE DEF then, clock
      <4>4. CASE then >= clock - Horizon
        BY <3>1, <3>3, <4>1, <4>2, <4>3, <4>4
      <4>5. CASE then < clock - Horizon
        BY <1>2, <2>1, <3>1, <4>5
      <4> QED
        BY <1>2, <2>1, <3>1, <4>4, <4>5
    <3> QED
      BY <3>1, <3>2, <3>3 DEF RecallInv, Recalled
  <2> QED
    BY <2>2, <2>3
<1>5. CASE \E r \in Runs, sealed \in SUBSET Recipients : Publish(r, sealed)
  BY <1>1, <1>4, <1>5 DEF RecallInv
<1>6. CASE \/ \E r \in Runs : Start(r) \/ Load(r) \/ Fetch(r) \/ Fail(r)
           \/ Tick \/ Appear \/ UNCHANGED newsVars
  <2>1. UNCHANGED <<ledger, settled>> /\ now' \in Nat /\ now' >= now
    BY <1>2, <1>6 DEF Start, Load, Fetch, Fail, Tick, Appear, newsVars, history
  <2> QED
    BY <1>1, <1>3, <2>1 DEF RecallInv
<1> QED
  BY <1>5, <1>6 DEF NewsNext, Pipeline

\* A run that is published gives nothing too soon: it read the ledger it
\* replaces, and it is not behind the present by more than it may last.
LEMMA NotTooSoon ==
  ASSUME RecallInv, NEW r \in Runs, NEW sealed \in SUBSET Recipients, Publish(r, sealed),
         NEW s \in Recipients
  PROVE  TooSoon(r, s) = {}
<1> SUFFICES ASSUME NEW d \in TooSoon(r, s) PROVE FALSE
  OBVIOUS
<1> DEFINE clock == run[r].clock
           then == settled[s][d]
           cursor == ledger.cursor[s]
<1>1. /\ d \in Documents /\ then # Never /\ clock <= then + Horizon - Duration
      /\ d \in Input(r, s)
  BY DEF TooSoon
<1>2. /\ clock \in Nat /\ now <= clock + Duration /\ now \in Nat
      /\ run[r].base = ledger /\ Horizon \in Nat /\ Duration \in Nat
  BY NewsPublishIs, NewsAssumption DEF RecallInv, NewsInv, NewsTypeOK
<1>3. then \in Nat
  BY <1>1 DEF RecallInv, Recalled, Given
<1>4. s \in Required(r) /\ d \notin Remembered(r, s)
  BY <1>1 DEF Input
<1>5. CASE then + Horizon < now
  <2> HIDE DEF clock, then
  <2> QED
    BY <1>1, <1>2, <1>3, <1>5
<1>6. CASE ledger.seen[s][d] = then /\ cursor # Never /\ then <= cursor
  <2>1. cursor \in Nat
    BY <1>6 DEF RecallInv, NewsInv, NewsTypeOK, NewsLedgers
  <2>2. clock > cursor
    BY <1>2, <1>4, <1>6 DEF Required, FetchRequired, Logical
  <2>3. then \notin (clock - Horizon)..clock
    BY <1>1, <1>2, <1>4, <1>6 DEF Remembered
  <2> HIDE DEF clock, then, cursor
  <2> QED
    BY <1>1, <1>2, <1>3, <1>6, <2>1, <2>2, <2>3
<1> QED
  BY <1>1, <1>5, <1>6 DEF RecallInv, Recalled, Given

\* For all documents, known exactly or by date only, and however runs overlap:
\* a revision that a window consumed is not given to the segment again within
\* Horizon, less what a run may last.  The overlap of windows is filtered by
\* what the ledger remembers, and forgetting does not undo that so soon
\* (filter_news_items_for_segment, prepare_news_window_publication).
THEOREM NothingIsRepeated == NewsSpec => NoRedelivery
<1> DEFINE Fresh ==
      \A r \in Runs, s \in Recipients : TooSoon(r, s) # {} =>
        \A sealed \in SUBSET Recipients : Publish(r, sealed) => s \notin sealed
<1>1. NewsInit => RecallInv
  <2> SUFFICES ASSUME NewsInit PROVE RecallInv
    OBVIOUS
  <2>1. NewsInv
    BY NewsInitInv
  <2>2. Recalled
    BY DEF NewsInit, Recalled, Given
  <2> QED
    BY <2>1, <2>2 DEF RecallInv
<1>2. RecallInv => Fresh
  BY NotTooSoon
<1>3. RecallInv /\ [NewsNext]_newsVars => RecallInv' /\ [Fresh]_newsVars
  BY <1>2, RecallStep
<1> QED
  BY <1>1, <1>3, PTL DEF NewsSpec, NoRedelivery

-----------------------------------------------------------------------------
(* News with exact timestamps is given once for all.                          *)

\* A revision is forgotten a Horizon after it was consumed, by the clock of the
\* run that publishes (prepare_news_window_publication).  If no document extends
\* beyond the unit of time after its consumption, no window reaches it then.
\* That is so for exact timestamps and not for documents known by date only.
\* A run behind the forgetting one looks back further, which the rest of that
\* unit must cover, unless runs follow each other, as the jobs of one branch do.
Punctual ==
  \A length \in Lengths :
    length <= 2 /\ (length + Duration <= 2 \/ \A r, q \in Runs : r = q)

\* No window reaches back to this time any more.
OutOfReach(time) ==
  /\ time <= now - Horizon
  /\ \A r \in Runs : run[r] # Idle => time <= run[r].clock - Horizon

\* What was consumed is remembered, or cannot be in a window again.
Consumed ==
  \A s \in Recipients, d \in Documents : d \in Given(s) =>
    /\ d \in Shown /\ ledger.cursor[s] # Never
    /\ \/ OutOfReach(document[d].finish)
       \/ /\ ledger.seen[s][d] # Never /\ ledger.seen[s][d] <= ledger.cursor[s]
          /\ document[d].start < ledger.seen[s][d]

Fetched == \A r \in Runs : run[r].pc = "fetched" => run[r].items \subseteq Shown

TwiceInv == NewsInv /\ Punctual /\ Consumed /\ Fetched

LEMMA NotAgain ==
  ASSUME TwiceInv, NEW r \in Runs, NEW sealed \in SUBSET Recipients, Publish(r, sealed),
         NEW s \in Recipients
  PROVE  Input(r, s) \cap Given(s) = {}
<1> SUFFICES ASSUME NEW d \in Input(r, s), d \in Given(s) PROVE FALSE
  OBVIOUS
<1> DEFINE extent == document[d]
           cursor == ledger.cursor[s]
           clock == run[r].clock
           seen == ledger.seen[s][d]
<1>1. /\ s \in Required(r) /\ d \notin Remembered(r, s) /\ d \in Documents
      /\ InWindow(extent, Requested(r, s), clock)
  BY NewsPublishIs, NewsRunType DEF Input, TwiceInv, NewsInv
<1>2. /\ clock \in Nat /\ run[r].base = ledger /\ run[r] # Idle
      /\ Overlap \in Nat /\ Horizon \in Nat
  BY NewsPublishIs, NewsAssumption DEF TwiceInv, NewsInv
<1>3. d \in Shown /\ cursor # Never
  BY <1>1 DEF TwiceInv, Consumed
<1>4. /\ extent \in Extents /\ extent.finish - extent.start \in Lengths
      /\ cursor \in Nat
  BY <1>3 DEF TwiceInv, NewsInv, NewsTypeOK, NewsLedgers
<1>5. extent.start \in Nat /\ extent.finish \in Nat /\ extent.finish - extent.start <= 2
  BY <1>4 DEF Extents, TwiceInv, Punctual
<1>6. clock > cursor
  BY <1>1, <1>2, <1>3 DEF Required, FetchRequired, Logical
<1>7. Requested(r, s) =
        IF cursor - Overlap > clock - Horizon THEN cursor - Overlap ELSE clock - Horizon
  BY <1>2, <1>3, <1>4, <1>6 DEF Requested, RequestedStart, Logical
<1>8. extent.finish > clock - Horizon
  <2>1. extent.finish > Requested(r, s)
    BY <1>1 DEF InWindow
  <2> HIDE DEF extent, cursor, clock
  <2> QED
    BY <1>2, <1>4, <1>5, <1>7, <2>1
<1>9. CASE OutOfReach(extent.finish)
  <2>1. extent.finish <= clock - Horizon
    BY <1>2, <1>9 DEF OutOfReach
  <2> HIDE DEF extent, clock
  <2> QED
    BY <1>2, <1>5, <1>8, <2>1
<1>10. CASE seen # Never /\ seen <= cursor /\ extent.start < seen
  <2>1. seen \in Nat /\ seen \notin (clock - Horizon)..clock
    BY <1>1, <1>2, <1>10 DEF Remembered, TwiceInv, NewsInv, NewsTypeOK, NewsLedgers
  <2> HIDE DEF extent, cursor, clock, seen
  <2> QED
    BY <1>2, <1>4, <1>5, <1>6, <1>8, <1>10, <2>1
<1> QED
  BY <1>1, <1>9, <1>10 DEF TwiceInv, Consumed

\* What no window reaches stays so as time goes by and runs come and go.
LEMMA StaysOutOfReach ==
  ASSUME NewsInv, NEW time \in Int, OutOfReach(time), now' \in Nat, now' >= now,
         \A r \in Runs : run'[r] # Idle =>
           run'[r].clock = now \/ (run[r] # Idle /\ run'[r].clock = run[r].clock)
  PROVE  OutOfReach(time)'
<1>1. now \in Nat /\ Horizon \in Nat
  BY NewsAssumption DEF NewsInv, NewsTypeOK
<1>2. time <= now - Horizon
  BY DEF OutOfReach
<1>3. time <= now' - Horizon
  BY <1>1, <1>2
<1>4. ASSUME NEW r \in Runs, run'[r] # Idle PROVE time <= run'[r].clock - Horizon
  <2>1. CASE run'[r].clock = now
    BY <1>2, <2>1
  <2>2. CASE run[r] # Idle /\ run'[r].clock = run[r].clock
    BY <2>2 DEF OutOfReach
  <2> QED
    BY <1>4, <2>1, <2>2
<1> QED
  BY <1>3, <1>4 DEF OutOfReach

LEMMA ConsumedType ==
  ASSUME TwiceInv, NEW s \in Recipients, NEW d \in Given(s), d \in Documents
  PROVE  /\ d \in Shown /\ ledger.cursor[s] # Never /\ ledger.cursor[s] \in Nat
         /\ document[d].start \in Nat /\ document[d].finish \in Nat
         /\ document[d].finish - document[d].start \in Lengths
         /\ document[d].finish - document[d].start <= 2
<1>1. d \in Shown /\ ledger.cursor[s] # Never
  BY DEF TwiceInv, Consumed
<1>2. /\ document[d] \in Extents /\ document[d].finish - document[d].start \in Lengths
      /\ ledger.cursor[s] \in Nat
  BY <1>1 DEF TwiceInv, NewsInv, NewsTypeOK, NewsLedgers
<1> QED
  BY <1>1, <1>2 DEF Extents, TwiceInv, Punctual

LEMMA TwiceIdles ==
  ASSUME TwiceInv,
         \/ \E r \in Runs :
              Start(r) \/ Load(r) \/ Fetch(r) \/ Fail(r)
         \/ Tick \/ Appear \/ UNCHANGED newsVars
  PROVE  TwiceInv'
<1>1. NewsInv' /\ Punctual'
  BY NewsInvStep DEF TwiceInv, NewsNext, Pipeline, Punctual
<1>2. UNCHANGED <<ledger, settled>>
  BY DEF Start, Load, Fetch, Fail, Tick, Appear, newsVars,
     history
<1>3. \A d \in Shown : d \in Shown' /\ document'[d] = document[d]
  <2>1. CASE Appear
    BY <2>1 DEF Appear, Shown, TwiceInv, NewsInv, NewsTypeOK
  <2>2. CASE document' = document
    BY <2>2 DEF Shown
  <2> QED
    BY <2>1, <2>2 DEF Start, Load, Fetch, Fail, Tick, newsVars
<1>4. now' \in Nat /\ now' >= now
  BY DEF Start, Load, Fetch, Fail, Tick, Appear, newsVars,
     TwiceInv, NewsInv, NewsTypeOK
<1>5. \A q \in Runs : run'[q] # Idle =>
        run'[q].clock = now \/ (run[q] # Idle /\ run'[q].clock = run[q].clock)
  <2>1. CASE \E r \in Runs : Start(r) \/ Load(r) \/ Fail(r)
    BY <2>1 DEF Start, Load, Fail, Idle, TwiceInv, NewsInv, NewsTypeOK
  <2>2. CASE \E r \in Runs : Fetch(r)
    BY <2>2 DEF Fetch, Idle, TwiceInv, NewsInv, NewsTypeOK
  <2>3. CASE run' = run
    BY <2>3
  <2> QED
    BY <2>1, <2>2, <2>3 DEF Tick, Appear, newsVars
<1>6. Consumed'
  <2> SUFFICES ASSUME NEW s \in Recipients, NEW d \in Documents, d \in Given(s)
               PROVE  /\ d \in Shown' /\ ledger.cursor[s] # Never
                      /\ \/ OutOfReach(document[d].finish)'
                         \/ /\ ledger.seen[s][d] # Never
                            /\ ledger.seen[s][d] <= ledger.cursor[s]
                            /\ document[d].start < ledger.seen[s][d]
    BY <1>2, <1>3, ConsumedType DEF Consumed, Given
  <2>1. /\ d \in Shown /\ ledger.cursor[s] # Never /\ document[d].finish \in Int
        /\ document'[d] = document[d]
    BY <1>3, ConsumedType
  <2>2. OutOfReach(document[d].finish) => OutOfReach(document[d].finish)'
    BY <1>4, <1>5, <2>1, StaysOutOfReach DEF TwiceInv, OutOfReach
  <2> QED
    BY <1>3, <2>1, <2>2 DEF TwiceInv, Consumed
<1>7. Fetched'
  <2>1. CASE \E r \in Runs : Fetch(r)
    <3>1. PICK r \in Runs : Fetch(r)
      BY <2>1
    <3>2. PICK items \in SUBSET Shown, full \in BOOLEAN :
            run' = [run EXCEPT ![r] =
                      [pc |-> "fetched", clock |-> run[r].clock, base |-> run[r].base,
                       items |-> items, full |-> full]]
      BY <3>1 DEF Fetch
    <3> QED
      BY <1>3, <3>2 DEF TwiceInv, Fetched, NewsInv, NewsTypeOK
  <2>2. CASE \E r \in Runs : Start(r) \/ Load(r) \/ Fail(r)
    BY <1>3, <2>2 DEF Start, Load, Fail, Idle, TwiceInv, Fetched,
       NewsInv, NewsTypeOK
  <2>3. CASE run' = run
    BY <1>3, <2>3 DEF TwiceInv, Fetched
  <2> QED
    BY <2>1, <2>2, <2>3 DEF Tick, Appear, newsVars
<1> QED
  BY <1>1, <1>6, <1>7 DEF TwiceInv

\* A revision that a run forgets is too old for that run, and for those behind it.
LEMMA Forgetting ==
  ASSUME TwiceInv, NEW r \in Runs, NEW sealed \in SUBSET Recipients, Publish(r, sealed),
         NEW s \in Recipients, NEW d \in Documents, d \in Given(s),
         ledger.seen[s][d] \in Nat, ledger.seen[s][d] < run[r].clock - Horizon,
         document[d].start < ledger.seen[s][d]
  PROVE  OutOfReach(document[d].finish)'
<1> DEFINE finish == document[d].finish
           start == document[d].start
           clock == run[r].clock
           seen == ledger.seen[s][d]
<1>1. /\ clock \in Nat /\ clock <= now /\ now \in Nat /\ now' = now /\ document' = document
      /\ run' = [run EXCEPT ![r] = Idle] /\ Horizon \in Nat /\ Duration \in Nat
  BY NewsPublishIs, NewsAssumption DEF TwiceInv, NewsInv, NewsTypeOK
<1>2. start \in Nat /\ finish \in Nat /\ finish - start \in Lengths /\ finish - start <= 2
  BY ConsumedType
<1>3. finish <= now - Horizon
  <2> HIDE DEF finish, start, clock, seen
  <2> QED
    BY <1>1, <1>2 DEF finish, start, clock, seen
<1>4. ASSUME NEW q \in Runs, run'[q] # Idle
      PROVE  finish <= run'[q].clock - Horizon
  <2>1. q # r /\ run'[q] = run[q] /\ run[q] # Idle
    BY <1>1, <1>4 DEF TwiceInv, NewsInv, NewsTypeOK
  <2>2. (finish - start) + Duration <= 2
    BY <1>2, <2>1 DEF TwiceInv, Punctual
  <2>3. run[q].clock \in Nat /\ now <= run[q].clock + Duration
    BY <2>1, NewsRunType DEF TwiceInv, NewsInv, NewsClocks
  <2> DEFINE other == run[q].clock
  <2>4. /\ seen \in Nat /\ seen < clock - Horizon /\ start < seen /\ other \in Nat
        /\ now <= other + Duration
    BY <2>3
  <2> HIDE DEF finish, start, clock, seen, other
  <2>5. finish <= other - Horizon
    BY <1>1, <1>2, <2>2, <2>4 DEF clock, finish, start
  <2> QED
    BY <2>1, <2>5 DEF other
<1> QED
  BY <1>1, <1>3, <1>4 DEF OutOfReach

LEMMA TwicePublish ==
  ASSUME TwiceInv, NEW r \in Runs, NEW sealed \in SUBSET Recipients, Publish(r, sealed)
  PROVE  TwiceInv'
<1>1. NewsInv' /\ Punctual'
  BY NewsInvStep DEF TwiceInv, NewsNext, Pipeline, Punctual
<1>2. /\ run[r].clock \in Nat /\ now \in Nat /\ now' = now /\ document' = document
      /\ run' = [run EXCEPT ![r] = Idle] /\ run[r].base = ledger
      /\ run[r].pc = "fetched"
  BY NewsPublishIs DEF TwiceInv, NewsInv, NewsTypeOK
<1>3. Fetched'
  BY <1>2 DEF TwiceInv, Fetched, NewsInv, NewsTypeOK, Idle, Shown
<1>4. Consumed'
  <2> SUFFICES ASSUME NEW s \in Recipients, NEW d \in Documents, d \in Given(s)'
               PROVE  /\ d \in Shown /\ ledger'.cursor[s] # Never
                      /\ \/ OutOfReach(document[d].finish)'
                         \/ /\ ledger'.seen[s][d] # Never
                            /\ ledger'.seen[s][d] <= ledger'.cursor[s]
                            /\ document[d].start < ledger'.seen[s][d]
    BY <1>2 DEF Consumed, Shown
  <2> DEFINE clock == run[r].clock
             advancing == s \in Advancing(r, sealed)
  <2>1. /\ ledger'.cursor[s] = IF advancing THEN clock ELSE ledger.cursor[s]
        /\ ledger'.seen[s][d] = NewSeen(r, sealed, s, d)
        /\ d \in Given(s) \/ (advancing /\ d \in Input(r, s))
    BY NewsPublishIs DEF TwiceInv, Given
  <2>2. Never \notin Nat /\ Horizon \in Nat
    BY NewsAssumption DEF TwiceInv, NewsInv
  <2>3. CASE advancing /\ d \in Input(r, s)
    <3>1. d \in Shown /\ document[d].start < clock
      BY <1>2, <2>3 DEF Input, InWindow, TwiceInv, Fetched
    <3>2. ledger'.cursor[s] = clock /\ ledger'.seen[s][d] = clock
      BY <2>1, <2>3 DEF NewSeen
    <3> QED
      BY <1>2, <2>2, <3>1, <3>2
  <2>4. CASE d \in Given(s) /\ ~(advancing /\ d \in Input(r, s))
    <3> DEFINE seen == ledger.seen[s][d]
    <3>1. d \in Shown /\ ledger.cursor[s] # Never /\ ledger.cursor[s] \in Nat
      BY <2>4, ConsumedType
    <3>2. /\ ledger'.cursor[s] # Never /\ ledger'.cursor[s] \in Nat
          /\ ledger.cursor[s] <= ledger'.cursor[s]
      BY <1>2, <2>1, <2>2, <3>1, AdvancingIs DEF TwiceInv
    <3>3. CASE OutOfReach(document[d].finish)
      <4>1. \A q \in Runs : run'[q] # Idle => run[q] # Idle /\ run'[q] = run[q]
        BY <1>2 DEF TwiceInv, NewsInv, NewsTypeOK
      <4>2. OutOfReach(document[d].finish)'
        BY <1>2, <3>3, <4>1 DEF OutOfReach
      <4> QED
        BY <3>1, <3>2, <4>2
    <3>4. CASE seen # Never /\ seen <= ledger.cursor[s] /\ document[d].start < seen
      <4>1. seen \in Nat
        BY <3>4 DEF TwiceInv, NewsInv, NewsTypeOK, NewsLedgers
      <4>2. ledger'.seen[s][d] = IF seen >= clock - Horizon THEN seen ELSE Never
        BY <1>2, <2>1, <2>4, <3>4 DEF NewSeen
      <4>3. CASE seen >= clock - Horizon
        BY <3>1, <3>2, <3>4, <4>1, <4>2, <4>3
      <4>4. CASE seen < clock - Horizon
        BY <2>4, <3>1, <3>2, <3>4, <4>1, <4>4, Forgetting
      <4> QED
        BY <1>2, <2>2, <4>1, <4>3, <4>4
    <3> QED
      BY <2>4, <3>3, <3>4 DEF TwiceInv, Consumed
  <2> QED
    BY <2>1, <2>3, <2>4
<1> QED
  BY <1>1, <1>3, <1>4 DEF TwiceInv

\* A revision that a window consumed is never given to the segment again.
GivenOnce ==
  [][\A r \in Runs, sealed \in SUBSET Recipients : Publish(r, sealed) =>
       \A s \in sealed : Input(r, s) \cap Given(s) = {}]_newsVars

\* If every document has an exact timestamp, and runs follow each other or
\* overlap by no more than the slack that is left, no segment is given a
\* revision again, however long ago it was consumed.  Documents known by their
\* date are excluded: for them only NothingIsRepeated holds.
THEOREM ExactNewsIsGivenOnce ==
  ASSUME Punctual
  PROVE  NewsSpec => GivenOnce
<1> DEFINE Fresh ==
      \A r \in Runs, sealed \in SUBSET Recipients : Publish(r, sealed) =>
        \A s \in sealed : Input(r, s) \cap Given(s) = {}
<1>1. NewsInit => TwiceInv
  <2> SUFFICES ASSUME NewsInit PROVE TwiceInv
    OBVIOUS
  <2>1. NewsInv
    BY NewsInitInv
  <2>2. Consumed /\ Fetched
    BY DEF NewsInit, Idle, Consumed, Fetched, Given
  <2> QED
    BY <2>1, <2>2 DEF TwiceInv
<1>2. TwiceInv /\ [NewsNext]_newsVars => TwiceInv'
  BY TwiceIdles, TwicePublish DEF NewsNext, Pipeline
<1>3. TwiceInv => Fresh
  <2> SUFFICES ASSUME TwiceInv, NEW r \in Runs, NEW sealed \in SUBSET Recipients,
                      Publish(r, sealed), NEW s \in sealed
               PROVE  Input(r, s) \cap Given(s) = {}
    OBVIOUS
  <2> QED
    BY NotAgain
<1>4. TwiceInv /\ [NewsNext]_newsVars => [Fresh]_newsVars
  BY <1>3
<1> QED
  BY <1>1, <1>2, <1>4, PTL DEF NewsSpec, GivenOnce
=============================================================================
