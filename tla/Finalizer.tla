------------------------------ MODULE Finalizer ------------------------------
(***************************************************************************)
(* The finalizer of the public documents (publisher/public_document.py,       *)
(* _public_document_policy.py, numeric_containment.py): the drafts of the     *)
(* day's segments become one sealed bundle, in passes.  A pass finalizes      *)
(* every segment not blocked so far, from its original draft and under a      *)
(* context made for exactly these segments (navigation, daily thesis).  A     *)
(* segment is blocked when a trust gate finds something that presentation     *)
(* must not repair; then, and when the domestic segment asks for its minimal  *)
(* source, the pass is void and another one starts.                           *)
(*                                                                            *)
(* A layout is a function from regions to bodies.  Of the text of a body only *)
(* the codes of the surface scanner (issues) and the findings of the numeric, *)
(* entity and compliance gates (claims) are kept, and what became of it.      *)
(* What assembly writes is any of Layouts, anew in each pass: it depends on   *)
(* the context.  Drafts are legacy briefings or native event editions; one    *)
(* native draft selects the variant loop for the whole bundle.                *)
(***************************************************************************)
EXTENDS Integers, FiniteSets

CONSTANTS
  Segments,        \* context.expected_segments
  Domestic,        \* DOMESTIC_EQUITY
  Regions,         \* region identities of a layout
  Block,           \* the block kind of each region
  Supplements,     \* regions that are joined to staged artifacts
  Layouts,         \* what assembly and projection may make of a draft
  MinimalLayouts,  \* the same for the data-limited briefing
  None             \* no draft

Codes == {"bad_token", "dangling", "trace", "watermark", "summary", "meaning",
          "title", "matcher", "raw_label", "template", "link", "residual_link",
          "protected_link"}
Trust == {"numeric", "entity", "compliance"}
Omissible == {"visual", "chart", "carryover", "cause_map"}
Replaceable == {"shared_macro", "crypto_indicators", "channel_anchors",
                "daily_thesis"}
Editable == {"section_body", "watchpoints", "first_viewport"}

Bodies == [issues : SUBSET Codes, claims : SUBSET Trust,
           form : {"written", "fallback", "empty"}]

ASSUME FinalizerAssumption ==
  /\ IsFiniteSet(Segments)
  /\ Supplements \subseteq {g \in Regions : Block[g] \in Omissible}
  /\ Layouts \cup MinimalLayouts \subseteq [Regions -> Bodies]
  /\ \A layout \in Layouts, g \in Regions : layout[g].form = "written"

VARIABLES
  absent,     \* context.input_absences
  native,     \* segments whose draft is an event edition
  pass,       \* passes started
  active,     \* the segments of this pass; none between two passes
  todo,       \* those of them not finalized yet
  newly,      \* newly_blocked
  requested,  \* minimal_requested: segments that asked for it in this pass
  blocked,    \* segments no further pass finalizes
  minimal,    \* minimal_source_by_segment, attempted_minimal_segments
  draft,      \* the draft under way
  documents,  \* what this pass sealed
  result      \* running, bundle, or how the finalizer was left

inputs == <<absent, native>>
loop == <<pass, active, requested, blocked, minimal>>
vars == <<inputs, loop, todo, newly, draft, documents, result>>

Generated == Segments \ absent
Survivors == Generated \ blocked

Init ==
  /\ absent \in SUBSET Segments /\ absent # Segments
  /\ native \in SUBSET (Segments \ absent)
  /\ pass = 0 /\ active = {} /\ todo = {}
  /\ newly = {} /\ requested = {} /\ blocked = {} /\ minimal = {}
  /\ draft = None /\ documents = {} /\ result = "running"

-----------------------------------------------------------------------------
(* SURFACE_ISSUE_DISPOSITION_TABLE, SURFACE_LINK_ISSUE_DISPOSITION_TABLE.    *)
Optional(block, default) ==
  IF block \in Omissible THEN "omit"
  ELSE IF block \in Replaceable THEN "replace" ELSE default

Replaced(block, blocks) == IF block \in blocks THEN "replace" ELSE "block"

\* A link finding where the scanner protects the text blocks in any region.
Disposition(code, block) ==
  IF block = "diagnostics" \/ code = "protected_link" THEN "block" ELSE
  CASE code = "bad_token" -> "repair"
    [] code = "dangling" ->
         IF block = "first_viewport" THEN "repair" ELSE Optional(block, "warn")
    [] code = "trace" ->
         IF block = "first_viewport" THEN "repair" ELSE Optional(block, "block")
    [] code = "watermark" -> Replaced(block, {"header", "first_viewport"})
    [] code = "summary" -> Replaced(block, {"first_viewport"})
    [] code = "meaning" -> Replaced(block, {"section_body"})
    [] code \in {"title", "matcher"} -> Replaced(block, {"watchpoints"})
    [] code = "raw_label" ->
         Optional(block, Replaced(block, {"watchpoints"}))
    [] code = "template" -> IF block = "first_viewport" THEN "warn" ELSE "block"
    [] code = "link" ->
         IF block \in {"first_viewport", "section_body"} THEN "repair"
         ELSE Optional(block, Replaced(block, {"watchpoints"}))
    [] OTHER ->
         Optional(block, Replaced(block, {"first_viewport", "section_body",
                                          "watchpoints"}))

Precedence == <<"block", "omit", "replace", "repair", "warn">>

\* _resolve_owned_region_dispositions: the strongest of a region's findings.
Decision(layout, g) ==
  LET wanted == {Disposition(code, Block[g]) : code \in layout[g].issues}
  IN  IF wanted = {} THEN "none"
      ELSE Precedence[CHOOSE i \in 1..5 :
             Precedence[i] \in wanted /\ \A j \in 1..(i - 1) : Precedence[j] \notin wanted]

Mutating(layout) ==
  \E g \in Regions : Decision(layout, g) \in {"omit", "replace", "repair"}

\* _collect_non_surface_hard_gate_codes
HardCodes(layout) == UNION {layout[g].claims : g \in Regions}

\* The surface part of _collect_terminal_hard_gates: the findings that are only
\* recorded (dangling, template) have severity "warn" in the scanner.
Residual(layout) ==
  \E g \in Regions, code \in Codes :
    code \in layout[g].issues /\ Disposition(code, Block[g]) # "warn"

\* _REGION_SAFE_FALLBACK_TEXT
HasFallback(g) == Block[g] \in Replaceable \cup Editable

Fallback == [issues |-> {}, claims |-> {}, form |-> "fallback"]
Empty == [issues |-> {}, claims |-> {}, form |-> "empty"]

\* _apply_region_disposition_once: what a region may be after its one action.
\* A repair may leave findings; of a viewport only the lines at fault may be
\* written anew.
Applied(layout, g) ==
  LET body == layout[g]
      repaired == {[body EXCEPT !.issues = left] : left \in SUBSET body.issues}
  IN  CASE Decision(layout, g) = "omit" -> {Empty}
        [] Decision(layout, g) = "replace" ->
             {Fallback} \cup (IF Block[g] = "first_viewport" THEN repaired ELSE {})
        [] Decision(layout, g) = "repair" -> repaired
        [] OTHER -> {body}

OmittedBySurface(layout) == {g \in Regions : Decision(layout, g) = "omit"}

-----------------------------------------------------------------------------
(* The bounded fixed point: _finalize_bundle_skeleton for legacy bundles,     *)
(* _finalize_variant_bundle when one draft is native.                         *)
OnePassEach ==                      \* a bug: no pass for a minimal source
  IF native = {} THEN Cardinality(Segments) ELSE Cardinality(Generated) + 1

MaxPasses ==
  IF native = {} THEN 2 * Cardinality(Segments) ELSE Cardinality(Generated) + 1

KeepSealed == documents             \* a bug: documents outlive their pass

FreshDocuments == {}

\* _context_for_active_segments
StartPass ==
  /\ result = "running" /\ active = {}
  /\ Survivors # {} /\ pass < MaxPasses
  /\ pass' = pass + 1
  /\ active' = Survivors
  /\ documents' = FreshDocuments
  /\ todo' = Survivors \ {d.segment : d \in documents'}
  /\ newly' = {} /\ requested' = {}
  /\ UNCHANGED <<inputs, blocked, minimal, draft, result>>

EndPass ==
  /\ result = "running" /\ active # {} /\ todo = {} /\ draft = None
  /\ blocked' = blocked \cup newly
  /\ active' = {}
  /\ result' = IF newly = {} /\ requested = {} THEN "bundle" ELSE "running"
  /\ UNCHANGED <<inputs, pass, requested, minimal, todo, newly, draft, documents>>

\* PublicDocumentFinalizationError: zero survivors, or no pass left.
Exhaust ==
  /\ result = "running" /\ active = {}
  /\ Survivors = {} \/ pass = MaxPasses
  /\ result' = "failed"
  /\ UNCHANGED <<inputs, loop, todo, newly, draft, documents>>

\* A ValueError or another exception of a handler ends the whole bundle.
Fault ==
  /\ result = "running" /\ active # {} /\ todo # {}
  /\ result' = "fault"
  /\ UNCHANGED <<inputs, loop, todo, newly, draft, documents>>

-----------------------------------------------------------------------------
\* _SegmentTrustBlockedError
BlockSegment(s) ==
  /\ newly' = newly \cup {s} /\ todo' = todo \ {s} /\ draft' = None
  /\ UNCHANGED <<inputs, loop, documents, result>>

\* _MinimalFallbackRequestError; the variant loop does not catch it.
RequestMinimal(s) ==
  IF native # {}
  THEN /\ result' = "escaped"
       /\ UNCHANGED <<inputs, loop, todo, newly, draft, documents>>
  ELSE /\ todo' = todo \ {s} /\ draft' = None
       /\ IF s # Domestic \/ s \in minimal
          THEN /\ newly' = newly \cup {s}
               /\ UNCHANGED <<minimal, requested>>
          ELSE /\ minimal' = minimal \cup {s}
               /\ requested' = requested \cup {s}
               /\ UNCHANGED newly
       /\ UNCHANGED <<inputs, pass, active, blocked, documents, result>>

\* _assemble_phase_one_reader_draft, _project_assembled_draft.  The evidence
\* is what the trust gates find in the projected bytes.
Assemble(s) ==
  /\ result = "running" /\ draft = None /\ s \in todo \ native
  /\ \E layout \in IF s \in minimal THEN MinimalLayouts ELSE Layouts :
       draft' = [segment |-> s, phase |-> "projected", layout |-> layout,
                 omitted |-> {}, evidence |-> HardCodes(layout),
                 degraded |-> s \in minimal]
  /\ UNCHANGED <<inputs, loop, todo, newly, documents, result>>

\* A layout that cannot be indexed, numeric reconciliation, compliance.
AssembleBlocked(s) ==
  /\ result = "running" /\ draft = None /\ s \in todo \ native
  /\ BlockSegment(s)

At(phase) == result = "running" /\ draft # None /\ draft.phase = phase

\* _repair_projected_draft, up to the numeric containment.  The trust gates
\* are read before the first action that could erase what they would find.
NoSnapshot(layout) == FALSE         \* a bug: repair what the gates must see

MustPreserve(layout) == Mutating(layout) /\ HardCodes(layout) # {}

RepairSurface ==
  /\ At("projected")
  /\ LET layout == draft.layout
         replaced == {g \in Regions : Decision(layout, g) = "replace"}
     IN  IF MustPreserve(layout) \/ \E g \in replaced : ~HasFallback(g)
         THEN BlockSegment(draft.segment)
         ELSE /\ \E after \in [Regions -> UNION {Applied(layout, g) : g \in Regions}] :
                   /\ \A g \in Regions : after[g] \in Applied(layout, g)
                   /\ draft' = [draft EXCEPT !.phase = "scanned", !.layout = after,
                                             !.omitted = OmittedBySurface(layout)]
              /\ UNCHANGED <<inputs, loop, todo, newly, documents, result>>

\* plan_numeric_containment: a claim is contained where the region it is in
\* may be omitted, replaced or edited.
Contained(layout, g) ==
  IF layout[g].claims = {} THEN layout[g] ELSE
  CASE Block[g] \in Omissible -> Empty
    [] Block[g] \in Replaceable -> Fallback
    [] OTHER -> [layout[g] EXCEPT !.claims = {}]

RequiresMinimal(layout) ==
  \E g \in Regions : /\ layout[g].claims # {}
                     /\ Block[g] \notin Omissible \cup Replaceable \cup Editable

NotMerged(layout) == {}             \* a bug: artifacts of omitted regions stay

\* _merge_numeric_omission_block_outcomes
OmittedByNumeric(layout) ==
  {g \in Regions : layout[g].claims # {} /\ Block[g] \in Omissible}

\* The rest of _repair_projected_draft: a domestic document whose only hard
\* finding is numeric is contained, region by region.
Contain ==
  /\ At("scanned")
  /\ LET layout == draft.layout
         needed == "numeric" \in HardCodes(layout) /\ draft.segment = Domestic
         gates == HardCodes(layout) = {"numeric"} /\ ~Residual(layout)
     IN  \/ /\ needed /\ BlockSegment(draft.segment)   \* another gate fails too
         \/ /\ needed /\ gates                         \* or a residual claim
            /\ RequestMinimal(draft.segment)
         \/ /\ needed /\ gates /\ ~RequiresMinimal(layout)
            /\ draft' = [draft EXCEPT
                 !.phase = "repaired", !.degraded = TRUE,
                 !.layout = [g \in Regions |-> Contained(layout, g)],
                 !.omitted = @ \cup OmittedByNumeric(layout)]
            /\ UNCHANGED <<inputs, loop, todo, newly, documents, result>>
         \/ /\ ~needed
            /\ draft' = [draft EXCEPT !.phase = "repaired"]
            /\ UNCHANGED <<inputs, loop, todo, newly, documents, result>>

\* _validate_repaired_draft: some gate, of those modelled or of the summary,
\* the preamble and the disclaimers, fails.
ValidateBlocked ==
  /\ At("repaired")
  /\ BlockSegment(draft.segment)

\* _select_surviving_supplement_artifact_ids: the minimal source has none.
ArtifactsAgree ==
  draft.segment \in minimal \/
    \A g \in Supplements : (draft.layout[g].form = "empty") <=> g \in draft.omitted

Document(s, evidence, degraded) ==
  [segment |-> s, active |-> active, evidence |-> evidence, degraded |-> degraded]

\* Every gate passes: _validate_repaired_draft, _seal_document.
Seal ==
  /\ At("repaired")
  /\ HardCodes(draft.layout) = {} /\ ~Residual(draft.layout)
  /\ IF ArtifactsAgree
     THEN /\ documents' = documents \cup
               {Document(draft.segment, draft.evidence, draft.degraded)}
          /\ todo' = todo \ {draft.segment} /\ draft' = None
          /\ UNCHANGED result
     ELSE /\ result' = "invariant"
          /\ UNCHANGED <<documents, todo, draft>>
  /\ UNCHANGED <<inputs, loop, newly>>

-----------------------------------------------------------------------------
(* _seal_native_document                                                     *)
\* contain_event_numeric_context: claims in a meaning or a reaction only.
SealNative(s) ==
  /\ result = "running" /\ draft = None /\ s \in todo \cap native
  /\ \E claims \in {{}, {"numeric"}} :
       /\ claims = {} \/ s = Domestic
       /\ documents' = documents \cup {Document(s, claims, claims # {})}
  /\ todo' = todo \ {s}
  /\ UNCHANGED <<inputs, loop, newly, draft, result>>

\* The edition disagrees with its evidence, its clock or its assets, or a gate
\* finds what cannot be contained.
NativeBlocked(s) ==
  /\ result = "running" /\ draft = None /\ s \in todo \cap native
  /\ BlockSegment(s)

Next ==
  \/ StartPass \/ EndPass \/ Exhaust \/ Fault
  \/ \E s \in Segments : \/ Assemble(s) \/ AssembleBlocked(s)
                         \/ SealNative(s) \/ NativeBlocked(s)
  \/ RepairSurface \/ Contain \/ ValidateBlocked \/ Seal

Spec == Init /\ [][Next]_vars

-----------------------------------------------------------------------------
\* The documents of a bundle are those of its surviving segments, each
\* assembled for exactly these: no page links to, and no thesis rests on, a
\* segment that is not published (_finalize_bundle_skeleton's fixed point).
OneSurvivorSet ==
  result = "bundle" =>
    /\ {d.segment : d \in documents} = Survivors
    /\ Cardinality(documents) = Cardinality(Survivors)
    /\ \A d \in documents : d.active = Survivors

\* A published document in whose bytes, before repair, a trust gate found
\* something is the domestic one, numeric was all that was found, and the
\* document says it is degraded; so does the minimal one.  Presentation never
\* makes a finding disappear (_repair_projected_draft).
EvidenceSurvives ==
  result = "bundle" =>
    \A d \in documents :
      d.evidence # {} \/ d.segment \in minimal =>
        d.segment = Domestic /\ d.degraded /\ d.evidence \subseteq {"numeric"}

\* The bundle is given up only when every generated segment was blocked: the
\* passes suffice whatever is blocked or degraded in which of them, and the
\* finalizer's own bookkeeping of omitted regions never fails it (max_passes,
\* _merge_numeric_omission_block_outcomes).  Two ends are excluded.  A handler
\* may raise ("fault").  And in a bundle of native and legacy drafts the request
\* of a legacy domestic draft for its minimal source is caught by nobody
\* (_finalize_variant_bundle) and takes every survivor with it, although
\* pipeline.py says that terminal gate failures arrive as
\* PublicDocumentFinalizationError; no other bundle is left that way.
NoLostSurvivor ==
  /\ result = "failed" => blocked = Generated
  /\ result # "invariant"
  /\ result = "escaped" => native # {} /\ Domestic \in Generated \ native
=============================================================================
