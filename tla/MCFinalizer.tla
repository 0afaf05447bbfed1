------------------------------ MODULE MCFinalizer ------------------------------
(***************************************************************************)
(* Three segments; documents of a viewport, a section, a chart and a header.  *)
(* In a layout at most one region has a surface issue and at most one has     *)
(* claims: one for each disposition and each kind of containment.             *)
(***************************************************************************)
EXTENDS Finalizer

MCBlock == [viewport |-> "first_viewport", section |-> "section_body",
            chart |-> "chart", header |-> "header"]
MCRegions == DOMAIN MCBlock

Clean == [issues |-> {}, claims |-> {}, form |-> "written"]
Written(g, issues, h, claims) ==
  [r \in MCRegions |-> [Clean EXCEPT !.issues = IF r = g THEN issues ELSE {},
                                     !.claims = IF r = h THEN claims ELSE {}]]

MCLayouts ==
  {Written(g, issues, h, claims) :
     g \in MCRegions, h \in MCRegions,
     issues \in {{}, {"watermark"}, {"meaning"}, {"dangling", "bad_token"}},
     claims \in {{}, {"numeric"}, {"numeric", "entity"}}}

\* The data-limited briefing has no supplements.
MCMinimalLayouts ==
  {[layout EXCEPT !.chart = Empty] :
     layout \in {Written("viewport", {}, "section", claims) :
                   claims \in {{}, {"numeric"}}}}
=============================================================================
