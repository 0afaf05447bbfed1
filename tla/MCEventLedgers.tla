---------------------------- MODULE MCEventLedgers ----------------------------
(***************************************************************************)
(* Two markets with a story each, told by one event; the first event has two  *)
(* facts.  Two runs, which are interchangeable.                               *)
(***************************************************************************)
EXTENDS EventLedgers, TLC

MCMarket == [oil |-> "us", rates |-> "crypto"]
MCStories == DOMAIN MCMarket
MCStoryOf == [strike |-> "oil", quota |-> "rates"]
MCEvents == DOMAIN MCStoryOf
MCFacts == [strike |-> {"called", "ended"}, quota |-> {"raised"}]

Symmetry == Permutations(Runs)
=============================================================================
