------------------------------ MODULE AtomicPair ------------------------------
(***************************************************************************)
(* What readers of the public sector pair may rely on: one version is         *)
(* published at a time; a promotion switches to another in one step and can   *)
(* be undone only to the version before it, and only until somebody has been  *)
(* told of it.                                                                *)
(***************************************************************************)
CONSTANTS Versions, None

VARIABLES published, previous, reported

vars == <<published, previous, reported>>

Init ==
  /\ published \in Versions \cup {None}
  /\ previous = published
  /\ reported = published

Switch ==
  /\ previous = published
  /\ published' \in Versions
  /\ previous' = published
  /\ UNCHANGED reported

Undo == published' = previous /\ UNCHANGED <<previous, reported>>

Settle == previous' = published /\ UNCHANGED <<published, reported>>

Report ==
  /\ previous' = published
  /\ reported' = published
  /\ UNCHANGED published

Next == Switch \/ Undo \/ Settle \/ Report

Spec == Init /\ [][Next]_vars
=============================================================================
