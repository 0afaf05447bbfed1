------------------------- MODULE PublicationContract -------------------------
(***************************************************************************)
(* What a caller of publish_with_receipt may rely on, without Git: the       *)
(* branch grows, the publication joins it at most once, whole and on the     *)
(* metadata it was generated from, and the call ends in one of three ways.   *)
(*   confirmed  the branch holds the content that was to be published;       *)
(*   clean      nothing was published, now or later: roll the files back;    *)
(*   retained   published or not, now or later: keep the transaction.        *)
(***************************************************************************)
EXTENDS Integers, Sequences

CONSTANTS Trees,      \* contents of a commit
          Histories   \* what the branch may start as

VARIABLES branch, asked, outcome

vars == <<branch, asked, outcome>>

Ours == {i \in DOMAIN branch : branch[i].pub}

Init ==
  /\ branch \in Histories
  /\ \A i \in DOMAIN branch : ~branch[i].pub
  /\ outcome = "running"

Commit(tree, pub) == [base |-> Len(branch), tree |-> tree, pub |-> pub]

\* Somebody else's commit.
Extend ==
  /\ \E tree \in Trees : branch' = Append(branch, Commit(tree, FALSE))
  /\ UNCHANGED <<asked, outcome>>

Publish ==
  /\ outcome \in {"running", "retained"}
  /\ Ours = {}
  /\ branch[Len(branch)].tree.meta = asked.baseline
  /\ branch' = Append(branch, Commit(asked.work, TRUE))
  /\ UNCHANGED <<asked, outcome>>

Finish ==
  /\ outcome = "running"
  /\ \/ /\ \E i \in DOMAIN branch : branch[i].tree = asked.work
        /\ outcome' = "confirmed"
     \/ /\ Ours = {}
        /\ outcome' = "clean"
     \/ outcome' = "retained"
  /\ UNCHANGED <<branch, asked>>

Next == Extend \/ Publish \/ Finish

Spec == Init /\ [][Next]_vars
=============================================================================
