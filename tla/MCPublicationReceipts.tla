------------------------ MODULE MCPublicationReceipts ------------------------
(* A small instance of PublicationReceipts: one initial history of one or    *)
(* two commits, other writers that touch the metadata, the owned files, both *)
(* or neither, and publications that change both, one or nothing.            *)
EXTENDS PublicationReceipts

MCValues == {"old", "new", "other", "mixed"}

Tree(m, b) == [meta |-> m, body |-> b]

Foreign(base, tree) == [base |-> base, tree |-> tree, pub |-> FALSE]

MCInitialRemotes ==
  LET first == Foreign(0, Tree("old", "old"))
  IN  {<<first>>,
       <<first, Foreign(1, Tree("other", "old"))>>,
       <<first, Foreign(1, Tree("old", "other"))>>}

MCWorks == {Tree("new", "new"), Tree("old", "new"), Tree("old", "old")}

MCOtherTrees ==
  {Tree("old", "old"), Tree("other", "old"), Tree("old", "other"),
   Tree("old", "new")}
=============================================================================
