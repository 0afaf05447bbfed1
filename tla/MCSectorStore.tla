---------------------------- MODULE MCSectorStore -----------------------------
(* A small instance of SectorStore: what a store starts with, and how many    *)
(* failed steps and crashes may follow.                                       *)
EXTENDS SectorStore

\* One fault in the first publication, four once there is a pair.
MCInitially ==
  [pair : Versions, faults : {4}] \cup [pair : {None}, faults : {1}]

\* Two faults in the first publication.
FirstPublication == [pair : {None}, faults : {2}]
=============================================================================
