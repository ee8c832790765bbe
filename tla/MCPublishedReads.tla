-------------------------- MODULE MCPublishedReads --------------------------
(* Two analytics requests and a News request against both publishers.      *)
EXTENDS PublishedReads, TLC

Symmetry == Permutations(ChatReader) \cup Permutations(NewsReader)
=============================================================================
