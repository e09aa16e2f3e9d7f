--------------------------- MODULE MCSolrTracker ---------------------------
(* TLC instances of SolrTracker: model values, what is symmetric, and where *)
(* a search may stop.                                                       *)
EXTENDS SolrTracker, TLC

\* Callers and contents are interchangeable.
Interchangeable == Permutations(Caller) \cup Permutations(Obj)

\* The properties say nothing of a log that is out of order, and it stays so.
InOrder == ordered
=============================================================================
