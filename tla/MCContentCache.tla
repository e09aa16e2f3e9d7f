---------------------------- MODULE MCContentCache ----------------------------
(* TLC instances of ContentCache: model values, and what is symmetric.       *)
EXTENDS ContentCache, TLC

\* Callers are interchangeable.
Interchangeable == Permutations(User)
=============================================================================
