--------------------------- MODULE MCVersionThreads ---------------------------
(* TLC instances of VersionThreads: model values, and what is symmetric.    *)
EXTENDS VersionThreads, TLC

\* Documents and callers are interchangeable.
Interchangeable == Permutations(Doc) \cup Permutations(User \ Admin)
=============================================================================
