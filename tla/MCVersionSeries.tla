--------------------------- MODULE MCVersionSeries ---------------------------
(* TLC instances of VersionSeries: model values, and what is symmetric.     *)
EXTENDS VersionSeries, TLC

\* Documents, series and non-administrators are interchangeable.
Interchangeable ==
  Permutations(Doc) \cup Permutations(Series) \cup Permutations(User \ Admin)
=============================================================================
