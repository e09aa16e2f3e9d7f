------------------------------ MODULE MCAclCache ------------------------------
(* TLC instances of AclCache: model values, and the tree it starts from.      *)
EXTENDS AclCache, TLC

CONSTANTS root, f1, d1

\* A document in a folder in the root.
Nested == (root :> root) @@ (f1 :> root) @@ (d1 :> f1)
=============================================================================
