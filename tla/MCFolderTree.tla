----------------------------- MODULE MCFolderTree -----------------------------
(* TLC instances of FolderTree: model values, names, and what is symmetric.   *)
EXTENDS FolderTree, TLC

CONSTANTS root, f1, f2, d1, i1, u1, u2

\* A document has the name of the second folder.
Names == (root :> "root") @@ (f1 :> "f") @@ (f2 :> "g") @@ (d1 :> "g") @@ (i1 :> "i")

\* Two folders next to each other, an item in one; one in the other, a document
\* in the inner one; a document and a folder in a folder.
Tree3(pf, pg, pd, pi) == (root :> root) @@ (f1 :> pf) @@ (f2 :> pg) @@ (d1 :> pd) @@ (i1 :> pi)
Trees == {Tree3(root, root, Absent, f1), Tree3(root, f1, f2, Absent), Tree3(root, Absent, f1, Absent)}

\* Callers are interchangeable.
Interchangeable == Permutations(User)
=============================================================================
