-------------------------- MODULE MCVersionRefinement --------------------------
(* A TLC instance of VersionRefinement: model values.                        *)
EXTENDS VersionRefinement
=============================================================================
