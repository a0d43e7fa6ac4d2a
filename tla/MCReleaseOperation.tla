------------------------- MODULE MCReleaseOperation -------------------------
(* Two versions and at most two candidates of each: enough for a candidate   *)
(* to be replaced, for the attempts to run out, and for one version to start *)
(* while the other is under way.                                             *)
EXTENDS ReleaseOperation
=============================================================================
