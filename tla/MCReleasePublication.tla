------------------------- MODULE MCReleasePublication -------------------------
(* A small instance of ReleasePublication for TLC. *)
EXTENDS ReleasePublication

\* Two patches of one minor line and the first release of the next line.
MCVersions == {<<1, 0, 0>>, <<1, 0, 1>>, <<1, 1, 0>>}
MCLegacy == <<0, 9, 0>>
================================================================================
