----------------------------- MODULE MCRetention -------------------------------
(* The instances of Retention that TLC checks: items, rows and readers
   are model values, given by the configurations.  All of them check liveness
   or are small, so none uses symmetry. *)
EXTENDS Retention
================================================================================
