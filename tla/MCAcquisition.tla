---------------------------- MODULE MCAcquisition ------------------------------
(* The instances of Acquisition that TLC checks: calls, keys, tokens and modules
   are model values, given by the configurations.  All of them check liveness
   or are small, so none uses symmetry. *)
EXTENDS Acquisition
================================================================================
