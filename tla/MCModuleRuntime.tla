--------------------------- MODULE MCModuleRuntime -----------------------------
(* The instances of ModuleRuntime that TLC checks: threads, closers and instances
   are model values, given by the configurations.  All of them check liveness
   or are small, so none uses symmetry. *)
EXTENDS ModuleRuntime
================================================================================
