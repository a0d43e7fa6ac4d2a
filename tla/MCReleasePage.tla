---------------------------- MODULE MCReleasePage -----------------------------
(* A small instance of ReleasePage for TLC. *)
EXTENDS ReleasePage

================================================================================
