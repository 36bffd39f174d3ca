------------------------------- MODULE MCJobTable ------------------------------
(* The job table with a few pids, for TLC. *)
EXTENDS JobTable
================================================================================
