-------------------------------- MODULE JobPool --------------------------------
(***************************************************************************)
(* What the job server promises about jobs, with neither slots nor waitpid *)
(* nor signals in sight:                                                   *)
(*   - at most Capacity jobs are listed at a time, each under its own pid; *)
(*   - a job that the pool launches is listed from its first instant;      *)
(*   - a job leaves the list only after its process has ended, or because  *)
(*     a client asked for exactly that job to be killed.                   *)
(* JobTable implements this specification.                                 *)
(***************************************************************************)
EXTENDS Naturals, FiniteSets

CONSTANTS
  Pids,       (* process identifiers                          *)
  Capacity,   (* the most jobs listed at a time               *)
  NULL        (* no request                                   *)

VARIABLES
  listed,     (* the jobs the pool knows                      *)
  alive,      (* the job processes that have not ended        *)
  request     (* the pid a client has asked to kill, or NULL  *)

vars == <<listed, alive, request>>

Init ==
  /\ listed = {}
  /\ alive = {}
  /\ request = NULL

(* A client asks to kill pid p, which need not be a job. *)
Ask(p) ==
  /\ request = NULL
  /\ request' = p
  /\ UNCHANGED <<listed, alive>>

(* The request is dropped: there is no such job. *)
Answer ==
  /\ request # NULL
  /\ request' = NULL
  /\ UNCHANGED <<listed, alive>>

Launch(p) ==
  /\ p \notin listed \cup alive
  /\ Cardinality(listed) < Capacity
  /\ listed' = listed \cup {p}
  /\ alive' = alive \cup {p}
  /\ UNCHANGED request

(* The process of job p ends, for whatever reason. *)
Finish(p) ==
  /\ p \in alive
  /\ alive' = alive \ {p}
  /\ UNCHANGED <<listed, request>>

(* A job whose process has ended is struck off. *)
Retire(p) ==
  /\ p \in listed \ alive
  /\ listed' = listed \ {p}
  /\ UNCHANGED <<alive, request>>

(* A job is struck off at a client's request; its process dies later. *)
Kill(p) ==
  /\ p \in listed
  /\ request = p
  /\ listed' = listed \ {p}
  /\ UNCHANGED <<alive, request>>

Next ==
  \/ Answer
  \/ \E p \in Pids : Ask(p) \/ Launch(p) \/ Finish(p) \/ Retire(p) \/ Kill(p)

Spec == Init /\ [][Next]_vars
================================================================================
