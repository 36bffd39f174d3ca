------------------------------- MODULE MCJobServer -----------------------------
(* The job server on a small machine, for TLC. *)
EXTENDS JobServer, TLC

(* One command of each kind that matters to the loop: one that is answered, one
   that forks, and one that kills if it finds its job. *)
SomeCommands ==
  {[op |-> "jobs", pid |-> NULL], [op |-> "run", pid |-> NULL]}
    \cup [op : {"kill"}, pid : Pids]

QuietCommands == {[op |-> o, pid |-> NULL] : o \in {"run", "watch"}}

OnlyJobs == {[op |-> "jobs", pid |-> NULL]}

ClientSymmetry == Permutations(Clients)
================================================================================
