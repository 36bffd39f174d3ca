-------------------------------- MODULE JobTable -------------------------------
(***************************************************************************)
(* The job table of a4/jobserver: the array job_list of jobserver.c, the   *)
(* commands that change it (jobprotocol.c) and the child processes behind  *)
(* its entries.  The server is one sequential process; the children and    *)
(* the other processes of the machine run beside it, so every system call  *)
(* of the server (fork, waitpid, kill) is a step of its own and a child    *)
(* may end, or a freed pid be taken again, between any two of them.        *)
(*                                                                         *)
(* A job node is its pid: the server never reads its other fields again,   *)
(* except spot, which is the index of the node in the array.               *)
(***************************************************************************)
EXTENDS Naturals, FiniteSets, FiniteSetsExt

CONSTANTS
  Pids,       (* the process identifiers the kernel can hand out   *)
  MAX_JOBS,   (* slots of job_list (32 in jobprotocol.h)           *)
  NULL        (* an empty slot, no command, no victim              *)

ASSUME TableAssumption ==
  /\ NULL \notin Pids
  /\ MAX_JOBS \in Nat \ {0}

VARIABLES
  job_list,   (* the pid in each slot, or NULL                                *)
  proc,       (* what the kernel knows under each pid                         *)
  step,       (* where the server is in the handling of a command             *)
  cursor,     (* i of the loop over job_list; MAX_JOBS once the loop is over  *)
  cmd,        (* the command being handled                                    *)
  victim      (* job->pid between kill_job's unlisting and its kill()         *)

tableVars == <<job_list, proc, step, cursor, cmd, victim>>

Slots == 0 .. MAX_JOBS - 1

(***************************************************************************)
(* "running": a child of the server; "doomed": one that has been sent      *)
(* SIGKILL and has not died yet; "zombie": a child that ended and was not  *)
(* waited for; "stranger": a process that is not the server's child.       *)
(***************************************************************************)
ProcStates == {"free", "running", "doomed", "zombie", "stranger"}

Steps == {"idle", "reap", "recheck", "kill", "exited"}

Commands ==
  [op : {"jobs", "run", "watch", "invalid"}, pid : {NULL}]
    \cup [op : {"kill"}, pid : Pids \cup {NULL}]

Listed == {job_list[s] : s \in Slots} \ {NULL}

--------------------------------------------------------------------------------
(* The kernel's part: what waitpid(p, &status, WNOHANG) and kill(p, SIGKILL)
   do to the process table. *)

StillRunning(p) == proc[p] \in {"running", "doomed"}

Collected(p) ==
  IF proc[p] = "zombie" THEN [proc EXCEPT ![p] = "free"] ELSE proc

(* A stranger that is signalled ends or, protected by its owner, does not:
   StrangerEnds may follow, and need not. *)
Signalled(p) ==
  IF proc[p] = "running" THEN [proc EXCEPT ![p] = "doomed"] ELSE proc

--------------------------------------------------------------------------------
TableInit ==
  /\ job_list = [s \in Slots |-> NULL]
  /\ proc = [p \in Pids |-> "free"]
  /\ step = "idle"
  /\ cursor = 0
  /\ cmd = NULL
  /\ victim = NULL

(* A complete command is at hand; the loop over job_list starts. *)
Begin(c) ==
  /\ step = "idle"
  /\ cmd' = c
  /\ cursor' = 0
  /\ step' = "reap"
  /\ UNCHANGED <<job_list, proc, victim>>

(* The command is over and the server looks for the next one. *)
Done ==
  /\ step' = "idle"
  /\ cursor' = 0
  /\ cmd' = NULL

SkipSlot ==
  /\ step = "reap"
  /\ cursor \in Slots
  /\ job_list[cursor] = NULL
  /\ cursor' = cursor + 1
  /\ UNCHANGED <<job_list, proc, step, cmd, victim>>

(* Faulty variant of WaitFirst: one waitpid per job, whose result is ignored. *)
WaitOnceOnly ==
  /\ step = "reap"
  /\ cursor \in Slots
  /\ job_list[cursor] # NULL
  /\ proc' = Collected(job_list[cursor])
  /\ cursor' = cursor + 1
  /\ UNCHANGED <<job_list, step, cmd, victim>>

(* The first waitpid of the loop body: it collects the child if it can, and
   its result is thrown away. *)
WaitFirst ==
  /\ step = "reap"
  /\ cursor \in Slots
  /\ job_list[cursor] # NULL
  /\ proc' = Collected(job_list[cursor])
  /\ step' = "recheck"
  /\ UNCHANGED <<job_list, cursor, cmd, victim>>

(* kill_job up to its call of kill_pid: the node leaves the table first. *)
kill_job(s) ==
  /\ job_list' = [job_list EXCEPT ![s] = NULL]
  /\ victim' = job_list[s]
  /\ step' = "kill"

(* The second waitpid returns 0: the child is running, the loop goes on. *)
WaitSecondRunning ==
  /\ step = "recheck"
  /\ StillRunning(job_list[cursor])
  /\ cursor' = cursor + 1
  /\ step' = "reap"
  /\ UNCHANGED <<job_list, proc, cmd, victim>>

(* Faulty variant of WaitSecondEnded: the result of waitpid is not looked at. *)
WaitSecondUnchecked ==
  /\ step = "recheck"
  /\ proc' = Collected(job_list[cursor])
  /\ kill_job(cursor)
  /\ UNCHANGED <<cursor, cmd>>

(* The second waitpid returns the pid, or -1 because the first one took the
   child already: either way it is not 0 and the job is removed. *)
WaitSecondEnded ==
  /\ step = "recheck"
  /\ ~ StillRunning(job_list[cursor])
  /\ proc' = Collected(job_list[cursor])
  /\ kill_job(cursor)
  /\ UNCHANGED <<cursor, cmd>>

(* Faulty variant of kill_pid: the signal is forgotten. *)
kill_pid_unsent ==
  /\ step = "kill"
  /\ victim' = NULL
  /\ \/ /\ cursor \in Slots
        /\ cursor' = cursor + 1
        /\ step' = "reap"
        /\ UNCHANGED cmd
     \/ /\ cursor = MAX_JOBS
        /\ Done
  /\ UNCHANGED <<job_list, proc>>

(* Faulty variant of kill_pid: it always returns to the loop. *)
kill_pid_resumes ==
  /\ step = "kill"
  /\ proc' = Signalled(victim)
  /\ victim' = NULL
  /\ cursor' = cursor + 1
  /\ step' = "reap"
  /\ UNCHANGED <<job_list, cmd>>

(* kill_pid, and the return to the loop or, for a kill command, to the end of
   the command. *)
kill_pid ==
  /\ step = "kill"
  /\ proc' = Signalled(victim)
  /\ victim' = NULL
  /\ \/ /\ cursor \in Slots
        /\ cursor' = cursor + 1
        /\ step' = "reap"
        /\ UNCHANGED cmd
     \/ /\ cursor = MAX_JOBS
        /\ Done
  /\ UNCHANGED job_list

--------------------------------------------------------------------------------
(* The switch on the command, reached when the loop has passed every slot. *)

Dispatch(ops) ==
  /\ step = "reap"
  /\ cursor = MAX_JOBS
  /\ cmd.op \in ops

FreeSlots == {s \in Slots : job_list[s] = NULL}

(* Reads the table, writes a reply. *)
print_active_jobs ==
  /\ Dispatch({"jobs"})
  /\ Done
  /\ UNCHANGED <<job_list, proc, victim>>

(* "watch" is accepted and does nothing; so does an unknown command. *)
Ignore ==
  /\ Dispatch({"watch", "invalid"})
  /\ Done
  /\ UNCHANGED <<job_list, proc, victim>>

(* check_job_availability finds no slot: "MAXJOBS exceeded". *)
RunRefused ==
  /\ Dispatch({"run"})
  /\ FreeSlots = {}
  /\ Done
  /\ UNCHANGED <<job_list, proc, victim>>

(* Faulty variant of start_job: the node always goes to the first slot. *)
start_job_slot_0(p) ==
  /\ Dispatch({"run"})
  /\ FreeSlots # {}
  /\ proc[p] = "free"
  /\ proc' = [proc EXCEPT ![p] = "running"]
  /\ job_list' = [job_list EXCEPT ![0] = p]
  /\ Done
  /\ UNCHANGED victim

(* create_jobnode takes the first empty slot, start_job forks and stores the
   pid.  The child is "running" whatever it does next: look for the program,
   exec it or exit(1). *)
start_job(p) ==
  /\ Dispatch({"run"})
  /\ FreeSlots # {}
  /\ proc[p] = "free"
  /\ proc' = [proc EXCEPT ![p] = "running"]
  /\ job_list' = [job_list EXCEPT ![Min(FreeSlots)] = p]
  /\ Done
  /\ UNCHANGED victim

(* fork fails, for want of a pid or of anything else: the server itself calls
   exit(1). *)
ForkFails ==
  /\ Dispatch({"run"})
  /\ FreeSlots # {}
  /\ step' = "exited"
  /\ cursor' = 0
  /\ cmd' = NULL
  /\ UNCHANGED <<job_list, proc, victim>>

(* pid_to_job is defined for the pid of a listed job: the first such slot. *)
pid_to_job(p) == Min({s \in Slots : job_list[s] = p})

KillListed ==
  /\ Dispatch({"kill"})
  /\ cmd.pid \in Listed
  /\ kill_job(pid_to_job(cmd.pid))
  /\ UNCHANGED <<proc, cursor, cmd>>

(* "Job %d not found". *)
KillUnknown ==
  /\ Dispatch({"kill"})
  /\ cmd.pid \notin Listed
  /\ Done
  /\ UNCHANGED <<job_list, proc, victim>>

--------------------------------------------------------------------------------
(* The processes beside the server. *)

(* Faulty variant of JobEnds: the SIGCHLD handler collects the child, and the
   pid is free while the table still holds it. *)
JobEndsCollected(p) ==
  /\ StillRunning(p)
  /\ proc' = [proc EXCEPT ![p] = "free"]
  /\ UNCHANGED <<job_list, step, cursor, cmd, victim>>

(* A job ends: it finished, was killed, or never found its program. *)
JobEnds(p) ==
  /\ StillRunning(p)
  /\ proc' = [proc EXCEPT ![p] = "zombie"]
  /\ UNCHANGED <<job_list, step, cursor, cmd, victim>>

(* A process that is none of the server's takes a free pid, and ends. *)
StrangerStarts(p) ==
  /\ proc[p] = "free"
  /\ proc' = [proc EXCEPT ![p] = "stranger"]
  /\ UNCHANGED <<job_list, step, cursor, cmd, victim>>

StrangerEnds(p) ==
  /\ proc[p] = "stranger"
  /\ proc' = [proc EXCEPT ![p] = "free"]
  /\ UNCHANGED <<job_list, step, cursor, cmd, victim>>

--------------------------------------------------------------------------------
HandleCommand ==
  \/ SkipSlot
  \/ WaitFirst
  \/ WaitSecondRunning
  \/ WaitSecondEnded
  \/ kill_pid
  \/ print_active_jobs
  \/ Ignore
  \/ RunRefused
  \/ \E p \in Pids : start_job(p)
  \/ ForkFails
  \/ KillListed
  \/ KillUnknown

Environment ==
  \E p \in Pids : JobEnds(p) \/ StrangerStarts(p) \/ StrangerEnds(p)

TableNext ==
  \/ \E c \in Commands : Begin(c)
  \/ HandleCommand
  \/ Environment

TableSpec == TableInit /\ [][TableNext]_tableVars

(* The server is a running process: a handler it has entered goes on.  Nothing
   makes commands arrive, and a job may run for ever unless it is killed. *)
FairTableSpec ==
  /\ TableSpec
  /\ WF_tableVars(HandleCommand)
  /\ \A p \in Pids : WF_tableVars(proc[p] = "doomed" /\ JobEnds(p))
--------------------------------------------------------------------------------
(***************************************************************************)
(* Properties                                                              *)
(***************************************************************************)

TableTypeOK ==
  /\ job_list \in [Slots -> Pids \cup {NULL}]
  /\ proc \in [Pids -> ProcStates]
  /\ step \in Steps
  /\ cursor \in 0 .. MAX_JOBS
  /\ cmd \in Commands \cup {NULL}
  /\ victim \in Pids \cup {NULL}

(* No pid stands in two slots, so that pid_to_job, which returns the first
   slot holding a pid, cannot leave a second entry of the job behind.  Pids
   are reused by the kernel: this holds because a job is struck off before
   its pid can be handed to another fork of the server. *)
DistinctPids ==
  \A s, t \in Slots : job_list[s] = job_list[t] /\ job_list[s] # NULL => s = t

(* Every entry of the table names a child of the server, ended or not; the
   only exception is the entry whose child the first waitpid of the reap loop
   has just collected, until the second waitpid removes it. *)
ListedAreChildren ==
  \A s \in Slots :
    \/ job_list[s] = NULL
    \/ proc[job_list[s]] \in {"running", "doomed", "zombie"}
    \/ step = "recheck" /\ cursor = s

(* Both: the entries stand for different children of the server's. *)
EntriesAreSound == DistinctPids /\ ListedAreChildren

(* No job runs out of the server's sight: one that has not been sent SIGKILL
   stands in the table, or is the job that kill_job is about to signal. *)
NoLostJob ==
  \A p \in Pids : proc[p] = "running" => p \in Listed \/ p = victim

(* A running job is signalled only for a client that named it: the SIGKILL
   that the reap loop sends, through the same kill_job, to every job it
   removes never reaches a job that runs. *)
KilledOnRequestOnly ==
  \A p \in Pids :
    step = "kill" /\ victim = p /\ proc[p] = "running" =>
      cmd = [op |-> "kill", pid |-> p]

(* A kill command that found its job signals that very child: the pid cannot
   have been given to another process between the search of the table and
   the call of kill, since a child that has ended stays a zombie. *)
KillFindsItsJob ==
  step = "kill" /\ cursor = MAX_JOBS =>
    victim = cmd.pid /\ proc[victim] \in {"running", "doomed", "zombie"}

(* Both: SIGKILL reaches a running job only if a client named it, and that very job
   if its command found it. *)
KillsAreMeant == KilledOnRequestOnly /\ KillFindsItsJob

(* jobprotocol_sample.h:86 on kill_job: "Sends SIGKILL to the given job_pid only
   if it is part of the given job list".  The code removes the job and
   collects the child first, so the pid that kill_pid is given may belong to
   a process that is not the server's. *)
NoStraySignal == step = "kill" => proc[victim] # "stranger"

(* The pid that the client being served has asked to kill. *)
Request ==
  IF step \in {"reap", "recheck", "kill"} /\ cmd.op = "kill" THEN cmd.pid ELSE NULL

(* The table does what JobPool promises: no more than MAX_JOBS jobs are listed,
   each is listed from the moment it runs, and it leaves the list only when it
   has ended or when a client asked for it to be killed. *)
Pool == INSTANCE JobPool WITH
  listed   <- Listed,
  alive    <- {p \in Pids : StillRunning(p)},
  request  <- Request,
  Capacity <- MAX_JOBS

ImplementsPool == Pool!Spec

(* As long as commands keep coming, a job that has ended is struck off, since
   every command goes through the whole table first. *)
EndedJobsAreStruck ==
  []<>(step = "reap") =>
    \A p \in Pids : (p \in Listed /\ proc[p] = "zombie") ~> p \notin Listed

(* A client's kill of a running job ends it: whatever else happens, the
   command reaches kill_pid or finds that the job has ended by itself. *)
KillTakesEffect ==
  \A p \in Pids :
    (cmd = [op |-> "kill", pid |-> p] /\ p \in Listed)
      ~> (p \notin Listed /\ ~ StillRunning(p))
================================================================================
