----------------------------- MODULE JobTableProofs ----------------------------
(***************************************************************************)
(* The safety properties of JobTable, for every set of pids and every      *)
(* MAX_JOBS.                                                               *)
(***************************************************************************)
EXTENDS JobTable, FiniteSetTheorems, Minimum, TLAPS

--------------------------------------------------------------------------------
(* The inductive invariant.  The properties of JobTable are not inductive by
   themselves: they need to know where in the handler the server stands. *)
Control ==
  /\ step \notin {"idle", "exited"} => cmd \in Commands
  /\ step = "recheck" => cursor \in Slots /\ job_list[cursor] # NULL
  /\ step # "kill" => victim = NULL
  /\ step = "kill" => victim \in Pids /\ victim \notin Listed

(* In the reap loop the victim has been collected; in a kill command it is a
   child still. *)
VictimState ==
  step = "kill" =>
    \/ cursor \in Slots /\ proc[victim] \in {"free", "stranger"}
    \/ /\ cursor = MAX_JOBS
       /\ cmd.op = "kill"
       /\ cmd.pid = victim
       /\ proc[victim] \in {"running", "doomed", "zombie"}

IInv ==
  /\ TableTypeOK
  /\ DistinctPids
  /\ ListedAreChildren
  /\ NoLostJob
  /\ Control
  /\ VictimState

--------------------------------------------------------------------------------
LEMMA InitEstablishes == TableInit => IInv
  BY TableAssumption
  DEF TableInit, IInv, TableTypeOK, DistinctPids, ListedAreChildren, NoLostJob,
      Control, VictimState, Slots, ProcStates, Steps, Listed

(* The slot a search of the table finds. *)
LEMMA FirstFreeSlot ==
  ASSUME TableTypeOK, FreeSlots # {}
  PROVE  Min(FreeSlots) \in Slots /\ job_list[Min(FreeSlots)] = NULL
<1>1. FreeSlots \in SUBSET Nat
  BY TableAssumption DEF FreeSlots, Slots
<1>. QED
  BY <1>1, MinBelongs DEF FreeSlots

LEMMA SlotOfListed ==
  ASSUME TableTypeOK, NEW p \in Listed
  PROVE  pid_to_job(p) \in Slots /\ job_list[pid_to_job(p)] = p
<1>. DEFINE S == {s \in Slots : job_list[s] = p}
<1>1. S \in SUBSET Nat /\ S # {}
  BY TableAssumption DEF Listed, Slots
<1>. QED
  BY <1>1, MinBelongs DEF pid_to_job

--------------------------------------------------------------------------------
(* One lemma per group of actions: the loop, the switch, the environment. *)

LEMMA LoopPreserves ==
  ASSUME IInv, SkipSlot \/ WaitFirst \/ WaitSecondRunning \/ WaitSecondEnded \/ kill_pid
  PROVE  IInv'
<1>. USE TableAssumption DEF IInv, TableTypeOK, Slots, ProcStates, Steps
<1>1. CASE SkipSlot
  BY <1>1 DEF SkipSlot, DistinctPids, ListedAreChildren, NoLostJob, Control,
              VictimState, Listed
<1>2. CASE WaitFirst
  <2>1. TableTypeOK'
    BY <1>2 DEF WaitFirst, Collected
  <2>2. DistinctPids' /\ Control' /\ VictimState'
    BY <1>2 DEF WaitFirst, DistinctPids, Control, VictimState, Listed
  <2>3. ListedAreChildren' /\ NoLostJob'
    BY <1>2 DEF WaitFirst, DistinctPids, ListedAreChildren, NoLostJob, Listed, Collected
  <2>. QED
    BY <2>1, <2>2, <2>3
<1>3. CASE WaitSecondRunning
  BY <1>3 DEF WaitSecondRunning, StillRunning, DistinctPids, ListedAreChildren,
              NoLostJob, Control, VictimState, Listed
<1>4. CASE WaitSecondEnded
  <2>. USE <1>4 DEF WaitSecondEnded, kill_job, Control, DistinctPids
  <2>1. TableTypeOK'
    BY DEF Collected
  <2>2. DistinctPids' /\ Control'
    BY DEF Listed
  <2>3. ListedAreChildren'
    BY DEF ListedAreChildren, Collected
  <2>4. NoLostJob'
    BY DEF NoLostJob, Listed, Collected, StillRunning
  <2>5. VictimState'
    BY DEF VictimState, Collected, StillRunning
  <2>. QED
    BY <2>1, <2>2, <2>3, <2>4, <2>5
<1>5. CASE kill_pid
  <2>. USE <1>5 DEF kill_pid, Done, Control
  <2>1. TableTypeOK'
    BY DEF Signalled
  <2>2. DistinctPids' /\ Control' /\ VictimState'
    BY DEF DistinctPids, VictimState, Listed
  <2>3. ListedAreChildren' /\ NoLostJob'
    BY DEF ListedAreChildren, NoLostJob, Listed, Signalled
  <2>. QED
    BY <2>1, <2>2, <2>3
<1>. QED
  BY <1>1, <1>2, <1>3, <1>4, <1>5

LEMMA SwitchPreserves ==
  ASSUME IInv,
         \/ print_active_jobs \/ Ignore \/ RunRefused \/ ForkFails
         \/ KillListed \/ KillUnknown
         \/ \E p \in Pids : start_job(p)
  PROVE  IInv'
<1>. USE TableAssumption DEF IInv, TableTypeOK, Slots, ProcStates, Steps, Dispatch, Done
<1>1. CASE print_active_jobs \/ Ignore \/ RunRefused \/ ForkFails \/ KillUnknown
  BY <1>1 DEF print_active_jobs, Ignore, RunRefused, ForkFails, KillUnknown,
              DistinctPids, ListedAreChildren, NoLostJob, Control, VictimState, Listed
<1>2. CASE KillListed
  <2>1. PICK s \in Slots : s = pid_to_job(cmd.pid) /\ job_list[s] = cmd.pid
    BY <1>2, SlotOfListed DEF KillListed
  <2>2. /\ job_list' = [job_list EXCEPT ![s] = NULL]
        /\ victim' = cmd.pid
        /\ step' = "kill"
        /\ UNCHANGED <<proc, cursor, cmd>>
    BY <1>2, <2>1 DEF KillListed, kill_job
  <2>3. step = "reap" /\ cursor = MAX_JOBS /\ cmd.op = "kill" /\ cmd.pid \in Pids
    BY <1>2 DEF KillListed, Listed
  <2>. HIDE <1>2
  <2>4. TableTypeOK' /\ DistinctPids' /\ Control'
    BY <2>1, <2>2, <2>3 DEF DistinctPids, Control, Listed
  <2>5. ListedAreChildren' /\ NoLostJob'
    BY <2>1, <2>2, <2>3 DEF ListedAreChildren, NoLostJob, Listed, Control
  <2>6. VictimState'
    BY <2>1, <2>2, <2>3 DEF VictimState, ListedAreChildren
  <2>. QED
    BY <2>4, <2>5, <2>6
<1>3. ASSUME NEW p \in Pids, start_job(p)
      PROVE  IInv'
  <2>1. PICK s \in Slots : s = Min(FreeSlots) /\ job_list[s] = NULL
    BY <1>3, FirstFreeSlot DEF start_job
  <2>2. /\ job_list' = [job_list EXCEPT ![s] = p]
        /\ proc' = [proc EXCEPT ![p] = "running"]
        /\ proc[p] = "free"
        /\ step = "reap"
        /\ step' = "idle" /\ cursor' = 0 /\ cmd' = NULL /\ victim' = victim
    BY <1>3, <2>1 DEF start_job
  <2>3. p \notin Listed
    BY <2>2 DEF ListedAreChildren, Listed
  <2>. HIDE <1>3
  <2>4. TableTypeOK' /\ Control' /\ VictimState'
    BY <2>1, <2>2 DEF Control, VictimState
  <2>5. DistinctPids' /\ ListedAreChildren'
    BY <2>1, <2>2, <2>3 DEF DistinctPids, ListedAreChildren, Listed
  <2>6. NoLostJob'
    BY <2>1, <2>2 DEF NoLostJob, Listed
  <2>. QED
    BY <2>4, <2>5, <2>6
<1>. QED
  BY <1>1, <1>2, <1>3

LEMMA OthersPreserve ==
  ASSUME IInv,
         \/ \E c \in Commands : Begin(c)
         \/ \E p \in Pids : JobEnds(p) \/ StrangerStarts(p) \/ StrangerEnds(p)
  PROVE  IInv'
<1>. USE TableAssumption DEF IInv, TableTypeOK, Slots, ProcStates, Steps
<1>1. ASSUME NEW c \in Commands, Begin(c)
      PROVE  IInv'
  BY <1>1 DEF Begin, DistinctPids, ListedAreChildren, NoLostJob, Control, VictimState,
              Listed
<1>2. ASSUME NEW p \in Pids, JobEnds(p) \/ StrangerStarts(p) \/ StrangerEnds(p)
      PROVE  IInv'
  <2>1. PICK q \in ProcStates :
          /\ proc' = [proc EXCEPT ![p] = q]
          /\ \/ StillRunning(p) /\ q = "zombie"
             \/ proc[p] = "free" /\ q = "stranger"
             \/ proc[p] = "stranger" /\ q = "free"
          /\ UNCHANGED <<job_list, step, cursor, cmd, victim>>
    BY <1>2 DEF JobEnds, StrangerStarts, StrangerEnds
  <2>. HIDE <1>2
  <2>2. TableTypeOK' /\ DistinctPids' /\ Control'
    BY <2>1 DEF DistinctPids, Control, Listed
  <2>3. ListedAreChildren' /\ NoLostJob'
    BY <2>1 DEF ListedAreChildren, NoLostJob, Listed, StillRunning
  <2>4. VictimState'
    BY <2>1 DEF VictimState, StillRunning, Control
  <2>. QED
    BY <2>2, <2>3, <2>4
<1>. QED
  BY <1>1, <1>2

LEMMA NextPreserves == IInv /\ [TableNext]_tableVars => IInv'
<1>. SUFFICES ASSUME IInv, [TableNext]_tableVars PROVE IInv'
  OBVIOUS
<1>1. CASE TableNext
  BY <1>1, LoopPreserves, SwitchPreserves, OthersPreserve
  DEF TableNext, HandleCommand, Environment
<1>2. CASE UNCHANGED tableVars
  BY <1>2 DEF tableVars, IInv, TableTypeOK, DistinctPids, ListedAreChildren, NoLostJob,
              Control, VictimState, Listed
<1>. QED
  BY <1>1, <1>2

(* The inductive invariant holds for ever. *)
THEOREM Inductive == TableSpec => []IInv
<1>. QED
  BY InitEstablishes, NextPreserves, PTL DEF TableSpec

(* Theorems on the safety properties that MCJobTable checks. *)

(* Every variable keeps its type. *)
THEOREM TypeCorrect == TableSpec => []TableTypeOK
<1>. QED
  BY Inductive, PTL DEF IInv

(* No pid is ever listed twice, however the kernel reuses pids. *)
THEOREM PidsAreDistinct == TableSpec => []DistinctPids
<1>. QED
  BY Inductive, PTL DEF IInv

(* A listed job is a child of the server, but for the instant between the two
   calls of waitpid. *)
THEOREM ListedJobsAreChildren == TableSpec => []ListedAreChildren
<1>. QED
  BY Inductive, PTL DEF IInv

(* The entries of the table stand for different children of the server's. *)
THEOREM EntriesStaySound == TableSpec => []EntriesAreSound
<1>. QED
  BY PidsAreDistinct, ListedJobsAreChildren, PTL DEF EntriesAreSound

(* No running job is forgotten. *)
THEOREM JobsAreNotLost == TableSpec => []NoLostJob
<1>. QED
  BY Inductive, PTL DEF IInv

(* No running job is signalled unless a client named it. *)
THEOREM JobsAreKilledOnRequest == TableSpec => []KilledOnRequestOnly
<1>1. IInv => KilledOnRequestOnly
  BY TableAssumption
  DEF IInv, KilledOnRequestOnly, VictimState, Control, Commands, TableTypeOK, Slots
<1>. QED
  BY <1>1, Inductive, PTL

(* A kill command that found its job signals that very process. *)
THEOREM KillsReachTheirJob == TableSpec => []KillFindsItsJob
<1>1. IInv => KillFindsItsJob
  BY TableAssumption DEF IInv, KillFindsItsJob, VictimState, TableTypeOK, Slots
<1>. QED
  BY <1>1, Inductive, PTL

(* A running job is killed only for a client that named it, and then it is that one. *)
THEOREM KillsStayMeant == TableSpec => []KillsAreMeant
<1>. QED
  BY JobsAreKilledOnRequest, KillsReachTheirJob, PTL DEF KillsAreMeant

--------------------------------------------------------------------------------
(* JobTable implements JobPool. *)

Alive == {p \in Pids : StillRunning(p)}

(* A free slot leaves fewer than MAX_JOBS jobs: job_list maps the occupied
   slots onto the listed pids. *)
LEMMA FreeSlotLeavesRoom ==
  ASSUME TableTypeOK, NEW s \in Slots, job_list[s] = NULL
  PROVE  Cardinality(Listed) < MAX_JOBS
<1>. DEFINE Occupied == {t \in Slots : job_list[t] # NULL}
            entry == [t \in Occupied |-> job_list[t]]
<1>1. IsFiniteSet(Slots) /\ Cardinality(Slots) = MAX_JOBS
  <2>1. MAX_JOBS - 1 \in Int /\ ~ (0 > MAX_JOBS - 1) /\ (MAX_JOBS - 1) - 0 + 1 = MAX_JOBS
    BY TableAssumption
  <2>. QED
    BY <2>1, FS_Interval DEF Slots
<1>2. IsFiniteSet(Occupied) /\ Cardinality(Occupied) < MAX_JOBS
  <2>1. Occupied \in SUBSET Slots /\ Occupied # Slots
    OBVIOUS
  <2>2. /\ IsFiniteSet(Occupied)
        /\ Cardinality(Occupied) <= Cardinality(Slots)
        /\ Cardinality(Slots) # Cardinality(Occupied)
    BY <1>1, <2>1, FS_Subset
  <2>3. Cardinality(Occupied) \in Nat
    BY <2>2, FS_CardinalityType
  <2>. QED
    BY <1>1, <2>2, <2>3, TableAssumption
<1>3. entry \in Surjection(Occupied, Listed)
  BY DEF Surjection, Listed, TableTypeOK
<1>4. IsFiniteSet(Listed) /\ Cardinality(Listed) <= Cardinality(Occupied)
  BY <1>2, <1>3, FS_Surjection
<1>5. Cardinality(Listed) \in Nat /\ Cardinality(Occupied) \in Nat
  BY <1>2, <1>4, FS_CardinalityType
<1>. QED
  BY <1>2, <1>4, <1>5, TableAssumption

LEMMA InitMaps == TableInit => Pool!Init
  BY TableAssumption
  DEF TableInit, Pool!Init, Listed, StillRunning, Request, Slots

(* The steps that leave listed, alive and request as they are. *)
LEMMA SilentSteps ==
  ASSUME IInv,
         \/ SkipSlot \/ WaitFirst \/ WaitSecondRunning
         \/ print_active_jobs \/ Ignore \/ RunRefused \/ ForkFails
         \/ \E p \in Pids : StrangerStarts(p) \/ StrangerEnds(p)
         \/ UNCHANGED tableVars
  PROVE  UNCHANGED <<Listed, Alive, Request>>
<1>. USE DEF IInv, TableTypeOK, Listed, Alive, StillRunning, Request
<1>1. CASE SkipSlot
  BY <1>1 DEF SkipSlot
<1>2. CASE WaitFirst
  BY <1>2 DEF WaitFirst, Collected
<1>3. CASE WaitSecondRunning
  BY <1>3 DEF WaitSecondRunning
<1>4. CASE print_active_jobs \/ Ignore \/ RunRefused \/ ForkFails
  BY <1>4 DEF print_active_jobs, Ignore, RunRefused, ForkFails, Dispatch, Done
<1>5. CASE \E p \in Pids : StrangerStarts(p) \/ StrangerEnds(p)
  BY <1>5 DEF StrangerStarts, StrangerEnds
<1>6. CASE UNCHANGED tableVars
  BY <1>6 DEF tableVars
<1>. QED
  BY <1>1, <1>2, <1>3, <1>4, <1>5, <1>6

(* Every step of the table is a step of the pool or changes nothing of it. *)
LEMMA NextMaps ==
  IInv /\ [TableNext]_tableVars => [Pool!Next]_(Pool!vars)
<1>. SUFFICES ASSUME IInv, [TableNext]_tableVars
              PROVE  Pool!Next \/ UNCHANGED <<Listed, Alive, Request>>
  BY DEF Pool!vars, Alive
<1>. USE DEF IInv, Control
<1>1. ASSUME NEW c \in Commands, Begin(c)
      PROVE  Pool!Next \/ UNCHANGED <<Listed, Alive, Request>>
  <2>1. UNCHANGED <<Listed, Alive>> /\ Request = NULL
    BY <1>1 DEF Begin, Listed, Alive, StillRunning, Request
  <2>2. Request' = IF c.op = "kill" THEN c.pid ELSE NULL
    BY <1>1 DEF Begin, Request
  <2>3. CASE c.op = "kill" /\ c.pid # NULL
    <3>1. c.pid \in Pids
      BY <2>3 DEF Commands
    <3>2. Pool!Ask(c.pid)
      BY <2>1, <2>2, <2>3 DEF Pool!Ask, Alive
    <3>. QED
      BY <3>1, <3>2 DEF Pool!Next
  <2>. QED
    BY <2>1, <2>2, <2>3
<1>2. CASE WaitSecondEnded
  <2>1. PICK p \in Pids : p = job_list[cursor] /\ p \in Listed \ Alive
    BY <1>2 DEF WaitSecondEnded, Listed, Alive, TableTypeOK
  <2>2. Listed' = Listed \ {p}
    BY <1>2, <2>1 DEF WaitSecondEnded, kill_job, Listed, DistinctPids, TableTypeOK
  <2>3. UNCHANGED <<Alive, Request>>
    BY <1>2 DEF WaitSecondEnded, kill_job, Alive, StillRunning, Collected, Request,
                TableTypeOK
  <2>4. Pool!Retire(p)
    BY <2>1, <2>2, <2>3 DEF Pool!Retire, Alive
  <2>. QED
    BY <2>4 DEF Pool!Next
<1>3. CASE kill_pid
  <2>1. UNCHANGED <<Listed, Alive>>
    BY <1>3 DEF kill_pid, Listed, Alive, StillRunning, Signalled, TableTypeOK
  <2>2. CASE cursor \in Slots
    BY <1>3, <2>1, <2>2, TableAssumption DEF kill_pid, Request, Slots
  <2>3. CASE cursor = MAX_JOBS
    <3>1. Request = victim /\ victim \in Pids
      BY <1>3, <2>3, TableAssumption DEF kill_pid, Request, VictimState, Slots
    <3>2. Request' = NULL
      BY <1>3, <2>3, TableAssumption DEF kill_pid, Done, Request, Slots
    <3>3. Pool!Answer
      BY <2>1, <3>1, <3>2, TableAssumption DEF Pool!Answer, Alive
    <3>. QED
      BY <3>3 DEF Pool!Next
  <2>. QED
    BY <1>3, <2>2, <2>3 DEF kill_pid
<1>4. ASSUME NEW p \in Pids, start_job(p)
      PROVE  Pool!Next
  <2>1. PICK s \in Slots : s = Min(FreeSlots) /\ job_list[s] = NULL
    BY <1>4, FirstFreeSlot DEF start_job
  <2>2. p \notin Listed \cup Alive
    BY <1>4 DEF start_job, ListedAreChildren, Listed, Alive, StillRunning, Dispatch
  <2>3. Cardinality(Listed) < MAX_JOBS
    BY <2>1, FreeSlotLeavesRoom
  <2>4. Listed' = Listed \cup {p}
    BY <1>4, <2>1, TableAssumption DEF start_job, Listed, TableTypeOK
  <2>5. Alive' = Alive \cup {p}
    BY <1>4 DEF start_job, Alive, StillRunning, TableTypeOK
  <2>6. UNCHANGED Request
    BY <1>4 DEF start_job, Dispatch, Done, Request
  <2>7. Pool!Cardinality(Listed) = Cardinality(Listed)
    BY Zenon DEF Pool!Cardinality, Cardinality
  <2>8. Pool!Launch(p)
    BY <2>2, <2>3, <2>4, <2>5, <2>6, <2>7 DEF Pool!Launch, Alive
  <2>. QED
    BY <2>8 DEF Pool!Next
<1>5. CASE KillListed
  <2>1. PICK s \in Slots : s = pid_to_job(cmd.pid) /\ job_list[s] = cmd.pid
    BY <1>5, SlotOfListed DEF KillListed
  <2>2. cmd.pid \in Listed /\ cmd.pid \in Pids /\ Request = cmd.pid
    BY <1>5 DEF KillListed, Dispatch, Listed, Request, TableTypeOK
  <2>3. Listed' = Listed \ {cmd.pid}
    BY <1>5, <2>1 DEF KillListed, kill_job, Listed, DistinctPids, TableTypeOK
  <2>4. UNCHANGED <<Alive, Request>>
    BY <1>5 DEF KillListed, kill_job, Dispatch, Alive, StillRunning, Request
  <2>5. Pool!Kill(cmd.pid)
    BY <2>2, <2>3, <2>4 DEF Pool!Kill, Alive
  <2>. QED
    BY <2>2, <2>5 DEF Pool!Next
<1>6. CASE KillUnknown
  <2>1. UNCHANGED <<Listed, Alive>> /\ Request' = NULL
    BY <1>6 DEF KillUnknown, Done, Listed, Alive, StillRunning, Request
  <2>2. CASE Request # NULL
    BY <2>1, <2>2 DEF Pool!Answer, Pool!Next, Alive
  <2>. QED
    BY <2>1, <2>2
<1>7. ASSUME NEW p \in Pids, JobEnds(p)
      PROVE  Pool!Next
  <2>1. p \in Alive /\ Alive' = Alive \ {p}
    BY <1>7 DEF JobEnds, Alive, StillRunning, TableTypeOK
  <2>2. UNCHANGED <<Listed, Request>>
    BY <1>7 DEF JobEnds, Listed, Request
  <2>3. Pool!Finish(p)
    BY <2>1, <2>2 DEF Pool!Finish, Alive
  <2>. QED
    BY <2>3 DEF Pool!Next
<1>. QED
  BY <1>1, <1>2, <1>3, <1>4, <1>5, <1>6, <1>7, SilentSteps
  DEF TableNext, HandleCommand, Environment

(* The job table implements the job pool. *)
THEOREM TableImplementsPool == TableSpec => ImplementsPool
<1>. QED
  BY InitMaps, Inductive, NextMaps, PTL DEF ImplementsPool, TableSpec, Pool!Spec

================================================================================
