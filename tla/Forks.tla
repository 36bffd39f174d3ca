---------------------------------- MODULE Forks --------------------------------
(***************************************************************************)
(* The exercises on fork in t07: simplefork, forkloop, parentcreates and   *)
(* childcreates.  stdout is line-buffered on a terminal; otherwise what a  *)
(* process prints stays in its buffer until it exits, and a child has a    *)
(* copy of what its parent had not yet written.                            *)
(*                                                                         *)
(* A process is named by the rounds in which its ancestors and itself were *)
(* forked: <<>> is the one the shell started, and <<0, 2>> was forked in   *)
(* round 2 by the child that <<>> forked in round 0.                       *)
(***************************************************************************)
EXTENDS Integers, Sequences, FiniteSets, SequencesExt, Bags

CONSTANT
  Starts    (* what may be run: [program, iterations]                       *)

Programs == {"simplefork", "forkloop", "parentcreates", "childcreates"}

ASSUME ForksAssumption == Starts \subseteq [program : Programs, iterations : Nat]

VARIABLES
  run,       (* what is run                                                 *)
  tty,       (* whether stdout is a terminal                                *)
  procs,     (* the processes: where each is, its i and n, what is in its stdout *)
  out,       (* what has been written, as a bag of lines                    *)
  fork_failed   (* history: a fork has failed                               *)

forksVars == <<run, tty, procs, out, fork_failed>>

Waiting == run.program \in {"parentcreates", "childcreates"}

ForksInit ==
  /\ run \in Starts
  /\ tty \in BOOLEAN
  /\ procs = [p \in {<<>>} |-> [at |-> IF run.program = "simplefork" THEN "A" ELSE "test",
                                i |-> 0, n |-> 0, stdout |-> <<>>]]
  /\ out = EmptyBag
  /\ fork_failed = FALSE

Alive(p) == procs[p].at \notin {"zombie", "reaped"}

Children(p) == {q \in DOMAIN procs : q # <<>> /\ Front(q) = p /\ procs[q].at # "reaped"}

shell == <<-2>>
init == <<-1>>

(* A child whose parent has exited is init's. *)
getppid(p) ==
  IF p = <<>> THEN shell ELSE IF Alive(Front(p)) THEN Front(p) ELSE init

(* What printf does, and what comes next. *)
printf(p, line, next) ==
  IF tty THEN out' = out (+) SetToBag({line}) /\ procs' = [procs EXCEPT ![p] = next]
  ELSE procs' = [procs EXCEPT ![p] = [next EXCEPT !.stdout = Append(@, line)]] /\ UNCHANGED out

--------------------------------------------------------------------------------

SimplePrint(p) ==
  LET me == procs[p]
      next == CASE me.at = "A"                -> "fork"
                [] me.at = "B" /\ me.n < 0    -> "exit"
                [] me.at = "B" /\ me.n = 0    -> "C"
                [] me.at = "B" /\ me.n > 0    -> "D"
                [] me.at \in {"C", "D"}       -> "E"
                [] OTHER                      -> "exit" IN
    /\ me.at \in {"A", "B", "C", "D", "E"}
    /\ printf(p, me.at, [me EXCEPT !.at = next])
    /\ UNCHANGED <<run, tty, fork_failed>>

(* Who forks in this round: in forkloop everyone, in parentcreates the first
   process; in childcreates the first process in the first round, and whoever has
   it for a parent. *)
Forks(p) ==
  CASE run.program = "forkloop"      -> TRUE
    [] run.program = "parentcreates" -> p = <<>>
    [] OTHER -> (p = <<>> /\ procs[p].i = 0) \/ getppid(p) = <<>>

Test(p) ==
  /\ procs[p].at = "test"
  /\ procs' = [procs EXCEPT ![p].at =
       IF procs[p].i = run.iterations THEN "exit" ELSE IF Forks(p) THEN "fork" ELSE "wait"]
  /\ UNCHANGED <<run, tty, out, fork_failed>>

AfterFork == IF run.program = "simplefork" THEN "B" ELSE "print"

Fork(p) ==
  /\ procs[p].at = "fork"
  /\ LET child == Append(p, procs[p].i) IN
       procs' = [q \in DOMAIN procs \cup {child} |->
                   IF q = child THEN [procs[p] EXCEPT !.at = AfterFork, !.n = 0]
                   ELSE IF q = p THEN [procs[p] EXCEPT !.at = AfterFork, !.n = 1] ELSE procs[q]]
  /\ UNCHANGED <<run, tty, out, fork_failed>>

(* forkloop looks at n before it prints, the others after. *)
ForkFails(p) ==
  /\ procs[p].at = "fork"
  /\ procs' = [procs EXCEPT ![p].at = IF run.program = "forkloop" THEN "exit" ELSE AfterFork,
                            ![p].n = -1]
  /\ fork_failed' = TRUE
  /\ UNCHANGED <<run, tty, out>>

PrintLine(p) ==
  LET me == procs[p]
      line == [pid |-> p, ppid |-> getppid(p), i |-> me.i] IN
    /\ me.at = "print"
    /\ printf(p, line,
              IF Waiting THEN [me EXCEPT !.at = IF me.n < 0 THEN "exit" ELSE "wait"]
              ELSE [me EXCEPT !.at = "test", !.i = @ + 1])
    /\ UNCHANGED <<run, tty, fork_failed>>

(* Faulty variant of Wait: it does not block. *)
WaitNot(p) ==
  /\ procs[p].at = "wait"
  /\ procs' = [procs EXCEPT ![p].at = "test", ![p].i = @ + 1]
  /\ UNCHANGED <<run, tty, out, fork_failed>>

(* wait returns a child that has exited, or at once if there is no child. *)
Wait(p) ==
  LET next == [procs EXCEPT ![p].at = "test", ![p].i = @ + 1] IN
    /\ procs[p].at = "wait"
    /\ \/ Children(p) = {} /\ procs' = next
       \/ \E q \in Children(p) :
            procs[q].at = "zombie" /\ procs' = [next EXCEPT ![q].at = "reaped"]
    /\ UNCHANGED <<run, tty, out, fork_failed>>

(* Faulty variant of Exit: what is in the buffer is not written, as by _exit. *)
ExitUnflushed(p) ==
  /\ procs[p].at = "exit"
  /\ procs' = [procs EXCEPT ![p].at = "zombie"]
  /\ UNCHANGED <<run, tty, out, fork_failed>>

(* return from main and exit both write what is in the buffer. *)
Exit(p) ==
  /\ procs[p].at = "exit"
  /\ out' = out (+) ToBag(procs[p].stdout)
  /\ procs' = [procs EXCEPT ![p].at = "zombie"]
  /\ UNCHANGED <<run, tty, fork_failed>>

ForksNext ==
  \E p \in DOMAIN procs :
    \/ SimplePrint(p) \/ Test(p) \/ Fork(p) \/ ForkFails(p)
    \/ PrintLine(p) \/ Wait(p) \/ Exit(p)

ForksSpec == ForksInit /\ [][ForksNext]_forksVars

--------------------------------------------------------------------------------
(***************************************************************************)
(* Properties                                                              *)
(***************************************************************************)

ForksTypeOK ==
  /\ run \in Starts
  /\ {tty, fork_failed} \subseteq BOOLEAN
  /\ \A p \in DOMAIN procs :
       /\ p \in Seq(0 .. run.iterations)
       /\ procs[p].at \in {"A", "B", "C", "D", "E", "test", "fork", "print", "wait", "exit",
                           "zombie", "reaped"}
       /\ procs[p].i \in 0 .. run.iterations /\ procs[p].n \in -1 .. 1
       /\ tty => procs[p].stdout = <<>>
  /\ IsABag(out)

AllExited == \A p \in DOMAIN procs : ~ Alive(p)

(* The powers of two. *)
twoTo[k \in Nat] == IF k = 0 THEN 1 ELSE 2 * twoTo[k - 1]

(* The number of lines a program is meant to write, as its text tells: on a terminal each
   process writes what it prints (forkloop: "30" for four rounds, answers.txt:20);
   elsewhere it writes what its ancestors had printed before it was forked as well. *)
Lines ==
  LET n == run.iterations IN
    CASE run.program = "simplefork" -> IF tty THEN 7 ELSE 8
      [] run.program = "forkloop"   -> IF tty THEN 2 * (twoTo[n] - 1) ELSE n * twoTo[n]
      [] OTHER                      -> IF tty THEN 2 * n ELSE n + (n * (n + 1)) \div 2

(* When every fork succeeds and all processes have exited, all of the lines have been
   written, whatever printf left in the buffers that fork copies. *)
LinesAddUp ==
  AllExited /\ ~ fork_failed => SumFunction(out) = Lines

(* In the two programs that wait, no process exits before its children, so that every
   ppid printed is that of the process that forked; and though they leave it to getppid
   or getpid who forks, there are as many children as rounds. *)
ParentsAwait ==
  Waiting =>
    /\ \A p \in DOMAIN procs : ~ Alive(p) => Children(p) = {}
    /\ \A line \in BagToSet(out) :
         line.ppid = IF line.pid = <<>> THEN shell ELSE Front(line.pid)
    /\ AllExited /\ ~ fork_failed => Cardinality(DOMAIN procs) = run.iterations + 1
================================================================================
