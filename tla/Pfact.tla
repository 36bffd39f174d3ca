---------------------------------- MODULE Pfact --------------------------------
(***************************************************************************)
(* a3: pfact finds out whether a number is the product of two primes, with *)
(* a sieve whose stages are processes connected by pipes.  A process that  *)
(* makes a stage filters for it and then only waits; its child goes on     *)
(* with the loops of main, as a copy that shares every descriptor.  So the *)
(* processes form a chain: process p + 1 is the child of process p.        *)
(* Neither pipe nor fork is checked: either may fail, and main goes on.    *)
(*                                                                         *)
(* A list is the set of numbers struck from 2 .. target.  make_list        *)
(* appends to fresh, zeroed memory.  The process that makes the last       *)
(* stage is the only one whose pid may be 0 or, if fork failed, -1.        *)
(***************************************************************************)
EXTENDS Integers, Sequences, FiniteSets, FiniteSetsExt

CONSTANTS
  Targets,        (* the numbers that pfact is asked about                 *)
  PipeLists,      (* lists that fit in a pipe: of 64 KiB, 16 each, 4        *)
  ProcessLimit,   (* bound: with so many processes, fork fails              *)
  FdLimit,        (* a process has descriptors below it                     *)
  PipeFailures,   (* bound: pipes that can not be made                      *)
  Unwritten,      (* lists that may stand in memory nothing was read into   *)
  NULL            (* an unused descriptor                                   *)

ASSUME PfactAssumption ==
  /\ Targets \subseteq Nat
  /\ PipeLists \in Nat \ {0}
  /\ ProcessLimit \in Nat \ {0}
  /\ FdLimit \in Nat /\ FdLimit >= 7
  /\ PipeFailures \in Nat
  /\ Unwritten \subseteq SUBSET Nat
  /\ NULL \notin [pipe : Nat, end : {"read", "write"}]

VARIABLES
  target,   (* argv[1]                                                      *)
  pc,       (* where each process is; "none" before it is forked            *)
  fd,       (* its descriptors: an end of a pipe, or NULL                    *)
  main,     (* the loops of main in it, and what they have found             *)
  fds2,     (* the pipe that it shares with its child or its parent          *)
  list,     (* the list it read last: main's, make_stage's or filter's       *)
  queue,    (* by pipe, the lists written and not yet read                   *)
  output,   (* the verdicts printed                                         *)
  nopipe    (* history: how often a pipe could not be made                   *)

vars == <<target, pc, fd, main, fds2, list, queue, output, nopipe>>

Processes == 1 .. ProcessLimit
Pipes == 0 .. ProcessLimit + 1     (* fd1, the first fd2, and one for each stage *)
Fds == 3 .. FdLimit - 1
Ends == [pipe : Pipes, end : {"read", "write"}]

ReadEnd(q) == [pipe |-> q, end |-> "read"]
WriteEnd(q) == [pipe |-> q, end |-> "write"]

(* All the numbers: nothing is struck. *)
make_list == {}

Init ==
  /\ target \in Targets
  /\ pc = [p \in Processes |-> IF p = 1 THEN "numbers" ELSE "none"]
  /\ fd = [p \in Processes |->
             [f \in Fds |-> CASE p = 1 /\ f = 3 -> ReadEnd(0)
                              [] p = 1 /\ f = 4 -> WriteEnd(0)
                              [] p = 1 /\ f = 5 -> ReadEnd(1)
                              [] p = 1 /\ f = 6 -> WriteEnd(1)
                              [] OTHER -> NULL]]
  /\ main = [p \in Processes |-> [i |-> 2, j |-> 1, factor_list |-> <<>>, filters |-> 0]]
  /\ fds2 = [p \in Processes |-> <<5, 6>>]
  /\ list = [p \in Processes |-> make_list]
  /\ queue = [q \in Pipes |-> IF q = 0 THEN <<make_list>> ELSE <<>>]
  /\ output = <<>>
  /\ nopipe = 0

(* fd1 is never assigned again: every process has it by these numbers. *)
fd1 == <<3, 4>>

(* is_in_list looks for a blank and the digits, which also begin longer numbers. *)
is_in_list(n, struck) ==
  \E m \in (2 .. target) \ struck : m = n \/ \E k \in 1 .. 5 : m \div 10 ^ k = n

--------------------------------------------------------------------------------
(* The loops of main. *)

Number(p) == main[p].i * main[p].j

(* The next number i.  Only the first process still counts: its children have
   pid = 0. *)
NextNumber(p) ==
  /\ pc[p] = "numbers"
  /\ IF main[p].i < target
       THEN /\ pc' = [pc EXCEPT ![p] = "multiples"]
            /\ main' = [main EXCEPT ![p].j = 1,
                 ![p].filters = IF p = 1 /\ is_in_list(main[p].i, list[p]) THEN @ + 1 ELSE @]
       ELSE /\ pc' = [pc EXCEPT ![p] = "report"]
            /\ main' = main
  /\ UNCHANGED <<target, fd, fds2, list, queue, output, nopipe>>

(* The multiples of i are through, or i is a factor; otherwise the next one. *)
NextMultiple(p) ==
  /\ pc[p] = "multiples"
  /\ Number(p) >= target \/ ~ is_in_list(Number(p), list[p])
  /\ IF Number(p) >= target
       THEN /\ pc' = [pc EXCEPT ![p] = "numbers"]
            /\ main' = [main EXCEPT ![p].i = @ + 1]
       ELSE /\ pc' = pc
            /\ main' = [main EXCEPT ![p].j = @ + 1]
  /\ UNCHANGED <<target, fd, fds2, list, queue, output, nopipe>>

AtListed(p) ==
  pc[p] = "multiples" /\ Number(p) < target /\ is_in_list(Number(p), list[p])

IsFactor(p) == target % Number(p) = 0 /\ main[p].j = 1

(* Faulty variant of Factor: a square root is entered once. *)
FactorOnce(p) ==
  /\ AtListed(p)
  /\ IsFactor(p)
  /\ main' = [main EXCEPT ![p].factor_list = Append(@, Number(p)), ![p].i = @ + 1]
  /\ pc' = [pc EXCEPT ![p] = "numbers"]
  /\ UNCHANGED <<target, fd, fds2, list, queue, output, nopipe>>

(* A square root is entered twice.  The wait(0) that follows returns at once: no
   process that gets here has a child. *)
Factor(p) ==
  /\ AtListed(p)
  /\ IsFactor(p)
  /\ LET n == Number(p)
         found == IF target \div n = n THEN <<n, n>> ELSE <<n>> IN
       main' = [main EXCEPT ![p].factor_list = @ \o found, ![p].i = @ + 1]
  /\ pc' = [pc EXCEPT ![p] = "numbers"]
  /\ UNCHANGED <<target, fd, fds2, list, queue, output, nopipe>>

Report(p) ==
  /\ pc[p] = "report"
  /\ LET found == main[p].factor_list
         primes == {k \in DOMAIN found : is_in_list(found[k], list[p])}
         says == CASE Cardinality(primes) >= 2 ->
                        <<found[Min(primes)], found[Min(primes \ {Min(primes)})]>>
                   [] Cardinality(primes) < 2 /\ found = <<>> -> <<"prime">>
                   [] OTHER -> <<"not the product of two primes">> IN
       output' = Append(output, [says |-> says, filters |-> main[p].filters])
  /\ pc' = [pc EXCEPT ![p] = "exited"]
  /\ UNCHANGED <<target, fd, main, fds2, list, queue, nopipe>>

--------------------------------------------------------------------------------
(* Pipes.  A process that has ended holds none. *)

Holds(p, end) == pc[p] \notin {"none", "exited", "aborted"} /\ \E f \in Fds : fd[p][f] = end

FreeFds(p) == {f \in Fds : fd[p][f] = NULL}

(* pipe(): the two lowest descriptors, the first to read from. *)
RoomForPipe(p) == Cardinality(FreeFds(p)) >= 2

NewPipe(p) ==
  LET r == Min(FreeFds(p)) IN <<r, Min(FreeFds(p) \ {r})>>

(* A read that brings a list.  (It waits while the pipe is empty; it never meets
   the end of the stream, see ReadersHoldWriters.) *)
ReadList(p, f) ==
  \E q \in Pipes :
    /\ fd[p][f] = ReadEnd(q)
    /\ queue[q] # <<>>
    /\ list' = [list EXCEPT ![p] = Head(queue[q])]
    /\ queue' = [queue EXCEPT ![q] = Tail(@)]

(* A read from a descriptor that is closed: the memory stays what it was. *)
ReadFails(p, f) ==
  /\ fd[p][f] = NULL
  /\ \E struck \in Unwritten : list' = [list EXCEPT ![p] = struck]
  /\ queue' = queue

(* A write waits for room; without a reader it fails, SIGPIPE being ignored. *)
WriteList(p, f, struck) ==
  LET q == fd[p][f].pipe IN
    \/ /\ \E r \in Processes : Holds(r, ReadEnd(q))
       /\ Len(queue[q]) < PipeLists
       /\ queue' = [queue EXCEPT ![q] = Append(@, struck)]
    \/ /\ \A r \in Processes : ~ Holds(r, ReadEnd(q))
       /\ queue' = queue

Closed(p, fs) == [f \in Fds |-> IF f \in fs THEN NULL ELSE fd[p][f]]

--------------------------------------------------------------------------------
(* make_stage, and what main does with its result. *)

WithPipe(p) ==
  LET r == NewPipe(p)[1]
      w == NewPipe(p)[2] IN
    [fd[p] EXCEPT ![r] = ReadEnd(p + 1), ![w] = WriteEnd(p + 1)]

(* pipe may fail, always if there is no room for it: the numbers of the pipe before
   are used again. *)
PipeMade(p, made) ==
  /\ IF made THEN RoomForPipe(p) ELSE nopipe < PipeFailures
  /\ nopipe' = IF made THEN nopipe ELSE nopipe + 1

StageFds(p, made) == IF made THEN NewPipe(p) ELSE fds2[p]
StageEnds(p, made) == IF made THEN WithPipe(p) ELSE fd[p]

(* pipe and fork. *)
make_stage(p) ==
  /\ AtListed(p)
  /\ ~ IsFactor(p)
  /\ p + 1 \in Processes
  /\ \E made \in BOOLEAN :
       /\ PipeMade(p, made)
       /\ fds2' = [fds2 EXCEPT ![p] = StageFds(p, made), ![p + 1] = StageFds(p, made)]
       /\ fd' = [fd EXCEPT ![p] = StageEnds(p, made), ![p + 1] = StageEnds(p, made)]
  /\ main' = [main EXCEPT ![p + 1] = main[p]]
  /\ list' = [list EXCEPT ![p + 1] = list[p]]
  /\ pc' = [pc EXCEPT ![p] = "take", ![p + 1] = "child"]
  /\ UNCHANGED <<target, queue, output>>

(* fork may fail at any stage, and -1 is not told from 0: the process goes on as if
   it were the child.  (Nobody reads that pipe: the next one may have its name.) *)
ForkFails(p) ==
  /\ AtListed(p)
  /\ ~ IsFactor(p)
  /\ \E made \in BOOLEAN :
       /\ PipeMade(p, made)
       /\ fds2' = [fds2 EXCEPT ![p] = StageFds(p, made)]
       /\ fd' = [fd EXCEPT ![p] = StageEnds(p, made)]
  /\ pc' = [pc EXCEPT ![p] = "child"]
  /\ UNCHANGED <<target, main, list, queue, output>>

(* The parent: read from read_fd, write to the new pipe. *)
Take(p) ==
  /\ pc[p] = "take"
  /\ ReadList(p, fd1[1]) \/ ReadFails(p, fd1[1])
  /\ pc' = [pc EXCEPT ![p] = "pass"]
  /\ UNCHANGED <<target, fd, main, fds2, output, nopipe>>

Pass(p) ==
  /\ pc[p] = "pass"
  /\ WriteList(p, fds2[p][2], list[p])
  /\ pc' = [pc EXCEPT ![p] = "filter"]
  /\ UNCHANGED <<target, fd, main, fds2, list, output, nopipe>>

(* filter reads back what was written, if the child has not read it by then. *)
FilterRead(p) ==
  /\ pc[p] = "filter"
  /\ ReadList(p, fds2[p][1]) \/ ReadFails(p, fds2[p][1])
  /\ pc' = [pc EXCEPT ![p] = "strike"]
  /\ UNCHANGED <<target, fd, main, fds2, output, nopipe>>

(* The last number is not followed by a blank, and filter does not find it. *)
FilterFinds(p) == Number(p) \in (2 .. target - 1) \ list[p]

(* Faulty variant of FilterWrite: it strikes one character too many, which begins
   the next number. *)
FilterWriteTooFar(p) ==
  /\ pc[p] = "strike"
  /\ IF FilterFinds(p)
       THEN WriteList(p, fds2[p][2], list[p] \cup {Number(p), Number(p) + 1})
       ELSE queue' = queue
  /\ pc' = [pc EXCEPT ![p] = "close"]
  /\ UNCHANGED <<target, fd, main, fds2, list, output, nopipe>>

FilterWrite(p) ==
  /\ pc[p] = "strike"
  /\ IF FilterFinds(p)
       THEN WriteList(p, fds2[p][2], list[p] \cup {Number(p)})
       ELSE queue' = queue
  /\ pc' = [pc EXCEPT ![p] = "close"]
  /\ UNCHANGED <<target, fd, main, fds2, list, output, nopipe>>

(* The end of filter frees cmp, which by then points at the number found: within the
   list, unless it is 2, with which the list begins.  That is no block of memory, and
   free aborts the process. *)
FreesWithin(p) == FilterFinds(p) /\ Number(p) # 2

FreeAborts(p) ==
  /\ pc[p] = "close"
  /\ FreesWithin(p)
  /\ pc' = [pc EXCEPT ![p] = "aborted"]
  /\ UNCHANGED <<target, fd, main, fds2, list, queue, output, nopipe>>

CloseAll(p) ==
  /\ pc[p] = "close"
  /\ ~ FreesWithin(p)
  /\ fd' = [fd EXCEPT ![p] = Closed(p, {fds2[p][1], fds2[p][2], fd1[1]})]
  /\ pc' = [pc EXCEPT ![p] = "wait"]
  /\ UNCHANGED <<target, main, fds2, list, queue, output, nopipe>>

(* Faulty variant of WaitForChild: exit without wait. *)
ExitAtOnce(p) ==
  /\ pc[p] = "wait"
  /\ pc' = [pc EXCEPT ![p] = "exited"]
  /\ UNCHANGED <<target, fd, main, fds2, list, queue, output, nopipe>>

(* wait(0) and exit(0), however the child has ended. *)
WaitForChild(p) ==
  /\ pc[p] = "wait"
  /\ pc[p + 1] \in {"exited", "aborted"}
  /\ pc' = [pc EXCEPT ![p] = "exited"]
  /\ UNCHANGED <<target, fd, main, fds2, list, queue, output, nopipe>>

(* Faulty variant of ChildCloses: the end to write to is closed as well.  (It is
   what a child should do, but then the reads have an end of stream to expect.) *)
ChildClosesBoth(p) ==
  /\ pc[p] = "child"
  /\ fd' = [fd EXCEPT ![p] = Closed(p, {fd1[1], fds2[p][2]})]
  /\ pc' = [pc EXCEPT ![p] = "get"]
  /\ UNCHANGED <<target, main, fds2, list, queue, output, nopipe>>

(* The child: close read_fd, which the new pipe may have been given as well. *)
ChildCloses(p) ==
  /\ pc[p] = "child"
  /\ fd' = [fd EXCEPT ![p] = Closed(p, {fd1[1]})]
  /\ pc' = [pc EXCEPT ![p] = "get"]
  /\ UNCHANGED <<target, main, fds2, list, queue, output, nopipe>>

(* Faulty variant of Get: a read that fails is tried again. *)
GetAgain(p) ==
  /\ pc[p] = "get"
  /\ ReadList(p, fds2[p][1])
  /\ pc' = [pc EXCEPT ![p] = "put"]
  /\ UNCHANGED <<target, fd, main, fds2, output, nopipe>>

(* read from the new pipe; if that was closed, the list stays what it was. *)
Get(p) ==
  /\ pc[p] = "get"
  /\ \/ ReadList(p, fds2[p][1])
     \/ fd[p][fds2[p][1]] = NULL /\ UNCHANGED <<list, queue>>
  /\ pc' = [pc EXCEPT ![p] = "put"]
  /\ UNCHANGED <<target, fd, main, fds2, output, nopipe>>

(* write to the first pipe, for the next stage to take. *)
Put(p) ==
  /\ pc[p] = "put"
  /\ WriteList(p, fd1[2], list[p])
  /\ main' = [main EXCEPT ![p].j = @ + 1]
  /\ pc' = [pc EXCEPT ![p] = "multiples"]
  /\ UNCHANGED <<target, fd, fds2, list, output, nopipe>>

--------------------------------------------------------------------------------
Step(p) ==
  \/ NextNumber(p) \/ NextMultiple(p) \/ Factor(p) \/ Report(p)
  \/ make_stage(p) \/ ForkFails(p)
  \/ Take(p) \/ Pass(p) \/ FilterRead(p) \/ FilterWrite(p)
  \/ FreeAborts(p) \/ CloseAll(p)
  \/ WaitForChild(p)
  \/ ChildCloses(p) \/ Get(p) \/ Put(p)

Next == \E p \in Processes : Step(p)

Spec == Init /\ [][Next]_vars

(* Every process is scheduled. *)
FairSpec == Spec /\ \A p \in Processes : WF_vars(Step(p))

--------------------------------------------------------------------------------
(***************************************************************************)
(* Properties                                                              *)
(***************************************************************************)

Phases ==
  {"none", "numbers", "multiples", "report", "take", "pass", "filter", "strike", "close",
   "wait", "child", "get", "put", "exited", "aborted"}

ProperDivisors == {d \in 2 .. target - 1 : target % d = 0}

PfactTypeOK ==
  /\ target \in Targets
  /\ pc \in [Processes -> Phases]
  /\ fd \in [Processes -> [Fds -> Ends \cup {NULL}]]
  /\ main \in [Processes -> [i : Nat \ {0}, j : Nat \ {0}, factor_list : Seq(ProperDivisors),
                             filters : Nat]]
  /\ fds2 \in [Processes -> Fds \X Fds]
  /\ list \in [Processes -> SUBSET Nat]
  /\ queue \in [Pipes -> Seq(SUBSET Nat)]
  /\ nopipe = 0 => /\ list \in [Processes -> SUBSET (2 .. target - 1)]
                   /\ queue \in [Pipes -> Seq(SUBSET (2 .. target - 1))]
  /\ output \in Seq([says : Seq(2 .. target - 1) \cup {<<"prime">>,
                                                    <<"not the product of two primes">>},
                     filters : Nat])
  /\ nopipe \in 0 .. PipeFailures

(* Whichever process gets to report, after whichever races, the verdict is the same:
   a number without proper divisors is prime; otherwise the two smallest are named,
   or the square root twice.  They are the two primes if the target is a product of
   two primes (and for any other number the verdict is wrong: "8 2 4").  The filters
   counted are those before the first fork.  Forks that fail do not change it; a pipe
   that could not be made does, since reads then fail and what stands in memory is
   taken for a list. *)
RightVerdict ==
  nopipe = 0 => \A v \in DOMAIN output :
    /\ output[v].says =
         IF ProperDivisors = {} THEN <<"prime">>
         ELSE LET least == Min(ProperDivisors) IN
                <<least, IF least * least = target THEN least
                         ELSE Min(ProperDivisors \ {least})>>
    /\ LET others == (2 .. target - 1) \ ProperDivisors IN
         output[v].filters = IF others = {} THEN Cardinality(ProperDivisors)
                             ELSE Min(others) - 1

(* Among all the copies of main one reports at most, once. *)
OneVerdict == Len(output) <= 1

(* A process that exits has no child left.  (One that aborts in filter leaves its child
   alone, before any verdict.) *)
ParentsOutlive ==
  \A p \in Processes :
    pc[p] = "exited" /\ p + 1 \in Processes => pc[p + 1] \in {"none", "exited", "aborted"}

(* Whoever exits does so after the verdict, unless it is the abort of a process that
   has set the others free. *)
ExitsAfterVerdict ==
  (\E p \in Processes : pc[p] = "exited") =>
    output # <<>> \/ \E p \in Processes : pc[p] = "aborted"

(* The filter of the first process aborts it only if the number is even: otherwise it
   has to strike 2, with which the list begins.  No other process comes so far as to
   filter, as it takes its list from its own pipe, which is empty. *)
AbortsOnlyEven ==
  nopipe = 0 => \A p \in Processes : pc[p] = "aborted" => p = 1 /\ target % 2 = 0

(* All four: the verdict comes once, and of those who wait for a child nobody ends
   before it; with pipes, who waits for an odd number's verdict has it when the first
   process ends. *)
OrderlyEnd == OneVerdict /\ ParentsOutlive /\ ExitsAfterVerdict /\ AbortsOnlyEven

(* With pipes, no stage strikes a divisor of the target from any list, on its way or
   read: the verdict looks them up in whichever list the last process has. *)
DivisorsStay ==
  nopipe = 0 =>
  /\ \A p \in Processes : list[p] \cap ProperDivisors = {}
  /\ \A q \in Pipes : \A k \in DOMAIN queue[q] : queue[q][k] \cap ProperDivisors = {}

(* A process that is about to read from a pipe holds the end to write to it: no read
   ever returns 0, and one that finds the pipe empty waits for itself or its kin. *)
ReadersHoldWriters ==
  \A p \in Processes :
    LET f == IF pc[p] = "take" THEN fd1[1] ELSE fds2[p][1] IN
      pc[p] \in {"take", "filter", "get"} /\ fd[p][f] # NULL =>
        Holds(p, WriteEnd(fd[p][f].pipe))

(* A verdict comes, though most of the stages never end, and though forks may fail
   after the first one, except in three cases: the first fork failed, and the first
   process waits for a list in a pipe that only it could write; the first stage lost
   its list to its child before it could filter it, and so many stages followed that
   the first pipe, which nobody empties any more, is full; or a pipe could not be
   made. *)
VerdictComes ==
  <>(\/ output # <<>>
     \/ pc[1] = "get"
     \/ pc[1] = "filter" /\ Len(queue[0]) = PipeLists
     \/ nopipe > 0)
================================================================================
