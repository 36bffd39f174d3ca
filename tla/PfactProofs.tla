------------------------------- MODULE PfactProofs -----------------------------
(***************************************************************************)
(* Proofs about Pfact: the chain of processes ends from its end, one of    *)
(* them reports and says what is true of the number, no stage strikes a    *)
(* divisor, and nobody waits for a list that only others could write.      *)
(***************************************************************************)
EXTENDS Pfact, Minimum, FiniteSetTheorems

(* What divides a number's factor divides the number. *)
LEMMA DivisorOfFactor ==
  ASSUME NEW t \in Nat, NEW i \in Nat \ {0}, NEW j \in Nat \ {0}, t % (i * j) = 0
  PROVE  t % i = 0
<1> DEFINE q == t \div (i * j)
<1>1. i * j \in Nat \ {0}
  BY SMT
<1>2. t = q * (i * j) /\ q \in Nat
  BY <1>1, SMT
<1>3. t = (q * j) * i /\ q * j \in Nat
  BY <1>2, SMT
<1> HIDE DEF q
<1> QED
  BY <1>3, SMT

(* A multiple is not smaller than the number. *)
LEMMA MultipleIsLarger ==
  ASSUME NEW i \in Nat, NEW j \in Nat \ {0}
  PROVE  i * j \in Nat /\ i * j >= i
<1>1. i * j = i * (j - 1) + i /\ j - 1 \in Nat
  BY SMT
<1>2. i * (j - 1) \in Nat
  BY <1>1, SMT
<1> QED
  BY <1>1, <1>2, SMT

--------------------------------------------------------------------------------
(* The chain. *)

(* Where a process is from its fork on: it has a child, and only waits for it. *)
HasChild == {"take", "pass", "filter", "strike", "close", "wait"}

Ended == {"exited", "aborted"}

(* Processes are forked in the order of the chain, each by the one before it.  Who waits
   for a child ends after it, and who exits without one has given the verdict, the last
   of all that were alive and did not wait. *)
Chain ==
  /\ pc \in [Processes -> Phases]
  /\ nopipe \in 0 .. PipeFailures
  /\ \A p \in Processes : pc[p] \in HasChild => p + 1 \in Processes /\ pc[p + 1] # "none"
  /\ \A p, q \in Processes : p < q =>
       /\ pc[p] = "none" => pc[q] = "none"
       /\ pc[q] # "none" => pc[p] \in HasChild \cup Ended
  /\ \A p \in Processes :
       pc[p] = "exited" /\ p + 1 \in Processes => pc[p + 1] \in Ended \cup {"none"}
  /\ \/ output = <<>>
     \/ /\ \E v : output = <<v>>
        /\ \A p \in Processes : pc[p] \in HasChild \cup Ended \cup {"none"}
  /\ \A p \in Processes :
       pc[p] = "exited" => output # <<>> \/ \E q \in Processes : pc[q] = "aborted"

LEMMA ChainInit == Init => Chain
BY PfactAssumption DEF Init, Chain, Processes, Phases, HasChild, Ended

(* A pipe is made, or counted as one that could not be made. *)
LEMMA PipeCounted ==
  ASSUME Chain, NEW p, NEW made \in BOOLEAN, PipeMade(p, made)
  PROVE  /\ nopipe' \in 0 .. PipeFailures
         /\ nopipe' = 0 => nopipe = 0 /\ made
         /\ nopipe = 0 \/ nopipe' # 0
BY PfactAssumption DEF Chain, PipeMade

(* A step inside a process: it was alive and did not wait, or waits on. *)
LEMMA ChainStays ==
  ASSUME Chain, NEW p \in Processes, NEW from \in Phases, NEW to \in Phases,
         pc[p] = from, pc' = [pc EXCEPT ![p] = to], output' = output,
         nopipe' \in 0 .. PipeFailures,
         from \notin {"none", "exited", "aborted"}, to \notin {"none", "exited", "aborted"},
         from \in HasChild <=> to \in HasChild
  PROVE  Chain'
<1>1. /\ pc' \in [Processes -> Phases]
      /\ \A q \in Processes \ {p} : pc'[q] = pc[q]
      /\ pc'[p] = to
  BY DEF Chain
<1>2. \A q \in Processes : /\ pc'[q] \in HasChild <=> pc[q] \in HasChild
                           /\ pc'[q] = "none" <=> pc[q] = "none"
                           /\ pc'[q] = "exited" <=> pc[q] = "exited"
                           /\ pc'[q] = "aborted" <=> pc[q] = "aborted"
  BY <1>1
<1>3. \A q \in Processes : /\ pc'[q] \in Ended <=> pc[q] \in Ended
  BY <1>2 DEF Ended
<1> QED
  BY <1>1, <1>2, <1>3 DEF Chain

LEMMA ChainStep == Chain /\ [Next]_vars => Chain'
<1> SUFFICES ASSUME Chain, [Next]_vars PROVE Chain'
  OBVIOUS
<1>1. CASE UNCHANGED vars
  BY <1>1 DEF Chain, vars
<1>2. CASE Next
  <2> PICK p \in Processes : Step(p)
    BY <1>2 DEF Next
  <2>n. nopipe \in 0 .. PipeFailures /\ pc \in [Processes -> Phases]
    BY DEF Chain
  <2>1. CASE NextNumber(p)
    <3> USE <2>n, <2>1 DEF NextNumber, Phases, HasChild
    <3>1. CASE main[p].i < target
      BY <3>1, ChainStays
    <3>2. CASE ~ (main[p].i < target)
      BY <3>2, ChainStays
    <3> QED
      BY <3>1, <3>2
  <2>2. CASE NextMultiple(p)
    <3> USE <2>n, <2>2 DEF NextMultiple, Phases, HasChild
    <3>1. CASE Number(p) >= target
      BY <3>1, ChainStays
    <3>2. CASE ~ (Number(p) >= target)
      <4>1. pc' = [pc EXCEPT ![p] = "multiples"]
        BY <3>2 DEF Chain
      <4> QED
        BY <4>1, ChainStays
    <3> QED
      BY <3>1, <3>2
  <2>3. CASE Factor(p)
    BY <2>n, <2>3, ChainStays DEF Factor, AtListed, Phases, HasChild
  <2>4. CASE Report(p)
    <3>1. /\ pc[p] = "report"
          /\ pc' = [pc EXCEPT ![p] = "exited"]
          /\ \E v : output' = Append(output, v)
          /\ nopipe' = nopipe
      BY <2>4 DEF Report
    <3>2. /\ \A q \in Processes : q < p => pc[q] \in HasChild \cup Ended
          /\ \A q \in Processes : q > p => pc[q] = "none"
          /\ \A q \in Processes : pc[q] = "exited" => q + 1 # p
      BY <3>1 DEF Chain, Processes, HasChild, Ended
    <3>3. output = <<>>
      BY <3>1 DEF Chain, HasChild, Ended
    <3>4. \E v : output' = <<v>>
      BY <3>1, <3>3
    <3>5. output' # <<>>
      BY <3>4
    <3>6. pc' \in [Processes -> Phases] /\ pc'[p] = "exited"
          /\ \A q \in Processes \ {p} : pc'[q] = pc[q]
      BY <3>1, <2>n DEF Phases
    <3>7. \A q \in Processes : q = p \/ q < p \/ q > p
      BY DEF Processes
    <3>8. \A q \in Processes : pc'[q] \in HasChild \cup Ended \cup {"none"}
      BY <3>2, <3>6, <3>7 DEF Ended
    <3>9. \A q \in Processes : pc'[q] \in HasChild => q + 1 \in Processes /\ pc'[q + 1] # "none"
      BY <3>6 DEF Chain, HasChild
    <3>10. \A q, r \in Processes : q < r =>
             /\ pc'[q] = "none" => pc'[r] = "none"
             /\ pc'[r] # "none" => pc'[q] \in HasChild \cup Ended
      BY <3>1, <3>2, <3>6 DEF Chain, Ended
    <3>11. \A q \in Processes :
             pc'[q] = "exited" /\ q + 1 \in Processes => pc'[q + 1] \in Ended \cup {"none"}
      BY <3>2, <3>6 DEF Chain, Processes
    <3> QED
      BY <2>n, <3>1, <3>4, <3>5, <3>6, <3>8, <3>9, <3>10, <3>11 DEF Chain
  <2>5. CASE make_stage(p)
    <3>1. /\ pc[p] = "multiples"
          /\ p + 1 \in Processes
          /\ pc' = [pc EXCEPT ![p] = "take", ![p + 1] = "child"]
          /\ output' = output
          /\ nopipe' \in 0 .. PipeFailures
      BY <2>5, PipeCounted DEF make_stage, AtListed
    <3>2. \A q \in Processes : q > p => pc[q] = "none"
      BY <3>1 DEF Chain, Processes, HasChild, Ended
    <3>3. /\ pc' \in [Processes -> Phases] /\ pc'[p] = "take" /\ pc'[p + 1] = "child"
          /\ \A q \in Processes \ {p, p + 1} : pc'[q] = pc[q]
      BY <3>1, <2>n DEF Phases, Processes
    <3>4. output = <<>> /\ \A q \in Processes : pc[q] = "exited" => q + 1 # p
      BY <3>1 DEF Chain, HasChild, Ended
    <3>5. pc[p + 1] = "none"
      BY <3>1, <3>2 DEF Processes
    <3>6. \A q \in Processes : pc'[q] \in HasChild => q + 1 \in Processes /\ pc'[q + 1] # "none"
      BY <3>1, <3>3, <3>5 DEF Chain, Processes, HasChild
    <3>7. \A q, r \in Processes : q < r =>
            /\ pc'[q] = "none" => pc'[r] = "none"
            /\ pc'[r] # "none" => pc'[q] \in HasChild \cup Ended
      BY <3>1, <3>2, <3>3 DEF Chain, Processes, HasChild
    <3>8. \A q \in Processes :
            pc'[q] = "exited" /\ q + 1 \in Processes => pc'[q + 1] \in Ended \cup {"none"}
      BY <3>1, <3>3, <3>4 DEF Chain, Processes, Ended, HasChild
    <3>9. \A q \in Processes :
            pc'[q] = "exited" => output' # <<>> \/ \E r \in Processes : pc'[r] = "aborted"
      <4>1. \A q \in Processes : /\ pc'[q] = "exited" => pc[q] = "exited"
                                /\ pc[q] = "aborted" => pc'[q] = "aborted"
        BY <3>1, <3>3, <3>5
      <4> QED
        BY <3>1, <4>1 DEF Chain
    <3> QED
      BY <3>1, <3>3, <3>4, <3>6, <3>7, <3>8, <3>9 DEF Chain
  <2>6. CASE ForkFails(p)
    <3>1. nopipe' \in 0 .. PipeFailures
      BY <2>6, PipeCounted DEF ForkFails
    <3> QED
      BY <2>6, <3>1, ChainStays DEF ForkFails, AtListed, Phases, HasChild
  <2>7. CASE Take(p)
    BY <2>n, <2>7, ChainStays DEF Take, Phases, HasChild
  <2>8. CASE Pass(p)
    BY <2>n, <2>8, ChainStays DEF Pass, Phases, HasChild
  <2>9. CASE FilterRead(p)
    BY <2>n, <2>9, ChainStays DEF FilterRead, Phases, HasChild
  <2>10. CASE FilterWrite(p)
    BY <2>n, <2>10, ChainStays DEF FilterWrite, Phases, HasChild
  <2>a. CASE FreeAborts(p)
    <3>1. /\ pc[p] = "close" /\ pc' = [pc EXCEPT ![p] = "aborted"]
          /\ output' = output /\ nopipe' = nopipe
      BY <2>a DEF FreeAborts
    <3>2. /\ pc' \in [Processes -> Phases] /\ pc'[p] = "aborted"
          /\ \A q \in Processes \ {p} : pc'[q] = pc[q]
      BY <3>1, <2>n DEF Phases
    <3>3. \A q \in Processes : pc'[q] \in HasChild => q + 1 \in Processes /\ pc'[q + 1] # "none"
      BY <3>1, <3>2 DEF Chain, HasChild
    <3>4. \A q, r \in Processes : q < r =>
            /\ pc'[q] = "none" => pc'[r] = "none"
            /\ pc'[r] # "none" => pc'[q] \in HasChild \cup Ended
      BY <3>1, <3>2 DEF Chain, HasChild, Ended
    <3>5. \A q \in Processes :
            pc'[q] = "exited" /\ q + 1 \in Processes => pc'[q + 1] \in Ended \cup {"none"}
      BY <3>1, <3>2 DEF Chain, Ended
    <3>6. \/ output' = <<>>
          \/ /\ \E v : output' = <<v>>
             /\ \A q \in Processes : pc'[q] \in HasChild \cup Ended \cup {"none"}
      BY <3>1, <3>2 DEF Chain, Ended
    <3> QED
      BY <2>n, <3>1, <3>2, <3>3, <3>4, <3>5, <3>6 DEF Chain
  <2>11. CASE CloseAll(p)
    BY <2>n, <2>11, ChainStays DEF CloseAll, Phases, HasChild
  <2>12. CASE WaitForChild(p)
    <3>1. /\ pc[p] = "wait" /\ pc[p + 1] \in Ended /\ pc' = [pc EXCEPT ![p] = "exited"]
          /\ output' = output /\ nopipe' = nopipe /\ p + 1 \in Processes
      BY <2>12 DEF WaitForChild, Chain, HasChild, Ended
    <3>2. /\ pc' \in [Processes -> Phases] /\ pc'[p] = "exited"
          /\ \A q \in Processes \ {p} : pc'[q] = pc[q]
      BY <3>1, <2>n DEF Phases
    <3>3. \A q \in Processes : pc'[q] \in HasChild => q + 1 \in Processes /\ pc'[q + 1] # "none"
      BY <3>1, <3>2 DEF Chain, HasChild
    <3>4. \A q, r \in Processes : q < r =>
            /\ pc'[q] = "none" => pc'[r] = "none"
            /\ pc'[r] # "none" => pc'[q] \in HasChild \cup Ended
      BY <3>1, <3>2 DEF Chain, HasChild, Ended
    <3>5. \A q \in Processes :
            pc'[q] = "exited" /\ q + 1 \in Processes => pc'[q + 1] \in Ended \cup {"none"}
      <4>1. p + 1 # p
        BY DEF Processes
      <4> QED
        BY <3>1, <3>2, <4>1 DEF Chain, Ended
    <3>6. \/ output' = <<>>
          \/ /\ \E v : output' = <<v>>
             /\ \A q \in Processes : pc'[q] \in HasChild \cup Ended \cup {"none"}
      BY <3>1, <3>2 DEF Chain, Ended
    <3>7. \A q \in Processes :
            pc'[q] = "exited" => output' # <<>> \/ \E r \in Processes : pc'[r] = "aborted"
      <4>1. output # <<>> \/ \E r \in Processes : pc[r] = "aborted"
        BY <3>1 DEF Chain, Ended
      <4>2. \A r \in Processes : pc[r] = "aborted" => pc'[r] = "aborted"
        BY <3>1, <3>2
      <4> QED
        BY <3>1, <4>1, <4>2
    <3> QED
      BY <2>n, <3>1, <3>2, <3>3, <3>4, <3>5, <3>6, <3>7 DEF Chain
  <2>13. CASE ChildCloses(p)
    BY <2>n, <2>13, ChainStays DEF ChildCloses, Phases, HasChild
  <2>14. CASE Get(p)
    BY <2>n, <2>14, ChainStays DEF Get, Phases, HasChild
  <2>15. CASE Put(p)
    BY <2>n, <2>15, ChainStays DEF Put, Phases, HasChild
  <2> QED
    BY <2>1, <2>2, <2>3, <2>4, <2>5, <2>6, <2>7, <2>8, <2>9, <2>10, <2>a, <2>11, <2>12,
       <2>13, <2>14, <2>15 DEF Step
<1> QED
  BY <1>1, <1>2

(* The shape of the chain, for any number and any limit of processes. *)
THEOREM ChainInvariant == Spec => []Chain
<1> QED
  BY ChainInit, ChainStep, PTL DEF Spec

(* One verdict at most is printed, by one of the copies of main. *)
THEOREM OneReports == Spec => []OneVerdict
<1>1. ASSUME Chain PROVE OneVerdict
  <2>1. CASE output = <<>>
    <3>1. Len(<<>>) = 0
      OBVIOUS
    <3> QED
      BY <2>1, <3>1 DEF OneVerdict
  <2>2. CASE output # <<>>
    <3>1. PICK v : output = <<v>>
      BY <1>1, <2>2 DEF Chain
    <3>2. Len(<<v>>) = 1
      OBVIOUS
    <3> QED
      BY <3>1, <3>2 DEF OneVerdict
  <2> QED
    BY <2>1, <2>2
<1> QED
  BY <1>1, ChainInvariant, PTL

(* No process that exits leaves a child. *)
THEOREM NoOrphans == Spec => []ParentsOutlive
<1>1. Chain => ParentsOutlive
  BY DEF Chain, ParentsOutlive, Ended
<1> QED
  BY <1>1, ChainInvariant, PTL

--------------------------------------------------------------------------------
(* Descriptors. *)

(* Where a process is not yet, or has closed its pipe or ended. *)
Closing == {"none", "wait", "exited", "aborted"}

(* Whoever holds an end of a pipe holds the end to write to, until it closes its own
   pipe to wait: number 3, the only one that a child closes, is never such an end, since
   pipe() gives the lower of its two numbers to the end to read from. *)
Descriptors ==
  /\ fd \in [Processes -> [Fds -> Ends \cup {NULL}]]
  /\ fds2 \in [Processes -> Fds \X Fds]
  /\ \A p \in Processes : fd[p][3] # NULL => fd[p][3].end = "read"
  /\ \A p \in Processes : pc[p] \notin Closing =>
       \A f \in Fds : fd[p][f] # NULL =>
         \E g \in Fds : fd[p][g] = WriteEnd(fd[p][f].pipe)

LEMMA DescriptorsInit == Init => Descriptors
<1> SUFFICES ASSUME Init PROVE Descriptors
  OBVIOUS
<1>1. /\ 3 \in Fds /\ 4 \in Fds /\ 5 \in Fds /\ 6 \in Fds
      /\ 0 \in Pipes /\ 1 \in Pipes
  BY PfactAssumption DEF Fds, Pipes
<1>2. /\ ReadEnd(0) \in Ends /\ WriteEnd(0) \in Ends
      /\ ReadEnd(1) \in Ends /\ WriteEnd(1) \in Ends
  BY <1>1 DEF ReadEnd, WriteEnd, Ends
<1>3. fd \in [Processes -> [Fds -> Ends \cup {NULL}]]
  BY <1>2 DEF Init
<1>4. fds2 \in [Processes -> Fds \X Fds]
  BY <1>1 DEF Init
<1>5. \A p \in Processes : fd[p][3] # NULL => fd[p][3].end = "read"
  BY <1>1 DEF Init, ReadEnd
<1>6. ASSUME NEW p \in Processes, NEW f \in Fds, fd[p][f] # NULL
      PROVE  \E g \in Fds : fd[p][g] = WriteEnd(fd[p][f].pipe)
  <2>1. p = 1 /\ f \in {3, 4, 5, 6}
    BY <1>6 DEF Init
  <2>2. fd[1][4] = WriteEnd(0) /\ fd[1][6] = WriteEnd(1)
    BY <1>1, <2>1 DEF Init
  <2>3. CASE f \in {3, 4}
    <3>1. fd[p][f].pipe = 0
      BY <1>1, <2>1, <2>3 DEF Init, ReadEnd, WriteEnd
    <3> QED
      BY <1>1, <2>1, <2>2, <3>1
  <2>4. CASE f \in {5, 6}
    <3>1. fd[p][f].pipe = 1
      BY <1>1, <2>1, <2>4 DEF Init, ReadEnd, WriteEnd
    <3> QED
      BY <1>1, <2>1, <2>2, <3>1
  <2> QED
    BY <2>1, <2>3, <2>4
<1> QED
  BY <1>3, <1>4, <1>5, <1>6 DEF Descriptors

(* What pipe() returns: two numbers that were free, the lower one first. *)
LEMMA NewPipeIsFree ==
  ASSUME NEW p \in Processes, RoomForPipe(p)
  PROVE  /\ NewPipe(p)[1] \in Fds /\ NewPipe(p)[2] \in Fds
         /\ NewPipe(p) = <<NewPipe(p)[1], NewPipe(p)[2]>>
         /\ fd[p][NewPipe(p)[1]] = NULL /\ fd[p][NewPipe(p)[2]] = NULL
         /\ NewPipe(p)[1] < NewPipe(p)[2]
         /\ \A f \in FreeFds(p) : NewPipe(p)[1] =< f
<1> DEFINE free == FreeFds(p)
           r == Min(free)
           w == Min(free \ {r})
<1>1. free \in SUBSET Nat /\ free \in SUBSET Fds
  BY PfactAssumption DEF FreeFds, Fds
<1>2. \E a \in free, b \in free : a # b
  <2> SUFFICES ASSUME \A a \in free, b \in free : a = b PROVE FALSE
    OBVIOUS
  <2>1. free = {} \/ \E a \in free : free = {a}
    OBVIOUS
  <2>2. Cardinality(free) = 0 \/ Cardinality(free) = 1
    BY <2>1, FS_EmptySet, FS_Singleton
  <2> QED
    BY <2>2 DEF RoomForPipe
<1>3. r \in free /\ \A y \in free : r =< y
  BY <1>1, <1>2, MinBelongs, MinIsLeast
<1>4. free \ {r} # {} /\ free \ {r} \in SUBSET Nat
  BY <1>1, <1>2
<1>5. w \in free \ {r}
  BY <1>4, MinBelongs
<1>6. r < w
  BY <1>1, <1>3, <1>5
<1>7. NewPipe(p) = <<r, w>>
  BY DEF NewPipe
<1> HIDE DEF r, w
<1>8. NewPipe(p)[1] = r /\ NewPipe(p)[2] = w
  BY <1>7
<1> QED
  BY <1>1, <1>3, <1>5, <1>6, <1>7, <1>8 DEF FreeFds

(* A new pipe leaves a process with both ends of everything that it had both ends of. *)
LEMMA PipeKeepsDescriptors ==
  ASSUME Descriptors, NEW p \in Processes, RoomForPipe(p),
         pc[p] \notin Closing
  PROVE  /\ WithPipe(p) \in [Fds -> Ends \cup {NULL}]
         /\ WithPipe(p)[3] # NULL => WithPipe(p)[3].end = "read"
         /\ \A f \in Fds : WithPipe(p)[f] # NULL =>
              \E g \in Fds : WithPipe(p)[g] = WriteEnd(WithPipe(p)[f].pipe)
<1> DEFINE r == NewPipe(p)[1]
           w == NewPipe(p)[2]
<1>1. r \in Fds /\ w \in Fds /\ fd[p][r] = NULL /\ fd[p][w] = NULL /\ r < w
  BY NewPipeIsFree
<1>2. WithPipe(p) = [fd[p] EXCEPT ![r] = ReadEnd(p + 1), ![w] = WriteEnd(p + 1)]
  BY DEF WithPipe
<1> HIDE DEF r, w
<1>3. p + 1 \in Pipes
  BY PfactAssumption DEF Processes, Pipes
<1>4. ReadEnd(p + 1) \in Ends /\ WriteEnd(p + 1) \in Ends
  BY <1>3 DEF ReadEnd, WriteEnd, Ends
<1>5. /\ ReadEnd(p + 1).pipe = p + 1 /\ WriteEnd(p + 1).pipe = p + 1
      /\ ReadEnd(p + 1).end = "read"
  BY DEF ReadEnd, WriteEnd
<1>6. fd[p] \in [Fds -> Ends \cup {NULL}]
  BY DEF Descriptors
<1>7. 3 \in Fds /\ w # 3 /\ r # w
  BY <1>1, PfactAssumption DEF Fds
<1>8. /\ WithPipe(p)[r] = ReadEnd(p + 1) /\ WithPipe(p)[w] = WriteEnd(p + 1)
      /\ \A f \in Fds \ {r, w} : WithPipe(p)[f] = fd[p][f]
  BY <1>1, <1>2, <1>6, <1>7
<1>9. WithPipe(p) \in [Fds -> Ends \cup {NULL}]
  BY <1>2, <1>4, <1>6
<1>10. WithPipe(p)[3] # NULL => WithPipe(p)[3].end = "read"
  BY <1>5, <1>7, <1>8 DEF Descriptors
<1>11. ASSUME NEW f \in Fds, WithPipe(p)[f] # NULL
       PROVE  \E g \in Fds : WithPipe(p)[g] = WriteEnd(WithPipe(p)[f].pipe)
  <2>1. CASE f \in {r, w}
    BY <1>1, <1>5, <1>8, <2>1
  <2>2. CASE f \notin {r, w}
    <3>1. fd[p][f] # NULL /\ WithPipe(p)[f] = fd[p][f]
      BY <1>8, <1>11, <2>2
    <3>2. PICK g \in Fds : fd[p][g] = WriteEnd(fd[p][f].pipe)
      BY <3>1 DEF Descriptors
    <3>3. fd[p][g] # NULL
      BY <3>2, PfactAssumption, <3>1, <1>6 DEF WriteEnd, Ends, Pipes
    <3>4. WithPipe(p)[g] = fd[p][g]
      BY <1>1, <1>8, <3>3
    <3> QED
      BY <3>1, <3>2, <3>4
  <2> QED
    BY <2>1, <2>2
<1> QED
  BY <1>9, <1>10, <1>11

(* Nor does one that could not be made. *)
LEMMA StageKeepsDescriptors ==
  ASSUME Descriptors, NEW p \in Processes, NEW made \in BOOLEAN, PipeMade(p, made),
         pc[p] \notin Closing
  PROVE  /\ StageFds(p, made) \in Fds \X Fds
         /\ StageEnds(p, made) \in [Fds -> Ends \cup {NULL}]
         /\ StageEnds(p, made)[3] # NULL => StageEnds(p, made)[3].end = "read"
         /\ \A f \in Fds : StageEnds(p, made)[f] # NULL =>
              \E g \in Fds : StageEnds(p, made)[g] = WriteEnd(StageEnds(p, made)[f].pipe)
<1>1. CASE made
  <2>1. RoomForPipe(p) /\ StageFds(p, made) = NewPipe(p) /\ StageEnds(p, made) = WithPipe(p)
    BY <1>1 DEF PipeMade, StageFds, StageEnds
  <2>2. NewPipe(p) \in Fds \X Fds
    BY <2>1, NewPipeIsFree
  <2> QED
    BY <2>1, <2>2, PipeKeepsDescriptors
<1>2. CASE ~ made
  <2>1. StageFds(p, made) = fds2[p] /\ StageEnds(p, made) = fd[p]
    BY <1>2 DEF StageFds, StageEnds
  <2> QED
    BY <2>1 DEF Descriptors
<1> QED
  BY <1>1, <1>2

LEMMA DescriptorsStep == Chain /\ Descriptors /\ [Next]_vars => Descriptors'
<1> SUFFICES ASSUME Chain, Descriptors, [Next]_vars PROVE Descriptors'
  OBVIOUS
<1>1. CASE UNCHANGED vars
  BY <1>1 DEF Descriptors, vars
<1>2. CASE Next
  <2> PICK p \in Processes : Step(p)
    BY <1>2 DEF Next
  <2>t. pc \in [Processes -> Phases]
    BY DEF Chain
  <2>3. 3 \in Fds
    BY PfactAssumption DEF Fds
  (* A step that leaves the descriptors alone. *)
  <2>m. ASSUME fd' = fd, fds2' = fds2, NEW to \in Phases, pc' = [pc EXCEPT ![p] = to],
               pc[p] \notin Closing \/ to \in Closing
        PROVE  Descriptors'
    BY <2>m, <2>t DEF Descriptors
  <2>1. CASE NextNumber(p) \/ NextMultiple(p) \/ Factor(p) \/ Report(p)
    <3>1. /\ fd' = fd /\ fds2' = fds2 /\ pc[p] \in {"numbers", "multiples", "report"}
          /\ \E to \in Phases : pc' = [pc EXCEPT ![p] = to]
      BY <2>1, <2>t DEF NextNumber, NextMultiple, Factor, AtListed, Report, Phases
    <3> QED
      BY <3>1, <2>m DEF Closing
  <2>2. CASE Take(p) \/ Pass(p) \/ FilterRead(p) \/ FilterWrite(p) \/ FreeAborts(p)
             \/ WaitForChild(p) \/ Get(p) \/ Put(p)
    <3>1. /\ fd' = fd /\ fds2' = fds2
          /\ \E to \in Phases : /\ pc' = [pc EXCEPT ![p] = to]
                              /\ \/ pc[p] \notin Closing
                                 \/ to \in Closing
      BY <2>2 DEF Take, Pass, FilterRead, FilterWrite, FreeAborts, WaitForChild, Get, Put, Phases,
             Closing
    <3> QED
      BY <3>1, <2>m
  <2>4. CASE make_stage(p)
    <3> PICK made \in BOOLEAN :
           /\ PipeMade(p, made)
           /\ fds2' = [fds2 EXCEPT ![p] = StageFds(p, made), ![p + 1] = StageFds(p, made)]
           /\ fd' = [fd EXCEPT ![p] = StageEnds(p, made), ![p + 1] = StageEnds(p, made)]
      BY <2>4 DEF make_stage
    <3> DEFINE fds == StageFds(p, made)
               ends == StageEnds(p, made)
    <3>1. /\ pc[p] = "multiples" /\ p + 1 \in Processes
          /\ fds2' = [fds2 EXCEPT ![p] = fds, ![p + 1] = fds]
          /\ fd' = [fd EXCEPT ![p] = ends, ![p + 1] = ends]
          /\ pc' = [pc EXCEPT ![p] = "take", ![p + 1] = "child"]
      BY <2>4 DEF make_stage, AtListed
    <3>2. fds \in Fds \X Fds
      BY <3>1, StageKeepsDescriptors DEF Closing
    <3>3. /\ ends \in [Fds -> Ends \cup {NULL}]
          /\ ends[3] # NULL => ends[3].end = "read"
          /\ \A f \in Fds : ends[f] # NULL => \E g \in Fds : ends[g] = WriteEnd(ends[f].pipe)
      BY <3>1, StageKeepsDescriptors DEF Closing
    <3> HIDE DEF fds, ends
    <3>4. /\ fd' \in [Processes -> [Fds -> Ends \cup {NULL}]]
          /\ fds2' \in [Processes -> Fds \X Fds]
      <4>1. fds2' \in [Processes -> Fds \X Fds]
        BY <3>1, <3>2 DEF Descriptors
      <4>2. fd' \in [Processes -> [Fds -> Ends \cup {NULL}]]
        BY <3>1, <3>3 DEF Descriptors
      <4> QED
        BY <4>1, <4>2
    <3>5. /\ fd'[p] = ends /\ fd'[p + 1] = ends
          /\ \A q \in Processes \ {p, p + 1} : fd'[q] = fd[q] /\ pc'[q] = pc[q]
      BY <3>1, <2>t DEF Descriptors
    <3>6. \A q \in Processes : fd'[q][3] # NULL => fd'[q][3].end = "read"
      BY <3>3, <3>5 DEF Descriptors
    <3>7. \A q \in Processes : pc'[q] \notin Closing =>
            \A f \in Fds : fd'[q][f] # NULL =>
              \E g \in Fds : fd'[q][g] = WriteEnd(fd'[q][f].pipe)
      BY <3>1, <3>3, <3>5 DEF Descriptors, Closing
    <3> QED
      BY <3>4, <3>6, <3>7 DEF Descriptors, WriteEnd
  <2>5. CASE ForkFails(p)
    <3> PICK made \in BOOLEAN :
           /\ PipeMade(p, made)
           /\ fds2' = [fds2 EXCEPT ![p] = StageFds(p, made)]
           /\ fd' = [fd EXCEPT ![p] = StageEnds(p, made)]
      BY <2>5 DEF ForkFails
    <3> DEFINE fds == StageFds(p, made)
               ends == StageEnds(p, made)
    <3>1. /\ pc[p] = "multiples"
          /\ fds2' = [fds2 EXCEPT ![p] = fds]
          /\ fd' = [fd EXCEPT ![p] = ends]
          /\ pc' = [pc EXCEPT ![p] = "child"]
      BY <2>5 DEF ForkFails, AtListed
    <3>2. fds \in Fds \X Fds
      BY <3>1, StageKeepsDescriptors DEF Closing
    <3>3. /\ ends \in [Fds -> Ends \cup {NULL}]
          /\ ends[3] # NULL => ends[3].end = "read"
          /\ \A f \in Fds : ends[f] # NULL => \E g \in Fds : ends[g] = WriteEnd(ends[f].pipe)
      BY <3>1, StageKeepsDescriptors DEF Closing
    <3> HIDE DEF fds, ends
    <3>4. /\ fd' \in [Processes -> [Fds -> Ends \cup {NULL}]]
          /\ fds2' \in [Processes -> Fds \X Fds]
      <4>1. fds2' \in [Processes -> Fds \X Fds]
        BY <3>1, <3>2 DEF Descriptors
      <4>2. fd' \in [Processes -> [Fds -> Ends \cup {NULL}]]
        BY <3>1, <3>3 DEF Descriptors
      <4> QED
        BY <4>1, <4>2
    <3>5. /\ fd'[p] = ends
          /\ \A q \in Processes \ {p} : fd'[q] = fd[q] /\ pc'[q] = pc[q]
      BY <3>1, <2>t DEF Descriptors
    <3>6. \A q \in Processes : fd'[q][3] # NULL => fd'[q][3].end = "read"
      BY <3>3, <3>5 DEF Descriptors
    <3>7. \A q \in Processes : pc'[q] \notin Closing =>
            \A f \in Fds : fd'[q][f] # NULL =>
              \E g \in Fds : fd'[q][g] = WriteEnd(fd'[q][f].pipe)
      BY <3>1, <3>3, <3>5 DEF Descriptors, Closing
    <3> QED
      BY <3>4, <3>6, <3>7 DEF Descriptors, WriteEnd
  <2>6. CASE CloseAll(p)
    <3> DEFINE c == Closed(p, {fds2[p][1], fds2[p][2], fd1[1]})
    <3>1. /\ fd' = [fd EXCEPT ![p] = c] /\ fds2' = fds2
          /\ pc' = [pc EXCEPT ![p] = "wait"]
      BY <2>6 DEF CloseAll
    <3>2. c \in [Fds -> Ends \cup {NULL}] /\ c[3] = NULL
      BY <2>3 DEF Closed, Descriptors, fd1
    <3> HIDE DEF c
    <3> QED
      BY <3>1, <3>2, <2>t DEF Descriptors, Closing
  <2>7. CASE ChildCloses(p)
    <3> DEFINE c == Closed(p, {fd1[1]})
    <3>1. /\ fd' = [fd EXCEPT ![p] = c] /\ fds2' = fds2
          /\ pc' = [pc EXCEPT ![p] = "get"] /\ pc[p] = "child"
      BY <2>7 DEF ChildCloses
    <3>2. /\ c \in [Fds -> Ends \cup {NULL}] /\ c[3] = NULL
          /\ \A f \in Fds \ {3} : c[f] = fd[p][f]
      BY <2>3 DEF Closed, Descriptors, fd1
    <3> HIDE DEF c
    <3>3. ASSUME NEW f \in Fds, c[f] # NULL
          PROVE  \E g \in Fds : c[g] = WriteEnd(c[f].pipe)
      <4>1. f # 3 /\ fd[p][f] = c[f]
        BY <3>2, <3>3
      <4>2. PICK g \in Fds : fd[p][g] = WriteEnd(fd[p][f].pipe)
        BY <3>1, <3>3, <4>1 DEF Descriptors, Closing
      <4>3. fd[p][f].pipe \in Nat
        BY <3>3, <4>1, PfactAssumption DEF Descriptors, Ends, Pipes
      <4>4. fd[p][g] # NULL
        BY <4>2, <4>3, PfactAssumption DEF WriteEnd
      <4>5. fd[p][g].end = "write"
        BY <4>2 DEF WriteEnd
      <4>6. g # 3
        BY <4>4, <4>5 DEF Descriptors
      <4> QED
        BY <3>2, <4>1, <4>2, <4>6
    <3>4. /\ fd'[p] = c
          /\ \A q \in Processes \ {p} : fd'[q] = fd[q] /\ pc'[q] = pc[q]
      BY <3>1, <2>t DEF Descriptors
    <3>5. /\ fd' \in [Processes -> [Fds -> Ends \cup {NULL}]]
          /\ fds2' \in [Processes -> Fds \X Fds]
      BY <3>1, <3>2 DEF Descriptors
    <3>6. \A q \in Processes : fd'[q][3] # NULL => fd'[q][3].end = "read"
      BY <3>2, <3>4 DEF Descriptors
    <3>7. \A q \in Processes : pc'[q] \notin Closing =>
            \A f \in Fds : fd'[q][f] # NULL =>
              \E g \in Fds : fd'[q][g] = WriteEnd(fd'[q][f].pipe)
      BY <3>3, <3>4 DEF Descriptors, Closing
    <3> QED
      BY <3>5, <3>6, <3>7 DEF Descriptors, WriteEnd
  <2> QED
    BY <2>1, <2>2, <2>4, <2>5, <2>6, <2>7 DEF Step
<1> QED
  BY <1>1, <1>2

(* No stage waits in a read for a list that only others could write, nor meets the end
   of a stream: it holds the other end itself, wherever the numbers of closed
   descriptors have gone. *)
THEOREM ReadersAlwaysHoldWriters == Spec => []ReadersHoldWriters
<1>1. Descriptors => ReadersHoldWriters
  <2>1. fd1[1] \in Fds
    BY PfactAssumption DEF fd1, Fds
  <2>2. Descriptors => \A p \in Processes : fds2[p][1] \in Fds
    BY DEF Descriptors
  <2> SUFFICES ASSUME Descriptors, NEW p \in Processes, pc[p] \in {"take", "filter", "get"},
                      NEW f \in Fds, fd[p][f] # NULL
               PROVE  Holds(p, WriteEnd(fd[p][f].pipe))
    BY <2>1, <2>2 DEF ReadersHoldWriters
  <2> QED
    BY DEF Descriptors, Holds, Closing
<1>2. Spec => []Descriptors
  BY ChainInvariant, DescriptorsInit, DescriptorsStep, PTL DEF Spec
<1> QED
  BY <1>1, <1>2, PTL

--------------------------------------------------------------------------------
(* The way of the lists. *)

(* While nothing has been written to the pipe that a process makes, or did not make. *)
Unfed == {"none", "numbers", "multiples", "report", "take", "pass", "child", "get", "put"}

(* Where a child is that has closed number 3. *)
Alone == {"numbers", "multiples", "report", "get", "put"}

(* If all the pipes were made: only the first process takes a list.  Its children find
   number 3 free, are given it again to read from their own pipe, and nobody writes
   there before they do.  And nobody writes to the first process if its fork failed. *)
Flowing ==
  /\ queue = [q \in Pipes |-> queue[q]]
  /\ \A p \in Processes : pc[p] \notin Closing => fd[p][4] = WriteEnd(0)
  /\ \A p \in Processes :
       pc[p] \in HasChild \ {"wait"} => fd[p][fds2[p][2]] = WriteEnd(p + 1)
  /\ \A p \in Processes : pc[p] \in Unfed => queue[p + 1] = <<>>
  /\ pc[1] # "put"
  /\ pc[1] \notin Closing \cup {"get"} => fd[1][3] = ReadEnd(0)
  /\ pc[1] \in (HasChild \ {"wait"}) \cup {"child", "get"} =>
       fds2[1][1] # 3 /\ fd[1][fds2[1][1]] = ReadEnd(2)
  /\ \A p \in Processes \ {1} :
       /\ pc[p] \notin {"pass", "filter", "strike", "close", "wait", "aborted"}
       /\ pc[p] \in Alone => fd[p][3] = NULL
       /\ pc[p] = "take" => fd[p][3] = ReadEnd(p + 1)

Flow == nopipe = 0 => Flowing

LEMMA FlowInit == Init => Flow
<1> SUFFICES ASSUME Init PROVE Flowing
  BY DEF Flow
<1>1. 3 \in Fds /\ 4 \in Fds /\ 1 \in Processes
  BY PfactAssumption DEF Fds, Processes
<1>2. pc[1] = "numbers" /\ \A p \in Processes \ {1} : pc[p] = "none"
  BY <1>1 DEF Init
<1>3. fd[1][3] = ReadEnd(0) /\ fd[1][4] = WriteEnd(0)
  BY <1>1 DEF Init
<1>4. \A q \in Pipes : q # 0 => queue[q] = <<>>
  BY DEF Init
<1>5. \A p \in Processes : p + 1 \in Pipes /\ p + 1 # 0
  BY PfactAssumption DEF Processes, Pipes
<1>6. queue = [q \in Pipes |-> queue[q]]
  BY DEF Init
<1> QED
  BY <1>2, <1>3, <1>4, <1>5, <1>6 DEF Flowing, Closing, HasChild, Unfed, Alone

(* An end of a pipe is no NULL, and tells its pipe. *)
LEMMA EndOfPipe ==
  ASSUME NEW q \in Nat
  PROVE  /\ ReadEnd(q) # NULL /\ ReadEnd(q).pipe = q /\ ReadEnd(q).end = "read"
         /\ WriteEnd(q) # NULL /\ WriteEnd(q).pipe = q /\ WriteEnd(q).end = "write"
BY PfactAssumption DEF ReadEnd, WriteEnd

(* A pipe takes free numbers, number 3 to read from if that is free. *)
LEMMA EndsOfNewPipe ==
  ASSUME Descriptors, NEW p \in Processes, RoomForPipe(p)
  PROVE  /\ WithPipe(p)[NewPipe(p)[1]] = ReadEnd(p + 1)
         /\ WithPipe(p)[NewPipe(p)[2]] = WriteEnd(p + 1)
         /\ \A f \in Fds : fd[p][f] # NULL => WithPipe(p)[f] = fd[p][f]
         /\ fd[p][NewPipe(p)[1]] = NULL
         /\ fd[p][3] = NULL => NewPipe(p)[1] = 3
<1> DEFINE r == NewPipe(p)[1]
           w == NewPipe(p)[2]
<1>1. /\ r \in Fds /\ w \in Fds /\ fd[p][r] = NULL /\ fd[p][w] = NULL /\ r < w
      /\ \A f \in FreeFds(p) : r =< f
  BY NewPipeIsFree
<1>2. WithPipe(p) = [fd[p] EXCEPT ![r] = ReadEnd(p + 1), ![w] = WriteEnd(p + 1)]
  BY DEF WithPipe
<1> HIDE DEF r, w
<1>3. fd[p] \in [Fds -> Ends \cup {NULL}]
  BY DEF Descriptors
<1>4. r # w /\ 3 \in Fds /\ \A f \in Fds : f >= 3 /\ f \in Nat
  BY <1>1, PfactAssumption DEF Fds
<1>5. /\ WithPipe(p)[r] = ReadEnd(p + 1)
      /\ WithPipe(p)[w] = WriteEnd(p + 1)
      /\ \A f \in Fds : fd[p][f] # NULL => WithPipe(p)[f] = fd[p][f]
  BY <1>1, <1>2, <1>3, <1>4
<1>6. ASSUME fd[p][3] = NULL PROVE r = 3
  <2>1. 3 \in FreeFds(p)
    BY <1>4, <1>6 DEF FreeFds
  <2>2. r =< 3 /\ r >= 3 /\ r \in Nat
    BY <1>1, <1>4, <2>1
  <2> QED
    BY <2>2
<1> QED
  BY <1>1, <1>5, <1>6 DEF r, w

(* What a read does to the pipes, and a write to the pipe behind f. *)
LEMMA ReadAtPipe ==
  ASSUME Flowing, NEW p, NEW f, ReadList(p, f)
  PROVE  /\ queue' = [q \in Pipes |-> queue'[q]]
         /\ \E q \in Pipes : /\ fd[p][f] = ReadEnd(q) /\ queue[q] # <<>>
                            /\ \A u \in Pipes \ {q} : queue'[u] = queue[u]
<1> PICK q \in Pipes : /\ fd[p][f] = ReadEnd(q) /\ queue[q] # <<>>
                       /\ queue' = [queue EXCEPT ![q] = Tail(@)]
  BY DEF ReadList
<1>1. queue = [u \in Pipes |-> queue[u]]
  BY DEF Flowing
<1> QED
  BY <1>1

LEMMA WriteAtPipe ==
  ASSUME Flowing, NEW p, NEW f, NEW x, WriteList(p, f, x),
         NEW q \in Nat, fd[p][f] = WriteEnd(q)
  PROVE  /\ queue' = [u \in Pipes |-> queue'[u]]
         /\ \A u \in Pipes \ {q} : queue'[u] = queue[u]
<1>1. queue = [u \in Pipes |-> queue[u]]
  BY DEF Flowing
<1>2. fd[p][f].pipe = q
  BY EndOfPipe
<1>3. queue' = [queue EXCEPT ![q] = Append(@, x)] \/ queue' = queue
  BY <1>2 DEF WriteList
<1>4. CASE queue' = queue
  BY <1>1, <1>4
<1>5. CASE queue' = [queue EXCEPT ![q] = Append(@, x)]
  BY <1>1, <1>5
<1> QED
  BY <1>3, <1>4, <1>5

(* A step is no pipe that fails, if none has failed after it. *)
LEMMA PipesMade ==
  ASSUME Chain, [Next]_vars, nopipe' = 0
  PROVE  nopipe = 0
<1>1. nopipe \in 0 .. PipeFailures
  BY DEF Chain
<1>2. nopipe' = nopipe \/ \E p \in Processes, made \in BOOLEAN : PipeMade(p, made)
  BY DEF Next, Step, NextNumber, NextMultiple, Factor, Report, make_stage, ForkFails, Take,
     Pass, FilterRead, FilterWrite, FreeAborts, CloseAll, WaitForChild, ChildCloses, Get, Put,
     vars
<1> QED
  BY <1>2, PipeCounted

(* Nothing is read but what was written. *)
LEMMA NoReadFails ==
  ASSUME Flowing, NEW p \in Processes
  PROVE  /\ Take(p) => p = 1 /\ ReadList(p, fd1[1]) /\ fd[1][3] = ReadEnd(0)
         /\ FilterRead(p) => p = 1 /\ ReadList(p, fds2[p][1]) /\ fd[1][fds2[1][1]] = ReadEnd(2)
         /\ Get(p) => p # 1
<1>1. ASSUME Take(p) PROVE p = 1 /\ ReadList(p, fd1[1]) /\ fd[1][3] = ReadEnd(0)
  <2>1. pc[p] = "take" /\ (ReadList(p, 3) \/ ReadFails(p, 3))
    BY <1>1 DEF Take, fd1
  <2>2. p + 1 \in Nat /\ 0 \in Nat
    BY DEF Processes
  <2>3. fd[p][3] = ReadEnd(IF p = 1 THEN 0 ELSE p + 1)
    BY <2>1 DEF Flowing, Closing
  <2>4. fd[p][3] # NULL
    BY <2>2, <2>3, EndOfPipe
  <2>5. ReadList(p, 3)
    BY <2>1, <2>4 DEF ReadFails
  <2>6. PICK q \in Pipes : fd[p][3] = ReadEnd(q) /\ queue[q] # <<>>
    BY <2>5, ReadAtPipe
  <2>7. q \in Nat
    BY DEF Pipes
  <2>8. CASE p # 1
    <3>1. q = p + 1
      BY <2>2, <2>3, <2>6, <2>7, <2>8, EndOfPipe
    <3>2. queue[p + 1] = <<>>
      BY <2>1 DEF Flowing, Unfed
    <3> QED
      BY <2>6, <3>1, <3>2
  <2> QED
    BY <2>3, <2>5, <2>8 DEF fd1
<1>2. ASSUME FilterRead(p)
      PROVE  p = 1 /\ ReadList(p, fds2[p][1]) /\ fd[1][fds2[1][1]] = ReadEnd(2)
  <2>1. /\ pc[p] = "filter"
        /\ ReadList(p, fds2[p][1]) \/ ReadFails(p, fds2[p][1])
    BY <1>2 DEF FilterRead
  <2>2. p = 1
    BY <2>1 DEF Flowing
  <2>3. fd[1][fds2[1][1]] = ReadEnd(2)
    BY <2>1, <2>2 DEF Flowing, HasChild
  <2>4. fd[1][fds2[1][1]] # NULL
    BY <2>3, EndOfPipe
  <2> QED
    BY <2>1, <2>2, <2>3, <2>4 DEF ReadFails
<1>3. ASSUME Get(p), p = 1 PROVE FALSE
  <2>1. pc[1] = "get" /\ (ReadList(1, fds2[1][1]) \/ fd[1][fds2[1][1]] = NULL)
    BY <1>3 DEF Get
  <2>2. fd[1][fds2[1][1]] = ReadEnd(2) /\ queue[2] = <<>>
    <3>1. queue[1 + 1] = <<>>
      BY <2>1, <1>3 DEF Flowing, Unfed
    <3> QED
      BY <2>1, <3>1 DEF Flowing
  <2>3. fd[1][fds2[1][1]] # NULL
    BY <2>2, EndOfPipe
  <2>4. PICK q \in Pipes : fd[1][fds2[1][1]] = ReadEnd(q) /\ queue[q] # <<>>
    BY <2>1, <2>3, ReadAtPipe
  <2>5. q = 2
    BY <2>2, <2>4, EndOfPipe DEF Pipes
  <2> QED
    BY <2>2, <2>4, <2>5
<1> QED
  BY <1>1, <1>2, <1>3

(* A step of p that leaves all the descriptors alone, and moves on. *)
LEMMA FlowMoves ==
  ASSUME Flowing, Chain, NEW p \in Processes, NEW to \in Phases, to # "none", to # "take",
         pc[p] \notin {"none", "exited", "aborted"},
         pc' = [pc EXCEPT ![p] = to], fd' = fd, fds2' = fds2,
         queue' = [q \in Pipes |-> queue'[q]],
         to \notin Closing => pc[p] \notin Closing,
         to \in HasChild \ {"wait"} => pc[p] \in HasChild \ {"wait"},
         to \in Alone => pc[p] \in Alone,
         to \notin {"child", "get"}, p = 1 => to # "put" /\ pc[p] # "get",
         p # 1 => to \notin {"pass", "filter", "strike", "close", "wait", "aborted"},
         \A u \in Processes : pc'[u] \in Unfed => queue'[u + 1] = <<>>
  PROVE  Flowing'
<1>1. /\ pc' \in [Processes -> Phases] /\ pc'[p] = to
      /\ \A u \in Processes \ {p} : pc'[u] = pc[u]
  BY DEF Chain
<1>2. 1 \in Processes
  BY PfactAssumption DEF Processes
<1>3. \A u \in Processes : /\ pc'[u] \notin Closing => pc[u] \notin Closing
                           /\ pc'[u] \in HasChild \ {"wait"} => pc[u] \in HasChild \ {"wait"}
                           /\ pc'[u] \in Alone => pc[u] \in Alone
                           /\ pc'[u] = "take" => pc[u] = "take"
                           /\ pc'[u] \in {"child", "get"} => pc[u] \in {"child", "get"}
  BY <1>1
<1>4. pc'[1] # "put" /\ (pc'[1] \notin Closing \cup {"get"} => pc[1] \notin Closing \cup {"get"})
  <2>1. CASE p = 1
    BY <1>1, <1>2, <1>3, <2>1 DEF Flowing, Alone
  <2>2. CASE p # 1
    BY <1>1, <1>2, <2>2 DEF Flowing
  <2> QED
    BY <2>1, <2>2
<1>5. \A u \in Processes \ {1} :
        pc'[u] \notin {"pass", "filter", "strike", "close", "wait", "aborted"}
  BY <1>1 DEF Flowing
<1> QED
  BY <1>2, <1>3, <1>4, <1>5 DEF Flowing

LEMMA FlowStep == Chain /\ Descriptors /\ Flow /\ [Next]_vars => Flow'
<1> SUFFICES ASSUME Chain, Descriptors, Flow, [Next]_vars, nopipe' = 0 PROVE Flowing'
  BY DEF Flow
<1>f. Flowing
  BY PipesMade DEF Flow
<1>p. 1 \in Processes /\ 0 \in Pipes /\ 3 \in Fds /\ 4 \in Fds
  BY PfactAssumption DEF Processes, Pipes, Fds
<1>q. \A p \in Processes : p + 1 \in Pipes /\ p + 1 # 0 /\ p + 1 \in Nat
  BY PfactAssumption DEF Processes, Pipes
<1>r. queue = [q \in Pipes |-> queue[q]]
  BY <1>f DEF Flowing
<1>1. CASE UNCHANGED vars
  BY <1>1, <1>f DEF Flowing, vars
<1>2. CASE Next
  <2> PICK p \in Processes : Step(p)
    BY <1>2 DEF Next
  <2>t. /\ pc \in [Processes -> Phases] /\ fds2 \in [Processes -> Fds \X Fds]
        /\ fd \in [Processes -> [Fds -> Ends \cup {NULL}]]
    BY DEF Chain, Descriptors
  <2>e. \A u \in Processes : pc[u] \in Unfed => queue[u + 1] = <<>>
    BY <1>f DEF Flowing
  <2>1. CASE NextNumber(p) \/ NextMultiple(p) \/ Factor(p) \/ Report(p)
    <3>1. /\ fd' = fd /\ fds2' = fds2 /\ queue' = queue /\ pc[p] \in {"numbers", "multiples", "report"}
          /\ \E to \in {"numbers", "multiples", "report", "exited"} : pc' = [pc EXCEPT ![p] = to]
      BY <2>1, <2>t DEF NextNumber, NextMultiple, Factor, AtListed, Report
    <3> PICK to \in {"numbers", "multiples", "report", "exited"} : pc' = [pc EXCEPT ![p] = to]
      BY <3>1
    <3>2. \A u \in Processes : pc'[u] \in Unfed => queue'[u + 1] = <<>>
      BY <3>1, <2>e, <2>t DEF Unfed
    <3> QED
      BY <1>f, <1>r, <3>1, <3>2, FlowMoves DEF Phases, Closing, HasChild, Alone
  <2>2. CASE Take(p)
    <3>1. p = 1 /\ ReadList(1, 3) /\ fd[1][3] = ReadEnd(0)
      BY <2>2, <1>f, NoReadFails DEF fd1
    <3>2. PICK q \in Pipes : /\ fd[1][3] = ReadEnd(q)
                            /\ \A u \in Pipes \ {q} : queue'[u] = queue[u]
      BY <3>1, <1>f, ReadAtPipe
    <3>3. q = 0
      BY <3>1, <3>2, EndOfPipe DEF Pipes
    <3>4. queue' = [u \in Pipes |-> queue'[u]]
      BY <3>1, <1>f, ReadAtPipe
    <3>5. /\ fd' = fd /\ fds2' = fds2 /\ pc[p] = "take" /\ pc' = [pc EXCEPT ![p] = "pass"]
      BY <2>2 DEF Take
    <3>6. \A u \in Processes : pc'[u] \in Unfed => queue'[u + 1] = <<>>
      BY <3>2, <3>3, <3>5, <2>e, <2>t, <1>q DEF Unfed
    <3> QED
      BY <1>f, <3>1, <3>4, <3>5, <3>6, FlowMoves DEF Phases, Closing, HasChild, Alone
  <2>3. CASE Pass(p) \/ FilterWrite(p)
    <3>1. /\ fd' = fd /\ fds2' = fds2 /\ pc[p] \in {"pass", "strike"}
          /\ \E to \in {"filter", "close"} : pc' = [pc EXCEPT ![p] = to]
          /\ queue' = queue \/ \E x : WriteList(p, fds2[p][2], x)
      BY <2>3 DEF Pass, FilterWrite
    <3>2. p = 1 /\ fd[p][fds2[p][2]] = WriteEnd(p + 1)
      BY <3>1, <1>f DEF Flowing, HasChild
    <3>3. /\ queue' = [u \in Pipes |-> queue'[u]]
          /\ \A u \in Pipes \ {p + 1} : queue'[u] = queue[u]
      <4>1. CASE queue' = queue
        BY <4>1, <1>r
      <4>2. CASE \E x : WriteList(p, fds2[p][2], x)
        BY <4>2, <3>2, <1>f, <1>q, WriteAtPipe
      <4> QED
        BY <3>1, <4>1, <4>2
    <3> PICK to \in {"filter", "close"} : pc' = [pc EXCEPT ![p] = to]
      BY <3>1
    <3>4. \A u \in Processes : u # p => u + 1 # p + 1
      BY DEF Processes
    <3>5. \A u \in Processes : pc'[u] \in Unfed => queue'[u + 1] = <<>>
      BY <3>3, <3>4, <2>e, <2>t, <1>q DEF Unfed
    <3> QED
      BY <1>f, <3>1, <3>2, <3>3, <3>5, FlowMoves DEF Phases, Closing, HasChild, Alone
  <2>4. CASE FilterRead(p)
    <3>1. p = 1 /\ ReadList(1, fds2[1][1]) /\ fd[1][fds2[1][1]] = ReadEnd(2)
      BY <2>4, <1>f, NoReadFails
    <3>2. PICK q \in Pipes : /\ fd[1][fds2[1][1]] = ReadEnd(q)
                            /\ \A u \in Pipes \ {q} : queue'[u] = queue[u]
      BY <3>1, <1>f, ReadAtPipe
    <3>3. q = 2
      BY <3>1, <3>2, EndOfPipe DEF Pipes
    <3>4. queue' = [u \in Pipes |-> queue'[u]]
      BY <3>1, <1>f, ReadAtPipe
    <3>5. /\ fd' = fd /\ fds2' = fds2 /\ pc[p] = "filter" /\ pc' = [pc EXCEPT ![p] = "strike"]
      BY <2>4 DEF FilterRead
    <3>6. \A u \in Processes : u # 1 => u + 1 # 2
      BY DEF Processes
    <3>7. \A u \in Processes : pc'[u] \in Unfed => queue'[u + 1] = <<>>
      BY <3>1, <3>2, <3>3, <3>5, <3>6, <2>e, <2>t, <1>q DEF Unfed
    <3> QED
      BY <1>f, <3>1, <3>4, <3>5, <3>7, FlowMoves DEF Phases, Closing, HasChild, Alone
  <2>5. CASE FreeAborts(p) \/ WaitForChild(p)
    <3>1. /\ fd' = fd /\ fds2' = fds2 /\ queue' = queue /\ pc[p] \in {"close", "wait"}
          /\ \E to \in {"aborted", "exited"} : pc' = [pc EXCEPT ![p] = to]
      BY <2>5 DEF FreeAborts, WaitForChild
    <3> PICK to \in {"aborted", "exited"} : pc' = [pc EXCEPT ![p] = to]
      BY <3>1
    <3>2. p = 1
      BY <3>1, <1>f DEF Flowing
    <3>3. \A u \in Processes : pc'[u] \in Unfed => queue'[u + 1] = <<>>
      BY <3>1, <2>e, <2>t DEF Unfed
    <3> QED
      BY <1>f, <1>r, <3>1, <3>2, <3>3, FlowMoves DEF Phases, Closing, HasChild, Alone
  <2>6. CASE CloseAll(p)
    <3>1. /\ pc[p] = "close" /\ pc' = [pc EXCEPT ![p] = "wait"] /\ queue' = queue
          /\ fds2' = fds2 /\ \A u \in Processes \ {p} : fd'[u] = fd[u]
      BY <2>6, <2>t DEF CloseAll
    <3>2. p = 1
      BY <3>1, <1>f DEF Flowing
    <3>3. pc'[p] = "wait" /\ \A u \in Processes \ {p} : pc'[u] = pc[u]
      BY <3>1, <2>t
    <3>4. \A u \in Processes : pc'[u] \in Unfed => queue'[u + 1] = <<>>
      BY <3>1, <3>3, <2>e DEF Unfed
    <3> QED
      BY <1>f, <1>p, <1>r, <3>1, <3>2, <3>3, <3>4 DEF Flowing, Closing, HasChild, Alone
  <2>7. CASE ChildCloses(p)
    <3>1. /\ pc[p] = "child" /\ pc' = [pc EXCEPT ![p] = "get"] /\ queue' = queue
          /\ fds2' = fds2 /\ \A u \in Processes \ {p} : fd'[u] = fd[u]
          /\ fd'[p] = Closed(p, {3})
      BY <2>7, <2>t DEF ChildCloses, fd1
    <3>2. fd'[p][3] = NULL /\ \A f \in Fds \ {3} : fd'[p][f] = fd[p][f]
      BY <3>1, <1>p DEF Closed
    <3>3. pc'[p] = "get" /\ \A u \in Processes \ {p} : pc'[u] = pc[u]
      BY <3>1, <2>t
    <3>4. \A u \in Processes : pc'[u] \in Unfed => queue'[u + 1] = <<>>
      BY <3>1, <3>3, <2>e DEF Unfed
    <3>5. \A u \in Processes : pc'[u] \notin Closing => fd'[u][4] = WriteEnd(0)
      BY <3>1, <3>2, <3>3, <1>f, <1>p DEF Flowing, Closing
    <3>6. \A u \in Processes :
            pc'[u] \in HasChild \ {"wait"} => fd'[u][fds2'[u][2]] = WriteEnd(u + 1)
      BY <3>1, <3>3, <1>f DEF Flowing, HasChild
    <3>7. pc'[1] \in (HasChild \ {"wait"}) \cup {"child", "get"} =>
            fds2'[1][1] # 3 /\ fd'[1][fds2'[1][1]] = ReadEnd(2)
      <4>1. fds2[1][1] \in Fds
        BY <1>p, <2>t
      <4>2. CASE p = 1
        BY <3>1, <3>2, <4>1, <4>2, <1>f DEF Flowing
      <4>3. CASE p # 1
        BY <3>1, <3>3, <4>3, <1>f, <1>p DEF Flowing
      <4> QED
        BY <4>2, <4>3
    <3>8. \A u \in Processes \ {1} :
            /\ pc'[u] \notin {"pass", "filter", "strike", "close", "wait", "aborted"}
            /\ pc'[u] \in Alone => fd'[u][3] = NULL
            /\ pc'[u] = "take" => fd'[u][3] = ReadEnd(u + 1)
      BY <3>1, <3>2, <3>3, <1>f DEF Flowing
    <3>9. pc'[1] # "put" /\ (pc'[1] \notin Closing \cup {"get"} => fd'[1][3] = ReadEnd(0))
      BY <3>1, <3>3, <1>f, <1>p DEF Flowing
    <3> QED
      BY <1>r, <3>1, <3>4, <3>5, <3>6, <3>7, <3>8, <3>9 DEF Flowing
  <2>8. CASE Get(p)
    <3>1. /\ fd' = fd /\ fds2' = fds2 /\ pc[p] = "get" /\ pc' = [pc EXCEPT ![p] = "put"]
          /\ ReadList(p, fds2[p][1]) \/ queue' = queue
          /\ p # 1
      BY <2>8, <1>f, NoReadFails DEF Get
    <3>2. /\ queue' = [u \in Pipes |-> queue'[u]]
          /\ \A u \in Pipes : queue[u] = <<>> => queue'[u] = <<>>
      <4>1. CASE queue' = queue
        BY <4>1, <1>r
      <4>2. CASE ReadList(p, fds2[p][1])
        BY <4>2, <1>f, ReadAtPipe
      <4> QED
        BY <3>1, <4>1, <4>2
    <3>3. \A u \in Processes : pc'[u] \in Unfed => queue'[u + 1] = <<>>
      BY <3>1, <3>2, <2>e, <2>t, <1>q DEF Unfed
    <3> QED
      BY <1>f, <3>1, <3>2, <3>3, FlowMoves DEF Phases, Closing, HasChild, Alone
  <2>9. CASE Put(p)
    <3>1. /\ fd' = fd /\ fds2' = fds2 /\ pc[p] = "put" /\ pc' = [pc EXCEPT ![p] = "multiples"]
          /\ WriteList(p, 4, list[p])
      BY <2>9 DEF Put, fd1
    <3>2. fd[p][4] = WriteEnd(0) /\ p # 1
      BY <3>1, <1>f DEF Flowing, Closing
    <3>3. /\ queue' = [u \in Pipes |-> queue'[u]]
          /\ \A u \in Pipes \ {0} : queue'[u] = queue[u]
      BY <3>1, <3>2, <1>f, WriteAtPipe
    <3>4. \A u \in Processes : pc'[u] \in Unfed => queue'[u + 1] = <<>>
      BY <3>1, <3>3, <2>e, <2>t, <1>q DEF Unfed
    <3> QED
      BY <1>f, <3>1, <3>2, <3>3, <3>4, FlowMoves DEF Phases, Closing, HasChild, Alone
  <2>a. ASSUME AtListed(p), NEW made \in BOOLEAN, PipeMade(p, made)
        PROVE  /\ StageFds(p, made) = NewPipe(p) /\ StageEnds(p, made) = WithPipe(p)
               /\ WithPipe(p)[NewPipe(p)[2]] = WriteEnd(p + 1)
               /\ WithPipe(p)[4] = WriteEnd(0)
               /\ p = 1 => /\ WithPipe(1)[3] = ReadEnd(0)
                           /\ NewPipe(1)[1] # 3
                           /\ WithPipe(1)[NewPipe(1)[1]] = ReadEnd(2)
               /\ p # 1 => WithPipe(p)[3] = ReadEnd(p + 1)
    <3>1. pc[p] = "multiples" /\ made
      BY <2>a, PipeCounted DEF AtListed
    <3>2. RoomForPipe(p)
      BY <2>a, <3>1 DEF PipeMade
    <3>3. /\ WithPipe(p)[NewPipe(p)[1]] = ReadEnd(p + 1)
          /\ WithPipe(p)[NewPipe(p)[2]] = WriteEnd(p + 1)
          /\ \A f \in Fds : fd[p][f] # NULL => WithPipe(p)[f] = fd[p][f]
          /\ fd[p][NewPipe(p)[1]] = NULL
          /\ fd[p][3] = NULL => NewPipe(p)[1] = 3
      BY <3>2, EndsOfNewPipe
    <3>4. fd[p][4] = WriteEnd(0) /\ fd[p][4] # NULL
      BY <3>1, <1>f, EndOfPipe DEF Flowing, Closing
    <3>5. CASE p = 1
      <4>1. fd[1][3] = ReadEnd(0) /\ fd[1][3] # NULL
        BY <3>1, <3>5, <1>f, EndOfPipe DEF Flowing, Closing
      <4>2. 1 + 1 = 2
        OBVIOUS
      <4> QED
        BY <3>1, <3>3, <3>4, <3>5, <4>1, <4>2, <1>p DEF StageFds, StageEnds
    <3>6. CASE p # 1
      <4>1. fd[p][3] = NULL
        BY <3>1, <3>6, <1>f DEF Flowing, Alone
      <4> QED
        BY <3>1, <3>3, <3>4, <3>6, <4>1, <1>p DEF StageFds, StageEnds
    <3> QED
      BY <3>5, <3>6
  <2>10. CASE make_stage(p)
    <3> PICK made \in BOOLEAN :
           /\ PipeMade(p, made)
           /\ fds2' = [fds2 EXCEPT ![p] = StageFds(p, made), ![p + 1] = StageFds(p, made)]
           /\ fd' = [fd EXCEPT ![p] = StageEnds(p, made), ![p + 1] = StageEnds(p, made)]
      BY <2>10 DEF make_stage
    <3>1. /\ AtListed(p) /\ pc[p] = "multiples" /\ p + 1 \in Processes
          /\ pc' = [pc EXCEPT ![p] = "take", ![p + 1] = "child"]
          /\ queue' = queue
      BY <2>10 DEF make_stage, AtListed
    <3>2. p + 1 # p /\ p + 1 # 1
      BY DEF Processes
    <3>3. pc[p + 1] = "none"
      BY <3>1 DEF Chain, Processes, HasChild, Ended
    <3>4. /\ pc'[p] = "take" /\ pc'[p + 1] = "child"
          /\ \A u \in Processes \ {p, p + 1} : /\ pc'[u] = pc[u]
                                              /\ fd'[u] = fd[u] /\ fds2'[u] = fds2[u]
          /\ fd'[p] = StageEnds(p, made) /\ fd'[p + 1] = StageEnds(p, made)
          /\ fds2'[p] = StageFds(p, made) /\ fds2'[p + 1] = StageFds(p, made)
      BY <3>1, <3>2, <2>t
    <3>5. /\ fd'[p] = WithPipe(p) /\ fd'[p + 1] = WithPipe(p) /\ fds2'[p] = NewPipe(p)
          /\ WithPipe(p)[NewPipe(p)[2]] = WriteEnd(p + 1)
          /\ WithPipe(p)[4] = WriteEnd(0)
          /\ p = 1 => /\ WithPipe(1)[3] = ReadEnd(0)
                      /\ NewPipe(1)[1] # 3
                      /\ WithPipe(1)[NewPipe(1)[1]] = ReadEnd(2)
          /\ p # 1 => WithPipe(p)[3] = ReadEnd(p + 1)
      BY <3>1, <3>4, <2>a
    <3>6. \A u \in Processes : pc'[u] \in Unfed => queue'[u + 1] = <<>>
      <4>1. pc[p] \in Unfed /\ pc[p + 1] \in Unfed
        BY <3>1, <3>3 DEF Unfed
      <4> QED
        BY <3>1, <3>4, <4>1, <2>e
    <3>7. \A u \in Processes : pc'[u] \notin Closing => fd'[u][4] = WriteEnd(0)
      BY <3>4, <3>5, <1>f DEF Flowing
    <3>8. \A u \in Processes :
            pc'[u] \in HasChild \ {"wait"} => fd'[u][fds2'[u][2]] = WriteEnd(u + 1)
      BY <3>4, <3>5, <1>f DEF Flowing, HasChild
    <3>9. /\ pc'[1] # "put" /\ (pc'[1] \notin Closing \cup {"get"} => fd'[1][3] = ReadEnd(0))
          /\ pc'[1] \in (HasChild \ {"wait"}) \cup {"child", "get"} =>
               fds2'[1][1] # 3 /\ fd'[1][fds2'[1][1]] = ReadEnd(2)
      <4>1. CASE p = 1
        BY <3>4, <3>5, <4>1
      <4>2. CASE p # 1
        <5>1. pc'[1] = pc[1] /\ fd'[1] = fd[1] /\ fds2'[1] = fds2[1]
          BY <3>2, <3>4, <4>2, <1>p
        <5> QED
          BY <5>1, <1>f DEF Flowing
      <4> QED
        BY <4>1, <4>2
    <3>10. \A u \in Processes \ {1} :
            /\ pc'[u] \notin {"pass", "filter", "strike", "close", "wait", "aborted"}
            /\ pc'[u] \in Alone => fd'[u][3] = NULL
            /\ pc'[u] = "take" => fd'[u][3] = ReadEnd(u + 1)
      BY <3>4, <3>5, <1>f DEF Flowing, Alone
    <3> QED
      BY <1>r, <3>1, <3>6, <3>7, <3>8, <3>9, <3>10 DEF Flowing
  <2>11. CASE ForkFails(p)
    <3> PICK made \in BOOLEAN :
           /\ PipeMade(p, made)
           /\ fds2' = [fds2 EXCEPT ![p] = StageFds(p, made)]
           /\ fd' = [fd EXCEPT ![p] = StageEnds(p, made)]
      BY <2>11 DEF ForkFails
    <3>1. /\ AtListed(p) /\ pc[p] = "multiples"
          /\ pc' = [pc EXCEPT ![p] = "child"]
          /\ queue' = queue
      BY <2>11 DEF ForkFails, AtListed
    <3>4. /\ pc'[p] = "child"
          /\ \A u \in Processes \ {p} : /\ pc'[u] = pc[u]
                                        /\ fd'[u] = fd[u] /\ fds2'[u] = fds2[u]
          /\ fd'[p] = StageEnds(p, made) /\ fds2'[p] = StageFds(p, made)
      BY <3>1, <2>t
    <3>5. /\ fd'[p] = WithPipe(p) /\ fds2'[p] = NewPipe(p)
          /\ WithPipe(p)[4] = WriteEnd(0)
          /\ p = 1 => /\ WithPipe(1)[3] = ReadEnd(0)
                      /\ NewPipe(1)[1] # 3
                      /\ WithPipe(1)[NewPipe(1)[1]] = ReadEnd(2)
      BY <3>1, <3>4, <2>a
    <3>6. \A u \in Processes : pc'[u] \in Unfed => queue'[u + 1] = <<>>
      <4>1. pc[p] \in Unfed
        BY <3>1 DEF Unfed
      <4> QED
        BY <3>1, <3>4, <4>1, <2>e
    <3>7. \A u \in Processes : pc'[u] \notin Closing => fd'[u][4] = WriteEnd(0)
      BY <3>4, <3>5, <1>f DEF Flowing
    <3>8. \A u \in Processes :
            pc'[u] \in HasChild \ {"wait"} => fd'[u][fds2'[u][2]] = WriteEnd(u + 1)
      BY <3>4, <3>5, <1>f DEF Flowing, HasChild
    <3>9. /\ pc'[1] # "put" /\ (pc'[1] \notin Closing \cup {"get"} => fd'[1][3] = ReadEnd(0))
          /\ pc'[1] \in (HasChild \ {"wait"}) \cup {"child", "get"} =>
               fds2'[1][1] # 3 /\ fd'[1][fds2'[1][1]] = ReadEnd(2)
      <4>1. CASE p = 1
        BY <3>4, <3>5, <4>1
      <4>2. CASE p # 1
        <5>1. pc'[1] = pc[1] /\ fd'[1] = fd[1] /\ fds2'[1] = fds2[1]
          BY <3>4, <4>2, <1>p
        <5> QED
          BY <5>1, <1>f DEF Flowing
      <4> QED
        BY <4>1, <4>2
    <3>10. \A u \in Processes \ {1} :
            /\ pc'[u] \notin {"pass", "filter", "strike", "close", "wait", "aborted"}
            /\ pc'[u] \in Alone => fd'[u][3] = NULL
            /\ pc'[u] = "take" => fd'[u][3] = ReadEnd(u + 1)
      BY <3>4, <3>5, <1>f DEF Flowing, Alone
    <3> QED
      BY <1>r, <3>1, <3>6, <3>7, <3>8, <3>9, <3>10 DEF Flowing
  <2> QED
    BY <2>1, <2>2, <2>3, <2>4, <2>5, <2>6, <2>7, <2>8, <2>9, <2>10, <2>11 DEF Step
<1> QED
  BY <1>1, <1>2

--------------------------------------------------------------------------------
(* The sieve. *)

(* In the midst of a stage, and in the midst of the multiples of a number. *)
InStage == HasChild \cup {"child", "get", "put"}
InMultiples == InStage \cup {"multiples"}

Others == (2 .. target - 1) \ ProperDivisors

(* What a list may have lost: no divisor, as long as all the pipes are made. *)
Clean == IF nopipe = 0 THEN SUBSET Others ELSE SUBSET Nat

Loops == [i : Nat \ {0, 1}, j : Nat \ {0}, factor_list : Seq(Nat), filters : Nat]

SieveTypes ==
  /\ target \in Nat
  /\ pc \in [Processes -> Phases]
  /\ main \in [Processes -> Loops]

(* No list has lost a divisor, if all the pipes were made, since main goes beyond a
   number itself (j > 1) only if that is none, and makes stages only for numbers that
   are none. *)
Sieved ==
  /\ SieveTypes
  /\ list \in [Processes -> Clean]
  /\ queue \in [Pipes -> Seq(Clean)]
  /\ \A p \in Processes : pc[p] \in InMultiples => main[p].i < target
  /\ nopipe = 0 =>
       /\ \A p \in Processes :
            pc[p] \in InMultiples /\ main[p].j > 1 => target % main[p].i # 0
       /\ \A p \in Processes : pc[p] \in InStage => Number(p) \in Others

(* A step that changes the loops of p alone, into x. *)
LEMMA LoopsKeepTypes ==
  ASSUME SieveTypes, target' = target, NEW p \in Processes, NEW x \in Loops,
         NEW to \in Phases, main' = [main EXCEPT ![p] = x], pc' = [pc EXCEPT ![p] = to]
  PROVE  SieveTypes'
BY DEF SieveTypes

LEMMA SievedInit == Init => Sieved
<1> SUFFICES ASSUME Init PROVE Sieved
  OBVIOUS
<1>1. SieveTypes
  BY PfactAssumption DEF Init, SieveTypes, Loops, Phases
<1>2. make_list \in Clean
  BY DEF make_list, Clean
<1>3. list \in [Processes -> Clean] /\ queue \in [Pipes -> Seq(Clean)]
  BY <1>2 DEF Init
<1>4. \A p \in Processes : pc[p] \notin InMultiples
  BY DEF Init, InMultiples, InStage, HasChild
<1> QED
  BY <1>1, <1>3, <1>4 DEF Sieved, InMultiples

(* A sequence over a set is one over every larger set. *)
LEMMA SeqOfMore ==
  ASSUME NEW S, NEW T, S \subseteq T
  PROVE  Seq(S) \subseteq Seq(T)
<1> SUFFICES ASSUME NEW s \in Seq(S) PROVE s \in Seq(T)
  OBVIOUS
<1>1. Len(s) \in Nat /\ s \in [1 .. Len(s) -> S]
  OBVIOUS
<1>2. s \in [1 .. Len(s) -> T]
  BY <1>1
<1> QED
  BY <1>1, <1>2

(* A divisor that is in the list is found there. *)
LEMMA DivisorIsListed ==
  ASSUME Sieved, nopipe = 0, NEW p \in Processes, NEW n \in 2 .. target - 1, target % n = 0
  PROVE  is_in_list(n, list[p])
<1>1. n \in ProperDivisors /\ n \in 2 .. target
  BY DEF Sieved, SieveTypes, ProperDivisors
<1>2. list[p] \in SUBSET Others
  BY DEF Sieved, Clean
<1>3. n \in (2 .. target) \ list[p]
  BY <1>1, <1>2 DEF Others
<1> QED
  BY <1>3 DEF is_in_list

LEMMA ReadKeepsClean ==
  ASSUME Sieved, NEW p \in Processes, NEW f, ReadList(p, f)
  PROVE  list' \in [Processes -> Clean] /\ queue' \in [Pipes -> Seq(Clean)]
<1> PICK q \in Pipes : /\ queue[q] # <<>>
                       /\ list' = [list EXCEPT ![p] = Head(queue[q])]
                       /\ queue' = [queue EXCEPT ![q] = Tail(@)]
  BY DEF ReadList
<1>1. queue[q] \in Seq(Clean)
  BY DEF Sieved
<1>2. Head(queue[q]) \in Clean /\ Tail(queue[q]) \in Seq(Clean)
  BY <1>1
<1> QED
  BY <1>2 DEF Sieved

LEMMA WriteKeepsClean ==
  ASSUME Sieved, NEW p \in Processes, NEW f, NEW struck \in Clean, WriteList(p, f, struck)
  PROVE  queue' \in [Pipes -> Seq(Clean)]
<1>1. \A q \in Pipes : Append(queue[q], struck) \in Seq(Clean)
  BY DEF Sieved
<1> QED
  BY <1>1 DEF Sieved, WriteList

LEMMA SievedStep == Chain /\ Flow /\ Sieved /\ [Next]_vars => Sieved'
<1> SUFFICES ASSUME Chain, Flow, Sieved, [Next]_vars PROVE Sieved'
  OBVIOUS
<1>t. SieveTypes /\ list \in [Processes -> Clean] /\ queue \in [Pipes -> Seq(Clean)]
  BY DEF Sieved
<1>d. target' = target => ProperDivisors' = ProperDivisors /\ Others' = Others
  BY DEF ProperDivisors, Others
<1>c. target' = target /\ nopipe' = nopipe =>
        Clean' = Clean /\ ProperDivisors' = ProperDivisors /\ Others' = Others
  BY <1>d DEF Clean
<1>o. Others \in SUBSET Nat
  BY <1>t DEF Others, SieveTypes
<1>1. CASE UNCHANGED vars
  BY <1>1, <1>c DEF Sieved, SieveTypes, vars, Number
<1>2. CASE Next
  <2> PICK p \in Processes : Step(p)
    BY <1>2 DEF Next
  <2>s. target' = target
    BY DEF Step, NextNumber, NextMultiple, Factor, Report, make_stage, ForkFails, Take, Pass,
           FilterRead, FilterWrite, FreeAborts, CloseAll, WaitForChild, ChildCloses, Get, Put
  <2>p. nopipe' = nopipe \/ make_stage(p) \/ ForkFails(p)
    BY DEF Step, NextNumber, NextMultiple, Factor, Report, Take, Pass, FilterRead, FilterWrite,
           FreeAborts, CloseAll, WaitForChild, ChildCloses, Get, Put
  <2>l. main[p] \in Loops
    BY <1>t DEF SieveTypes
  <2>i. /\ main[p].i \in Nat \ {0, 1} /\ main[p].j \in Nat \ {0}
        /\ main[p].factor_list \in Seq(Nat) /\ main[p].filters \in Nat
        /\ main[p].i + 1 \in Nat \ {0, 1}
    BY <2>l DEF Loops
  <2>n. target \in Nat
    BY <1>t DEF SieveTypes
  (* A step of p that leaves the loops alone and moves on inside a stage. *)
  <2>m. ASSUME main' = main, nopipe' = nopipe, NEW to \in Phases, pc' = [pc EXCEPT ![p] = to],
               to \in InStage => pc[p] \in InStage, to # "multiples",
               list' \in [Processes -> Clean], queue' \in [Pipes -> Seq(Clean)]
        PROVE  Sieved'
    <3>1. SieveTypes'
      BY <2>m, <2>s, <1>t DEF SieveTypes
    <3>2. \A r \in Processes : pc'[r] \in InStage => pc[r] \in InStage
      BY <2>m, <1>t DEF SieveTypes
    <3>3. \A r \in Processes : pc'[r] \in InMultiples => pc[r] \in InMultiples
      BY <2>m, <1>t, <3>2 DEF SieveTypes, InMultiples
    <3> QED
      BY <2>m, <2>s, <1>c, <3>1, <3>2, <3>3 DEF Sieved, Number
  <2>1. CASE NextNumber(p)
    <3>1. CASE main[p].i < target
      <4>1. /\ main' = [main EXCEPT ![p].j = 1, ![p].filters = main'[p].filters]
            /\ main'[p].filters \in Nat
            /\ pc' = [pc EXCEPT ![p] = "multiples"]
            /\ list' = list /\ queue' = queue /\ nopipe' = nopipe
        <5>1. main[p] \in Loops
          BY <1>t DEF SieveTypes
        <5>2. \E n \in Nat : main' = [main EXCEPT ![p].j = 1, ![p].filters = n]
          BY <5>1, <2>1, <3>1 DEF NextNumber, Loops
        <5>3. PICK n \in Nat : main' = [main EXCEPT ![p].j = 1, ![p].filters = n]
          BY <5>2
        <5>4. main'[p].filters = n
          BY <5>1, <5>3, <1>t DEF SieveTypes, Loops
        <5> QED
          BY <5>3, <5>4, <2>1, <3>1 DEF NextNumber
      <4>2. SieveTypes'
        <5> DEFINE x == [main[p] EXCEPT !.j = 1, !.filters = main'[p].filters]
        <5>1. x \in Loops
          <6> DEFINE n == main'[p].filters
          <6>1. n \in Nat
            BY <4>1
          <6> HIDE DEF n
          <6>2. [main[p] EXCEPT !.j = 1, !.filters = n] \in Loops
            <7>1. [main[p] EXCEPT !.j = 1] \in Loops
              BY <2>l DEF Loops
            <7>2. [[main[p] EXCEPT !.j = 1] EXCEPT !.filters = n] \in Loops
              BY <6>1, <7>1 DEF Loops
            <7> QED
              BY <7>2
          <6> QED
            BY <6>2 DEF n
        <5>2. main' = [main EXCEPT ![p] = x]
          BY <4>1, <1>t DEF SieveTypes
        <5> HIDE DEF x
        <5> QED
          BY <4>1, <5>1, <5>2, <2>s, <1>t, LoopsKeepTypes DEF Phases
      <4>3. \A r \in Processes : r # p => main'[r] = main[r] /\ pc'[r] = pc[r]
        BY <4>1, <1>t DEF SieveTypes
      <4>4. main'[p].i = main[p].i /\ main'[p].j = 1 /\ pc'[p] = "multiples"
        BY <4>1, <2>l, <1>t DEF SieveTypes, Loops
      <4>5. "multiples" \notin InStage
        BY DEF InStage, HasChild
      <4> QED
        BY <4>1, <4>2, <4>3, <4>4, <4>5, <3>1, <2>s, <1>c DEF Sieved, Number
    <3>2. CASE ~ (main[p].i < target)
      BY <2>1, <3>2, <2>m, <1>t DEF NextNumber, Phases, InStage, HasChild
    <3> QED
      BY <3>1, <3>2
  <2>2. CASE NextMultiple(p)
    <3>a. list' = list /\ queue' = queue /\ nopipe' = nopipe /\ pc[p] = "multiples"
      BY <2>2 DEF NextMultiple
    <3>1. CASE Number(p) >= target
      <4>1. /\ main' = [main EXCEPT ![p].i = @ + 1]
            /\ pc' = [pc EXCEPT ![p] = "numbers"]
        BY <2>2, <3>1 DEF NextMultiple
      <4>2. SieveTypes'
        <5> DEFINE x == [main[p] EXCEPT !.i = @ + 1]
        <5>1. x \in Loops
          BY <2>l, <2>i DEF Loops
        <5>2. main' = [main EXCEPT ![p] = x]
          BY <4>1, <1>t DEF SieveTypes
        <5>3. \E to \in Phases : pc' = [pc EXCEPT ![p] = to]
          BY <4>1, <3>a, <1>t DEF SieveTypes, Phases
        <5> HIDE DEF x
        <5> QED
          BY <5>1, <5>2, <5>3, <2>s, <1>t, LoopsKeepTypes
      <4>3. \A r \in Processes : r # p => main'[r] = main[r] /\ pc'[r] = pc[r]
        BY <4>1, <1>t DEF SieveTypes
      <4>4. pc'[p] \notin InMultiples
        BY <4>1, <1>t DEF SieveTypes, InMultiples, InStage, HasChild
      <4> QED
        BY <3>a, <4>2, <4>3, <4>4, <2>s, <1>c, <1>t DEF Sieved, Number, InMultiples
    <3>2. CASE ~ (Number(p) >= target)
      <4>1. /\ main' = [main EXCEPT ![p].j = @ + 1]
            /\ pc' = pc
            /\ ~ is_in_list(Number(p), list[p])
        BY <2>2, <3>2 DEF NextMultiple
      <4>2. SieveTypes'
        <5> DEFINE x == [main[p] EXCEPT !.j = @ + 1]
        <5>1. x \in Loops
          BY <2>l DEF Loops
        <5>2. main' = [main EXCEPT ![p] = x]
          BY <4>1, <1>t DEF SieveTypes
        <5>3. \E to \in Phases : pc' = [pc EXCEPT ![p] = to]
          BY <4>1, <3>a, <1>t DEF SieveTypes, Phases
        <5> HIDE DEF x
        <5> QED
          BY <5>1, <5>2, <5>3, <2>s, <1>t, LoopsKeepTypes
      <4>3. \A r \in Processes : r # p => main'[r] = main[r]
        BY <4>1, <1>t DEF SieveTypes
      <4>4. main'[p].i = main[p].i
        BY <4>1, <1>t DEF SieveTypes
      <4>5. ASSUME nopipe = 0 PROVE target % main[p].i # 0
        <5>1. CASE main[p].j > 1
          BY <3>a, <4>5, <5>1 DEF Sieved, InMultiples
        <5>2. CASE main[p].j = 1
          <6>1. Number(p) = main[p].i
            BY <5>2, <1>t DEF SieveTypes, Loops, Number
          <6>2. main[p].i \in 2 .. target - 1
            <7> DEFINE i == main[p].i
            <7>1. i \in Nat \ {0, 1} /\ ~ (i >= target)
              BY <6>1, <3>2, <2>i
            <7> HIDE DEF i
            <7>2. i \in 2 .. target - 1
              BY <7>1, <2>n
            <7> QED
              BY <7>2 DEF i
          <6> QED
            BY <6>1, <6>2, <4>1, <4>5, DivisorIsListed
        <5> QED
          BY <5>1, <5>2, <2>i
      <4>6. pc[p] \notin InStage
        BY <3>a DEF InStage, HasChild
      <4> QED
        BY <3>a, <4>1, <4>2, <4>3, <4>4, <4>5, <4>6, <2>s, <1>c, <1>t DEF Sieved, Number
    <3> QED
      BY <3>1, <3>2
  <2>3. CASE Factor(p)
    <3> DEFINE found == IF target \div Number(p) = Number(p) THEN <<Number(p), Number(p)>>
                        ELSE <<Number(p)>>
    <3>1. /\ main' = [main EXCEPT ![p].factor_list = @ \o found, ![p].i = @ + 1]
          /\ pc' = [pc EXCEPT ![p] = "numbers"]
          /\ list' = list /\ queue' = queue /\ nopipe' = nopipe
      BY <2>3 DEF Factor
    <3>2. Number(p) \in Nat
      BY <1>t DEF SieveTypes, Loops, Number
    <3>3. main[p].factor_list \o found \in Seq(Nat)
      <4>1. found \in Seq(Nat)
        BY <3>2
      <4> HIDE DEF found
      <4> QED
        BY <4>1, <2>i
    <3> HIDE DEF found
    <3>4. SieveTypes'
      <4> DEFINE x == [main[p] EXCEPT !.factor_list = @ \o found, !.i = @ + 1]
      <4>1. x \in Loops
        BY <3>3, <2>l, <2>i DEF Loops
      <4>2. main' = [main EXCEPT ![p] = x]
        BY <3>1, <1>t DEF SieveTypes
      <4> HIDE DEF x
      <4> QED
        BY <3>1, <4>1, <4>2, <2>s, <1>t, LoopsKeepTypes DEF Phases
    <3>5. \A r \in Processes : r # p => main'[r] = main[r] /\ pc'[r] = pc[r]
      BY <3>1, <1>t DEF SieveTypes
    <3>6. pc'[p] \notin InMultiples
      BY <3>1, <1>t DEF SieveTypes, InMultiples, InStage, HasChild
    <3> QED
      BY <3>1, <3>4, <3>5, <3>6, <2>s, <1>c, <1>t DEF Sieved, Number, InMultiples
  <2>4. CASE Report(p)
    <3>1. /\ pc' = [pc EXCEPT ![p] = "exited"]
          /\ UNCHANGED <<main, list, queue, nopipe>>
      BY <2>4 DEF Report
    <3> QED
      BY <3>1, <2>m, <1>t DEF Phases, InStage, HasChild
  <2>f. ASSUME AtListed(p), ~ IsFactor(p), nopipe = 0 PROVE Number(p) \in Others
    <3>n. Number(p) \in 2 .. target - 1
      <4>1. Number(p) \in Nat /\ Number(p) >= main[p].i
        BY <2>i, MultipleIsLarger DEF Number
      <4>2. Number(p) < target
        BY <2>f DEF AtListed
      <4> HIDE DEF Number
      <4> QED
        BY <4>1, <4>2, <2>i, <2>n
    <3>1. main[p].i \in Nat \ {0, 1} /\ main[p].j \in Nat \ {0}
      BY <2>i
    <3>2. CASE main[p].j > 1
      <4>1. target % main[p].i # 0
        BY <3>2, <2>f DEF AtListed, Sieved, InMultiples
      <4>2. target % Number(p) # 0
        BY <4>1, <3>1, <1>t, DivisorOfFactor DEF Number, SieveTypes
      <4> QED
        BY <4>2, <3>n DEF ProperDivisors, Others
    <3>3. CASE main[p].j = 1
      BY <3>3, <3>n, <2>f DEF IsFactor, ProperDivisors, Others
    <3> QED
      BY <3>1, <3>2, <3>3
  <2>g. ASSUME NEW made \in BOOLEAN, PipeMade(p, made)
        PROVE  /\ Clean \subseteq Clean' /\ (nopipe' = 0 => nopipe = 0)
               /\ list \in [Processes -> Clean'] /\ queue \in [Pipes -> Seq(Clean')]
    <3>1. nopipe' = 0 => nopipe = 0
      BY <2>g, PipeCounted
    <3>2. Clean \subseteq Clean'
      BY <3>1, <2>s, <1>d, <1>o DEF Clean
    <3>3. Seq(Clean) \subseteq Seq(Clean')
      <4> DEFINE S == Clean
                 T == Clean'
      <4>1. S \subseteq T
        BY <3>2
      <4> HIDE DEF S, T
      <4>2. Seq(S) \subseteq Seq(T)
        BY <4>1, SeqOfMore
      <4> QED
        BY <4>2 DEF S, T
    <3>4. queue \in [Pipes -> Seq(Clean')]
      BY <3>3, <1>t
    <3>5. list \in [Processes -> Clean']
      BY <3>2, <1>t
    <3> QED
      BY <3>1, <3>2, <3>4, <3>5
  <2>5. CASE make_stage(p)
    <3>1. /\ AtListed(p) /\ ~ IsFactor(p)
          /\ p + 1 \in Processes
          /\ main' = [main EXCEPT ![p + 1] = main[p]]
          /\ pc' = [pc EXCEPT ![p] = "take", ![p + 1] = "child"]
          /\ list' = [list EXCEPT ![p + 1] = list[p]]
          /\ queue' = queue
          /\ \E made \in BOOLEAN : PipeMade(p, made)
      BY <2>5 DEF make_stage
    <3>a. /\ Clean \subseteq Clean' /\ (nopipe' = 0 => nopipe = 0)
          /\ list \in [Processes -> Clean'] /\ queue' \in [Pipes -> Seq(Clean')]
      BY <3>1, <2>g
    <3>2. SieveTypes'
      BY <3>1, <2>s, <1>t DEF SieveTypes, Phases
    <3>3. list' \in [Processes -> Clean']
      BY <3>1, <3>a
    <3>4. \A r \in Processes : r \notin {p, p + 1} => main'[r] = main[r] /\ pc'[r] = pc[r]
      BY <3>1, <1>t DEF SieveTypes
    <3>5. main'[p] = main[p] /\ main'[p + 1] = main[p]
      BY <3>1, <1>t DEF SieveTypes, Processes
    <3>6. (nopipe = 0 => Number(p) \in Others) /\ pc[p] \in InMultiples
      BY <3>1, <2>f DEF AtListed, InMultiples
    <3>7. \A r \in Processes : pc'[r] \in InMultiples => main'[r].i < target'
      BY <3>4, <3>5, <3>6, <2>s DEF Sieved
    <3>8. nopipe' = 0 =>
            \A r \in Processes :
              pc'[r] \in InMultiples /\ main'[r].j > 1 => target' % main'[r].i # 0
      BY <3>a, <3>4, <3>5, <3>6, <2>s DEF Sieved
    <3>9. nopipe' = 0 => \A r \in Processes : pc'[r] \in InStage => Number(r)' \in Others'
      BY <3>a, <3>4, <3>5, <3>6, <2>s, <1>d DEF Sieved, Number
    <3> QED
      BY <3>2, <3>3, <3>a, <3>7, <3>8, <3>9 DEF Sieved
  <2>6. CASE ForkFails(p)
    <3>1. /\ AtListed(p) /\ ~ IsFactor(p)
          /\ pc' = [pc EXCEPT ![p] = "child"]
          /\ UNCHANGED <<main, list, queue>>
          /\ \E made \in BOOLEAN : PipeMade(p, made)
      BY <2>6 DEF ForkFails
    <3>a. /\ Clean \subseteq Clean' /\ (nopipe' = 0 => nopipe = 0)
          /\ list' \in [Processes -> Clean'] /\ queue' \in [Pipes -> Seq(Clean')]
      BY <3>1, <2>g
    <3>2. SieveTypes'
      BY <3>1, <2>s, <1>t DEF SieveTypes, Phases
    <3>3. \A r \in Processes : r # p => pc'[r] = pc[r]
      BY <3>1, <1>t DEF SieveTypes
    <3>4. (nopipe = 0 => Number(p) \in Others) /\ pc[p] \in InMultiples
      BY <3>1, <2>f DEF AtListed, InMultiples
    <3>7. \A r \in Processes : pc'[r] \in InMultiples => main'[r].i < target'
      BY <3>1, <3>3, <3>4, <2>s DEF Sieved
    <3>8. nopipe' = 0 =>
            \A r \in Processes :
              pc'[r] \in InMultiples /\ main'[r].j > 1 => target' % main'[r].i # 0
      BY <3>1, <3>a, <3>3, <3>4, <2>s DEF Sieved
    <3>9. nopipe' = 0 => \A r \in Processes : pc'[r] \in InStage => Number(r)' \in Others'
      BY <3>1, <3>a, <3>3, <3>4, <2>s, <1>d DEF Sieved, Number
    <3> QED
      BY <3>2, <3>a, <3>7, <3>8, <3>9 DEF Sieved
  <2>h. ASSUME NEW f, ReadList(p, f) \/ (nopipe # 0 /\ ReadFails(p, f))
        PROVE  list' \in [Processes -> Clean] /\ queue' \in [Pipes -> Seq(Clean)]
    <3>1. CASE ReadList(p, f)
      BY <3>1, ReadKeepsClean
    <3>2. CASE nopipe # 0 /\ ReadFails(p, f)
      <4>1. PICK struck \in Unwritten : list' = [list EXCEPT ![p] = struck]
        BY <3>2 DEF ReadFails
      <4>2. struck \in Clean
        BY <3>2, PfactAssumption DEF Clean
      <4> QED
        BY <3>2, <4>1, <4>2, <1>t DEF ReadFails
    <3> QED
      BY <2>h, <3>1, <3>2
  <2>7. CASE Take(p)
    <3>1. nopipe = 0 => ReadList(p, fd1[1])
      BY <2>7, NoReadFails DEF Flow
    <3>2. ReadList(p, fd1[1]) \/ (nopipe # 0 /\ ReadFails(p, fd1[1]))
      BY <2>7, <3>1 DEF Take
    <3>3. list' \in [Processes -> Clean] /\ queue' \in [Pipes -> Seq(Clean)]
      BY <3>2, <2>h
    <3> QED
      BY <2>7, <2>m, <3>3 DEF Take, Phases, InStage, HasChild
  <2>8. CASE Pass(p)
    <3>1. queue' \in [Pipes -> Seq(Clean)]
      BY <2>8, <1>t, WriteKeepsClean DEF Pass
    <3> QED
      BY <3>1, <2>8, <2>m, <1>t DEF Pass, Phases, InStage, HasChild
  <2>9. CASE FilterRead(p)
    <3>1. nopipe = 0 => ReadList(p, fds2[p][1])
      BY <2>9, NoReadFails DEF Flow
    <3>2. ReadList(p, fds2[p][1]) \/ (nopipe # 0 /\ ReadFails(p, fds2[p][1]))
      BY <2>9, <3>1 DEF FilterRead
    <3>3. list' \in [Processes -> Clean] /\ queue' \in [Pipes -> Seq(Clean)]
      BY <3>2, <2>h
    <3> QED
      BY <2>9, <2>m, <3>3 DEF FilterRead, Phases, InStage, HasChild
  <2>10. CASE FilterWrite(p)
    <3>1. (nopipe = 0 => Number(p) \in Others) /\ Number(p) \in Nat
      BY <2>10, <1>t DEF FilterWrite, SieveTypes, Loops, Number, Sieved, InStage, HasChild
    <3>2. list[p] \cup {Number(p)} \in Clean
      BY <3>1, <1>t DEF Clean
    <3>3. queue' \in [Pipes -> Seq(Clean)]
      BY <3>2, <2>10, <1>t, WriteKeepsClean DEF FilterWrite
    <3> QED
      BY <3>3, <2>10, <2>m, <1>t DEF FilterWrite, Phases, InStage, HasChild
  <2>a. CASE FreeAborts(p)
    BY <2>a, <2>m, <1>t DEF FreeAborts, Phases, InStage, HasChild
  <2>11. CASE CloseAll(p)
    BY <2>11, <2>m, <1>t DEF CloseAll, Phases, InStage, HasChild
  <2>12. CASE WaitForChild(p)
    BY <2>12, <2>m, <1>t DEF WaitForChild, Phases, InStage, HasChild
  <2>13. CASE ChildCloses(p)
    BY <2>13, <2>m, <1>t DEF ChildCloses, Phases, InStage, HasChild
  <2>14. CASE Get(p)
    <3>1. list' \in [Processes -> Clean] /\ queue' \in [Pipes -> Seq(Clean)]
      BY <2>14, <1>t, ReadKeepsClean DEF Get
    <3> QED
      BY <3>1, <2>14, <2>m DEF Get, Phases, InStage, HasChild
  <2>15. CASE Put(p)
    <3>1. /\ main' = [main EXCEPT ![p].j = @ + 1]
          /\ pc' = [pc EXCEPT ![p] = "multiples"]
          /\ list' = list /\ nopipe' = nopipe
          /\ pc[p] = "put"
      BY <2>15 DEF Put
    <3>2. queue' \in [Pipes -> Seq(Clean)]
      BY <2>15, <1>t, WriteKeepsClean DEF Put
    <3>3. SieveTypes'
      <4> DEFINE x == [main[p] EXCEPT !.j = @ + 1]
      <4>1. x \in Loops
        BY <2>l DEF Loops
      <4>2. main' = [main EXCEPT ![p] = x]
        BY <3>1, <1>t DEF SieveTypes
      <4> HIDE DEF x
      <4> QED
        BY <3>1, <4>1, <4>2, <2>s, <1>t, LoopsKeepTypes DEF Phases
    <3>4. \A r \in Processes : r # p => main'[r] = main[r] /\ pc'[r] = pc[r]
      BY <3>1, <1>t DEF SieveTypes
    <3>5. main'[p].i = main[p].i /\ pc'[p] = "multiples"
      BY <3>1, <1>t DEF SieveTypes
    <3>6. main[p].i < target
      BY <3>1 DEF Sieved, InStage, InMultiples
    <3>8. ASSUME nopipe = 0 PROVE target % main[p].i # 0
      <4>1. pc[p] \in InStage /\ pc[p] \in InMultiples
        BY <3>1 DEF InStage, InMultiples
      <4>2. main[p].i < target /\ Number(p) \in Others
        BY <3>8, <4>1 DEF Sieved
      <4>3. CASE main[p].j = 1
        BY <4>2, <4>3, <2>i DEF Others, Number, ProperDivisors
      <4>4. CASE main[p].j > 1
        BY <3>8, <4>1, <4>4 DEF Sieved
      <4> QED
        BY <4>2, <4>3, <4>4, <2>i
    <3>7. "multiples" \notin InStage
      BY DEF InStage, HasChild
    <3> QED
      BY <3>1, <3>2, <3>3, <3>4, <3>5, <3>6, <3>7, <3>8, <2>s, <1>c, <1>t DEF Sieved, Number
  <2> QED
    BY <2>1, <2>2, <2>3, <2>4, <2>5, <2>6, <2>7, <2>8, <2>9, <2>10, <2>a, <2>11, <2>12,
       <2>13, <2>14, <2>15 DEF Step
<1> QED
  BY <1>1, <1>2

(* As long as pipes can be made no stage strikes a divisor of the target, for any target
   and any races. *)
THEOREM DivisorsAlwaysStay == Spec => []DivisorsStay
<1>1. Sieved => DivisorsStay
  BY DEF Sieved, Clean, Others, DivisorsStay
<1>2. Spec => [](Chain /\ Flow /\ Sieved)
  <2>1. Spec => []Descriptors
    BY ChainInvariant, DescriptorsInit, DescriptorsStep, PTL DEF Spec
  <2> QED
    BY <2>1, ChainInvariant, FlowInit, FlowStep, SievedInit, SievedStep, PTL DEF Spec
<1> QED
  BY <1>1, <1>2, PTL

--------------------------------------------------------------------------------
(* The verdict. *)

(* The divisors that the loop over i has met when it comes to i. *)
Below(i) == {d \in ProperDivisors : d < i}

(* The factors found by then begin with the least divisor, and then comes itself, if it
   is the square root, or the next one, if there is one. *)
FoundSoFar(found, i) ==
  /\ found \in Seq(ProperDivisors)
  /\ Below(i) = {} => found = <<>>
  /\ Below(i) # {} =>
       LET least == Min(Below(i)) IN
         /\ found # <<>> /\ found[1] = least
         /\ Len(found) >= 2 <=> least * least = target \/ Below(i) # {least}
         /\ Len(found) >= 2 =>
              found[2] = IF least * least = target THEN least
                         ELSE Min(Below(i) \ {least})

(* Divisors come in pairs. *)
LEMMA Cofactor ==
  ASSUME NEW t \in Nat, NEW d \in 2 .. t - 1, t % d = 0
  PROVE  /\ d * (t \div d) = t
         /\ t \div d \in 2 .. t - 1
         /\ t % (t \div d) = 0
         /\ t \div d = d <=> d * d = t
<1> DEFINE q == t \div d
<1>1. d \in Nat /\ d >= 2 /\ t > d
  BY SMT
<1>2. q \in Nat /\ t = d * q
  BY <1>1, SMT
<1> HIDE DEF q
<1>3. q # 0 /\ q # 1
  BY <1>1, <1>2, SMT
<1>4. t = q * d
  BY <1>1, <1>2, SMT
<1>5. t = 2 * q + q * (d - 2) /\ q * (d - 2) \in Nat
  <2>1. d - 2 \in Nat
    BY <1>1
  <2>2. q * (d - 2) \in Nat
    BY <1>2, <2>1, SMT
  <2>3. q * d = 2 * q + q * (d - 2)
    BY <1>1, <1>2, SMT
  <2> QED
    BY <1>4, <2>2, <2>3
<1>6. q < t
  BY <1>2, <1>3, <1>5, SMT
<1>7. t % q = 0
  BY <1>1, <1>2, <1>3, <1>4, SMT
<1>8. ASSUME d * d = t PROVE q = d
  <2>1. d * (d - q) = 0
    BY <1>1, <1>2, <1>8, SMT
  <2> QED
    BY <1>1, <1>2, <2>1, SMT
<1>9. q = d => d * d = t
  BY <1>2
<1> QED
  BY <1>2, <1>3, <1>6, <1>7, <1>8, <1>9 DEF q

(* A number that is no divisor changes nothing. *)
LEMMA NumberPassed ==
  ASSUME NEW found, NEW i \in Nat, i \notin ProperDivisors, FoundSoFar(found, i)
  PROVE  FoundSoFar(found, i + 1)
<1>1. Below(i + 1) = Below(i)
  BY DEF Below, ProperDivisors
<1> QED
  BY <1>1 DEF FoundSoFar

(* A divisor is entered, or the square root twice. *)
LEMMA DivisorEntered ==
  ASSUME target \in Nat, NEW found, NEW i \in ProperDivisors, FoundSoFar(found, i)
  PROVE  FoundSoFar(found \o (IF target \div i = i THEN <<i, i>> ELSE <<i>>), i + 1)
<1> DEFINE more == IF target \div i = i THEN <<i, i>> ELSE <<i>>
           all == found \o more
<1>1. i \in Nat /\ Below(i) \in SUBSET Nat /\ Below(i + 1) \in SUBSET Nat
  BY DEF Below, ProperDivisors
<1>2. Below(i + 1) = Below(i) \cup {i} /\ \A d \in Below(i) : d < i
  BY DEF Below, ProperDivisors
<1>3. /\ more \in Seq(ProperDivisors) /\ more[1] = i /\ Len(more) >= 1
      /\ Len(more) >= 2 <=> target \div i = i
      /\ Len(more) >= 2 => more[2] = i
  OBVIOUS
<1>4. target \div i = i <=> i * i = target
  BY Cofactor DEF ProperDivisors
<1>5. found \in Seq(ProperDivisors)
  BY DEF FoundSoFar
<1> HIDE DEF more
<1>6. /\ all \in Seq(ProperDivisors) /\ Len(all) = Len(found) + Len(more)
      /\ Len(found) \in Nat /\ Len(more) \in Nat
      /\ \A k \in 1 .. Len(all) :
           all[k] = IF k =< Len(found) THEN found[k] ELSE more[k - Len(found)]
  BY <1>3, <1>5
<1>7. Below(i + 1) # {}
  BY <1>2
<1> DEFINE least == Min(Below(i + 1))
<1>8. CASE Below(i) = {}
  <2>1. Below(i + 1) = {i} /\ least = i
    BY <1>1, <1>2, <1>8, MinWhenLeast
  <2>2. all = more
    BY <1>3, <1>8 DEF FoundSoFar
  <2> QED
    BY <1>3, <1>4, <1>7, <2>1, <2>2 DEF FoundSoFar, more
<1>9. CASE Below(i) # {}
  <2>1. Min(Below(i)) \in Below(i) /\ \A d \in Below(i) : Min(Below(i)) =< d
    BY <1>1, <1>9, MinBelongs, MinIsLeast
  <2>2. least = Min(Below(i))
    <3>1. Min(Below(i)) \in Below(i + 1) /\ \A d \in Below(i + 1) : Min(Below(i)) =< d
      BY <1>1, <1>2, <2>1
    <3> QED
      BY <1>1, <3>1, MinWhenLeast
  <2> HIDE DEF least
  <2>3. /\ found # <<>> /\ found[1] = least
        /\ Len(found) >= 2 <=> least * least = target \/ Below(i) # {least}
        /\ Len(found) >= 2 =>
             found[2] = IF least * least = target THEN least ELSE Min(Below(i) \ {least})
    BY <1>9, <2>2 DEF FoundSoFar
  <2>4. Len(found) >= 1
    BY <1>5, <2>3
  <2>5. Len(all) >= 2 /\ all[1] = least /\ all # <<>>
    BY <1>3, <1>6, <2>3, <2>4
  <2>6. Below(i + 1) # {least} /\ least \in Below(i) /\ least < i
    <3>1. least \in Below(i) /\ least < i /\ i \in Below(i + 1)
      BY <1>2, <2>1, <2>2
    <3> QED
      BY <1>1, <3>1
  <2>7. all[2] = IF least * least = target THEN least ELSE Min(Below(i + 1) \ {least})
    <3>1. CASE Len(found) >= 2
      <4>1. all[2] = found[2]
        BY <1>6, <2>5, <3>1
      <4>2. CASE least * least = target
        BY <2>3, <3>1, <4>1, <4>2
      <4>3. CASE least * least # target
        <5> DEFINE next == Min(Below(i) \ {least})
        <5>1. Below(i) \ {least} # {} /\ Below(i) \ {least} \in SUBSET Nat
          BY <1>1, <2>3, <2>6, <3>1, <4>3
        <5>2. next \in Below(i) \ {least} /\ \A d \in Below(i) \ {least} : next =< d
          BY <5>1, MinBelongs, MinIsLeast
        <5>3. /\ Below(i + 1) \ {least} \in SUBSET Nat /\ next \in Below(i + 1) \ {least}
              /\ \A d \in Below(i + 1) \ {least} : next =< d
          BY <1>1, <1>2, <5>2
        <5> HIDE DEF next
        <5>4. Min(Below(i + 1) \ {least}) = next
          BY <5>3, MinWhenLeast
        <5> QED
          BY <2>3, <3>1, <4>1, <4>3, <5>4 DEF next
      <4> QED
        BY <4>2, <4>3
    <3>2. CASE ~ (Len(found) >= 2)
      <4>1. least * least # target /\ Below(i) = {least}
        BY <2>3, <3>2
      <4>n. Len(found) = 1
        <5> DEFINE n == Len(found)
        <5>1. n \in Nat /\ n >= 1 /\ ~ (n >= 2)
          BY <1>6, <2>4, <3>2
        <5> HIDE DEF n
        <5>2. n = 1
          BY <5>1
        <5> QED
          BY <5>2 DEF n
      <4>2. all[2] = i
        BY <1>3, <1>6, <2>5, <4>n
      <4>3. Below(i + 1) \ {least} = {i}
        BY <1>2, <2>6, <4>1
      <4>4. Min({i}) = i
        BY <1>1, MinWhenLeast
      <4> QED
        BY <4>1, <4>2, <4>3, <4>4
    <3> QED
      BY <3>1, <3>2
  <2> QED
    <3>1. all \in Seq(ProperDivisors) /\ Len(all) >= 2 /\ all[1] = least /\ all # <<>>
      BY <1>6, <2>5
    <3> HIDE DEF all
    <3>2. FoundSoFar(all, i + 1)
      BY <1>7, <2>6, <2>7, <3>1 DEF FoundSoFar, least
    <3> QED
      BY <3>2 DEF all, more
<1> QED
  BY <1>8, <1>9 DEF more

(* Every copy of the loops has found what is to be found up to its number (as long as
   all the pipes were made). *)
Divided ==
  /\ \A p \in Processes : FoundSoFar(main[p].factor_list, main[p].i)
  /\ \A p \in Processes : pc[p] = "report" => main[p].i >= target

LEMMA DividedInit == Init => Divided
<1> SUFFICES ASSUME Init PROVE Divided
  OBVIOUS
<1>1. \A p \in Processes : main[p].i = 2 /\ main[p].factor_list = <<>> /\ pc[p] # "report"
  BY DEF Init
<1>2. Below(2) = {}
  BY DEF Below, ProperDivisors
<1>3. <<>> \in Seq(ProperDivisors)
  OBVIOUS
<1>4. FoundSoFar(<<>>, 2)
  BY <1>2, <1>3 DEF FoundSoFar
<1> QED
  BY <1>1, <1>4 DEF Divided

LEMMA DividedStep == Sieved /\ nopipe = 0 /\ Divided /\ [Next]_vars => Divided'
<1> SUFFICES ASSUME Sieved, nopipe = 0, Divided, [Next]_vars PROVE Divided'
  OBVIOUS
<1>t. /\ target \in Nat /\ pc \in [Processes -> Phases] /\ main \in [Processes -> Loops]
  BY DEF Sieved, SieveTypes
<1>1. CASE UNCHANGED vars
  BY <1>1 DEF Divided, FoundSoFar, Below, ProperDivisors, vars
<1>2. CASE Next
  <2> PICK p \in Processes : Step(p)
    BY <1>2 DEF Next
  <2>s. target' = target
    BY DEF Step, NextNumber, NextMultiple, Factor, Report, make_stage, ForkFails, Take, Pass,
           FilterRead, FilterWrite, FreeAborts, CloseAll, WaitForChild, ChildCloses, Get, Put
  (* What every process has found, in the states before and after the step. *)
  <2>d. ASSUME \A q \in Processes : FoundSoFar(main'[q].factor_list, main'[q].i),
               \A q \in Processes : pc'[q] = "report" => main'[q].i >= target
        PROVE  Divided'
    BY <2>d, <2>s DEF Divided, FoundSoFar, Below, ProperDivisors
  <2>l. main[p] \in Loops
    BY <1>t
  <2>i. main[p].i \in Nat \ {0, 1} /\ main[p].j \in Nat \ {0}
    BY <2>l DEF Loops
  (* A step of p that leaves the loops alone, but for j and the filters. *)
  <2>m. ASSUME \A q \in Processes : /\ main'[q].i = main[q].i
                                   /\ main'[q].factor_list = main[q].factor_list,
               NEW to \in Phases, pc' = [pc EXCEPT ![p] = to],
               to = "report" => main[p].i >= target
        PROVE  Divided'
    <3>1. \A q \in Processes : pc'[q] = "report" => main[q].i >= target
      BY <2>m, <1>t DEF Divided
    <3> QED
      BY <2>m, <3>1, <2>d DEF Divided
  (* A step of p to the next number. *)
  <2>n. ASSUME NEW found, main' = [main EXCEPT ![p].factor_list = found, ![p].i = @ + 1],
               FoundSoFar(found, main[p].i + 1),
               pc' = [pc EXCEPT ![p] = "numbers"]
        PROVE  Divided'
    <3>1. \A q \in Processes \ {p} : main'[q] = main[q] /\ pc'[q] = pc[q]
      BY <2>n, <1>t
    <3>2. main'[p].factor_list = found /\ main'[p].i = main[p].i + 1 /\ pc'[p] = "numbers"
      BY <2>n, <2>l, <1>t DEF Loops
    <3> QED
      BY <2>n, <3>1, <3>2, <2>d DEF Divided
  <2>1. CASE NextNumber(p)
    <3>1. /\ \A q \in Processes : /\ main'[q].i = main[q].i
                                  /\ main'[q].factor_list = main[q].factor_list
      <4>1. \/ main' = main
            \/ \E n : main' = [main EXCEPT ![p].j = 1, ![p].filters = n]
        BY <2>1 DEF NextNumber
      <4>2. ASSUME NEW n, main' = [main EXCEPT ![p].j = 1, ![p].filters = n]
            PROVE  /\ main'[p].i = main[p].i /\ main'[p].factor_list = main[p].factor_list
                   /\ \A q \in Processes \ {p} : main'[q] = main[q]
        BY <4>2, <2>l, <1>t DEF Loops
      <4> QED
        BY <4>1, <4>2
    <3>2. CASE main[p].i < target
      BY <2>1, <2>m, <3>1, <3>2 DEF NextNumber, Phases
    <3>3. CASE ~ (main[p].i < target)
      <4>1. main[p].i >= target
        BY <3>3, <2>i, <1>t
      <4> QED
        BY <2>1, <2>m, <3>1, <3>3, <4>1 DEF NextNumber, Phases
    <3> QED
      BY <3>2, <3>3
  <2>2. CASE NextMultiple(p)
    <3>a. pc[p] = "multiples" /\ pc[p] \in InMultiples
      BY <2>2 DEF NextMultiple, InMultiples
    <3>1. CASE Number(p) >= target
      <4>1. main' = [main EXCEPT ![p].i = @ + 1] /\ pc' = [pc EXCEPT ![p] = "numbers"]
        BY <2>2, <3>1 DEF NextMultiple
      <4>2. main[p].i < target /\ (main[p].j > 1 => target % main[p].i # 0)
        BY <3>a DEF Sieved
      <4>3. main[p].j > 1
        <5>1. main[p].j = 1 => Number(p) = main[p].i
          BY <2>i DEF Number
        <5>2. main[p].j # 1
          BY <5>1, <4>2, <3>1, <2>i, <1>t
        <5> QED
          BY <5>2, <2>i
      <4>4. main[p].i \notin ProperDivisors
        BY <4>2, <4>3 DEF ProperDivisors
      <4>5. FoundSoFar(main[p].factor_list, main[p].i)
        BY <3>a DEF Divided
      <4>6. FoundSoFar(main[p].factor_list, main[p].i + 1)
        BY <4>4, <4>5, <2>i, NumberPassed
      <4>7. main' = [main EXCEPT ![p].factor_list = main[p].factor_list, ![p].i = @ + 1]
        BY <4>1, <2>l, <1>t DEF Loops
      <4> QED
        BY <4>1, <4>6, <4>7, <2>n
    <3>2. CASE ~ (Number(p) >= target)
      <4>1. main' = [main EXCEPT ![p].j = @ + 1] /\ pc' = pc
        BY <2>2, <3>2 DEF NextMultiple
      <4>2. pc' = [pc EXCEPT ![p] = "multiples"]
        BY <4>1, <3>a, <1>t
      <4>3. \A q \in Processes : /\ main'[q].i = main[q].i
                                 /\ main'[q].factor_list = main[q].factor_list
        BY <4>1, <2>l, <1>t DEF Loops
      <4> QED
        BY <3>a, <4>2, <4>3, <2>m DEF Phases
    <3> QED
      BY <3>1, <3>2
  <2>3. CASE Factor(p)
    <3> DEFINE found == IF target \div Number(p) = Number(p) THEN <<Number(p), Number(p)>>
                        ELSE <<Number(p)>>
    <3>1. /\ main' = [main EXCEPT ![p].factor_list = @ \o found, ![p].i = @ + 1]
          /\ pc' = [pc EXCEPT ![p] = "numbers"]
          /\ pc[p] = "multiples" /\ target % Number(p) = 0 /\ main[p].j = 1
      BY <2>3 DEF Factor, AtListed, IsFactor
    <3>2. Number(p) = main[p].i
      BY <3>1, <2>i DEF Number
    <3>3. main[p].i < target
      BY <3>1 DEF Sieved, InMultiples
    <3>4. Number(p) \in ProperDivisors
      BY <3>1, <3>2, <3>3, <2>i, <1>t DEF ProperDivisors
    <3>5. FoundSoFar(main[p].factor_list, Number(p))
      BY <3>1, <3>2 DEF Divided
    <3>6. FoundSoFar(main[p].factor_list \o found, Number(p) + 1)
      BY <3>4, <3>5, <1>t, DivisorEntered
    <3> HIDE DEF found
    <3>7. main' = [main EXCEPT ![p].factor_list = main[p].factor_list \o found, ![p].i = @ + 1]
      BY <3>1
    <3> QED
      BY <3>1, <3>2, <3>6, <3>7, <2>n
  <2>4. CASE make_stage(p)
    <3>1. /\ p + 1 \in Processes /\ pc[p] = "multiples"
          /\ main' = [main EXCEPT ![p + 1] = main[p]]
          /\ pc' = [pc EXCEPT ![p] = "take", ![p + 1] = "child"]
      BY <2>4 DEF make_stage, AtListed
    <3>2. /\ main'[p] = main[p] /\ main'[p + 1] = main[p]
          /\ pc'[p] = "take" /\ pc'[p + 1] = "child"
          /\ \A q \in Processes \ {p, p + 1} : main'[q] = main[q] /\ pc'[q] = pc[q]
      BY <3>1, <1>t DEF Processes
    <3> QED
      BY <3>1, <3>2, <2>d DEF Divided
  <2>5. CASE ForkFails(p)
    BY <2>5, <2>m DEF ForkFails, AtListed, Phases
  <2>6. CASE Report(p)
    BY <2>6, <2>m DEF Report, Phases
  <2>7. CASE Take(p) \/ Pass(p) \/ FilterRead(p) \/ FilterWrite(p)
    BY <2>7, <2>m DEF Take, Pass, FilterRead, FilterWrite, Phases
  <2>8. CASE FreeAborts(p) \/ CloseAll(p) \/ WaitForChild(p) \/ ChildCloses(p) \/ Get(p)
    BY <2>8, <2>m DEF FreeAborts, CloseAll, WaitForChild, ChildCloses, Get, Phases
  <2>9. CASE Put(p)
    <3>1. /\ \A q \in Processes : /\ main'[q].i = main[q].i
                                  /\ main'[q].factor_list = main[q].factor_list
      BY <2>9, <2>l, <1>t DEF Put, Loops
    <3> QED
      BY <2>9, <3>1, <2>m DEF Put, Phases
  <2> QED
    BY <2>1, <2>2, <2>3, <2>4, <2>5, <2>6, <2>7, <2>8, <2>9 DEF Step
<1> QED
  BY <1>1, <1>2

(* The filters that are counted: the numbers up to the first one that is no divisor. *)
Counts ==
  IF Others = {} THEN Cardinality(ProperDivisors) ELSE Min(Others) - 1

(* Only the first process counts, with a list from which nothing is struck, until it
   forks: it has met divisors only.  Its children have its count.  (As long as all the
   pipes were made.) *)
Counted ==
  /\ pc[1] # "none"
  /\ pc[1] \in {"numbers", "multiples", "report"} =>
       /\ list[1] = {}
       /\ main[1].filters = IF pc[1] = "multiples" THEN main[1].i - 1 ELSE main[1].i - 2
       /\ main[1].i =< target \/ main[1].i = 2
  /\ pc[1] \in InMultiples \cup {"numbers", "report"} =>
       \A d \in Nat : 2 =< d /\ d < main[1].i => d \in ProperDivisors
  /\ pc[1] \in InMultiples => main[1].j = 1
  /\ pc[1] = "aborted" => target % 2 = 0
  /\ \A p \in Processes :
       pc[p] # "none" /\ (p # 1 \/ pc[p] \in HasChild) => main[p].filters = Counts

LEMMA CountedInit == Init => Counted
<1> SUFFICES ASSUME Init PROVE Counted
  OBVIOUS
<1>1. 1 \in Processes
  BY PfactAssumption DEF Processes
<1>2. pc[1] = "numbers" /\ \A p \in Processes \ {1} : pc[p] = "none"
  BY <1>1 DEF Init
<1>3. list[1] = {} /\ main[1].i = 2 /\ main[1].filters = 0
  BY <1>1 DEF Init, make_list
<1> QED
  BY <1>1, <1>2, <1>3 DEF Counted, HasChild, InMultiples, InStage

LEMMA CountedStep ==
  Chain /\ Flowing /\ Sieved /\ nopipe = 0 /\ Counted /\ [Next]_vars => Counted'
<1> SUFFICES ASSUME Chain, Flowing, Sieved, nopipe = 0, Counted, [Next]_vars PROVE Counted'
  OBVIOUS
<1>t. /\ target \in Nat /\ pc \in [Processes -> Phases] /\ main \in [Processes -> Loops]
      /\ list \in [Processes -> Clean]
  BY DEF Sieved, SieveTypes
<1>c. target' = target => Others' = Others /\ ProperDivisors' = ProperDivisors /\ Counts' = Counts
  BY DEF Others, ProperDivisors, Counts
<1>p. 1 \in Processes
  BY PfactAssumption DEF Processes
<1>i. main[1].i \in Nat \ {0, 1} /\ main[1].filters \in Nat
  BY <1>t, <1>p DEF Loops
<1>1. CASE UNCHANGED vars
  BY <1>1, <1>c DEF Counted, vars
<1>2. CASE Next
  <2> PICK p \in Processes : Step(p)
    BY <1>2 DEF Next
  <2>s. target' = target
    BY DEF Step, NextNumber, NextMultiple, Factor, Report, make_stage, ForkFails, Take, Pass,
           FilterRead, FilterWrite, FreeAborts, CloseAll, WaitForChild, ChildCloses, Get, Put
  <2>l. main[p] \in Loops
    BY <1>t
  <2>j. ASSUME NEW n, main' = [main EXCEPT ![p].j = n]
        PROVE  /\ \A q \in Processes : main'[q].filters = main[q].filters
               /\ \A q \in Processes \ {p} : main'[q] = main[q]
    BY <2>j, <2>l, <1>t DEF Loops
  <2>i. ASSUME NEW n, main' = [main EXCEPT ![p].i = n]
        PROVE  /\ \A q \in Processes : main'[q].filters = main[q].filters
               /\ \A q \in Processes \ {p} : main'[q] = main[q]
    BY <2>i, <2>l, <1>t DEF Loops
  (* A step of another process than the first, that does not count. *)
  <2>o. ASSUME p # 1, pc[p] # "none", NEW to, pc' = [pc EXCEPT ![p] = to],
               main'[1] = main[1], list'[1] = list[1],
               \A q \in Processes : main'[q].filters = main[q].filters
        PROVE  Counted'
    <3>1. pc'[1] = pc[1] /\ \A q \in Processes \ {p} : pc'[q] = pc[q]
      BY <2>o, <1>p, <1>t
    <3>2. \A q \in Processes :
            pc'[q] # "none" /\ (q # 1 \/ pc'[q] \in HasChild) => main'[q].filters = Counts
      BY <2>o, <3>1 DEF Counted
    <3> HIDE <2>o
    <3> QED
      BY <2>o, <3>1, <3>2, <2>s, <1>c DEF Counted
  (* A step of the first process that has forked, or failed to. *)
  <2>w. ASSUME p = 1, pc[1] \in InStage,
               NEW to \in HasChild \cup {"exited", "get", "aborted"},
               to \in HasChild => pc[1] \in HasChild, to = "aborted" => target % 2 = 0,
               pc' = [pc EXCEPT ![p] = to], main' = main
        PROVE  Counted'
    <3>1. pc'[1] = to /\ \A q \in Processes \ {1} : pc'[q] = pc[q]
      BY <2>w, <1>p, <1>t
    <3>2. to \notin {"numbers", "multiples", "report", "none"} /\ pc[1] \in InMultiples
      BY <2>w DEF HasChild, InMultiples
    <3>3. \A q \in Processes :
            pc'[q] # "none" /\ (q # 1 \/ pc'[q] \in HasChild) => main'[q].filters = Counts
      BY <2>w, <3>1 DEF Counted, HasChild, InMultiples, InStage
    <3>4. /\ \A d \in Nat : 2 =< d /\ d < main[1].i => d \in ProperDivisors
          /\ main[1].j = 1
      BY <3>2 DEF Counted
    <3> QED
      BY <2>w, <3>1, <3>2, <3>3, <3>4, <2>s, <1>c DEF Counted
  <2>1. CASE NextNumber(p)
    <3>1. CASE p # 1
      <4>1. \/ main' = main
            \/ main' = [main EXCEPT ![p].j = 1, ![p].filters = @]
        BY <2>1, <3>1 DEF NextNumber
      <4>2. main'[1] = main[1] /\ \A q \in Processes : main'[q].filters = main[q].filters
        <5>1. ASSUME main' = [main EXCEPT ![p].j = 1, ![p].filters = @]
              PROVE  /\ \A q \in Processes : main'[q].filters = main[q].filters
                     /\ \A q \in Processes \ {p} : main'[q] = main[q]
          BY <5>1, <2>l, <1>t DEF Loops
        <5> QED
          BY <4>1, <5>1, <3>1, <1>p
      <4>3. pc[p] = "numbers" /\ \E to : pc' = [pc EXCEPT ![p] = to]
        BY <2>1 DEF NextNumber
      <4> QED
        BY <3>1, <4>2, <4>3, <2>1, <2>o DEF NextNumber
    <3>2. CASE p = 1
      <4>1. /\ list[1] = {}
            /\ \A d \in Nat : 2 =< d /\ d < main[1].i => d \in ProperDivisors
            /\ main[1].filters = main[1].i - 2
            /\ main[1].i =< target \/ main[1].i = 2
        BY <2>1, <3>2 DEF NextNumber, Counted, InMultiples, InStage, HasChild
      <4>2. CASE main[1].i < target
        <5>1. main[1].i \in (2 .. target) \ list[1]
          BY <4>1, <4>2, <1>i, <1>t
        <5>2. is_in_list(main[1].i, list[1])
          BY <5>1 DEF is_in_list
        <5>3. /\ main' = [main EXCEPT ![1].j = 1, ![1].filters = @ + 1]
              /\ pc' = [pc EXCEPT ![1] = "multiples"] /\ list' = list
          BY <2>1, <3>2, <4>2, <5>2 DEF NextNumber
        <5>4. /\ main'[1].i = main[1].i /\ main'[1].j = 1
              /\ main'[1].filters = main[1].filters + 1
              /\ \A q \in Processes \ {1} : main'[q] = main[q]
          BY <5>3, <1>p, <1>t DEF Loops
        <5>5. pc'[1] = "multiples" /\ \A q \in Processes \ {1} : pc'[q] = pc[q]
          BY <5>3, <1>p, <1>t
        <5>6. main'[1].filters = main'[1].i - 1
          BY <4>1, <5>4, <1>i
        <5> QED
          BY <4>1, <5>3, <5>4, <5>5, <5>6, <2>s, <1>c DEF Counted, HasChild, InMultiples, InStage
      <4>3. CASE ~ (main[1].i < target)
        <5>1. pc' = [pc EXCEPT ![1] = "report"] /\ main' = main /\ list' = list
          BY <2>1, <3>2, <4>3 DEF NextNumber
        <5>2. pc'[1] = "report" /\ \A q \in Processes \ {1} : pc'[q] = pc[q]
          BY <5>1, <1>p, <1>t
        <5> QED
          BY <4>1, <5>1, <5>2, <2>s, <1>c DEF Counted, HasChild, InMultiples, InStage
      <4> QED
        BY <4>2, <4>3
    <3> QED
      BY <3>1, <3>2
  <2>2. CASE NextMultiple(p)
    <3>1. p # 1
      <4> SUFFICES ASSUME p = 1 PROVE FALSE
        OBVIOUS
      <4>1. pc[1] = "multiples" /\ (Number(1) >= target \/ ~ is_in_list(Number(1), list[1]))
        BY <2>2 DEF NextMultiple
      <4>2. main[1].j = 1 /\ list[1] = {}
        BY <4>1 DEF Counted, InMultiples
      <4>3. Number(1) = main[1].i
        BY <4>2, <1>i DEF Number
      <4>4. main[1].i < target
        BY <4>1, <1>p DEF Sieved, InMultiples
      <4>5. main[1].i \in (2 .. target) \ list[1]
        BY <4>2, <4>4, <1>i, <1>t
      <4>6. is_in_list(main[1].i, list[1])
        BY <4>5 DEF is_in_list
      <4> QED
        BY <4>1, <4>3, <4>4, <4>6, <1>i, <1>t
    <3>2. /\ \/ main' = [main EXCEPT ![p].i = @ + 1]
             \/ main' = [main EXCEPT ![p].j = @ + 1]
          /\ list' = list /\ pc[p] = "multiples"
      BY <2>2 DEF NextMultiple
    <3>3. \E to : pc' = [pc EXCEPT ![p] = to]
      <4>1. pc' = [pc EXCEPT ![p] = "numbers"] \/ pc' = [pc EXCEPT ![p] = "multiples"]
        BY <2>2, <1>t DEF NextMultiple
      <4> QED
        BY <4>1
    <3>4. main'[1] = main[1] /\ \A q \in Processes : main'[q].filters = main[q].filters
      BY <3>1, <3>2, <1>p, <2>i, <2>j
    <3> QED
      BY <3>1, <3>2, <3>3, <3>4, <2>o
  <2>3. CASE Factor(p)
    <3>1. /\ \E x : main' = [main EXCEPT ![p].factor_list = x, ![p].i = @ + 1]
          /\ pc' = [pc EXCEPT ![p] = "numbers"] /\ list' = list
          /\ pc[p] = "multiples" /\ target % Number(p) = 0 /\ main[p].j = 1
      BY <2>3 DEF Factor, AtListed, IsFactor
    <3>2. /\ main'[p].i = main[p].i + 1 /\ main'[p].filters = main[p].filters
          /\ \A q \in Processes \ {p} : main'[q] = main[q]
      BY <3>1, <2>l, <1>t DEF Loops
    <3>3. CASE p # 1
      BY <3>1, <3>2, <3>3, <1>p, <2>o
    <3>4. CASE p = 1
      <4>1. Number(1) = main[1].i
        BY <3>1, <3>4, <1>i DEF Number
      <4>2. main[1].i < target
        BY <3>1, <3>4 DEF Sieved, InMultiples
      <4>3. main[1].i \in ProperDivisors
        BY <3>1, <3>4, <4>1, <4>2, <1>i, <1>t DEF ProperDivisors
      <4>4. /\ list[1] = {}
            /\ \A d \in Nat : 2 =< d /\ d < main[1].i => d \in ProperDivisors
            /\ main[1].filters = main[1].i - 1
        BY <3>1, <3>4 DEF Counted, InMultiples
      <4>5. pc'[1] = "numbers" /\ \A q \in Processes \ {1} : pc'[q] = pc[q]
        BY <3>1, <3>4, <1>p, <1>t
      <4>6. \A d \in Nat : 2 =< d /\ d < main[1].i + 1 => d \in ProperDivisors
        <5> SUFFICES ASSUME NEW d \in Nat, 2 =< d, d < main[1].i + 1, d # main[1].i
                     PROVE  d \in ProperDivisors
          BY <4>3
        <5>1. d < main[1].i
          BY <1>i
        <5> QED
          BY <4>4, <5>1
      <4>7. main'[1].filters = main'[1].i - 2 /\ main'[1].i =< target
        BY <3>2, <3>4, <4>2, <4>4, <1>i, <1>t
      <4> QED
        <5>1. /\ list'[1] = {}
              /\ \A d \in Nat : 2 =< d /\ d < main'[1].i => d \in ProperDivisors
          BY <3>1, <3>2, <3>4, <4>4, <4>6
        <5>2. \A q \in Processes : pc'[q] # "none" /\ (q # 1 \/ pc'[q] \in HasChild) =>
                main'[q].filters = Counts
          BY <3>2, <3>4, <4>5 DEF Counted, HasChild, InMultiples, InStage
        <5> QED
          BY <4>5, <4>7, <5>1, <5>2, <2>s, <1>c DEF Counted, InMultiples, InStage, HasChild
    <3> QED
      BY <3>3, <3>4
  <2>4. CASE Report(p)
    <3>1. /\ pc[p] = "report" /\ pc' = [pc EXCEPT ![p] = "exited"]
          /\ main' = main /\ list' = list
      BY <2>4 DEF Report
    <3>2. CASE p # 1
      BY <3>1, <3>2, <2>o
    <3>3. CASE p = 1
      <4>1. pc'[1] = "exited" /\ \A q \in Processes \ {1} : pc'[q] = pc[q]
        BY <3>1, <3>3, <1>p, <1>t
      <4> QED
        BY <3>1, <4>1, <2>s, <1>c DEF Counted, HasChild, InMultiples, InStage
    <3> QED
      BY <3>2, <3>3
  <2>5. CASE make_stage(p)
    <3>1. /\ p + 1 \in Processes /\ pc[p] = "multiples"
          /\ AtListed(p) /\ ~ IsFactor(p)
          /\ main' = [main EXCEPT ![p + 1] = main[p]]
          /\ list' = [list EXCEPT ![p + 1] = list[p]]
          /\ pc' = [pc EXCEPT ![p] = "take", ![p + 1] = "child"]
      BY <2>5 DEF make_stage, AtListed
    <3>2. /\ main'[p] = main[p] /\ main'[p + 1] = main[p]
          /\ pc'[p] = "take" /\ pc'[p + 1] = "child"
          /\ \A q \in Processes \ {p, p + 1} : main'[q] = main[q] /\ pc'[q] = pc[q]
      BY <3>1, <1>t DEF Processes
    <3>3. p + 1 # 1 /\ p \in Nat
      BY DEF Processes
    <3>4. main[p].filters = Counts
      <4>1. CASE p # 1
        BY <3>1, <4>1 DEF Counted
      <4>2. CASE p = 1
        <5>1. /\ main[1].j = 1 /\ main[1].filters = main[1].i - 1
              /\ \A d \in Nat : 2 =< d /\ d < main[1].i => d \in ProperDivisors
          BY <3>1, <4>2 DEF Counted, InMultiples
        <5>2. Number(1) = main[1].i
          BY <5>1, <1>i DEF Number
        <5>3. main[1].i < target /\ target % main[1].i # 0
          BY <3>1, <4>2, <5>1, <5>2 DEF AtListed, IsFactor
        <5>4. main[1].i \in Others
          BY <5>3, <1>i, <1>t DEF Others, ProperDivisors
        <5>5. \A d \in Others : main[1].i =< d
          BY <5>1, <1>i DEF Others
        <5>6. Others \in SUBSET Nat
          BY DEF Others
        <5> DEFINE n == main[1].i
        <5>7. n \in Others /\ \A d \in Others : n =< d
          BY <5>4, <5>5
        <5> HIDE DEF n
        <5>8. Min(Others) = n
          BY <5>6, <5>7, MinWhenLeast
        <5> QED
          BY <4>2, <5>1, <5>7, <5>8 DEF Counts, n
      <4> QED
        BY <4>1, <4>2
    <3>5. \A q \in Processes :
            pc'[q] # "none" /\ (q # 1 \/ pc'[q] \in HasChild) => main'[q].filters = Counts
      BY <3>2, <3>4 DEF Counted
    <3>6. CASE p = 1
      <4>1. /\ \A d \in Nat : 2 =< d /\ d < main[1].i => d \in ProperDivisors
            /\ main[1].j = 1
        BY <3>1, <3>6 DEF Counted, InMultiples
      <4>2. main'[1] = main[1] /\ pc'[1] = "take"
        BY <3>2, <3>6
      <4> QED
        BY <4>1, <4>2, <3>5, <2>s, <1>c DEF Counted
    <3>7. CASE p # 1
      <4>1. pc'[1] = pc[1] /\ main'[1] = main[1] /\ list'[1] = list[1]
        BY <3>1, <3>2, <3>3, <3>7, <1>p, <1>t
      <4> QED
        BY <4>1, <3>5, <2>s, <1>c DEF Counted
    <3> QED
      BY <3>6, <3>7
  <2>6. CASE ForkFails(p)
    <3>1. CASE p # 1
      BY <2>6, <3>1, <2>o DEF ForkFails, AtListed
    <3>2. CASE p = 1
      <4>1. /\ pc[1] = "multiples" /\ pc' = [pc EXCEPT ![1] = "child"]
            /\ main' = main /\ list' = list
        BY <2>6, <3>2 DEF ForkFails, AtListed
      <4>2. pc'[1] = "child" /\ \A q \in Processes \ {1} : pc'[q] = pc[q]
        BY <4>1, <1>p, <1>t
      <4>3. \A q \in Processes :
              pc'[q] # "none" /\ (q # 1 \/ pc'[q] \in HasChild) => main'[q].filters = Counts
        BY <4>1, <4>2 DEF Counted, HasChild
      <4>4. /\ \A d \in Nat : 2 =< d /\ d < main[1].i => d \in ProperDivisors
            /\ main[1].j = 1
        BY <4>1 DEF Counted, InMultiples
      <4> QED
        BY <4>1, <4>2, <4>3, <4>4, <2>s, <1>c DEF Counted
    <3> QED
      BY <3>1, <3>2
  <2>7. CASE Take(p) \/ FilterRead(p)
    <3>1. /\ main' = main /\ pc[p] \in HasChild
          /\ \E to \in HasChild : pc' = [pc EXCEPT ![p] = to]
          /\ \E x : list' = [list EXCEPT ![p] = x]
      BY <2>7 DEF Take, FilterRead, ReadList, ReadFails, HasChild
    <3>2. p # 1 => list'[1] = list[1]
      BY <3>1, <1>p, <1>t
    <3>3. pc[p] # "none" /\ pc[p] \in InStage
      BY <3>1 DEF HasChild, InStage
    <3>4. \A to \in HasChild : to # "aborted"
      BY DEF HasChild
    <3> QED
      BY <3>1, <3>2, <3>3, <3>4, <2>o, <2>w
  <2>8. CASE Pass(p) \/ FilterWrite(p) \/ CloseAll(p) \/ WaitForChild(p)
    <3>1. /\ main' = main /\ pc[p] \in HasChild /\ list' = list
          /\ \E to \in HasChild \cup {"exited"} : pc' = [pc EXCEPT ![p] = to]
      BY <2>8 DEF Pass, FilterWrite, CloseAll, WaitForChild, HasChild
    <3>2. pc[p] # "none" /\ pc[p] \in InStage
      BY <3>1 DEF HasChild, InStage
    <3>3. \A to \in HasChild \cup {"exited"} : to # "aborted"
      BY DEF HasChild
    <3> QED
      BY <3>1, <3>2, <3>3, <2>o, <2>w
  <2>a. CASE FreeAborts(p)
    <3>1. /\ main' = main /\ pc[p] = "close" /\ list' = list
          /\ pc' = [pc EXCEPT ![p] = "aborted"]
          /\ Number(p) # 2
      BY <2>a DEF FreeAborts, FreesWithin
    <3>2. p = 1
      BY <3>1 DEF Flowing
    <3>3. pc[1] \in InStage /\ pc[1] \in HasChild /\ pc[1] \in InMultiples
      BY <3>1, <3>2 DEF InStage, HasChild, InMultiples
    <3>4. /\ \A d \in Nat : 2 =< d /\ d < main[1].i => d \in ProperDivisors
          /\ main[1].j = 1
      BY <3>3 DEF Counted
    <3>5. main[1].i # 2
      BY <3>1, <3>2, <3>4 DEF Number
    <3>6. 2 < main[1].i
      BY <3>5, <1>i
    <3>7. 2 \in ProperDivisors
      BY <3>4, <3>6
    <3>8. target % 2 = 0
      BY <3>7 DEF ProperDivisors
    <3> QED
      BY <3>1, <3>2, <3>3, <3>8, <2>w
  <2>9. CASE ChildCloses(p)
    <3>1. /\ pc[p] = "child" /\ pc' = [pc EXCEPT ![p] = "get"]
          /\ main' = main /\ list' = list
      BY <2>9 DEF ChildCloses
    <3>2. pc[p] \in InStage /\ "get" \notin HasChild
      BY <3>1 DEF InStage, HasChild
    <3> QED
      BY <3>1, <3>2, <2>o, <2>w
  <2>10. CASE Get(p) \/ Put(p)
    <3>1. p # 1 /\ pc[p] # "none"
      <4>1. CASE Get(p)
        BY <4>1, NoReadFails DEF Get
      <4>2. CASE Put(p)
        BY <4>2 DEF Put, Flowing
      <4> QED
        BY <2>10, <4>1, <4>2
    <3>2. /\ \E to : pc' = [pc EXCEPT ![p] = to]
          /\ main' = main \/ main' = [main EXCEPT ![p].j = @ + 1]
          /\ list' = list \/ \E x : list' = [list EXCEPT ![p] = x]
      BY <2>10 DEF Get, Put, ReadList
    <3>3. main'[1] = main[1] /\ \A q \in Processes : main'[q].filters = main[q].filters
      BY <3>1, <3>2, <1>p, <2>j
    <3>4. list'[1] = list[1]
      BY <3>1, <3>2, <1>p, <1>t
    <3> QED
      BY <3>1, <3>2, <3>3, <3>4, <2>o
  <2> QED
    BY <2>1, <2>2, <2>3, <2>4, <2>5, <2>6, <2>7, <2>8, <2>a, <2>9, <2>10 DEF Step
<1> QED
  BY <1>1, <1>2

(* What has been found and counted, as long as all the pipes were made. *)
Tally == nopipe = 0 => Divided /\ Counted

LEMMA TallyInit == Init => Tally
BY DividedInit, CountedInit DEF Tally

LEMMA TallyStep == Chain /\ Flow /\ Sieved /\ Tally /\ [Next]_vars => Tally'
<1> SUFFICES ASSUME Chain, Flow, Sieved, Tally, [Next]_vars, nopipe' = 0
             PROVE  Divided' /\ Counted'
  BY DEF Tally
<1>1. nopipe = 0 /\ Flowing /\ Divided /\ Counted
  BY PipesMade DEF Flow, Tally
<1> QED
  BY <1>1, DividedStep, CountedStep

(* All of these hold together. *)
LEMMA SieveInvariant == Spec => [](Chain /\ Descriptors /\ Flow /\ Sieved /\ Tally)
<1>1. Spec => [](Chain /\ Descriptors)
  BY ChainInvariant, DescriptorsInit, DescriptorsStep, PTL DEF Spec
<1> QED
  BY <1>1, FlowInit, FlowStep, SievedInit, SievedStep, TallyInit, TallyStep, PTL DEF Spec

(* Whoever exits has the verdict before, or an abort to thank for it, and an abort is
   the first process's, for an even number: unless a pipe could not be made. *)
THEOREM EndIsOrderly == Spec => []OrderlyEnd
<1>1. Chain => ExitsAfterVerdict
  BY DEF Chain, ExitsAfterVerdict
<1>2. Flow /\ Tally => AbortsOnlyEven
  BY DEF Flow, Flowing, Tally, Counted, AbortsOnlyEven
<1> QED
  BY <1>1, <1>2, SieveInvariant, OneReports, NoOrphans, PTL DEF OrderlyEnd

(* At the end of the loops every divisor has been met. *)
LEMMA AllFound ==
  ASSUME Sieved, nopipe = 0, Divided, NEW p \in Processes, pc[p] = "report"
  PROVE  /\ FoundSoFar(main[p].factor_list, main[p].i)
         /\ Below(main[p].i) = ProperDivisors
<1>1. main[p].i \in Nat /\ main[p].i >= target /\ target \in Nat
  BY DEF Sieved, SieveTypes, Loops, Divided
<1> QED
  BY <1>1 DEF Divided, Below, ProperDivisors

(* What Report says: the least divisor and the next one, or the square root twice. *)
LEMMA SaysWhatIsFound ==
  ASSUME Sieved, nopipe = 0, Divided, NEW p \in Processes, Report(p)
  PROVE  \E says :
           /\ output' = Append(output, [says |-> says, filters |-> main[p].filters])
           /\ says = IF ProperDivisors = {} THEN <<"prime">>
                     ELSE LET least == Min(ProperDivisors) IN
                            <<least, IF least * least = target THEN least
                                     ELSE Min(ProperDivisors \ {least})>>
<1> DEFINE found == main[p].factor_list
           primes == {k \in DOMAIN found : is_in_list(found[k], list[p])}
           says == CASE Cardinality(primes) >= 2 ->
                          <<found[Min(primes)], found[Min(primes \ {Min(primes)})]>>
                     [] Cardinality(primes) < 2 /\ found = <<>> -> <<"prime">>
                     [] OTHER -> <<"not the product of two primes">>
           least == Min(ProperDivisors)
<1>1. output' = Append(output, [says |-> says, filters |-> main[p].filters])
  BY DEF Report
<1>2. FoundSoFar(found, main[p].i) /\ Below(main[p].i) = ProperDivisors
  BY AllFound DEF Report
<1>3. target \in Nat /\ found \in Seq(ProperDivisors)
  BY <1>2 DEF Sieved, SieveTypes, FoundSoFar
<1>4. primes = DOMAIN found
  <2>1. ASSUME NEW k \in DOMAIN found PROVE is_in_list(found[k], list[p])
    <3> DEFINE n == found[k]
    <3>1. n \in ProperDivisors
      BY <1>3
    <3> HIDE DEF n
    <3>2. n \in 2 .. target - 1 /\ target % n = 0
      BY <3>1 DEF ProperDivisors
    <3>3. is_in_list(n, list[p])
      BY <3>2, DivisorIsListed
    <3> QED
      BY <3>3 DEF n
  <2> QED
    BY <2>1
<1>5. DOMAIN found = 1 .. Len(found) /\ Len(found) \in Nat
  BY <1>3
<1>6. Cardinality(primes) = Len(found)
  <2> DEFINE n == Len(found)
  <2>1. n \in Nat /\ primes = 1 .. n
    BY <1>4, <1>5
  <2> HIDE DEF n, primes
  <2>2. Cardinality(1 .. n) = n
    BY <2>1, FS_Interval
  <2> QED
    BY <2>1, <2>2 DEF n
<1>7. CASE ProperDivisors = {}
  <2>1. found = <<>>
    BY <1>2, <1>7 DEF FoundSoFar
  <2>2. Len(found) = 0
    BY <2>1
  <2> HIDE DEF found, primes
  <2>3. ~ (Cardinality(primes) >= 2) /\ Cardinality(primes) < 2
    BY <1>6, <2>2
  <2>4. says = <<"prime">>
    BY <2>1, <2>3
  <2> HIDE DEF says
  <2> QED
    BY <1>1, <1>7, <2>4
<1>8. CASE ProperDivisors # {}
  <2>1. /\ found # <<>> /\ found[1] = least
        /\ Len(found) >= 2 <=> least * least = target \/ ProperDivisors # {least}
        /\ Len(found) >= 2 =>
             found[2] = IF least * least = target THEN least ELSE Min(ProperDivisors \ {least})
    BY <1>2, <1>8 DEF FoundSoFar
  <2>2. least \in ProperDivisors
    <3>1. ProperDivisors \in SUBSET Nat
      BY DEF ProperDivisors
    <3> QED
      BY <1>8, <3>1, MinBelongs
  <2>3. Len(found) >= 2
    <3>1. target \div least \in ProperDivisors /\ (target \div least = least <=> least * least = target)
      <4> HIDE DEF least
      <4>1. least \in 2 .. target - 1 /\ target % least = 0
        BY <2>2 DEF ProperDivisors
      <4> QED
        BY <4>1, <1>3, Cofactor DEF ProperDivisors
    <3> HIDE DEF least, found
    <3> QED
      BY <2>1, <3>1
  <2>4. Min(primes) = 1 /\ Min(primes \ {Min(primes)}) = 2
    <3> DEFINE n == Len(found)
    <3>1. n \in Nat /\ n >= 2 /\ primes = 1 .. n
      BY <1>4, <1>5, <2>3
    <3> HIDE DEF n, primes
    <3>2. 1 \in primes /\ primes \in SUBSET Nat /\ \A k \in primes : 1 =< k
      BY <3>1
    <3>3. Min(primes) = 1
      BY <3>2, MinWhenLeast
    <3>4. /\ 2 \in primes \ {1} /\ primes \ {1} \in SUBSET Nat
          /\ \A k \in primes \ {1} : 2 =< k
      BY <3>1
    <3>5. Min(primes \ {1}) = 2
      BY <3>4, MinWhenLeast
    <3> QED
      BY <3>3, <3>5
  <2>5. Cardinality(primes) >= 2
    BY <1>6, <2>3
  <2>6. says = <<found[1], found[2]>>
    <3>1. ~ (Cardinality(primes) < 2)
      BY <1>5, <1>6, <2>3
    <3> HIDE DEF primes, found
    <3> QED
      BY <2>4, <2>5, <3>1
  <2> HIDE DEF says, found, primes, least
  <2>7. says = <<least, IF least * least = target THEN least
                        ELSE Min(ProperDivisors \ {least})>>
    BY <2>1, <2>3, <2>6
  <2> QED
    BY <1>1, <1>8, <2>7 DEF least
<1> QED
  BY <1>7, <1>8

(* The first process has counted right when it comes to the end without a fork. *)
LEMMA CountsRight ==
  ASSUME Sieved, nopipe = 0, Divided, Counted, NEW p \in Processes, pc[p] = "report"
  PROVE  main[p].filters = Counts
<1>1. CASE p # 1
  BY <1>1 DEF Counted
<1>2. CASE p = 1
  <2>1. main[1].i \in Nat \ {0, 1} /\ main[1].i >= target /\ target \in Nat
    BY <1>2 DEF Sieved, SieveTypes, Loops, Divided
  <2>2. /\ \A d \in Nat : 2 =< d /\ d < main[1].i => d \in ProperDivisors
        /\ main[1].filters = main[1].i - 2
        /\ main[1].i =< target \/ main[1].i = 2
    BY <1>2 DEF Counted
  <2>3. ProperDivisors = 2 .. target - 1
    BY <2>1, <2>2 DEF ProperDivisors
  <2>4. Others = {}
    BY <2>3 DEF Others
  <2>5. Cardinality(2 .. target - 1) = IF 2 > target - 1 THEN 0 ELSE target - 1 - 2 + 1
    BY <2>1, FS_Interval
  <2>6. main[1].filters = Cardinality(2 .. target - 1)
    BY <2>1, <2>2, <2>5
  <2> QED
    BY <1>2, <2>3, <2>4, <2>6 DEF Counts
<1> QED
  BY <1>1, <1>2

LEMMA VerdictStep ==
  Chain /\ Flow /\ Sieved /\ Tally /\ RightVerdict /\ [Next]_vars => RightVerdict'
<1> SUFFICES ASSUME Chain, Flow, Sieved, Tally, RightVerdict, [Next]_vars, nopipe' = 0
             PROVE  RightVerdict'
  BY DEF RightVerdict
<1>0. nopipe = 0 /\ Divided /\ Counted
  BY PipesMade DEF Flow, Tally
<1>1. CASE target' = target /\ output' = output
  BY <1>0, <1>1 DEF RightVerdict, ProperDivisors
<1>2. CASE \E p \in Processes : Report(p)
  <2> PICK p \in Processes : Report(p)
    BY <1>2
  <2>1. pc[p] = "report" /\ target' = target
    BY DEF Report
  <2>2. output = <<>>
    BY <2>1 DEF Chain, HasChild, Ended
  <2>3. PICK says :
          /\ output' = Append(output, [says |-> says, filters |-> main[p].filters])
          /\ says = IF ProperDivisors = {} THEN <<"prime">>
                    ELSE LET least == Min(ProperDivisors) IN
                           <<least, IF least * least = target THEN least
                                    ELSE Min(ProperDivisors \ {least})>>
    BY <1>0, SaysWhatIsFound
  <2>4. main[p].filters = Counts
    BY <1>0, <2>1, CountsRight
  <2>5. output' = <<[says |-> says, filters |-> Counts]>>
    BY <2>2, <2>3, <2>4
  <2>6. DOMAIN output' = {1} /\ output'[1].says = says /\ output'[1].filters = Counts
    BY <2>5
  <2>7. ProperDivisors' = ProperDivisors
    BY <2>1 DEF ProperDivisors
  <2> QED
    BY <2>1, <2>3, <2>6, <2>7 DEF RightVerdict, Counts, Others
<1> QED
  BY <1>1, <1>2 DEF Next, Step, NextNumber, NextMultiple, Factor, make_stage, ForkFails, Take,
     Pass, FilterRead, FilterWrite, FreeAborts, CloseAll, WaitForChild, ChildCloses, Get, Put, vars

(* Whichever process reports, after whichever races and with whatever lists lost, it
   says of every number what is true of it, if all the pipes could be made. *)
THEOREM VerdictAlwaysRight == Spec => []RightVerdict
<1>1. Init => RightVerdict
  BY DEF Init, RightVerdict
<1> QED
  BY <1>1, SieveInvariant, VerdictStep, PTL DEF Spec

--------------------------------------------------------------------------------
(* Types. *)

(* Whatever lists say, what is entered is a divisor. *)
FactorsDivide == \A p \in Processes : main[p].factor_list \in Seq(ProperDivisors)

LEMMA FactorsDivideInit == Init => FactorsDivide
<1> SUFFICES ASSUME Init, NEW p \in Processes PROVE main[p].factor_list \in Seq(ProperDivisors)
  BY DEF FactorsDivide
<1>1. main[p].factor_list = <<>>
  BY DEF Init
<1> QED
  BY <1>1

LEMMA FactorsDivideStep == Sieved /\ FactorsDivide /\ [Next]_vars => FactorsDivide'
<1> SUFFICES ASSUME Sieved, FactorsDivide, [Next]_vars PROVE FactorsDivide'
  OBVIOUS
<1>t. target \in Nat /\ main \in [Processes -> Loops]
  BY DEF Sieved, SieveTypes
<1>c. ASSUME target' = target,
             \A q \in Processes : \E r \in Processes :
               main'[q].factor_list = main[r].factor_list
      PROVE  FactorsDivide'
  BY <1>c DEF FactorsDivide, ProperDivisors
<1>1. CASE UNCHANGED vars
  BY <1>1, <1>c DEF vars
<1>2. CASE Next
  <2> PICK p \in Processes : Step(p)
    BY <1>2 DEF Next
  <2>l. main[p] \in Loops
    BY <1>t
  <2>1. CASE NextNumber(p)
    <3>1. target' = target /\ (main' = main \/
            \E n : main' = [main EXCEPT ![p].j = 1, ![p].filters = n])
      BY <2>1 DEF NextNumber
    <3>2. CASE \E n : main' = [main EXCEPT ![p].j = 1, ![p].filters = n]
      <4>1. PICK n : main' = [main EXCEPT ![p].j = 1, ![p].filters = n]
        BY <3>2
      <4> DEFINE x == [main[p] EXCEPT !.j = 1, !.filters = n]
      <4>2. main' = [main EXCEPT ![p] = x]
        BY <4>1, <1>t
      <4>3. x.factor_list = main[p].factor_list
        <5>1. [main[p] EXCEPT !.j = 1].factor_list = main[p].factor_list
          BY <2>l DEF Loops
        <5> QED
          BY <5>1, <2>l DEF Loops
      <4> HIDE DEF x
      <4>4. \A q \in Processes : main'[q].factor_list = main[q].factor_list
        BY <4>2, <4>3, <1>t
      <4> QED
        BY <3>1, <4>4, <1>c
    <3> QED
      BY <3>1, <3>2, <1>c
  <2>2. CASE NextMultiple(p) \/ Put(p)
    <3>1. /\ target' = target
          /\ \/ main' = [main EXCEPT ![p].i = @ + 1]
             \/ main' = [main EXCEPT ![p].j = @ + 1]
      BY <2>2 DEF NextMultiple, Put
    <3>2. PICK x : /\ main' = [main EXCEPT ![p] = x]
                   /\ x.factor_list = main[p].factor_list
      <4>1. CASE main' = [main EXCEPT ![p].i = @ + 1]
        <5>1. main' = [main EXCEPT ![p] = [main[p] EXCEPT !.i = @ + 1]]
          BY <4>1, <1>t
        <5>2. [main[p] EXCEPT !.i = @ + 1].factor_list = main[p].factor_list
          BY <2>l DEF Loops
        <5> QED
          BY <5>1, <5>2
      <4>2. CASE main' = [main EXCEPT ![p].j = @ + 1]
        <5>1. main' = [main EXCEPT ![p] = [main[p] EXCEPT !.j = @ + 1]]
          BY <4>2, <1>t
        <5>2. [main[p] EXCEPT !.j = @ + 1].factor_list = main[p].factor_list
          BY <2>l DEF Loops
        <5> QED
          BY <5>1, <5>2
      <4> QED
        BY <3>1, <4>1, <4>2
    <3>3. \A q \in Processes : main'[q].factor_list = main[q].factor_list
      BY <3>2, <1>t
    <3> QED
      BY <3>1, <3>3, <1>c
  <2>3. CASE Factor(p)
    <3>1. /\ target' = target
          /\ main' = [main EXCEPT ![p].factor_list =
                        @ \o (IF target \div Number(p) = Number(p)
                                THEN <<Number(p), Number(p)>> ELSE <<Number(p)>>),
                                 ![p].i = @ + 1]
      BY <2>3 DEF Factor
    <3>2. main[p].j = 1 /\ target % Number(p) = 0 /\ Number(p) < target
      BY <2>3 DEF Factor, IsFactor, AtListed
    <3>3. main[p].i \in Nat \ {0, 1} /\ Number(p) = main[p].i
      BY <3>2, <2>l DEF Loops, Number
    <3>4. Number(p) \in ProperDivisors
      <4> HIDE DEF Number
      <4> QED
        BY <3>2, <3>3, <1>t DEF ProperDivisors
    <3> DEFINE more == IF target \div Number(p) = Number(p)
                         THEN <<Number(p), Number(p)>> ELSE <<Number(p)>>
    <3>5. more \in Seq(ProperDivisors)
      BY <3>4
    <3> HIDE DEF more
    <3>6. main[p].factor_list \o more \in Seq(ProperDivisors)
      BY <3>5 DEF FactorsDivide
    <3>7. /\ main'[p].factor_list = main[p].factor_list \o more
          /\ \A q \in Processes : q # p => main'[q] = main[q]
      BY <3>1, <2>l, <1>t DEF Loops, more
    <3>8. ProperDivisors' = ProperDivisors
      BY <3>1 DEF ProperDivisors
    <3> QED
      BY <3>6, <3>7, <3>8 DEF FactorsDivide
  <2>4. CASE make_stage(p)
    <3>1. target' = target /\ main' = [main EXCEPT ![p + 1] = main[p]]
      BY <2>4 DEF make_stage
    <3>2. \A q \in Processes : main'[q] = main[p] \/ main'[q] = main[q]
      BY <3>1, <1>t
    <3> QED
      BY <3>1, <3>2, <1>c
  <2>5. CASE target' = target /\ main' = main
    BY <2>5, <1>c
  <2> QED
    BY <2>1, <2>2, <2>3, <2>4, <2>5 DEF Step, Report, ForkFails, Take, Pass, FilterRead,
       FilterWrite, FreeAborts, CloseAll, WaitForChild, ChildCloses, Get
<1> QED
  BY <1>1, <1>2

(* What has been said is a sequence of verdicts. *)
Verdict ==
  [says : Seq(2 .. target - 1) \cup {<<"prime">>, <<"not the product of two primes">>},
   filters : Nat]

(* What Report says, whatever the list. *)
LEMMA SaysDivisors ==
  ASSUME Sieved, FactorsDivide, NEW p \in Processes, Report(p)
  PROVE  \E v \in Verdict : output' = Append(output, v)
<1> DEFINE found == main[p].factor_list
           primes == {k \in DOMAIN found : is_in_list(found[k], list[p])}
           says == CASE Cardinality(primes) >= 2 ->
                          <<found[Min(primes)], found[Min(primes \ {Min(primes)})]>>
                     [] Cardinality(primes) < 2 /\ found = <<>> -> <<"prime">>
                     [] OTHER -> <<"not the product of two primes">>
<1>1. output' = Append(output, [says |-> says, filters |-> main[p].filters])
  BY DEF Report
<1>2. target \in Nat /\ main[p].filters \in Nat
  BY DEF Sieved, SieveTypes, Loops
<1>3. found \in Seq(ProperDivisors)
  BY DEF FactorsDivide
<1>4. DOMAIN found = 1 .. Len(found) /\ Len(found) \in Nat
  BY <1>3
<1>5. primes \subseteq 1 .. Len(found) /\ primes \in SUBSET Nat
  BY <1>4
<1>6. IsFiniteSet(primes)
  <2>1. IsFiniteSet(1 .. Len(found))
    BY <1>4, FS_Interval
  <2> HIDE DEF primes
  <2> QED
    BY <1>5, <2>1, FS_Subset
<1> HIDE DEF primes
<1>7. ASSUME Cardinality(primes) >= 2
      PROVE  /\ Min(primes) \in primes
             /\ Min(primes \ {Min(primes)}) \in primes
  <2>1. primes # {}
    BY <1>7, FS_EmptySet
  <2>2. Min(primes) \in primes
    BY <1>5, <2>1, MinBelongs
  <2>3. primes \ {Min(primes)} # {}
    <3> DEFINE m == Min(primes)
    <3>1. ASSUME primes = {m} PROVE FALSE
      <4> HIDE DEF m
      <4>1. Cardinality({m}) = 1
        BY FS_Singleton
      <4> QED
        BY <1>7, <3>1, <4>1
    <3> HIDE DEF m
    <3>2. m \in primes
      BY <2>2 DEF m
    <3> QED
      BY <3>1, <3>2 DEF m
  <2>4. Min(primes \ {Min(primes)}) \in primes \ {Min(primes)}
    <3>1. primes \ {Min(primes)} \in SUBSET Nat
      BY <1>5
    <3> QED
      BY <2>3, <3>1, MinBelongs
  <2> QED
    BY <2>2, <2>4
<1>8. says \in Seq(ProperDivisors) \cup {<<"prime">>, <<"not the product of two primes">>}
  <2>1. CASE Cardinality(primes) >= 2
    <3>1. Min(primes) \in DOMAIN found /\ Min(primes \ {Min(primes)}) \in DOMAIN found
      BY <1>4, <1>5, <1>7, <2>1
    <3>2. \A k \in DOMAIN found : found[k] \in ProperDivisors
      BY <1>3
    <3>3. ~ (Cardinality(primes) < 2)
      <4>1. Cardinality(primes) \in Nat
        BY <1>6, FS_CardinalityType
      <4> QED
        BY <2>1, <4>1
    <3>4. says = <<found[Min(primes)], found[Min(primes \ {Min(primes)})]>>
      BY <2>1, <3>3
    <3> DEFINE a == found[Min(primes)]
               b == found[Min(primes \ {Min(primes)})]
    <3>5. a \in ProperDivisors /\ b \in ProperDivisors
      BY <3>1, <3>2
    <3> HIDE DEF says, a, b
    <3>6. <<a, b>> \in Seq(ProperDivisors)
      BY <3>5
    <3> QED
      BY <3>4, <3>6 DEF a, b
  <2>2. CASE ~ (Cardinality(primes) >= 2)
    BY <2>2
  <2> QED
    BY <2>1, <2>2
<1>9. Seq(ProperDivisors) \subseteq Seq(2 .. target - 1)
  <2>1. ProperDivisors \subseteq 2 .. target - 1
    BY DEF ProperDivisors
  <2> QED
    BY <2>1, SeqOfMore
<1> HIDE DEF says
<1>10. [says |-> says, filters |-> main[p].filters] \in Verdict
  BY <1>2, <1>8, <1>9 DEF Verdict
<1> QED
  BY <1>1, <1>10

LEMMA OutputStep ==
  Sieved /\ FactorsDivide /\ output \in Seq(Verdict) /\ [Next]_vars => output' \in Seq(Verdict')
<1> SUFFICES ASSUME Sieved, FactorsDivide, output \in Seq(Verdict), [Next]_vars
             PROVE  output' \in Seq(Verdict')
  OBVIOUS
<1>1. CASE target' = target /\ output' = output
  BY <1>1 DEF Verdict
<1>2. CASE \E p \in Processes : Report(p)
  <2> PICK p \in Processes : Report(p)
    BY <1>2
  <2>1. target' = target
    BY DEF Report
  <2>2. PICK v \in Verdict : output' = Append(output, v)
    BY SaysDivisors
  <2>3. output' \in Seq(Verdict)
    BY <2>2
  <2> QED
    BY <2>1, <2>3 DEF Verdict
<1> QED
  BY <1>1, <1>2 DEF Next, Step, NextNumber, NextMultiple, Factor, make_stage, ForkFails, Take,
     Pass, FilterRead, FilterWrite, FreeAborts, CloseAll, WaitForChild, ChildCloses, Get, Put, vars

(* The types of the variables, for any target, also if pipes could not be made. *)
THEOREM PfactTypesOK == Spec => []PfactTypeOK
<1> DEFINE Typed == target \in Targets /\ output \in Seq(Verdict)
<1>1. Init => Typed
  BY DEF Init
<1>2. Sieved /\ FactorsDivide /\ Typed /\ [Next]_vars => Typed'
  <2>1. [Next]_vars => target' = target
    BY DEF Next, Step, NextNumber, NextMultiple, Factor, Report, make_stage, ForkFails, Take,
       Pass, FilterRead, FilterWrite, FreeAborts, CloseAll, WaitForChild, ChildCloses, Get, Put,
       vars
  <2> QED
    BY <2>1, OutputStep
<1>3. Chain /\ Sieved /\ FactorsDivide /\ Descriptors /\ Typed => PfactTypeOK
  <2> SUFFICES ASSUME Chain, Sieved, FactorsDivide, Descriptors, Typed PROVE PfactTypeOK
    OBVIOUS
  <2> DEFINE Types == [i : Nat \ {0}, j : Nat \ {0}, factor_list : Seq(ProperDivisors),
                       filters : Nat]
  <2>1. main \in [Processes -> Types]
    <3>1. \A p \in Processes : main[p] \in Loops /\ main[p].factor_list \in Seq(ProperDivisors)
      BY DEF Sieved, SieveTypes, FactorsDivide
    <3>2. \A p \in Processes : main[p] \in Types
      BY <3>1 DEF Loops
    <3> HIDE DEF Types
    <3> QED
      BY <3>2 DEF Sieved, SieveTypes
  <2>2. list \in [Processes -> Clean] /\ queue \in [Pipes -> Seq(Clean)]
    BY DEF Sieved
  <2>3. ASSUME NEW S, Clean \subseteq S
        PROVE  list \in [Processes -> S] /\ queue \in [Pipes -> Seq(S)]
    <3>1. Seq(Clean) \subseteq Seq(S)
      <4> DEFINE C == Clean
      <4>1. C \subseteq S
        BY <2>3
      <4> HIDE DEF C
      <4>2. Seq(C) \subseteq Seq(S)
        BY <4>1, SeqOfMore
      <4> QED
        BY <4>2 DEF C
    <3>2. queue \in [Pipes -> Seq(S)]
      BY <2>2, <3>1
    <3>3. list \in [Processes -> S]
      BY <2>2, <2>3
    <3> QED
      BY <3>2, <3>3
  <2>4. Clean \subseteq SUBSET Nat
    <3>1. Others \subseteq Nat
      BY DEF Others, Sieved, SieveTypes
    <3> QED
      BY <3>1 DEF Clean
  <2>5. nopipe = 0 => Clean \subseteq SUBSET (2 .. target - 1)
    BY DEF Clean, Others
  <2>6. list \in [Processes -> SUBSET Nat] /\ queue \in [Pipes -> Seq(SUBSET Nat)]
    BY <2>3, <2>4
  <2>7. nopipe = 0 => /\ list \in [Processes -> SUBSET (2 .. target - 1)]
                      /\ queue \in [Pipes -> Seq(SUBSET (2 .. target - 1))]
    BY <2>3, <2>5
  <2> QED
    BY <2>1, <2>6, <2>7 DEF PfactTypeOK, Verdict, Chain, Descriptors
<1> HIDE DEF Typed
<1>4. Spec => []FactorsDivide
  BY FactorsDivideInit, FactorsDivideStep, SieveInvariant, PTL DEF Spec
<1>5. Spec => []Typed
  BY <1>1, <1>2, <1>4, SieveInvariant, PTL DEF Spec
<1> QED
  BY <1>3, <1>4, <1>5, SieveInvariant, PTL

================================================================================
