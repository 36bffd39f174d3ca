---------------------------------- MODULE Ptree --------------------------------
(***************************************************************************)
(* a2: ptree shows the tree of the processes below one.  generate_ptree    *)
(* builds it from /proc, file by file, while the processes that it is      *)
(* about fork, end and are reaped; print_ptree then prints it.             *)
(*                                                                         *)
(* The array of a node's children is allocated at once.  Nothing is ever   *)
(* freed, so the arrays stand one after another in fresh, zeroed memory:   *)
(* an address is an index of tree, and 0 is NULL.  No file is ever closed  *)
(* either, and each of them keeps its descriptor.                          *)
(***************************************************************************)
EXTENDS Integers, Sequences, FiniteSets, FiniteSetsExt, SequencesExt

CONSTANTS
  MaxPid,    (* bound: pids are 1 .. MaxPid, and none is used twice         *)
  Starts,    (* the children of each process, to begin with                 *)
  Depths,    (* what max_depth may be: after -d, or whatever the stack held *)
  Limits     (* how many files ptree may be able to open                    *)

Pids == 1 .. MaxPid
init == 1

(* The processes of a machine are a family: everybody but init has one parent, who is
   older, and init is the oldest. *)
Family(children) ==
  /\ \A p, q \in Pids : \A i \in DOMAIN children[p], j \in DOMAIN children[q] :
       children[p][i] = children[q][j] => p = q /\ i = j
  /\ \A p \in Pids \ {init} :
       children[p] # <<>> => \E q \in Pids : p \in Range(children[q])
  /\ \E age \in [Pids -> 0 .. MaxPid] :
       /\ \A p \in Pids \ {init} : age[init] < age[p]
       /\ \A p \in Pids : \A q \in Range(children[p]) : age[p] < age[q]

ASSUME PtreeAssumption ==
  /\ MaxPid \in Nat \ {0}
  /\ Starts \subseteq [Pids -> Seq(Pids)]
  /\ \A children \in Starts : Family(children)
  /\ Depths \subseteq Int
  /\ Limits \subseteq Nat

VARIABLES
  status,    (* of each process: "unborn", "runs", "zombie" or "gone"       *)
  kids,      (* its children file: those that are not reaped, oldest first  *)
  born,      (* history: all that it has forked, oldest first               *)
  steady,    (* history: those that have run all the time                   *)
  pid,       (* the pid that ptree was given                                *)
  max_depth, (* the argument of print_ptree, 0 before it is called          *)
  tree,      (* the nodes allocated so far                                  *)
  stack,     (* the activations of generate_ptree, innermost first          *)
  left,      (* the descriptors left to open files with                     *)
  outcome,   (* "running", "failed", "segv", "generated" or "printed"       *)
  lines      (* the lines printed                                           *)

kernel == <<status, kids, born, steady>>
memory == <<tree, stack, left, outcome>>
vars == <<status, kids, born, steady, pid, max_depth, tree, stack, left, outcome, lines>>

blank == [pid |-> 0, name |-> FALSE, child_procs |-> 0, next_sibling |-> 0]

Activation(node, p) ==
  [node |-> node, pid |-> p, step |-> "exists", cmd_err |-> FALSE,
   children |-> <<>>, child |-> 0, i |-> 0]

Childless == [p \in Pids |-> <<>>]

Init ==
  /\ kids \in Starts
  /\ born = kids
  /\ steady = {init} \cup UNION {Range(kids[p]) : p \in Pids}
  /\ status = [p \in Pids |-> IF p \in steady THEN "runs" ELSE "unborn"]
  /\ pid \in Pids
  /\ max_depth = 0
  /\ tree = <<blank>>
  /\ stack = <<Activation(1, pid)>>
  /\ left \in Limits
  /\ outcome = "running"
  /\ lines = <<>>

--------------------------------------------------------------------------------
(* The processes. *)

Fork(p, q) ==
  /\ status[p] = "runs"
  /\ status[q] = "unborn"
  /\ status' = [status EXCEPT ![q] = "runs"]
  /\ kids' = [kids EXCEPT ![p] = Append(@, q)]
  /\ born' = [born EXCEPT ![p] = Append(@, q)]
  /\ UNCHANGED <<steady, pid, max_depth, memory, lines>>

(* init takes over the children, after its own. *)
Exit(p) ==
  /\ p # init
  /\ status[p] = "runs"
  /\ status' = [status EXCEPT ![p] = "zombie"]
  /\ kids' = [kids EXCEPT ![init] = @ \o kids[p], ![p] = <<>>]
  /\ steady' = steady \ {p}
  /\ UNCHANGED <<born, pid, max_depth, memory, lines>>

(* Whoever is its parent by now waits for it. *)
Reap(p) ==
  /\ status[p] = "zombie"
  /\ status' = [status EXCEPT ![p] = "gone"]
  /\ \E q \in Pids : \E k \in DOMAIN kids[q] :
       kids[q][k] = p /\ kids' = [kids EXCEPT ![q] = RemoveAt(@, k)]
  /\ UNCHANGED <<born, steady, pid, max_depth, memory, lines>>

(* lstat and fopen find the files of zombies too. *)
Exists(p) == status[p] \in {"runs", "zombie"}

--------------------------------------------------------------------------------
(* generate_ptree, one activation a time. *)

top == stack[1]

At(step) == outcome = "running" /\ top.step = step

(* The innermost activation goes on. *)
Becomes(a) == stack' = <<a>> \o Tail(stack) /\ outcome' = outcome

(* It returns 0, or 1: only main looks at the result. *)
Returns(code) ==
  /\ stack' = Tail(stack)
  /\ outcome' = IF Len(stack) > 1 THEN outcome
                ELSE IF code = 0 THEN "generated" ELSE "failed"

Segv == outcome' = "segv" /\ stack' = stack

(* fopen, as far as fgets finds anything to read from: a process that is gone has no
   files, and neither can any be opened without a descriptor. *)
Opens(p) == Exists(p) /\ left > 0

Outside == UNCHANGED <<kernel, pid, max_depth, lines>>

(* lstat of the process and of its exe.  (One step for the two: what is gone at the
   first is gone at the second.) *)
StatProcess ==
  /\ At("exists")
  /\ IF Exists(top.pid) THEN Becomes([top EXCEPT !.step = "cmdline"]) ELSE Returns(1)
  /\ UNCHANGED <<tree, left>>
  /\ Outside

StatCmdline ==
  /\ At("cmdline")
  /\ Becomes([top EXCEPT !.step = "children", !.cmd_err = ~ Exists(top.pid)])
  /\ UNCHANGED <<tree, left>>
  /\ Outside

(* generate_struct_children: lstat, fopen, fgets. *)
StatChildren ==
  /\ At("children")
  /\ Becomes([top EXCEPT !.step = IF Exists(top.pid) THEN "open" ELSE "name"])
  /\ UNCHANGED <<tree, left>>
  /\ Outside

OpenChildren ==
  /\ At("open")
  /\ IF Opens(top.pid)
       THEN Becomes([top EXCEPT !.step = "read"]) /\ left' = left - 1
       ELSE Segv /\ left' = left
  /\ UNCHANGED tree
  /\ Outside

(* Faulty variant of ReadChildren: c_in_int is static, and so one for all
   activations. *)
ReadChildrenStatic ==
  /\ At("read")
  /\ LET read == IF Exists(top.pid) THEN kids[top.pid] ELSE <<>>
         Overwritten(old) == SubSeq(read, 1, Min({Len(read), Len(old)}))
                               \o SubSeq(old, Len(read) + 1, Len(old)) IN
       stack' = <<[top EXCEPT !.step = "name", !.children = read]>>
                  \o [k \in 1 .. Len(stack) - 1 |->
                        [stack[k + 1] EXCEPT !.children = Overwritten(@)]]
  /\ UNCHANGED <<tree, left, outcome>>
  /\ Outside

ReadChildren ==
  /\ At("read")
  /\ Becomes([top EXCEPT !.step = "name",
                !.children = IF Exists(top.pid) THEN kids[top.pid] ELSE <<>>])
  /\ UNCHANGED <<tree, left>>
  /\ Outside

(* The array of the children is allocated; the node gets its pid, its name unless
   there was no cmdline, and the array. *)
Name ==
  /\ At("name")
  /\ LET n == Len(top.children)
         array == Len(tree) + 1
         node == [tree[top.node] EXCEPT !.pid = top.pid, !.name = ~ top.cmd_err,
                    !.child_procs = IF n = 0 THEN 0 ELSE array] IN
       \/ /\ ~ top.cmd_err /\ ~ Opens(top.pid)
          /\ Segv
          /\ UNCHANGED <<tree, left>>
       \/ /\ top.cmd_err \/ Opens(top.pid)
          /\ left' = IF top.cmd_err THEN left ELSE left - 1
          /\ tree' = [tree EXCEPT ![top.node] = node] \o [k \in 1 .. n |-> blank]
          /\ IF n = 0 THEN Returns(0)
             ELSE Becomes([top EXCEPT !.step = "child", !.child = array, !.i = 0])
  /\ Outside

n_children == Len(top.children)

(* The pid of child k, counted from 0, and its node. *)
c_in_int(k) == top.children[k + 1]
child(k) == top.child + k

(* Faulty variant of Visit: the node stays that of the first child. *)
VisitFirst ==
  /\ At("child")
  /\ Exists(c_in_int(top.i))
  /\ stack' = <<Activation(child(0), c_in_int(top.i)), [top EXCEPT !.step = "sibling"]>>
                \o Tail(stack)
  /\ UNCHANGED <<tree, left, outcome>>
  /\ Outside

Visit ==
  /\ At("child")
  /\ Exists(c_in_int(top.i))
  /\ stack' = <<Activation(child(top.i), c_in_int(top.i)), [top EXCEPT !.step = "sibling"]>>
                \o Tail(stack)
  /\ UNCHANGED <<tree, left, outcome>>
  /\ Outside

(* Faulty variant of LinkOver: continue, in a while loop that counts at its end. *)
LinkOverStays ==
  /\ At("child")
  /\ ~ Exists(c_in_int(top.i))
  /\ n_children > top.i + 1
  /\ tree' = IF top.i = 0 THEN [tree EXCEPT ![top.node].child_procs = child(1)]
             ELSE [tree EXCEPT ![child(top.i - 1)].next_sibling = child(top.i + 1)]
  /\ Becomes(top)
  /\ left' = left
  /\ Outside

(* Faulty variant of LinkOver: the link of the child that is gone is set, and not that
   of the one before. *)
LinkOverHere ==
  /\ At("child")
  /\ ~ Exists(c_in_int(top.i))
  /\ n_children > top.i + 1
  /\ tree' = IF top.i = 0 THEN [tree EXCEPT ![top.node].child_procs = child(1)]
             ELSE [tree EXCEPT ![child(top.i)].next_sibling = child(top.i + 1)]
  /\ Becomes([top EXCEPT !.step = "sibling"])
  /\ left' = left
  /\ Outside

(* Faulty variant of LinkOver: the last child is linked over as well. *)
LinkOverLast ==
  /\ At("child")
  /\ ~ Exists(c_in_int(top.i))
  /\ tree' = IF top.i = 0 THEN [tree EXCEPT ![top.node].child_procs = child(1)]
             ELSE [tree EXCEPT ![child(top.i - 1)].next_sibling = child(top.i + 1)]
  /\ Becomes([top EXCEPT !.step = "sibling"])
  /\ left' = left
  /\ Outside

(* The child is gone: the pointer to it is moved to the next one. *)
LinkOver ==
  /\ At("child")
  /\ ~ Exists(c_in_int(top.i))
  /\ n_children > top.i + 1
  /\ tree' = IF top.i = 0 THEN [tree EXCEPT ![top.node].child_procs = child(1)]
             ELSE [tree EXCEPT ![child(top.i - 1)].next_sibling = child(top.i + 1)]
  /\ Becomes([top EXCEPT !.step = "sibling"])
  /\ left' = left
  /\ Outside

(* The last child is gone: break. *)
Break ==
  /\ At("child")
  /\ ~ Exists(c_in_int(top.i))
  /\ n_children = top.i + 1
  /\ Returns(0)
  /\ UNCHANGED <<tree, left>>
  /\ Outside

(* The link to the next child, if it is there by now. *)
LinkSibling ==
  /\ At("sibling")
  /\ n_children > top.i + 1
  /\ tree' = IF Exists(c_in_int(top.i + 1))
               THEN [tree EXCEPT ![child(top.i)].next_sibling = child(top.i + 1)]
               ELSE tree
  /\ Becomes([top EXCEPT !.step = "child", !.i = @ + 1])
  /\ left' = left
  /\ Outside

(* Faulty variant of LastSibling: the last child leads to the first. *)
LastSiblingRing ==
  /\ At("sibling")
  /\ n_children = top.i + 1
  /\ tree' = [tree EXCEPT ![child(top.i)].next_sibling = child(0)]
  /\ Returns(0)
  /\ left' = left
  /\ Outside

LastSibling ==
  /\ At("sibling")
  /\ n_children = top.i + 1
  /\ tree' = [tree EXCEPT ![child(top.i)].next_sibling = 0]
  /\ Returns(0)
  /\ left' = left
  /\ Outside

generate_ptree ==
  \/ StatProcess \/ StatCmdline \/ StatChildren \/ OpenChildren \/ ReadChildren
  \/ Name \/ Visit \/ LinkOver \/ Break \/ LinkSibling \/ LastSibling

--------------------------------------------------------------------------------
(* What print_ptree prints: the root, and all that it leads to.  A limit of 0 is none;
   with one below 0 there is one line. *)
Printed(limit) ==
  LET print[a \in 0 .. Len(tree)] ==
        [depth \in Nat |->
           IF a = 0 THEN <<>>
           ELSE <<[pid |-> tree[a].pid, name |-> tree[a].name, depth |-> depth]>>
                \o (IF limit = 0 \/ limit > depth + 1
                      THEN print[tree[a].child_procs][depth + 1] ELSE <<>>)
                \o (IF limit >= 0 THEN print[tree[a].next_sibling][depth] ELSE <<>>)]
  IN print[1][0]

print_ptree ==
  /\ outcome = "generated"
  /\ \E limit \in Depths :
       /\ max_depth' = limit
       /\ lines' = Printed(limit)
  /\ outcome' = "printed"
  /\ UNCHANGED <<kernel, pid, tree, stack, left>>

ptree == generate_ptree \/ print_ptree

Next ==
  \/ ptree
  \/ \E p, q \in Pids : Fork(p, q)
  \/ \E p \in Pids : Exit(p) \/ Reap(p)

Spec == Init /\ [][Next]_vars

(* ptree is scheduled; the others may stop. *)
FairSpec == Spec /\ WF_vars(ptree)

--------------------------------------------------------------------------------
(***************************************************************************)
(* Properties                                                              *)
(***************************************************************************)

Nodes == [pid : {0} \cup Pids, name : BOOLEAN, child_procs : 0 .. Len(tree),
          next_sibling : 0 .. Len(tree)]

Activations ==
  [node : 1 .. Len(tree), pid : Pids, cmd_err : BOOLEAN, children : Seq(Pids),
   step : {"exists", "cmdline", "children", "open", "read", "name", "child", "sibling"},
   child : 0 .. Len(tree), i : Nat]

(* Types; in particular every pointer leads to memory that was allocated. *)
PtreeTypeOK ==
  /\ status \in [Pids -> {"unborn", "runs", "zombie", "gone"}]
  /\ kids \in [Pids -> Seq(Pids)]
  /\ born \in [Pids -> Seq(Pids)]
  /\ steady \subseteq Pids
  /\ pid \in Pids
  /\ max_depth \in {0} \cup Depths
  /\ tree \in Seq(Nodes)
  /\ stack \in Seq(Activations)
  /\ left \in Nat
  /\ outcome \in {"running", "failed", "segv", "generated", "printed"}
  /\ lines \in Seq([pid : {0} \cup Pids, name : BOOLEAN, depth : Nat])

(* Pointers only lead forward in memory, whatever ended while they were set: the
   structure has no cycle, and print_ptree, which follows all of them, comes to an
   end. *)
LinksGoForward ==
  \A a \in DOMAIN tree :
    /\ tree[a].child_procs \in {0} \cup (a + 1 .. Len(tree))
    /\ tree[a].next_sibling \in {0} \cup (a + 1 .. Len(tree))

(* Line l is printed somewhere below line k. *)
Under(k, l) == k < l /\ \A m \in k + 1 .. l : lines[k].depth < lines[m].depth

(* Whoever has run all the time is printed if all above it up to pid have as well: pid
   first, and below each of them the children that it has forked, one level deeper and
   with their names, the elder before the younger, whatever became of the siblings
   between. *)
SteadyShown ==
  outcome = "printed" =>
    /\ pid \in steady =>
         lines # <<>> /\ lines[1] = [pid |-> pid, name |-> TRUE, depth |-> 0]
    /\ \A k \in DOMAIN lines :
         lines[k].pid \in steady /\ (max_depth = 0 \/ max_depth > lines[k].depth + 1) =>
           LET forked == born[lines[k].pid] IN
             /\ \A i \in DOMAIN forked : forked[i] \in steady =>
                  \E l \in DOMAIN lines :
                    /\ Under(k, l)
                    /\ lines[l] =
                         [pid |-> forked[i], name |-> TRUE, depth |-> lines[k].depth + 1]
             /\ \A i, j \in DOMAIN forked, l, m \in DOMAIN lines :
                  i < j /\ {forked[i], forked[j]} \subseteq steady
                  /\ lines[l].pid = forked[i] /\ lines[m].pid = forked[j] => l < m

(* There are no more empty lines than processes that are gone, and nobody is printed
   twice; the program crashes only if a process is gone or two files of each process
   before have used up the descriptors, and gives up only if pid did not run all the
   time. *)
OnlyTheGoneAreMissed ==
  LET gone == {p \in Pids : status[p] = "gone"}
      empty == {k \in DOMAIN lines : lines[k].pid = 0} IN
    /\ Cardinality(empty) <= Cardinality(gone)
    /\ \A k, l \in DOMAIN lines \ empty : lines[k].pid = lines[l].pid => k = l
    /\ outcome = "segv" => gone # {} \/ left = 0
    /\ outcome = "failed" => pid \notin steady

(* Every process is printed below the one that forked it; or below init, once that one
   has ended. *)
ShownBelowParent ==
  \A k \in DOMAIN lines :
    lines[k].depth > 0 /\ lines[k].pid # 0 =>
      LET above == {l \in 1 .. k - 1 : lines[l].depth = lines[k].depth - 1}
          parent == lines[Max(above)].pid IN
        \E q \in Pids :
          /\ lines[k].pid \in Range(born[q])
          /\ parent = q \/ (parent = init /\ status[q] \in {"zombie", "gone"})

(* ptree ends, though the tree changes below it. *)
PtreeEnds == <>(outcome \in {"failed", "segv", "printed"})
================================================================================
