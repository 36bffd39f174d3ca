----------------------------- MODULE PtreeProofs ----------------------------
(***************************************************************************)
(* Proofs about Ptree, whatever forks, ends and is reaped while it runs:    *)
(* the structure has no cycle, every pointer leads to memory that was       *)
(* allocated, an empty line stands for a process that is gone, nobody is    *)
(* printed twice, everybody is printed below a parent, and whoever has run  *)
(* all the time, below parents that have, is printed at its place.          *)
(*                                                                         *)
(* The code keeps no record of the process that a node is meant for, of the *)
(* node whose array it is in and those above that, of when a process was    *)
(* forked, nor of the nodes that are linked to the root: they are found     *)
(* step by step, as functions and sets (who, owner, anc, age and on) that   *)
(* the proofs carry along.                                                  *)
(***************************************************************************)
EXTENDS Ptree, Minimum, FiniteSetTheorems, SequenceTheorems, TLAPS

Blocks == [pid : {0} \cup Pids, name : BOOLEAN, child_procs : Nat, next_sibling : Nat]

Steps == {"exists", "cmdline", "children", "open", "read", "name", "child", "sibling"}

Calls == [node : Nat \ {0}, pid : Pids, step : Steps, cmd_err : BOOLEAN,
          children : Seq(Pids), child : Nat, i : Nat]

LinkTypes ==
  /\ kids \in [Pids -> Seq(Pids)]
  /\ pid \in Pids
  /\ tree \in Seq(Blocks)
  /\ stack \in Seq(Calls)

(* The array of an activation that is at its children lies behind its node. *)
InArray(a, n) ==
  /\ a.node \in 1 .. n
  /\ a.step \in {"child", "sibling"} =>
       /\ a.node < a.child
       /\ a.child + Len(a.children) - 1 <= n
       /\ a.i < Len(a.children)

Linked ==
  /\ LinkTypes
  /\ LinksGoForward
  /\ outcome = "running" => stack # <<>>
  /\ \A k \in 1 .. Len(stack) : InArray(stack[k], Len(tree))

(* One node, which leads nowhere, and an activation that has no array yet. *)
LEMMA LinkedInit == Init => Linked
<1> SUFFICES ASSUME Init PROVE Linked
  OBVIOUS
<1>1. pid \in Pids /\ kids \in [Pids -> Seq(Pids)]
  BY PtreeAssumption DEF Init
<1>2. blank \in Blocks
  BY DEF blank, Blocks
<1>3. tree \in Seq(Blocks) /\ Len(tree) = 1 /\ tree[1] = blank
  BY <1>2 DEF Init
<1>4. Activation(1, pid) \in Calls
  BY <1>1 DEF Activation, Calls, Steps
<1>5. stack \in Seq(Calls) /\ Len(stack) = 1 /\ stack[1] = Activation(1, pid) /\ stack # <<>>
  BY <1>4 DEF Init
<1>6. InArray(stack[1], Len(tree))
  BY <1>3, <1>5 DEF InArray, Activation
<1>7. LinksGoForward
  BY <1>3 DEF LinksGoForward, blank
<1>8. \A k \in 1 .. Len(stack) : InArray(stack[k], Len(tree))
  BY <1>5, <1>6
<1> QED
  BY <1>1, <1>3, <1>5, <1>7, <1>8 DEF Linked, LinkTypes

--------------------------------------------------------------------------------
(* What the steps do to the stack and to the tree. *)

(* The innermost activation is a proper one. *)
LEMMA TopIsCall ==
  ASSUME Linked, outcome = "running"
  PROVE  /\ top \in Calls
         /\ InArray(top, Len(tree))
         /\ Tail(stack) \in Seq(Calls)
         /\ Len(stack) \in Nat \ {0}
         /\ Len(Tail(stack)) = Len(stack) - 1
         /\ \A k \in 1 .. Len(stack) - 1 : Tail(stack)[k] = stack[k + 1]
BY DEF Linked, LinkTypes, top

(* One pointer more that leads forward. *)
LEMMA ChildLink ==
  ASSUME LinkTypes, LinksGoForward, NEW a \in 1 .. Len(tree), NEW b \in a + 1 .. Len(tree),
         tree' = [tree EXCEPT ![a].child_procs = b]
  PROVE  tree' \in Seq(Blocks) /\ Len(tree') = Len(tree) /\ LinksGoForward'
<1>1. tree \in Seq(Blocks) /\ Len(tree) \in Nat /\ tree[a] \in Blocks
  BY DEF LinkTypes
<1>2. b \in Nat
  BY <1>1
<1> DEFINE x == [tree[a] EXCEPT !.child_procs = b]
<1>3. x \in Blocks /\ x.child_procs = b /\ x.next_sibling = tree[a].next_sibling
  BY <1>1, <1>2 DEF Blocks
<1>4. tree' = [tree EXCEPT ![a] = x]
  OBVIOUS
<1> HIDE DEF x
<1>5. tree' \in Seq(Blocks) /\ Len(tree') = Len(tree) /\ tree'[a] = x
      /\ \A c \in 1 .. Len(tree) : c # a => tree'[c] = tree[c]
  BY <1>1, <1>3, <1>4
<1> QED
  BY <1>1, <1>3, <1>5 DEF LinksGoForward

(* The same of a link to a sibling, or of none. *)
LEMMA SiblingLink ==
  ASSUME LinkTypes, LinksGoForward, NEW a \in 1 .. Len(tree),
         NEW b \in {0} \cup (a + 1 .. Len(tree)),
         tree' = [tree EXCEPT ![a].next_sibling = b]
  PROVE  tree' \in Seq(Blocks) /\ Len(tree') = Len(tree) /\ LinksGoForward'
<1>1. tree \in Seq(Blocks) /\ Len(tree) \in Nat /\ tree[a] \in Blocks
  BY DEF LinkTypes
<1>2. b \in Nat
  BY <1>1
<1> DEFINE x == [tree[a] EXCEPT !.next_sibling = b]
<1>3. x \in Blocks /\ x.next_sibling = b /\ x.child_procs = tree[a].child_procs
  BY <1>1, <1>2 DEF Blocks
<1>4. tree' = [tree EXCEPT ![a] = x]
  OBVIOUS
<1> HIDE DEF x
<1>5. tree' \in Seq(Blocks) /\ Len(tree') = Len(tree) /\ tree'[a] = x
      /\ \A c \in 1 .. Len(tree) : c # a => tree'[c] = tree[c]
  BY <1>1, <1>3, <1>4
<1> QED
  BY <1>1, <1>3, <1>5 DEF LinksGoForward

(* An array for n children is allocated behind what there is, and node a is filled. *)
LEMMA Enlarged ==
  ASSUME LinkTypes, NEW a \in 1 .. Len(tree), NEW n \in Nat, NEW x \in Blocks,
         tree' = [tree EXCEPT ![a] = x] \o [k \in 1 .. n |-> blank]
  PROVE  /\ tree' \in Seq(Blocks) /\ Len(tree') = Len(tree) + n
         /\ tree'[a] = x
         /\ \A c \in 1 .. Len(tree) : c # a => tree'[c] = tree[c]
         /\ \A c \in Len(tree) + 1 .. Len(tree) + n : tree'[c] = blank
<1>1. tree \in Seq(Blocks) /\ Len(tree) \in Nat
  BY DEF LinkTypes
<1> DEFINE old == [tree EXCEPT ![a] = x]
           new == [k \in 1 .. n |-> blank]
<1>2. /\ old \in Seq(Blocks) /\ Len(old) = Len(tree) /\ old[a] = x
      /\ \A c \in 1 .. Len(tree) : c # a => old[c] = tree[c]
  BY <1>1
<1>3. /\ new \in Seq(Blocks) /\ Len(new) = n
      /\ \A c \in 1 .. n : new[c] = blank
  <2>1. blank \in Blocks
    BY DEF blank, Blocks
  <2>2. new \in [1 .. n -> Blocks]
    BY <2>1
  <2>3. new \in Seq(Blocks)
    <3> HIDE DEF new
    <3> QED
      BY <2>2, SeqDef
  <2>4. Len(new) = n
    <3> HIDE DEF new
    <3> QED
      BY <2>2, <2>3
  <2> QED
    BY <2>3, <2>4
<1>4. tree' = old \o new
  OBVIOUS
<1> HIDE DEF old, new
<1>5. /\ tree' \in Seq(Blocks) /\ Len(tree') = Len(tree) + n
      /\ \A c \in 1 .. Len(tree) : tree'[c] = old[c]
      /\ \A c \in Len(tree) + 1 .. Len(tree) + n : tree'[c] = new[c - Len(tree)]
  <2>1. /\ old \o new \in Seq(Blocks)
        /\ Len(old \o new) = Len(old) + Len(new)
        /\ \A c \in 1 .. Len(old) + Len(new) :
             (old \o new)[c] = IF c <= Len(old) THEN old[c] ELSE new[c - Len(old)]
    BY <1>2, <1>3, ConcatProperties
  <2> DEFINE both == old \o new
             l == Len(tree)
  <2>2. /\ both \in Seq(Blocks) /\ Len(both) = l + n
        /\ \A c \in 1 .. l + n : both[c] = IF c <= l THEN old[c] ELSE new[c - l]
    BY <2>1, <1>2, <1>3
  <2>3. tree' = both /\ l \in Nat
    BY <1>1, <1>4
  <2> HIDE DEF both, l
  <2>4. /\ tree' \in Seq(Blocks) /\ Len(tree') = l + n
        /\ \A c \in 1 .. l : tree'[c] = old[c]
        /\ \A c \in l + 1 .. l + n : tree'[c] = new[c - l]
    <3>1. \A c \in 1 .. l : c \in 1 .. l + n /\ c <= l
      BY <2>3
    <3>2. \A c \in l + 1 .. l + n : c \in 1 .. l + n /\ ~ (c <= l)
      BY <2>3
    <3>3. \A c \in 1 .. l : both[c] = old[c]
      BY <2>2, <3>1
    <3>4. \A c \in l + 1 .. l + n : both[c] = new[c - l]
      BY <2>2, <3>2
    <3> QED
      BY <2>2, <2>3, <3>3, <3>4
  <2> QED
    BY <2>4 DEF l
<1>6. \A c \in Len(tree) + 1 .. Len(tree) + n : c - Len(tree) \in 1 .. n
  BY <1>1
<1> QED
  BY <1>2, <1>3, <1>5, <1>6

(* The pointers still lead forward. *)
LEMMA NewArray ==
  ASSUME LinkTypes, LinksGoForward, NEW a \in 1 .. Len(tree), NEW n \in Nat, NEW x \in Blocks,
         x.next_sibling = tree[a].next_sibling,
         x.child_procs = (IF n = 0 THEN 0 ELSE Len(tree) + 1),
         tree' = [tree EXCEPT ![a] = x] \o [k \in 1 .. n |-> blank]
  PROVE  tree' \in Seq(Blocks) /\ Len(tree') = Len(tree) + n /\ LinksGoForward'
<1>1. tree \in Seq(Blocks) /\ Len(tree) \in Nat
  BY DEF LinkTypes
<1>5. /\ tree' \in Seq(Blocks) /\ Len(tree') = Len(tree) + n
      /\ tree'[a] = x
      /\ \A c \in 1 .. Len(tree) : c # a => tree'[c] = tree[c]
      /\ \A c \in Len(tree) + 1 .. Len(tree) + n : tree'[c] = blank
  BY Enlarged
<1>6. ASSUME NEW c \in 1 .. Len(tree) + n
      PROVE  /\ tree'[c].child_procs \in {0} \cup (c + 1 .. Len(tree) + n)
             /\ tree'[c].next_sibling \in {0} \cup (c + 1 .. Len(tree) + n)
  <2>1. CASE c = a
    <3>1. tree'[c] = x
      BY <1>5, <2>1
    <3>2. x.next_sibling \in {0} \cup (c + 1 .. Len(tree))
      BY <2>1 DEF LinksGoForward
    <3>3. x.next_sibling \in {0} \cup (c + 1 .. Len(tree) + n)
      BY <1>1, <3>2
    <3>4. x.child_procs \in {0} \cup (c + 1 .. Len(tree) + n)
      BY <1>1, <2>1
    <3> QED
      BY <3>1, <3>3, <3>4
  <2>2. CASE c \in 1 .. Len(tree) /\ c # a
    <3>1. tree'[c] = tree[c]
      BY <1>5, <2>2
    <3>2. /\ tree[c].child_procs \in {0} \cup (c + 1 .. Len(tree))
          /\ tree[c].next_sibling \in {0} \cup (c + 1 .. Len(tree))
      BY <1>1, <2>2 DEF LinksGoForward
    <3>3. c + 1 .. Len(tree) \subseteq c + 1 .. Len(tree) + n
      BY <1>1
    <3> QED
      BY <3>1, <3>2, <3>3
  <2>3. CASE c \in Len(tree) + 1 .. Len(tree) + n
    <3>1. tree'[c] = blank
      BY <1>1, <1>5, <2>3
    <3> QED
      BY <3>1 DEF blank
  <2> QED
    BY <1>1, <2>1, <2>2, <2>3
<1>7. DOMAIN tree' = 1 .. Len(tree) + n
  BY <1>5
<1> QED
  BY <1>5, <1>6, <1>7 DEF LinksGoForward

(* The innermost activation becomes another, while the tree may grow. *)
LEMMA GoesOn ==
  ASSUME Linked, outcome = "running", NEW a \in Calls, Becomes(a),
         kids' = kids, pid' = pid, tree' \in Seq(Blocks), Len(tree) <= Len(tree'),
         LinksGoForward', InArray(a, Len(tree'))
  PROVE  Linked'
<1>1. Tail(stack) \in Seq(Calls) /\ Len(Tail(stack)) = Len(stack) - 1 /\ Len(stack) \in Nat \ {0}
      /\ \A k \in 1 .. Len(stack) - 1 : Tail(stack)[k] = stack[k + 1]
  BY TopIsCall
<1> DEFINE rest == Tail(stack)
<1>2. stack' = <<a>> \o rest
  BY DEF Becomes
<1>3. \A k \in 1 .. Len(rest) : InArray(rest[k], Len(tree))
  BY <1>1 DEF Linked
<1> HIDE DEF rest
<1>4. rest \in Seq(Calls)
  BY <1>1 DEF rest
<1>5. /\ stack' \in Seq(Calls) /\ stack' # <<>>
      /\ Len(stack') = Len(rest) + 1
      /\ stack'[1] = a
      /\ \A k \in 2 .. Len(stack') : stack'[k] = rest[k - 1]
  BY <1>2, <1>4
<1>6. \A k \in 2 .. Len(stack') : InArray(stack'[k], Len(tree))
  BY <1>3, <1>4, <1>5
<1>7. \A k \in 2 .. Len(stack') : stack'[k] \in Calls
  BY <1>4, <1>5
<1>8. Len(tree) \in Nat /\ Len(tree') \in Nat
  BY DEF Linked, LinkTypes
<1>9. ASSUME NEW c \in Calls, InArray(c, Len(tree)) PROVE InArray(c, Len(tree'))
  BY <1>8, <1>9 DEF InArray, Calls
<1>10. \A k \in 1 .. Len(stack') : InArray(stack'[k], Len(tree'))
  BY <1>4, <1>5, <1>6, <1>7, <1>9
<1> QED
  BY <1>5, <1>10 DEF Linked, LinkTypes

(* The innermost activation, now a, calls b. *)
LEMMA CallsAnother ==
  ASSUME Linked, outcome = "running", NEW a \in Calls, NEW b \in Calls,
         stack' = <<b, a>> \o Tail(stack), outcome' = outcome,
         kids' = kids, pid' = pid, tree' = tree,
         InArray(a, Len(tree)), InArray(b, Len(tree))
  PROVE  Linked'
<1>1. Tail(stack) \in Seq(Calls) /\ Len(Tail(stack)) = Len(stack) - 1 /\ Len(stack) \in Nat \ {0}
      /\ \A k \in 1 .. Len(stack) - 1 : Tail(stack)[k] = stack[k + 1]
  BY TopIsCall
<1> DEFINE rest == Tail(stack)
<1>2. stack' = <<b, a>> \o rest
  OBVIOUS
<1>3. \A k \in 1 .. Len(rest) : InArray(rest[k], Len(tree))
  BY <1>1 DEF Linked
<1> HIDE DEF rest
<1>4. rest \in Seq(Calls)
  BY <1>1 DEF rest
<1>5. /\ stack' \in Seq(Calls) /\ stack' # <<>>
      /\ Len(stack') = Len(rest) + 2
      /\ stack'[1] = b /\ stack'[2] = a
      /\ \A k \in 3 .. Len(stack') : stack'[k] = rest[k - 2]
  <2> DEFINE two == <<b, a>>
  <2>1. two \in Seq(Calls) /\ Len(two) = 2 /\ two[1] = b /\ two[2] = a
    OBVIOUS
  <2>2. stack' = two \o rest
    BY <1>2
  <2> HIDE DEF two
  <2>3. /\ stack' \in Seq(Calls) /\ Len(stack') = 2 + Len(rest)
        /\ \A k \in 1 .. 2 + Len(rest) :
             stack'[k] = IF k <= 2 THEN two[k] ELSE rest[k - 2]
    <3>1. /\ two \o rest \in Seq(Calls) /\ Len(two \o rest) = Len(two) + Len(rest)
          /\ \A k \in 1 .. Len(two) + Len(rest) :
               (two \o rest)[k] = IF k <= Len(two) THEN two[k] ELSE rest[k - Len(two)]
      BY <2>1, <1>4, ConcatProperties
    <3>2. Len(two) = 2
      BY <2>1
    <3> QED
      BY <2>2, <3>1, <3>2, Zenon
  <2>4. Len(rest) \in Nat
    BY <1>4
  <2>5. stack'[1] = two[1] /\ stack'[2] = two[2]
    BY <2>3, <2>4
  <2>6. \A k \in 3 .. Len(stack') : stack'[k] = rest[k - 2]
    BY <2>3, <2>4
  <2>7. stack' # <<>>
    BY <2>3, <2>4, EmptySeq
  <2>8. Len(stack') = Len(rest) + 2
    BY <2>3, <2>4
  <2> QED
    BY <2>1, <2>3, <2>5, <2>6, <2>7, <2>8
<1>6. \A k \in 1 .. Len(stack') : InArray(stack'[k], Len(tree))
  BY <1>3, <1>4, <1>5
<1> QED
  BY <1>5, <1>6 DEF Linked, LinkTypes, LinksGoForward

(* The innermost activation returns. *)
LEMMA GoesBack ==
  ASSUME Linked, outcome = "running", NEW code, Returns(code),
         kids' = kids, pid' = pid, tree' \in Seq(Blocks), Len(tree) <= Len(tree'),
         LinksGoForward'
  PROVE  Linked'
<1>1. Tail(stack) \in Seq(Calls) /\ Len(Tail(stack)) = Len(stack) - 1 /\ Len(stack) \in Nat \ {0}
      /\ \A k \in 1 .. Len(stack) - 1 : Tail(stack)[k] = stack[k + 1]
  BY TopIsCall
<1>2. stack' = Tail(stack)
  BY DEF Returns
<1>3. outcome' = "running" => stack' # <<>>
  <2>1. CASE Len(stack) > 1
    <3>1. Len(stack') > 0
      BY <1>1, <1>2, <2>1
    <3>2. Len(<<>>) = 0
      OBVIOUS
    <3> QED
      BY <3>1, <3>2
  <2>2. CASE ~ (Len(stack) > 1)
    BY <2>2 DEF Returns
  <2> QED
    BY <2>1, <2>2
<1>4. Len(tree) \in Nat /\ Len(tree') \in Nat
  BY DEF Linked, LinkTypes
<1>5. ASSUME NEW c \in Calls, InArray(c, Len(tree)) PROVE InArray(c, Len(tree'))
  BY <1>4, <1>5 DEF InArray, Calls
<1>6. \A k \in 1 .. Len(stack') : stack'[k] \in Calls /\ InArray(stack'[k], Len(tree))
  BY <1>1, <1>2 DEF Linked, LinkTypes
<1> QED
  BY <1>1, <1>2, <1>3, <1>5, <1>6 DEF Linked, LinkTypes

--------------------------------------------------------------------------------
(* Pointers lead forward after every step. *)
LEMMA LinkedStep == Linked /\ [Next]_vars => Linked'
<1> SUFFICES ASSUME Linked, [Next]_vars PROVE Linked'
  OBVIOUS
<1>t. /\ kids \in [Pids -> Seq(Pids)] /\ pid \in Pids
      /\ tree \in Seq(Blocks) /\ Len(tree) \in Nat
      /\ LinksGoForward
  BY DEF Linked, LinkTypes
(* The processes change nothing but their children. *)
<1>k. ASSUME kids' \in [Pids -> Seq(Pids)], UNCHANGED <<pid, memory>> PROVE Linked'
  BY <1>k DEF Linked, LinkTypes, LinksGoForward, memory
(* ptree changes nothing of the processes. *)
<1>o. Outside => kids' = kids /\ pid' = pid
  BY DEF Outside, kernel
<1>s. tree' = tree => tree' \in Seq(Blocks) /\ Len(tree) <= Len(tree') /\ LinksGoForward'
  BY <1>t DEF LinksGoForward
(* A step that leaves the tree alone, and is not yet at the children. *)
<1>u. ASSUME tree' = tree, Outside, outcome = "running", NEW a \in Calls, Becomes(a),
             a.node = top.node, a.step \notin {"child", "sibling"}
      PROVE  Linked'
  <2>1. InArray(a, Len(tree'))
    BY <1>u, TopIsCall DEF InArray
  <2> QED
    BY <1>u, <1>o, <1>s, <2>1, GoesOn
<1>1. CASE UNCHANGED vars
  BY <1>1, <1>k, <1>t DEF vars, memory
<1>2. ASSUME NEW p \in Pids, NEW q \in Pids, Fork(p, q) PROVE Linked'
  <2>1. Append(kids[p], q) \in Seq(Pids)
    BY <1>t
  <2> QED
    BY <1>2, <2>1, <1>k, <1>t DEF Fork, memory
<1>3. ASSUME NEW p \in Pids, Exit(p) PROVE Linked'
  <2>1. init \in Pids
    BY PtreeAssumption DEF init, Pids
  <2>2. kids[init] \o kids[p] \in Seq(Pids) /\ <<>> \in Seq(Pids)
    BY <1>t, <2>1
  <2>3. kids' \in [Pids -> Seq(Pids)]
    BY <1>3, <2>2, <1>t DEF Exit
  <2> QED
    BY <1>3, <2>3, <1>k DEF Exit, memory
<1>4. ASSUME NEW p \in Pids, Reap(p) PROVE Linked'
  <2>1. PICK q \in Pids : \E k \in DOMAIN kids[q] :
          kids' = [kids EXCEPT ![q] = RemoveAt(@, k)]
    BY <1>4 DEF Reap
  <2>2. PICK k \in DOMAIN kids[q] : kids' = [kids EXCEPT ![q] = RemoveAt(@, k)]
    BY <2>1
  <2> DEFINE s == kids[q]
  <2>3. s \in Seq(Pids) /\ k \in 1 .. Len(s)
    BY <1>t
  <2> HIDE DEF s
  <2>4. SubSeq(s, 1, k - 1) \in Seq(Pids) /\ SubSeq(s, k + 1, Len(s)) \in Seq(Pids)
    BY <2>3
  <2>5. RemoveAt(s, k) \in Seq(Pids)
    BY <2>4 DEF RemoveAt
  <2>6. kids' \in [Pids -> Seq(Pids)]
    BY <2>2, <2>5, <1>t DEF s
  <2> QED
    BY <1>4, <2>6, <1>k DEF Reap, memory
<1>5. CASE StatProcess
  <2>1. outcome = "running" /\ tree' = tree /\ Outside
    BY <1>5 DEF StatProcess, At
  <2>2. CASE Exists(top.pid)
    <3>1. [top EXCEPT !.step = "cmdline"] \in Calls
      BY <2>1, TopIsCall DEF Calls, Steps
    <3>2. Becomes([top EXCEPT !.step = "cmdline"])
      BY <1>5, <2>2 DEF StatProcess
    <3>3. [top EXCEPT !.step = "cmdline"].node = top.node
          /\ [top EXCEPT !.step = "cmdline"].step = "cmdline"
      BY <2>1, TopIsCall DEF Calls
    <3> QED
      BY <2>1, <3>1, <3>2, <3>3, <1>u
  <2>3. CASE ~ Exists(top.pid)
    BY <1>5, <2>1, <2>3, <1>o, <1>s, GoesBack DEF StatProcess
  <2> QED
    BY <2>2, <2>3
<1>6. CASE StatCmdline
  <2>1. outcome = "running" /\ tree' = tree /\ Outside
    BY <1>6 DEF StatCmdline, At
  <2> DEFINE a == [top EXCEPT !.step = "children", !.cmd_err = ~ Exists(top.pid)]
  <2>2. Becomes(a)
    BY <1>6 DEF StatCmdline
  <2>3. a \in Calls /\ a.node = top.node /\ a.step = "children"
    <3>1. (~ Exists(top.pid)) \in BOOLEAN
      BY DEF Exists
    <3> DEFINE e == ~ Exists(top.pid)
    <3> HIDE DEF e
    <3>2. \A x \in BOOLEAN : LET y == [top EXCEPT !.step = "children", !.cmd_err = x] IN
            y \in Calls /\ y.node = top.node /\ y.step = "children"
      BY <2>1, TopIsCall DEF Calls, Steps
    <3> QED
      BY <3>1, <3>2
  <2> HIDE DEF a
  <2> QED
    BY <2>1, <2>2, <2>3, <1>u
<1>7. CASE StatChildren
  <2>1. outcome = "running" /\ tree' = tree /\ Outside
    BY <1>7 DEF StatChildren, At
  <2>2. PICK to \in {"open", "name"} : Becomes([top EXCEPT !.step = to])
    BY <1>7 DEF StatChildren
  <2>3. LET a == [top EXCEPT !.step = to] IN a \in Calls /\ a.node = top.node /\ a.step = to
    BY <2>1, TopIsCall DEF Calls, Steps
  <2> QED
    BY <2>1, <2>2, <2>3, <1>u
<1>8. CASE OpenChildren
  <2>1. outcome = "running" /\ tree' = tree /\ Outside
    BY <1>8 DEF OpenChildren, At
  <2>2. CASE Opens(top.pid)
    <3>1. Becomes([top EXCEPT !.step = "read"])
      BY <1>8, <2>2 DEF OpenChildren
    <3>2. LET a == [top EXCEPT !.step = "read"] IN
            a \in Calls /\ a.node = top.node /\ a.step = "read"
      BY <2>1, TopIsCall DEF Calls, Steps
    <3> QED
      BY <2>1, <3>1, <3>2, <1>u
  <2>3. CASE ~ Opens(top.pid)
    BY <1>8, <2>1, <2>3, <1>o, <1>s DEF OpenChildren, Segv, Linked, LinkTypes
  <2> QED
    BY <2>2, <2>3
<1>9. CASE ReadChildren
  <2>1. outcome = "running" /\ tree' = tree /\ Outside
    BY <1>9 DEF ReadChildren, At
  <2>2. PICK c \in Seq(Pids) : Becomes([top EXCEPT !.step = "name", !.children = c])
    <3>1. top.pid \in Pids
      BY <2>1, TopIsCall DEF Calls
    <3>2. (IF Exists(top.pid) THEN kids[top.pid] ELSE <<>>) \in Seq(Pids)
      BY <3>1, <1>t
    <3> QED
      BY <1>9, <3>2 DEF ReadChildren
  <2>3. LET a == [top EXCEPT !.step = "name", !.children = c] IN
          a \in Calls /\ a.node = top.node /\ a.step = "name"
    BY <2>1, TopIsCall DEF Calls, Steps
  <2> QED
    BY <2>1, <2>2, <2>3, <1>u
<1>10. CASE Name
  <2>1. outcome = "running" /\ Outside
    BY <1>10 DEF Name, At
  <2>2. CASE Segv /\ tree' = tree
    BY <2>1, <2>2, <1>o, <1>s DEF Segv, Linked, LinkTypes
  <2>3. CASE ~ (Segv /\ tree' = tree)
    <3> DEFINE n == Len(top.children)
               array == Len(tree) + 1
               x == [tree[top.node] EXCEPT !.pid = top.pid, !.name = ~ top.cmd_err,
                       !.child_procs = IF n = 0 THEN 0 ELSE array]
    <3>1. /\ tree' = [tree EXCEPT ![top.node] = x] \o [k \in 1 .. n |-> blank]
          /\ IF n = 0 THEN Returns(0) ELSE Becomes([top EXCEPT !.step = "child", !.child = array, !.i = 0])
      BY <1>10, <2>3 DEF Name
    <3>2. top \in Calls /\ InArray(top, Len(tree))
      BY <2>1, TopIsCall
    <3>3. n \in Nat /\ top.node \in 1 .. Len(tree) /\ array \in Nat
      BY <3>2, <1>t DEF Calls, InArray
    <3>4. x \in Blocks /\ x.next_sibling = tree[top.node].next_sibling
          /\ x.child_procs = (IF n = 0 THEN 0 ELSE array)
      <4> DEFINE c == IF n = 0 THEN 0 ELSE array
                 e == ~ top.cmd_err
      <4>1. c \in Nat
        BY <3>3
      <4>2. e \in BOOLEAN
        OBVIOUS
      <4>3. top.pid \in Pids
        BY <3>2 DEF Calls
      <4>4. tree[top.node] \in Blocks
        BY <3>3, <1>t
      <4> HIDE DEF c, e
      <4>5. LET y == [tree[top.node] EXCEPT !.pid = top.pid, !.name = e, !.child_procs = c] IN
              y \in Blocks /\ y.next_sibling = tree[top.node].next_sibling /\ y.child_procs = c
        BY <4>1, <4>2, <4>3, <4>4 DEF Blocks
      <4> QED
        BY <4>5 DEF c, e
    <3> HIDE DEF x
    <3>5. tree' \in Seq(Blocks) /\ Len(tree') = Len(tree) + n /\ LinksGoForward'
      <4> HIDE DEF n
      <4> QED
        BY <3>1, <3>3, <3>4, NewArray DEF Linked
    <3>6. Len(tree) <= Len(tree')
      BY <3>3, <3>5, <1>t
    <3>7. CASE n = 0
      BY <3>1, <3>5, <3>6, <3>7, <2>1, <1>o, GoesBack
    <3>8. CASE n # 0
      <4> DEFINE a == [top EXCEPT !.step = "child", !.child = array, !.i = 0]
      <4>1. /\ a \in Calls /\ a.node = top.node /\ a.child = array
            /\ a.children = top.children /\ a.i = 0
        BY <3>2, <3>3 DEF Calls, Steps
      <4>2. InArray(a, Len(tree'))
        <5> DEFINE l == Len(tree)
        <5>1. l \in Nat /\ top.node \in 1 .. l /\ array = l + 1 /\ Len(tree') = l + n
          BY <3>3, <3>5, <1>t
        <5> HIDE DEF l, a, array, n
        <5>2. /\ top.node \in 1 .. l + n /\ top.node < array /\ array + n - 1 <= l + n /\ 0 < n
          BY <5>1, <3>3, <3>8
        <5>3. Len(a.children) = n
          BY <4>1 DEF n
        <5> QED
          BY <4>1, <5>1, <5>2, <5>3 DEF InArray
      <4>3. Becomes(a)
        BY <3>1, <3>8
      <4> HIDE DEF a
      <4> QED
        BY <4>1, <4>2, <4>3, <3>5, <3>6, <2>1, <1>o, GoesOn
    <3> QED
      BY <3>7, <3>8
  <2> QED
    BY <2>2, <2>3
(* At a child. *)
<1>c. ASSUME outcome = "running", top.step \in {"child", "sibling"}
      PROVE  /\ top \in Calls /\ top.node \in 1 .. Len(tree)
             /\ top.child \in Nat /\ top.node < top.child
             /\ top.i \in Nat /\ n_children \in Nat /\ top.i < n_children
             /\ top.child + n_children - 1 <= Len(tree)
             /\ top.children \in Seq(Pids)
  BY <1>c, TopIsCall DEF InArray, Calls, n_children
<1>e. ASSUME outcome = "running", top.step \in {"child", "sibling"}
      PROVE  /\ \A k \in Nat : k < n_children => child(k) \in top.node + 1 .. Len(tree)
             /\ \A k \in Nat : k < n_children => child(k) \in 1 .. Len(tree)
             /\ \A j, k \in Nat : j < k => child(j) < child(k)
  <2> DEFINE c == top.child
             node == top.node
             l == Len(tree)
             n == n_children
  <2>1. c \in Nat /\ node \in Nat \ {0} /\ l \in Nat /\ n \in Nat /\ node < c /\ c + n - 1 <= l
    BY <1>e, <1>c, <1>t
  <2> HIDE DEF c, node, l, n
  <2>2. /\ \A k \in Nat : k < n => c + k \in node + 1 .. l
        /\ \A k \in Nat : k < n => c + k \in 1 .. l
        /\ \A j, k \in Nat : j < k => c + j < c + k
    BY <2>1
  <2> QED
    BY <2>2 DEF c, node, l, n, child
(* A step to the next child, or to the link after this one. *)
<1>n. ASSUME outcome = "running", top.step \in {"child", "sibling"}, Outside,
             NEW to \in {"child", "sibling"}, NEW j \in Nat, j < n_children,
             NEW a, a = [top EXCEPT !.step = to, !.i = j], Becomes(a),
             tree' \in Seq(Blocks), Len(tree') = Len(tree), LinksGoForward'
      PROVE  Linked'
  <2>1. /\ a \in Calls /\ a.node = top.node /\ a.step = to /\ a.i = j
        /\ a.child = top.child /\ a.children = top.children
    BY <1>n, TopIsCall DEF Calls, Steps
  <2>2. InArray(a, Len(tree'))
    BY <1>n, <1>c, <2>1 DEF InArray, n_children
  <2> QED
    BY <1>n, <1>o, <1>t, <2>1, <2>2, GoesOn
<1>11. CASE Visit
  <2>1. outcome = "running" /\ top.step = "child" /\ Outside /\ tree' = tree /\ outcome' = outcome
    BY <1>11 DEF Visit, At
  <2> DEFINE b == Activation(child(top.i), c_in_int(top.i))
             a == [top EXCEPT !.step = "sibling"]
  <2>2. stack' = <<b, a>> \o Tail(stack)
    BY <1>11 DEF Visit
  <2>3. child(top.i) \in 1 .. Len(tree) /\ c_in_int(top.i) \in Pids
    <3>1. child(top.i) \in 1 .. Len(tree)
      BY <2>1, <1>c, <1>e
    <3>2. top.i + 1 \in 1 .. Len(top.children) /\ top.children \in Seq(Pids)
      BY <2>1, <1>c DEF n_children
    <3> QED
      BY <3>1, <3>2 DEF c_in_int
  <2>4. b \in Calls /\ InArray(b, Len(tree))
    BY <2>3, <1>t DEF Activation, Calls, Steps, InArray
  <2>5. /\ a \in Calls /\ a.node = top.node /\ a.i = top.i
        /\ a.child = top.child /\ a.children = top.children
    BY <2>1, <1>c DEF Calls, Steps
  <2>6. InArray(a, Len(tree))
    BY <2>1, <2>5, <1>c DEF InArray, n_children
  <2> HIDE DEF a, b
  <2> QED
    BY <2>1, <2>2, <2>4, <2>5, <2>6, <1>o, CallsAnother
<1>12. CASE LinkOver
  <2>1. outcome = "running" /\ top.step = "child" /\ Outside /\ n_children > top.i + 1
        /\ Becomes([top EXCEPT !.step = "sibling"])
    BY <1>12 DEF LinkOver, At
  <2>2. tree' \in Seq(Blocks) /\ Len(tree') = Len(tree) /\ LinksGoForward'
    <3>1. CASE top.i = 0
      <4>1. tree' = [tree EXCEPT ![top.node].child_procs = child(1)]
        BY <1>12, <3>1 DEF LinkOver
      <4>2. top.node \in 1 .. Len(tree) /\ child(1) \in top.node + 1 .. Len(tree)
        BY <2>1, <3>1, <1>c, <1>e
      <4> QED
        BY <4>1, <4>2, ChildLink DEF Linked
    <3>2. CASE top.i # 0
      <4>1. tree' = [tree EXCEPT ![child(top.i - 1)].next_sibling = child(top.i + 1)]
        BY <1>12, <3>2 DEF LinkOver
      <4>2. /\ child(top.i - 1) \in 1 .. Len(tree)
            /\ child(top.i + 1) \in child(top.i - 1) + 1 .. Len(tree)
        <5> DEFINE j == top.i - 1
                   k == top.i + 1
        <5>1. j \in Nat /\ k \in Nat /\ j < k /\ j < n_children /\ k < n_children
          <6>1. top.i \in Nat /\ n_children \in Nat /\ top.i < n_children
                /\ n_children > top.i + 1 /\ top.i # 0
            BY <2>1, <3>2, <1>c
          <6> QED
            BY <6>1
        <5> HIDE DEF j, k
        <5>2. child(j) \in 1 .. Len(tree) /\ child(k) \in 1 .. Len(tree) /\ child(j) < child(k)
          BY <2>1, <5>1, <1>e
        <5>3. child(k) \in child(j) + 1 .. Len(tree)
          BY <5>2, <1>t
        <5> QED
          BY <5>2, <5>3 DEF j, k
      <4> QED
        BY <4>1, <4>2, SiblingLink DEF Linked
    <3> QED
      BY <3>1, <3>2
  <2>3. [top EXCEPT !.step = "sibling"] = [top EXCEPT !.step = "sibling", !.i = top.i]
    BY <2>1, <1>c DEF Calls
  <2> QED
    BY <2>1, <2>2, <2>3, <1>c, <1>n
<1>13. CASE Break
  BY <1>13, <1>o, <1>s, GoesBack DEF Break, At
<1>14. CASE LinkSibling
  <2>1. outcome = "running" /\ top.step = "sibling" /\ Outside /\ n_children > top.i + 1
        /\ Becomes([top EXCEPT !.step = "child", !.i = top.i + 1])
    BY <1>14 DEF LinkSibling, At
  <2>2. tree' \in Seq(Blocks) /\ Len(tree') = Len(tree) /\ LinksGoForward'
    <3>1. CASE Exists(c_in_int(top.i + 1))
      <4>1. tree' = [tree EXCEPT ![child(top.i)].next_sibling = child(top.i + 1)]
        BY <1>14, <3>1 DEF LinkSibling
      <4>2. /\ child(top.i) \in 1 .. Len(tree)
            /\ child(top.i + 1) \in child(top.i) + 1 .. Len(tree)
        <5> DEFINE j == top.i
                   k == top.i + 1
        <5>1. j \in Nat /\ k \in Nat /\ j < k /\ j < n_children /\ k < n_children
          BY <2>1, <1>c
        <5> HIDE DEF j, k
        <5>2. child(j) \in 1 .. Len(tree) /\ child(k) \in 1 .. Len(tree) /\ child(j) < child(k)
          BY <2>1, <5>1, <1>e
        <5>3. child(k) \in child(j) + 1 .. Len(tree)
          BY <5>2, <1>t
        <5> QED
          BY <5>2, <5>3 DEF j, k
      <4> QED
        BY <4>1, <4>2, SiblingLink DEF Linked
    <3>2. CASE ~ Exists(c_in_int(top.i + 1))
      BY <1>14, <3>2, <1>s, <1>t DEF LinkSibling
    <3> QED
      BY <3>1, <3>2
  <2>3. top.i + 1 \in Nat /\ top.i + 1 < n_children
    BY <2>1, <1>c
  <2> QED
    BY <2>1, <2>2, <2>3, <1>n
<1>15. CASE LastSibling
  <2>1. outcome = "running" /\ top.step = "sibling" /\ Outside /\ Returns(0)
        /\ tree' = [tree EXCEPT ![child(top.i)].next_sibling = 0]
    BY <1>15 DEF LastSibling, At
  <2>2. child(top.i) \in 1 .. Len(tree)
    BY <2>1, <1>c, <1>e
  <2>3. tree' \in Seq(Blocks) /\ Len(tree') = Len(tree) /\ LinksGoForward'
    BY <2>1, <2>2, SiblingLink DEF Linked
  <2>4. Len(tree) <= Len(tree')
    BY <2>3, <1>t
  <2> QED
    BY <2>1, <2>3, <2>4, <1>o, GoesBack
<1>16. CASE print_ptree
  BY <1>16, <1>t DEF print_ptree, kernel, Linked, LinkTypes, LinksGoForward
<1> QED
  BY <1>1, <1>2, <1>3, <1>4, <1>5, <1>6, <1>7, <1>8, <1>9, <1>10, <1>11, <1>12, <1>13, <1>14,
     <1>15, <1>16 DEF Next, ptree, generate_ptree

(* The structure has no cycle, for any number of processes and whatever becomes of them
   meanwhile. *)
THEOREM StructureIsAcyclic == Spec => []LinksGoForward
<1>1. Linked => LinksGoForward
  BY DEF Linked
<1> QED
  BY <1>1, LinkedInit, LinkedStep, PTL DEF Spec

(* While generate_ptree runs there is an activation to go on with, and the node of each
   has been allocated. *)
THEOREM ActivationsHaveNodes ==
  Spec => [](\A k \in 1 .. Len(stack) : stack[k].node \in DOMAIN tree)
<1>1. Linked => \A k \in 1 .. Len(stack) : stack[k].node \in DOMAIN tree
  BY DEF Linked, LinkTypes, InArray
<1> QED
  BY <1>1, LinkedInit, LinkedStep, PTL DEF Spec

--------------------------------------------------------------------------------
(* The processes of the machine. *)

Dead(p) == status[p] \in {"zombie", "gone"}

(* q was forked by p, or by one that has ended, and init took it over. *)
BelongsTo(q, p) == \E r \in Pids : q \in Range(born[r]) /\ (p = r \/ (p = init /\ Dead(r)))

Kid(p, q) == \E i \in DOMAIN kids[p] : kids[p][i] = q

(* A process that has not been reaped stands in one children file, of its parent or of
   init, and only those that run have any. *)
Related ==
  /\ status \in [Pids -> {"unborn", "runs", "zombie", "gone"}]
  /\ born \in [Pids -> Seq(Pids)]
  /\ steady \subseteq Pids
  /\ \A p, q \in Pids : \A i \in DOMAIN kids[p], j \in DOMAIN kids[q] :
       kids[p][i] = kids[q][j] => p = q /\ i = j
  /\ \A p \in Pids : \A i \in DOMAIN kids[p] :
       status[kids[p][i]] \in {"runs", "zombie"} /\ BelongsTo(kids[p][i], p)
  /\ \A p \in Pids : kids[p] # <<>> => status[p] = "runs"
  /\ status[init] = "runs"
  /\ \A p \in steady : status[p] = "runs"

(* Parents are older, and init is the oldest. *)
Aged(age) ==
  /\ age \in [Pids -> Nat]
  /\ \A p \in Pids \ {init} : age[init] < age[p]
  /\ \A p \in Pids : \A i \in DOMAIN kids[p] : age[p] < age[kids[p][i]]

(* What a step of the processes never takes back. *)
Later ==
  \A p \in Pids :
    /\ status[p] # "unborn" => status'[p] # "unborn"
    /\ status[p] \in {"zombie", "gone"} => status'[p] \in {"zombie", "gone"}
    /\ status[p] = "gone" => status'[p] = "gone"
    /\ Range(born[p]) \subseteq Range(born'[p])

(* Init is one of the processes of the machine. *)
LEMMA InitIsPid == init \in Pids
BY PtreeAssumption DEF init, Pids

(* Whom it was forked by stays true. *)
LEMMA StillBelongs ==
  ASSUME Later, NEW p, NEW q, BelongsTo(q, p)
  PROVE  BelongsTo(q, p)'
BY DEF Later, BelongsTo, Dead

(* The machine begins with a family. *)
LEMMA RelatedInit == Init => Related /\ \E age : Aged(age)
<1> SUFFICES ASSUME Init PROVE Related /\ \E age : Aged(age)
  OBVIOUS
<1>1. /\ kids \in [Pids -> Seq(Pids)] /\ Family(kids) /\ born = kids
      /\ steady = {init} \cup UNION {Range(kids[p]) : p \in Pids}
      /\ status = [p \in Pids |-> IF p \in steady THEN "runs" ELSE "unborn"]
  BY PtreeAssumption DEF Init
<1>2. \A p \in Pids : \A i \in DOMAIN kids[p] :
        kids[p][i] \in Pids /\ kids[p][i] \in Range(kids[p]) /\ kids[p][i] \in steady
  BY <1>1 DEF Range
<1>3. steady \subseteq Pids
  BY <1>1, InitIsPid DEF Range
<1>4. ASSUME NEW p \in Pids, kids[p] # <<>> PROVE p \in steady
  <2>1. p = init \/ \E q \in Pids : p \in Range(kids[q])
    BY <1>1, <1>4 DEF Family
  <2> QED
    BY <1>1, <2>1
<1>5. \A p \in steady : status[p] = "runs"
  BY <1>1, <1>3
<1>6. \A p \in Pids : \A i \in DOMAIN kids[p] :
        status[kids[p][i]] \in {"runs", "zombie"} /\ BelongsTo(kids[p][i], p)
  BY <1>1, <1>2, <1>5 DEF BelongsTo
<1>7. status[init] = "runs"
  BY <1>1, <1>5
<1>8. status \in [Pids -> {"unborn", "runs", "zombie", "gone"}]
  BY <1>1
<1>9. Related
  BY <1>1, <1>3, <1>4, <1>5, <1>6, <1>7, <1>8 DEF Related, Family
<1>10. PICK age \in [Pids -> 0 .. MaxPid] :
         /\ \A p \in Pids \ {init} : age[init] < age[p]
         /\ \A p \in Pids : \A q \in Range(kids[p]) : age[p] < age[q]
  BY <1>1 DEF Family
<1>11. Aged(age)
  <2>1. age \in [Pids -> Nat]
    BY PtreeAssumption
  <2> QED
    BY <1>2, <1>10, <2>1 DEF Aged
<1> QED
  BY <1>9, <1>11

(* fork: the child is younger than all that were there. *)
LEMMA ForkRelated ==
  ASSUME Linked, Related, NEW age, Aged(age), NEW p \in Pids, NEW q \in Pids, Fork(p, q)
  PROVE  /\ Related' /\ Later
         /\ Aged([age EXCEPT ![q] = age[p] + 1])'
         /\ \A r, x \in Pids : Kid(r, x)' => Kid(r, x) \/ (r = p /\ x = q)
<1>1. /\ status[p] = "runs" /\ status[q] = "unborn"
      /\ status' = [status EXCEPT ![q] = "runs"]
      /\ kids' = [kids EXCEPT ![p] = Append(kids[p], q)]
      /\ born' = [born EXCEPT ![p] = Append(born[p], q)]
      /\ steady' = steady
  BY DEF Fork
<1>2. kids \in [Pids -> Seq(Pids)] /\ born \in [Pids -> Seq(Pids)]
  BY DEF Linked, LinkTypes, Related
<1>3. /\ kids'[p] \in Seq(Pids) /\ DOMAIN kids'[p] = DOMAIN kids[p] \cup {Len(kids[p]) + 1}
      /\ Len(kids[p]) + 1 \notin DOMAIN kids[p]
      /\ kids'[p][Len(kids[p]) + 1] = q
      /\ \A i \in DOMAIN kids[p] : kids'[p][i] = kids[p][i]
      /\ \A r \in Pids \ {p} : kids'[r] = kids[r]
  <2>1. kids'[p] = Append(kids[p], q) /\ \A r \in Pids \ {p} : kids'[r] = kids[r]
    BY <1>1, <1>2
  <2>2. PICK s : s = kids[p]
    OBVIOUS
  <2>3. s \in Seq(Pids)
    BY <1>2, <2>2
  <2>4. /\ Append(s, q) \in Seq(Pids) /\ Len(Append(s, q)) = Len(s) + 1
        /\ \A i \in 1 .. Len(s) : Append(s, q)[i] = s[i]
        /\ Append(s, q)[Len(s) + 1] = q
    BY <2>3, AppendProperties
  <2>5. Len(s) \in Nat /\ DOMAIN s = 1 .. Len(s)
    BY <2>3
  <2>6. DOMAIN Append(s, q) = 1 .. Len(s) + 1
    BY <2>3
  <2>7. 1 .. Len(s) + 1 = 1 .. Len(s) \cup {Len(s) + 1} /\ Len(s) + 1 \notin 1 .. Len(s)
    BY <2>5
  <2> QED
    BY <2>1, <2>2, <2>4, <2>5, <2>6, <2>7, Zenon
<1>4. \A r \in Pids : \A i \in DOMAIN kids[r] : kids[r][i] # q /\ kids[r][i] \in Pids
  <2>1. ASSUME NEW r \in Pids, NEW i \in DOMAIN kids[r] PROVE kids[r][i] # q /\ kids[r][i] \in Pids
    <3>1. kids[r] \in Seq(Pids)
      BY <1>2
    <3>2. kids[r][i] \in Pids
      BY <3>1
    <3>3. status[kids[r][i]] \in {"runs", "zombie"}
      BY DEF Related
    <3> QED
      BY <1>1, <3>2, <3>3
  <2> QED
    BY <2>1
<1>5. Later
  <2>1. ASSUME NEW r \in Pids PROVE Range(born[r]) \subseteq Range(born'[r])
    <3>1. born[r] \in Seq(Pids) /\ (born'[r] = born[r] \/ born'[r] = Append(born[r], q))
      BY <1>1, <1>2
    <3>2. \A i \in DOMAIN born[r] : i \in DOMAIN born'[r] /\ born'[r][i] = born[r][i]
      BY <3>1
    <3> QED
      BY <3>2 DEF Range
  <2>2. status \in [Pids -> {"unborn", "runs", "zombie", "gone"}]
    BY DEF Related
  <2> QED
    BY <1>1, <2>1, <2>2 DEF Later
<1>6. BelongsTo(q, p)'
  <2>1. Append(born[p], q)[Len(born[p]) + 1] = q
        /\ Len(born[p]) + 1 \in DOMAIN Append(born[p], q)
    BY <1>2
  <2>2. q \in Range(born'[p])
    BY <1>1, <1>2, <2>1 DEF Range
  <2> QED
    BY <2>2 DEF BelongsTo
<1>7. Related'
  <2>1. /\ status' \in [Pids -> {"unborn", "runs", "zombie", "gone"}]
        /\ born' \in [Pids -> Seq(Pids)] /\ steady' \subseteq Pids
    BY <1>1, <1>2 DEF Related
  <2>2. ASSUME NEW r \in Pids, NEW s \in Pids, NEW i \in DOMAIN kids'[r], NEW j \in DOMAIN kids'[s],
               kids'[r][i] = kids'[s][j]
        PROVE  r = s /\ i = j
    <3>0. ASSUME NEW t \in Pids, NEW k \in DOMAIN kids'[t]
          PROVE  \/ k \in DOMAIN kids[t] /\ kids'[t][k] = kids[t][k] /\ kids'[t][k] # q
                 \/ t = p /\ k = Len(kids[p]) + 1 /\ kids'[t][k] = q
      BY <1>3, <1>4
    <3>1. CASE kids'[r][i] = q
      BY <2>2, <3>0, <3>1
    <3>2. CASE kids'[r][i] # q
      <4>1. /\ i \in DOMAIN kids[r] /\ kids[r][i] = kids'[r][i]
            /\ j \in DOMAIN kids[s] /\ kids[s][j] = kids'[s][j]
        BY <2>2, <3>0, <3>2
      <4> QED
        BY <2>2, <4>1 DEF Related
    <3> QED
      BY <3>1, <3>2
  <2>3. ASSUME NEW r \in Pids, NEW i \in DOMAIN kids'[r], NEW x, x = kids'[r][i]
        PROVE  status'[x] \in {"runs", "zombie"} /\ BelongsTo(x, r)'
    <3>1. CASE i \in DOMAIN kids[r] /\ x = kids[r][i]
      <4>1. status[x] \in {"runs", "zombie"} /\ BelongsTo(x, r)
        BY <3>1 DEF Related
      <4>2. BelongsTo(x, r)'
        BY <1>5, <4>1, StillBelongs
      <4>3. x \in Pids /\ x # q
        BY <1>4, <3>1
      <4>4. status'[x] = status[x]
        BY <1>1, <4>3 DEF Related
      <4> QED
        BY <4>1, <4>2, <4>4
    <3>2. CASE r = p /\ x = q
      <4>1. status'[q] = "runs"
        BY <1>1 DEF Related
      <4>2. BelongsTo(x, r)'
        BY <1>6, <3>2, Zenon
      <4> QED
        BY <3>2, <4>1, <4>2
    <3> QED
      BY <1>3, <2>3, <3>1, <3>2
  <2>6. \A r \in Pids : \A i \in DOMAIN kids'[r] :
          status'[kids'[r][i]] \in {"runs", "zombie"} /\ BelongsTo(kids[r][i], r)'
    BY <2>3, Zenon
  <2>4. \A r \in Pids : kids'[r] # <<>> => status'[r] = "runs"
    BY <1>1, <1>3 DEF Related
  <2>5. status'[init] = "runs" /\ \A r \in steady' : status'[r] = "runs"
    BY <1>1, InitIsPid DEF Related
  <2> QED
    BY <2>1, <2>2, <2>4, <2>5, <2>6 DEF Related
<1>8. Aged([age EXCEPT ![q] = age[p] + 1])'
  <2> DEFINE new == [age EXCEPT ![q] = age[p] + 1]
  <2>1. age \in [Pids -> Nat] /\ p # q /\ q # init
    BY <1>1 DEF Aged, Related
  <2>2. /\ new \in [Pids -> Nat] /\ new[q] = age[p] + 1
        /\ \A r \in Pids \ {q} : new[r] = age[r]
    BY <2>1
  <2> HIDE DEF new
  <2>3. ASSUME NEW r \in Pids \ {init} PROVE new[init] < new[r]
    <3>1. CASE r = q
      <4>1. age[init] = age[p] \/ age[init] < age[p]
        BY DEF Aged
      <4> QED
        BY <2>1, <2>2, <3>1, <4>1, InitIsPid
    <3>2. CASE r # q
      BY <2>1, <2>2, <2>3, <3>2, InitIsPid DEF Aged
    <3> QED
      BY <3>1, <3>2
  <2>4. kids[q] = <<>>
    BY <1>1 DEF Related
  <2>5. ASSUME NEW r \in Pids, NEW i \in DOMAIN kids'[r] PROVE new[r] < new[kids'[r][i]]
    <3>1. CASE i \in DOMAIN kids[r] /\ kids'[r][i] = kids[r][i]
      <4>1. r # q /\ kids[r][i] # q /\ kids[r][i] \in Pids
        BY <1>4, <2>4, <3>1
      <4> QED
        BY <2>2, <3>1, <4>1 DEF Aged
    <3>2. CASE r = p /\ kids'[r][i] = q
      BY <2>1, <2>2, <3>2
    <3> QED
      BY <1>3, <3>1, <3>2
  <2>6. Aged(new)'
    BY <2>2, <2>3, <2>5 DEF Aged
  <2> QED
    BY <2>6 DEF new
<1>9. \A r, x \in Pids : Kid(r, x)' => Kid(r, x) \/ (r = p /\ x = q)
  BY <1>3 DEF Kid
<1> QED
  BY <1>5, <1>7, <1>8, <1>9

(* exit: the children are init's from now on. *)
LEMMA ExitRelated ==
  ASSUME Linked, Related, NEW age, Aged(age), NEW p \in Pids, Exit(p)
  PROVE  /\ Related' /\ Later /\ Aged(age)'
         /\ \A r, x \in Pids : Kid(r, x)' => Kid(r, x) \/ (r = init /\ Kid(p, x))
<1>1. /\ status[p] = "runs" /\ p # init /\ init \in Pids
      /\ status' = [status EXCEPT ![p] = "zombie"]
      /\ kids' = [kids EXCEPT ![init] = kids[init] \o kids[p], ![p] = <<>>]
      /\ born' = born
      /\ steady' = steady \ {p}
  BY InitIsPid DEF Exit
<1>2. /\ kids \in [Pids -> Seq(Pids)] /\ born \in [Pids -> Seq(Pids)]
      /\ status \in [Pids -> {"unborn", "runs", "zombie", "gone"}]
  BY DEF Linked, LinkTypes, Related
<1> DEFINE old == Len(kids[init])
<1>3. /\ kids'[p] = <<>>
      /\ \A r \in Pids \ {init, p} : kids'[r] = kids[r]
      /\ kids'[init] = kids[init] \o kids[p]
  BY <1>1, <1>2
<1>4. /\ old \in Nat /\ DOMAIN kids[init] = 1 .. old
      /\ \A i \in DOMAIN kids'[init] :
           \/ i \in DOMAIN kids[init] /\ kids'[init][i] = kids[init][i]
           \/ i > old /\ i - old \in DOMAIN kids[p] /\ kids'[init][i] = kids[p][i - old]
  <2> DEFINE a == kids[init]
             b == kids[p]
             c == a \o b
  <2>1. a \in Seq(Pids) /\ b \in Seq(Pids)
    BY <1>1, <1>2
  <2> HIDE DEF a, b
  <2>2. /\ Len(a) \in Nat /\ Len(b) \in Nat /\ DOMAIN c = 1 .. Len(a) + Len(b)
        /\ DOMAIN a = 1 .. Len(a) /\ DOMAIN b = 1 .. Len(b)
        /\ \A i \in 1 .. Len(a) + Len(b) : c[i] = IF i <= Len(a) THEN a[i] ELSE b[i - Len(a)]
    BY <2>1
  <2>3. \A i \in DOMAIN c :
           \/ i \in DOMAIN a /\ c[i] = a[i]
           \/ i > Len(a) /\ i - Len(a) \in DOMAIN b /\ c[i] = b[i - Len(a)]
    BY <2>2
  <2> QED
    BY <1>3, <2>2, <2>3 DEF a, b
<1> HIDE DEF old
(* Where a child was before. *)
<1>5. ASSUME NEW r \in Pids, NEW i \in DOMAIN kids'[r]
      PROVE  \/ r # p /\ i \in DOMAIN kids[r] /\ kids'[r][i] = kids[r][i]
             \/ r = init /\ i > old /\ i - old \in DOMAIN kids[p] /\ kids'[r][i] = kids[p][i - old]
  <2>1. CASE r = p
    <3>1. DOMAIN kids'[p] = {}
      BY <1>3
    <3> QED
      BY <2>1, <3>1
  <2>2. CASE r = init
    BY <1>1, <1>4, <2>2
  <2>3. CASE r # p /\ r # init
    <3>1. kids'[r] = kids[r]
      BY <1>3, <2>3
    <3> QED
      BY <2>3, <3>1
  <2> QED
    BY <2>1, <2>2, <2>3
<1>6. Later
  BY <1>1, <1>2 DEF Later
<1>7. ASSUME NEW r \in Pids, NEW i \in DOMAIN kids[r], NEW x, x = kids[r][i]
      PROVE  x \in Pids /\ status'[x] \in {"runs", "zombie"} /\ BelongsTo(x, r)'
             /\ (r = p => BelongsTo(x, init)')
  <2>1. x \in Pids
    <3>1. kids[r] \in Seq(Pids)
      BY <1>2
    <3> QED
      BY <3>1, <1>7
  <2>2. status[x] \in {"runs", "zombie"} /\ BelongsTo(x, r)
    BY <1>7 DEF Related
  <2>3. status'[x] \in {"runs", "zombie"}
    BY <1>1, <1>2, <2>1, <2>2
  <2>4. BelongsTo(x, r)'
    BY <1>6, <2>2, StillBelongs
  <2>5. CASE r = p
    <3>1. PICK t \in Pids : x \in Range(born[t]) /\ (r = t \/ (r = init /\ Dead(t)))
      BY <2>2 DEF BelongsTo
    <3>2. t = p /\ status'[p] = "zombie"
      BY <1>1, <1>2, <2>5, <3>1
    <3>3. BelongsTo(x, init)'
      BY <1>1, <3>1, <3>2 DEF BelongsTo, Dead
    <3> QED
      BY <2>1, <2>3, <2>4, <3>3
  <2> QED
    BY <2>1, <2>3, <2>4, <2>5
<1>8. Related'
  <2>1. /\ status' \in [Pids -> {"unborn", "runs", "zombie", "gone"}]
        /\ born' \in [Pids -> Seq(Pids)] /\ steady' \subseteq Pids
    BY <1>1, <1>2 DEF Related
  <2>2. ASSUME NEW r \in Pids, NEW s \in Pids, NEW i \in DOMAIN kids'[r], NEW j \in DOMAIN kids'[s],
               kids'[r][i] = kids'[s][j]
        PROVE  r = s /\ i = j
    <3>0. ASSUME NEW t \in Pids, NEW u \in Pids, NEW k \in DOMAIN kids[t], NEW l \in DOMAIN kids[u],
                 kids[t][k] = kids[u][l]
          PROVE  t = u /\ k = l
      BY <3>0 DEF Related
    <3>1. CASE r # p /\ i \in DOMAIN kids[r] /\ kids'[r][i] = kids[r][i]
      <4>1. CASE s # p /\ j \in DOMAIN kids[s] /\ kids'[s][j] = kids[s][j]
        <5>1. kids[r][i] = kids[s][j]
          BY <2>2, <3>1, <4>1
        <5> QED
          BY <3>0, <3>1, <4>1, <5>1
      <4>2. CASE s = init /\ j > old /\ j - old \in DOMAIN kids[p] /\ kids'[s][j] = kids[p][j - old]
        <5>1. kids[r][i] = kids[p][j - old]
          BY <2>2, <3>1, <4>2
        <5> QED
          BY <3>0, <3>1, <4>2, <5>1
      <4> QED
        BY <1>5, <4>1, <4>2
    <3>2. CASE r = init /\ i > old /\ i - old \in DOMAIN kids[p] /\ kids'[r][i] = kids[p][i - old]
      <4>1. CASE s # p /\ j \in DOMAIN kids[s] /\ kids'[s][j] = kids[s][j]
        <5>1. kids[s][j] = kids[p][i - old]
          BY <2>2, <3>2, <4>1
        <5> QED
          BY <3>0, <3>2, <4>1, <5>1
      <4>2. CASE s = init /\ j > old /\ j - old \in DOMAIN kids[p] /\ kids'[s][j] = kids[p][j - old]
        <5>0. kids[p][i - old] = kids[p][j - old]
          BY <2>2, <3>2, <4>2
        <5>4. \A k, l \in DOMAIN kids[p] : kids[p][k] = kids[p][l] => k = l
          BY <3>0
        <5>1. i - old = j - old
          BY <3>2, <4>2, <5>0, <5>4
        <5>2. kids'[init] \in Seq(Pids)
          <6>1. kids[init] \in Seq(Pids) /\ kids[p] \in Seq(Pids)
            BY <1>1, <1>2
          <6>2. kids[init] \o kids[p] \in Seq(Pids)
            BY <6>1
          <6> QED
            BY <1>3, <6>2
        <5>3. i \in Nat /\ j \in Nat
          BY <3>2, <4>2, <5>2
        <5> QED
          BY <1>4, <3>2, <4>2, <5>1, <5>3
      <4> QED
        BY <1>5, <4>1, <4>2
    <3> QED
      BY <1>5, <3>1, <3>2
  <2>3. ASSUME NEW r \in Pids, NEW i \in DOMAIN kids'[r], NEW x, x = kids'[r][i]
        PROVE  status'[x] \in {"runs", "zombie"} /\ BelongsTo(x, r)'
    <3>1. CASE i \in DOMAIN kids[r] /\ x = kids[r][i]
      BY <1>7, <3>1
    <3>2. CASE r = init /\ i - old \in DOMAIN kids[p] /\ x = kids[p][i - old]
      <4>1. status'[x] \in {"runs", "zombie"} /\ BelongsTo(x, init)'
        BY <1>7, <3>2
      <4> QED
        BY <3>2, <4>1, Zenon
    <3> QED
      BY <1>5, <2>3, <3>1, <3>2
  <2>4. \A r \in Pids : \A i \in DOMAIN kids'[r] :
          status'[kids'[r][i]] \in {"runs", "zombie"} /\ BelongsTo(kids[r][i], r)'
    BY <2>3, Zenon
  <2>5. \A r \in Pids : kids'[r] # <<>> => status'[r] = "runs"
    BY <1>1, <1>2, <1>3 DEF Related
  <2>6. status'[init] = "runs" /\ \A r \in steady' : status'[r] = "runs"
    BY <1>1, <1>2 DEF Related
  <2> QED
    BY <2>1, <2>2, <2>4, <2>5, <2>6 DEF Related
<1>9. Aged(age)'
  <2>1. ASSUME NEW r \in Pids, NEW i \in DOMAIN kids'[r] PROVE age[r] < age[kids'[r][i]]
    <3>1. CASE r # p /\ i \in DOMAIN kids[r] /\ kids'[r][i] = kids[r][i]
      BY <3>1 DEF Aged
    <3>2. CASE r = init /\ i > old /\ i - old \in DOMAIN kids[p] /\ kids'[r][i] = kids[p][i - old]
      <4>1. age[p] < age[kids[p][i - old]] /\ age[init] < age[p]
        BY <1>1, <3>2 DEF Aged
      <4>2. kids[p][i - old] \in Pids
        BY <1>7, <3>2
      <4>3. age \in [Pids -> Nat]
        BY DEF Aged
      <4>4. age[p] \in Nat /\ age[init] \in Nat /\ age[kids[p][i - old]] \in Nat
        BY <1>1, <4>2, <4>3
      <4>5. age[init] < age[kids[p][i - old]]
        BY <4>1, <4>4
      <4> QED
        BY <3>2, <4>5
    <3> QED
      BY <1>5, <3>1, <3>2
  <2> QED
    BY <2>1 DEF Aged
<1>10. \A r, x \in Pids : Kid(r, x)' => Kid(r, x) \/ (r = init /\ Kid(p, x))
  BY <1>5 DEF Kid
<1> QED
  BY <1>6, <1>8, <1>9, <1>10

(* The places of a sequence without one of its members. *)
LEMMA Removed ==
  ASSUME NEW S, NEW s \in Seq(S), NEW k \in DOMAIN s
  PROVE  /\ RemoveAt(s, k) \in Seq(S)
         /\ DOMAIN RemoveAt(s, k) = 1 .. Len(s) - 1
         /\ \A i \in 1 .. Len(s) - 1 :
              RemoveAt(s, k)[i] = IF i < k THEN s[i] ELSE s[i + 1]
<1>1. Len(s) \in Nat /\ k \in 1 .. Len(s) /\ DOMAIN s = 1 .. Len(s)
  OBVIOUS
<1> DEFINE a == SubSeq(s, 1, k - 1)
           b == SubSeq(s, k + 1, Len(s))
           c == a \o b
<1>2. /\ a \in Seq(S) /\ Len(a) = k - 1
      /\ \A i \in 1 .. k - 1 : a[i] = s[i]
  BY <1>1
<1>3. /\ b \in Seq(S) /\ Len(b) = Len(s) - k
      /\ \A i \in 1 .. Len(s) - k : b[i] = s[k + i]
  BY <1>1
<1>4. RemoveAt(s, k) = c
  BY DEF RemoveAt
<1> HIDE DEF a, b
<1>5. /\ c \in Seq(S) /\ DOMAIN c = 1 .. Len(a) + Len(b)
      /\ \A i \in 1 .. Len(a) + Len(b) : c[i] = IF i <= Len(a) THEN a[i] ELSE b[i - Len(a)]
  <2>1. /\ c \in Seq(S) /\ Len(c) = Len(a) + Len(b)
        /\ \A i \in 1 .. Len(a) + Len(b) : c[i] = IF i <= Len(a) THEN a[i] ELSE b[i - Len(a)]
    BY <1>2, <1>3, ConcatProperties, Zenon
  <2> HIDE DEF c
  <2> QED
    BY <2>1
<1> HIDE DEF c
<1>6. Len(a) + Len(b) = Len(s) - 1
  BY <1>1, <1>2, <1>3
<1>7. ASSUME NEW i \in 1 .. Len(s) - 1 PROVE c[i] = IF i < k THEN s[i] ELSE s[i + 1]
  <2>1. CASE i < k
    BY <1>1, <1>2, <1>5, <1>6, <2>1
  <2>2. CASE ~ (i < k)
    <3>1. i - Len(a) \in 1 .. Len(s) - k /\ k + (i - Len(a)) = i + 1 /\ ~ (i <= Len(a))
      BY <1>1, <1>2, <2>2
    <3> QED
      BY <1>3, <1>5, <1>6, <2>2, <3>1
  <2> QED
    BY <2>1, <2>2
<1> QED
  BY <1>4, <1>5, <1>6, <1>7

(* wait: the process leaves the only list that it stands in. *)
LEMMA ReapRelated ==
  ASSUME Linked, Related, NEW age, Aged(age), NEW p \in Pids, Reap(p)
  PROVE  /\ Related' /\ Later /\ Aged(age)'
         /\ \A r, x \in Pids : Kid(r, x)' => Kid(r, x)
<1>1. /\ status[p] = "zombie"
      /\ status' = [status EXCEPT ![p] = "gone"]
      /\ born' = born /\ steady' = steady
  BY DEF Reap
<1>2. /\ kids \in [Pids -> Seq(Pids)] /\ born \in [Pids -> Seq(Pids)]
      /\ status \in [Pids -> {"unborn", "runs", "zombie", "gone"}]
  BY DEF Linked, LinkTypes, Related
<1>3. PICK q \in Pids : \E k \in DOMAIN kids[q] :
        kids[q][k] = p /\ kids' = [kids EXCEPT ![q] = RemoveAt(kids[q], k)]
  BY DEF Reap
<1>4. PICK k \in DOMAIN kids[q] :
        kids[q][k] = p /\ kids' = [kids EXCEPT ![q] = RemoveAt(kids[q], k)]
  BY <1>3
<1>5. /\ kids[q] \in Seq(Pids) /\ Len(kids[q]) \in Nat /\ DOMAIN kids[q] = 1 .. Len(kids[q])
      /\ k \in 1 .. Len(kids[q])
  BY <1>2, <1>4
<1> DEFINE s == RemoveAt(kids[q], k)
           was(i) == IF i < k THEN i ELSE i + 1
<1>6. /\ DOMAIN s = 1 .. Len(kids[q]) - 1
      /\ \A i \in 1 .. Len(kids[q]) - 1 : s[i] = IF i < k THEN kids[q][i] ELSE kids[q][i + 1]
  BY <1>4, <1>5, Removed
<1>7. kids'[q] = s /\ \A r \in Pids \ {q} : kids'[r] = kids[r]
  BY <1>2, <1>4
<1>8. \A i \in DOMAIN s : /\ was(i) \in DOMAIN kids[q] /\ was(i) # k /\ s[i] = kids[q][was(i)]
                          /\ \A j \in DOMAIN s : was(i) = was(j) => i = j
  BY <1>5, <1>6
<1>9. ASSUME NEW r \in Pids, NEW i \in DOMAIN kids'[r]
      PROVE  \/ r # q /\ i \in DOMAIN kids[r] /\ kids'[r][i] = kids[r][i]
             \/ /\ r = q /\ i \in DOMAIN s /\ was(i) \in DOMAIN kids[r] /\ was(i) # k
                /\ kids'[r][i] = kids[r][was(i)]
  BY <1>7, <1>8
<1>10. \A t, u \in Pids : \A l \in DOMAIN kids[t], m \in DOMAIN kids[u] :
            kids[t][l] = kids[u][m] => t = u /\ l = m
  BY DEF Related
<1> HIDE DEF s, was
(* Who is left is not the one that has been waited for. *)
<1>11. ASSUME NEW r \in Pids, NEW i \in DOMAIN kids'[r]
       PROVE  \E j \in DOMAIN kids[r] : kids'[r][i] = kids[r][j] /\ kids[r][j] # p
  BY <1>4, <1>9, <1>10
<1>12. Later
  BY <1>1, <1>2 DEF Later
<1>13. Related'
  <2>1. /\ status' \in [Pids -> {"unborn", "runs", "zombie", "gone"}]
        /\ born' \in [Pids -> Seq(Pids)] /\ steady' \subseteq Pids
    BY <1>1, <1>2 DEF Related
  <2>2. ASSUME NEW r \in Pids, NEW t \in Pids, NEW i \in DOMAIN kids'[r], NEW j \in DOMAIN kids'[t],
               kids'[r][i] = kids'[t][j]
        PROVE  r = t /\ i = j
    <3>1. CASE r # q
      BY <1>9, <1>10, <2>2, <3>1
    <3>2. CASE r = q
      <4>1. t = q
        BY <1>9, <1>10, <2>2, <3>2
      <4>2. was(i) = was(j) /\ i \in DOMAIN s /\ j \in DOMAIN s
        BY <1>9, <1>10, <2>2, <3>2, <4>1
      <4> QED
        BY <1>8, <3>2, <4>1, <4>2
    <3> QED
      BY <3>1, <3>2
  <2>3. ASSUME NEW r \in Pids, NEW i \in DOMAIN kids'[r], NEW x, x = kids'[r][i]
        PROVE  status'[x] \in {"runs", "zombie"} /\ BelongsTo(x, r)'
    <3>1. PICK j \in DOMAIN kids[r] : x = kids[r][j] /\ x # p
      BY <1>11, <2>3
    <3>2. kids[r] \in Seq(Pids)
      BY <1>2
    <3>3. x \in Pids
      BY <3>1, <3>2
    <3>4. status[x] \in {"runs", "zombie"} /\ BelongsTo(x, r)
      BY <3>1 DEF Related
    <3>5. BelongsTo(x, r)'
      BY <1>12, <3>4, StillBelongs
    <3> QED
      BY <1>1, <1>2, <3>1, <3>3, <3>4, <3>5
  <2>4. \A r \in Pids : \A i \in DOMAIN kids'[r] :
          status'[kids'[r][i]] \in {"runs", "zombie"} /\ BelongsTo(kids[r][i], r)'
    BY <2>3, Zenon
  <2>5. \A r \in Pids : kids'[r] # <<>> => status'[r] = "runs"
    <3>1. ASSUME NEW r \in Pids, kids'[r] # <<>> PROVE status[r] = "runs"
      <4>1. CASE r # q
        BY <1>7, <3>1, <4>1 DEF Related
      <4>2. CASE r = q
        <5>1. kids[q] # <<>>
          BY <1>5
        <5> QED
          BY <4>2, <5>1 DEF Related
      <4> QED
        BY <4>1, <4>2
    <3> QED
      BY <1>1, <1>2, <3>1
  <2>6. status'[init] = "runs" /\ \A r \in steady' : status'[r] = "runs"
    BY <1>1, <1>2, InitIsPid DEF Related
  <2> QED
    BY <2>1, <2>2, <2>4, <2>5, <2>6 DEF Related
<1>14. Aged(age)'
  <2>1. ASSUME NEW r \in Pids, NEW i \in DOMAIN kids'[r] PROVE age[r] < age[kids'[r][i]]
    BY <1>11 DEF Aged
  <2> QED
    BY <2>1 DEF Aged
<1>15. \A r, x \in Pids : Kid(r, x)' => Kid(r, x)
  BY <1>11 DEF Kid
<1> QED
  BY <1>12, <1>13, <1>14, <1>15

--------------------------------------------------------------------------------
(* The processes that the nodes are meant for. *)

Ns == 1 .. Len(tree)

Early == {"exists", "cmdline", "children", "open", "read"}
AtChildren == {"child", "sibling"}

(* The children have been read, and have no nodes yet. *)
Named == stack # <<>> /\ top.step = "name"

(* Every node is meant for a process of its own. *)
Labels(who) ==
  /\ Len(tree) >= 1
  /\ who \in [Ns -> Pids] /\ who[1] = pid
  /\ \A a, b \in Ns : who[a] = who[b] => a = b
  /\ \A a \in Ns : tree[a].pid \in {0, who[a]}
  /\ \A a \in Ns : tree[a].child_procs # 0 => tree[a].pid # 0

(* The node whose array a node is in, and all those above it: the pointers follow
   them. *)
Pointers(owner, anc) ==
  /\ owner \in [Ns -> Nat] /\ anc \in [Ns -> SUBSET Nat]
  /\ \A a \in Ns : \A x \in anc[a] : x < a
  /\ \A a \in Ns : tree[a].child_procs # 0 =>
       /\ owner[tree[a].child_procs] = a
       /\ anc[tree[a].child_procs] = anc[a] \cup {a}
  /\ \A a \in Ns : tree[a].next_sibling # 0 =>
       /\ owner[tree[a].next_sibling] = owner[a]
       /\ anc[tree[a].next_sibling] = anc[a]

Kinship(who, owner) ==
  \A a \in Ns \ {1} :
    /\ owner[a] \in Ns
    /\ status[who[a]] # "unborn"
    /\ BelongsTo(who[a], who[owner[a]])

(* What an activation knows of its node and of its children's. *)
Frame(s, who, owner, anc) ==
  /\ who[s.node] = s.pid
  /\ s.node # 1 \/ s.step # "exists" => status[s.pid] # "unborn"
  /\ s.step \in Early => s.children = <<>>
  /\ s.step \notin AtChildren => s.child = 0
  /\ s.step \in AtChildren =>
       /\ tree[s.node].pid # 0
       /\ \A j \in 0 .. Len(s.children) - 1 :
            /\ who[s.child + j] = s.children[j + 1]
            /\ owner[s.child + j] = s.node
            /\ anc[s.child + j] = anc[s.node] \cup {s.node}

(* The nodes that an activation has yet to look at, and those that all of them have. *)
LeftOf(s) ==
  {a \in Nat :
     \/ s.step \in Early /\ a = s.node
     \/ s.step = "child" /\ s.child + s.i <= a /\ a < s.child + Len(s.children)
     \/ s.step = "sibling" /\ s.child + s.i < a /\ a < s.child + Len(s.children)}

Waiting == {a \in Nat : \E k \in 2 .. Len(stack) : a \in LeftOf(stack[k])}

Left == {a \in Nat : \E k \in 1 .. Len(stack) : a \in LeftOf(stack[k])}

(* The activations that wait are above the innermost one, in the tree as well. *)
Nested(who, owner, anc) ==
  /\ \A k \in 1 .. Len(stack) : Frame(stack[k], who, owner, anc)
  /\ \A j, k \in 1 .. Len(stack) : j < k =>
       /\ stack[k].node < stack[j].node
       /\ stack[j].node \notin LeftOf(stack[k])
       /\ stack[k].step = "sibling"
  /\ stack # <<>> => stack[Len(stack)].node = 1

(* The children that were read belong to the process, and none has a node. *)
Reading(who, age) ==
  Named =>
    /\ \A i, j \in DOMAIN top.children : top.children[i] = top.children[j] => i = j
    /\ \A i \in DOMAIN top.children :
         /\ \A a \in Ns : who[a] # top.children[i]
         /\ status[top.children[i]] # "unborn"
         /\ BelongsTo(top.children[i], top.pid)
         /\ age[pid] < age[top.children[i]]

Seen(who, q) ==
  \/ \E a \in Ns : who[a] = q
  \/ Named /\ \E i \in DOMAIN top.children : top.children[i] = q

(* Whose child has been seen needs no look any more, unless it is init and was not meant
   to be looked at. *)
Fresh(who) ==
  \A p, q \in Pids : Kid(p, q) /\ Seen(who, q) =>
    q = pid \/ (\E a \in Ns \ Left : who[a] = p) \/ (p = init /\ pid # init)

(* A node stays empty only if its process is gone. *)
Skipped(who) ==
  outcome # "failed" =>
    \A a \in Ns : tree[a].pid = 0 =>
      a \in Left \/ status[who[a]] = "gone" \/ (Named /\ top.node = a)

Older(who, age) == Aged(age) /\ \A a \in Ns \ {1} : age[pid] < age[who[a]]

RootRead == Len(tree) > 1 => 1 \notin Left /\ status[pid] # "unborn"

Placed(who, owner, anc, age) ==
  /\ Labels(who) /\ Pointers(owner, anc) /\ Kinship(who, owner)
  /\ Nested(who, owner, anc) /\ Reading(who, age)
  /\ Fresh(who) /\ Skipped(who) /\ Older(who, age) /\ RootRead

Ended ==
  /\ outcome \in {"running", "failed", "segv", "generated", "printed"}
  /\ outcome \in {"generated", "printed"} => stack = <<>>
  /\ outcome = "failed" => pid \notin steady
  /\ outcome = "segv" => left = 0 \/ \E p \in Pids : status[p] = "gone"
  /\ left \in Nat

(* The program begins with a node for the process it was given. *)
LEMMA PlacedInit == Init => \E who, owner, anc, age : Placed(who, owner, anc, age)
<1> SUFFICES ASSUME Init PROVE \E who, owner, anc, age : Placed(who, owner, anc, age)
  OBVIOUS
<1> DEFINE who == [a \in {1} |-> pid]
           owner == [a \in {1} |-> 0]
           anc == [a \in {1} |-> {}]
<1>1. PICK age : Aged(age)
  BY RelatedInit
<1>2. pid \in Pids /\ Len(tree) = 1 /\ tree[1] = blank /\ Ns = {1}
  BY DEF Init, Ns
<1>3. /\ Len(stack) = 1 /\ stack[1] = Activation(1, pid) /\ stack # <<>>
      /\ top = Activation(1, pid)
  BY DEF Init, top
<1>4. /\ who \in [Ns -> Pids] /\ who[1] = pid
      /\ owner \in [Ns -> Nat] /\ anc \in [Ns -> SUBSET Nat] /\ anc[1] = {}
  BY <1>2
<1> HIDE DEF who, owner, anc
<1>5. Labels(who) /\ Pointers(owner, anc) /\ Kinship(who, owner) /\ Older(who, age)
  BY <1>1, <1>2, <1>4 DEF Labels, Pointers, Kinship, Older, blank
<1>6. Frame(stack[1], who, owner, anc)
  BY <1>3, <1>4 DEF Frame, Activation, Early, AtChildren
<1>7. Nested(who, owner, anc)
  <2>1. \A k \in 1 .. Len(stack) : k = 1
    BY <1>3
  <2>2. stack[Len(stack)].node = 1
    BY <1>3 DEF Activation
  <2> QED
    BY <1>6, <2>1, <2>2 DEF Nested
<1>8. ~ Named
  BY <1>3 DEF Named, Activation
<1>9. Reading(who, age) /\ RootRead
  BY <1>2, <1>8 DEF Reading, RootRead
<1>10. 1 \in Left
  BY <1>3 DEF Left, LeftOf, Activation, Early
<1>11. Skipped(who)
  BY <1>2, <1>10 DEF Skipped
<1>12. Fresh(who)
  BY <1>2, <1>4, <1>8 DEF Fresh, Seen
<1>13. Placed(who, owner, anc, age)
  BY <1>5, <1>7, <1>9, <1>11, <1>12 DEF Placed
<1> QED
  BY <1>13

(* What the innermost activation has left, and what those that wait have. *)
LEMMA LeftIs ==
  ASSUME Linked, stack # <<>>
  PROVE  \A a \in Nat : a \in Left <=> a \in LeftOf(top) \/ a \in Waiting
<1>1. Len(stack) \in Nat \ {0}
  BY DEF Linked, LinkTypes
<1> QED
  BY <1>1 DEF Left, Waiting, top

--------------------------------------------------------------------------------
(* The processes go on. *)

(* The processes of all nodes but the first are known, and so is the first as soon as its
   children are. *)
LEMMA RootKnown ==
  ASSUME Linked, NEW who, NEW owner, NEW anc, NEW age, Placed(who, owner, anc, age),
         Named \/ Len(tree) > 1
  PROVE  status[pid] # "unborn"
<1>1. CASE Len(tree) > 1
  BY <1>1 DEF Placed, RootRead
<1>2. CASE Named /\ ~ (Len(tree) > 1)
  <2>1. stack # <<>> /\ top = stack[1] /\ top.step = "name" /\ 1 \in 1 .. Len(stack)
    BY <1>2 DEF Named, top, Linked, LinkTypes
  <2>2. top.node \in 1 .. Len(tree) /\ Len(tree) \in Nat
    BY <2>1 DEF Linked, LinkTypes, InArray
  <2>3. top.node = 1
    BY <1>2, <2>2
  <2>4. who[top.node] = top.pid /\ status[top.pid] # "unborn"
    BY <2>1 DEF Placed, Nested, Frame
  <2> QED
    BY <2>3, <2>4 DEF Placed, Labels
<1> QED
  BY <1>1, <1>2

(* A step of the processes that takes nothing back leaves the nodes their processes. *)
LEMMA MachineKeeps ==
  ASSUME Linked, NEW who, NEW owner, NEW anc, NEW age, Placed(who, owner, anc, age),
         Later, NEW new, Aged(new)', Fresh(who)',
         \A p \in Pids : status[p] # "unborn" => new[p] = age[p],
         UNCHANGED <<pid, tree, stack, outcome>>
  PROVE  Placed(who, owner, anc, new)'
<1>0. /\ Ns' = Ns /\ Named' = Named /\ top' = top /\ Left' = Left /\ Len(tree)' = Len(tree)
      /\ pid' = pid /\ tree' = tree /\ stack' = stack /\ outcome' = outcome
  BY DEF Ns, Named, top, Left, LeftOf
<1>1. Labels(who)' /\ Pointers(owner, anc)'
  BY <1>0 DEF Placed, Labels, Pointers
<1>2. \A p \in Pids : /\ status[p] # "unborn" => status'[p] # "unborn"
                      /\ status[p] = "gone" => status'[p] = "gone"
  BY DEF Later
<1>3. who \in [Ns -> Pids] /\ pid \in Pids
  BY DEF Placed, Labels, Linked, LinkTypes
<1>4. Kinship(who, owner)'
  <2>1. ASSUME NEW a \in Ns \ {1}
        PROVE  /\ owner[a] \in Ns /\ status'[who[a]] # "unborn"
               /\ BelongsTo(who[a], who[owner[a]])'
    <3>1. owner[a] \in Ns /\ status[who[a]] # "unborn" /\ BelongsTo(who[a], who[owner[a]])
      BY DEF Placed, Kinship
    <3>2. status'[who[a]] # "unborn"
      BY <1>2, <1>3, <3>1
    <3>3. BelongsTo(who[a], who[owner[a]])'
      BY <3>1, StillBelongs
    <3> QED
      BY <3>1, <3>2, <3>3
  <2> QED
    BY <1>0, <2>1 DEF Kinship
<1>5. \A k \in 1 .. Len(stack) : stack[k] \in Calls /\ stack[k].pid \in Pids
  <2>1. \A k \in 1 .. Len(stack) : stack[k] \in Calls
    BY DEF Linked, LinkTypes
  <2> QED
    BY <2>1 DEF Calls
<1>6. ASSUME NEW k \in 1 .. Len(stack) PROVE Frame(stack[k], who, owner, anc)'
  <2>1. Frame(stack[k], who, owner, anc)
    BY DEF Placed, Nested
  <2> QED
    BY <1>0, <1>2, <1>5, <2>1 DEF Frame
<1>7. Nested(who, owner, anc)'
  BY <1>0, <1>6 DEF Placed, Nested, LeftOf
<1>8. Reading(who, new)'
  <2> SUFFICES ASSUME Named
               PROVE  Reading(who, new)'
    BY <1>0 DEF Reading
  <2>1. top \in Calls /\ top.children \in Seq(Pids)
    <3>1. top = stack[1] /\ 1 \in 1 .. Len(stack)
      BY DEF Named, top, Linked, LinkTypes
    <3> QED
      BY <1>5, <3>1 DEF Calls
  <2>2. new[pid] = age[pid]
    BY <1>3, RootKnown
  <2>3. ASSUME NEW i \in DOMAIN top.children, NEW x, x = top.children[i], NEW y, y = top.pid
        PROVE  /\ \A a \in Ns : who[a] # x
               /\ status'[x] # "unborn"
               /\ BelongsTo(x, y)'
               /\ new[pid] < new[x]
    <3>1. /\ \A a \in Ns : who[a] # x
          /\ status[x] # "unborn" /\ BelongsTo(x, y) /\ age[pid] < age[x]
      BY <2>3 DEF Placed, Reading
    <3>2. x \in Pids
      BY <2>1, <2>3
    <3>3. status'[x] # "unborn" /\ new[x] = age[x]
      BY <1>2, <3>1, <3>2
    <3>4. BelongsTo(x, y)'
      BY <3>1, StillBelongs
    <3> QED
      BY <2>2, <3>1, <3>3, <3>4
  <2>5. \A i \in DOMAIN top.children :
          /\ \A a \in Ns' : who[a] # top'.children[i]
          /\ status'[top'.children[i]] # "unborn"
          /\ BelongsTo(top.children[i], top.pid)'
          /\ new[pid'] < new[top'.children[i]]
    BY <1>0, <2>3, Zenon
  <2>4. \A i, j \in DOMAIN top.children : top.children[i] = top.children[j] => i = j
    BY DEF Placed, Reading
  <2> QED
    BY <1>0, <2>4, <2>5 DEF Reading
<1>9. Skipped(who)'
  <2>1. Skipped(who)
    BY DEF Placed
  <2> QED
    BY <1>0, <1>2, <1>3, <2>1 DEF Skipped
<1>10. Older(who, new)'
  <2>1. ASSUME NEW a \in Ns \ {1} PROVE new[pid] < new[who[a]]
    <3>1. Len(tree) > 1
      BY DEF Ns, Linked, LinkTypes
    <3>2. status[pid] # "unborn"
      BY <3>1, RootKnown
    <3>3. status[who[a]] # "unborn" /\ age[pid] < age[who[a]] /\ who[a] \in Pids
      BY <1>3 DEF Placed, Kinship, Older
    <3> QED
      BY <1>3, <3>2, <3>3
  <2> QED
    BY <1>0, <2>1 DEF Older
<1>11. RootRead'
  BY <1>0, <1>2, <1>3 DEF Placed, RootRead
<1> QED
  BY <1>1, <1>4, <1>7, <1>8, <1>9, <1>10, <1>11 DEF Placed

(* Fork, Exit and Reap are such steps. *)
LEMMA MachinePlaced ==
  ASSUME Linked, Related, NEW who, NEW owner, NEW anc, NEW age, Placed(who, owner, anc, age),
         NEW p \in Pids, NEW q \in Pids, Fork(p, q) \/ Exit(p) \/ Reap(p)
  PROVE  Related' /\ Later /\ \E new : Placed(who, owner, anc, new)'
<1>1. Aged(age)
  BY DEF Placed, Older
<1>2. UNCHANGED <<pid, tree, stack, outcome>>
  BY DEF Fork, Exit, Reap, memory
<1>3. /\ Left' = Left /\ Ns' = Ns /\ pid' = pid
      /\ \A x : Seen(who, x)' <=> Seen(who, x)
  BY <1>2 DEF Left, LeftOf, Ns, Seen, Named, top
<1>4. \A r, x \in Pids : Kid(r, x) /\ Seen(who, x) =>
        x = pid \/ (\E a \in Ns \ Left : who[a] = r) \/ (r = init /\ pid # init)
  BY DEF Placed, Fresh
(* What has been seen, or was there already, needs no look. *)
<1>5. ASSUME NEW r \in Pids, NEW x \in Pids, Kid(r, x) \/ ~ Seen(who, x) \/ x = pid, Seen(who, x)
      PROVE  x = pid \/ (\E a \in Ns \ Left : who[a] = r) \/ (r = init /\ pid # init)
  BY <1>4, <1>5
<1>6. CASE Fork(p, q)
  <2> DEFINE new == [age EXCEPT ![q] = age[p] + 1]
  <2>1. /\ Related' /\ Later /\ Aged(new)'
        /\ \A r, x \in Pids : Kid(r, x)' => Kid(r, x) \/ (r = p /\ x = q)
    BY <1>1, <1>6, ForkRelated
  <2>2. status[q] = "unborn" /\ age \in [Pids -> Nat]
    BY <1>1, <1>6 DEF Fork, Aged
  <2>3. \A r \in Pids : status[r] # "unborn" => new[r] = age[r]
    BY <2>2
  <2> HIDE DEF new
  <2>4. Seen(who, q) => q = pid
    <3>1. ASSUME NEW a \in Ns, who[a] = q PROVE q = pid
      <4>1. a = 1
        BY <2>2, <3>1 DEF Placed, Kinship
      <4> QED
        BY <3>1, <4>1 DEF Placed, Labels
    <3>2. Named => \A i \in DOMAIN top.children : top.children[i] # q
      BY <2>2 DEF Placed, Reading
    <3> QED
      BY <3>1, <3>2 DEF Seen
  <2>5. \A r, x \in Pids : Kid(r, x)' => Kid(r, x) \/ ~ Seen(who, x) \/ x = pid
    BY <2>1, <2>4
  <2>6. Fresh(who)'
    BY <1>3, <1>5, <2>5 DEF Fresh
  <2>7. Placed(who, owner, anc, new)'
    BY <1>2, <2>1, <2>3, <2>6, MachineKeeps
  <2> QED
    BY <2>1, <2>7
<1>7. CASE Exit(p)
  <2>1. /\ Related' /\ Later /\ Aged(age)'
        /\ \A r, x \in Pids : Kid(r, x)' => Kid(r, x) \/ (r = init /\ Kid(p, x))
    BY <1>1, <1>7, ExitRelated
  <2>2. p # init
    BY <1>7 DEF Exit
  (* The children of one that was looked at go to init, which was if it had to be. *)
  <2>3. ASSUME NEW x \in Pids, Kid(p, x), Seen(who, x)
        PROVE  x = pid \/ (\E a \in Ns \ Left : who[a] = init) \/ pid # init
    <3>1. CASE x = pid
      BY <3>1
    <3>2. CASE pid = init /\ \E a \in Ns \ Left : who[a] = p
      <4>1. PICK a \in Ns \ Left : who[a] = p
        BY <3>2
      <4>2. who[1] = init
        BY <3>2 DEF Placed, Labels
      <4>3. a # 1
        BY <2>2, <4>1, <4>2
      <4>4. Len(tree) > 1 /\ 1 \in Ns
        BY <4>1, <4>3 DEF Ns, Linked, LinkTypes
      <4>5. 1 \notin Left
        BY <4>4 DEF Placed, RootRead
      <4> QED
        BY <4>2, <4>4, <4>5
    <3> QED
      BY <1>4, <2>2, <2>3, <3>1, <3>2
  <2>4. ASSUME NEW r \in Pids, NEW x \in Pids, Kid(r, x)', Seen(who, x)
        PROVE  x = pid \/ (\E a \in Ns \ Left : who[a] = r) \/ (r = init /\ pid # init)
    BY <1>4, <2>1, <2>3, <2>4
  <2>5. Fresh(who)'
    BY <1>3, <2>4 DEF Fresh
  <2>6. Placed(who, owner, anc, age)'
    BY <1>2, <2>1, <2>5, MachineKeeps
  <2> QED
    BY <2>1, <2>6
<1>8. CASE Reap(p)
  <2>1. /\ Related' /\ Later /\ Aged(age)'
        /\ \A r, x \in Pids : Kid(r, x)' => Kid(r, x)
    BY <1>1, <1>8, ReapRelated
  <2>2. Fresh(who)'
    BY <1>3, <1>4, <2>1 DEF Fresh
  <2>3. Placed(who, owner, anc, age)'
    BY <1>2, <2>1, <2>2, MachineKeeps
  <2> QED
    BY <2>1, <2>3
<1> QED
  BY <1>6, <1>7, <1>8

--------------------------------------------------------------------------------
(* ptree goes on. *)

(* Everything is as it was for the activations that wait, when the tree has no less. *)
LEMMA TopIs ==
  ASSUME Linked, outcome = "running"
  PROVE  /\ top = stack[1] /\ top \in Calls /\ InArray(top, Len(tree))
         /\ Len(stack) \in Nat \ {0} /\ stack # <<>>
         /\ \A k \in 1 .. Len(stack) : stack[k] \in Calls /\ InArray(stack[k], Len(tree))
BY TopIsCall DEF top, Linked, LinkTypes

(* A stack with another innermost activation. *)
LEMMA OtherTop ==
  ASSUME NEW S, NEW s \in Seq(S), s # <<>>, NEW a \in S
  PROVE  LET t == <<a>> \o Tail(s) IN
           /\ t \in Seq(S) /\ Len(t) = Len(s) /\ t[1] = a /\ t # <<>>
           /\ \A k \in 2 .. Len(s) : t[k] = s[k]
<1> DEFINE r == Tail(s)
<1>1. /\ r \in Seq(S) /\ Len(r) = Len(s) - 1 /\ Len(s) \in Nat \ {0}
      /\ \A k \in 1 .. Len(s) - 1 : r[k] = s[k + 1]
  OBVIOUS
<1> HIDE DEF r
<1>2. LET t == <<a>> \o r IN
        /\ t \in Seq(S) /\ Len(t) = 1 + Len(r) /\ t[1] = a /\ t # <<>>
        /\ \A k \in 2 .. 1 + Len(r) : t[k] = r[k - 1]
  BY <1>1
<1>3. \A k \in 2 .. Len(s) : r[k - 1] = s[k]
  <2>1. ASSUME NEW k \in 2 .. Len(s) PROVE r[k - 1] = s[k]
    <3>1. k - 1 \in 1 .. Len(s) - 1 /\ (k - 1) + 1 = k
      BY <1>1
    <3> QED
      BY <1>1, <3>1
  <2> QED
    BY <2>1
<1>4. 1 + Len(r) = Len(s)
  BY <1>1
<1> QED
  BY <1>2, <1>3, <1>4 DEF r

(* A stack with one more, and one with one less. *)
LEMMA OneDeeper ==
  ASSUME NEW S, NEW s \in Seq(S), s # <<>>, NEW a \in S, NEW b \in S
  PROVE  LET t == <<b, a>> \o Tail(s) IN
           /\ t \in Seq(S) /\ Len(t) = Len(s) + 1 /\ t[1] = b /\ t[2] = a /\ t # <<>>
           /\ \A k \in 3 .. Len(s) + 1 : t[k] = s[k - 1]
<1> DEFINE r == Tail(s)
<1>1. /\ r \in Seq(S) /\ Len(r) = Len(s) - 1 /\ Len(s) \in Nat \ {0}
      /\ \A k \in 1 .. Len(s) - 1 : r[k] = s[k + 1]
  OBVIOUS
<1> HIDE DEF r
<1> DEFINE two == <<b, a>>
           t == two \o r
<1>2. two \in Seq(S) /\ Len(two) = 2 /\ two[1] = b /\ two[2] = a
  OBVIOUS
<1> HIDE DEF two
<1>3. /\ t \in Seq(S) /\ Len(t) = Len(two) + Len(r)
      /\ \A k \in 1 .. Len(two) + Len(r) :
           t[k] = IF k <= Len(two) THEN two[k] ELSE r[k - Len(two)]
  BY <1>1, <1>2, ConcatProperties
<1> HIDE DEF t
<1>4. Len(t) = Len(s) + 1
  BY <1>1, <1>2, <1>3
<1>5. t[1] = b /\ t[2] = a /\ t # <<>>
  BY <1>1, <1>2, <1>3
<1>6. ASSUME NEW k \in 3 .. Len(s) + 1 PROVE t[k] = s[k - 1]
  <2>1. k - 2 \in 1 .. Len(s) - 1 /\ (k - 2) + 1 = k - 1 /\ ~ (k <= 2) /\ k \in 1 .. Len(s) + 1
    BY <1>1
  <2>2. t[k] = r[k - 2]
    BY <1>1, <1>2, <1>3, <2>1
  <2> QED
    BY <1>1, <2>1, <2>2
<1> QED
  BY <1>3, <1>4, <1>5, <1>6 DEF t, two, r

--------------------------------------------------------------------------------
(* The stack of activations, step by step.  who2, owner2 and anc2 are what is known of
   the nodes after the step. *)

(* What is known of an activation's node outlives the step. *)
Carried(who, owner, anc, who2, owner2, anc2) ==
  \A s \in Calls : InArray(s, Len(tree)) /\ Frame(s, who, owner, anc)
                     => Frame(s, who2, owner2, anc2)'

(* It does if the step neither takes a node its pid nor touches the processes. *)
LEMMA PidsStay ==
  ASSUME Linked, status' = status, Len(tree') = Len(tree), NEW who, NEW owner, NEW anc,
         \A a \in Ns : tree'[a].pid = tree[a].pid
  PROVE  Carried(who, owner, anc, who, owner, anc)
<1>1. ASSUME NEW s \in Calls, InArray(s, Len(tree)), Frame(s, who, owner, anc)
      PROVE  Frame(s, who, owner, anc)'
  <2>1. s.node \in Ns
    BY <1>1 DEF InArray, Ns
  <2> QED
    BY <1>1, <2>1 DEF Frame
<1> QED
  BY <1>1 DEF Carried

(* The innermost activation stands at its first node only if it is alone. *)
LEMMA AtRoot ==
  ASSUME Linked, outcome = "running", NEW who, NEW owner, NEW anc,
         Nested(who, owner, anc), top.node = 1
  PROVE  Len(stack) = 1
<1>1. /\ top = stack[1] /\ Len(stack) \in Nat \ {0}
      /\ \A k \in 1 .. Len(stack) : stack[k] \in Calls
  BY TopIs
<1>2. SUFFICES ASSUME Len(stack) > 1 PROVE FALSE
  BY <1>1
<1>3. stack[2].node < stack[1].node /\ stack[2] \in Calls
  BY <1>1, <1>2 DEF Nested
<1> QED
  BY <1>1, <1>3 DEF Calls

(* It goes on with the same node. *)
LEMMA Becoming ==
  ASSUME Linked, outcome = "running", NEW who, NEW owner, NEW anc, Nested(who, owner, anc),
         NEW who2, NEW owner2, NEW anc2, Carried(who, owner, anc, who2, owner2, anc2),
         NEW a \in Calls, Becomes(a), a.node = top.node, Frame(a, who2, owner2, anc2)'
  PROVE  /\ Nested(who2, owner2, anc2)'
         /\ \A x \in Nat : x \in Left' <=> x \in LeftOf(a) \/ x \in Waiting
         /\ Named' <=> a.step = "name"
         /\ top' = a
<1>1. /\ top = stack[1] /\ Len(stack) \in Nat \ {0} /\ stack # <<>> /\ stack \in Seq(Calls)
      /\ \A k \in 1 .. Len(stack) : stack[k] \in Calls /\ InArray(stack[k], Len(tree))
  BY TopIs DEF Linked, LinkTypes
<1>2. stack' = <<a>> \o Tail(stack)
  BY DEF Becomes
<1>3. /\ stack' \in Seq(Calls) /\ Len(stack') = Len(stack) /\ stack'[1] = a /\ stack' # <<>>
      /\ \A k \in 2 .. Len(stack) : stack'[k] = stack[k]
  BY <1>1, <1>2, OtherTop
<1>4. ASSUME NEW k \in 1 .. Len(stack), NEW s, s = stack'[k] PROVE Frame(s, who2, owner2, anc2)'
  <2>1. CASE k = 1
    <3>1. s = a
      BY <1>3, <1>4, <2>1
    <3> QED
      BY <3>1, Zenon
  <2>2. CASE k # 1
    <3>1. s = stack[k] /\ Frame(stack[k], who, owner, anc)
      BY <1>1, <1>3, <1>4, <2>2 DEF Nested
    <3> QED
      BY <1>1, <3>1 DEF Carried
  <2> QED
    BY <2>1, <2>2
<1>5. \A k \in 1 .. Len(stack') : Frame(stack[k], who2, owner2, anc2)'
  <2>1. \A k \in 1 .. Len(stack) : Frame(stack[k], who2, owner2, anc2)'
    BY <1>4, Zenon
  <2> QED
    BY <1>3, <2>1
<1>6. \A k \in 1 .. Len(stack) : stack'[k].node = stack[k].node /\ (k # 1 => stack'[k] = stack[k])
  BY <1>1, <1>3
<1>7. ASSUME NEW j \in 1 .. Len(stack'), NEW k \in 1 .. Len(stack'), j < k
      PROVE  /\ stack'[k].node < stack'[j].node
             /\ stack'[j].node \notin LeftOf(stack'[k])
             /\ stack'[k].step = "sibling"
  <2>1. /\ stack[k].node < stack[j].node
        /\ stack[j].node \notin LeftOf(stack[k])
        /\ stack[k].step = "sibling"
    BY <1>3, <1>7 DEF Nested
  <2>2. k # 1 /\ k \in 1 .. Len(stack) /\ j \in 1 .. Len(stack)
    BY <1>1, <1>3, <1>7
  <2> QED
    BY <1>6, <2>1, <2>2
<1>8. stack'[Len(stack')].node = 1
  BY <1>1, <1>3, <1>6 DEF Nested
<1>9. Nested(who2, owner2, anc2)'
  BY <1>5, <1>7, <1>8 DEF Nested, LeftOf
<1>10. top' = a /\ (Named' <=> a.step = "name")
  BY <1>3 DEF top, Named
<1>11. ASSUME NEW x \in Nat PROVE x \in Left' <=> x \in LeftOf(a) \/ x \in Waiting
  <2>1. x \in Left' <=> \E k \in 1 .. Len(stack) : x \in LeftOf(stack'[k])
    BY <1>3 DEF Left, LeftOf
  <2>2. x \in Waiting <=> \E k \in 2 .. Len(stack) : x \in LeftOf(stack[k])
    BY DEF Waiting
  <2> QED
    BY <1>1, <1>3, <2>1, <2>2
<1> QED
  BY <1>9, <1>10, <1>11

(* It returns. *)
LEMMA Returning ==
  ASSUME Linked, outcome = "running", NEW who, NEW owner, NEW anc, Nested(who, owner, anc),
         NEW who2, NEW owner2, NEW anc2, Carried(who, owner, anc, who2, owner2, anc2),
         NEW code, Returns(code)
  PROVE  /\ Nested(who2, owner2, anc2)'
         /\ \A x \in Nat : x \in Left' <=> x \in Waiting
         /\ ~ Named'
<1>1. /\ top = stack[1] /\ Len(stack) \in Nat \ {0} /\ stack # <<>> /\ stack \in Seq(Calls)
      /\ \A k \in 1 .. Len(stack) : stack[k] \in Calls /\ InArray(stack[k], Len(tree))
  BY TopIs DEF Linked, LinkTypes
<1>2. /\ stack' \in Seq(Calls) /\ Len(stack') = Len(stack) - 1
      /\ \A k \in 1 .. Len(stack) - 1 : stack'[k] = stack[k + 1]
  BY TopIsCall DEF Returns
<1>3. \A k \in 1 .. Len(stack') : k + 1 \in 1 .. Len(stack) /\ stack'[k] = stack[k + 1]
  BY <1>1, <1>2
<1>4. ASSUME NEW k \in 1 .. Len(stack'), NEW s, s = stack'[k] PROVE Frame(s, who2, owner2, anc2)'
  <2>1. s = stack[k + 1] /\ k + 1 \in 1 .. Len(stack)
    BY <1>3, <1>4
  <2>2. Frame(stack[k + 1], who, owner, anc)
    BY <2>1 DEF Nested
  <2> QED
    BY <1>1, <2>1, <2>2 DEF Carried
<1>5. \A k \in 1 .. Len(stack') : Frame(stack[k], who2, owner2, anc2)'
  BY <1>4, Zenon
<1>7. ASSUME NEW j \in 1 .. Len(stack'), NEW k \in 1 .. Len(stack'), j < k
      PROVE  /\ stack'[k].node < stack'[j].node
             /\ stack'[j].node \notin LeftOf(stack'[k])
             /\ stack'[k].step = "sibling"
  <2>1. /\ j + 1 \in 1 .. Len(stack) /\ k + 1 \in 1 .. Len(stack) /\ j + 1 < k + 1
        /\ stack'[j] = stack[j + 1] /\ stack'[k] = stack[k + 1]
    BY <1>1, <1>2, <1>3, <1>7
  <2> QED
    BY <2>1 DEF Nested
<1>8. ASSUME stack' # <<>> PROVE stack'[Len(stack')].node = 1 /\ top'.step = "sibling"
  <2>1. Len(stack') \in 1 .. Len(stack') /\ Len(stack') + 1 = Len(stack) /\ 1 \in 1 .. Len(stack')
    BY <1>1, <1>2, <1>8
  <2>2. stack'[Len(stack')] = stack[Len(stack)] /\ stack'[1] = stack[1 + 1]
        /\ 1 + 1 \in 1 .. Len(stack)
    BY <1>3, <2>1
  <2>3. stack[1 + 1].step = "sibling"
    BY <1>1, <2>2 DEF Nested
  <2> QED
    BY <1>1, <2>2, <2>3 DEF Nested, top
<1>9. Nested(who2, owner2, anc2)'
  BY <1>5, <1>7, <1>8 DEF Nested, LeftOf
<1>10. ~ Named'
  BY <1>8 DEF Named
<1>11. ASSUME NEW x \in Nat PROVE x \in Left' <=> x \in Waiting
  <2>1. x \in Left' <=> \E k \in 1 .. Len(stack') : x \in LeftOf(stack'[k])
    BY DEF Left, LeftOf
  <2>2. x \in Waiting <=> \E k \in 2 .. Len(stack) : x \in LeftOf(stack[k])
    BY DEF Waiting
  <2>3. \A k \in 2 .. Len(stack) : k - 1 \in 1 .. Len(stack') /\ stack'[k - 1] = stack[k]
    <3>1. \A k \in 2 .. Len(stack) : k - 1 \in 1 .. Len(stack') /\ (k - 1) + 1 = k
      BY <1>1, <1>2
    <3> QED
      BY <1>3, <3>1
  <2>4. \A k \in 1 .. Len(stack') : k + 1 \in 2 .. Len(stack)
    BY <1>1, <1>2
  <2> QED
    BY <1>3, <2>1, <2>2, <2>3, <2>4
<1> QED
  BY <1>9, <1>10, <1>11

(* A node of an array is that of one of the children. *)
LEMMA WithinArray ==
  ASSUME NEW c \in Nat, NEW n \in Nat, NEW i \in Nat, NEW b \in Nat, c + i < b, b < c + n
  PROVE  b - c \in 0 .. n - 1 /\ c + (b - c) = b
OBVIOUS

(* It calls another one for a child of its. *)
LEMMA Calling ==
  ASSUME Linked, outcome = "running", NEW who, NEW owner, NEW anc, Nested(who, owner, anc),
         Carried(who, owner, anc, who, owner, anc),
         NEW a \in Calls, NEW b \in Calls, stack' = <<b, a>> \o Tail(stack),
         a.node = top.node, a.step = "sibling", b.step = "exists", InArray(top, Len(tree)),
         Frame(a, who, owner, anc)', Frame(b, who, owner, anc)',
         a.node < b.node, owner[b.node] = a.node, b.node \notin LeftOf(a)
  PROVE  /\ Nested(who, owner, anc)'
         /\ \A x \in Nat : x \in Left' <=> x = b.node \/ x \in LeftOf(a) \/ x \in Waiting
         /\ ~ Named'
<1>1. /\ top = stack[1] /\ Len(stack) \in Nat \ {0} /\ stack # <<>> /\ stack \in Seq(Calls)
      /\ \A k \in 1 .. Len(stack) : stack[k] \in Calls /\ InArray(stack[k], Len(tree))
  BY TopIs DEF Linked, LinkTypes
<1>2. /\ stack' \in Seq(Calls) /\ Len(stack') = Len(stack) + 1
      /\ stack'[1] = b /\ stack'[2] = a /\ stack' # <<>>
      /\ \A k \in 3 .. Len(stack) + 1 : stack'[k] = stack[k - 1]
  BY <1>1, OneDeeper
(* Those that wait are where they were, one further down. *)
<1>3. ASSUME NEW k \in 1 .. Len(stack'), k # 1
      PROVE  /\ k - 1 \in 1 .. Len(stack)
             /\ stack'[k].node = stack[k - 1].node
             /\ k # 2 => stack'[k] = stack[k - 1]
  <2>1. k - 1 \in 1 .. Len(stack) /\ (k # 2 => k \in 3 .. Len(stack) + 1) /\ (k = 2 => k - 1 = 1)
    BY <1>1, <1>2, <1>3
  <2> QED
    BY <1>1, <1>2, <2>1
<1>4. ASSUME NEW k \in 1 .. Len(stack'), NEW s, s = stack'[k] PROVE Frame(s, who, owner, anc)'
  <2>1. CASE k = 1
    <3>1. s = b
      BY <1>2, <1>4, <2>1
    <3> QED
      BY <3>1, Zenon
  <2>2. CASE k = 2
    <3>1. s = a
      BY <1>2, <1>4, <2>2
    <3> QED
      BY <3>1, Zenon
  <2>3. CASE k # 1 /\ k # 2
    <3>1. s = stack[k - 1] /\ k - 1 \in 1 .. Len(stack)
      BY <1>3, <1>4, <2>3
    <3>2. Frame(stack[k - 1], who, owner, anc)
      BY <3>1 DEF Nested
    <3> QED
      BY <1>1, <3>1, <3>2 DEF Carried
  <2> QED
    BY <2>1, <2>2, <2>3
<1>5. \A k \in 1 .. Len(stack') : Frame(stack[k], who, owner, anc)'
  BY <1>4, Zenon
(* The child is not among what the activations that wait have left. *)
<1>6. ASSUME NEW k \in 2 .. Len(stack) PROVE b.node \notin LeftOf(stack[k])
  <2>1. /\ stack[k].node < top.node /\ stack[k].step = "sibling"
        /\ Frame(stack[k], who, owner, anc) /\ stack[k] \in Calls
    BY <1>1 DEF Nested
  <2>2. SUFFICES ASSUME b.node \in LeftOf(stack[k]) PROVE FALSE
    OBVIOUS
  <2>a. /\ stack[k].child \in Nat /\ stack[k].i \in Nat /\ stack[k].node \in Nat
        /\ stack[k].children \in Seq(Pids)
    BY <2>1 DEF Calls
  <2>b. Len(stack[k].children) \in Nat
    BY <2>a
  <2>c. b.node \in Nat /\ top.node \in Nat
    BY <1>1 DEF Calls
  <2>d. stack[k].child + stack[k].i < b.node /\ b.node < stack[k].child + Len(stack[k].children)
    BY <2>1, <2>2 DEF LeftOf, Early
  <2>3. PICK s : s = stack[k]
    OBVIOUS
  <2>4. PICK c : c = s.child
    OBVIOUS
  <2>5. PICK n : n = Len(s.children)
    OBVIOUS
  <2>6. PICK x : x = b.node
    OBVIOUS
  <2>7. PICK i : i = s.i
    OBVIOUS
  <2>8. c \in Nat /\ n \in Nat /\ i \in Nat /\ x \in Nat
    BY <2>a, <2>b, <2>c, <2>3, <2>4, <2>5, <2>6, <2>7, Zenon
  <2>9. c + i < x /\ x < c + n
    BY <2>d, <2>3, <2>4, <2>5, <2>6, <2>7, Zenon
  <2>10. x - c \in 0 .. n - 1 /\ c + (x - c) = x
    BY <2>8, <2>9, WithinArray
  <2>11. Frame(s, who, owner, anc) /\ s.step = "sibling"
    BY <2>1, <2>3, Zenon
  <2>12. \A j \in 0 .. n - 1 : owner[c + j] = s.node
    BY <2>4, <2>5, <2>11 DEF Frame, AtChildren
  <2>13. owner[x] = s.node
    BY <2>10, <2>12, Zenon
  <2>14. owner[b.node] = stack[k].node
    BY <2>3, <2>6, <2>13, Zenon
  <2> QED
    BY <2>1, <2>a, <2>c, <2>14
<1>7. ASSUME NEW j \in 1 .. Len(stack'), NEW k \in 1 .. Len(stack'), j < k
      PROVE  /\ stack'[k].node < stack'[j].node
             /\ stack'[j].node \notin LeftOf(stack'[k])
             /\ stack'[k].step = "sibling"
  <2>1. CASE j = 1 /\ k = 2
    BY <1>2, <2>1
  <2>2. CASE j = 1 /\ k # 2
    <3>1. k # 1 /\ k - 1 \in 2 .. Len(stack)
      BY <1>1, <1>2, <1>7, <2>2
    <3>2. stack'[k] = stack[k - 1] /\ stack'[j] = b
      BY <1>2, <1>3, <2>2, <3>1
    <3>3. stack[k - 1].node < top.node /\ stack[k - 1].step = "sibling"
      BY <1>1, <3>1 DEF Nested
    <3>4. stack[k - 1] \in Calls /\ top \in Calls
      BY <1>1, <3>1
    <3>6. stack[k - 1].node \in Nat /\ top.node \in Nat /\ b.node \in Nat
      BY <3>4 DEF Calls
    <3>5. stack[k - 1].node < b.node
      BY <3>3, <3>6
    <3> QED
      BY <1>6, <3>1, <3>2, <3>3, <3>5
  <2>3. CASE j # 1
    <3>1. k # 1 /\ k # 2 /\ j - 1 \in 1 .. Len(stack) /\ k - 1 \in 1 .. Len(stack) /\ j - 1 < k - 1
      BY <1>1, <1>2, <1>7, <2>3
    <3>2. stack'[k] = stack[k - 1] /\ stack'[j].node = stack[j - 1].node
      BY <1>3, <2>3, <3>1
    <3> QED
      BY <3>1, <3>2 DEF Nested
  <2> QED
    BY <2>1, <2>2, <2>3
<1>8. stack'[Len(stack')].node = 1
  <2>1. Len(stack') \in 1 .. Len(stack') /\ Len(stack') # 1 /\ Len(stack') - 1 = Len(stack)
    BY <1>1, <1>2
  <2>2. stack'[Len(stack')].node = stack[Len(stack)].node
    BY <1>3, <2>1
  <2> QED
    BY <1>1, <2>2 DEF Nested
<1>9. Nested(who, owner, anc)'
  BY <1>5, <1>7, <1>8 DEF Nested, LeftOf
<1>10. ~ Named'
  BY <1>2 DEF Named, top
<1>11. ASSUME NEW x \in Nat
       PROVE  x \in Left' <=> x = b.node \/ x \in LeftOf(a) \/ x \in Waiting
  <2>1. x \in Left' <=> \E k \in 1 .. Len(stack') : x \in LeftOf(stack'[k])
    BY DEF Left, LeftOf
  <2>2. x \in Waiting <=> \E k \in 2 .. Len(stack) : x \in LeftOf(stack[k])
    BY DEF Waiting
  <2>3. x \in LeftOf(b) <=> x = b.node
    BY DEF LeftOf, Early
  <2>4. \A k \in 2 .. Len(stack) : k + 1 \in 3 .. Len(stack) + 1 /\ stack'[k + 1] = stack[k]
    <3>1. \A k \in 2 .. Len(stack) : k + 1 \in 3 .. Len(stack) + 1 /\ (k + 1) - 1 = k
      BY <1>1
    <3> QED
      BY <1>2, <3>1
  <2>5. ASSUME x \in Left' PROVE x = b.node \/ x \in LeftOf(a) \/ x \in Waiting
    <3>1. PICK k \in 1 .. Len(stack') : x \in LeftOf(stack'[k])
      BY <2>1, <2>5
    <3>2. CASE k = 1
      BY <1>2, <2>3, <3>1, <3>2
    <3>3. CASE k = 2
      BY <1>2, <3>1, <3>3
    <3>4. CASE k # 1 /\ k # 2
      <4>1. k - 1 \in 2 .. Len(stack)
        BY <1>1, <1>2, <3>4
      <4> QED
        BY <1>3, <2>2, <3>1, <3>4, <4>1
    <3> QED
      BY <3>2, <3>3, <3>4
  <2>6. ASSUME x = b.node \/ x \in LeftOf(a) \/ x \in Waiting PROVE x \in Left'
    <3>1. 1 \in 1 .. Len(stack') /\ 2 \in 1 .. Len(stack')
      BY <1>1, <1>2
    <3>2. CASE x = b.node
      BY <1>2, <2>1, <2>3, <3>1, <3>2
    <3>3. CASE x \in LeftOf(a)
      BY <1>2, <2>1, <3>1, <3>3
    <3>4. CASE x \in Waiting
      <4>1. PICK k \in 2 .. Len(stack) : x \in LeftOf(stack[k])
        BY <2>2, <3>4
      <4>2. k + 1 \in 1 .. Len(stack') /\ stack'[k + 1] = stack[k]
        BY <1>1, <1>2, <2>4, <4>1
      <4> QED
        BY <2>1, <4>1, <4>2
    <3> QED
      BY <2>6, <3>2, <3>3, <3>4
  <2> QED
    BY <2>5, <2>6
<1> QED
  BY <1>9, <1>10, <1>11

(* A step by which no node is added or named, and nobody's children are read. *)
LEMMA QuietStep ==
  ASSUME Linked, outcome = "running", Outside,
         NEW who, NEW owner, NEW anc, NEW age, Placed(who, owner, anc, age),
         ~ Named, ~ Named', Len(tree') = Len(tree),
         \A a \in Ns : tree'[a].pid = tree[a].pid,
         \A a \in Ns : tree'[a].child_procs # 0 => tree'[a].pid # 0,
         Nested(who, owner, anc)', Pointers(owner, anc)',
         \A x \in Nat : x \in Left' => x \in Left,
         outcome' # "failed" =>
           \A a \in Ns : a \in Left /\ tree[a].pid = 0 => a \in Left' \/ status[who[a]] = "gone"
  PROVE  Placed(who, owner, anc, age)'
<1>1. /\ kids' = kids /\ status' = status /\ born' = born /\ pid' = pid /\ Ns' = Ns
  BY DEF Outside, kernel, Ns
<1>2. /\ Labels(who) /\ Kinship(who, owner) /\ Fresh(who) /\ Skipped(who) /\ Older(who, age)
      /\ RootRead
  BY DEF Placed
<1>3. Labels(who)'
  BY <1>1, <1>2 DEF Labels
<1>4. Kinship(who, owner)'
  BY <1>1, <1>2 DEF Kinship, BelongsTo, Dead
<1>5. Reading(who, age)'
  BY DEF Reading
<1>6. Fresh(who)'
  <2>1. \A q : Seen(who, q)' <=> Seen(who, q)
    BY <1>1 DEF Seen
  <2>2. \A a \in Ns \ Left : a \in Ns' \ Left'
    BY <1>1 DEF Ns
  <2>3. \A p, q : Kid(p, q)' <=> Kid(p, q)
    BY <1>1 DEF Kid
  <2> QED
    BY <1>1, <1>2, <2>1, <2>2, <2>3 DEF Fresh
<1>7. Skipped(who)'
  <2>1. ASSUME outcome' # "failed", NEW a \in Ns, tree'[a].pid = 0
        PROVE  a \in Left' \/ status[who[a]] = "gone"
    <3>1. tree[a].pid = 0
      BY <2>1
    <3>2. a \in Left \/ status[who[a]] = "gone"
      BY <1>2, <3>1 DEF Skipped
    <3> QED
      BY <2>1, <3>1, <3>2
  <2> QED
    BY <1>1, <2>1 DEF Skipped
<1>8. Older(who, age)'
  BY <1>1, <1>2 DEF Older, Aged
<1>9. RootRead'
  BY <1>1, <1>2 DEF RootRead
<1> QED
  BY <1>3, <1>4, <1>5, <1>6, <1>7, <1>8, <1>9 DEF Placed

--------------------------------------------------------------------------------
(* The steps of ptree that add no node and read no children. *)

(* What becomes of the outcome is no matter, unless it gives up. *)
LEMMA OutcomeOnly ==
  ASSUME NEW who, NEW owner, NEW anc, NEW age, Placed(who, owner, anc, age),
         UNCHANGED <<kernel, pid, tree, stack>>, outcome # "failed" \/ outcome' = "failed"
  PROVE  Placed(who, owner, anc, age)'
<1>1. /\ kids' = kids /\ status' = status /\ born' = born /\ pid' = pid
      /\ tree' = tree /\ stack' = stack
  BY DEF kernel
<1>2. Ns' = Ns /\ top' = top /\ Named' = Named /\ Left' = Left
  BY <1>1 DEF Ns, top, Named, Left, LeftOf
<1>3. Labels(who)' /\ Pointers(owner, anc)'
  BY <1>1, <1>2 DEF Placed, Labels, Pointers
<1>4. Kinship(who, owner)' /\ Reading(who, age)'
  BY <1>1, <1>2 DEF Placed, Kinship, Reading, BelongsTo, Dead
<1>5. Nested(who, owner, anc)'
  BY <1>1 DEF Placed, Nested, Frame, LeftOf
<1>6. Fresh(who)' /\ Older(who, age)' /\ RootRead'
  BY <1>1, <1>2 DEF Placed, Fresh, Seen, Kid, Older, Aged, RootRead
<1>7. Skipped(who)'
  BY <1>1, <1>2 DEF Placed, Skipped
<1> QED
  BY <1>3, <1>4, <1>5, <1>6, <1>7 DEF Placed

(* New links lead from a node to the first of its array that is there, or along it. *)
LEMMA Relinked ==
  ASSUME NEW who, NEW owner, NEW anc, Labels(who), Pointers(owner, anc),
         Len(tree') = Len(tree), \A a \in Ns : tree'[a].pid = tree[a].pid,
         \A a \in Ns : LET b == tree'[a].child_procs IN
           \/ b = tree[a].child_procs
           \/ tree[a].pid # 0 /\ owner[b] = a /\ anc[b] = anc[a] \cup {a},
         \A a \in Ns : LET b == tree'[a].next_sibling IN
           \/ b = tree[a].next_sibling \/ b = 0
           \/ owner[b] = owner[a] /\ anc[b] = anc[a]
  PROVE  /\ Pointers(owner, anc)'
         /\ \A a \in Ns : tree'[a].child_procs # 0 => tree'[a].pid # 0
<1>1. Ns' = Ns
  BY DEF Ns
<1>2. ASSUME NEW a \in Ns
      PROVE  /\ tree'[a].child_procs # 0 =>
                  /\ tree'[a].pid # 0
                  /\ owner[tree'[a].child_procs] = a
                  /\ anc[tree'[a].child_procs] = anc[a] \cup {a}
             /\ tree'[a].next_sibling # 0 =>
                  /\ owner[tree'[a].next_sibling] = owner[a]
                  /\ anc[tree'[a].next_sibling] = anc[a]
  BY <1>2 DEF Labels, Pointers
<1> QED
  BY <1>1, <1>2 DEF Pointers

(* What is known of the children's nodes while they are gone through. *)
LEMMA AtChild ==
  ASSUME Linked, Related, outcome = "running", top.step \in AtChildren,
         NEW who, NEW owner, NEW anc, NEW age, Placed(who, owner, anc, age)
  PROVE  /\ top.node \in Ns /\ tree[top.node].pid # 0
         /\ n_children \in Nat /\ top.i \in Nat /\ top.i < n_children
         /\ \A j \in Nat : j < n_children =>
              /\ child(j) \in Ns /\ top.node < child(j)
              /\ c_in_int(j) \in Pids /\ status[c_in_int(j)] # "unborn"
              /\ who[child(j)] = c_in_int(j)
              /\ owner[child(j)] = top.node
              /\ anc[child(j)] = anc[top.node] \cup {top.node}
<1>1. /\ top = stack[1] /\ top \in Calls /\ InArray(top, Len(tree)) /\ 1 \in 1 .. Len(stack)
      /\ Len(tree) \in Nat
  BY TopIs DEF Linked, LinkTypes
<1>2. /\ top.node \in Nat \ {0} /\ top.child \in Nat /\ top.i \in Nat /\ top.children \in Seq(Pids)
      /\ n_children \in Nat
  BY <1>1 DEF Calls, n_children
<1>3. /\ top.node \in Ns /\ top.node < top.child /\ top.child + n_children - 1 <= Len(tree)
      /\ top.i < n_children
  BY <1>1 DEF InArray, AtChildren, Ns, n_children
<1>4. /\ tree[top.node].pid # 0
      /\ \A j \in 0 .. n_children - 1 :
           /\ who[top.child + j] = top.children[j + 1]
           /\ owner[top.child + j] = top.node
           /\ anc[top.child + j] = anc[top.node] \cup {top.node}
  BY <1>1 DEF Placed, Nested, Frame, n_children
<1>5. ASSUME NEW j \in Nat, j < n_children
      PROVE  /\ child(j) \in Ns /\ top.node < child(j) /\ c_in_int(j) \in Pids
             /\ who[child(j)] = c_in_int(j)
             /\ owner[child(j)] = top.node
             /\ anc[child(j)] = anc[top.node] \cup {top.node}
  <2>1. child(j) \in Ns /\ top.node < child(j)
    <3> DEFINE c == top.child
               node == top.node
               l == Len(tree)
               n == n_children
    <3>1. c \in Nat /\ node \in Nat \ {0} /\ l \in Nat /\ n \in Nat /\ node < c /\ c + n - 1 <= l
          /\ j < n
      BY <1>1, <1>2, <1>3, <1>5
    <3> HIDE DEF c, node, l, n
    <3>2. c + j \in 1 .. l /\ node < c + j
      BY <3>1
    <3> QED
      BY <3>2 DEF child, Ns, c, node, l
  <2>2. j + 1 \in 1 .. Len(top.children)
    BY <1>2, <1>5 DEF n_children
  <2>3. c_in_int(j) \in Pids
    BY <1>2, <2>2 DEF c_in_int
  <2>4. j \in 0 .. n_children - 1
    BY <1>2, <1>5
  <2> QED
    BY <1>4, <2>1, <2>3, <2>4 DEF child, c_in_int
<1>6. ASSUME NEW j \in Nat, j < n_children PROVE status[c_in_int(j)] # "unborn"
  <2>1. child(j) # 1
    BY <1>2, <1>5, <1>6 DEF Ns
  <2> QED
    BY <1>5, <1>6, <2>1 DEF Placed, Kinship
<1> QED
  BY <1>2, <1>3, <1>4, <1>5, <1>6

(* The nodes of the children that it has yet to come to. *)
LEMMA ChildrenLeft ==
  ASSUME NEW a \in Calls, a.step \in AtChildren,
         a.child = top.child, a.children = top.children, NEW x \in Nat
  PROVE  x \in LeftOf(a) <=>
           \E j \in Nat : /\ j < n_children /\ x = child(j)
                          /\ a.i < j \/ (a.step = "child" /\ a.i = j)
<1>1. /\ top.child \in Nat /\ a.i \in Nat /\ n_children \in Nat
  <2>1. top.children \in Seq(Pids)
    BY DEF Calls
  <2> QED
    BY <2>1 DEF Calls, n_children
<1>2. x \in LeftOf(a) <=>
        /\ x < top.child + n_children
        /\ top.child + a.i < x \/ (a.step = "child" /\ top.child + a.i = x)
  <2>1. \A c, i : c \in Nat /\ i \in Nat => (c + i <= x <=> c + i < x \/ c + i = x)
    OBVIOUS
  <2>2. x \in LeftOf(a) <=>
          \/ a.step = "child" /\ top.child + a.i <= x /\ x < top.child + Len(top.children)
          \/ a.step = "sibling" /\ top.child + a.i < x /\ x < top.child + Len(top.children)
    BY DEF LeftOf, Early, AtChildren
  <2>3. top.child + a.i <= x <=> top.child + a.i < x \/ top.child + a.i = x
    BY <1>1, <2>1
  <2> QED
    BY <2>2, <2>3 DEF AtChildren, n_children
<1> DEFINE c == top.child
           i == a.i
           n == n_children
           j == x - c
<1>3. c \in Nat /\ i \in Nat /\ n \in Nat
  BY <1>1
<1>4. x \in LeftOf(a) <=> x < c + n /\ (c + i < x \/ (a.step = "child" /\ c + i = x))
  BY <1>2
<1> HIDE DEF c, i, n
<1>5. ASSUME x < c + n, c + i < x \/ c + i = x
      PROVE  /\ j \in Nat /\ j < n /\ x = c + j /\ (c + i < x <=> i < j) /\ (c + i = x <=> i = j)
  BY <1>3, <1>5
<1>6. ASSUME NEW k \in Nat, k < n, x = c + k
      PROVE  x < c + n /\ (i < k <=> c + i < x) /\ (i = k <=> c + i = x)
  BY <1>3, <1>6
<1>7. ASSUME x \in LeftOf(a)
      PROVE  \E k \in Nat : k < n /\ x = c + k /\ (i < k \/ (a.step = "child" /\ i = k))
  <2> HIDE DEF j
  <2> QED
    BY <1>4, <1>5, <1>7
<1>8. ASSUME NEW k \in Nat, k < n, x = c + k, i < k \/ (a.step = "child" /\ i = k)
      PROVE  x \in LeftOf(a)
  BY <1>4, <1>6, <1>8
<1> QED
  BY <1>7, <1>8 DEF c, i, n, child

(* Who has no file, though it was there, is gone. *)
LEMMA Vanished ==
  ASSUME Related, NEW p \in Pids, status[p] # "unborn"
  PROVE  Exists(p) <=> status[p] # "gone"
BY DEF Related, Exists

--------------------------------------------------------------------------------
(* The files of the process, one after another. *)
LEMMA MovesOn ==
  ASSUME Linked, Related, outcome = "running", Outside, tree' = tree,
         NEW who, NEW owner, NEW anc, NEW age, Placed(who, owner, anc, age),
         top.step \in Early, top.step # "exists" \/ Exists(top.pid),
         NEW a \in Calls, Becomes(a), a.step \in Early \ {"exists"},
         a.node = top.node, a.pid = top.pid, a.children = top.children, a.child = top.child
  PROVE  Placed(who, owner, anc, age)'
<1>1. /\ top = stack[1] /\ top \in Calls /\ 1 \in 1 .. Len(stack) /\ stack # <<>>
  BY TopIs
<1>2. /\ status' = status /\ outcome' = outcome
  BY DEF Outside, kernel, Becomes
<1>3. Frame(top, who, owner, anc) /\ Nested(who, owner, anc)
  BY <1>1 DEF Placed, Nested
<1>4. top.pid \in Pids
  BY <1>1 DEF Calls
<1>5. status[top.pid] # "unborn"
  BY <1>3 DEF Frame, Exists
<1>6. Frame(a, who, owner, anc)'
  BY <1>2, <1>3, <1>5 DEF Frame, Early, AtChildren
<1>7. Carried(who, owner, anc, who, owner, anc)
  BY <1>2, PidsStay
<1>8. /\ Nested(who, owner, anc)'
      /\ \A x \in Nat : x \in Left' <=> x \in LeftOf(a) \/ x \in Waiting
      /\ ~ Named'
  <2>1. Named' <=> a.step = "name"
    BY <1>3, <1>6, <1>7, Becoming
  <2>2. a.step # "name"
    BY DEF Early
  <2> QED
    BY <1>3, <1>6, <1>7, <2>1, <2>2, Becoming
<1>9. \A x \in Nat : x \in LeftOf(a) <=> x \in LeftOf(top)
  <2>1. top.step # "child" /\ top.step # "sibling" /\ a.step # "child" /\ a.step # "sibling"
    BY DEF Early
  <2> QED
    BY <2>1 DEF LeftOf
<1>10. \A x \in Nat : x \in Left' <=> x \in Left
  BY <1>1, <1>8, <1>9, LeftIs
<1>11. ~ Named
  BY DEF Named, Early
<1>12. Pointers(owner, anc)'
  BY DEF Placed, Pointers, Ns
<1>13. \A x \in Ns : x \in Nat
  BY DEF Ns
<1> QED
  BY <1>2, <1>8, <1>10, <1>11, <1>12, <1>13, QuietStep DEF Placed, Labels

(* The process is looked for: if it is gone the activation returns. *)
LEMMA StatProcessPlaced ==
  ASSUME Linked, Related, StatProcess,
         NEW who, NEW owner, NEW anc, NEW age, Placed(who, owner, anc, age)
  PROVE  Placed(who, owner, anc, age)'
<1>1. outcome = "running" /\ top.step = "exists" /\ tree' = tree /\ Outside
  BY DEF StatProcess, At
<1>2. /\ top = stack[1] /\ top \in Calls /\ 1 \in 1 .. Len(stack) /\ stack # <<>>
      /\ InArray(top, Len(tree))
  BY <1>1, TopIs
<1>3. CASE Exists(top.pid)
  <2>1. LET a == [top EXCEPT !.step = "cmdline"] IN
          /\ a \in Calls /\ a.step = "cmdline"
          /\ a.node = top.node /\ a.pid = top.pid /\ a.children = top.children
          /\ a.child = top.child
    BY <1>2 DEF Calls, Steps
  <2>2. Becomes([top EXCEPT !.step = "cmdline"])
    BY <1>3 DEF StatProcess
  <2>3. top.step \in Early /\ "cmdline" \in Early \ {"exists"}
    BY <1>1 DEF Early
  <2> QED
    BY <1>1, <1>3, <2>1, <2>2, <2>3, MovesOn
(* There is no such process any more, or there never was. *)
<1>4. CASE ~ Exists(top.pid)
  <2>1. Returns(1)
    BY <1>4 DEF StatProcess
  <2>2. status' = status
    BY <1>1 DEF Outside, kernel
  <2>3. Frame(top, who, owner, anc) /\ Nested(who, owner, anc)
    BY <1>2 DEF Placed, Nested
  <2>4. /\ Nested(who, owner, anc)'
        /\ \A x \in Nat : x \in Left' <=> x \in Waiting
        /\ ~ Named'
    BY <1>1, <2>1, <2>2, <2>3, PidsStay, Returning
  <2>5. \A x \in Nat : x \in LeftOf(top) => x = top.node
    BY <1>1 DEF LeftOf, Early
  <2>6. \A x \in Nat : x \in Left' => x \in Left
    BY <1>2, <2>4, LeftIs
  <2>7. ~ Named
    BY <1>1 DEF Named
  <2>8. Pointers(owner, anc)'
    BY <1>1 DEF Placed, Pointers, Ns
  <2>9. outcome' # "failed" => status[who[top.node]] = "gone"
    <3>1. CASE top.node = 1
      <4>1. Len(stack) = 1
        BY <1>1, <2>3, <3>1, AtRoot
      <4> QED
        BY <2>1, <4>1 DEF Returns
    <3>2. CASE top.node # 1
      <4>1. status[top.pid] # "unborn" /\ who[top.node] = top.pid
        BY <2>3, <3>2 DEF Frame
      <4>2. top.pid \in Pids
        BY <1>2 DEF Calls
      <4> QED
        BY <1>4, <4>1, <4>2, Vanished
    <3> QED
      BY <3>1, <3>2
  <2>10. ASSUME outcome' # "failed", NEW x \in Ns, x \in Left, tree[x].pid = 0
         PROVE  x \in Left' \/ status[who[x]] = "gone"
    <3>1. x \in Nat
      BY DEF Ns
    <3>2. x \in LeftOf(top) \/ x \in Waiting
      BY <1>2, <2>10, <3>1, LeftIs
    <3> QED
      BY <2>4, <2>5, <2>9, <2>10, <3>1, <3>2
  <2> QED
    BY <1>1, <2>4, <2>6, <2>7, <2>8, <2>10, QuietStep DEF Placed, Labels
<1> QED
  BY <1>3, <1>4

(* Its files are looked for, and the children file is opened. *)
LEMMA FilesPlaced ==
  ASSUME Linked, Related, outcome = "running", StatCmdline \/ (Exists(top.pid) /\ StatChildren)
                                               \/ OpenChildren,
         NEW who, NEW owner, NEW anc, NEW age, Placed(who, owner, anc, age)
  PROVE  Placed(who, owner, anc, age)'
<1>1. tree' = tree /\ Outside
  BY DEF StatCmdline, StatChildren, OpenChildren
<1>2. /\ top = stack[1] /\ top \in Calls
  BY TopIs
<1>3. CASE StatCmdline
  <2> DEFINE e == ~ Exists(top.pid)
             a == [top EXCEPT !.step = "children", !.cmd_err = e]
  <2>1. e \in BOOLEAN
    BY DEF Exists
  <2>2. Becomes(a) /\ top.step = "cmdline"
    BY <1>3 DEF StatCmdline, At
  <2> HIDE DEF e
  <2>3. /\ a \in Calls /\ a.step = "children"
        /\ a.node = top.node /\ a.pid = top.pid /\ a.children = top.children
        /\ a.child = top.child
    BY <1>2, <2>1 DEF Calls, Steps
  <2>4. top.step \in Early /\ a.step \in Early \ {"exists"} /\ top.step # "exists"
    BY <2>2, <2>3 DEF Early
  <2> HIDE DEF a
  <2> QED
    BY <1>1, <2>2, <2>3, <2>4, MovesOn
<1>4. CASE Exists(top.pid) /\ StatChildren
  <2> DEFINE a == [top EXCEPT !.step = "open"]
  <2>2. Becomes(a) /\ top.step = "children"
    BY <1>4 DEF StatChildren, At
  <2>3. /\ a \in Calls /\ a.step = "open"
        /\ a.node = top.node /\ a.pid = top.pid /\ a.children = top.children
        /\ a.child = top.child
    BY <1>2 DEF Calls, Steps
  <2>4. top.step \in Early /\ a.step \in Early \ {"exists"} /\ top.step # "exists"
    BY <2>2, <2>3 DEF Early
  <2> HIDE DEF a
  <2> QED
    BY <1>1, <2>2, <2>3, <2>4, MovesOn
<1>5. CASE OpenChildren /\ Opens(top.pid)
  <2> DEFINE a == [top EXCEPT !.step = "read"]
  <2>2. Becomes(a) /\ top.step = "open"
    BY <1>5 DEF OpenChildren, At
  <2>3. /\ a \in Calls /\ a.step = "read"
        /\ a.node = top.node /\ a.pid = top.pid /\ a.children = top.children
        /\ a.child = top.child
    BY <1>2 DEF Calls, Steps
  <2>4. top.step \in Early /\ a.step \in Early \ {"exists"} /\ top.step # "exists"
    BY <2>2, <2>3 DEF Early
  <2> HIDE DEF a
  <2> QED
    BY <1>1, <2>2, <2>3, <2>4, MovesOn
<1>6. CASE OpenChildren /\ ~ Opens(top.pid)
  <2>1. Segv
    BY <1>6 DEF OpenChildren
  <2> QED
    BY <1>1, <2>1, OutcomeOnly DEF Segv, Outside
<1> QED
  BY <1>3, <1>4, <1>5, <1>6

--------------------------------------------------------------------------------
(* The children, one after another. *)

(* What is left of a list of children that is gone through. *)
Behind(a, x) ==
  \E j \in Nat : j < n_children /\ x = child(j) /\ (a.i < j \/ (a.step = "child" /\ a.i = j))

(* What an activation at its children knows of the one it looks at. *)
LEMMA TopAmongChildren ==
  ASSUME Linked, outcome = "running", top.step \in AtChildren,
         NEW who, NEW owner, NEW anc, Nested(who, owner, anc),
         status' = status, Len(tree') = Len(tree), \A a \in Ns : tree'[a].pid = tree[a].pid,
         NEW a \in Calls, a.step \in AtChildren, a.node = top.node, a.pid = top.pid,
         a.child = top.child, a.children = top.children
  PROVE  /\ Frame(a, who, owner, anc)'
         /\ \A x \in Nat : x \in LeftOf(a) <=> Behind(a, x)
         /\ \A x \in Nat : x \in LeftOf(top) <=> Behind(top, x)
<1>1. /\ top = stack[1] /\ top \in Calls /\ 1 \in 1 .. Len(stack) /\ InArray(top, Len(tree))
  BY TopIs
<1>2. Frame(top, who, owner, anc)
  BY <1>1 DEF Nested
<1>3. top.node \in Ns
  BY <1>1 DEF InArray, Ns
<1>4. Frame(a, who, owner, anc)'
  BY <1>2, <1>3 DEF Frame, Early, AtChildren
<1>5. \A x \in Nat : x \in LeftOf(a) <=> Behind(a, x)
  BY ChildrenLeft DEF Behind
<1>6. \A x \in Nat : x \in LeftOf(top) <=> Behind(top, x)
  BY <1>1, ChildrenLeft DEF Behind
<1> QED
  BY <1>4, <1>5, <1>6

(* The same activation goes on to another child, or to its link. *)
LEMMA AlongChildren ==
  ASSUME Linked, Related, outcome = "running", Outside, top.step \in AtChildren,
         NEW who, NEW owner, NEW anc, NEW age, Placed(who, owner, anc, age),
         Len(tree') = Len(tree), \A a \in Ns : tree'[a].pid = tree[a].pid,
         \A a \in Ns : tree'[a].child_procs # 0 => tree'[a].pid # 0,
         Pointers(owner, anc)',
         NEW a \in Calls, Becomes(a), a.step \in AtChildren, a.node = top.node, a.pid = top.pid,
         a.child = top.child, a.children = top.children,
         \A x \in Nat : Behind(a, x) => Behind(top, x),
         \A x \in Nat : Behind(top, x) => Behind(a, x) \/ status[who[x]] = "gone"
  PROVE  Placed(who, owner, anc, age)'
<1>1. stack # <<>>
  BY TopIs
<1>2. status' = status
  BY DEF Outside, kernel
<1>3. Nested(who, owner, anc)
  BY DEF Placed
<1>4. /\ Frame(a, who, owner, anc)'
      /\ \A x \in Nat : x \in LeftOf(a) <=> Behind(a, x)
      /\ \A x \in Nat : x \in LeftOf(top) <=> Behind(top, x)
  BY <1>2, <1>3, TopAmongChildren
<1>5. /\ Nested(who, owner, anc)'
      /\ \A x \in Nat : x \in Left' <=> x \in LeftOf(a) \/ x \in Waiting
      /\ Named' <=> a.step = "name"
  BY <1>2, <1>3, <1>4, PidsStay, Becoming
<1>6. ~ Named /\ ~ Named'
  BY <1>5 DEF Named, AtChildren
<1>7. \A x \in Nat : x \in Left' => x \in Left
  BY <1>1, <1>4, <1>5, LeftIs
<1>8. ASSUME NEW x \in Ns, x \in Left PROVE x \in Left' \/ status[who[x]] = "gone"
  <2>1. x \in Nat
    BY DEF Ns
  <2>2. x \in LeftOf(top) \/ x \in Waiting
    BY <1>1, <1>8, <2>1, LeftIs
  <2> QED
    BY <1>4, <1>5, <2>1, <2>2
<1> QED
  BY <1>5, <1>6, <1>7, <1>8, QuietStep

(* It has been at all of them. *)
LEMMA EndOfChildren ==
  ASSUME Linked, Related, outcome = "running", Outside, top.step \in AtChildren,
         NEW who, NEW owner, NEW anc, NEW age, Placed(who, owner, anc, age),
         Len(tree') = Len(tree), \A a \in Ns : tree'[a].pid = tree[a].pid,
         \A a \in Ns : tree'[a].child_procs # 0 => tree'[a].pid # 0,
         Pointers(owner, anc)', Returns(0),
         \A x \in Nat : Behind(top, x) => status[who[x]] = "gone"
  PROVE  Placed(who, owner, anc, age)'
<1>1. stack # <<>> /\ top \in Calls
  BY TopIs
<1>2. status' = status
  BY DEF Outside, kernel
<1>3. Nested(who, owner, anc)
  BY DEF Placed
<1>4. \A x \in Nat : x \in LeftOf(top) <=> Behind(top, x)
  BY <1>1, <1>2, <1>3, TopAmongChildren
<1>5. /\ Nested(who, owner, anc)'
      /\ \A x \in Nat : x \in Left' <=> x \in Waiting
      /\ ~ Named'
  BY <1>2, <1>3, PidsStay, Returning
<1>6. ~ Named
  BY DEF Named, AtChildren
<1>7. \A x \in Nat : x \in Left' => x \in Left
  BY <1>1, <1>5, LeftIs
<1>8. ASSUME NEW x \in Ns, x \in Left PROVE x \in Left' \/ status[who[x]] = "gone"
  <2>1. x \in Nat
    BY DEF Ns
  <2>2. x \in LeftOf(top) \/ x \in Waiting
    BY <1>1, <1>8, <2>1, LeftIs
  <2> QED
    BY <1>4, <1>5, <2>1, <2>2
<1> QED
  BY <1>5, <1>6, <1>7, <1>8, QuietStep

(* The pointers as they are, or with one more along the children. *)
LEMMA TreeAsIs ==
  ASSUME tree' = tree, NEW who, NEW owner, NEW anc, Labels(who), Pointers(owner, anc)
  PROVE  /\ Len(tree') = Len(tree) /\ \A a \in Ns : tree'[a].pid = tree[a].pid
         /\ \A a \in Ns : tree'[a].child_procs # 0 => tree'[a].pid # 0
         /\ Pointers(owner, anc)'
BY DEF Labels, Pointers, Ns

(* A pointer to the children is moved to the next one. *)
LEMMA ChildRelinked ==
  ASSUME Linked, NEW who, NEW owner, NEW anc, Labels(who), Pointers(owner, anc),
         NEW a \in Ns, NEW b, tree' = [tree EXCEPT ![a].child_procs = b],
         tree[a].pid # 0, owner[b] = a, anc[b] = anc[a] \cup {a}
  PROVE  /\ Len(tree') = Len(tree) /\ \A c \in Ns : tree'[c].pid = tree[c].pid
         /\ \A c \in Ns : tree'[c].child_procs # 0 => tree'[c].pid # 0
         /\ Pointers(owner, anc)'
<1>1. tree \in Seq(Blocks) /\ tree[a] \in Blocks
  BY DEF Linked, LinkTypes, Ns
<1>2. \A c \in Ns : tree'[c] = IF c = a THEN [tree[a] EXCEPT !.child_procs = b] ELSE tree[c]
  BY <1>1 DEF Ns
<1>3. Len(tree') = Len(tree)
  BY <1>1
<1>4. \A c \in Ns : /\ tree'[c].pid = tree[c].pid
                    /\ tree'[c].next_sibling = tree[c].next_sibling
                    /\ tree'[c].child_procs = IF c = a THEN b ELSE tree[c].child_procs
  BY <1>1, <1>2 DEF Blocks
<1>5. \A c \in Ns : \/ tree'[c].child_procs = tree[c].child_procs
                    \/ /\ tree[c].pid # 0 /\ owner[tree'[c].child_procs] = c
                       /\ anc[tree'[c].child_procs] = anc[c] \cup {c}
  BY <1>4
<1> QED
  BY <1>3, <1>4, <1>5, Relinked

(* The same of a pointer to a sibling. *)
LEMMA SiblingRelinked ==
  ASSUME Linked, NEW who, NEW owner, NEW anc, Labels(who), Pointers(owner, anc),
         NEW a \in Ns, NEW b, tree' = [tree EXCEPT ![a].next_sibling = b],
         b = 0 \/ (owner[b] = owner[a] /\ anc[b] = anc[a])
  PROVE  /\ Len(tree') = Len(tree) /\ \A c \in Ns : tree'[c].pid = tree[c].pid
         /\ \A c \in Ns : tree'[c].child_procs # 0 => tree'[c].pid # 0
         /\ Pointers(owner, anc)'
<1>1. tree \in Seq(Blocks) /\ tree[a] \in Blocks
  BY DEF Linked, LinkTypes, Ns
<1>2. \A c \in Ns : tree'[c] = IF c = a THEN [tree[a] EXCEPT !.next_sibling = b] ELSE tree[c]
  BY <1>1 DEF Ns
<1>3. Len(tree') = Len(tree)
  BY <1>1
<1>4. \A c \in Ns : /\ tree'[c].pid = tree[c].pid
                    /\ tree'[c].child_procs = tree[c].child_procs
                    /\ tree'[c].next_sibling = IF c = a THEN b ELSE tree[c].next_sibling
  BY <1>1, <1>2 DEF Blocks
<1>5. \A c \in Ns : \/ tree'[c].next_sibling = tree[c].next_sibling \/ tree'[c].next_sibling = 0
                    \/ /\ owner[tree'[c].next_sibling] = owner[c]
                       /\ anc[tree'[c].next_sibling] = anc[c]
  BY <1>4
<1> QED
  BY <1>3, <1>4, <1>5, Relinked

(* The child is there: its activation begins. *)
LEMMA VisitPlaced ==
  ASSUME Linked, Related, Visit,
         NEW who, NEW owner, NEW anc, NEW age, Placed(who, owner, anc, age)
  PROVE  Placed(who, owner, anc, age)'
<1>1. /\ outcome = "running" /\ top.step = "child" /\ top.step \in AtChildren /\ Outside
      /\ tree' = tree /\ outcome' = outcome
  BY DEF Visit, At, AtChildren
<1>2. /\ top = stack[1] /\ top \in Calls /\ 1 \in 1 .. Len(stack) /\ stack # <<>>
      /\ InArray(top, Len(tree))
  BY <1>1, TopIs
<1>3. /\ Labels(who) /\ Pointers(owner, anc) /\ Nested(who, owner, anc)
      /\ Frame(top, who, owner, anc)
  BY <1>2 DEF Placed, Nested
<1> DEFINE p == c_in_int(top.i)
           c == child(top.i)
<1>a. PICK a : a = [top EXCEPT !.step = "sibling"]
  OBVIOUS
<1>b. PICK b : b = Activation(c, p)
  OBVIOUS
<1>4. /\ n_children \in Nat /\ top.i \in Nat /\ top.i < n_children
      /\ c \in Ns /\ top.node < c /\ p \in Pids /\ status[p] # "unborn"
      /\ who[c] = p /\ owner[c] = top.node
  BY <1>1, AtChild
<1>5. stack' = <<b, a>> \o Tail(stack)
  BY <1>a, <1>b DEF Visit
<1>6. /\ a \in Calls /\ a.step = "sibling" /\ a.step \in AtChildren
      /\ a.node = top.node /\ a.pid = top.pid /\ a.child = top.child
      /\ a.children = top.children /\ a.i = top.i
  BY <1>2, <1>a DEF Calls, Steps, AtChildren
<1>7. /\ b \in Calls /\ b.step = "exists" /\ b.node = c /\ b.pid = p
      /\ b.children = <<>> /\ b.child = 0
  <2> HIDE DEF c, p
  <2>1. c \in Nat \ {0} /\ p \in Pids
    BY <1>4 DEF Ns
  <2> QED
    BY <1>b, <2>1 DEF Activation, Calls, Steps
<1> HIDE DEF c, p
<1>8. status' = status
  BY <1>1 DEF Outside, kernel
<1>9. /\ Len(tree') = Len(tree) /\ \A x \in Ns : tree'[x].pid = tree[x].pid
      /\ \A x \in Ns : tree'[x].child_procs # 0 => tree'[x].pid # 0
      /\ Pointers(owner, anc)'
  BY <1>1, <1>3, TreeAsIs
<1>10. /\ Frame(a, who, owner, anc)'
       /\ \A x \in Nat : x \in LeftOf(a) <=> Behind(a, x)
       /\ \A x \in Nat : x \in LeftOf(top) <=> Behind(top, x)
  BY <1>1, <1>3, <1>6, <1>8, <1>9, TopAmongChildren
<1>11. Frame(b, who, owner, anc)'
  BY <1>4, <1>7, <1>8 DEF Frame, Early, AtChildren
<1>12. \A x \in Nat : Behind(top, x) <=> x = c \/ Behind(a, x)
  BY <1>1, <1>4, <1>6 DEF Behind, c
<1>13. c \in Nat /\ c \notin LeftOf(a)
  <2>1. c \in Nat
    BY <1>4 DEF Ns
  <2>2. top.child \in Nat
    BY <1>2 DEF Calls
  <2>3. \A j \in Nat : top.i < j => child(j) # c
    BY <1>4, <2>2 DEF child, c
  <2>4. ~ Behind(a, c)
    BY <1>6, <2>3 DEF Behind
  <2> QED
    BY <1>10, <2>1, <2>4
<1>14. /\ Nested(who, owner, anc)'
       /\ \A x \in Nat : x \in Left' <=> x = b.node \/ x \in LeftOf(a) \/ x \in Waiting
       /\ ~ Named'
  <2>1. Carried(who, owner, anc, who, owner, anc)
    BY <1>8, <1>9, PidsStay
  <2> QED
    BY <1>1, <1>2, <1>3, <1>4, <1>5, <1>6, <1>7, <1>10, <1>11, <1>13, <2>1, Calling
<1>15. \A x \in Nat : x \in Left' <=> x \in Left
  BY <1>2, <1>7, <1>10, <1>12, <1>14, LeftIs
<1>16. ~ Named
  BY <1>1 DEF Named
<1>17. \A x \in Ns : x \in Nat
  BY DEF Ns
<1> QED
  BY <1>1, <1>9, <1>14, <1>15, <1>16, <1>17, QuietStep

(* The child is gone, and is linked over. *)
LEMMA LinkOverPlaced ==
  ASSUME Linked, Related, LinkOver,
         NEW who, NEW owner, NEW anc, NEW age, Placed(who, owner, anc, age)
  PROVE  Placed(who, owner, anc, age)'
<1>1. /\ outcome = "running" /\ top.step = "child" /\ top.step \in AtChildren /\ Outside
      /\ ~ Exists(c_in_int(top.i)) /\ n_children > top.i + 1
      /\ Becomes([top EXCEPT !.step = "sibling"])
  BY DEF LinkOver, At, AtChildren
<1>2. top \in Calls
  BY <1>1, TopIs
<1>3. Labels(who) /\ Pointers(owner, anc)
  BY DEF Placed
<1>4. /\ top.node \in Ns /\ tree[top.node].pid # 0
      /\ n_children \in Nat /\ top.i \in Nat /\ top.i < n_children
      /\ \A j \in Nat : j < n_children =>
           /\ child(j) \in Ns /\ c_in_int(j) \in Pids /\ status[c_in_int(j)] # "unborn"
           /\ who[child(j)] = c_in_int(j)
           /\ owner[child(j)] = top.node
           /\ anc[child(j)] = anc[top.node] \cup {top.node}
  BY <1>1, AtChild
<1> DEFINE a == [top EXCEPT !.step = "sibling"]
<1>5. /\ a \in Calls /\ a.step = "sibling" /\ a.step \in AtChildren
      /\ a.node = top.node /\ a.pid = top.pid /\ a.child = top.child
      /\ a.children = top.children /\ a.i = top.i /\ Becomes(a)
  BY <1>1, <1>2 DEF Calls, Steps, AtChildren
<1> HIDE DEF a
<1>6. /\ Len(tree') = Len(tree) /\ \A x \in Ns : tree'[x].pid = tree[x].pid
      /\ \A x \in Ns : tree'[x].child_procs # 0 => tree'[x].pid # 0
      /\ Pointers(owner, anc)'
  <2>1. CASE top.i = 0
    <3>1. tree' = [tree EXCEPT ![top.node].child_procs = child(1)]
      BY <2>1 DEF LinkOver
    <3>2. owner[child(1)] = top.node /\ anc[child(1)] = anc[top.node] \cup {top.node}
      BY <1>1, <1>4, <2>1
    <3> QED
      BY <1>3, <1>4, <3>1, <3>2, ChildRelinked
  <2>2. CASE top.i # 0
    <3>1. tree' = [tree EXCEPT ![child(top.i - 1)].next_sibling = child(top.i + 1)]
      BY <2>2 DEF LinkOver
    <3>2. /\ top.i - 1 \in Nat /\ top.i - 1 < n_children
          /\ top.i + 1 \in Nat /\ top.i + 1 < n_children
      BY <1>1, <1>4, <2>2
    <3>3. /\ child(top.i - 1) \in Ns
          /\ owner[child(top.i + 1)] = owner[child(top.i - 1)]
          /\ anc[child(top.i + 1)] = anc[child(top.i - 1)]
      BY <1>4, <3>2
    <3> QED
      BY <1>3, <3>1, <3>3, SiblingRelinked
  <2> QED
    BY <2>1, <2>2
<1>7. \A x \in Nat : Behind(a, x) => Behind(top, x)
  BY <1>5 DEF Behind
<1>8. \A x \in Nat : Behind(top, x) => Behind(a, x) \/ x = child(top.i)
  BY <1>5 DEF Behind
<1>9. status[who[child(top.i)]] = "gone"
  <2>1. who[child(top.i)] = c_in_int(top.i)
        /\ c_in_int(top.i) \in Pids /\ status[c_in_int(top.i)] # "unborn"
    BY <1>4
  <2> QED
    BY <1>1, <2>1, Vanished
<1> QED
  BY <1>1, <1>5, <1>6, <1>7, <1>8, <1>9, AlongChildren

(* The last child is gone. *)
LEMMA BreakPlaced ==
  ASSUME Linked, Related, Break,
         NEW who, NEW owner, NEW anc, NEW age, Placed(who, owner, anc, age)
  PROVE  Placed(who, owner, anc, age)'
<1>1. /\ outcome = "running" /\ top.step = "child" /\ top.step \in AtChildren /\ Outside
      /\ ~ Exists(c_in_int(top.i)) /\ n_children = top.i + 1 /\ Returns(0) /\ tree' = tree
  BY DEF Break, At, AtChildren
<1>2. /\ n_children \in Nat /\ top.i \in Nat
      /\ who[child(top.i)] = c_in_int(top.i)
      /\ c_in_int(top.i) \in Pids /\ status[c_in_int(top.i)] # "unborn"
  BY <1>1, AtChild
<1>3. \A j \in Nat : j < n_children => ~ (top.i < j)
  BY <1>1, <1>2
<1>4. \A x \in Nat : Behind(top, x) => x = child(top.i)
  BY <1>3 DEF Behind
<1>5. status[who[child(top.i)]] = "gone"
  BY <1>1, <1>2, Vanished
<1>6. /\ Len(tree') = Len(tree) /\ \A x \in Ns : tree'[x].pid = tree[x].pid
      /\ \A x \in Ns : tree'[x].child_procs # 0 => tree'[x].pid # 0
      /\ Pointers(owner, anc)'
  BY <1>1, TreeAsIs DEF Placed
<1> QED
  BY <1>1, <1>4, <1>5, <1>6, EndOfChildren

(* On to the next child. *)
LEMMA LinkSiblingPlaced ==
  ASSUME Linked, Related, LinkSibling,
         NEW who, NEW owner, NEW anc, NEW age, Placed(who, owner, anc, age)
  PROVE  Placed(who, owner, anc, age)'
<1>1. /\ outcome = "running" /\ top.step = "sibling" /\ top.step \in AtChildren /\ Outside
      /\ n_children > top.i + 1
      /\ Becomes([top EXCEPT !.step = "child", !.i = top.i + 1])
  BY DEF LinkSibling, At, AtChildren
<1>2. top \in Calls
  BY <1>1, TopIs
<1>3. Labels(who) /\ Pointers(owner, anc)
  BY DEF Placed
<1>4. /\ n_children \in Nat /\ top.i \in Nat /\ top.i < n_children
      /\ \A j \in Nat : j < n_children =>
           /\ child(j) \in Ns
           /\ owner[child(j)] = top.node
           /\ anc[child(j)] = anc[top.node] \cup {top.node}
  BY <1>1, AtChild
<1> DEFINE next == top.i + 1
           a == [top EXCEPT !.step = "child", !.i = next]
<1>5. next \in Nat /\ next < n_children
  BY <1>1, <1>4
<1>6. Becomes(a)
  BY <1>1
<1> HIDE DEF next
<1>7. /\ a \in Calls /\ a.step = "child" /\ a.step \in AtChildren
      /\ a.node = top.node /\ a.pid = top.pid /\ a.child = top.child
      /\ a.children = top.children /\ a.i = next
  BY <1>2, <1>5 DEF Calls, Steps, AtChildren
<1> HIDE DEF a
<1>8. /\ Len(tree') = Len(tree) /\ \A x \in Ns : tree'[x].pid = tree[x].pid
      /\ \A x \in Ns : tree'[x].child_procs # 0 => tree'[x].pid # 0
      /\ Pointers(owner, anc)'
  <2>1. CASE Exists(c_in_int(top.i + 1))
    <3>1. tree' = [tree EXCEPT ![child(top.i)].next_sibling = child(next)]
      BY <2>1 DEF LinkSibling, next
    <3>2. /\ child(top.i) \in Ns
          /\ owner[child(next)] = owner[child(top.i)] /\ anc[child(next)] = anc[child(top.i)]
      BY <1>4, <1>5
    <3> QED
      BY <1>3, <3>1, <3>2, SiblingRelinked
  <2>2. CASE ~ Exists(c_in_int(top.i + 1))
    <3>1. tree' = tree
      BY <2>2 DEF LinkSibling
    <3> QED
      BY <1>3, <3>1, TreeAsIs
  <2> QED
    BY <2>1, <2>2
<1>9. \A j \in Nat : top.i < j <=> next < j \/ next = j
  BY <1>4 DEF next
<1>10. \A x \in Nat : Behind(a, x) <=> Behind(top, x)
  BY <1>1, <1>7, <1>9 DEF Behind
<1> QED
  BY <1>1, <1>6, <1>7, <1>8, <1>10, AlongChildren

(* There is no next child. *)
LEMMA LastSiblingPlaced ==
  ASSUME Linked, Related, LastSibling,
         NEW who, NEW owner, NEW anc, NEW age, Placed(who, owner, anc, age)
  PROVE  Placed(who, owner, anc, age)'
<1>1. /\ outcome = "running" /\ top.step = "sibling" /\ top.step \in AtChildren /\ Outside
      /\ n_children = top.i + 1 /\ Returns(0)
      /\ tree' = [tree EXCEPT ![child(top.i)].next_sibling = 0]
  BY DEF LastSibling, At, AtChildren
<1>2. n_children \in Nat /\ top.i \in Nat /\ child(top.i) \in Ns
  BY <1>1, AtChild
<1>3. \A j \in Nat : j < n_children => ~ (top.i < j)
  BY <1>1, <1>2
<1>4. \A x \in Nat : ~ Behind(top, x)
  BY <1>1, <1>3 DEF Behind
<1>5. /\ Len(tree') = Len(tree) /\ \A x \in Ns : tree'[x].pid = tree[x].pid
      /\ \A x \in Ns : tree'[x].child_procs # 0 => tree'[x].pid # 0
      /\ Pointers(owner, anc)'
  BY <1>1, <1>2, SiblingRelinked DEF Placed
<1> QED
  BY <1>1, <1>4, <1>5, EndOfChildren

--------------------------------------------------------------------------------
(* The children are read. *)

(* Nobody that is read as a child has a node yet, or is the process that ptree was given:
   a process whose child has one has been looked at before. *)
LEMMA ChildrenAreNew ==
  ASSUME Linked, Related, outcome = "running", top.step \in Early,
         NEW who, NEW owner, NEW anc, NEW age, Placed(who, owner, anc, age),
         NEW i \in DOMAIN kids[top.pid]
  PROVE  LET q == kids[top.pid][i] IN
           /\ q \in Pids /\ \A x \in Ns : who[x] # q
           /\ status[q] # "unborn" /\ BelongsTo(q, top.pid) /\ age[pid] < age[q]
<1>1. /\ top = stack[1] /\ top \in Calls /\ 1 \in 1 .. Len(stack) /\ stack # <<>>
      /\ InArray(top, Len(tree))
  BY TopIs
<1>2. top.node \in Ns /\ top.pid \in Pids
  BY <1>1 DEF InArray, Ns, Calls
<1>3. who[top.node] = top.pid
  BY <1>1 DEF Placed, Nested, Frame
<1> DEFINE q == kids[top.pid][i]
<1>4. q \in Pids
  <2>1. kids[top.pid] \in Seq(Pids)
    BY <1>2 DEF Linked, LinkTypes
  <2> QED
    BY <2>1
<1>5. status[q] \in {"runs", "zombie"} /\ BelongsTo(q, top.pid)
  BY <1>2 DEF Related
<1>6. Kid(top.pid, q)
  BY DEF Kid
<1> HIDE DEF q
<1>7. Labels(who) /\ Older(who, age) /\ Aged(age) /\ Fresh(who)
  BY DEF Placed, Older
<1>8. age \in [Pids -> Nat] /\ pid \in Pids /\ init \in Pids
  BY <1>7, InitIsPid DEF Aged, Linked, LinkTypes
(* The process itself is not older than pid, but where pid is. *)
<1>9. top.node = 1 => top.pid = pid
  BY <1>3, <1>7 DEF Labels
<1>10. top.node # 1 => age[pid] < age[top.pid]
  BY <1>2, <1>3, <1>7 DEF Older
<1>11. age[top.pid] < age[q]
  BY <1>2, <1>7 DEF Aged, q
<1>12. age[pid] < age[q]
  <2>1. age[pid] \in Nat /\ age[top.pid] \in Nat /\ age[q] \in Nat
    BY <1>2, <1>4, <1>8
  <2> QED
    BY <1>9, <1>10, <1>11, <2>1
<1>13. ASSUME NEW x \in Ns, who[x] = q PROVE FALSE
  <2>1. Seen(who, q)
    BY <1>13 DEF Seen
  <2>2. q = pid \/ (\E y \in Ns \ Left : who[y] = top.pid) \/ (top.pid = init /\ pid # init)
    BY <1>2, <1>4, <1>6, <1>7, <2>1 DEF Fresh
  <2>3. q # pid
    BY <1>8, <1>12
  <2>4. ASSUME NEW y \in Ns \ Left, who[y] = top.pid PROVE FALSE
    <3>1. y = top.node
      BY <1>2, <1>3, <1>7, <2>4 DEF Labels
    <3>2. y \in Nat /\ y \in LeftOf(top)
      BY <3>1 DEF Ns, LeftOf
    <3> QED
      BY <1>1, <2>4, <3>2, LeftIs
  <2>5. CASE top.pid = init /\ pid # init
    <3>1. top.node # 1
      BY <1>9, <2>5
    <3>2. age[pid] < age[init] /\ age[init] < age[pid]
      BY <1>7, <1>8, <1>10, <2>5, <3>1 DEF Aged
    <3>3. age[pid] \in Nat /\ age[init] \in Nat
      BY <1>8
    <3> QED
      BY <3>2, <3>3
  <2> QED
    BY <2>2, <2>3, <2>4, <2>5
<1> QED
  BY <1>4, <1>5, <1>12, <1>13 DEF q

(* The children file was read, or there is none any more. *)
LEMMA ReadPlaced ==
  ASSUME Linked, Related, outcome = "running", Outside, tree' = tree,
         NEW who, NEW owner, NEW anc, NEW age, Placed(who, owner, anc, age),
         top.step \in Early \ {"exists"},
         NEW a \in Calls, Becomes(a), a.step = "name",
         a.node = top.node, a.pid = top.pid, a.child = top.child,
         a.children = <<>> \/ a.children = kids[top.pid]
  PROVE  Placed(who, owner, anc, age)'
<1>1. /\ top = stack[1] /\ top \in Calls /\ 1 \in 1 .. Len(stack) /\ stack # <<>>
      /\ InArray(top, Len(tree))
  BY TopIs
<1>2. /\ kids' = kids /\ status' = status /\ born' = born /\ pid' = pid /\ outcome' = outcome
      /\ Ns' = Ns
  BY DEF Outside, kernel, Becomes, Ns
<1>3. Frame(top, who, owner, anc) /\ Nested(who, owner, anc)
  BY <1>1 DEF Placed, Nested
<1>4. top.pid \in Pids /\ top.node \in Ns /\ top.node \in Nat
  BY <1>1 DEF Calls, InArray, Ns
<1>5. Frame(a, who, owner, anc)'
  BY <1>2, <1>3 DEF Frame, Early, AtChildren
<1>6. Carried(who, owner, anc, who, owner, anc)
  BY <1>2, PidsStay
<1>7. /\ Nested(who, owner, anc)'
      /\ \A x \in Nat : x \in Left' <=> x \in LeftOf(a) \/ x \in Waiting
      /\ Named' /\ top' = a
  BY <1>3, <1>5, <1>6, Becoming
<1>8. \A x : x \notin LeftOf(a)
  BY DEF LeftOf, Early
<1>9. \A x : x \in LeftOf(top) <=> x = top.node
  BY <1>4 DEF LeftOf, Early
<1>10. \A x \in Nat : x \in Left <=> x = top.node \/ x \in Waiting
  BY <1>1, <1>9, LeftIs
<1>11. \A x \in Nat : x \in Left' <=> x \in Waiting
  BY <1>7, <1>8
(* Nobody that waits has the node left. *)
<1>12. top.node \notin Waiting
  <2>1. ASSUME NEW k \in 2 .. Len(stack) PROVE top.node \notin LeftOf(stack[k])
    <3>1. k \in 1 .. Len(stack) /\ 1 < k
      OBVIOUS
    <3> QED
      BY <1>1, <1>3, <3>1 DEF Nested
  <2> QED
    BY <2>1 DEF Waiting
<1>13. Labels(who)' /\ Pointers(owner, anc)'
  BY <1>2 DEF Placed, Labels, Pointers
<1>14. Kinship(who, owner)'
  BY <1>2 DEF Placed, Kinship, BelongsTo, Dead
<1>15. ASSUME NEW i \in DOMAIN a.children
       PROVE  /\ i \in DOMAIN kids[top.pid] /\ a.children[i] = kids[top.pid][i]
              /\ \A x \in Ns : who[x] # a.children[i]
              /\ status[a.children[i]] # "unborn"
              /\ BelongsTo(a.children[i], a.pid)
              /\ age[pid] < age[a.children[i]]
  <2>1. a.children = kids[top.pid] /\ i \in DOMAIN kids[top.pid]
    BY <1>15
  <2> QED
    BY <2>1, ChildrenAreNew
<1>16. Reading(who, age)'
  <2>1. \A i, j \in DOMAIN a.children : a.children[i] = a.children[j] => i = j
    <3>1. \A i, j \in DOMAIN kids[top.pid] : kids[top.pid][i] = kids[top.pid][j] => i = j
      BY <1>4 DEF Related
    <3> QED
      BY <1>15, <3>1
  <2>2. \A i \in DOMAIN a.children : BelongsTo(a.children[i], a.pid)'
    BY <1>2, <1>15 DEF BelongsTo, Dead
  <2>3. \A i \in DOMAIN a.children : BelongsTo(top.children[i], top.pid)'
    BY <1>7, <2>2 DEF BelongsTo, Dead
  <2> QED
    BY <1>2, <1>7, <1>15, <2>1, <2>3 DEF Reading
<1>17. Fresh(who)'
  <2>1. ASSUME NEW p \in Pids, NEW q \in Pids, Kid(p, q), Seen(who, q)'
        PROVE  q = pid \/ (\E x \in Ns' \ Left' : who[x] = p) \/ (p = init /\ pid # init)
    <3>1. CASE \E x \in Ns : who[x] = q
      <4>1. q = pid \/ (\E x \in Ns \ Left : who[x] = p) \/ (p = init /\ pid # init)
        BY <2>1, <3>1 DEF Placed, Fresh, Seen
      <4>2. \A x \in Ns \ Left : x \in Ns' \ Left'
        BY <1>2, <1>10, <1>11 DEF Ns
      <4> QED
        BY <4>1, <4>2
    <3>2. CASE \E i \in DOMAIN a.children : a.children[i] = q
      <4>1. PICK i \in DOMAIN kids[top.pid] : kids[top.pid][i] = q
        BY <1>15, <3>2
      <4>2. p = top.pid
        BY <1>4, <2>1, <4>1 DEF Kid, Related
      <4>3. top.node \in Ns' \ Left' /\ who[top.node] = p
        BY <1>2, <1>3, <1>4, <1>11, <1>12, <4>2 DEF Frame
      <4> QED
        BY <4>3
    <3> QED
      BY <1>2, <1>7, <2>1, <3>1, <3>2 DEF Seen
  <2>2. \A p, q : Kid(p, q)' <=> Kid(p, q)
    BY <1>2 DEF Kid
  <2> QED
    BY <1>2, <2>1, <2>2 DEF Fresh
<1>18. Skipped(who)'
  <2>1. ASSUME NEW x \in Ns, tree[x].pid = 0
        PROVE  x \in Left' \/ status[who[x]] = "gone" \/ (Named' /\ top'.node = x)
    <3>1. x \in Left \/ status[who[x]] = "gone"
      <4>1. ~ Named
        BY DEF Named, Early
      <4> QED
        BY <2>1, <4>1 DEF Placed, Skipped
    <3>2. x \in Nat
      BY DEF Ns
    <3> QED
      BY <1>7, <1>10, <1>11, <3>1, <3>2
  <2> QED
    BY <1>2, <2>1 DEF Skipped
<1>19. Older(who, age)'
  BY <1>2 DEF Placed, Older, Aged
<1>20. RootRead'
  BY <1>2, <1>10, <1>11 DEF Placed, RootRead
<1> QED
  BY <1>7, <1>13, <1>14, <1>16, <1>17, <1>18, <1>19, <1>20 DEF Placed

(* The two ways to come to that. *)
LEMMA ReadChildrenPlaced ==
  ASSUME Linked, Related, ReadChildren \/ (StatChildren /\ ~ Exists(top.pid)),
         NEW who, NEW owner, NEW anc, NEW age, Placed(who, owner, anc, age)
  PROVE  Placed(who, owner, anc, age)'
<1>1. outcome = "running" /\ tree' = tree /\ Outside /\ top.step \in {"children", "read"}
  BY DEF ReadChildren, StatChildren, At
<1>2. top \in Calls /\ top = stack[1] /\ 1 \in 1 .. Len(stack)
  BY <1>1, TopIs
<1>3. top.step \in Early \ {"exists"}
  BY <1>1 DEF Early
<1>4. top.children = <<>>
  BY <1>2, <1>3 DEF Placed, Nested, Frame
<1>5. top.pid \in Pids /\ kids[top.pid] \in Seq(Pids)
  <2>1. top.pid \in Pids
    BY <1>2 DEF Calls
  <2> QED
    BY <2>1 DEF Linked, LinkTypes
<1>6. PICK c \in {<<>>, kids[top.pid]} : Becomes([top EXCEPT !.step = "name", !.children = c])
  <2>1. CASE ReadChildren
    BY <2>1 DEF ReadChildren
  <2>2. CASE StatChildren /\ ~ Exists(top.pid)
    <3>1. Becomes([top EXCEPT !.step = "name"])
      BY <2>2 DEF StatChildren
    <3>2. [top EXCEPT !.step = "name"] = [top EXCEPT !.step = "name", !.children = <<>>]
      BY <1>2, <1>4 DEF Calls
    <3> QED
      BY <3>1, <3>2
  <2> QED
    BY <2>1, <2>2
<1>7. PICK a : a = [top EXCEPT !.step = "name", !.children = c]
  OBVIOUS
<1>8. /\ a \in Calls /\ a.step = "name" /\ a.node = top.node /\ a.pid = top.pid
      /\ a.child = top.child /\ a.children = c
  <2>2. <<>> \in Seq(Pids)
    OBVIOUS
  <2>3. c = <<>> \/ c = kids[top.pid]
    OBVIOUS
  <2>1. c \in Seq(Pids)
    BY <1>5, <2>2, <2>3, Zenon
  <2> QED
    BY <1>2, <1>7, <2>1 DEF Calls, Steps
<1>9. a.children = <<>> \/ a.children = kids[top.pid]
  BY <1>8
<1> QED
  BY <1>1, <1>3, <1>6, <1>7, <1>8, <1>9, ReadPlaced

--------------------------------------------------------------------------------
(* The node is named and the array of the children is allocated. *)

(* The array of n children is allocated behind the l nodes that there are. *)
Allocated(l, n) ==
  /\ outcome = "running" /\ top.step = "name" /\ Outside
  /\ l \in Nat \ {0} /\ n \in Nat /\ Len(tree') = l + n /\ Ns = 1 .. l
  /\ top.node \in 1 .. l
  /\ tree'[top.node].pid = top.pid
  /\ tree'[top.node].name = ~ top.cmd_err
  /\ tree'[top.node].child_procs = (IF n = 0 THEN 0 ELSE l + 1)
  /\ tree'[top.node].next_sibling = tree[top.node].next_sibling
  /\ \A c \in 1 .. l : c # top.node => tree'[c] = tree[c]
  /\ \A c \in l + 1 .. l + n : tree'[c] = blank
  /\ IF n = 0 THEN Returns(0)
     ELSE Becomes([top EXCEPT !.step = "child", !.child = l + 1, !.i = 0])

LEMMA NameAllocates ==
  ASSUME Linked, Name, ~ (Segv /\ tree' = tree), NEW l, l = Len(tree), NEW n, n = Len(top.children)
  PROVE  Allocated(l, n)
<1>1. outcome = "running" /\ top.step = "name" /\ Outside
  BY DEF Name, At
<1>2. top \in Calls /\ InArray(top, Len(tree))
  BY <1>1, TopIs
<1>3. tree \in Seq(Blocks) /\ l \in Nat /\ n \in Nat
  BY <1>2 DEF Linked, LinkTypes, Calls
<1>4. top.node \in 1 .. l
  BY <1>2 DEF InArray
<1>5. l # 0
  BY <1>3, <1>4
<1> DEFINE c == IF n = 0 THEN 0 ELSE l + 1
           e == ~ top.cmd_err
           x == [tree[top.node] EXCEPT !.pid = top.pid, !.name = e, !.child_procs = c]
<1>6. /\ tree' = [tree EXCEPT ![top.node] = x] \o [k \in 1 .. n |-> blank]
      /\ IF n = 0 THEN Returns(0)
         ELSE Becomes([top EXCEPT !.step = "child", !.child = l + 1, !.i = 0])
  BY DEF Name
<1>7. /\ c \in Nat /\ e \in BOOLEAN /\ top.pid \in Pids /\ tree[top.node] \in Blocks
  BY <1>2, <1>3, <1>4 DEF Calls
<1>8. c = (IF n = 0 THEN 0 ELSE l + 1)
  OBVIOUS
<1>11. e = ~ top.cmd_err
  OBVIOUS
<1> HIDE DEF c, e
<1>9. /\ x \in Blocks /\ x.pid = top.pid /\ x.child_procs = c /\ x.name = e
      /\ x.next_sibling = tree[top.node].next_sibling
  BY <1>7 DEF Blocks
<1> HIDE DEF x
<1>10. /\ Len(tree') = l + n
       /\ tree'[top.node] = x
       /\ \A k \in 1 .. l : k # top.node => tree'[k] = tree[k]
       /\ \A k \in l + 1 .. l + n : tree'[k] = blank
  BY <1>3, <1>4, <1>6, <1>9, Enlarged DEF Linked
<1>12. tree'[top.node].name = ~ top.cmd_err
  BY <1>9, <1>10, <1>11, Zenon
<1> QED
  BY <1>1, <1>3, <1>4, <1>5, <1>6, <1>8, <1>9, <1>10, <1>12 DEF Ns, Allocated

(* What is known of the l nodes stays, and the n new ones are meant for the children. *)
Enrols(l, n, who, owner, anc, who2, owner2, anc2) ==
  /\ \A a \in 1 .. l : who2[a] = who[a] /\ owner2[a] = owner[a] /\ anc2[a] = anc[a]
  /\ \A a \in l + 1 .. l + n :
       /\ who2[a] = top.children[a - l]
       /\ owner2[a] = top.node /\ anc2[a] = anc[top.node] \cup {top.node}

(* So many places behind another. *)
LEMMA PlacesOf ==
  ASSUME NEW l \in Nat, NEW n \in Nat
  PROVE  \A x \in Nat : (l + 1) + 0 <= x /\ x < (l + 1) + n <=> x \in l + 1 .. l + n
OBVIOUS

(* There is a process for every node again. *)
LEMMA NamePlaced ==
  ASSUME Linked, Related, Name, ~ (Segv /\ tree' = tree),
         NEW who, NEW owner, NEW anc, NEW age, Placed(who, owner, anc, age),
         NEW l, l = Len(tree), NEW n, n = Len(top.children)
  PROVE  \E who2, owner2, anc2 :
           Placed(who2, owner2, anc2, age)' /\ Enrols(l, n, who, owner, anc, who2, owner2, anc2)
<1>1. l = Len(tree)
  OBVIOUS
<1>2. n = Len(top.children)
  OBVIOUS
<1>3. PICK node : node = top.node
  OBVIOUS
<1>4. PICK cs : cs = top.children
  OBVIOUS
<1>5. PICK p : p = top.pid
  OBVIOUS
<1>6. /\ outcome = "running" /\ top.step = "name" /\ Outside
      /\ l \in Nat \ {0} /\ n \in Nat /\ Len(tree') = l + n /\ Ns = 1 .. l
      /\ node \in 1 .. l
      /\ tree'[node].pid = p
      /\ tree'[node].child_procs = (IF n = 0 THEN 0 ELSE l + 1)
      /\ tree'[node].next_sibling = tree[node].next_sibling
      /\ \A c \in 1 .. l : c # node => tree'[c] = tree[c]
      /\ \A c \in l + 1 .. l + n : tree'[c] = blank
      /\ IF n = 0 THEN Returns(0)
         ELSE Becomes([top EXCEPT !.step = "child", !.child = l + 1, !.i = 0])
  <2>1. top.node = node /\ top.pid = p
    BY <1>3, <1>5, Zenon
  <2>2. Allocated(l, n)
    BY NameAllocates
  <2> QED
    BY <2>1, <2>2, Zenon DEF Allocated
<1>7. /\ kids' = kids /\ status' = status /\ born' = born /\ pid' = pid /\ Ns' = 1 .. l + n
  BY <1>6 DEF Outside, kernel, Ns
<1>8. /\ top = stack[1] /\ top \in Calls /\ 1 \in 1 .. Len(stack) /\ stack # <<>> /\ Named
  BY <1>6, TopIs DEF Named
<1>9. /\ p \in Pids /\ cs \in Seq(Pids) /\ n = Len(cs) /\ who[node] = p /\ p # 0
      /\ status[p] # "unborn"
  <2>1. p \in Pids /\ cs \in Seq(Pids) /\ n = Len(cs)
    BY <1>2, <1>4, <1>5, <1>8 DEF Calls
  <2>2. Frame(top, who, owner, anc)
    BY <1>8 DEF Placed, Nested
  <2> QED
    BY <1>3, <1>5, <1>6, <2>1, <2>2 DEF Frame, Pids
<1>10. /\ \A i, j \in 1 .. n : cs[i] = cs[j] => i = j
       /\ \A i \in 1 .. n :
            /\ cs[i] \in Pids
            /\ \A a \in 1 .. l : who[a] # cs[i]
            /\ status[cs[i]] # "unborn"
            /\ BelongsTo(cs[i], p)
            /\ age[pid] < age[cs[i]]
  <2>1. Reading(who, age)
    BY DEF Placed
  <2>2. DOMAIN cs = 1 .. n /\ \A i \in 1 .. n : cs[i] \in Pids
    BY <1>9
  <2> QED
    <3>1. top.children = cs /\ top.pid = p /\ Named
      BY <1>3, <1>4, <1>5, <1>6, <1>8, Zenon
    <3> QED
      BY <1>6, <2>1, <2>2, <3>1 DEF Reading
<1>11. /\ Labels(who) /\ Pointers(owner, anc) /\ Kinship(who, owner) /\ Nested(who, owner, anc)
  BY DEF Placed
(* What is known of the new nodes. *)
<1>12. PICK who2 : who2 = [a \in 1 .. l + n |-> IF a <= l THEN who[a] ELSE cs[a - l]]
  OBVIOUS
<1>13. PICK owner2 : owner2 = [a \in 1 .. l + n |-> IF a <= l THEN owner[a] ELSE node]
  OBVIOUS
<1>14. PICK anc2 : anc2 = [a \in 1 .. l + n |-> IF a <= l THEN anc[a] ELSE anc[node] \cup {node}]
  OBVIOUS
<1>15. \A a \in 1 .. l : /\ a \in 1 .. l + n
                         /\ who2[a] = who[a] /\ owner2[a] = owner[a] /\ anc2[a] = anc[a]
  BY <1>6, <1>12, <1>13, <1>14
<1>16. \A a \in l + 1 .. l + n : /\ a \in 1 .. l + n /\ a - l \in 1 .. n
                                 /\ who2[a] = cs[a - l] /\ owner2[a] = node
                                 /\ anc2[a] = anc[node] \cup {node}
  BY <1>6, <1>12, <1>13, <1>14
<1>17. \A a \in 1 .. l + n : a \in 1 .. l \/ a \in l + 1 .. l + n
  BY <1>6
<1>18. Labels(who2)'
  <2>1. who2 \in [1 .. l + n -> Pids]
    <3>2. \A a \in 1 .. l : who2[a] \in Pids
      BY <1>6, <1>11, <1>15 DEF Labels
    <3>3. \A a \in l + 1 .. l + n : who2[a] \in Pids
      BY <1>10, <1>16
    <3>1. \A a \in 1 .. l + n : who2[a] \in Pids
      BY <1>17, <3>2, <3>3
    <3> QED
      BY <1>12, <3>1
  <2>2. who2[1] = pid
    BY <1>6, <1>11, <1>15 DEF Labels
  <2>3. ASSUME NEW a \in 1 .. l + n, NEW b \in 1 .. l + n, who2[a] = who2[b] PROVE a = b
    <3>1. CASE a \in 1 .. l /\ b \in 1 .. l
      BY <1>6, <1>11, <1>15, <2>3, <3>1 DEF Labels
    <3>2. CASE a \in l + 1 .. l + n /\ b \in l + 1 .. l + n
      <4>1. a - l = b - l
        BY <1>10, <1>16, <2>3, <3>2
      <4> QED
        BY <1>6, <3>2, <4>1
    <3>3. CASE a \in 1 .. l /\ b \in l + 1 .. l + n
      BY <1>10, <1>15, <1>16, <2>3, <3>3
    <3>4. CASE a \in l + 1 .. l + n /\ b \in 1 .. l
      BY <1>10, <1>15, <1>16, <2>3, <3>4
    <3> QED
      BY <1>17, <3>1, <3>2, <3>3, <3>4
  <2>4. ASSUME NEW a \in 1 .. l + n
        PROVE  /\ tree'[a].pid \in {0, who2[a]}
               /\ tree'[a].child_procs # 0 => tree'[a].pid # 0
    <3>1. CASE a = node
      BY <1>6, <1>9, <1>15, <3>1
    <3>2. CASE a \in 1 .. l /\ a # node
      BY <1>6, <1>11, <1>15, <3>2 DEF Labels
    <3>3. CASE a \in l + 1 .. l + n
      BY <1>6, <3>3 DEF blank
    <3> QED
      BY <1>17, <3>1, <3>2, <3>3
  <2>5. Len(tree') >= 1
    BY <1>6
  <2> QED
    BY <1>7, <2>1, <2>2, <2>3, <2>4, <2>5 DEF Labels
<1>19. Pointers(owner2, anc2)'
  <2>1. /\ owner \in [1 .. l -> Nat] /\ anc \in [1 .. l -> SUBSET Nat]
        /\ \A a \in 1 .. l : \A x \in anc[a] : x < a
        /\ node \in Nat /\ anc[node] \in SUBSET Nat
    BY <1>6, <1>11 DEF Pointers
  <2>2. owner2 \in [1 .. l + n -> Nat]
    <3>1. \A a \in 1 .. l + n : owner2[a] \in Nat
      BY <1>15, <1>16, <1>17, <2>1
    <3> QED
      BY <1>13, <3>1
  <2>3. anc2 \in [1 .. l + n -> SUBSET Nat]
    <3>1. \A a \in 1 .. l + n : anc2[a] \in SUBSET Nat
      <4>1. ASSUME NEW a \in 1 .. l + n PROVE anc2[a] \in SUBSET Nat
        <5>1. anc[node] \cup {node} \in SUBSET Nat
          BY <2>1
        <5> QED
          BY <1>15, <1>16, <1>17, <2>1, <5>1
      <4> QED
        BY <4>1
    <3> QED
      BY <1>14, <3>1
  <2>4. ASSUME NEW a \in 1 .. l + n, NEW x \in anc2[a] PROVE x < a
    <3>1. CASE a \in 1 .. l
      BY <1>15, <2>1, <2>4, <3>1
    <3>2. CASE a \in l + 1 .. l + n
      <4>1. x = node \/ (x \in anc[node] /\ x < node)
        BY <1>6, <1>16, <2>1, <2>4, <3>2
      <4>2. x \in Nat
        BY <2>1, <4>1
      <4> QED
        BY <1>6, <3>2, <4>1, <4>2
    <3> QED
      BY <1>17, <3>1, <3>2
  <2>5. ASSUME NEW a \in 1 .. l
        PROVE  /\ tree[a].child_procs \in {0} \cup (a + 1 .. l)
               /\ tree[a].next_sibling \in {0} \cup (a + 1 .. l)
    <3>1. DOMAIN tree = 1 .. l
      BY <1>1 DEF Linked, LinkTypes
    <3> QED
      BY <1>1, <3>1 DEF Linked, LinksGoForward
  <2>6. ASSUME NEW a \in 1 .. l, NEW b \in a + 1 .. l PROVE b \in 1 .. l
    BY <1>6
  <2>7. ASSUME NEW a \in 1 .. l + n, tree'[a].child_procs # 0
        PROVE  /\ owner2[tree'[a].child_procs] = a
               /\ anc2[tree'[a].child_procs] = anc2[a] \cup {a}
    <3>1. CASE a = node
      <4>1. tree'[a].child_procs = l + 1 /\ n # 0
        BY <1>6, <2>7, <3>1
      <4>2. l + 1 \in l + 1 .. l + n
        BY <1>6, <4>1
      <4>3. anc2[node] = anc[node]
        BY <1>6, <1>15
      <4> QED
        BY <1>16, <3>1, <4>1, <4>2, <4>3
    <3>2. CASE a \in 1 .. l /\ a # node
      <4>1. tree'[a] = tree[a] /\ tree[a].child_procs # 0
        BY <1>6, <2>7, <3>2
      <4>2. tree[a].child_procs \in 1 .. l
        BY <2>5, <2>6, <3>2, <4>1
      <4>3. owner[tree[a].child_procs] = a /\ anc[tree[a].child_procs] = anc[a] \cup {a}
        BY <1>6, <1>11, <3>2, <4>1 DEF Pointers
      <4> QED
        BY <1>15, <3>2, <4>1, <4>2, <4>3
    <3>3. CASE a \in l + 1 .. l + n
      BY <1>6, <2>7, <3>3 DEF blank
    <3> QED
      BY <1>17, <3>1, <3>2, <3>3
  <2>8. ASSUME NEW a \in 1 .. l + n, tree'[a].next_sibling # 0
        PROVE  /\ owner2[tree'[a].next_sibling] = owner2[a]
               /\ anc2[tree'[a].next_sibling] = anc2[a]
    <3>1. CASE a \in 1 .. l
      <4>1. tree'[a].next_sibling = tree[a].next_sibling /\ tree[a].next_sibling # 0
        BY <1>6, <2>8, <3>1
      <4>2. tree[a].next_sibling \in 1 .. l
        BY <2>5, <2>6, <3>1, <4>1
      <4>3. owner[tree[a].next_sibling] = owner[a] /\ anc[tree[a].next_sibling] = anc[a]
        BY <1>6, <1>11, <3>1, <4>1 DEF Pointers
      <4> QED
        BY <1>15, <3>1, <4>1, <4>2, <4>3
    <3>2. CASE a \in l + 1 .. l + n
      BY <1>6, <2>8, <3>2 DEF blank
    <3> QED
      BY <1>17, <3>1, <3>2
  <2> QED
    BY <1>7, <2>2, <2>3, <2>4, <2>7, <2>8 DEF Pointers
<1>20. Kinship(who2, owner2)'
  <2>1. ASSUME NEW a \in 1 .. l + n, a # 1
        PROVE  /\ owner2[a] \in 1 .. l + n /\ status[who2[a]] # "unborn"
               /\ BelongsTo(who2[a], who2[owner2[a]])
    <3>1. CASE a \in 1 .. l
      <4>1. owner[a] \in 1 .. l /\ status[who[a]] # "unborn" /\ BelongsTo(who[a], who[owner[a]])
        BY <1>6, <1>11, <2>1, <3>1 DEF Kinship
      <4> QED
        BY <1>15, <3>1, <4>1
    <3>2. CASE a \in l + 1 .. l + n
      BY <1>6, <1>9, <1>10, <1>15, <1>16, <3>2
    <3> QED
      BY <1>17, <3>1, <3>2
  <2> QED
    BY <1>7, <2>1 DEF Kinship, BelongsTo, Dead
<1>21. Carried(who, owner, anc, who2, owner2, anc2)
  <2>1. ASSUME NEW s \in Calls, InArray(s, l), Frame(s, who, owner, anc)
        PROVE  Frame(s, who2, owner2, anc2)'
    <3>1. s.node \in 1 .. l
      BY <2>1 DEF InArray
    <3>2. tree[s.node].pid # 0 => tree'[s.node].pid # 0
      BY <1>6, <1>9, <3>1
    <3>3. ASSUME s.step \in AtChildren, NEW j \in 0 .. Len(s.children) - 1
          PROVE  s.child + j \in 1 .. l
      <4>1. s.child \in Nat /\ s.node \in Nat /\ Len(s.children) \in Nat
        BY <3>3 DEF Calls
      <4>2. s.node < s.child /\ s.child + Len(s.children) - 1 <= l
        BY <2>1, <3>3 DEF InArray, AtChildren
      <4> DEFINE c == s.child
                 m == Len(s.children)
      <4>3. c \in Nat /\ s.node \in Nat /\ m \in Nat /\ s.node < c /\ c + m - 1 <= l
            /\ j \in 0 .. m - 1
        BY <4>1, <4>2
      <4> HIDE DEF c, m
      <4>4. c + j \in 1 .. l
        BY <1>6, <4>3
      <4> QED
        BY <4>4 DEF c
    <3>4. s.step \in AtChildren =>
            \A j \in 0 .. Len(s.children) - 1 :
               /\ who2[s.child + j] = s.children[j + 1]
               /\ owner2[s.child + j] = s.node
               /\ anc2[s.child + j] = anc2[s.node] \cup {s.node}
      BY <1>15, <2>1, <3>1, <3>3 DEF Frame
    <3> QED
      BY <1>7, <1>15, <2>1, <3>1, <3>2, <3>4 DEF Frame
  <2> QED
    BY <1>1, <2>1 DEF Carried
<1>22. /\ Nested(who2, owner2, anc2)' /\ ~ Named'
       /\ \A x \in Nat : x \in Left' <=> x \in Waiting \/ x \in l + 1 .. l + n
  <2>1. CASE n = 0
    <3>1. /\ Nested(who2, owner2, anc2)'
          /\ \A x \in Nat : x \in Left' <=> x \in Waiting
          /\ ~ Named'
      BY <1>6, <1>11, <1>21, <2>1, Returning
    <3>2. l + 1 .. l + n = {}
      BY <1>6, <2>1
    <3> QED
      BY <3>1, <3>2
  <2>2. CASE n # 0
    <3>1. PICK a : a = [top EXCEPT !.step = "child", !.child = l + 1, !.i = 0]
      OBVIOUS
    <3>2. l + 1 \in Nat
      BY <1>6
    <3>3. /\ a \in Calls /\ a.node = node /\ a.pid = p /\ a.children = cs
          /\ a.child = l + 1 /\ a.i = 0 /\ a.step = "child" /\ Becomes(a)
      BY <1>3, <1>4, <1>5, <1>6, <1>8, <2>2, <3>1, <3>2 DEF Calls, Steps
    <3>4. \A j \in 0 .. n - 1 :
            /\ who2[(l + 1) + j] = cs[j + 1]
            /\ owner2[(l + 1) + j] = node
            /\ anc2[(l + 1) + j] = anc2[node] \cup {node}
      <4>1. \A j \in 0 .. n - 1 : /\ (l + 1) + j \in l + 1 .. l + n
                                  /\ ((l + 1) + j) - l = j + 1
        BY <1>6
      <4>2. anc2[node] = anc[node]
        BY <1>6, <1>15
      <4> QED
        BY <1>16, <4>1, <4>2
    <3>5. Frame(a, who2, owner2, anc2)'
      <4>1. who2[node] = p /\ tree'[node].pid # 0
        BY <1>6, <1>9, <1>15
      <4>2. n = Len(cs)
        BY <1>9
      <4> QED
        BY <1>7, <1>9, <3>3, <3>4, <4>1, <4>2 DEF Frame, Early, AtChildren
    <3>6. /\ Nested(who2, owner2, anc2)'
          /\ \A x \in Nat : x \in Left' <=> x \in LeftOf(a) \/ x \in Waiting
          /\ Named' <=> a.step = "name"
      BY <1>3, <1>6, <1>11, <1>21, <3>3, <3>5, Becoming
    <3>7. \A x \in Nat : x \in LeftOf(a) <=> (l + 1) + 0 <= x /\ x < (l + 1) + n
      BY <1>9, <3>3 DEF LeftOf, Early
    <3>8. \A x \in Nat : (l + 1) + 0 <= x /\ x < (l + 1) + n <=> x \in l + 1 .. l + n
      <4>1. l \in Nat /\ n \in Nat
        BY <1>6, Zenon
      <4> QED
        BY <4>1, PlacesOf, Zenon
    <3> QED
      BY <3>3, <3>6, <3>7, <3>8
  <2> QED
    BY <2>1, <2>2
<1>23. \A x \in Nat : x \in Left <=> x \in Waiting
  <2>1. \A x : x \notin LeftOf(top)
    BY <1>6 DEF LeftOf, Early
  <2> QED
    BY <1>8, <2>1, LeftIs
<1>24. Reading(who2, age)'
  BY <1>22 DEF Reading
<1>25. Fresh(who2)'
  <2>1. ASSUME NEW q, Seen(who2, q)' PROVE Seen(who, q)
    <3>1. PICK a \in 1 .. l + n : who2[a] = q
      BY <1>7, <1>22, <2>1 DEF Seen
    <3>2. CASE a \in 1 .. l
      BY <1>6, <1>15, <3>1, <3>2 DEF Seen
    <3>3. CASE a \in l + 1 .. l + n
      <4>1. a - l \in DOMAIN cs /\ cs[a - l] = q
        BY <1>9, <1>16, <3>1, <3>3
      <4> QED
        BY <1>4, <1>8, <4>1 DEF Seen
    <3> QED
      BY <1>17, <3>2, <3>3
  <2>2. \A a \in Ns \ Left : a \in 1 .. l + n /\ a \notin Left' /\ who2[a] = who[a]
    <3>1. ASSUME NEW a \in Ns \ Left
          PROVE  a \in 1 .. l + n /\ a \notin Left' /\ who2[a] = who[a]
      <4>1. a \in 1 .. l /\ a \in Nat /\ a \notin l + 1 .. l + n
        BY <1>6
      <4> QED
        BY <1>15, <1>22, <1>23, <4>1
    <3> QED
      BY <3>1
  <2>3. \A r, q : Kid(r, q)' <=> Kid(r, q)
    BY <1>7 DEF Kid
  <2>4. ASSUME NEW r \in Pids, NEW q \in Pids, Kid(r, q), Seen(who2, q)'
        PROVE  q = pid \/ (\E a \in Ns' \ Left' : who2[a] = r) \/ (r = init /\ pid # init)
    <3>1. q = pid \/ (\E a \in Ns \ Left : who[a] = r) \/ (r = init /\ pid # init)
      BY <2>1, <2>4 DEF Placed, Fresh
    <3> QED
      BY <1>7, <2>2, <3>1
  <2> QED
    BY <1>7, <2>3, <2>4 DEF Fresh
<1>26. Skipped(who2)'
  <2>1. ASSUME NEW a \in 1 .. l + n, tree'[a].pid = 0
        PROVE  a \in Left' \/ status[who2[a]] = "gone"
    <3>1. CASE a \in 1 .. l
      <4>1. a # node
        BY <1>6, <1>9, <2>1
      <4>2. tree[a].pid = 0
        BY <1>6, <2>1, <3>1, <4>1
      <4>3. a \in Left \/ status[who[a]] = "gone"
        BY <1>3, <1>6, <3>1, <4>1, <4>2 DEF Placed, Skipped
      <4> QED
        BY <1>15, <1>22, <1>23, <3>1, <4>3
    <3>2. CASE a \in l + 1 .. l + n
      BY <1>6, <1>22, <3>2
    <3> QED
      BY <1>17, <3>1, <3>2
  <2> QED
    BY <1>7, <2>1 DEF Skipped
<1>27. Older(who2, age)'
  <2>1. Older(who, age)
    BY DEF Placed
  <2>2. ASSUME NEW a \in 1 .. l + n, a # 1 PROVE age[pid] < age[who2[a]]
    <3>1. CASE a \in 1 .. l
      BY <1>6, <1>15, <2>1, <2>2, <3>1 DEF Older
    <3>2. CASE a \in l + 1 .. l + n
      BY <1>10, <1>16, <3>2
    <3> QED
      BY <1>17, <3>1, <3>2
  <2> QED
    BY <1>7, <2>1, <2>2 DEF Older, Aged
<1>28. RootRead'
  <2>1. status[pid] # "unborn"
    BY <1>8, RootKnown
  <2>2. 1 \notin Waiting
    <3>1. CASE node = 1
      <4>1. Len(stack) = 1
        BY <1>3, <1>6, <1>11, <3>1, AtRoot
      <4> QED
        BY <4>1 DEF Waiting
    <3>2. CASE node # 1
      <4>1. Len(tree) > 1
        BY <1>1, <1>6, <3>2
      <4>2. 1 \notin Left
        BY <4>1 DEF Placed, RootRead
      <4> QED
        BY <1>23, <4>2
    <3> QED
      BY <3>1, <3>2
  <2>3. 1 \notin l + 1 .. l + n
    BY <1>6
  <2>4. 1 \notin Left'
    BY <1>22, <2>2, <2>3
  <2> QED
    BY <1>7, <2>1, <2>4 DEF RootRead
<1>29. Placed(who2, owner2, anc2, age)'
  BY <1>18, <1>19, <1>20, <1>22, <1>24, <1>25, <1>26, <1>27, <1>28 DEF Placed
<1>30. Enrols(l, n, who, owner, anc, who2, owner2, anc2)
  BY <1>3, <1>4, <1>15, <1>16 DEF Enrols
<1> QED
  BY <1>29, <1>30

--------------------------------------------------------------------------------
(* Whatever step it is that allocates nothing, there is a process for every node. *)
LEMMA GeneratePlaced ==
  ASSUME Linked, Related, generate_ptree, ~ Name \/ (Segv /\ tree' = tree),
         NEW who, NEW owner, NEW anc, NEW age, Placed(who, owner, anc, age)
  PROVE  Placed(who, owner, anc, age)'
<1>1. CASE Name
  <2>1. Segv /\ tree' = tree
    BY <1>1
  <2> QED
    BY <1>1, <2>1, OutcomeOnly DEF Segv, Outside, Name, At
<1>2. CASE ~ Name
  <2>1. outcome = "running"
    BY DEF generate_ptree, StatProcess, StatCmdline, StatChildren, OpenChildren, ReadChildren,
           Name, Visit, LinkOver, Break, LinkSibling, LastSibling, At
  <2>2. CASE StatProcess
    BY <2>2, StatProcessPlaced
  <2>3. CASE StatCmdline \/ (Exists(top.pid) /\ StatChildren) \/ OpenChildren
    BY <2>1, <2>3, FilesPlaced
  <2>4. CASE ReadChildren \/ (StatChildren /\ ~ Exists(top.pid))
    BY <2>4, ReadChildrenPlaced
  <2>5. CASE Visit
    BY <2>5, VisitPlaced
  <2>6. CASE LinkOver
    BY <2>6, LinkOverPlaced
  <2>7. CASE Break
    BY <2>7, BreakPlaced
  <2>8. CASE LinkSibling
    BY <2>8, LinkSiblingPlaced
  <2>9. CASE LastSibling
    BY <2>9, LastSiblingPlaced
  <2> QED
    BY <1>2, <2>2, <2>3, <2>4, <2>5, <2>6, <2>7, <2>8, <2>9 DEF generate_ptree
<1> QED
  BY <1>1, <1>2

(* How the program ends. *)
LEMMA EndedStep ==
  ASSUME Linked, Related, NEW who, NEW owner, NEW anc, NEW age, Placed(who, owner, anc, age),
         Ended, generate_ptree
  PROVE  Ended'
<1>1. outcome = "running" /\ Outside
  BY DEF generate_ptree, StatProcess, StatCmdline, StatChildren, OpenChildren, ReadChildren,
         Name, Visit, LinkOver, Break, LinkSibling, LastSibling, At
<1>2. /\ top = stack[1] /\ top \in Calls /\ 1 \in 1 .. Len(stack) /\ stack # <<>>
      /\ Len(stack) \in Nat \ {0}
  BY <1>1, TopIs
<1>3. status' = status /\ steady' = steady /\ pid' = pid
  BY <1>1 DEF Outside, kernel
<1>4. top.pid \in Pids /\ Frame(top, who, owner, anc)
  BY <1>2 DEF Placed, Nested, Calls
<1>5. Len(stack) = 1 => top.pid = pid
  <2>1. SUFFICES ASSUME Len(stack) = 1 PROVE top.pid = pid
    OBVIOUS
  <2>2. top.node = 1
    BY <1>2, <2>1 DEF Placed, Nested
  <2> QED
    BY <1>4, <2>2 DEF Frame, Placed, Labels
<1>l. left' \in Nat
  <2>1. \/ left' = left
        \/ left > 0 /\ left' = left - 1
    <3>1. CASE OpenChildren
      BY <3>1 DEF OpenChildren, Opens
    <3>2. CASE Name
      BY <3>2 DEF Name, Opens
    <3>3. CASE ~ OpenChildren /\ ~ Name
      BY <3>3 DEF generate_ptree, StatProcess, StatCmdline, StatChildren, ReadChildren,
         Visit, LinkOver, Break, LinkSibling, LastSibling
    <3> QED
      BY <3>1, <3>2, <3>3
  <2>2. left \in Nat
    BY DEF Ended
  <2> QED
    BY <2>1, <2>2
<1>6. ASSUME ~ Exists(top.pid), top.step # "exists" PROVE \E p \in Pids : status[p] = "gone"
  <2>1. status[top.pid] # "unborn"
    BY <1>4, <1>6 DEF Frame
  <2>2. status[top.pid] = "gone"
    BY <1>4, <1>6, <2>1, Vanished
  <2> QED
    BY <1>4, <2>2
<1>7. ASSUME NEW code, Returns(code), code = 0 \/ ~ Exists(top.pid) PROVE Ended'
  <2>1. CASE Len(stack) > 1
    <3>1. outcome' = "running"
      BY <1>1, <1>7, <2>1 DEF Returns
    <3> QED
      BY <1>l, <3>1 DEF Ended
  <2>2. CASE ~ (Len(stack) > 1)
    <3>6. \A n \in Nat \ {0} : ~ (n > 1) => n = 1
      OBVIOUS
    <3>1. Len(stack) = 1
      BY <1>2, <2>2, <3>6, Zenon
    <3>2. stack' = <<>>
      <4>1. stack' = Tail(stack) /\ stack \in Seq(Calls)
        BY <1>7 DEF Returns, Linked, LinkTypes
      <4> QED
        BY <3>1, <4>1
    <3>3. outcome' = IF code = 0 THEN "generated" ELSE "failed"
      BY <1>7, <2>2 DEF Returns
    <3>4. CASE code = 0
      BY <1>l, <3>2, <3>3, <3>4 DEF Ended
    <3>5. CASE code # 0
      <4>1. pid \notin steady
        <5>1. ~ Exists(pid)
          BY <1>5, <1>7, <3>1, <3>5
        <5> QED
          BY <5>1 DEF Related, Exists
      <4>2. outcome' = "failed"
        BY <3>3, <3>5
      <4> QED
        BY <1>3, <1>l, <4>1, <4>2 DEF Ended
    <3> QED
      BY <3>4, <3>5
  <2> QED
    BY <2>1, <2>2
<1>8. ASSUME outcome' = "running" PROVE Ended'
  BY <1>8, <1>l DEF Ended
<1>9. ASSUME Segv, left' = left, ~ Opens(top.pid), top.step # "exists" PROVE Ended'
  <2>1. left = 0 \/ \E p \in Pids : status[p] = "gone"
    <3>1. CASE ~ Exists(top.pid)
      BY <1>6, <1>9, <3>1
    <3>2. CASE Exists(top.pid)
      <4>1. ~ (left > 0) /\ left \in Nat
        BY <1>9, <3>2 DEF Opens, Ended
      <4> QED
        BY <4>1
    <3> QED
      BY <3>1, <3>2
  <2> QED
    BY <1>3, <1>9, <1>l, <2>1 DEF Segv, Ended
<1>10. CASE StatProcess
  <2>1. CASE Exists(top.pid)
    BY <1>1, <1>8, <1>10, <2>1 DEF StatProcess, Becomes
  <2>2. CASE ~ Exists(top.pid)
    BY <1>7, <1>10, <2>2 DEF StatProcess
  <2> QED
    BY <2>1, <2>2
<1>11. CASE StatCmdline \/ StatChildren \/ ReadChildren \/ Visit \/ LinkOver \/ LinkSibling
  <2>1. outcome' = outcome
    BY <1>11 DEF StatCmdline, StatChildren, ReadChildren, Visit, LinkOver, LinkSibling, Becomes
  <2> QED
    BY <1>1, <1>8, <2>1
<1>12. CASE OpenChildren
  <2>1. CASE Opens(top.pid)
    BY <1>1, <1>8, <1>12, <2>1 DEF OpenChildren, Becomes
  <2>2. CASE ~ Opens(top.pid)
    BY <1>9, <1>12, <2>2 DEF OpenChildren, At
  <2> QED
    BY <2>1, <2>2
<1>13. CASE Name
  <2>1. CASE ~ Opens(top.pid) /\ Segv /\ left' = left
    BY <1>9, <1>13, <2>1 DEF Name, At
  <2>2. CASE ~ (~ Opens(top.pid) /\ Segv /\ left' = left)
    <3>1. Returns(0) \/ outcome' = outcome
      BY <1>13, <2>2 DEF Name, Becomes
    <3> QED
      BY <1>1, <1>7, <1>8, <3>1
  <2> QED
    BY <2>1, <2>2
<1>14. CASE Break \/ LastSibling
  BY <1>7, <1>14 DEF Break, LastSibling
<1> QED
  BY <1>10, <1>11, <1>12, <1>13, <1>14 DEF generate_ptree

--------------------------------------------------------------------------------
(* The processes that have run all the time. *)

(* All the children of p that have run all the time stand in a list, the elder ones
   first. *)
Holding(p, list) ==
  /\ \A i \in DOMAIN born[p] : born[p][i] \in steady =>
       \E k \in DOMAIN list : list[k] = born[p][i]
  /\ \A i, j \in DOMAIN born[p] : \A k, l \in DOMAIN list :
       i < j /\ born[p][i] \in steady /\ born[p][j] \in steady
       /\ list[k] = born[p][i] /\ list[l] = born[p][j] => k < l

(* The children file does not lose them. *)
Kept == \A p \in steady : Holding(p, kids[p])

(* What a step of the processes never does: nobody becomes one of them. *)
Grown ==
  /\ steady' \subseteq steady
  /\ \A p \in Pids : \A i \in DOMAIN born'[p] : born'[p][i] \in steady' =>
       i \in DOMAIN born[p] /\ born'[p][i] = born[p][i]

(* They stand in the list for good. *)
LEMMA HoldingStays ==
  ASSUME Grown, NEW p \in Pids, NEW list, Holding(p, list)
  PROVE  Holding(p, list)'
<1>1. ASSUME NEW i \in DOMAIN born'[p], born'[p][i] \in steady'
      PROVE  i \in DOMAIN born[p] /\ born'[p][i] = born[p][i] /\ born[p][i] \in steady
  BY <1>1 DEF Grown
<1>2. ASSUME NEW i \in DOMAIN born'[p], born'[p][i] \in steady'
      PROVE  \E k \in DOMAIN list : list[k] = born'[p][i]
  BY <1>1, <1>2 DEF Holding
<1>3. ASSUME NEW i \in DOMAIN born'[p], NEW j \in DOMAIN born'[p],
             NEW k \in DOMAIN list, NEW l \in DOMAIN list,
             i < j, born'[p][i] \in steady', born'[p][j] \in steady',
             list[k] = born'[p][i], list[l] = born'[p][j]
      PROVE  k < l
  <2>1. /\ i \in DOMAIN born[p] /\ born'[p][i] = born[p][i] /\ born[p][i] \in steady
        /\ j \in DOMAIN born[p] /\ born'[p][j] = born[p][j] /\ born[p][j] \in steady
    BY <1>1, <1>3
  <2> QED
    BY <1>3, <2>1 DEF Holding
<1> QED
  BY <1>2, <1>3 DEF Holding

(* A longer list holds them too, if none of them is among those behind. *)
LEMMA HoldingLonger ==
  ASSUME NEW p, NEW list, NEW longer, Holding(p, list), NEW n \in Nat, DOMAIN list = 1 .. n,
         DOMAIN list \subseteq DOMAIN longer, \A k \in DOMAIN list : longer[k] = list[k],
         \A k \in DOMAIN longer : \A i \in DOMAIN born[p] :
           born[p][i] \in steady /\ longer[k] = born[p][i] => k \in DOMAIN list
  PROVE  Holding(p, longer)
<1>1. ASSUME NEW i \in DOMAIN born[p], born[p][i] \in steady
      PROVE  \E k \in DOMAIN longer : longer[k] = born[p][i]
  <2>1. PICK k \in DOMAIN list : list[k] = born[p][i]
    BY <1>1 DEF Holding
  <2> QED
    BY <2>1
<1>2. ASSUME NEW i \in DOMAIN born[p], NEW j \in DOMAIN born[p],
             NEW k \in DOMAIN longer, NEW l \in DOMAIN longer,
             i < j, born[p][i] \in steady, born[p][j] \in steady,
             longer[k] = born[p][i], longer[l] = born[p][j]
      PROVE  k < l
  <2>1. k \in DOMAIN list /\ l \in DOMAIN list
    BY <1>2
  <2> QED
    BY <1>2, <2>1 DEF Holding
<1> QED
  BY <1>1, <1>2 DEF Holding

(* At the beginning everybody's children are those that it has forked. *)
LEMMA KeptInit == Init => Kept
<1> SUFFICES ASSUME Init PROVE Kept
  OBVIOUS
<1>1. /\ kids \in [Pids -> Seq(Pids)] /\ Family(kids) /\ born = kids
      /\ steady = {init} \cup UNION {Range(kids[p]) : p \in Pids}
  BY PtreeAssumption DEF Init
<1>2. steady \subseteq Pids
  BY <1>1, InitIsPid DEF Range
<1>3. ASSUME NEW p \in steady, NEW i \in DOMAIN born[p], NEW k \in DOMAIN kids[p],
             kids[p][k] = born[p][i]
      PROVE  k = i
  BY <1>1, <1>2, <1>3 DEF Family
<1> QED
  BY <1>1, <1>3 DEF Kept, Holding

(* fork, exit and wait keep them in the file. *)
LEMMA KeptStep ==
  ASSUME Linked, Related, NEW age, Aged(age), Kept,
         NEW p \in Pids, NEW q \in Pids, Fork(p, q) \/ Exit(p) \/ Reap(p)
  PROVE  Kept' /\ Grown
<1>1. /\ kids \in [Pids -> Seq(Pids)] /\ born \in [Pids -> Seq(Pids)]
      /\ status \in [Pids -> {"unborn", "runs", "zombie", "gone"}]
      /\ steady \subseteq Pids /\ \A r \in steady : status[r] = "runs"
  BY DEF Linked, LinkTypes, Related
<1>2. Grown
  <2>1. CASE Fork(p, q)
    <3>1. steady' = steady /\ q \notin steady /\ born' = [born EXCEPT ![p] = Append(born[p], q)]
      BY <1>1, <2>1 DEF Fork
    <3>2. ASSUME NEW r \in Pids, NEW i \in DOMAIN born'[r], born'[r][i] \in steady'
          PROVE  i \in DOMAIN born[r] /\ born'[r][i] = born[r][i]
      <4>1. CASE r = p
        <5>1. PICK s : s = born[p]
          OBVIOUS
        <5>2. s \in Seq(Pids) /\ born'[r] = Append(s, q)
          BY <1>1, <3>1, <4>1, <5>1
        <5>3. i \in DOMAIN s /\ Append(s, q)[i] = s[i]
          BY <3>1, <3>2, <5>2
        <5> QED
          BY <4>1, <5>1, <5>2, <5>3
      <4>2. CASE r # p
        BY <1>1, <3>1, <3>2, <4>2
      <4> QED
        BY <4>1, <4>2
    <3> QED
      BY <3>1, <3>2 DEF Grown
  <2>2. CASE Exit(p) \/ Reap(p)
    BY <2>2 DEF Exit, Reap, Grown
  <2> QED
    BY <2>1, <2>2
<1>3. ASSUME NEW r \in steady, Holding(r, kids'[r]) PROVE Holding(r, kids[r])'
  <2>1. PICK list : list = kids'[r]
    OBVIOUS
  <2>2. Holding(r, list)'
    BY <1>1, <1>2, <1>3, <2>1, HoldingStays
  <2> QED
    BY <2>1, <2>2, Zenon DEF Holding
<1>4. ASSUME NEW r \in steady' PROVE Holding(r, kids'[r])
  <2>0. r \in steady /\ r \in Pids /\ Holding(r, kids[r])
    BY <1>1, <1>2 DEF Grown, Kept
  <2>1. CASE kids'[r] = kids[r]
    BY <2>0, <2>1
  <2>2. CASE Fork(p, q) /\ r = p
    <3>1. PICK s : s = kids[p]
      OBVIOUS
    <3>2. s \in Seq(Pids) /\ kids'[r] = Append(s, q) /\ q \notin steady
      BY <1>1, <2>2, <3>1 DEF Fork
    <3>3. PICK t : t = Append(s, q)
      OBVIOUS
    <3>4. /\ Len(s) \in Nat /\ DOMAIN s = 1 .. Len(s) /\ DOMAIN t = 1 .. Len(s) + 1
          /\ \A k \in DOMAIN s : t[k] = s[k]
          /\ \A k \in DOMAIN t : k \in DOMAIN s \/ t[k] = q
      BY <3>2, <3>3
    <3>5. DOMAIN s \subseteq DOMAIN t
      BY <3>4
    <3>6. Holding(r, t)
      BY <2>0, <2>2, <3>1, <3>2, <3>4, <3>5, HoldingLonger
    <3> QED
      BY <3>2, <3>3, <3>6
  <2>3. CASE Exit(p) /\ r = init
    <3>1. PICK s : s = kids[init]
      OBVIOUS
    <3>2. PICK u : u = kids[p]
      OBVIOUS
    <3>3. PICK t : t = s \o u
      OBVIOUS
    <3>4. s \in Seq(Pids) /\ u \in Seq(Pids) /\ p # init
      BY <1>1, <2>3, <3>1, <3>2, InitIsPid DEF Exit
    <3>5. kids'[r] = t
      BY <1>1, <2>3, <3>1, <3>2, <3>3, <3>4, InitIsPid DEF Exit
    <3>6. /\ Len(s) \in Nat /\ Len(u) \in Nat /\ DOMAIN s = 1 .. Len(s)
          /\ DOMAIN t = 1 .. Len(s) + Len(u)
          /\ \A k \in 1 .. Len(s) + Len(u) : t[k] = IF k <= Len(s) THEN s[k] ELSE u[k - Len(s)]
      <4>1. /\ s \o u \in Seq(Pids) /\ Len(s \o u) = Len(s) + Len(u)
            /\ \A k \in 1 .. Len(s) + Len(u) :
                 (s \o u)[k] = IF k <= Len(s) THEN s[k] ELSE u[k - Len(s)]
        BY <3>4, ConcatProperties
      <4>2. /\ t \in Seq(Pids) /\ Len(t) = Len(s) + Len(u)
            /\ \A k \in 1 .. Len(s) + Len(u) :
                 t[k] = IF k <= Len(s) THEN s[k] ELSE u[k - Len(s)]
        BY <3>3, <4>1, Zenon
      <4>3. Len(s) \in Nat /\ Len(u) \in Nat /\ DOMAIN s = 1 .. Len(s) /\ DOMAIN t = 1 .. Len(t)
        BY <3>4, <4>2
      <4> QED
        BY <4>2, <4>3
    <3>7. DOMAIN s \subseteq DOMAIN t /\ \A k \in DOMAIN s : t[k] = s[k]
      BY <3>6
    (* Whoever stands behind was a child of p, and can not be one of init's as well. *)
    <3>8. ASSUME NEW k \in DOMAIN t, NEW i \in DOMAIN born[r], born[r][i] \in steady,
                 t[k] = born[r][i], k \notin DOMAIN s
          PROVE  FALSE
      <4>1. k - Len(s) \in 1 .. Len(u) /\ t[k] = u[k - Len(s)]
        BY <3>6, <3>8
      <4>2. PICK l \in DOMAIN s : s[l] = born[r][i]
        BY <2>0, <2>3, <3>1, <3>8 DEF Holding
      <4>3. DOMAIN u = 1 .. Len(u)
        BY <3>4
      <4>4. PICK m \in DOMAIN u : u[m] = s[l]
        BY <3>8, <4>1, <4>2, <4>3
      <4>5. m \in DOMAIN kids[p] /\ l \in DOMAIN kids[init] /\ kids[p][m] = kids[init][l]
        BY <3>1, <3>2, <4>2, <4>4
      <4>6. p = init
        BY <4>5, InitIsPid DEF Related
      <4> QED
        BY <3>4, <4>6
    <3>9. Holding(r, t)
      <4>1. Holding(r, s)
        BY <2>0, <2>3, <3>1
      <4>2. \A k \in DOMAIN t : \A i \in DOMAIN born[r] :
              born[r][i] \in steady /\ t[k] = born[r][i] => k \in DOMAIN s
        BY <3>8
      <4> QED
        BY <3>6, <3>7, <4>1, <4>2, HoldingLonger
    <3> QED
      BY <3>5, <3>9
  <2>4. CASE Exit(p) /\ r # init
    <3>1. r # p
      BY <2>4 DEF Exit
    <3>2. kids'[r] = kids[r]
      BY <1>1, <2>0, <2>4, <3>1 DEF Exit
    <3> QED
      BY <2>1, <3>2
  <2>5. CASE Fork(p, q) /\ r # p
    <3>2. kids'[r] = kids[r]
      BY <1>1, <2>0, <2>5 DEF Fork
    <3> QED
      BY <2>1, <3>2
  <2>6. CASE Reap(p) /\ kids'[r] # kids[r]
    <3>1. status[p] = "zombie" /\ p \notin steady
      BY <1>1, <2>6 DEF Reap
    <3>2. PICK x \in Pids : \E k \in DOMAIN kids[x] :
            kids[x][k] = p /\ kids' = [kids EXCEPT ![x] = RemoveAt(kids[x], k)]
      BY <2>6 DEF Reap
    <3>3. PICK z \in DOMAIN kids[x] :
            kids[x][z] = p /\ kids' = [kids EXCEPT ![x] = RemoveAt(kids[x], z)]
      BY <3>2
    <3>4. x = r
      BY <1>1, <2>0, <2>6, <3>3
    <3>5. PICK s : s = kids[r]
      OBVIOUS
    <3>6. PICK t : t = RemoveAt(s, z)
      OBVIOUS
    <3>7. s \in Seq(Pids) /\ z \in DOMAIN s /\ s[z] = p /\ kids'[r] = t
      BY <1>1, <2>0, <3>3, <3>4, <3>5, <3>6
    <3>8. /\ DOMAIN t = 1 .. Len(s) - 1
          /\ \A i \in 1 .. Len(s) - 1 : t[i] = IF i < z THEN s[i] ELSE s[i + 1]
      BY <3>6, <3>7, Removed
    <3>9. Len(s) \in Nat /\ DOMAIN s = 1 .. Len(s)
      BY <3>7
    <3>10. ASSUME NEW k \in DOMAIN s, k # z
           PROVE  \E m \in DOMAIN t : t[m] = s[k]
      <4>1. CASE k < z
        <5>1. k \in 1 .. Len(s) - 1
          BY <3>7, <3>9, <4>1
        <5> QED
          BY <3>8, <4>1, <5>1
      <4>2. CASE ~ (k < z)
        <5>1. k - 1 \in 1 .. Len(s) - 1 /\ ~ (k - 1 < z) /\ (k - 1) + 1 = k
          BY <3>7, <3>9, <3>10, <4>2
        <5> QED
          BY <3>8, <5>1
      <4> QED
        BY <4>1, <4>2
    <3>11. ASSUME NEW m \in DOMAIN t
           PROVE  \E k \in DOMAIN s : t[m] = s[k] /\ k = (IF m < z THEN m ELSE m + 1)
      BY <3>8, <3>9
    <3>12. ASSUME NEW i \in DOMAIN born[r], born[r][i] \in steady
           PROVE  \E m \in DOMAIN t : t[m] = born[r][i]
      <4>1. PICK k \in DOMAIN s : s[k] = born[r][i]
        BY <2>0, <3>5, <3>12 DEF Holding
      <4>2. k # z
        BY <3>1, <3>7, <3>12, <4>1
      <4> QED
        BY <3>10, <4>1, <4>2
    <3>13. ASSUME NEW i \in DOMAIN born[r], NEW j \in DOMAIN born[r],
                  NEW k \in DOMAIN t, NEW l \in DOMAIN t,
                  i < j, born[r][i] \in steady, born[r][j] \in steady,
                  t[k] = born[r][i], t[l] = born[r][j]
           PROVE  k < l
      <4>1. PICK k2 \in DOMAIN s : t[k] = s[k2] /\ k2 = (IF k < z THEN k ELSE k + 1)
        BY <3>11
      <4>2. PICK l2 \in DOMAIN s : t[l] = s[l2] /\ l2 = (IF l < z THEN l ELSE l + 1)
        BY <3>11
      <4>3. k2 < l2
        BY <2>0, <3>5, <3>13, <4>1, <4>2 DEF Holding
      <4>4. k \in Nat /\ l \in Nat /\ z \in Nat
        BY <3>7, <3>8, <3>9
      <4> QED
        BY <4>1, <4>2, <4>3, <4>4
    <3>14. Holding(r, t)
      BY <3>12, <3>13 DEF Holding
    <3> QED
      BY <3>7, <3>14
  <2> QED
    BY <2>1, <2>2, <2>3, <2>4, <2>5, <2>6
<1>5. ASSUME NEW r \in steady' PROVE Holding(r, kids[r])'
  BY <1>2, <1>3, <1>4 DEF Grown
<1>6. Kept'
  BY <1>5 DEF Kept
<1> QED
  BY <1>2, <1>6

--------------------------------------------------------------------------------
(* The nodes of the processes that have run all the time. *)

LeadsTo(a, b) == tree[a].child_procs = b \/ tree[a].next_sibling = b

(* The nodes in on can be reached from the root, and no node that has been filled for
   one of those processes is missing. *)
Chained(who, on) ==
  /\ 1 \in on /\ on \subseteq Ns
  /\ \A b \in on \ {1} : \E a \in on : LeadsTo(a, b)
  /\ \A a \in Ns \ on : tree[a].pid = 0 \/ who[a] \notin steady

(* What an activation has done so far: the children that it has yet to come to are
   empty and not linked, and the one that it is at, or the one behind, is reached. *)
AtWork(s, on) ==
  /\ s.node \in on
  /\ s.cmd_err => s.pid \notin steady
  /\ s.step \notin AtChildren => tree[s.node].pid = 0
  /\ s.step \in AtChildren => \A j \in Nat : j < Len(s.children) =>
       /\ s.i <= j => tree[s.child + j].next_sibling = 0
       /\ s.i < j \/ (s.step = "child" /\ s.i = j) => tree[s.child + j].pid = 0
  /\ s.step = "child" =>
       /\ \/ s.child + s.i \in on
          \/ s.i > 0 /\ s.child + (s.i - 1) \in on /\ status[s.children[s.i + 1]] = "gone"
       /\ s.i = 0 => tree[s.node].child_procs = s.child
       /\ s.i > 0 => tree[s.child + (s.i - 1)].next_sibling \in {0, s.child + s.i}
  /\ s.step = "sibling" =>
       \/ s.child + s.i \in on
       \/ s.i + 1 < Len(s.children) /\ s.child + (s.i + 1) \in on

(* The children that were read are all there. *)
ReadAll == Named /\ top.pid \in steady => Holding(top.pid, top.children)

(* The array of a node, from c + 1 on, is for the children in list. *)
Array(a, c, list, who, owner, anc) ==
  \A k \in DOMAIN list :
    /\ c + k \in Ns /\ who[c + k] = list[k]
    /\ owner[c + k] = a /\ anc[c + k] = anc[a] \cup {a}

(* A node has nodes for all its children. *)
Families(who, owner, anc) ==
  \A a \in Ns : tree[a].pid # 0 /\ who[a] \in steady =>
    \E c \in Nat : \E list \in Seq(Pids) :
      Holding(who[a], list) /\ Array(a, c, list, who, owner, anc)

(* ... and a name. *)
Complete(who) == \A a \in Ns : tree[a].pid # 0 /\ who[a] \in steady => tree[a].name = TRUE

Steadily(who, owner, anc, on) ==
  /\ Chained(who, on) /\ Families(who, owner, anc) /\ Complete(who) /\ ReadAll
  /\ \A k \in 1 .. Len(stack) : AtWork(stack[k], on)

(* The root is reached, to begin with. *)
LEMMA SteadilyInit ==
  ASSUME Init, NEW who, NEW owner, NEW anc
  PROVE  Steadily(who, owner, anc, {1})
<1>1. /\ Ns = {1} /\ tree[1] = blank /\ Len(stack) = 1 /\ stack[1] = Activation(1, pid)
      /\ top = Activation(1, pid)
  BY DEF Init, Ns, top
<1>2. tree[1].pid = 0
  BY <1>1 DEF blank
<1>3. Chained(who, {1}) /\ Families(who, owner, anc) /\ Complete(who)
  BY <1>1, <1>2 DEF Chained, Families, Complete
<1>4. AtWork(stack[1], {1})
  BY <1>1, <1>2 DEF AtWork, Activation, AtChildren
<1>5. ReadAll
  BY <1>1 DEF ReadAll, Named, Activation
<1> QED
  BY <1>1, <1>3, <1>4, <1>5 DEF Steadily

(* The processes go on. *)
LEMMA MachineSteadily ==
  ASSUME Linked, Related, Later, Grown, UNCHANGED <<pid, tree, stack, outcome>>,
         NEW who, NEW owner, NEW anc, NEW age, NEW on, Placed(who, owner, anc, age),
         Steadily(who, owner, anc, on)
  PROVE  Steadily(who, owner, anc, on)'
<1>0. /\ Ns' = Ns /\ Named' = Named /\ top' = top /\ tree' = tree /\ stack' = stack
  BY DEF Ns, Named, top
<1>1. steady' \subseteq steady /\ \A p \in Pids : status[p] = "gone" => status'[p] = "gone"
  BY DEF Grown, Later
<1>2. Chained(who, on)' /\ Complete(who)'
  BY <1>0, <1>1 DEF Steadily, Chained, Complete, LeadsTo
<1>3. ASSUME NEW k \in 1 .. Len(stack) PROVE AtWork(stack[k], on)'
  <2>1. AtWork(stack[k], on) /\ stack[k] \in Calls /\ InArray(stack[k], Len(tree))
    BY DEF Steadily, Linked, LinkTypes
  <2>2. stack[k].step = "child" => stack[k].children[stack[k].i + 1] \in Pids
    BY <2>1 DEF Calls, InArray
  <2> QED
    BY <1>0, <1>1, <2>1, <2>2 DEF AtWork
<1>4. ReadAll'
  <2> SUFFICES ASSUME Named, top.pid \in steady' PROVE Holding(top.pid, top.children)'
    BY <1>0 DEF ReadAll
  <2>1. PICK p : p = top.pid
    OBVIOUS
  <2>2. PICK list : list = top.children
    OBVIOUS
  <2>3. Holding(p, list) /\ p \in Pids
    BY <1>1, <2>1, <2>2 DEF Steadily, ReadAll, Related
  <2>4. Holding(p, list)'
    BY <2>3, HoldingStays
  <2>5. p = top'.pid /\ list = top'.children
    BY <1>0, <2>1, <2>2
  <2> QED
    BY <2>4, <2>5, Zenon DEF Holding
<1>5. ASSUME NEW a \in Ns, tree[a].pid # 0, who[a] \in steady'
      PROVE  \E c \in Nat : \E list \in Seq(Pids) :
               Holding(who[a], list)' /\ Array(a, c, list, who, owner, anc)'
  <2>1. PICK c \in Nat, list \in Seq(Pids) :
          Holding(who[a], list) /\ Array(a, c, list, who, owner, anc)
    BY <1>1, <1>5 DEF Steadily, Families
  <2>2. Array(a, c, list, who, owner, anc)'
    BY <1>0, <2>1 DEF Array
  <2>3. who[a] \in Pids
    BY DEF Placed, Labels
  <2>4. Holding(who[a], list)'
    BY <2>1, <2>3, HoldingStays
  <2> QED
    BY <2>2, <2>4
<1>6. Families(who, owner, anc)'
  BY <1>0, <1>5 DEF Families
<1> QED
  BY <1>0, <1>2, <1>3, <1>4, <1>6 DEF Steadily

--------------------------------------------------------------------------------
(* The activations that wait have what they had: a step changes links only in the array
   of the innermost one. *)
LEMMA WaitersStay ==
  ASSUME Linked, outcome = "running", Outside,
         NEW who, NEW owner, NEW anc, NEW on, NEW on2, Nested(who, owner, anc),
         \A k \in 1 .. Len(stack) : AtWork(stack[k], on),
         \A x \in Ns : tree'[x].next_sibling = tree[x].next_sibling \/ owner[x] = top.node,
         \A x \in Ns : tree'[x].pid = tree[x].pid \/ x = top.node,
         \A x \in Ns : x \in on => x \in on2 \/ (owner[x] = top.node /\ top.node < x)
  PROVE  \A k \in 2 .. Len(stack) : \A s : s = stack[k] => AtWork(s, on2)'
<1>1. /\ Len(stack) \in Nat /\ 1 \in 1 .. Len(stack) /\ top = stack[1]
      /\ status' = status /\ steady' = steady /\ Len(tree) \in Nat
  BY TopIs DEF Outside, kernel, Linked, LinkTypes
<1> SUFFICES ASSUME NEW k \in 2 .. Len(stack), NEW s, s = stack[k] PROVE AtWork(s, on2)'
  OBVIOUS
<1>2. /\ k \in 1 .. Len(stack) /\ 1 < k
  BY <1>1
<1>3. /\ s \in Calls /\ InArray(s, Len(tree)) /\ Frame(s, who, owner, anc) /\ AtWork(s, on)
      /\ s.node < top.node /\ top.node \notin LeftOf(s) /\ s.step = "sibling"
  BY <1>1, <1>2 DEF Linked, LinkTypes, Nested
<1>4. PICK t : t = top.node
  OBVIOUS
<1>5. PICK c : c = s.child
  OBVIOUS
<1>6. PICK i : i = s.i
  OBVIOUS
<1>7. PICK n : n = Len(s.children)
  OBVIOUS
<1>8. PICK m : m = s.node
  OBVIOUS
<1>9. /\ c \in Nat /\ i \in Nat /\ n \in Nat /\ m \in Ns /\ m \in Nat /\ m < c /\ i < n
      /\ c + n - 1 <= Len(tree) /\ m < t /\ t \in Nat
  <2>1. /\ c \in Nat /\ i \in Nat /\ m \in Nat /\ s.children \in Seq(Pids)
    BY <1>3, <1>5, <1>6, <1>8 DEF Calls
  <2>2. n \in Nat
    BY <1>7, <2>1
  <2>3. top.node \in 1 .. Len(tree)
    BY <1>1 DEF Linked, LinkTypes, InArray
  <2>4. t \in Nat
    BY <1>4, <2>3
  <2> QED
    BY <1>3, <1>4, <1>5, <1>6, <1>7, <1>8, <2>1, <2>2, <2>4 DEF InArray, Ns
<1>10. ASSUME NEW j \in Nat, j < n
       PROVE  c + j \in Ns /\ owner[c + j] = m /\ (i < j => c + j # t)
  <2>1. j \in 0 .. n - 1
    BY <1>9, <1>10
  <2>2. owner[c + j] = m
    BY <1>3, <1>5, <1>7, <1>8, <2>1 DEF Frame, AtChildren
  <2>3. c + j \in Ns
    BY <1>1, <1>9, <1>10 DEF Ns
  <2>4. ASSUME i < j, c + j = t PROVE FALSE
    <3>1. c + i < t /\ t < c + n
      BY <1>9, <1>10, <2>4
    <3>2. t \in LeftOf(s)
      BY <1>3, <1>5, <1>6, <1>7, <1>9, <3>1 DEF LeftOf
    <3> QED
      BY <1>3, <1>4, <3>2
  <2> QED
    BY <2>2, <2>3, <2>4
<1>11. ASSUME NEW j \in Nat, j < n
       PROVE  /\ i <= j => tree'[c + j].next_sibling = 0
              /\ i < j => tree'[c + j].pid = 0
              /\ c + j \in on => c + j \in on2
  <2>1. /\ i <= j => tree[c + j].next_sibling = 0
        /\ i < j => tree[c + j].pid = 0
    BY <1>3, <1>5, <1>6, <1>7, <1>11 DEF AtWork, AtChildren
  <2>2. c + j \in Ns /\ owner[c + j] # t /\ (i < j => c + j # t)
    BY <1>9, <1>10, <1>11
  <2> QED
    BY <1>4, <2>1, <2>2
<1>12. m \in on2
  <2>1. m \in on /\ ~ (t < m)
    BY <1>3, <1>8, <1>9 DEF AtWork
  <2> QED
    BY <1>4, <1>9, <2>1
<1>13. c + i \in on2 \/ (i + 1 < n /\ c + (i + 1) \in on2)
  <2>1. c + i \in on \/ (i + 1 < n /\ c + (i + 1) \in on)
    BY <1>3, <1>5, <1>6, <1>7 DEF AtWork
  <2>2. i + 1 \in Nat
    BY <1>9
  <2> QED
    BY <1>9, <1>11, <2>1, <2>2
<1>14. s.cmd_err => s.pid \notin steady'
  BY <1>1, <1>3 DEF AtWork
<1> QED
  BY <1>3, <1>5, <1>6, <1>7, <1>8, <1>11, <1>12, <1>13, <1>14 DEF AtWork, AtChildren

(* The stack after the step. *)
LEMMA WorkBecoming ==
  ASSUME Linked, outcome = "running", NEW a \in Calls, Becomes(a), NEW on, AtWork(a, on)',
         \A k \in 2 .. Len(stack) : \A s : s = stack[k] => AtWork(s, on)'
  PROVE  /\ \A k \in 1 .. Len(stack') : AtWork(stack[k], on)'
         /\ top' = a
<1>1. /\ Len(stack) \in Nat \ {0} /\ stack # <<>> /\ stack \in Seq(Calls)
  BY TopIs DEF Linked, LinkTypes
<1>2. stack' = <<a>> \o Tail(stack)
  BY DEF Becomes
<1>3. /\ Len(stack') = Len(stack) /\ stack'[1] = a
      /\ \A k \in 2 .. Len(stack) : stack'[k] = stack[k]
  BY <1>1, <1>2, OtherTop
<1>4. ASSUME NEW k \in 1 .. Len(stack'), NEW s, s = stack'[k] PROVE AtWork(s, on)'
  <2>1. CASE k = 1
    <3>1. s = a
      BY <1>3, <1>4, <2>1
    <3> QED
      BY <3>1, Zenon
  <2>2. CASE k # 1
    <3>1. k \in 2 .. Len(stack) /\ s = stack[k]
      BY <1>1, <1>3, <1>4, <2>2
    <3> QED
      BY <3>1
  <2> QED
    BY <2>1, <2>2
<1>5. \A k \in 1 .. Len(stack') : AtWork(stack[k], on)'
  BY <1>4, Zenon
<1>6. top' = a
  BY <1>3 DEF top
<1> QED
  BY <1>5, <1>6

(* A call that returns leaves the activation below it at the link it was to set. *)
LEMMA WorkReturning ==
  ASSUME Linked, outcome = "running", NEW code, Returns(code), NEW on,
         NEW who, NEW owner, NEW anc, Nested(who, owner, anc),
         \A k \in 2 .. Len(stack) : \A s : s = stack[k] => AtWork(s, on)'
  PROVE  /\ \A k \in 1 .. Len(stack') : AtWork(stack[k], on)'
         /\ ~ Named'
<1>1. /\ Len(stack') = Len(stack) - 1 /\ Len(stack) \in Nat \ {0}
      /\ \A k \in 1 .. Len(stack) - 1 : stack'[k] = stack[k + 1]
  BY TopIsCall DEF Returns
<1>2. ASSUME NEW k \in 1 .. Len(stack'), NEW s, s = stack'[k] PROVE AtWork(s, on)'
  <2>1. s = stack[k + 1] /\ k + 1 \in 2 .. Len(stack)
    BY <1>1, <1>2
  <2> QED
    BY <2>1
<1>3. \A k \in 1 .. Len(stack') : AtWork(stack[k], on)'
  BY <1>2, Zenon
<1>4. ASSUME stack' # <<>> PROVE stack'[1].step = "sibling"
  <2>1. stack' \in Seq(Calls)
    BY TopIsCall DEF Returns
  <2>2. Len(stack') # 0
    BY <1>4, <2>1
  <2>3. stack'[1] = stack[1 + 1] /\ 1 + 1 \in 1 .. Len(stack) /\ 1 \in 1 .. Len(stack)
    BY <1>1, <2>1, <2>2
  <2> QED
    BY <2>3 DEF Nested
<1>5. ~ Named'
  BY <1>4 DEF Named, top
<1> QED
  BY <1>3, <1>5

(* A call for a child leaves its caller waiting behind it. *)
LEMMA WorkCalling ==
  ASSUME Linked, outcome = "running", NEW a \in Calls, NEW b \in Calls,
         stack' = <<b, a>> \o Tail(stack), NEW on, AtWork(a, on)', AtWork(b, on)',
         \A k \in 2 .. Len(stack) : \A s : s = stack[k] => AtWork(s, on)'
  PROVE  /\ \A k \in 1 .. Len(stack') : AtWork(stack[k], on)'
         /\ top' = b
<1>1. /\ Len(stack) \in Nat \ {0} /\ stack # <<>> /\ stack \in Seq(Calls)
  BY TopIs DEF Linked, LinkTypes
<1>3. /\ Len(stack') = Len(stack) + 1 /\ stack'[1] = b /\ stack'[2] = a
      /\ \A k \in 3 .. Len(stack) + 1 : stack'[k] = stack[k - 1]
  BY <1>1, OneDeeper
<1>4. ASSUME NEW k \in 1 .. Len(stack'), NEW s, s = stack'[k] PROVE AtWork(s, on)'
  <2>1. CASE k = 1
    <3>1. s = b
      BY <1>3, <1>4, <2>1
    <3> QED
      BY <3>1, Zenon
  <2>2. CASE k = 2
    <3>1. s = a
      BY <1>3, <1>4, <2>2
    <3> QED
      BY <3>1, Zenon
  <2>3. CASE k # 1 /\ k # 2
    <3>1. k - 1 \in 2 .. Len(stack) /\ k \in 3 .. Len(stack) + 1
      BY <1>1, <1>3, <1>4, <2>3
    <3>2. s = stack[k - 1]
      BY <1>3, <1>4, <3>1
    <3> QED
      BY <3>1, <3>2
  <2> QED
    BY <2>1, <2>2, <2>3
<1>5. \A k \in 1 .. Len(stack') : AtWork(stack[k], on)'
  BY <1>4, Zenon
<1>6. top' = b
  BY <1>3 DEF top
<1> QED
  BY <1>5, <1>6

(* What a step that fills no node leaves true. *)
LEMMA SteadyOn ==
  ASSUME Outside, NEW who, NEW owner, NEW anc, NEW on, NEW on2, Steadily(who, owner, anc, on),
         Len(tree') = Len(tree),
         \A x \in Ns : tree'[x].pid = tree[x].pid /\ tree'[x].name = tree[x].name,
         Chained(who, on2)', ReadAll', \A k \in 1 .. Len(stack') : AtWork(stack[k], on2)'
  PROVE  Steadily(who, owner, anc, on2)'
<1>1. Ns' = Ns /\ born' = born /\ steady' = steady
  BY DEF Ns, Outside, kernel
<1>2. Complete(who)'
  BY <1>1 DEF Complete, Steadily
<1>3. ASSUME NEW a \in Ns, tree'[a].pid # 0, who[a] \in steady
      PROVE  \E c \in Nat : \E list \in Seq(Pids) :
               Holding(who[a], list)' /\ Array(a, c, list, who, owner, anc)'
  <2>1. PICK c \in Nat, list \in Seq(Pids) :
          Holding(who[a], list) /\ Array(a, c, list, who, owner, anc)
    BY <1>3 DEF Steadily, Families
  <2>2. Array(a, c, list, who, owner, anc)'
    BY <1>1, <2>1 DEF Array
  <2>3. Holding(who[a], list)'
    BY <1>1, <2>1 DEF Holding
  <2> QED
    BY <2>2, <2>3
<1>4. Families(who, owner, anc)'
  BY <1>1, <1>3 DEF Families
<1> QED
  BY <1>2, <1>4 DEF Steadily

(* The chain as it is. *)
LEMMA SameChain ==
  ASSUME Outside, tree' = tree, NEW who, NEW on, Chained(who, on)
  PROVE  Chained(who, on)'
BY DEF Chained, LeadsTo, Ns, Outside, kernel

(* The waiting ones when the tree stays as it is. *)
LEMMA WaitersAlike ==
  ASSUME Linked, outcome = "running", Outside, tree' = tree,
         NEW who, NEW owner, NEW anc, NEW age, NEW on, Placed(who, owner, anc, age),
         Steadily(who, owner, anc, on)
  PROVE  \A k \in 2 .. Len(stack) : \A s : s = stack[k] => AtWork(s, on)'
<1>1. Nested(who, owner, anc) /\ \A k \in 1 .. Len(stack) : AtWork(stack[k], on)
  BY DEF Placed, Steadily
<1>2. \A x \in Ns : /\ tree'[x].next_sibling = tree[x].next_sibling \/ owner[x] = top.node
                    /\ tree'[x].pid = tree[x].pid \/ x = top.node
                    /\ x \in on => x \in on \/ (owner[x] = top.node /\ top.node < x)
  OBVIOUS
<1> QED
  BY <1>1, <1>2, WaitersStay

(* The files of a process, one after another. *)
LEMMA FilesSteadily ==
  ASSUME Linked, outcome = "running", Outside, tree' = tree,
         NEW who, NEW owner, NEW anc, NEW age, NEW on, Placed(who, owner, anc, age),
         Steadily(who, owner, anc, on), top.step \notin AtChildren,
         NEW a \in Calls, Becomes(a), a.step \notin AtChildren, a.node = top.node,
         a.pid = top.pid, a.cmd_err => a.pid \notin steady,
         a.step = "name" /\ a.pid \in steady => Holding(a.pid, a.children)
  PROVE  Steadily(who, owner, anc, on)'
<1>1. \A k \in 2 .. Len(stack) : \A s : s = stack[k] => AtWork(s, on)'
  BY WaitersAlike
<1>2. AtWork(top, on)
  BY TopIs DEF Steadily
<1>3. steady' = steady /\ born' = born
  BY DEF Outside, kernel
<1>4. AtWork(a, on)'
  BY <1>2, <1>3 DEF AtWork, AtChildren
<1>5. (\A k \in 1 .. Len(stack') : AtWork(stack[k], on)') /\ top' = a
  BY <1>1, <1>4, WorkBecoming
<1>6. ReadAll'
  BY <1>3, <1>5 DEF ReadAll, Named, Holding
<1>7. Chained(who, on)'
  BY SameChain DEF Steadily
<1> QED
  BY <1>5, <1>6, <1>7, SteadyOn

(* An activation that returns and leaves the tree as it is. *)
LEMMA ReturnsSteadily ==
  ASSUME Linked, outcome = "running", Outside, tree' = tree, NEW code, Returns(code),
         NEW who, NEW owner, NEW anc, NEW age, NEW on, Placed(who, owner, anc, age),
         Steadily(who, owner, anc, on)
  PROVE  Steadily(who, owner, anc, on)'
<1>1. \A k \in 2 .. Len(stack) : \A s : s = stack[k] => AtWork(s, on)'
  BY WaitersAlike
<1>2. (\A k \in 1 .. Len(stack') : AtWork(stack[k], on)') /\ ~ Named'
  BY <1>1, WorkReturning DEF Placed
<1>3. ReadAll'
  BY <1>2 DEF ReadAll
<1>4. Chained(who, on)'
  BY SameChain DEF Steadily
<1> QED
  BY <1>2, <1>3, <1>4, SteadyOn

(* What becomes of the outcome is no matter. *)
LEMMA SteadilyEnds ==
  ASSUME UNCHANGED <<kernel, tree, stack>>, NEW who, NEW owner, NEW anc, NEW on,
         Steadily(who, owner, anc, on)
  PROVE  Steadily(who, owner, anc, on)'
<1>1. /\ Ns' = Ns /\ Named' = Named /\ top' = top /\ tree' = tree /\ stack' = stack
      /\ status' = status /\ steady' = steady /\ born' = born
  BY DEF Ns, Named, top, kernel
<1>2. Chained(who, on)' /\ Complete(who)'
  BY <1>1 DEF Steadily, Chained, Complete, LeadsTo
<1>3. \A k \in 1 .. Len(stack) : AtWork(stack[k], on)'
  BY <1>1 DEF Steadily, AtWork
<1>4. ReadAll'
  BY <1>1 DEF Steadily, ReadAll, Holding
<1>5. \A p, list : Holding(p, list) => Holding(p, list)'
  BY <1>1 DEF Holding
<1>6. \A a, c, list : Array(a, c, list, who, owner, anc) => Array(a, c, list, who, owner, anc)'
  BY <1>1 DEF Array
<1>7. Families(who, owner, anc)'
  BY <1>1, <1>5, <1>6 DEF Steadily, Families
<1> QED
  BY <1>1, <1>2, <1>3, <1>4, <1>7 DEF Steadily

(* The steps until the children are known. *)
LEMMA EarlySteadily ==
  ASSUME Linked, Related, Kept,
         StatProcess \/ StatCmdline \/ StatChildren \/ OpenChildren \/ ReadChildren,
         NEW who, NEW owner, NEW anc, NEW age, NEW on, Placed(who, owner, anc, age),
         Steadily(who, owner, anc, on)
  PROVE  Steadily(who, owner, anc, on)'
<1>1. outcome = "running" /\ tree' = tree /\ Outside /\ top.step \in Early
  BY DEF StatProcess, StatCmdline, StatChildren, OpenChildren, ReadChildren, At, Early
<1>2. top \in Calls /\ AtWork(top, on) /\ top.pid \in Pids /\ top.step \notin AtChildren
  BY <1>1, TopIs DEF Steadily, Calls, Early, AtChildren
<1>3. top.cmd_err => top.pid \notin steady
  BY <1>2 DEF AtWork
<1>4. ~ Exists(top.pid) => top.pid \notin steady
  BY DEF Related, Exists
<1>5. CASE StatProcess
  <2>1. CASE Exists(top.pid)
    <3>1. PICK a : a = [top EXCEPT !.step = "cmdline"]
      OBVIOUS
    <3>2. /\ a \in Calls /\ a.step = "cmdline" /\ a.node = top.node /\ a.pid = top.pid
          /\ a.cmd_err = top.cmd_err /\ Becomes(a)
      BY <1>2, <1>5, <2>1, <3>1 DEF Calls, Steps, StatProcess
    <3>3. a.step \notin AtChildren /\ a.step # "name"
      BY <3>2 DEF AtChildren
    <3> QED
      BY <1>1, <1>2, <1>3, <3>2, <3>3, FilesSteadily
  <2>2. CASE ~ Exists(top.pid)
    BY <1>1, <1>5, <2>2, ReturnsSteadily DEF StatProcess
  <2> QED
    BY <2>1, <2>2
<1>6. CASE StatCmdline
  <2>1. PICK e \in BOOLEAN : e = ~ Exists(top.pid)
    OBVIOUS
  <2>2. PICK a : a = [top EXCEPT !.step = "children", !.cmd_err = e]
    OBVIOUS
  <2>3. Becomes(a)
    BY <1>6, <2>1, <2>2, Zenon DEF StatCmdline
  <2>4. /\ a \in Calls /\ a.step = "children" /\ a.node = top.node /\ a.pid = top.pid
        /\ a.cmd_err = e
    BY <1>2, <2>2 DEF Calls, Steps
  <2>5. a.step \notin AtChildren /\ a.step # "name"
    BY <2>4 DEF AtChildren
  <2>6. a.cmd_err => a.pid \notin steady
    BY <1>4, <2>1, <2>4
  <2> QED
    BY <1>1, <1>2, <2>3, <2>4, <2>5, <2>6, FilesSteadily
<1>7. CASE StatChildren
  <2>1. PICK x \in {"open", "name"} : x = IF Exists(top.pid) THEN "open" ELSE "name"
    OBVIOUS
  <2>2. PICK a : a = [top EXCEPT !.step = x]
    OBVIOUS
  <2>3. Becomes(a)
    BY <1>7, <2>1, <2>2, Zenon DEF StatChildren
  <2>4. /\ a \in Calls /\ a.step = x /\ a.node = top.node /\ a.pid = top.pid
        /\ a.cmd_err = top.cmd_err
    BY <1>2, <2>2 DEF Calls, Steps
  <2>5. a.step \notin AtChildren
    BY <2>4 DEF AtChildren
  <2>6. a.step = "name" => a.pid \notin steady
    BY <1>4, <2>1, <2>4
  <2> QED
    BY <1>1, <1>2, <1>3, <2>3, <2>4, <2>5, <2>6, FilesSteadily
<1>8. CASE OpenChildren
  <2>1. CASE Opens(top.pid)
    <3>1. PICK a : a = [top EXCEPT !.step = "read"]
      OBVIOUS
    <3>2. /\ a \in Calls /\ a.step = "read" /\ a.node = top.node /\ a.pid = top.pid
          /\ a.cmd_err = top.cmd_err /\ Becomes(a)
      BY <1>2, <1>8, <2>1, <3>1 DEF Calls, Steps, OpenChildren
    <3>3. a.step \notin AtChildren /\ a.step # "name"
      BY <3>2 DEF AtChildren
    <3> QED
      BY <1>1, <1>2, <1>3, <3>2, <3>3, FilesSteadily
  <2>2. CASE ~ Opens(top.pid)
    BY <1>1, <1>8, <2>2, SteadilyEnds DEF OpenChildren, Segv, Outside
  <2> QED
    BY <2>1, <2>2
<1>9. CASE ReadChildren
  <2>1. PICK c : c = IF Exists(top.pid) THEN kids[top.pid] ELSE <<>>
    OBVIOUS
  <2>2. PICK a : a = [top EXCEPT !.step = "name", !.children = c]
    OBVIOUS
  <2>3. Becomes(a)
    BY <1>9, <2>1, <2>2, Zenon DEF ReadChildren
  <2>4. c \in Seq(Pids)
    <3>1. kids[top.pid] \in Seq(Pids) /\ <<>> \in Seq(Pids)
      BY <1>2 DEF Linked, LinkTypes
    <3> QED
      BY <2>1, <3>1, Zenon
  <2>5. /\ a \in Calls /\ a.step = "name" /\ a.node = top.node /\ a.pid = top.pid
        /\ a.cmd_err = top.cmd_err /\ a.children = c
    BY <1>2, <2>2, <2>4 DEF Calls, Steps
  <2>6. a.step \notin AtChildren
    BY <2>5 DEF AtChildren
  <2>7. a.pid \in steady => Holding(a.pid, a.children)
    <3>1. top.pid \in steady => Holding(top.pid, kids[top.pid]) /\ c = kids[top.pid]
      BY <1>4, <2>1 DEF Kept
    <3> QED
      BY <2>5, <3>1
  <2> QED
    BY <1>1, <1>2, <1>3, <2>3, <2>5, <2>6, <2>7, FilesSteadily
<1> QED
  BY <1>5, <1>6, <1>7, <1>8, <1>9

--------------------------------------------------------------------------------
(* The links are set. *)

(* One pointer is set, and nothing else. *)
LEMMA ChildField ==
  ASSUME Linked, NEW a \in Ns, NEW b, tree' = [tree EXCEPT ![a].child_procs = b]
  PROVE  /\ Len(tree') = Len(tree) /\ tree'[a].child_procs = b
         /\ \A x \in Ns : /\ tree'[x].pid = tree[x].pid /\ tree'[x].name = tree[x].name
                          /\ tree'[x].next_sibling = tree[x].next_sibling
                          /\ x # a => tree'[x].child_procs = tree[x].child_procs
<1>1. tree \in Seq(Blocks) /\ tree[a] \in Blocks
  BY DEF Linked, LinkTypes, Ns
<1>2. \A x \in Ns : tree'[x] = IF x = a THEN [tree[a] EXCEPT !.child_procs = b] ELSE tree[x]
  BY <1>1 DEF Ns
<1>3. Len(tree') = Len(tree)
  BY <1>1
<1>4. \A x \in Ns : /\ tree'[x].pid = tree[x].pid /\ tree'[x].name = tree[x].name
                    /\ tree'[x].next_sibling = tree[x].next_sibling
                    /\ tree'[x].child_procs = IF x = a THEN b ELSE tree[x].child_procs
  BY <1>1, <1>2 DEF Blocks
<1> QED
  BY <1>3, <1>4

(* What the assignment to next_sibling changes, and what it leaves alone. *)
LEMMA SiblingField ==
  ASSUME Linked, NEW a \in Ns, NEW b, tree' = [tree EXCEPT ![a].next_sibling = b]
  PROVE  /\ Len(tree') = Len(tree) /\ tree'[a].next_sibling = b
         /\ \A x \in Ns : /\ tree'[x].pid = tree[x].pid /\ tree'[x].name = tree[x].name
                          /\ tree'[x].child_procs = tree[x].child_procs
                          /\ x # a => tree'[x].next_sibling = tree[x].next_sibling
<1>1. tree \in Seq(Blocks) /\ tree[a] \in Blocks
  BY DEF Linked, LinkTypes, Ns
<1>2. \A x \in Ns : tree'[x] = IF x = a THEN [tree[a] EXCEPT !.next_sibling = b] ELSE tree[x]
  BY <1>1 DEF Ns
<1>3. Len(tree') = Len(tree)
  BY <1>1
<1>4. \A x \in Ns : /\ tree'[x].pid = tree[x].pid /\ tree'[x].name = tree[x].name
                    /\ tree'[x].child_procs = tree[x].child_procs
                    /\ tree'[x].next_sibling = IF x = a THEN b ELSE tree[x].next_sibling
  BY <1>1, <1>2 DEF Blocks
<1> QED
  BY <1>3, <1>4

(* Empty nodes leave the chain, and others join it behind one that stays. *)
LEMMA Rechained ==
  ASSUME Outside, NEW who, NEW on, Chained(who, on), Len(tree') = Len(tree),
         \A x \in Ns : tree'[x].pid = tree[x].pid,
         NEW out, NEW new, 1 \notin out, new \subseteq Ns,
         \A x \in out : tree[x].pid = 0 /\ tree[x].child_procs = 0 /\ tree[x].next_sibling = 0,
         \A a \in on \ out : \A b \in on \ out : LeadsTo(a, b) => LeadsTo(a, b)',
         \A b \in new : \E a \in on \ out : LeadsTo(a, b)'
  PROVE  Chained(who, (on \ out) \cup new)'
<1>1. Ns' = Ns /\ steady' = steady
  BY DEF Ns, Outside, kernel
<1>2. PICK on2 : on2 = (on \ out) \cup new
  OBVIOUS
<1>3. 1 \in on2 /\ on2 \subseteq Ns
  BY <1>2 DEF Chained
<1>4. ASSUME NEW b \in on2 \ {1} PROVE \E a \in on2 : LeadsTo(a, b)'
  <2>1. CASE b \in new
    BY <1>2, <2>1
  <2>2. CASE b \notin new
    <3>1. b \in on \ out /\ b \in Ns
      BY <1>2, <2>2 DEF Chained
    <3>2. PICK a \in on : LeadsTo(a, b)
      BY <1>4, <3>1 DEF Chained
    <3>3. b # 0
      BY <3>1 DEF Ns
    <3>4. a \notin out
      BY <3>2, <3>3 DEF LeadsTo
    <3> QED
      BY <1>2, <3>1, <3>2, <3>4
  <2> QED
    BY <2>1, <2>2
<1>5. ASSUME NEW a \in Ns \ on2 PROVE tree'[a].pid = 0 \/ who[a] \notin steady
  <2>1. tree'[a].pid = tree[a].pid
    OBVIOUS
  <2>2. a \in out \/ a \in Ns \ on
    BY <1>2
  <2> QED
    BY <2>1, <2>2 DEF Chained
<1>6. Chained(who, on2)'
  BY <1>1, <1>3, <1>4, <1>5 DEF Chained
<1> QED
  BY <1>2, <1>6, Zenon

(* What an activation at its children knows of them. *)
LEMMA KnowsChildren ==
  ASSUME Linked, Related, outcome = "running", top.step \in AtChildren,
         NEW who, NEW owner, NEW anc, NEW age, NEW on, Placed(who, owner, anc, age),
         Steadily(who, owner, anc, on), NEW m, m = top.node, NEW i, i = top.i,
         NEW n, n = n_children
  PROVE  /\ m \in Ns /\ m \in Nat /\ n \in Nat /\ i \in Nat /\ i < n /\ m \in on
         /\ \A j \in Nat : j < n =>
              /\ child(j) \in Ns /\ m < child(j) /\ child(j) \in Nat /\ child(j) # 0
              /\ owner[child(j)] = m
              /\ i <= j => tree[child(j)].next_sibling = 0
              /\ i < j \/ (top.step = "child" /\ i = j) =>
                   tree[child(j)].pid = 0 /\ tree[child(j)].child_procs = 0
         /\ \A j, k \in Nat : child(j) = child(k) => j = k
         /\ top.cmd_err => top.pid \notin steady
<1>1. /\ m \in Ns /\ n \in Nat /\ i \in Nat /\ i < n
      /\ \A j \in Nat : j < n => /\ child(j) \in Ns /\ m < child(j)
                                 /\ owner[child(j)] = m
  BY AtChild
<1>2. AtWork(top, on) /\ top.child \in Nat
  BY TopIs DEF Steadily, Calls
<1>3. m \in on
  BY <1>2 DEF AtWork
<1>4. m \in Nat /\ \A j \in Nat : j < n => child(j) \in Nat /\ child(j) # 0
  BY <1>1 DEF Ns
<1>5. \A j \in Nat : j < n =>
        /\ i <= j => tree[child(j)].next_sibling = 0
        /\ i < j \/ (top.step = "child" /\ i = j) => tree[child(j)].pid = 0
  BY <1>2 DEF AtWork, child, n_children
<1>6. \A x \in Ns : tree[x].pid = 0 => tree[x].child_procs = 0
  BY DEF Placed, Labels
<1>7. \A j, k \in Nat : child(j) = child(k) => j = k
  <2>1. PICK c : c = top.child
    OBVIOUS
  <2>2. c \in Nat
    BY <1>2, <2>1
  <2>3. \A j, k \in Nat : c + j = c + k => j = k
    BY <2>2
  <2> QED
    BY <2>1, <2>3 DEF child
<1> QED
  BY <1>1, <1>2, <1>3, <1>4, <1>5, <1>6, <1>7 DEF AtWork

(* The child is there: it is reached. *)
LEMMA VisitSteadily ==
  ASSUME Linked, Related, Visit,
         NEW who, NEW owner, NEW anc, NEW age, NEW on, Placed(who, owner, anc, age),
         Steadily(who, owner, anc, on)
  PROVE  Steadily(who, owner, anc, on)'
<1>1. /\ outcome = "running" /\ top.step = "child" /\ top.step \in AtChildren /\ Outside
      /\ tree' = tree /\ Exists(c_in_int(top.i))
  BY DEF Visit, At, AtChildren
<1>2. top \in Calls /\ AtWork(top, on)
  BY <1>1, TopIs DEF Steadily
<1>3. PICK m : m = top.node
  OBVIOUS
<1>4. PICK i : i = top.i
  OBVIOUS
<1>5. PICK n : n = n_children
  OBVIOUS
<1>6. /\ m \in Ns /\ m \in Nat /\ n \in Nat /\ i \in Nat /\ i < n /\ m \in on
      /\ \A j \in Nat : j < n =>
           /\ child(j) \in Ns /\ child(j) \in Nat /\ child(j) # 0
           /\ i <= j => tree[child(j)].next_sibling = 0
           /\ i < j \/ (top.step = "child" /\ i = j) => tree[child(j)].pid = 0
      /\ top.cmd_err => top.pid \notin steady
  BY <1>1, <1>3, <1>4, <1>5, KnowsChildren
<1>7. PICK c : c = child(i)
  OBVIOUS
<1>8. PICK p : p = c_in_int(i)
  OBVIOUS
<1>9. c \in Nat \ {0} /\ tree[c].pid = 0 /\ p \in Pids
  <2>1. p \in Pids
    BY <1>1, <1>4, <1>5, <1>6, <1>8, AtChild
  <2> QED
    BY <1>1, <1>6, <1>7, <2>1
<1>10. c \in on
  BY <1>1, <1>2, <1>4, <1>7 DEF AtWork, Exists, child, c_in_int
<1>11. PICK a : a = [top EXCEPT !.step = "sibling"]
  OBVIOUS
<1>12. PICK b : b = Activation(c, p)
  OBVIOUS
<1>13. stack' = <<b, a>> \o Tail(stack)
  BY <1>4, <1>7, <1>8, <1>11, <1>12 DEF Visit
<1>14. /\ a \in Calls /\ a.step = "sibling" /\ a.node = m /\ a.pid = top.pid /\ a.i = i
       /\ a.child = top.child /\ a.children = top.children /\ a.cmd_err = top.cmd_err
  BY <1>2, <1>3, <1>4, <1>11 DEF Calls, Steps
<1>15. /\ b \in Calls /\ b.step = "exists" /\ b.node = c /\ b.cmd_err = FALSE
  BY <1>9, <1>12 DEF Activation, Calls, Steps
<1>16. status' = status /\ steady' = steady
  BY <1>1 DEF Outside, kernel
<1>17. AtWork(a, on)'
  <2>1. \A j \in Nat : j < Len(a.children) =>
          /\ i <= j => tree[a.child + j].next_sibling = 0
          /\ i < j => tree[a.child + j].pid = 0
    BY <1>5, <1>6, <1>14 DEF child, n_children
  <2>2. a.child + a.i \in on
    BY <1>7, <1>10, <1>14 DEF child
  <2> QED
    BY <1>1, <1>6, <1>14, <1>16, <2>1, <2>2 DEF AtWork, AtChildren
<1>18. AtWork(b, on)'
  BY <1>1, <1>9, <1>10, <1>15 DEF AtWork, AtChildren
<1>19. \A k \in 2 .. Len(stack) : \A s : s = stack[k] => AtWork(s, on)'
  BY <1>1, WaitersAlike
<1>20. (\A k \in 1 .. Len(stack') : AtWork(stack[k], on)') /\ top' = b
  BY <1>1, <1>13, <1>14, <1>15, <1>17, <1>18, <1>19, WorkCalling
<1>21. ReadAll'
  BY <1>15, <1>20 DEF ReadAll, Named
<1>22. Chained(who, on)'
  BY <1>1, SameChain DEF Steadily
<1> QED
  BY <1>1, <1>20, <1>21, <1>22, SteadyOn

(* The same activation goes on to the next link or child, in the same array. *)
LEMMA AlongSteadily ==
  ASSUME Linked, Related, outcome = "running", top.step \in AtChildren, Outside,
         NEW who, NEW owner, NEW anc, NEW age, NEW on, NEW on2, Placed(who, owner, anc, age),
         Steadily(who, owner, anc, on), Len(tree') = Len(tree),
         \A x \in Ns : tree'[x].pid = tree[x].pid /\ tree'[x].name = tree[x].name,
         \A x \in Ns : tree'[x].next_sibling = tree[x].next_sibling \/ owner[x] = top.node,
         \A x \in on : x \in on2 \/ (owner[x] = top.node /\ top.node < x),
         Chained(who, on2)', NEW a \in Calls, Becomes(a), a.step # "name", AtWork(a, on2)'
  PROVE  Steadily(who, owner, anc, on2)'
<1>1. Nested(who, owner, anc) /\ \A k \in 1 .. Len(stack) : AtWork(stack[k], on)
  BY DEF Placed, Steadily
<1>2. \A k \in 2 .. Len(stack) : \A s : s = stack[k] => AtWork(s, on2)'
  BY <1>1, WaitersStay
<1>3. (\A k \in 1 .. Len(stack') : AtWork(stack[k], on2)') /\ top' = a
  BY <1>2, WorkBecoming
<1>4. ReadAll'
  BY <1>3 DEF ReadAll, Named
<1> QED
  BY <1>3, <1>4, SteadyOn

(* The child is gone: the pointer to it is moved, and the next one is reached instead. *)
LEMMA LinkOverSteadily ==
  ASSUME Linked, Related, LinkOver,
         NEW who, NEW owner, NEW anc, NEW age, NEW on, Placed(who, owner, anc, age),
         Steadily(who, owner, anc, on)
  PROVE  \E on2 : Steadily(who, owner, anc, on2)'
<1>1. /\ outcome = "running" /\ top.step = "child" /\ top.step \in AtChildren /\ Outside
      /\ n_children > top.i + 1
      /\ Becomes([top EXCEPT !.step = "sibling"])
  BY DEF LinkOver, At, AtChildren
<1>2. top \in Calls /\ AtWork(top, on) /\ Chained(who, on)
  BY <1>1, TopIs DEF Steadily
<1>3. PICK m : m = top.node
  OBVIOUS
<1>4. PICK i : i = top.i
  OBVIOUS
<1>5. PICK n : n = n_children
  OBVIOUS
<1>6. /\ m \in Ns /\ m \in Nat /\ n \in Nat /\ i \in Nat /\ i < n /\ m \in on
      /\ \A j \in Nat : j < n =>
           /\ child(j) \in Ns /\ m < child(j) /\ child(j) \in Nat /\ child(j) # 0
           /\ owner[child(j)] = m
           /\ i <= j => tree[child(j)].next_sibling = 0
           /\ i < j \/ (top.step = "child" /\ i = j) =>
                tree[child(j)].pid = 0 /\ tree[child(j)].child_procs = 0
      /\ \A j, k \in Nat : child(j) = child(k) => j = k
      /\ top.cmd_err => top.pid \notin steady
  BY <1>1, <1>3, <1>4, <1>5, KnowsChildren
<1>7. PICK a : a = [top EXCEPT !.step = "sibling"]
  OBVIOUS
<1>8. /\ a \in Calls /\ a.step = "sibling" /\ a.node = m /\ a.pid = top.pid /\ a.i = i
      /\ a.child = top.child /\ a.children = top.children /\ a.cmd_err = top.cmd_err
      /\ Becomes(a)
  BY <1>1, <1>2, <1>3, <1>4, <1>7 DEF Calls, Steps
<1>9. i + 1 \in Nat /\ i + 1 < n
  BY <1>1, <1>4, <1>5, <1>6
<1>10. PICK c : c = child(i)
  OBVIOUS
<1>11. PICK d : d = child(i + 1)
  OBVIOUS
<1>12. /\ c \in Ns /\ c \in Nat /\ m < c /\ c # 0 /\ owner[c] = m /\ c # d
       /\ tree[c].next_sibling = 0 /\ tree[c].pid = 0 /\ tree[c].child_procs = 0
       /\ d \in Ns /\ d \in Nat /\ m < d /\ d # 0 /\ owner[d] = m
  BY <1>1, <1>6, <1>9, <1>10, <1>11
<1>13. status' = status /\ steady' = steady
  BY <1>1 DEF Outside, kernel
(* What the activation has to know, whichever link it was. *)
<1>14. ASSUME NEW on2, m \in on2, c \in on2 \/ d \in on2,
              \A x \in Ns : tree'[x].pid = tree[x].pid,
              \A j \in Nat : j < n /\ i <= j =>
                tree'[child(j)].next_sibling = tree[child(j)].next_sibling
       PROVE  AtWork(a, on2)'
  <2>1. \A j \in Nat : j < Len(a.children) =>
          /\ i <= j => tree'[a.child + j].next_sibling = 0
          /\ i < j => tree'[a.child + j].pid = 0
    BY <1>5, <1>6, <1>8, <1>14 DEF child, n_children
  <2>2. a.child + a.i = c /\ a.child + (a.i + 1) = d /\ a.i + 1 < Len(a.children)
    BY <1>5, <1>8, <1>9, <1>10, <1>11 DEF child, n_children
  <2> QED
    BY <1>6, <1>8, <1>13, <1>14, <2>1, <2>2 DEF AtWork, AtChildren
<1>15. CASE i = 0
  <2>1. tree' = [tree EXCEPT ![m].child_procs = d]
    <3>1. tree' = [tree EXCEPT ![top.node].child_procs = child(1)]
      BY <1>4, <1>15 DEF LinkOver
    <3>2. d = child(1)
      BY <1>11, <1>15
    <3> QED
      BY <1>3, <3>1, <3>2
  <2>2. /\ Len(tree') = Len(tree) /\ tree'[m].child_procs = d
        /\ \A x \in Ns : /\ tree'[x].pid = tree[x].pid /\ tree'[x].name = tree[x].name
                         /\ tree'[x].next_sibling = tree[x].next_sibling
                         /\ x # m => tree'[x].child_procs = tree[x].child_procs
    BY <1>6, <2>1, ChildField
  <2>3. tree[m].child_procs = c
    BY <1>1, <1>2, <1>3, <1>4, <1>10, <1>15 DEF AtWork, child, Calls
  <2>4. PICK on2 : on2 = (on \ {c}) \cup {d}
    OBVIOUS
  <2>5. Chained(who, on2)'
    <3>1. 1 \notin {c} /\ {d} \subseteq Ns
      BY <1>6, <1>12 DEF Ns
    <3>2. \A x \in {c} : tree[x].pid = 0 /\ tree[x].child_procs = 0 /\ tree[x].next_sibling = 0
      BY <1>12
    <3>3. \A x \in on \ {c} : \A b \in on \ {c} : LeadsTo(x, b) => LeadsTo(x, b)'
      BY <1>2, <2>2, <2>3 DEF LeadsTo, Chained
    <3>4. \A b \in {d} : \E x \in on \ {c} : LeadsTo(x, b)'
      BY <1>6, <1>12, <2>2 DEF LeadsTo
    <3>5. Chained(who, (on \ {c}) \cup {d})'
      BY <1>1, <1>2, <2>2, <3>1, <3>2, <3>3, <3>4, Rechained
    <3> QED
      BY <2>4, <3>5, Zenon
  <2>6. AtWork(a, on2)'
    <3>1. m \in on2 /\ d \in on2
      BY <1>6, <1>12, <2>4
    <3> QED
      BY <1>6, <1>14, <2>2, <3>1
  <2>7. \A x \in on : x \in on2 \/ (owner[x] = top.node /\ top.node < x)
    BY <1>3, <1>12, <2>4
  <2>8. a.step # "name"
    BY <1>8
  <2>9. Steadily(who, owner, anc, on2)'
    BY <1>1, <1>8, <2>2, <2>5, <2>6, <2>7, <2>8, AlongSteadily
  <2> QED
    BY <2>9
<1>16. CASE i # 0
  <2>1. i - 1 \in Nat /\ i - 1 < n /\ i > 0 /\ i - 1 # i
    BY <1>6, <1>16
  <2>2. PICK z : z = child(i - 1)
    OBVIOUS
  <2>3. tree' = [tree EXCEPT ![z].next_sibling = d]
    BY <1>4, <1>11, <1>16, <2>2 DEF LinkOver
  <2>4. /\ z \in Ns /\ owner[z] = m /\ z # c
        /\ \A j \in Nat : j < n /\ i <= j => z # child(j)
    <3>1. \A j \in Nat : i <= j => j # i - 1
      BY <1>6
    <3> QED
      BY <1>6, <1>10, <2>1, <2>2, <3>1
  <2>5. /\ Len(tree') = Len(tree) /\ tree'[z].next_sibling = d
        /\ \A x \in Ns : /\ tree'[x].pid = tree[x].pid /\ tree'[x].name = tree[x].name
                         /\ tree'[x].child_procs = tree[x].child_procs
                         /\ x # z => tree'[x].next_sibling = tree[x].next_sibling
    BY <2>3, <2>4, SiblingField
  <2>6. tree[z].next_sibling \in {0, c} /\ (c \in on \/ z \in on)
    BY <1>1, <1>2, <1>4, <1>10, <2>1, <2>2 DEF AtWork, child
  <2>7. PICK out : out = IF z \in on THEN {c} ELSE {}
    OBVIOUS
  <2>8. PICK new : new = IF z \in on THEN {d} ELSE {}
    OBVIOUS
  <2>9. PICK on2 : on2 = (on \ out) \cup new
    OBVIOUS
  <2>10. Chained(who, on2)'
    <3>1. 1 \notin out /\ new \subseteq Ns
      BY <1>6, <1>12, <2>7, <2>8 DEF Ns
    <3>2. \A x \in out : tree[x].pid = 0 /\ tree[x].child_procs = 0 /\ tree[x].next_sibling = 0
      BY <1>12, <2>7
    <3>3. ASSUME NEW x \in on \ out, NEW b \in on \ out, LeadsTo(x, b) PROVE LeadsTo(x, b)'
      <4>1. x \in Ns /\ b \in Ns /\ b # 0
        BY <1>2 DEF Chained, Ns
      <4>2. CASE tree[x].child_procs = b
        BY <2>5, <4>1, <4>2 DEF LeadsTo
      <4>3. CASE tree[x].next_sibling = b /\ x # z
        BY <2>5, <4>1, <4>3 DEF LeadsTo
      <4>4. CASE tree[x].next_sibling = b /\ x = z
        BY <2>6, <2>7, <4>1, <4>4
      <4> QED
        BY <3>3, <4>2, <4>3, <4>4 DEF LeadsTo
    <3>4. \A b \in new : \E x \in on \ out : LeadsTo(x, b)'
      BY <2>4, <2>5, <2>7, <2>8 DEF LeadsTo
    <3>5. Chained(who, (on \ out) \cup new)'
      BY <1>1, <1>2, <2>5, <3>1, <3>2, <3>3, <3>4, Rechained
    <3> QED
      BY <2>9, <3>5, Zenon
  <2>11. AtWork(a, on2)'
    <3>1. m \in on2 /\ (c \in on2 \/ d \in on2)
      BY <1>6, <1>12, <2>6, <2>7, <2>8, <2>9
    <3>2. \A j \in Nat : j < n /\ i <= j =>
            tree'[child(j)].next_sibling = tree[child(j)].next_sibling
      BY <1>6, <2>4, <2>5
    <3> QED
      BY <1>14, <2>5, <3>1, <3>2
  <2>12. \A x \in on : x \in on2 \/ (owner[x] = top.node /\ top.node < x)
    BY <1>3, <1>12, <2>7, <2>9
  <2>13. a.step # "name"
    BY <1>8
  <2>14. \A x \in Ns : tree'[x].next_sibling = tree[x].next_sibling \/ owner[x] = top.node
    BY <1>3, <2>4, <2>5
  <2>15. Steadily(who, owner, anc, on2)'
    BY <1>1, <1>8, <2>5, <2>10, <2>11, <2>12, <2>13, <2>14, AlongSteadily
  <2> QED
    BY <2>15
<1> QED
  BY <1>15, <1>16

(* The link to the next child is set, or it is not there any more. *)
LEMMA LinkSiblingSteadily ==
  ASSUME Linked, Related, LinkSibling,
         NEW who, NEW owner, NEW anc, NEW age, NEW on, Placed(who, owner, anc, age),
         Steadily(who, owner, anc, on)
  PROVE  \E on2 : Steadily(who, owner, anc, on2)'
<1>1. /\ outcome = "running" /\ top.step = "sibling" /\ top.step \in AtChildren /\ Outside
      /\ n_children > top.i + 1
      /\ Becomes([top EXCEPT !.step = "child", !.i = top.i + 1])
  BY DEF LinkSibling, At, AtChildren
<1>2. top \in Calls /\ AtWork(top, on) /\ Chained(who, on)
  BY <1>1, TopIs DEF Steadily
<1>3. PICK m : m = top.node
  OBVIOUS
<1>4. PICK i : i = top.i
  OBVIOUS
<1>5. PICK n : n = n_children
  OBVIOUS
<1>6. /\ m \in Ns /\ m \in Nat /\ n \in Nat /\ i \in Nat /\ i < n /\ m \in on
      /\ \A j \in Nat : j < n =>
           /\ child(j) \in Ns /\ m < child(j) /\ child(j) \in Nat /\ child(j) # 0
           /\ owner[child(j)] = m
           /\ i <= j => tree[child(j)].next_sibling = 0
           /\ i < j \/ (top.step = "child" /\ i = j) =>
                tree[child(j)].pid = 0 /\ tree[child(j)].child_procs = 0
      /\ \A j, k \in Nat : child(j) = child(k) => j = k
      /\ top.cmd_err => top.pid \notin steady
  BY <1>1, <1>3, <1>4, <1>5, KnowsChildren
<1>7. PICK next : next = i + 1
  OBVIOUS
<1>8. next \in Nat /\ next < n /\ next > 0 /\ next - 1 = i
  BY <1>1, <1>4, <1>5, <1>6, <1>7
<1>9. PICK a : a = [top EXCEPT !.step = "child", !.i = next]
  OBVIOUS
<1>10. /\ a \in Calls /\ a.step = "child" /\ a.node = m /\ a.pid = top.pid /\ a.i = next
       /\ a.child = top.child /\ a.children = top.children /\ a.cmd_err = top.cmd_err
       /\ Becomes(a)
  BY <1>1, <1>2, <1>3, <1>4, <1>7, <1>8, <1>9 DEF Calls, Steps
<1>11. PICK c : c = child(i)
  OBVIOUS
<1>12. PICK d : d = child(next)
  OBVIOUS
<1>13. /\ c \in Ns /\ c \in Nat /\ owner[c] = m /\ c # d /\ tree[c].next_sibling = 0
       /\ d \in Ns /\ d \in Nat /\ d # 0
  <2>1. i # next
    BY <1>6, <1>7
  <2> QED
    BY <1>6, <1>8, <1>11, <1>12, <2>1
<1>14. status' = status /\ steady' = steady
  BY <1>1 DEF Outside, kernel
<1>15. c \in on \/ d \in on
  BY <1>1, <1>2, <1>4, <1>7, <1>11, <1>12 DEF AtWork, child
(* What the activation has to know, whether the link was set or not. *)
<1>16. ASSUME NEW on2, m \in on2,
              \/ d \in on2
              \/ c \in on2 /\ status[c_in_int(next)] = "gone",
              tree'[c].next_sibling \in {0, d},
              \A x \in Ns : tree'[x].pid = tree[x].pid,
              \A x \in Ns : x # c => tree'[x].next_sibling = tree[x].next_sibling
       PROVE  AtWork(a, on2)'
  <2>1. ASSUME NEW j \in Nat, j < n, next <= j
        PROVE  tree'[child(j)].next_sibling = 0 /\ tree'[child(j)].pid = 0
    <3>1. i <= j /\ i < j /\ j # i
      BY <1>6, <1>7, <2>1
    <3>2. child(j) # c /\ child(j) \in Ns
      BY <1>6, <1>11, <2>1, <3>1
    <3>3. tree[child(j)].next_sibling = 0 /\ tree[child(j)].pid = 0
      BY <1>6, <2>1, <3>1
    <3> QED
      BY <1>16, <3>2, <3>3
  <2>2. ASSUME NEW j \in Nat, j < Len(a.children)
        PROVE  /\ a.i <= j => tree'[a.child + j].next_sibling = 0
               /\ a.i < j \/ (a.step = "child" /\ a.i = j) => tree'[a.child + j].pid = 0
    <3>1. j < n /\ a.child + j = child(j)
      BY <1>5, <1>10, <2>2 DEF child, n_children
    <3>2. next < j \/ next = j => next <= j
      BY <1>8
    <3> QED
      BY <1>10, <2>1, <3>1, <3>2
  <2>3. /\ a.child + a.i = d /\ a.child + (a.i - 1) = c
        /\ a.children[a.i + 1] = c_in_int(next) /\ a.i > 0 /\ a.i # 0
    BY <1>8, <1>10, <1>11, <1>12 DEF child, c_in_int
  <2>4. a.step # "sibling" /\ a.step \in AtChildren
    BY <1>10 DEF AtChildren
  <2> QED
    BY <1>6, <1>10, <1>14, <1>16, <2>2, <2>3, <2>4 DEF AtWork
<1>17. a.step # "name"
  BY <1>10
<1>18. CASE Exists(c_in_int(next))
  <2>1. tree' = [tree EXCEPT ![c].next_sibling = d]
    BY <1>4, <1>7, <1>11, <1>12, <1>18 DEF LinkSibling
  <2>2. /\ Len(tree') = Len(tree) /\ tree'[c].next_sibling = d
        /\ \A x \in Ns : /\ tree'[x].pid = tree[x].pid /\ tree'[x].name = tree[x].name
                         /\ tree'[x].child_procs = tree[x].child_procs
                         /\ x # c => tree'[x].next_sibling = tree[x].next_sibling
    BY <1>13, <2>1, SiblingField
  <2>3. PICK new : new = IF c \in on THEN {d} ELSE {}
    OBVIOUS
  <2>4. PICK on2 : on2 = (on \ {}) \cup new
    OBVIOUS
  <2>5. Chained(who, on2)'
    <3>1. 1 \notin {} /\ new \subseteq Ns
      BY <1>13, <2>3
    <3>2. \A x \in {} : tree[x].pid = 0 /\ tree[x].child_procs = 0 /\ tree[x].next_sibling = 0
      OBVIOUS
    <3>3. ASSUME NEW x \in on \ {}, NEW b \in on \ {}, LeadsTo(x, b) PROVE LeadsTo(x, b)'
      <4>1. x \in Ns /\ b \in Ns /\ b # 0
        BY <1>2 DEF Chained, Ns
      <4>2. CASE tree[x].child_procs = b
        BY <2>2, <4>1, <4>2 DEF LeadsTo
      <4>3. CASE tree[x].next_sibling = b
        BY <1>13, <2>2, <4>1, <4>3 DEF LeadsTo
      <4> QED
        BY <3>3, <4>2, <4>3 DEF LeadsTo
    <3>4. \A b \in new : \E x \in on \ {} : LeadsTo(x, b)'
      BY <2>2, <2>3 DEF LeadsTo
    <3>5. Chained(who, (on \ {}) \cup new)'
      BY <1>1, <1>2, <2>2, <3>1, <3>2, <3>3, <3>4, Rechained
    <3> QED
      BY <2>4, <3>5, Zenon
  <2>6. AtWork(a, on2)'
    <3>1. m \in on2 /\ d \in on2
      BY <1>6, <1>15, <2>3, <2>4
    <3> QED
      BY <1>16, <2>2, <3>1
  <2>7. \A x \in on : x \in on2 \/ (owner[x] = top.node /\ top.node < x)
    BY <2>4
  <2>8. \A x \in Ns : tree'[x].next_sibling = tree[x].next_sibling \/ owner[x] = top.node
    BY <1>3, <1>13, <2>2
  <2>9. Steadily(who, owner, anc, on2)'
    BY <1>1, <1>10, <1>17, <2>2, <2>5, <2>6, <2>7, <2>8, AlongSteadily
  <2> QED
    BY <2>9
<1>19. CASE ~ Exists(c_in_int(next))
  <2>1. tree' = tree
    BY <1>4, <1>7, <1>19 DEF LinkSibling
  <2>2. status[c_in_int(next)] = "gone"
    <3>1. c_in_int(next) \in Pids /\ status[c_in_int(next)] # "unborn"
      BY <1>1, <1>5, <1>8, AtChild
    <3> QED
      BY <1>19, <3>1, Vanished
  <2>3. AtWork(a, on)'
    BY <1>6, <1>13, <1>15, <1>16, <2>1, <2>2
  <2>4. Chained(who, on)'
    BY <1>1, <1>2, <2>1, SameChain
  <2>5. Steadily(who, owner, anc, on)'
    BY <1>1, <1>10, <1>17, <2>1, <2>3, <2>4, AlongSteadily
  <2> QED
    BY <2>5
<1> QED
  BY <1>18, <1>19

(* There is no next child: its link was empty already. *)
LEMMA LastSteadily ==
  ASSUME Linked, Related, LastSibling \/ Break,
         NEW who, NEW owner, NEW anc, NEW age, NEW on, Placed(who, owner, anc, age),
         Steadily(who, owner, anc, on)
  PROVE  Steadily(who, owner, anc, on)'
<1>1. /\ outcome = "running" /\ top.step \in AtChildren /\ Outside /\ Returns(0)
  BY DEF LastSibling, Break, At, AtChildren
<1>2. tree' = tree
  <2>1. CASE Break
    BY <2>1 DEF Break
  <2>2. CASE LastSibling
    <3>1. PICK c : c = child(top.i)
      OBVIOUS
    <3>2. c \in Ns /\ tree[c].next_sibling = 0
      <4>1. PICK m : m = top.node
        OBVIOUS
      <4>2. PICK i : i = top.i
        OBVIOUS
      <4>3. PICK n : n = n_children
        OBVIOUS
      <4>4. /\ i \in Nat /\ i < n
            /\ \A j \in Nat : j < n =>
                 child(j) \in Ns /\ (i <= j => tree[child(j)].next_sibling = 0)
        BY <1>1, <4>1, <4>2, <4>3, KnowsChildren
      <4> QED
        BY <3>1, <4>2, <4>4
    <3>3. tree \in Seq(Blocks) /\ tree[c] \in Blocks
      BY <3>2 DEF Linked, LinkTypes, Ns
    <3>4. [tree[c] EXCEPT !.next_sibling = 0] = tree[c]
      BY <3>2, <3>3 DEF Blocks
    <3>5. tree' = [tree EXCEPT ![c] = tree[c]]
      <4>1. tree' = [tree EXCEPT ![c].next_sibling = 0]
        BY <2>2, <3>1 DEF LastSibling
      <4>2. tree' = [tree EXCEPT ![c] = [tree[c] EXCEPT !.next_sibling = 0]]
        BY <4>1
      <4> QED
        BY <3>4, <4>2, Zenon
    <3> QED
      BY <3>3, <3>5
  <2> QED
    BY <2>1, <2>2
<1> QED
  BY <1>1, <1>2, ReturnsSteadily

(* The node is named: the first of the new nodes is reached, and they are all there. *)
LEMMA NameSteadily ==
  ASSUME Linked, Related, Name, ~ (Segv /\ tree' = tree),
         NEW who, NEW owner, NEW anc, NEW age, NEW on, Placed(who, owner, anc, age),
         Steadily(who, owner, anc, on), NEW l, l = Len(tree), NEW n, n = Len(top.children),
         NEW who2, NEW owner2, NEW anc2, Enrols(l, n, who, owner, anc, who2, owner2, anc2)
  PROVE  \E on2 : Steadily(who2, owner2, anc2, on2)'
<1>1. Allocated(l, n)
  BY NameAllocates
<1>2. PICK m : m = top.node
  OBVIOUS
<1>3. PICK p : p = top.pid
  OBVIOUS
<1>4. PICK cs : cs = top.children
  OBVIOUS
<1>5. /\ outcome = "running" /\ top.step = "name" /\ Outside
      /\ l \in Nat \ {0} /\ n \in Nat /\ Len(tree') = l + n /\ Ns = 1 .. l
      /\ m \in 1 .. l
      /\ tree'[m].pid = p /\ tree'[m].name = ~ top.cmd_err
      /\ tree'[m].child_procs = (IF n = 0 THEN 0 ELSE l + 1)
      /\ tree'[m].next_sibling = tree[m].next_sibling
      /\ \A c \in 1 .. l : c # m => tree'[c] = tree[c]
      /\ \A c \in l + 1 .. l + n : tree'[c] = blank
      /\ IF n = 0 THEN Returns(0)
         ELSE Becomes([top EXCEPT !.step = "child", !.child = l + 1, !.i = 0])
  <2>1. top.node = m /\ top.pid = p
    BY <1>2, <1>3, Zenon
  <2> QED
    BY <1>1, <2>1, Zenon DEF Allocated
<1>6. /\ status' = status /\ steady' = steady /\ born' = born /\ Ns' = 1 .. l + n
      /\ \A c \in l + 1 .. l + n : tree'[c].pid = 0 /\ tree'[c].next_sibling = 0
  BY <1>5 DEF Outside, kernel, Ns, blank
<1>7. /\ \A a \in 1 .. l : who2[a] = who[a] /\ owner2[a] = owner[a] /\ anc2[a] = anc[a]
      /\ \A a \in l + 1 .. l + n :
           who2[a] = cs[a - l] /\ owner2[a] = m /\ anc2[a] = anc[m] \cup {m}
  BY <1>2, <1>4 DEF Enrols
<1>8. \A a \in 1 .. l + n : a \in 1 .. l \/ a \in l + 1 .. l + n
  BY <1>5
<1>9. /\ top \in Calls /\ p \in Pids /\ cs \in Seq(Pids) /\ n = Len(cs) /\ DOMAIN cs = 1 .. n
      /\ AtWork(top, on) /\ stack # <<>> /\ Frame(top, who, owner, anc)
  <2>1. top \in Calls /\ top = stack[1] /\ 1 \in 1 .. Len(stack) /\ stack # <<>>
    BY <1>5, TopIs
  <2>2. p \in Pids /\ cs \in Seq(Pids)
    BY <1>3, <1>4, <2>1 DEF Calls
  <2>3. n = Len(cs) /\ DOMAIN cs = 1 .. n
    BY <1>4, <2>2
  <2> QED
    BY <2>1, <2>2, <2>3 DEF Steadily, Placed, Nested
<1>10. /\ m \in on /\ (top.cmd_err => p \notin steady) /\ tree[m].pid = 0 /\ who[m] = p
       /\ p # 0
  BY <1>2, <1>3, <1>5, <1>9 DEF AtWork, AtChildren, Frame, Pids
<1>11. tree[m].child_procs = 0
  BY <1>5, <1>10 DEF Placed, Labels
<1>12. p \in steady => Holding(p, cs)
  BY <1>3, <1>4, <1>5, <1>9 DEF Steadily, ReadAll, Named
<1>13. /\ 1 \in on /\ on \subseteq 1 .. l
       /\ \A b \in on \ {1} : \E a \in on : LeadsTo(a, b)
       /\ \A a \in 1 .. l \ on : tree[a].pid = 0 \/ who[a] \notin steady
  BY <1>5 DEF Steadily, Chained
<1>14. PICK on2 : on2 = IF n = 0 THEN on ELSE on \cup {l + 1}
  OBVIOUS
<1>15. on \subseteq on2 /\ (n # 0 => l + 1 \in on2) /\ on2 \subseteq on \cup {l + 1}
  BY <1>14
<1>16. Chained(who2, on2)'
  <2>1. 1 \in on2 /\ on2 \subseteq 1 .. l + n
    <3>1. \A c \in 1 .. l : c \in 1 .. l + n
      BY <1>5
    <3>2. n # 0 => l + 1 \in 1 .. l + n
      BY <1>5
    <3> QED
      BY <1>13, <1>14, <3>1, <3>2
  <2>2. ASSUME NEW b \in on2 \ {1} PROVE \E a \in on2 : LeadsTo(a, b)'
    <3>1. CASE b \in on
      <4>1. PICK a \in on : LeadsTo(a, b)
        BY <1>13, <2>2, <3>1
      <4>2. b # 0 /\ a \in 1 .. l
        BY <1>13, <3>1
      <4>3. LeadsTo(a, b)'
        BY <1>5, <1>11, <4>1, <4>2 DEF LeadsTo
      <4> QED
        BY <1>15, <4>1, <4>3
    <3>2. CASE b \notin on
      <4>1. n # 0 /\ b = l + 1
        BY <1>14, <2>2, <3>2
      <4>2. LeadsTo(m, b)'
        BY <1>5, <4>1 DEF LeadsTo
      <4> QED
        BY <1>10, <1>15, <4>2
    <3> QED
      BY <3>1, <3>2
  <2>3. ASSUME NEW a \in 1 .. l + n, a \notin on2 PROVE tree'[a].pid = 0 \/ who2[a] \notin steady
    <3>1. CASE a \in 1 .. l
      <4>1. a \notin on /\ a # m
        BY <1>10, <1>15, <2>3
      <4> QED
        BY <1>5, <1>7, <1>13, <3>1, <4>1
    <3>2. CASE a \in l + 1 .. l + n
      BY <1>6, <3>2
    <3> QED
      BY <1>8, <3>1, <3>2
  <2> QED
    BY <1>6, <2>1, <2>2, <2>3 DEF Chained
<1>17. Complete(who2)'
  <2>1. ASSUME NEW a \in 1 .. l + n, tree'[a].pid # 0, who2[a] \in steady
        PROVE  tree'[a].name = TRUE
    <3>1. CASE a = m
      <4>1. ~ top.cmd_err
        BY <1>5, <1>7, <1>10, <2>1, <3>1
      <4> QED
        BY <1>5, <3>1, <4>1
    <3>2. CASE a \in 1 .. l /\ a # m
      BY <1>5, <1>7, <2>1, <3>2 DEF Steadily, Complete
    <3>3. CASE a \in l + 1 .. l + n
      BY <1>6, <2>1, <3>3
    <3> QED
      BY <1>8, <3>1, <3>2, <3>3
  <2> QED
    BY <1>6, <2>1 DEF Complete
<1>18. Families(who2, owner2, anc2)'
  <2>1. ASSUME NEW a \in 1 .. l + n, tree'[a].pid # 0, who2[a] \in steady
        PROVE  \E c \in Nat : \E list \in Seq(Pids) :
                 Holding(who2[a], list)' /\ Array(a, c, list, who2, owner2, anc2)'
    <3>1. CASE a = m
      <4>1. who2[a] = p /\ anc2[a] = anc[m]
        BY <1>5, <1>7, <1>10, <3>1
      <4>2. Holding(p, cs)'
        BY <1>6, <1>12, <2>1, <4>1 DEF Holding
      <4>3. ASSUME NEW k \in 1 .. n
            PROVE  /\ l + k \in 1 .. l + n /\ who2[l + k] = cs[k]
                   /\ owner2[l + k] = m /\ anc2[l + k] = anc[m] \cup {m}
        <5>1. l + k \in l + 1 .. l + n /\ l + k \in 1 .. l + n /\ (l + k) - l = k
          BY <1>5
        <5> QED
          BY <1>7, <5>1
      <4>4. Array(a, l, cs, who2, owner2, anc2)'
        BY <1>6, <1>9, <3>1, <4>1, <4>3 DEF Array
      <4>5. Holding(who2[a], cs)'
        BY <4>1, <4>2
      <4> QED
        BY <1>5, <1>9, <4>4, <4>5
    <3>2. CASE a \in 1 .. l /\ a # m
      <4>1. tree[a].pid # 0 /\ who[a] \in steady /\ who2[a] = who[a] /\ anc2[a] = anc[a]
        BY <1>5, <1>7, <2>1, <3>2
      <4>2. PICK c \in Nat, list \in Seq(Pids) :
              Holding(who[a], list) /\ Array(a, c, list, who, owner, anc)
        BY <1>5, <3>2, <4>1 DEF Steadily, Families
      <4>3. ASSUME NEW k \in DOMAIN list
            PROVE  /\ c + k \in 1 .. l + n /\ who2[c + k] = list[k]
                   /\ owner2[c + k] = a /\ anc2[c + k] = anc[a] \cup {a}
        <5>1. PICK x : x = c + k
          OBVIOUS
        <5>2. x \in 1 .. l /\ who[x] = list[k] /\ owner[x] = a /\ anc[x] = anc[a] \cup {a}
          BY <1>5, <4>2, <5>1 DEF Array
        <5>3. x \in 1 .. l + n
          BY <1>5, <5>2
        <5> QED
          BY <1>7, <5>1, <5>2, <5>3
      <4>4. Array(a, c, list, who2, owner2, anc2)'
        BY <1>6, <4>1, <4>3 DEF Array
      <4>5. Holding(who[a], list)'
        BY <1>6, <4>2 DEF Holding
      <4>6. Holding(who2[a], list)'
        BY <4>1, <4>5
      <4> QED
        BY <4>2, <4>4, <4>6
    <3>3. CASE a \in l + 1 .. l + n
      BY <1>6, <2>1, <3>3
    <3> QED
      BY <1>8, <3>1, <3>2, <3>3
  <2> QED
    BY <1>6, <2>1 DEF Families
<1>19. \A k \in 2 .. Len(stack) : \A s : s = stack[k] => AtWork(s, on2)'
  <2>1. /\ Nested(who, owner, anc) /\ \A k \in 1 .. Len(stack) : AtWork(stack[k], on)
    BY DEF Placed, Steadily
  <2>2. \A x \in Ns : /\ tree'[x].next_sibling = tree[x].next_sibling \/ owner[x] = top.node
                      /\ tree'[x].pid = tree[x].pid \/ x = top.node
                      /\ x \in on => x \in on2 \/ (owner[x] = top.node /\ top.node < x)
    BY <1>2, <1>5, <1>15
  <2>3. \A x \in Ns : tree'[x].next_sibling = tree[x].next_sibling \/ owner[x] = top.node
    BY <2>2, Zenon
  <2>4. \A x \in Ns : tree'[x].pid = tree[x].pid \/ x = top.node
    BY <2>2, Zenon
  <2>5. \A x \in Ns : x \in on => x \in on2 \/ (owner[x] = top.node /\ top.node < x)
    BY <2>2, Zenon
  <2>6. outcome = "running" /\ Outside
    BY <1>5
  <2> QED
    BY <2>1, <2>3, <2>4, <2>5, <2>6, WaitersStay, Zenon
<1>20. (\A k \in 1 .. Len(stack') : AtWork(stack[k], on2)') /\ ReadAll'
  <2>1. CASE n = 0
    <3>1. Returns(0) /\ Nested(who, owner, anc)
      BY <1>5, <2>1 DEF Placed
    <3>2. (\A k \in 1 .. Len(stack') : AtWork(stack[k], on2)') /\ ~ Named'
      BY <1>5, <1>19, <3>1, WorkReturning
    <3> QED
      BY <3>2 DEF ReadAll
  <2>2. CASE n # 0
    <3>1. PICK a : a = [top EXCEPT !.step = "child", !.child = l + 1, !.i = 0]
      OBVIOUS
    <3>2. l + 1 \in Nat
      BY <1>5
    <3>3. /\ a \in Calls /\ a.node = m /\ a.pid = p /\ a.children = cs /\ a.cmd_err = top.cmd_err
          /\ a.child = l + 1 /\ a.i = 0 /\ a.step = "child" /\ Becomes(a)
      BY <1>2, <1>3, <1>4, <1>5, <1>9, <2>2, <3>1, <3>2 DEF Calls, Steps
    <3>4. ASSUME NEW j \in Nat, j < Len(a.children)
          PROVE  tree'[a.child + j].next_sibling = 0 /\ tree'[a.child + j].pid = 0
      <4>1. (l + 1) + j \in l + 1 .. l + n
        BY <1>5, <1>9, <3>3, <3>4
      <4> QED
        BY <1>6, <3>3, <4>1
    <3>5. a.child + a.i = l + 1
      BY <1>5, <3>3
    <3>6. m \in on2 /\ l + 1 \in on2 /\ tree'[m].child_procs = l + 1
      BY <1>5, <1>10, <1>15, <2>2
    <3>7. AtWork(a, on2)'
      BY <1>6, <1>10, <3>3, <3>4, <3>5, <3>6 DEF AtWork, AtChildren
    <3>8. (\A k \in 1 .. Len(stack') : AtWork(stack[k], on2)') /\ top' = a
      BY <1>5, <1>19, <3>3, <3>7, WorkBecoming
    <3>9. ReadAll'
      BY <3>3, <3>8 DEF ReadAll, Named
    <3> QED
      BY <3>8, <3>9
  <2> QED
    BY <2>1, <2>2
<1>21. Steadily(who2, owner2, anc2, on2)'
  BY <1>16, <1>17, <1>18, <1>20 DEF Steadily
<1> QED
  BY <1>21

(* Whatever step it is, there is a process for every node, and what is known of those
   that run all the time stays true. *)
LEMMA GenerateSteadily ==
  ASSUME Linked, Related, Kept, generate_ptree,
         NEW who, NEW owner, NEW anc, NEW age, NEW on, Placed(who, owner, anc, age),
         Steadily(who, owner, anc, on)
  PROVE  \E who2, owner2, anc2, on2 :
           Placed(who2, owner2, anc2, age)' /\ Steadily(who2, owner2, anc2, on2)'
<1>1. CASE Name /\ ~ (Segv /\ tree' = tree)
  <2>1. PICK l : l = Len(tree)
    OBVIOUS
  <2>2. PICK n : n = Len(top.children)
    OBVIOUS
  <2>3. PICK who2, owner2, anc2 :
          Placed(who2, owner2, anc2, age)' /\ Enrols(l, n, who, owner, anc, who2, owner2, anc2)
    BY <1>1, <2>1, <2>2, NamePlaced
  <2>4. \E on2 : Steadily(who2, owner2, anc2, on2)'
    BY <1>1, <2>1, <2>2, <2>3, NameSteadily
  <2> QED
    BY <2>3, <2>4
<1>2. CASE ~ Name \/ (Segv /\ tree' = tree)
  <2>1. Placed(who, owner, anc, age)'
    BY <1>2, GeneratePlaced
  <2>2. CASE Name
    <3>1. Segv /\ tree' = tree /\ Outside
      BY <1>2, <2>2 DEF Name
    <3>2. Steadily(who, owner, anc, on)'
      BY <3>1, SteadilyEnds DEF Segv, Outside
    <3> QED
      BY <2>1, <3>2
  <2>3. CASE ~ Name
    <3>1. CASE StatProcess \/ StatCmdline \/ StatChildren \/ OpenChildren \/ ReadChildren
      BY <2>1, <3>1, EarlySteadily
    <3>2. CASE Visit
      BY <2>1, <3>2, VisitSteadily
    <3>3. CASE LinkOver
      BY <2>1, <3>3, LinkOverSteadily
    <3>4. CASE LinkSibling
      BY <2>1, <3>4, LinkSiblingSteadily
    <3>5. CASE LastSibling \/ Break
      BY <2>1, <3>5, LastSteadily
    <3> QED
      BY <2>3, <3>1, <3>2, <3>3, <3>4, <3>5 DEF generate_ptree
  <2> QED
    BY <2>2, <2>3
<1> QED
  BY <1>1, <1>2

--------------------------------------------------------------------------------
(* What print_ptree prints. *)

Rows == [pid : {0} \cup Pids, name : BOOLEAN, depth : Nat]

Row(a, depth) == [pid |-> tree[a].pid, name |-> tree[a].name, depth |-> depth]

(* What is printed for a node, given what is printed for its two links. *)
FromNode(a, limit, below, beside) ==
  [depth \in Nat |->
     IF a = 0 THEN <<>>
     ELSE <<[pid |-> tree[a].pid, name |-> tree[a].name, depth |-> depth]>>
          \o (IF limit = 0 \/ limit > depth + 1 THEN below[depth + 1] ELSE <<>>)
          \o (IF limit >= 0 THEN beside[depth] ELSE <<>>)]

FromNodes(f, limit) ==
  [a \in 0 .. Len(tree) |->
     FromNode(a, limit, f[tree[a].child_procs], f[tree[a].next_sibling])]

(* The recursion has a solution, because no pointer leads back: it is built from the
   last node to the first. *)
LEMMA Recursion ==
  ASSUME Linked, NEW limit
  PROVE  \E f : f = FromNodes(f, limit)
<1>1. PICK n : n = Len(tree)
  OBVIOUS
<1>2. n \in Nat /\ DOMAIN tree = 1 .. n
  BY <1>1 DEF Linked, LinkTypes
<1> DEFINE From(f, a) == FromNode(a, limit, f[tree[a].child_procs], f[tree[a].next_sibling])
           Solved(m) == \E f : f = [a \in 0 .. n |-> f[a]]
                               /\ \A a \in 0 .. n : a = 0 \/ m <= a => f[a] = From(f, a)
           S == {m \in 0 .. n + 1 : Solved(m)}
<1>3. \A f, h : From(f, 0) = From(h, 0)
  BY DEF FromNode
<1>4. S # {}
  <2>1. PICK f : f = [a \in 0 .. n |-> From(<<>>, 0)]
    OBVIOUS
  <2>2. f = [a \in 0 .. n |-> f[a]]
    BY <2>1, Zenon
  <2>3. f[0] = From(f, 0)
    <3>1. 0 \in 0 .. n
      BY <1>2
    <3>2. f[0] = From(<<>>, 0)
      BY <2>1, <3>1, Zenon
    <3> QED
      BY <1>3, <3>2, Zenon
  <2>4. \A a \in 0 .. n : a = 0 \/ n + 1 <= a => a = 0
    BY <1>2
  <2>5. Solved(n + 1)
    BY <2>2, <2>3, <2>4, Zenon
  <2>6. n + 1 \in 0 .. n + 1
    BY <1>2
  <2> QED
    BY <2>5, <2>6, Zenon
<1>5. PICK m \in S : \A k \in S : m <= k
  <2>1. S \in SUBSET Nat
    BY <1>2
  <2> QED
    BY <1>4, <2>1, HasLeast, Zenon
<1>6. Solved(m) /\ m \in 0 .. n + 1
  BY <1>5, Zenon
<1>7. PICK f : /\ f = [a \in 0 .. n |-> f[a]]
               /\ \A a \in 0 .. n : a = 0 \/ m <= a => f[a] = From(f, a)
  BY <1>6, Zenon
<1>8. m <= 1
  <2>1. SUFFICES ASSUME ~ (m <= 1) PROVE FALSE
    OBVIOUS
  <2>2. PICK l : l = m - 1
    OBVIOUS
  <2>3. l \in 1 .. n /\ l \in 0 .. n + 1 /\ l \in 0 .. n /\ ~ (m <= l) /\ l # 0
        /\ \A a \in 0 .. n : a = 0 \/ l <= a => a = l \/ ((a = 0 \/ m <= a) /\ a # l)
    BY <1>2, <1>6, <2>1, <2>2
  <2>4. PICK g : g = [a \in 0 .. n |-> IF a = l THEN From(f, l) ELSE f[a]]
    OBVIOUS
  <2>5. /\ \A a \in 0 .. n : g[a] = IF a = l THEN From(f, l) ELSE f[a]
        /\ g = [a \in 0 .. n |-> g[a]]
    BY <2>4, Zenon
  <2>6. ASSUME NEW a \in 0 .. n, a # 0, l <= a PROVE From(g, a) = From(f, a)
    <3>1. a \in 1 .. n
      BY <1>2, <2>6
    <3>2. /\ tree[a].child_procs \in {0} \cup (a + 1 .. n)
          /\ tree[a].next_sibling \in {0} \cup (a + 1 .. n)
      BY <1>1, <1>2, <3>1 DEF Linked, LinksGoForward
    <3>3. \A b \in {0} \cup (a + 1 .. n) : b \in 0 .. n /\ b # l
      BY <1>2, <2>3, <2>6
    <3>4. g[tree[a].child_procs] = f[tree[a].child_procs]
          /\ g[tree[a].next_sibling] = f[tree[a].next_sibling]
      BY <2>5, <3>2, <3>3, Zenon
    <3> QED
      BY <3>4, Zenon
  <2>7. ASSUME NEW a \in 0 .. n, a = 0 \/ l <= a PROVE g[a] = From(g, a)
    <3>1. CASE a = 0
      <4>1. g[0] = f[0]
        BY <2>3, <2>5, <2>7, <3>1, Zenon
      <4>2. f[0] = From(f, 0)
        BY <1>7, <2>7, <3>1, Zenon
      <4>3. From(f, 0) = From(g, 0)
        BY <1>3, Zenon
      <4>4. g[0] = From(g, 0)
        BY <4>1, <4>2, <4>3, Zenon
      <4> QED
        BY <3>1, <4>4, Zenon
    <3>2. CASE a = l
      <4>1. g[l] = From(f, l)
        BY <2>3, <2>5, Zenon
      <4>2. From(g, l) = From(f, l)
        BY <2>3, <2>6, <2>7, <3>2, Zenon
      <4>3. g[l] = From(g, l)
        BY <4>1, <4>2, Zenon
      <4> QED
        BY <3>2, <4>3, Zenon
    <3>3. CASE a # 0 /\ a # l
      <4>1. m <= a /\ l <= a
        BY <2>3, <2>7, <3>3
      <4>2. g[a] = f[a] /\ f[a] = From(f, a)
        BY <1>7, <2>5, <3>3, <4>1, Zenon
      <4>3. From(g, a) = From(f, a)
        BY <2>6, <3>3, <4>1, Zenon
      <4> QED
        BY <4>2, <4>3, Zenon
    <3> QED
      BY <3>1, <3>2, <3>3, Zenon
  <2>8. Solved(l)
    BY <2>5, <2>7, Zenon
  <2>9. l \in S
    BY <2>3, <2>8, Zenon
  <2>10. m <= l
    BY <1>5, <2>9, Zenon
  <2> QED
    BY <2>3, <2>10, Zenon
<1>9. \A a \in 0 .. n : a = 0 \/ m <= a
  BY <1>2, <1>6, <1>8
<1>10. \A a \in 0 .. n : f[a] = From(f, a)
  BY <1>7, <1>9, Zenon
<1>11. f = [a \in 0 .. n |-> From(f, a)]
  BY <1>7, <1>10, Zenon
<1>12. f = FromNodes(f, limit)
  BY <1>1, <1>11, Zenon DEF FromNodes
<1> QED
  BY <1>12, Zenon

(* What print_ptree prints is such a solution, at the root. *)
LEMMA PrintedIs ==
  ASSUME Linked, NEW limit
  PROVE  \E f : f = FromNodes(f, limit) /\ Printed(limit) = f[1][0]
<1> DEFINE g == CHOOSE f : f = FromNodes(f, limit)
<1>1. g = FromNodes(g, limit)
  BY Recursion, Zenon
<1>2. Printed(limit) = g[1][0]
  BY Zenon DEF Printed, FromNodes, FromNode
<1> HIDE DEF g
<1> QED
  BY <1>1, <1>2

(* Nothing for no node. *)
LEMMA NothingPrinted ==
  ASSUME NEW limit, NEW f, f = FromNodes(f, limit), Len(tree) \in Nat, NEW d \in Nat
  PROVE  f[0][d] = <<>>
<1>1. 0 \in 0 .. Len(tree)
  OBVIOUS
<1>2. f[0] = FromNode(0, limit, f[tree[0].child_procs], f[tree[0].next_sibling])
  <2>1. f[0] = FromNodes(f, limit)[0]
    BY Zenon
  <2> QED
    BY <1>1, <2>1, Zenon DEF FromNodes
<1> QED
  BY <1>2, Zenon DEF FromNode

(* The limit leaves room below depth d. *)
Deeper(limit, d) == limit = 0 \/ limit > d + 1

(* One line, those of the children and those of the younger siblings. *)
InParts(f, limit, a, d) ==
  \E below, beside :
    /\ f[a][d] = <<Row(a, d)>> \o below \o beside
    /\ IF Deeper(limit, d) THEN below = f[tree[a].child_procs][d + 1] ELSE below = <<>>
    /\ IF limit >= 0 THEN beside = f[tree[a].next_sibling][d] ELSE beside = <<>>

(* What is printed for a node: its line, then its children's, then its siblings'. *)
LEMMA PrintedLines ==
  ASSUME NEW limit, NEW f, f = FromNodes(f, limit), NEW a \in 0 .. Len(tree), a # 0,
         NEW d \in Nat
  PROVE  InParts(f, limit, a, d)
<1>1. f[a] = FromNode(a, limit, f[tree[a].child_procs], f[tree[a].next_sibling])
  <2>1. f[a] = FromNodes(f, limit)[a]
    BY Zenon
  <2> QED
    BY <2>1, Zenon DEF FromNodes
<1>2. f[a][d] = <<Row(a, d)>>
                \o (IF limit = 0 \/ limit > d + 1 THEN f[tree[a].child_procs][d + 1] ELSE <<>>)
                \o (IF limit >= 0 THEN f[tree[a].next_sibling][d] ELSE <<>>)
  BY <1>1, Zenon DEF FromNode, Row
<1>3. PICK below : below = IF limit = 0 \/ limit > d + 1 THEN f[tree[a].child_procs][d + 1] ELSE <<>>
  OBVIOUS
<1>4. PICK beside : beside = IF limit >= 0 THEN f[tree[a].next_sibling][d] ELSE <<>>
  OBVIOUS
<1>5. f[a][d] = <<Row(a, d)>> \o below \o beside
  BY <1>2, <1>3, <1>4, Zenon
<1>6. IF Deeper(limit, d) THEN below = f[tree[a].child_procs][d + 1] ELSE below = <<>>
  BY <1>3, Zenon DEF Deeper
<1>7. IF limit >= 0 THEN beside = f[tree[a].next_sibling][d] ELSE beside = <<>>
  BY <1>4, Zenon
<1> QED
  BY <1>5, <1>6, <1>7, Zenon DEF InParts

--------------------------------------------------------------------------------
(* Line l of a list is that of the parent of line k. *)
HangsOn(L, at, l, k, owner) ==
  /\ L[l].depth = L[k].depth - 1
  /\ owner[at[k]] = at[l]
  /\ tree[at[l]].child_procs # 0
  /\ \A m \in l + 1 .. k - 1 : L[k].depth <= L[m].depth

(* L is printed for node a and for all that it leads to, at depth d; line k is that of
   node at[k]. *)
Shown(L, at, a, d, owner, anc) ==
  /\ L \in Seq(Rows) /\ at \in [1 .. Len(L) -> Ns]
  /\ \A k, l \in 1 .. Len(L) : at[k] = at[l] => k = l
  /\ L # <<>> => at[1] = a
  /\ \A k \in 1 .. Len(L) :
       /\ L[k].pid = tree[at[k]].pid /\ a <= at[k] /\ d <= L[k].depth
       /\ anc[a] \subseteq anc[at[k]]
       /\ \A x \in anc[at[k]] : x \in anc[a] \/ a <= x
       /\ L[k].depth = d => owner[at[k]] = owner[a]
       /\ d < L[k].depth => \E l \in 1 .. k - 1 : HangsOn(L, at, l, k, owner)

(* Whatever the node of line k leads to is printed: the first child in the next line, and
   the next sibling behind all that is deeper. *)
LeadsOn(L, at, k, limit) ==
  /\ L[k].name = tree[at[k]].name
  /\ tree[at[k]].child_procs # 0 /\ Deeper(limit, L[k].depth) =>
       /\ k + 1 \in 1 .. Len(L) /\ at[k + 1] = tree[at[k]].child_procs
       /\ L[k + 1].depth = L[k].depth + 1
  /\ tree[at[k]].next_sibling # 0 /\ limit >= 0 =>
       \E l \in k + 1 .. Len(L) :
         /\ at[l] = tree[at[k]].next_sibling /\ L[l].depth = L[k].depth
         /\ \A m \in k + 1 .. l - 1 : L[k].depth < L[m].depth

(* ... and siblings stand in their order. *)
Led(L, at, d, limit, anc) ==
  /\ L # <<>> => L[1].depth = d
  /\ \A k \in 1 .. Len(L) : LeadsOn(L, at, k, limit)
  /\ \A k, l \in 1 .. Len(L) : k < l /\ anc[at[k]] = anc[at[l]] => at[k] < at[l]

(* What is known of a single line. *)
LEMMA ShownLine ==
  ASSUME NEW L, NEW at, NEW a, NEW d \in Nat, NEW owner, NEW anc,
         Shown(L, at, a, d, owner, anc), NEW k \in 1 .. Len(L)
  PROVE  /\ L[k] \in Rows /\ L[k].depth \in Nat /\ at[k] \in Ns /\ at[k] \in Nat
         /\ L[k].pid = tree[at[k]].pid /\ a <= at[k] /\ d <= L[k].depth
         /\ anc[a] \subseteq anc[at[k]]
         /\ \A x \in anc[at[k]] : x \in anc[a] \/ a <= x
         /\ L[k].depth = d => owner[at[k]] = owner[a]
<1>1. L[k] \in Rows /\ at[k] \in Ns
  BY DEF Shown
<1>2. L[k].depth \in Nat /\ at[k] \in Nat
  BY <1>1 DEF Rows, Ns
<1> QED
  BY <1>1, <1>2 DEF Shown

(* What stands where when a line and two lists are joined. *)
ThreeParts(L, r, C, S, p, q) ==
  /\ p \in Nat /\ q \in Nat /\ Len(L) = 1 + p + q /\ L[1] = r
  /\ \A i \in 1 .. p : L[1 + i] = C[i]
  /\ \A i \in 1 .. q : L[1 + p + i] = S[i]

LEMMA PartsJoined ==
  ASSUME NEW T, NEW r \in T, NEW C \in Seq(T), NEW S \in Seq(T)
  PROVE  <<r>> \o C \o S \in Seq(T) /\ ThreeParts(<<r>> \o C \o S, r, C, S, Len(C), Len(S))
<1> SUFFICES ASSUME NEW p, p = Len(C), NEW q, q = Len(S), NEW L, L = <<r>> \o C \o S
             PROVE  L \in Seq(T) /\ ThreeParts(L, r, C, S, p, q)
  BY Zenon
<1>1. p \in Nat /\ q \in Nat
  OBVIOUS
<1>2. PICK one : one = <<r>>
  OBVIOUS
<1>3. one \in Seq(T) /\ Len(one) = 1 /\ one[1] = r
  BY <1>2
<1>4. PICK two : two = one \o C
  OBVIOUS
<1>5. /\ two \in Seq(T) /\ Len(two) = 1 + p
      /\ \A i \in 1 .. 1 + p : two[i] = IF i <= 1 THEN one[i] ELSE C[i - 1]
  <2>1. /\ one \o C \in Seq(T) /\ Len(one \o C) = Len(one) + Len(C)
        /\ \A i \in 1 .. Len(one) + Len(C) :
             (one \o C)[i] = IF i <= Len(one) THEN one[i] ELSE C[i - Len(one)]
    BY <1>3, ConcatProperties
  <2>2. Len(one) = 1 /\ Len(C) = p
    BY <1>3
  <2> QED
    BY <1>4, <2>1, <2>2, Zenon
<1>6. L = two \o S
  BY <1>2, <1>4
<1>7. /\ L \in Seq(T) /\ Len(L) = 1 + p + q
      /\ \A i \in 1 .. 1 + p + q : L[i] = IF i <= 1 + p THEN two[i] ELSE S[i - (1 + p)]
  <2>1. /\ two \o S \in Seq(T) /\ Len(two \o S) = Len(two) + Len(S)
        /\ \A i \in 1 .. Len(two) + Len(S) :
             (two \o S)[i] = IF i <= Len(two) THEN two[i] ELSE S[i - Len(two)]
    BY <1>5, ConcatProperties
  <2> QED
    BY <1>1, <1>5, <1>6, <2>1
<1>8. L[1] = r
  BY <1>1, <1>3, <1>5, <1>7
<1>9. ASSUME NEW i \in 1 .. p PROVE L[1 + i] = C[i]
  <2>1. 1 + i \in 1 .. 1 + p + q /\ 1 + i <= 1 + p /\ 1 + i \in 1 .. 1 + p /\ ~ (1 + i <= 1)
        /\ (1 + i) - 1 = i
    BY <1>1
  <2> QED
    BY <1>5, <1>7, <2>1
<1>10. ASSUME NEW i \in 1 .. q PROVE L[1 + p + i] = S[i]
  <2>1. /\ 1 + p + i \in 1 .. 1 + p + q /\ ~ (1 + p + i <= 1 + p)
        /\ (1 + p + i) - (1 + p) = i
    BY <1>1
  <2> QED
    BY <1>7, <2>1
<1> QED
  BY <1>1, <1>7, <1>8, <1>9, <1>10, Zenon DEF ThreeParts

(* A part of a list hangs together wherever it stands. *)
LEMMA HangsShifted ==
  ASSUME NEW L, NEW at, NEW M, NEW to, NEW owner, NEW p \in Nat, NEW z \in Nat,
         \A i \in 1 .. p : L[z + i] = M[i] /\ at[z + i] = to[i],
         NEW k \in 1 .. p, NEW l \in 1 .. k - 1, HangsOn(M, to, l, k, owner)
  PROVE  HangsOn(L, at, z + l, z + k, owner)
<1>1. l \in 1 .. p
  OBVIOUS
<1>2. L[z + l] = M[l] /\ at[z + l] = to[l] /\ L[z + k] = M[k] /\ at[z + k] = to[k]
  BY <1>1
<1>3. ASSUME NEW m \in (z + l) + 1 .. (z + k) - 1 PROVE M[k].depth <= L[m].depth
  <2>1. PICK j : j = m - z
    OBVIOUS
  <2>2. j \in l + 1 .. k - 1 /\ j \in 1 .. p /\ z + j = m
    BY <2>1
  <2>3. L[m] = M[j]
    BY <2>2
  <2> QED
    BY <2>2, <2>3 DEF HangsOn
<1> QED
  BY <1>2, <1>3 DEF HangsOn

(* The nodes of the lines, when they are joined; and where the line at a place comes
   from. *)
Places(p, q, a, at2, at3) ==
  [k \in 1 .. 1 + p + q |->
     IF k = 1 THEN a ELSE IF k <= 1 + p THEN at2[k - 1] ELSE at3[k - (1 + p)]]

AtPlaces(at, p, q, a, at2, at3) ==
  /\ at[1] = a
  /\ \A i \in 1 .. p : at[1 + i] = at2[i]
  /\ \A i \in 1 .. q : at[1 + p + i] = at3[i]
  /\ \A k \in 1 .. 1 + p + q :
       k = 1 \/ (\E i \in 1 .. p : k = 1 + i) \/ (\E i \in 1 .. q : k = 1 + p + i)

(* Where the three parts of what is printed lie. *)
LEMMA PlacesAre ==
  ASSUME NEW p \in Nat, NEW q \in Nat, NEW a, NEW at2, NEW at3
  PROVE  AtPlaces(Places(p, q, a, at2, at3), p, q, a, at2, at3)
<1>3. PICK at : at = Places(p, q, a, at2, at3)
  OBVIOUS
<1>4. at = [k \in 1 .. 1 + p + q |->
             IF k = 1 THEN a ELSE IF k <= 1 + p THEN at2[k - 1] ELSE at3[k - (1 + p)]]
  BY <1>3 DEF Places
<1>5. p \in Nat /\ q \in Nat
  OBVIOUS
<1>6. at[1] = a
  <2>1. 1 \in 1 .. 1 + p + q
    BY <1>5
  <2> QED
    BY <1>4, <2>1
<1>7. \A i \in 1 .. p : at[1 + i] = at2[i]
  <2>1. ASSUME NEW i \in 1 .. p PROVE at[1 + i] = at2[i]
    <3>1. 1 + i \in 1 .. 1 + p + q /\ 1 + i # 1 /\ 1 + i <= 1 + p /\ (1 + i) - 1 = i
      BY <1>5
    <3> QED
      BY <1>4, <3>1
  <2> QED
    BY <2>1
<1>8. \A i \in 1 .. q : at[1 + p + i] = at3[i]
  <2>1. ASSUME NEW i \in 1 .. q PROVE at[1 + p + i] = at3[i]
    <3>1. /\ 1 + p + i \in 1 .. 1 + p + q /\ 1 + p + i # 1 /\ ~ (1 + p + i <= 1 + p)
          /\ (1 + p + i) - (1 + p) = i
      BY <1>5
    <3> QED
      BY <1>4, <3>1
  <2> QED
    BY <2>1
<1>9. ASSUME NEW k \in 1 .. 1 + p + q
      PROVE  k = 1 \/ (\E i \in 1 .. p : k = 1 + i) \/ (\E i \in 1 .. q : k = 1 + p + i)
  <2>1. k = 1 \/ k - 1 \in 1 .. p \/ k - (1 + p) \in 1 .. q
    BY <1>5
  <2>2. k = 1 + (k - 1) /\ k = 1 + p + (k - (1 + p))
    BY <1>5
  <2> QED
    BY <2>1, <2>2
<1>10. AtPlaces(at, p, q, a, at2, at3)
  BY <1>6, <1>7, <1>8, <1>9, Zenon DEF AtPlaces
<1> QED
  BY <1>3, <1>10, Zenon

(* The line of a node, those of its children and those of its siblings behind it: none
   is missing that the node leads to. *)
Joining(L, at, a, d, limit, owner, anc, C, at2, S, at3) ==
  /\ Pointers(owner, anc) /\ a \in Ns /\ d \in Nat /\ Row(a, d) \in Rows
  /\ Shown(C, at2, tree[a].child_procs, d + 1, owner, anc)
  /\ Led(C, at2, d + 1, limit, anc)
  /\ C # <<>> => tree[a].child_procs # 0
  /\ tree[a].child_procs # 0 /\ Deeper(limit, d) => C # <<>>
  /\ Shown(S, at3, tree[a].next_sibling, d, owner, anc)
  /\ Led(S, at3, d, limit, anc)
  /\ S # <<>> => tree[a].next_sibling # 0
  /\ tree[a].next_sibling # 0 /\ limit >= 0 => S # <<>>
  /\ L = <<Row(a, d)>> \o C \o S /\ at = Places(Len(C), Len(S), a, at2, at3)

(* The children's lines and the siblings' follow the line of a node; they share none. *)
LEMMA Joined ==
  ASSUME Linked, NEW owner, NEW anc, NEW a, NEW d, NEW limit, NEW C, NEW at2, NEW S, NEW at3,
         NEW L, NEW at, Joining(L, at, a, d, limit, owner, anc, C, at2, S, at3)
  PROVE  Shown(L, at, a, d, owner, anc)
<1> SUFFICES ASSUME Pointers(owner, anc), a \in Ns, d \in Nat, Row(a, d) \in Rows,
                    NEW c, c = tree[a].child_procs,
                    Shown(C, at2, c, d + 1, owner, anc), C # <<>> => c # 0,
                    NEW s, s = tree[a].next_sibling,
                    Shown(S, at3, s, d, owner, anc), S # <<>> => s # 0,
                    L = <<Row(a, d)>> \o C \o S, at = Places(Len(C), Len(S), a, at2, at3)
             PROVE  Shown(L, at, a, d, owner, anc)
  BY Zenon DEF Joining
<1>1. PICK p : p = Len(C)
  OBVIOUS
<1>2. PICK q : q = Len(S)
  OBVIOUS
<1>5. /\ p \in Nat /\ q \in Nat /\ L \in Seq(Rows) /\ Len(L) = 1 + p + q /\ L[1] = Row(a, d)
      /\ \A i \in 1 .. p : L[1 + i] = C[i]
      /\ \A i \in 1 .. q : L[1 + p + i] = S[i]
  <2>1. C \in Seq(Rows) /\ S \in Seq(Rows)
    BY DEF Shown
  <2>2. /\ <<Row(a, d)>> \o C \o S \in Seq(Rows)
        /\ ThreeParts(<<Row(a, d)>> \o C \o S, Row(a, d), C, S, Len(C), Len(S))
    BY <2>1, PartsJoined, Zenon
  <2>3. L \in Seq(Rows) /\ ThreeParts(L, Row(a, d), C, S, p, q)
    BY <1>1, <1>2, <2>2, Zenon
  <2> QED
    BY <2>3, Zenon DEF ThreeParts
<1>4. at = Places(p, q, a, at2, at3)
  BY <1>1, <1>2
<1>3. AtPlaces(at, p, q, a, at2, at3)
  <2>1. p \in Nat /\ q \in Nat
    BY <1>5, Zenon
  <2>2. AtPlaces(Places(p, q, a, at2, at3), p, q, a, at2, at3)
    BY <2>1, PlacesAre, Zenon
  <2> QED
    BY <1>4, <2>2, Zenon
<1>6. at[1] = a
  BY <1>3, Zenon DEF AtPlaces
<1>7. \A i \in 1 .. p : at[1 + i] = at2[i]
  BY <1>3, Zenon DEF AtPlaces
<1>8. \A i \in 1 .. q : at[1 + p + i] = at3[i]
  BY <1>3, Zenon DEF AtPlaces
(* Every line is that of the node, one of the children's or one of the siblings'. *)
<1>9. \A k \in 1 .. 1 + p + q :
        k = 1 \/ (\E i \in 1 .. p : k = 1 + i) \/ (\E i \in 1 .. q : k = 1 + p + i)
  BY <1>3, Zenon DEF AtPlaces
<1>10. /\ a \in Nat /\ Ns = 1 .. Len(tree) /\ Len(tree) \in Nat
       /\ c \in {0} \cup (a + 1 .. Len(tree)) /\ s \in {0} \cup (a + 1 .. Len(tree))
       /\ anc[a] \in SUBSET Nat /\ a \notin anc[a]
  <2>1. a \in Nat /\ Ns = 1 .. Len(tree) /\ Len(tree) \in Nat
    BY DEF Ns, Linked, LinkTypes
  <2>2. c \in {0} \cup (a + 1 .. Len(tree)) /\ s \in {0} \cup (a + 1 .. Len(tree))
    BY DEF Linked, LinkTypes, LinksGoForward, Ns
  <2>3. anc[a] \in SUBSET Nat /\ \A x \in anc[a] : x < a
    BY DEF Pointers
  <2> QED
    BY <2>1, <2>2, <2>3
<1>11. ASSUME NEW i \in 1 .. p
       PROVE  /\ c # 0 /\ c \in Nat /\ a < c /\ owner[c] = a /\ anc[c] = anc[a] \cup {a}
              /\ at2[i] \in Ns /\ c <= at2[i] /\ a < at2[i]
              /\ anc[c] \subseteq anc[at2[i]] /\ a \in anc[at2[i]]
              /\ C[i].pid = tree[at2[i]].pid
              /\ C[i].depth \in Nat /\ d + 1 <= C[i].depth
  <2>1. C # <<>> /\ C \in Seq(Rows)
    BY <1>1 DEF Shown
  <2>2. c # 0 /\ c \in Nat /\ a < c
    BY <1>10, <2>1
  <2>3. owner[c] = a /\ anc[c] = anc[a] \cup {a}
    BY <2>2 DEF Pointers
  <2>4. /\ at2[i] \in Ns /\ c <= at2[i] /\ anc[c] \subseteq anc[at2[i]]
        /\ C[i].pid = tree[at2[i]].pid /\ d + 1 <= C[i].depth
    BY <1>1 DEF Shown
  <2>5. C[i] \in Rows
    BY <1>1, <2>1
  <2>6. a < at2[i]
    <3>1. a \in Nat /\ at2[i] \in Nat
      BY <1>10, <2>4 DEF Ns
    <3> QED
      BY <2>2, <2>4, <3>1
  <2> QED
    BY <2>2, <2>3, <2>4, <2>5, <2>6 DEF Rows
<1>12. ASSUME NEW i \in 1 .. q
       PROVE  /\ s # 0 /\ s \in Nat /\ a < s /\ owner[s] = owner[a] /\ anc[s] = anc[a]
              /\ at3[i] \in Ns /\ s <= at3[i] /\ a < at3[i]
              /\ anc[s] \subseteq anc[at3[i]] /\ a \notin anc[at3[i]]
              /\ S[i].pid = tree[at3[i]].pid
              /\ S[i].depth \in Nat /\ d <= S[i].depth
  <2>1. S # <<>> /\ S \in Seq(Rows)
    BY <1>2 DEF Shown
  <2>2. s # 0 /\ s \in Nat /\ a < s
    BY <1>10, <2>1
  <2>3. owner[s] = owner[a] /\ anc[s] = anc[a]
    BY <2>2 DEF Pointers
  <2>4. /\ at3[i] \in Ns /\ s <= at3[i] /\ anc[s] \subseteq anc[at3[i]]
        /\ S[i].pid = tree[at3[i]].pid /\ d <= S[i].depth
        /\ \A x \in anc[at3[i]] : x \in anc[s] \/ s <= x
    BY <1>2 DEF Shown
  <2>5. S[i] \in Rows
    BY <1>2, <2>1
  <2>6. a < at3[i]
    <3>1. a \in Nat /\ at3[i] \in Nat
      BY <1>10, <2>4 DEF Ns
    <3> QED
      BY <2>2, <2>4, <3>1
  <2>7. a \notin anc[at3[i]]
    <3>1. a \in Nat /\ a \notin anc[s]
      BY <1>10, <2>3
    <3>2. ~ (s <= a)
      BY <2>2, <3>1
    <3> QED
      BY <2>4, <3>1, <3>2
  <2> QED
    BY <2>2, <2>3, <2>4, <2>5, <2>6, <2>7 DEF Rows
<1>13. at \in [1 .. 1 + p + q -> Ns]
  <2>1. ASSUME NEW k \in 1 .. 1 + p + q PROVE at[k] \in Ns
    <3>1. CASE k = 1
      BY <1>6, <3>1
    <3>2. CASE \E i \in 1 .. p : k = 1 + i
      BY <1>7, <1>11, <3>2
    <3>3. CASE \E i \in 1 .. q : k = 1 + p + i
      BY <1>8, <1>12, <3>3
    <3> QED
      BY <1>9, <3>1, <3>2, <3>3
  <2>2. at = [k \in 1 .. 1 + p + q |-> at[k]]
    BY <1>4 DEF Places
  <2> QED
    BY <2>1, <2>2
<1>14. ASSUME NEW k \in 1 .. 1 + p + q, NEW l \in 1 .. 1 + p + q, at[k] = at[l] PROVE k = l
  (* Where the line at a place comes from can be told from its node. *)
  <2>1. ASSUME NEW j \in 1 .. 1 + p + q
        PROVE  /\ j = 1 <=> at[j] = a
               /\ (\E i \in 1 .. p : j = 1 + i) => a \in anc[at[j]] /\ at[j] # a
               /\ (\E i \in 1 .. q : j = 1 + p + i) => a \notin anc[at[j]] /\ at[j] # a
    <3>1. ASSUME NEW i \in 1 .. p, j = 1 + i PROVE a \in anc[at[j]] /\ at[j] # a
      <4>1. at[j] = at2[i]
        BY <1>7, <3>1
      <4> QED
        BY <1>10, <1>11, <4>1
    <3>2. ASSUME NEW i \in 1 .. q, j = 1 + p + i PROVE a \notin anc[at[j]] /\ at[j] # a
      <4>1. at[j] = at3[i]
        BY <1>8, <3>2
      <4> QED
        BY <1>10, <1>12, <4>1
    <3> QED
      BY <1>6, <1>9, <3>1, <3>2
  <2>2. CASE k = 1
    BY <1>14, <2>1, <2>2
  <2>3. CASE \E i \in 1 .. p : k = 1 + i
    <3>1. PICK i \in 1 .. p : k = 1 + i
      BY <2>3
    <3>2. a \in anc[at[l]] /\ at[l] # a
      BY <1>14, <2>1, <2>3
    <3>3. PICK j \in 1 .. p : l = 1 + j
      BY <1>9, <2>1, <3>2
    <3>4. at2[i] = at2[j]
      BY <1>7, <1>14, <3>1, <3>3
    <3>5. i = j
      BY <1>1, <3>4 DEF Shown
    <3> QED
      BY <3>1, <3>3, <3>5
  <2>4. CASE \E i \in 1 .. q : k = 1 + p + i
    <3>1. PICK i \in 1 .. q : k = 1 + p + i
      BY <2>4
    <3>2. a \notin anc[at[l]] /\ at[l] # a
      BY <1>14, <2>1, <2>4
    <3>3. PICK j \in 1 .. q : l = 1 + p + j
      BY <1>9, <2>1, <3>2
    <3>4. at3[i] = at3[j]
      BY <1>8, <1>14, <3>1, <3>3
    <3>5. i = j
      BY <1>2, <3>4 DEF Shown
    <3> QED
      BY <3>1, <3>3, <3>5
  <2> QED
    BY <1>9, <2>2, <2>3, <2>4
<1>15. ASSUME NEW k \in 1 .. 1 + p + q
       PROVE  /\ L[k].pid = tree[at[k]].pid /\ a <= at[k] /\ d <= L[k].depth
              /\ anc[a] \subseteq anc[at[k]]
              /\ \A x \in anc[at[k]] : x \in anc[a] \/ a <= x
              /\ L[k].depth = d => owner[at[k]] = owner[a]
              /\ d < L[k].depth => \E l \in 1 .. k - 1 : HangsOn(L, at, l, k, owner)
  <2>1. CASE k = 1
    <3>1. L[k].pid = tree[a].pid /\ L[k].depth = d
      BY <1>5, <2>1 DEF Row
    <3> QED
      BY <1>6, <1>10, <2>1, <3>1
  <2>2. ASSUME NEW i \in 1 .. p, k = 1 + i
        PROVE  /\ L[k].pid = tree[at[k]].pid /\ a <= at[k] /\ d <= L[k].depth
               /\ anc[a] \subseteq anc[at[k]]
               /\ \A x \in anc[at[k]] : x \in anc[a] \/ a <= x
               /\ L[k].depth = d => owner[at[k]] = owner[a]
               /\ d < L[k].depth => \E l \in 1 .. k - 1 : HangsOn(L, at, l, k, owner)
    <3>1. L[k] = C[i] /\ at[k] = at2[i]
      BY <1>5, <1>7, <2>2
    <3>2. /\ c \in Nat /\ a < c /\ owner[c] = a /\ anc[c] = anc[a] \cup {a}
          /\ at2[i] \in Ns /\ a < at2[i] /\ anc[c] \subseteq anc[at2[i]]
          /\ C[i].pid = tree[at2[i]].pid /\ C[i].depth \in Nat /\ d + 1 <= C[i].depth
          /\ c # 0
      BY <1>11
    <3>3. a <= at2[i] /\ d <= C[i].depth /\ C[i].depth # d
      <4>1. a \in Nat /\ at2[i] \in Nat /\ a < at2[i]
        BY <1>10, <3>2
      <4>2. C[i].depth \in Nat /\ d + 1 <= C[i].depth
        BY <3>2
      <4> QED
        BY <4>1, <4>2
    <3>4. /\ \A x \in anc[at2[i]] : x \in anc[c] \/ c <= x
          /\ C[i].depth = d + 1 => owner[at2[i]] = owner[c]
          /\ d + 1 < C[i].depth => \E l \in 1 .. i - 1 : HangsOn(C, at2, l, i, owner)
      BY <1>1 DEF Shown
    <3>5. \A x \in anc[at2[i]] : x \in anc[a] \/ a <= x
      <4>1. ASSUME NEW x \in anc[at2[i]] PROVE x \in anc[a] \/ a <= x
        <5>1. x \in Nat
          BY <3>2 DEF Pointers
        <5>2. CASE x \in anc[c]
          <6>1. x \in anc[a] \/ x = a
            BY <3>2, <5>2
          <6> QED
            BY <1>10, <6>1
        <5>3. CASE c <= x
          BY <1>10, <3>2, <5>1, <5>3
        <5> QED
          BY <3>4, <5>2, <5>3
      <4> QED
        BY <4>1
    <3>6. CASE C[i].depth = d + 1
      <4>1. owner[at[k]] = at[1] /\ tree[at[1]].child_procs # 0
        BY <1>6, <3>1, <3>2, <3>4, <3>6
      <4>2. L[1].depth = L[k].depth - 1
        <5>1. L[1].depth = d
          BY <1>5 DEF Row
        <5>2. L[k].depth = d + 1
          BY <3>1, <3>6, Zenon
        <5>3. d = (d + 1) - 1
          OBVIOUS
        <5> QED
          BY <5>1, <5>2, <5>3, Zenon
      <4>3. ASSUME NEW m \in 1 + 1 .. k - 1 PROVE L[k].depth <= L[m].depth
        <5>1. PICK j : j = m - 1
          OBVIOUS
        <5>2. j \in 1 .. p /\ m = 1 + j
          BY <1>5, <2>2, <5>1
        <5>3. L[m] = C[j] /\ d + 1 <= C[j].depth
          BY <1>5, <1>11, <5>2
        <5> QED
          BY <3>1, <3>6, <5>3
      <4>4. HangsOn(L, at, 1, k, owner)
        BY <4>1, <4>2, <4>3 DEF HangsOn
      <4>5. 1 \in 1 .. k - 1
        BY <1>5, <2>2
      <4> QED
        BY <3>1, <3>2, <3>3, <3>5, <4>4, <4>5
    <3>7. CASE C[i].depth # d + 1
      <4>1. d + 1 < C[i].depth
        BY <3>2, <3>7
      <4>2. PICK l \in 1 .. i - 1 : HangsOn(C, at2, l, i, owner)
        BY <3>4, <4>1
      <4>3. HangsOn(L, at, 1 + l, k, owner)
        BY <1>5, <1>7, <2>2, <4>2, HangsShifted
      <4>4. 1 + l \in 1 .. k - 1
        BY <1>5, <2>2
      <4> QED
        BY <3>1, <3>2, <3>3, <3>5, <4>3, <4>4
    <3> QED
      BY <3>6, <3>7
  <2>3. ASSUME NEW i \in 1 .. q, k = 1 + p + i
        PROVE  /\ L[k].pid = tree[at[k]].pid /\ a <= at[k] /\ d <= L[k].depth
               /\ anc[a] \subseteq anc[at[k]]
               /\ \A x \in anc[at[k]] : x \in anc[a] \/ a <= x
               /\ L[k].depth = d => owner[at[k]] = owner[a]
               /\ d < L[k].depth => \E l \in 1 .. k - 1 : HangsOn(L, at, l, k, owner)
    <3>1. L[k] = S[i] /\ at[k] = at3[i]
      BY <1>5, <1>8, <2>3
    <3>2. /\ s \in Nat /\ a < s /\ owner[s] = owner[a] /\ anc[s] = anc[a]
          /\ at3[i] \in Ns /\ a < at3[i] /\ anc[s] \subseteq anc[at3[i]]
          /\ S[i].pid = tree[at3[i]].pid /\ S[i].depth \in Nat /\ d <= S[i].depth
      BY <1>12
    <3>3. a <= at3[i]
      BY <1>10, <3>2
    <3>4. /\ \A x \in anc[at3[i]] : x \in anc[s] \/ s <= x
          /\ S[i].depth = d => owner[at3[i]] = owner[s]
          /\ d < S[i].depth => \E l \in 1 .. i - 1 : HangsOn(S, at3, l, i, owner)
      BY <1>2 DEF Shown
    <3>5. \A x \in anc[at3[i]] : x \in anc[a] \/ a <= x
      <4>1. ASSUME NEW x \in anc[at3[i]] PROVE x \in anc[a] \/ a <= x
        <5>1. x \in Nat
          BY <3>2 DEF Pointers
        <5>2. CASE x \in anc[s]
          BY <3>2, <5>2
        <5>3. CASE s <= x
          <6>1. a \in Nat /\ s \in Nat /\ a < s
            BY <1>10, <3>2
          <6> QED
            BY <5>1, <5>3, <6>1
        <5> QED
          BY <3>4, <5>2, <5>3
      <4> QED
        BY <4>1
    <3>6. ASSUME d < S[i].depth PROVE \E l \in 1 .. k - 1 : HangsOn(L, at, l, k, owner)
      <4>1. PICK l \in 1 .. i - 1 : HangsOn(S, at3, l, i, owner)
        BY <3>4, <3>6
      <4>2. PICK z : z = 1 + p
        OBVIOUS
      <4>3. z \in Nat /\ k = z + i /\ \A j \in 1 .. q : L[z + j] = S[j] /\ at[z + j] = at3[j]
        <5>1. p \in Nat
          BY <1>5, Zenon
        <5>2. z \in Nat /\ k = z + i
          BY <2>3, <4>2, <5>1
        <5> QED
          BY <1>5, <1>8, <4>2, <5>2, Zenon
      <4>4. HangsOn(L, at, z + l, z + i, owner)
        BY <1>5, <4>1, <4>3, HangsShifted
      <4>5. z + l \in 1 .. k - 1
        BY <4>3
      <4> QED
        BY <4>3, <4>4, <4>5
    <3> QED
      BY <3>1, <3>2, <3>3, <3>4, <3>5, <3>6
  <2> QED
    BY <1>9, <2>1, <2>2, <2>3
<1>16. Len(L) = 1 + p + q /\ L \in Seq(Rows)
  BY <1>5, Zenon
<1>17. 1 .. Len(L) = 1 .. 1 + p + q
  BY <1>16, Zenon
<1>18. /\ at \in [1 .. Len(L) -> Ns]
       /\ \A k, l \in 1 .. Len(L) : at[k] = at[l] => k = l
  BY <1>13, <1>14, <1>17
<1> QED
  BY <1>6, <1>15, <1>16, <1>17, <1>18, Zenon DEF Shown

(* Nor does a line of a part lead anywhere else. *)
LEMMA LeadsShifted ==
  ASSUME NEW L, NEW at, NEW M, NEW to, NEW limit, NEW p \in Nat, NEW z \in Nat,
         p = Len(M), Len(L) \in Nat, z + p <= Len(L),
         \A i \in 1 .. p : L[z + i] = M[i] /\ at[z + i] = to[i],
         NEW k \in 1 .. p, LeadsOn(M, to, k, limit)
  PROVE  LeadsOn(L, at, z + k, limit)
<1>1. PICK n : n = Len(L)
  OBVIOUS
<1>2. n \in Nat /\ z + p <= n
  BY <1>1
<1>3. PICK j : j = z + k
  OBVIOUS
<1>4. PICK a : a = to[k]
  OBVIOUS
<1>5. L[j] = M[k] /\ at[j] = a /\ j \in Nat
  BY <1>3, <1>4
<1>6. L[j].name = tree[at[j]].name
  BY <1>4, <1>5 DEF LeadsOn
<1>7. ASSUME tree[at[j]].child_procs # 0, Deeper(limit, L[j].depth)
      PROVE  /\ j + 1 \in 1 .. n /\ at[j + 1] = tree[at[j]].child_procs
             /\ L[j + 1].depth = L[j].depth + 1
  <2>1. PICK i : i = k + 1
    OBVIOUS
  <2>2. i \in 1 .. p /\ to[i] = tree[a].child_procs /\ M[i].depth = M[k].depth + 1
    BY <1>4, <1>5, <1>7, <2>1 DEF LeadsOn
  <2>3. z + i = j + 1 /\ j + 1 \in 1 .. n
    BY <1>2, <1>3, <2>1, <2>2
  <2>4. L[j + 1] = M[i] /\ at[j + 1] = to[i]
    BY <2>2, <2>3
  <2> QED
    BY <1>5, <2>2, <2>3, <2>4
<1>8. ASSUME tree[at[j]].next_sibling # 0, limit >= 0
      PROVE  \E l \in j + 1 .. n :
               /\ at[l] = tree[at[j]].next_sibling /\ L[l].depth = L[j].depth
               /\ \A m \in j + 1 .. l - 1 : L[j].depth < L[m].depth
  <2>1. PICK i \in k + 1 .. p : /\ to[i] = tree[a].next_sibling /\ M[i].depth = M[k].depth
                               /\ \A m \in k + 1 .. i - 1 : M[k].depth < M[m].depth
    BY <1>4, <1>5, <1>8 DEF LeadsOn
  <2>2. i \in 1 .. p /\ z + i \in j + 1 .. n
    BY <1>2, <1>3
  <2>3. L[z + i] = M[i] /\ at[z + i] = to[i]
    BY <2>2
  <2>4. ASSUME NEW m \in j + 1 .. (z + i) - 1 PROVE L[j].depth < L[m].depth
    <3>1. PICK h : h = m - z
      OBVIOUS
    <3>2. h \in k + 1 .. i - 1 /\ h \in 1 .. p /\ z + h = m
      BY <1>3, <3>1
    <3>3. L[m] = M[h]
      BY <3>2
    <3> QED
      BY <1>5, <2>1, <3>2, <3>3
  <2> QED
    BY <1>5, <2>1, <2>2, <2>3, <2>4
<1>9. LeadsOn(L, at, j, limit)
  BY <1>1, <1>6, <1>7, <1>8 DEF LeadsOn
<1> QED
  BY <1>3, <1>9

(* The joined lines lead on, if those that the node leads to were printed. *)
LEMMA JoinedLeads ==
  ASSUME Linked, NEW owner, NEW anc, NEW a, NEW d, NEW limit, NEW C, NEW at2, NEW S, NEW at3,
         NEW L, NEW at, Joining(L, at, a, d, limit, owner, anc, C, at2, S, at3)
  PROVE  L # <<>> /\ Led(L, at, d, limit, anc)
<1> SUFFICES ASSUME Pointers(owner, anc), a \in Ns, d \in Nat, Row(a, d) \in Rows,
                    NEW c, c = tree[a].child_procs, C # <<>> => c # 0,
                    Shown(C, at2, c, d + 1, owner, anc), Led(C, at2, d + 1, limit, anc),
                    c # 0 /\ Deeper(limit, d) => C # <<>>,
                    NEW s, s = tree[a].next_sibling, S # <<>> => s # 0,
                    Shown(S, at3, s, d, owner, anc), Led(S, at3, d, limit, anc),
                    s # 0 /\ limit >= 0 => S # <<>>,
                    L = <<Row(a, d)>> \o C \o S, at = Places(Len(C), Len(S), a, at2, at3),
                    Shown(L, at, a, d, owner, anc)
             PROVE  L # <<>> /\ Led(L, at, d, limit, anc)
  BY Joined, Zenon DEF Joining
<1>1. PICK p : p = Len(C)
  OBVIOUS
<1>2. PICK q : q = Len(S)
  OBVIOUS
<1>3. C \in Seq(Rows) /\ S \in Seq(Rows)
  BY DEF Shown
<1>18. d + 1 \in Nat
  OBVIOUS
<1>4. PICK r : r = Row(a, d)
  OBVIOUS
<1>5. /\ p \in Nat /\ q \in Nat /\ Len(L) = 1 + p + q /\ L[1] = r
      /\ \A i \in 1 .. p : L[1 + i] = C[i]
      /\ \A i \in 1 .. q : L[1 + p + i] = S[i]
  <2>1. PICK T : T = Rows \cup {r}
    OBVIOUS
  <2>2. r \in T /\ C \in Seq(T) /\ S \in Seq(T) /\ L = <<r>> \o C \o S
    BY <1>3, <1>4, <2>1
  <2>3. ThreeParts(<<r>> \o C \o S, r, C, S, Len(C), Len(S))
    BY <2>2, PartsJoined, Zenon
  <2>4. ThreeParts(L, r, C, S, p, q)
    BY <1>1, <1>2, <2>2, <2>3, Zenon
  <2> QED
    BY <2>4, Zenon DEF ThreeParts
<1>6. /\ at[1] = a
      /\ \A i \in 1 .. p : at[1 + i] = at2[i]
      /\ \A i \in 1 .. q : at[1 + p + i] = at3[i]
      /\ \A k \in 1 .. 1 + p + q :
           k = 1 \/ (\E i \in 1 .. p : k = 1 + i) \/ (\E i \in 1 .. q : k = 1 + p + i)
  <2>1. p \in Nat /\ q \in Nat /\ at = Places(p, q, a, at2, at3)
    BY <1>1, <1>2, <1>5, Zenon
  <2>2. AtPlaces(Places(p, q, a, at2, at3), p, q, a, at2, at3)
    BY <2>1, PlacesAre, Zenon
  <2>3. AtPlaces(at, p, q, a, at2, at3)
    BY <2>1, <2>2, Zenon
  <2> QED
    BY <2>3, Zenon DEF AtPlaces
<1>7. r.depth = d /\ r.name = tree[a].name
  BY <1>4 DEF Row
<1>8. L # <<>>
  <2>1. L \in Seq(Rows)
    BY DEF Shown
  <2> QED
    BY <1>5, <2>1
<1>9. LeadsOn(L, at, 1, limit)
  <2>1. ASSUME tree[a].child_procs # 0, Deeper(limit, d)
        PROVE  1 + 1 \in 1 .. Len(L) /\ at[1 + 1] = c /\ L[1 + 1].depth = d + 1
    <3>1. C # <<>> /\ 1 \in 1 .. p
      BY <1>1, <1>3, <2>1
    <3>2. at2[1] = c /\ C[1].depth = d + 1
      BY <3>1 DEF Shown, Led
    <3>3. 1 + 1 \in 1 .. Len(L)
      BY <1>5, <3>1
    <3> QED
      BY <1>5, <1>6, <3>1, <3>2, <3>3
  <2>2. ASSUME tree[a].next_sibling # 0, limit >= 0
        PROVE  \E l \in 1 + 1 .. Len(L) :
                 /\ at[l] = s /\ L[l].depth = d
                 /\ \A m \in 1 + 1 .. l - 1 : d < L[m].depth
    <3>1. S # <<>> /\ 1 \in 1 .. q
      BY <1>2, <1>3, <2>2
    <3>2. at3[1] = s /\ S[1].depth = d
      BY <3>1 DEF Shown, Led
    <3>3. 1 + p + 1 \in 1 + 1 .. Len(L) /\ at[1 + p + 1] = s /\ L[1 + p + 1].depth = d
      <4>1. at[1 + p + 1] = at3[1] /\ L[1 + p + 1] = S[1]
        BY <1>5, <1>6, <3>1, Zenon
      <4>2. p \in Nat /\ q \in Nat /\ Len(L) = 1 + p + q
        BY <1>5, Zenon
      <4>3. 1 + p + 1 \in 1 + 1 .. Len(L)
        BY <3>1, <4>2
      <4> QED
        BY <3>2, <4>1, <4>3, Zenon
    <3>4. ASSUME NEW m \in 1 + 1 .. (1 + p + 1) - 1 PROVE d < L[m].depth
      <4>1. PICK i : i = m - 1
        OBVIOUS
      <4>2. i \in 1 .. p /\ m = 1 + i
        BY <1>5, <4>1
      <4>3. d + 1 <= C[i].depth /\ C[i].depth \in Nat
        <5>1. i \in 1 .. Len(C)
          BY <1>1, <4>2, Zenon
        <5>2. C[i].depth \in Nat
          BY <1>18, <5>1, ShownLine
        <5>3. d + 1 <= C[i].depth
          BY <5>1, Zenon DEF Shown
        <5> QED
          BY <5>2, <5>3
      <4>4. L[m].depth = C[i].depth
        BY <1>5, <4>2, Zenon
      <4>5. d < C[i].depth
        BY <4>3
      <4> QED
        BY <4>4, <4>5
    <3> QED
      BY <3>3, <3>4
  <2> QED
    BY <1>5, <1>6, <1>7, <2>1, <2>2 DEF LeadsOn
<1>10. ASSUME NEW i \in 1 .. p PROVE LeadsOn(L, at, 1 + i, limit)
  <2>1. LeadsOn(C, at2, i, limit)
    BY <1>1 DEF Led
  <2>2. Len(L) \in Nat /\ 1 + p <= Len(L) /\ p \in Nat /\ 1 \in Nat
    BY <1>5
  <2>3. \A j \in 1 .. p : L[1 + j] = C[j] /\ at[1 + j] = at2[j]
    BY <1>5, <1>6, Zenon
  <2> QED
    BY <1>1, <2>1, <2>2, <2>3, LeadsShifted, Zenon
<1>11. ASSUME NEW i \in 1 .. q PROVE LeadsOn(L, at, 1 + p + i, limit)
  <2>1. LeadsOn(S, at3, i, limit)
    BY <1>2 DEF Led
  <2>2. PICK z : z = 1 + p
    OBVIOUS
  <2>3. Len(L) \in Nat /\ z + q <= Len(L) /\ z \in Nat
    BY <1>5, <2>2
  <2>4. \A j \in 1 .. q : L[z + j] = S[j] /\ at[z + j] = at3[j]
    BY <1>5, <1>6, <2>2
  <2>5. LeadsOn(L, at, z + i, limit)
    BY <1>2, <1>5, <2>1, <2>3, <2>4, LeadsShifted
  <2> QED
    BY <2>2, <2>5
<1>12. \A k \in 1 .. Len(L) : LeadsOn(L, at, k, limit)
  <2>1. ASSUME NEW k \in 1 .. Len(L) PROVE LeadsOn(L, at, k, limit)
    <3>1. CASE k = 1
      BY <1>9, <3>1
    <3>2. CASE \E i \in 1 .. p : k = 1 + i
      BY <1>10, <3>2
    <3>3. CASE \E i \in 1 .. q : k = 1 + p + i
      BY <1>11, <3>3
    <3> QED
      BY <1>5, <1>6, <3>1, <3>2, <3>3
  <2> QED
    BY <2>1
<1>13. a \in Nat /\ \A x \in anc[a] : x < a
  BY DEF Pointers, Ns
<1>14. ASSUME NEW i \in 1 .. p PROVE at2[i] \in Nat /\ a < at2[i] /\ a \in anc[at2[i]]
  <2>1. C # <<>> /\ c # 0
    BY <1>1, <1>3
  <2>2. a < c /\ c \in Nat
    BY <2>1 DEF Linked, LinkTypes, LinksGoForward, Ns
  <2>3. anc[c] = anc[a] \cup {a}
    BY <2>1 DEF Pointers
  <2>4. at2[i] \in Nat /\ c <= at2[i] /\ anc[c] \subseteq anc[at2[i]]
    <3>1. i \in 1 .. Len(C)
      BY <1>1, Zenon
    <3>2. at2[i] \in Nat
      BY <1>18, <3>1, ShownLine
    <3>3. c <= at2[i] /\ anc[c] \subseteq anc[at2[i]]
      BY <3>1, Zenon DEF Shown
    <3> QED
      BY <3>2, <3>3
  <2> QED
    BY <1>13, <2>2, <2>3, <2>4
<1>15. ASSUME NEW i \in 1 .. q PROVE at3[i] \in Nat /\ a < at3[i] /\ a \notin anc[at3[i]]
  <2>1. S # <<>> /\ s # 0
    BY <1>2, <1>3
  <2>2. a < s /\ s \in Nat
    BY <2>1 DEF Linked, LinkTypes, LinksGoForward, Ns
  <2>3. anc[s] = anc[a]
    BY <2>1 DEF Pointers
  <2>4. at3[i] \in Nat /\ s <= at3[i] /\ \A x \in anc[at3[i]] : x \in anc[s] \/ s <= x
    <3>1. i \in 1 .. Len(S)
      BY <1>2, Zenon
    <3>2. at3[i] \in Nat
      BY <3>1, ShownLine
    <3>3. s <= at3[i] /\ \A x \in anc[at3[i]] : x \in anc[s] \/ s <= x
      BY <3>1, Zenon DEF Shown
    <3> QED
      BY <3>2, <3>3
  <2>5. a \notin anc[a]
    BY <1>13
  <2>6. a < at3[i]
    BY <1>13, <2>2, <2>4
  <2>7. ~ (s <= a)
    BY <1>13, <2>2
  <2> QED
    BY <2>3, <2>4, <2>5, <2>6, <2>7
<1>16. ASSUME NEW k \in 1 .. 1 + p + q, NEW l \in 1 .. 1 + p + q, k < l, anc[at[k]] = anc[at[l]]
       PROVE  at[k] < at[l]
  <2>1. CASE k = 1
    <3>1. l # 1
      BY <1>16, <2>1
    <3>2. CASE \E i \in 1 .. p : l = 1 + i
      BY <1>6, <1>14, <2>1, <3>2
    <3>3. CASE \E i \in 1 .. q : l = 1 + p + i
      BY <1>6, <1>15, <2>1, <3>3
    <3> QED
      BY <1>6, <3>1, <3>2, <3>3
  <2>2. CASE \E i \in 1 .. p : k = 1 + i
    <3>1. PICK i \in 1 .. p : k = 1 + i
      BY <2>2
    <3>2. l # 1
      BY <1>16
    <3>3. CASE \E j \in 1 .. p : l = 1 + j
      <4>1. PICK j \in 1 .. p : l = 1 + j
        BY <3>3
      <4>2. i < j
        BY <1>5, <1>16, <3>1, <4>1
      <4>3. at[k] = at2[i] /\ at[l] = at2[j]
        BY <1>6, <3>1, <4>1
      <4> QED
        BY <1>1, <1>16, <4>2, <4>3 DEF Led
    <3>4. CASE \E j \in 1 .. q : l = 1 + p + j
      BY <1>6, <1>14, <1>15, <1>16, <3>1, <3>4
    <3> QED
      BY <1>6, <3>2, <3>3, <3>4
  <2>3. CASE \E i \in 1 .. q : k = 1 + p + i
    <3>1. PICK i \in 1 .. q : k = 1 + p + i
      BY <2>3
    <3>2. PICK j : j = l - (1 + p)
      OBVIOUS
    <3>3. j \in 1 .. q /\ l = 1 + p + j /\ i < j
      <4>1. p \in Nat /\ q \in Nat
        BY <1>5, Zenon
      <4> QED
        BY <1>16, <3>1, <3>2, <4>1
    <3>4. at[k] = at3[i] /\ at[l] = at3[j]
      BY <1>6, <3>1, <3>3
    <3> QED
      BY <1>2, <1>16, <3>3, <3>4 DEF Led
  <2> QED
    BY <1>6, <2>1, <2>2, <2>3
<1>17. L[1].depth = d
  BY <1>5, <1>7
<1>19. \A k, l \in 1 .. Len(L) : k < l /\ anc[at[k]] = anc[at[l]] => at[k] < at[l]
  BY <1>5, <1>16
<1> QED
  BY <1>8, <1>12, <1>17, <1>19 DEF Led

(* No line stands for no node. *)
LEMMA NothingShown ==
  ASSUME NEW a, NEW d, NEW limit, NEW owner, NEW anc
  PROVE  \E at : Shown(<<>>, at, a, d, owner, anc) /\ Led(<<>>, at, d, limit, anc)
<1>1. PICK at : at = [k \in 1 .. 0 |-> 1]
  OBVIOUS
<1>2. at \in [1 .. 0 -> Ns]
  BY <1>1
<1>3. <<>> \in Seq(Rows) /\ Len(<<>>) = 0 /\ \A k \in 1 .. 0 : FALSE
  OBVIOUS
<1>4. Shown(<<>>, at, a, d, owner, anc)
  BY <1>2, <1>3 DEF Shown
<1>5. Led(<<>>, at, d, limit, anc)
  BY <1>3 DEF Led
<1> QED
  BY <1>4, <1>5

(* What is printed from any node on, from the last one to the first. *)
LEMMA AllShown ==
  ASSUME Linked, NEW owner, NEW anc, Pointers(owner, anc),
         NEW limit, NEW f, f = FromNodes(f, limit), NEW a \in 0 .. Len(tree), NEW d \in Nat
  PROVE  /\ \E at : Shown(f[a][d], at, a, d, owner, anc) /\ Led(f[a][d], at, d, limit, anc)
         /\ a # 0 => f[a][d] # <<>>
<1>1. PICK n : n = Len(tree)
  OBVIOUS
<1>2. n \in Nat /\ Ns = 1 .. n /\ \A b \in Ns : tree[b] \in Blocks
  BY <1>1 DEF Linked, LinkTypes, Ns
<1> DEFINE Fine(M, b, e) == \E at : Shown(M, at, b, e, owner, anc) /\ Led(M, at, e, limit, anc)
           Good(b) == \A e \in Nat : Fine(f[b][e], b, e) /\ (b # 0 => f[b][e] # <<>>)
           Bad == {m \in 0 .. n : ~ Good(n - m)}
<1>3. \A e \in Nat : f[0][e] = <<>>
  <2>1. Len(tree) \in Nat
    BY <1>1, <1>2, Zenon
  <2>2. ASSUME NEW e \in Nat PROVE f[0][e] = <<>>
    BY <2>1, NothingPrinted, Zenon
  <2> QED
    BY <2>2, Zenon
<1>4. Good(0)
  BY <1>3, NothingShown
<1>5. SUFFICES ASSUME Bad # {} PROVE FALSE
  <2>1. SUFFICES ASSUME Bad = {} PROVE Good(a)
    BY <1>5
  <2>2. n - a \in 0 .. n /\ n - (n - a) = a
    BY <1>1, <1>2
  <2>3. Good(n - (n - a))
    BY <2>1, <2>2, Zenon
  <2> QED
    BY <2>2, <2>3, Zenon
<1>6. PICK m \in Bad : \A k \in Bad : m <= k
  <2>1. Bad \in SUBSET Nat
    BY <1>2
  <2> QED
    BY <1>5, <2>1, HasLeast, Zenon
<1>7. m \in 0 .. n /\ ~ Good(n - m)
  BY <1>6, Zenon
<1>8. PICK b : b = n - m
  OBVIOUS
<1>9. ~ Good(b)
  BY <1>7, <1>8, Zenon
<1>10. b \in 0 .. n /\ b # 0
  <2>1. b \in 0 .. n
    BY <1>2, <1>7, <1>8
  <2>2. b # 0
    BY <1>4, <1>9, Zenon
  <2> QED
    BY <2>1, <2>2
<1>11. \A c \in b + 1 .. n : Good(c)
  <2>1. ASSUME NEW c \in b + 1 .. n, ~ Good(c) PROVE FALSE
    <3>1. n - c \in 0 .. n /\ n - (n - c) = c /\ ~ (m <= n - c)
      BY <1>2, <1>7, <1>8
    <3>2. n - c \in Bad
      BY <2>1, <3>1, Zenon
    <3> QED
      BY <1>6, <3>1, <3>2, Zenon
  <2> QED
    BY <2>1, Zenon
<1>12. PICK e \in Nat : ~ (Fine(f[b][e], b, e) /\ (b # 0 => f[b][e] # <<>>))
  BY <1>9, Zenon
<1>13. /\ b \in Ns /\ tree[b].child_procs \in {0} \cup (b + 1 .. n)
       /\ tree[b].next_sibling \in {0} \cup (b + 1 .. n)
  <2>1. b \in Ns
    BY <1>2, <1>10
  <2> QED
    <3>1. b \in DOMAIN tree
      BY <1>1, <1>2, <2>1 DEF Linked, LinkTypes
    <3>2. LinksGoForward
      BY Zenon DEF Linked
    <3> QED
      BY <1>1, <2>1, <3>1, <3>2, Zenon DEF LinksGoForward
<1>14. Row(b, e) \in Rows
  BY <1>2, <1>13 DEF Row, Rows, Blocks
<1>15. PICK below, beside :
         /\ f[b][e] = <<Row(b, e)>> \o below \o beside
         /\ IF Deeper(limit, e) THEN below = f[tree[b].child_procs][e + 1] ELSE below = <<>>
         /\ IF limit >= 0 THEN beside = f[tree[b].next_sibling][e] ELSE beside = <<>>
  <2>1. b \in 0 .. Len(tree)
    BY <1>1, <1>10, Zenon
  <2>2. b # 0
    BY <1>10, Zenon
  <2>3. InParts(f, limit, b, e)
    BY <2>1, <2>2, PrintedLines
  <2> QED
    BY <2>3, Zenon DEF InParts
<1>16. PICK c : c = tree[b].child_procs
  OBVIOUS
<1>17. PICK s : s = tree[b].next_sibling
  OBVIOUS
<1>18. e + 1 \in Nat
  OBVIOUS
<1>19. Good(c) /\ Good(s)
  BY <1>4, <1>11, <1>13, <1>16, <1>17, Zenon
<1>20. /\ Fine(below, c, e + 1)
       /\ below # <<>> => c # 0
       /\ c # 0 /\ Deeper(limit, e) => below # <<>>
  <2>1. CASE ~ Deeper(limit, e)
    <3>1. below = <<>>
      BY <1>15, <2>1, Zenon
    <3>2. Fine(<<>>, c, e + 1)
      BY NothingShown, Zenon
    <3> QED
      BY <2>1, <3>1, <3>2, Zenon
  <2>2. CASE Deeper(limit, e)
    <3>1. below = f[c][e + 1]
      BY <1>15, <1>16, <2>2, Zenon
    <3>2. Fine(f[c][e + 1], c, e + 1) /\ (c # 0 => f[c][e + 1] # <<>>)
      BY <1>18, <1>19, Zenon
    <3>3. below # <<>> => c # 0
      BY <1>3, <1>18, <3>1, Zenon
    <3> QED
      BY <3>1, <3>2, <3>3, Zenon
  <2> QED
    BY <2>1, <2>2, Zenon
<1>21. /\ Fine(beside, s, e)
       /\ beside # <<>> => s # 0
       /\ s # 0 /\ limit >= 0 => beside # <<>>
  <2>1. CASE ~ (limit >= 0)
    <3>1. beside = <<>>
      BY <1>15, <2>1, Zenon
    <3>2. Fine(<<>>, s, e)
      BY NothingShown, Zenon
    <3> QED
      BY <2>1, <3>1, <3>2, Zenon
  <2>2. CASE limit >= 0
    <3>1. beside = f[s][e]
      BY <1>15, <1>17, <2>2, Zenon
    <3>2. Fine(f[s][e], s, e) /\ (s # 0 => f[s][e] # <<>>)
      BY <1>19, Zenon
    <3>3. beside # <<>> => s # 0
      BY <1>3, <3>1, Zenon
    <3> QED
      BY <3>1, <3>2, <3>3, Zenon
  <2> QED
    BY <2>1, <2>2, Zenon
<1>22. PICK at2 : Shown(below, at2, c, e + 1, owner, anc) /\ Led(below, at2, e + 1, limit, anc)
  BY <1>20, Zenon
<1>23. PICK at3 : Shown(beside, at3, s, e, owner, anc) /\ Led(beside, at3, e, limit, anc)
  BY <1>21, Zenon
<1>24. PICK L : L = <<Row(b, e)>> \o below \o beside
  OBVIOUS
<1>25. PICK at : at = Places(Len(below), Len(beside), b, at2, at3)
  OBVIOUS
<1> HIDE DEF Good, Bad, Fine
<1>26. /\ below # <<>> => c # 0
       /\ beside # <<>> => s # 0
       /\ c # 0 /\ Deeper(limit, e) => below # <<>>
       /\ s # 0 /\ limit >= 0 => beside # <<>>
  BY <1>20, <1>21, Zenon
<1>27. Joining(L, at, b, e, limit, owner, anc, below, at2, beside, at3)
  BY <1>12, <1>13, <1>14, <1>16, <1>17, <1>22, <1>23, <1>24, <1>25, <1>26, Zenon DEF Joining
<1>28. Shown(L, at, b, e, owner, anc) /\ L # <<>> /\ Led(L, at, e, limit, anc)
  BY <1>27, Joined, JoinedLeads, Zenon
<1>29. Fine(L, b, e)
  BY <1>28, Zenon DEF Fine
<1>30. f[b][e] = L
  BY <1>15, <1>24, Zenon
<1> QED
  BY <1>12, <1>28, <1>29, <1>30, Zenon

--------------------------------------------------------------------------------
(* The whole program. *)

Displayed(owner, anc) ==
  lines # <<>> =>
    \E at : Shown(lines, at, 1, 0, owner, anc) /\ Led(lines, at, 0, max_depth, anc)

Meant ==
  \E who, owner, anc, age, on :
    /\ Placed(who, owner, anc, age) /\ Steadily(who, owner, anc, on)
    /\ Displayed(owner, anc)

Printing ==
  /\ max_depth \in {0} \cup Depths
  /\ lines \in Seq(Rows)
  /\ outcome # "printed" <=> lines = <<>>

Sound == Linked /\ Related /\ Kept /\ Meant /\ Ended /\ Printing

(* The whole invariant: at the beginning, ... *)
LEMMA SoundInit == Init => Sound
<1> SUFFICES ASSUME Init PROVE Sound
  OBVIOUS
<1>1. /\ max_depth = 0 /\ lines = <<>> /\ outcome = "running" /\ left \in Nat
  BY PtreeAssumption DEF Init
<1>2. Ended /\ Printing
  BY <1>1 DEF Ended, Printing
<1>3. Meant
  <2>1. PICK who, owner, anc, age : Placed(who, owner, anc, age)
    BY PlacedInit
  <2>2. Displayed(owner, anc)
    BY <1>1 DEF Displayed
  <2>3. Steadily(who, owner, anc, {1})
    BY SteadilyInit
  <2> QED
    BY <2>1, <2>2, <2>3 DEF Meant
<1> QED
  BY <1>2, <1>3, LinkedInit, RelatedInit, KeptInit DEF Sound

(* What was printed stays so. *)
LEMMA StaysDisplayed ==
  ASSUME tree' = tree, lines' = lines, max_depth' = max_depth, NEW owner, NEW anc, Displayed(owner, anc)
  PROVE  Displayed(owner, anc)'
<1>1. ASSUME NEW at, NEW L, NEW limit, Shown(L, at, 1, 0, owner, anc), Led(L, at, 0, limit, anc)
      PROVE  Shown(L, at, 1, 0, owner, anc)' /\ Led(L, at, 0, limit, anc)'
  <2>1. Shown(L, at, 1, 0, owner, anc)'
    BY <1>1 DEF Shown, HangsOn, Ns
  <2>2. Led(L, at, 0, limit, anc)'
    BY <1>1 DEF Led, LeadsOn
  <2> QED
    BY <2>1, <2>2
<1>2. ASSUME lines # <<>>
      PROVE  (\E at : Shown(lines, at, 1, 0, owner, anc) /\ Led(lines, at, 0, max_depth, anc))'
  <2>1. PICK L : L = lines
    OBVIOUS
  <2>2. PICK limit : limit = max_depth
    OBVIOUS
  <2>3. PICK at : Shown(L, at, 1, 0, owner, anc) /\ Led(L, at, 0, limit, anc)
    BY <1>2, <2>1, <2>2 DEF Displayed
  <2>4. Shown(L, at, 1, 0, owner, anc)' /\ Led(L, at, 0, limit, anc)'
    BY <1>1, <2>3
  <2>5. L = lines' /\ limit = max_depth'
    BY <2>1, <2>2
  <2> QED
    BY <2>4, <2>5, Zenon
<1> QED
  BY <1>2 DEF Displayed

(* ... when the structure is printed, ... *)
LEMMA PrintDisplays ==
  ASSUME Linked, print_ptree, NEW who, NEW owner, NEW anc, NEW age,
         Placed(who, owner, anc, age), Printing, Ended
  PROVE  Displayed(owner, anc)' /\ Printing' /\ Ended'
<1>1. /\ outcome = "generated" /\ outcome' = "printed"
      /\ UNCHANGED <<kernel, pid, tree, stack, left>>
  BY DEF print_ptree
<1>2. PICK limit \in Depths : max_depth' = limit /\ lines' = Printed(limit)
  BY DEF print_ptree
<1>3. PICK f : f = FromNodes(f, limit) /\ Printed(limit) = f[1][0]
  BY PrintedIs
<1>4. 1 \in 0 .. Len(tree)
  BY DEF Placed, Labels, Linked, LinkTypes
<1>5. PICK L : L = f[1][0]
  OBVIOUS
<1>6. Pointers(owner, anc) /\ 0 \in Nat
  BY DEF Placed
<1>7. PICK at : Shown(L, at, 1, 0, owner, anc) /\ Led(L, at, 0, limit, anc)
  BY <1>3, <1>4, <1>5, <1>6, AllShown
<1>8. lines' = L /\ max_depth' = limit
  BY <1>2, <1>3, <1>5, Zenon
<1>9. Shown(L, at, 1, 0, owner, anc)' /\ Led(L, at, 0, limit, anc)'
  <2>1. Shown(L, at, 1, 0, owner, anc)'
    BY <1>1, <1>7 DEF Shown, HangsOn, Ns
  <2>2. Led(L, at, 0, limit, anc)'
    BY <1>1, <1>7 DEF Led, LeadsOn
  <2> QED
    BY <2>1, <2>2
<1>10. Displayed(owner, anc)'
  BY <1>8, <1>9, Zenon DEF Displayed
<1>11. L \in Seq(Rows) /\ L # <<>>
  <2>1. 1 # 0
    OBVIOUS
  <2>2. L # <<>>
    BY <1>3, <1>4, <1>5, <1>6, <2>1, AllShown
  <2> QED
    BY <1>7, <2>2 DEF Shown
<1>12. Printing'
  BY <1>1, <1>2, <1>8, <1>11 DEF Printing, Rows
<1>13. Ended'
  BY <1>1 DEF Ended
<1> QED
  BY <1>10, <1>12, <1>13

(* ... which generate_ptree never does, ... *)
LEMMA NotYetPrinted ==
  ASSUME generate_ptree, outcome = "running"
  PROVE  outcome' # "printed"
BY DEF generate_ptree, StatProcess, StatCmdline, StatChildren, OpenChildren, ReadChildren,
       Name, Visit, LinkOver, Break, LinkSibling, LastSibling, Becomes, Returns, Segv

(* ... and after every step. *)
LEMMA SoundStep == Sound /\ [Next]_vars => Sound'
<1> SUFFICES ASSUME Sound, [Next]_vars PROVE Sound'
  OBVIOUS
<1>1. Linked /\ Related /\ Kept /\ Meant /\ Ended /\ Printing
  BY DEF Sound
<1>2. Linked'
  BY <1>1, LinkedStep
<1>3. PICK who, owner, anc, age, on :
        /\ Placed(who, owner, anc, age) /\ Steadily(who, owner, anc, on)
        /\ Displayed(owner, anc)
  BY <1>1 DEF Meant
<1>4. UNCHANGED kernel => Related' /\ Kept'
  BY <1>1 DEF Related, kernel, BelongsTo, Dead, Kept, Holding
<1>5. CASE UNCHANGED vars
  <2>1. UNCHANGED <<kernel, pid, tree, stack, left>> /\ outcome' = outcome /\ lines' = lines
        /\ max_depth' = max_depth
    BY <1>5 DEF vars, kernel
  <2>2. Placed(who, owner, anc, age)'
    BY <1>3, <2>1, OutcomeOnly
  <2>3. Displayed(owner, anc)'
    BY <1>3, <2>1, StaysDisplayed
  <2>4. Ended' /\ Printing'
    BY <1>1, <2>1 DEF Ended, Printing, Rows, kernel
  <2>5. Steadily(who, owner, anc, on)'
    BY <1>3, <2>1, SteadilyEnds
  <2>6. Meant'
    BY <2>2, <2>3, <2>5 DEF Meant
  <2> QED
    BY <1>2, <1>4, <2>1, <2>4, <2>6 DEF Sound
<1>6. ASSUME NEW p \in Pids, NEW q \in Pids, Fork(p, q) \/ Exit(p) \/ Reap(p) PROVE Sound'
  <2>1. UNCHANGED <<pid, max_depth, memory, lines>> /\ steady' \subseteq steady
    BY <1>6 DEF Fork, Exit, Reap
  <2>2. tree' = tree /\ stack' = stack /\ left' = left /\ outcome' = outcome
    BY <2>1 DEF memory
  <2>3. Related' /\ Later /\ \E new : Placed(who, owner, anc, new)'
    BY <1>1, <1>3, <1>6, MachinePlaced
  <2>4. PICK new : Placed(who, owner, anc, new)'
    BY <2>3
  <2>5. Displayed(owner, anc)'
    BY <1>3, <2>1, <2>2, StaysDisplayed
  <2>6. Kept' /\ Grown
    <3>1. Aged(age)
      BY <1>3 DEF Placed, Older
    <3> QED
      BY <1>1, <1>6, <3>1, KeptStep
  <2>7. Steadily(who, owner, anc, on)'
    BY <1>1, <1>3, <2>1, <2>2, <2>3, <2>6, MachineSteadily
  <2>8. Meant'
    BY <2>4, <2>5, <2>7 DEF Meant
  <2>9. Ended'
    BY <1>1, <2>1, <2>2, <2>3 DEF Ended, Later
  <2>10. Printing'
    BY <1>1, <2>1, <2>2 DEF Printing, Rows
  <2> QED
    BY <1>2, <2>3, <2>6, <2>8, <2>9, <2>10 DEF Sound
<1>7. CASE generate_ptree
  <2>1. outcome = "running" /\ Outside
    BY <1>7 DEF generate_ptree, StatProcess, StatCmdline, StatChildren, OpenChildren,
         ReadChildren, Name, Visit, LinkOver, Break, LinkSibling, LastSibling, At
  <2>2. PICK who2, owner2, anc2, on2 :
          Placed(who2, owner2, anc2, age)' /\ Steadily(who2, owner2, anc2, on2)'
    BY <1>1, <1>3, <1>7, GenerateSteadily
  <2>3. lines = <<>> /\ lines' = lines /\ max_depth' = max_depth /\ UNCHANGED kernel
    BY <1>1, <2>1 DEF Printing, Outside
  <2>4. Displayed(owner2, anc2)'
    BY <2>3 DEF Displayed
  <2>5. Meant'
    BY <2>2, <2>4 DEF Meant
  <2>6. Ended'
    BY <1>1, <1>3, <1>7, EndedStep
  <2>7. outcome' # "printed"
    BY <1>7, <2>1, NotYetPrinted
  <2>8. Printing'
    BY <1>1, <2>3, <2>7 DEF Printing, Rows
  <2> QED
    BY <1>2, <1>4, <2>3, <2>5, <2>6, <2>8 DEF Sound
<1>8. CASE print_ptree
  <2>1. Displayed(owner, anc)' /\ Printing' /\ Ended'
    BY <1>1, <1>3, <1>8, PrintDisplays
  <2>2. Placed(who, owner, anc, age)'
    BY <1>3, <1>8, OutcomeOnly DEF print_ptree
  <2>3. UNCHANGED <<kernel, tree, stack>>
    BY <1>8 DEF print_ptree
  <2>4. Steadily(who, owner, anc, on)'
    BY <1>3, <2>3, SteadilyEnds
  <2>5. Meant'
    BY <2>1, <2>2, <2>4 DEF Meant
  <2> QED
    BY <1>2, <1>4, <2>1, <2>3, <2>5 DEF Sound
<1> QED
  BY <1>5, <1>6, <1>7, <1>8 DEF Next, ptree

--------------------------------------------------------------------------------
(* Types, once the structure is known to be sound: in particular, no activation points
   behind what was allocated. *)
LEMMA SoundTypes == Sound => PtreeTypeOK
<1> SUFFICES ASSUME Sound PROVE PtreeTypeOK
  OBVIOUS
<1>1. Linked /\ LinkTypes /\ Related /\ Ended /\ Printing
  BY DEF Sound, Linked
<1>2. PICK n : n = Len(tree)
  OBVIOUS
<1>3. n \in Nat /\ tree \in Seq(Blocks) /\ DOMAIN tree = 1 .. n
  BY <1>1, <1>2 DEF LinkTypes
<1>4. tree \in Seq(Nodes)
  <2>1. \A a \in 1 .. n : tree[a] \in Blocks
    BY <1>2, <1>3
  <2>2. ASSUME NEW a \in 1 .. n PROVE tree[a] \in Nodes
    <3>1. /\ tree[a].child_procs \in {0} \cup (a + 1 .. n)
          /\ tree[a].next_sibling \in {0} \cup (a + 1 .. n)
      BY <1>1, <1>2, <1>3 DEF Linked, LinksGoForward
    <3>2. tree[a].child_procs \in 0 .. n /\ tree[a].next_sibling \in 0 .. n
      BY <1>3, <3>1
    <3> QED
      BY <1>2, <2>1, <3>2 DEF Blocks, Nodes
  <2> QED
    BY <1>2, <1>3, <2>2
<1>5. stack \in Seq(Activations)
  <2>1. PICK l : l = Len(stack)
    OBVIOUS
  <2>2. stack \in Seq(Calls) /\ l \in Nat /\ \A k \in 1 .. l : stack[k] \in Calls
    BY <1>1, <2>1 DEF LinkTypes
  <2>3. ASSUME NEW k \in 1 .. l PROVE stack[k] \in Activations
    <3>1. PICK s : s = stack[k]
      OBVIOUS
    <3>2. s \in Calls /\ InArray(s, n)
      BY <1>1, <1>2, <2>1, <2>2, <3>1 DEF Linked
    <3>3. s.step \notin AtChildren => s.child = 0
      BY <1>1, <2>1, <3>1 DEF Sound, Meant, Placed, Nested, Frame
    <3>4. s.child \in 0 .. n
      <4>1. CASE s.step \in AtChildren
        <5>1. /\ s.child + Len(s.children) - 1 <= n /\ s.i < Len(s.children)
              /\ s.child \in Nat /\ s.i \in Nat /\ Len(s.children) \in Nat
          BY <3>2, <4>1 DEF InArray, AtChildren, Calls
        <5> QED
          BY <1>3, <5>1
      <4>2. CASE s.step \notin AtChildren
        BY <1>3, <3>3, <4>2
      <4> QED
        BY <4>1, <4>2
    <3>5. s.node \in 1 .. n
      BY <3>2 DEF InArray
    <3> QED
      BY <1>2, <3>1, <3>2, <3>4, <3>5 DEF Calls, Activations, Steps
  <2> QED
    BY <2>1, <2>2, <2>3
<1>6. lines \in Seq([pid : {0} \cup Pids, name : BOOLEAN, depth : Nat])
  BY <1>1 DEF Printing, Rows
<1> QED
  BY <1>1, <1>4, <1>5, <1>6 DEF PtreeTypeOK, LinkTypes, Related, Ended, Printing

(* What a printed line stands for, when there are any. *)
LEMMA LinesStandFor ==
  ASSUME Sound, lines # <<>>
  PROVE  \E who, owner, anc, at :
           /\ Labels(who) /\ Kinship(who, owner) /\ Shown(lines, at, 1, 0, owner, anc)
           /\ \A k \in DOMAIN lines : lines[k].pid = 0 => status[who[at[k]]] = "gone"
<1>1. PICK who, owner, anc, age : Placed(who, owner, anc, age) /\ Displayed(owner, anc)
  BY DEF Sound, Meant
<1>2. PICK at : Shown(lines, at, 1, 0, owner, anc)
  BY <1>1 DEF Displayed
<1>3. outcome = "printed" /\ stack = <<>>
  BY DEF Sound, Printing, Ended
<1>4. Left = {} /\ ~ Named
  BY <1>3 DEF Left, Named
<1>5. \A a \in Ns : tree[a].pid = 0 => status[who[a]] = "gone"
  BY <1>1, <1>3, <1>4 DEF Placed, Skipped
<1>6. \A k \in DOMAIN lines : at[k] \in Ns /\ lines[k].pid = tree[at[k]].pid
  BY <1>2 DEF Shown
<1>7. \A k \in DOMAIN lines : lines[k].pid = 0 => status[who[at[k]]] = "gone"
  BY <1>5, <1>6
<1> QED
  BY <1>1, <1>2, <1>7 DEF Placed

(* What the lines of those that have run all the time stand for. *)
LEMMA SteadyLines ==
  ASSUME Sound, lines # <<>>
  PROVE  \E who, owner, anc, on, at :
           /\ Labels(who) /\ Pointers(owner, anc)
           /\ Shown(lines, at, 1, 0, owner, anc) /\ Led(lines, at, 0, max_depth, anc)
           /\ Chained(who, on) /\ Families(who, owner, anc)
           /\ \A a \in Ns : who[a] \in steady =>
                tree[a].pid = who[a] /\ tree[a].name = TRUE /\ a \in on
<1>1. PICK who, owner, anc, age, on :
        /\ Placed(who, owner, anc, age) /\ Steadily(who, owner, anc, on)
        /\ Displayed(owner, anc)
  BY DEF Sound, Meant
<1>2. PICK at : Shown(lines, at, 1, 0, owner, anc) /\ Led(lines, at, 0, max_depth, anc)
  BY <1>1 DEF Displayed
<1>3. outcome = "printed" /\ stack = <<>>
  BY DEF Sound, Printing, Ended
<1>4. Left = {} /\ ~ Named
  BY <1>3 DEF Left, Named
<1>5. \A a \in Ns : tree[a].pid = 0 => status[who[a]] = "gone"
  BY <1>1, <1>3, <1>4 DEF Placed, Skipped
<1>6. ASSUME NEW a \in Ns, who[a] \in steady
      PROVE  tree[a].pid = who[a] /\ tree[a].name = TRUE /\ a \in on
  <2>1. status[who[a]] = "runs"
    BY <1>6 DEF Sound, Related
  <2>2. tree[a].pid # 0
    BY <1>5, <2>1
  <2>3. tree[a].pid = who[a]
    BY <1>1, <2>2 DEF Placed, Labels
  <2>4. tree[a].name = TRUE
    BY <1>1, <1>6, <2>2 DEF Steadily, Complete
  <2>5. a \in on
    BY <1>1, <1>6, <2>2 DEF Steadily, Chained
  <2> QED
    BY <2>3, <2>4, <2>5
<1> QED
  BY <1>1, <1>2, <1>6 DEF Placed, Steadily

(* A node in on, below that of line k, whose children may be printed. *)
ChildOf(x, L, at, k, limit, who, owner, anc, on) ==
  /\ Pointers(owner, anc) /\ Chained(who, on)
  /\ L \in Seq(Rows) /\ limit \in Int /\ Led(L, at, 0, limit, anc)
  /\ k \in 1 .. Len(L) /\ Deeper(limit, L[k].depth) /\ at[k] \in Ns
  /\ x \in on /\ owner[x] = at[k] /\ anc[x] = anc[at[k]] \cup {at[k]}

(* Its line, below line k. *)
HasLine(x, L, at, k) ==
  \E l \in 1 .. Len(L) : /\ k < l /\ at[l] = x /\ L[l].depth = L[k].depth + 1
                         /\ \A m \in k + 1 .. l : L[k].depth < L[m].depth

(* A child that is reached has a line below that of its parent, if the limit leaves room:
   the first that had none would have to be led to by one without. *)
LEMMA ChildrenShown ==
  ASSUME Linked, NEW L, NEW at, NEW k, NEW x, NEW limit, NEW who, NEW owner, NEW anc, NEW on,
         ChildOf(x, L, at, k, limit, who, owner, anc, on)
  PROVE  HasLine(x, L, at, k)
<1> SUFFICES ASSUME Pointers(owner, anc), Chained(who, on), L \in Seq(Rows), limit \in Int,
                    Led(L, at, 0, limit, anc), k \in 1 .. Len(L), Deeper(limit, L[k].depth),
                    NEW y, y = at[k], y \in Ns,
                    x \in on, owner[x] = y, anc[x] = anc[y] \cup {y}
             PROVE  \E l \in 1 .. Len(L) :
                      /\ k < l /\ at[l] = x /\ L[l].depth = L[k].depth + 1
                      /\ \A m \in k + 1 .. l : L[k].depth < L[m].depth
  BY Zenon DEF ChildOf, HasLine
<1>1. PICK n : n = Len(L)
  OBVIOUS
<1>2. PICK d : d = L[k].depth
  OBVIOUS
<1>3. /\ n \in Nat /\ d \in Nat /\ k \in 1 .. n /\ \A m \in 1 .. n : L[m].depth \in Nat
  <2>1. n \in Nat /\ \A m \in 1 .. n : L[m] \in Rows
    BY <1>1
  <2>2. \A m \in 1 .. n : L[m].depth \in Nat
    BY <2>1 DEF Rows
  <2> QED
    BY <1>1, <1>2, <2>1, <2>2
<1>4. limit >= 0
  <2>1. limit = 0 \/ limit > d + 1
    BY <1>2 DEF Deeper
  <2> QED
    BY <1>3, <2>1
<1>5. on \subseteq Nat \ {0} /\ on \subseteq Ns /\ y \in Nat /\ y # 0
  BY DEF Chained, Ns
<1> DEFINE Found(z) == \E l \in 1 .. n : /\ k < l /\ at[l] = z /\ L[l].depth = d + 1
                                         /\ \A m \in k + 1 .. l : d < L[m].depth
           Bad == {z \in on : owner[z] = y /\ anc[z] = anc[y] \cup {y} /\ ~ Found(z)}
<1>6. SUFFICES ASSUME Bad # {} PROVE FALSE
  <2>1. SUFFICES ASSUME Bad = {} PROVE Found(x)
    BY <1>1, <1>2, <1>6, Zenon
  <2> QED
    BY <2>1
<1>7. PICK b \in Bad : \A z \in Bad : b <= z
  <2>1. Bad \in SUBSET Nat
    BY <1>5
  <2> QED
    BY <1>6, <2>1, HasLeast, Zenon
<1>8. b \in on /\ owner[b] = y /\ anc[b] = anc[y] \cup {y} /\ ~ Found(b)
  BY <1>7, Zenon
<1>9. \A z \in on : owner[z] = y /\ anc[z] = anc[y] \cup {y} /\ ~ (b <= z) => Found(z)
  BY <1>7, Zenon
<1> HIDE DEF Bad
<1>10. b # 1 /\ b \in Nat /\ b # 0
  <2>1. y < b
    BY <1>5, <1>8 DEF Pointers
  <2> QED
    BY <1>5, <1>8, <2>1
<1>11. PICK z \in on : LeadsTo(z, b)
  BY <1>8, <1>10 DEF Chained
<1>12. z \in Ns /\ z \in Nat
  BY <1>5
<1>13. CASE tree[z].child_procs = b
  <2>1. z = y
    BY <1>8, <1>10, <1>12, <1>13 DEF Pointers
  <2>2. k + 1 \in 1 .. n /\ at[k + 1] = b /\ L[k + 1].depth = d + 1
    BY <1>1, <1>2, <1>10, <1>13, <2>1 DEF Led, LeadsOn
  <2>3. k < k + 1 /\ \A m \in k + 1 .. k + 1 : d < L[m].depth
    BY <1>3, <2>2
  <2> QED
    BY <1>8, <2>2, <2>3
<1>14. CASE tree[z].next_sibling = b
  <2>1. owner[z] = y /\ anc[z] = anc[y] \cup {y}
    BY <1>8, <1>10, <1>12, <1>14 DEF Pointers
  <2>2. ~ (b <= z)
    BY <1>10, <1>12, <1>14 DEF Linked, LinkTypes, LinksGoForward, Ns
  <2>3. Found(z)
    BY <1>9, <2>1, <2>2
  <2>4. PICK l \in 1 .. n : /\ k < l /\ at[l] = z /\ L[l].depth = d + 1
                           /\ \A m \in k + 1 .. l : d < L[m].depth
    BY <2>3
  <2>5. LeadsOn(L, at, l, limit)
    BY <1>1 DEF Led
  <2>6. PICK h \in l + 1 .. n : /\ at[h] = b /\ L[h].depth = d + 1
                               /\ \A m \in l + 1 .. h - 1 : d + 1 < L[m].depth
    BY <1>1, <1>4, <1>10, <1>14, <2>4, <2>5 DEF LeadsOn
  <2>7. ASSUME NEW m \in k + 1 .. h PROVE d < L[m].depth
    <3>1. m \in 1 .. n /\ (m \in k + 1 .. l \/ m \in l + 1 .. h - 1 \/ m = h)
      BY <1>3, <2>4, <2>6
    <3>2. CASE m \in k + 1 .. l
      BY <2>4, <3>2
    <3>3. CASE m \in l + 1 .. h - 1
      <4>1. d + 1 < L[m].depth
        BY <2>6, <3>3
      <4> QED
        BY <1>3, <3>1, <4>1
    <3>4. CASE m = h
      BY <1>3, <2>6, <3>4
    <3> QED
      BY <3>1, <3>2, <3>3, <3>4
  <2>8. h \in 1 .. n /\ k < h
    BY <1>3, <2>4
  <2>9. Found(b)
    BY <2>6, <2>7, <2>8
  <2> QED
    BY <1>8, <2>9
<1> QED
  BY <1>11, <1>13, <1>14 DEF LeadsTo

(* The nodes of those that have run all the time are named and reached, and those of
   their children are. *)
LEMMA SoundSteady == Sound => SteadyShown
<1> SUFFICES ASSUME Sound, outcome = "printed" PROVE SteadyShown
  BY DEF SteadyShown
<1>1. /\ lines \in Seq(Rows) /\ lines # <<>> /\ max_depth \in {0} \cup Depths
      /\ Linked /\ Related
  BY DEF Sound, Printing
<1>2. max_depth \in Int /\ steady \subseteq Pids
  BY <1>1, PtreeAssumption DEF Related
<1>3. PICK who, owner, anc, on, at :
        /\ Labels(who) /\ Pointers(owner, anc)
        /\ Shown(lines, at, 1, 0, owner, anc) /\ Led(lines, at, 0, max_depth, anc)
        /\ Chained(who, on) /\ Families(who, owner, anc)
        /\ \A a \in Ns : who[a] \in steady =>
             tree[a].pid = who[a] /\ tree[a].name = TRUE /\ a \in on
  BY <1>1, SteadyLines
<1>4. DOMAIN lines = 1 .. Len(lines) /\ Len(lines) \in Nat /\ 1 \in DOMAIN lines
  BY <1>1
<1>5. ASSUME NEW l \in DOMAIN lines
      PROVE  /\ lines[l] \in Rows /\ at[l] \in Ns
             /\ lines[l].pid = tree[at[l]].pid /\ lines[l].name = tree[at[l]].name
             /\ lines[l].depth \in Nat
  <2>1. lines[l] \in Rows
    BY <1>1
  <2>2. at[l] \in Ns /\ lines[l].pid = tree[at[l]].pid
    BY <1>3, <1>4 DEF Shown
  <2>3. lines[l].name = tree[at[l]].name
    BY <1>3, <1>4 DEF Led, LeadsOn
  <2> QED
    BY <2>1, <2>2, <2>3 DEF Rows
<1>6. ASSUME NEW l \in DOMAIN lines, NEW p \in Pids, NEW d,
             lines[l].pid = p, lines[l].name = TRUE, lines[l].depth = d
      PROVE  lines[l] = [pid |-> p, name |-> TRUE, depth |-> d]
  BY <1>5, <1>6 DEF Rows
(* Whose pid stands in a line is the one that the node is meant for. *)
<1>7. ASSUME NEW l \in DOMAIN lines, lines[l].pid \in steady
      PROVE  who[at[l]] = lines[l].pid
  BY <1>2, <1>3, <1>5, <1>7 DEF Labels, Pids
<1>8. ASSUME pid \in steady
      PROVE  lines[1] = [pid |-> pid, name |-> TRUE, depth |-> 0]
  <2>1. at[1] = 1 /\ lines[1].depth = 0 /\ who[1] = pid /\ 1 \in Ns
    BY <1>1, <1>3, <1>5, <1>4 DEF Shown, Led, Labels
  <2>2. lines[1].pid = pid /\ lines[1].name = TRUE
    BY <1>3, <1>4, <1>5, <1>8, <2>1
  <2>3. pid \in Pids
    BY <1>2, <1>8
  <2> QED
    BY <1>4, <1>6, <2>1, <2>2, <2>3
<1>9. ASSUME NEW k \in DOMAIN lines, lines[k].pid \in steady,
             max_depth = 0 \/ max_depth > lines[k].depth + 1,
             NEW forked, forked = born[lines[k].pid]
      PROVE  /\ \A i \in DOMAIN forked : forked[i] \in steady =>
                   \E l \in DOMAIN lines :
                     /\ Under(k, l)
                     /\ lines[l] =
                          [pid |-> forked[i], name |-> TRUE, depth |-> lines[k].depth + 1]
             /\ \A i, j \in DOMAIN forked, l, m \in DOMAIN lines :
                   i < j /\ {forked[i], forked[j]} \subseteq steady
                   /\ lines[l].pid = forked[i] /\ lines[m].pid = forked[j] => l < m
  <2>1. PICK y : y = at[k]
    OBVIOUS
  <2>2. PICK p : p = lines[k].pid
    OBVIOUS
  <2>3. /\ y \in Ns /\ p \in steady /\ p \in Pids /\ who[y] = p /\ tree[y].pid = p /\ p # 0
        /\ forked = born[p]
    <3>1. y \in Ns /\ p \in steady /\ who[y] = p /\ lines[k].pid = tree[y].pid
      BY <1>5, <1>7, <1>9, <2>1, <2>2, Zenon
    <3>2. p \in Pids
      BY <1>2, <3>1, Zenon
    <3>3. p # 0
      BY <3>2 DEF Pids
    <3> QED
      BY <1>9, <2>2, <3>1, <3>2, <3>3, Zenon
  <2>4. PICK c \in Nat, list \in Seq(Pids) :
          Holding(p, list) /\ Array(y, c, list, who, owner, anc)
    BY <1>3, <2>3 DEF Families
  <2>5. ASSUME NEW u \in DOMAIN list
        PROVE  /\ c + u \in Ns /\ who[c + u] = list[u] /\ owner[c + u] = y
               /\ anc[c + u] = anc[y] \cup {y}
    BY <2>4 DEF Array
  <2>6. ASSUME NEW i \in DOMAIN forked, forked[i] \in steady
        PROVE  \E l \in DOMAIN lines :
                 /\ Under(k, l)
                 /\ lines[l] = [pid |-> forked[i], name |-> TRUE, depth |-> lines[k].depth + 1]
    <3>1. PICK u \in DOMAIN list : list[u] = forked[i]
      BY <2>3, <2>4, <2>6 DEF Holding
    <3>2. PICK x : x = c + u
      OBVIOUS
    <3>3. /\ x \in Ns /\ who[x] = forked[i] /\ owner[x] = y /\ anc[x] = anc[y] \cup {y}
      BY <2>5, <3>1, <3>2
    <3>4. tree[x].pid = forked[i] /\ tree[x].name = TRUE /\ x \in on
      BY <1>3, <2>6, <3>3
    <3>5. Deeper(max_depth, lines[k].depth)
      BY <1>9 DEF Deeper
    <3>6. PICK l \in 1 .. Len(lines) :
            /\ k < l /\ at[l] = x /\ lines[l].depth = lines[k].depth + 1
            /\ \A m \in k + 1 .. l : lines[k].depth < lines[m].depth
      <4>1. Linked /\ lines \in Seq(Rows) /\ max_depth \in Int /\ k \in 1 .. Len(lines)
        BY <1>1, <1>2, <1>4, Zenon
      <4>2. Pointers(owner, anc) /\ Chained(who, on) /\ Led(lines, at, 0, max_depth, anc)
        BY <1>3, Zenon
      <4>3. x \in on /\ owner[x] = y /\ anc[x] = anc[y] \cup {y} /\ y \in Ns
        BY <2>3, <3>3, <3>4, Zenon
      <4>4. ChildOf(x, lines, at, k, max_depth, who, owner, anc, on)
        BY <2>1, <3>5, <4>1, <4>2, <4>3, Zenon DEF ChildOf
      <4>5. HasLine(x, lines, at, k)
        BY <4>1, <4>4, ChildrenShown, Zenon
      <4> QED
        BY <4>5, Zenon DEF HasLine
    <3>7. l \in DOMAIN lines /\ Under(k, l)
      BY <1>4, <3>6 DEF Under
    <3>8. lines[l].pid = forked[i] /\ lines[l].name = TRUE
      BY <1>5, <3>4, <3>6, <3>7
    <3>9. forked[i] \in Pids
      BY <1>2, <2>6
    <3>10. lines[l] = [pid |-> forked[i], name |-> TRUE, depth |-> lines[k].depth + 1]
      BY <1>6, <3>6, <3>7, <3>8, <3>9
    <3> QED
      BY <3>7, <3>10
  <2>7. ASSUME NEW i \in DOMAIN forked, NEW l \in DOMAIN lines, forked[i] \in steady,
               lines[l].pid = forked[i], NEW u \in DOMAIN list, list[u] = forked[i]
        PROVE  at[l] = c + u
    <3>1. who[at[l]] = forked[i] /\ at[l] \in Ns
      BY <1>5, <1>7, <2>7
    <3>2. who[c + u] = forked[i] /\ c + u \in Ns
      BY <2>5, <2>7
    <3> QED
      BY <1>3, <3>1, <3>2 DEF Labels
  <2>8. ASSUME NEW i \in DOMAIN forked, NEW j \in DOMAIN forked,
               NEW l \in DOMAIN lines, NEW m \in DOMAIN lines,
               i < j, forked[i] \in steady, forked[j] \in steady,
               lines[l].pid = forked[i], lines[m].pid = forked[j]
        PROVE  l < m
    <3>1. PICK u \in DOMAIN list : list[u] = forked[i]
      BY <2>3, <2>4, <2>8 DEF Holding
    <3>2. PICK v \in DOMAIN list : list[v] = forked[j]
      BY <2>3, <2>4, <2>8 DEF Holding
    <3>3. u < v
      BY <2>3, <2>4, <2>8, <3>1, <3>2 DEF Holding
    <3>4. at[l] = c + u /\ at[m] = c + v
      BY <2>7, <2>8, <3>1, <3>2
    <3>5. anc[at[l]] = anc[at[m]]
      BY <2>5, <3>4
    <3>6. u \in Nat /\ v \in Nat /\ l \in 1 .. Len(lines) /\ m \in 1 .. Len(lines)
      BY <1>4, <2>4
    <3>7. at[l] < at[m] /\ at[l] \in Nat /\ at[m] \in Nat
      BY <2>4, <3>3, <3>4, <3>6
    <3>8. m < l => at[m] < at[l]
      BY <1>3, <3>5, <3>6 DEF Led
    <3>9. l # m /\ ~ (m < l)
      BY <3>7, <3>8
    <3> QED
      BY <3>6, <3>9
  <2> QED
    BY <2>6, <2>8
<1>10. ASSUME NEW k \in DOMAIN lines, lines[k].pid \in steady,
              max_depth = 0 \/ max_depth > lines[k].depth + 1
       PROVE  LET forked == born[lines[k].pid] IN
                /\ \A i \in DOMAIN forked : forked[i] \in steady =>
                     \E l \in DOMAIN lines :
                       /\ Under(k, l)
                       /\ lines[l] =
                            [pid |-> forked[i], name |-> TRUE, depth |-> lines[k].depth + 1]
                /\ \A i, j \in DOMAIN forked, l, m \in DOMAIN lines :
                     i < j /\ {forked[i], forked[j]} \subseteq steady
                     /\ lines[l].pid = forked[i] /\ lines[m].pid = forked[j] => l < m
  <2>1. PICK forked : forked = born[lines[k].pid]
    OBVIOUS
  <2> QED
    BY <1>9, <1>10, <2>1
<1> QED
  BY <1>1, <1>8, <1>10, Zenon DEF SteadyShown

(* The nodes of empty lines were meant for processes that are gone. *)
LEMMA SoundMisses == Sound => OnlyTheGoneAreMissed
<1> SUFFICES ASSUME Sound PROVE OnlyTheGoneAreMissed
  OBVIOUS
<1> DEFINE gone == {p \in Pids : status[p] = "gone"}
           empty == {k \in DOMAIN lines : lines[k].pid = 0}
<1>1. Ended /\ Printing
  BY DEF Sound
<1>2. IsFiniteSet(gone)
  <2>1. IsFiniteSet(Pids)
    <3>1. 1 \in Int /\ MaxPid \in Int
      BY PtreeAssumption
    <3> QED
      BY <3>1, FS_Interval DEF Pids
  <2> QED
    BY <2>1, FS_Subset
<1>3. /\ Cardinality(empty) <= Cardinality(gone)
      /\ \A k, l \in DOMAIN lines \ empty : lines[k].pid = lines[l].pid => k = l
  <2>1. CASE lines = <<>>
    <3>1. empty = {} /\ DOMAIN lines = {}
      BY <2>1
    <3>2. Cardinality(empty) = 0
      BY <3>1, FS_EmptySet
    <3>3. Cardinality(gone) \in Nat
      BY <1>2, FS_CardinalityType
    <3>4. Cardinality(empty) <= Cardinality(gone)
      <4> HIDE DEF empty, gone
      <4> QED
        BY <3>2, <3>3
    <3> QED
      BY <3>1, <3>4
  <2>2. CASE lines # <<>>
    <3>1. PICK who, owner, anc, at :
            /\ Labels(who) /\ Kinship(who, owner) /\ Shown(lines, at, 1, 0, owner, anc)
            /\ \A k \in DOMAIN lines : lines[k].pid = 0 => status[who[at[k]]] = "gone"
      BY <2>2, LinesStandFor
    <3>2. \A k \in DOMAIN lines : /\ at[k] \in Ns /\ who[at[k]] \in Pids
                                  /\ lines[k].pid = tree[at[k]].pid
      BY <3>1 DEF Shown, Labels
    <3>3. \A k, l \in DOMAIN lines : who[at[k]] = who[at[l]] => k = l
      BY <3>1, <3>2 DEF Shown, Labels
    <3>4. PICK f : f = [k \in empty |-> who[at[k]]]
      OBVIOUS
    <3>5. f \in Injection(empty, gone)
      <4>1. f \in [empty -> gone]
        BY <3>1, <3>2, <3>4
      <4>2. \A k, l \in empty : f[k] = f[l] => k = l
        BY <3>3, <3>4
      <4> HIDE DEF empty, gone
      <4> QED
        BY <4>1, <4>2 DEF Injection, IsInjective
    <3>6. Cardinality(empty) <= Cardinality(gone)
      <4> HIDE DEF empty, gone
      <4> QED
        BY <1>2, <3>5, FS_Injection
    <3>7. \A k \in DOMAIN lines \ empty : lines[k].pid = who[at[k]]
      BY <3>1, <3>2 DEF Labels
    <3> QED
      BY <3>3, <3>6, <3>7
  <2> QED
    BY <2>1, <2>2
<1>4. outcome = "segv" => gone # {} \/ left = 0
  BY <1>1 DEF Ended
<1>5. outcome = "failed" => pid \notin steady
  BY <1>1 DEF Ended
<1> QED
  BY <1>3, <1>4, <1>5, Zenon DEF OnlyTheGoneAreMissed

(* The line that a line hangs on is the last one above it that is one level higher. *)
LEMMA HangsOnLast ==
  ASSUME NEW L \in Seq(Rows), NEW at, NEW owner, NEW k \in 1 .. Len(L), NEW l \in 1 .. k - 1,
         HangsOn(L, at, l, k, owner)
  PROVE  Max({m \in 1 .. k - 1 : L[m].depth = L[k].depth - 1}) = l
<1> DEFINE above == {m \in 1 .. k - 1 : L[m].depth = L[k].depth - 1}
<1>1. Len(L) \in Nat /\ \A m \in 1 .. Len(L) : L[m] \in Rows
  OBVIOUS
<1>2. \A m \in 1 .. Len(L) : L[m].depth \in Nat
  BY <1>1 DEF Rows
<1>3. l \in above
  BY DEF HangsOn
<1>4. ASSUME NEW m \in above PROVE l >= m
  <2>1. SUFFICES ASSUME ~ (l >= m) PROVE FALSE
    OBVIOUS
  <2>2. m \in l + 1 .. k - 1 /\ m \in 1 .. Len(L)
    BY <1>1, <2>1
  <2>3. L[k].depth <= L[m].depth
    BY <2>2 DEF HangsOn
  <2> QED
    BY <1>2, <2>2, <2>3
<1>5. \A m \in above : (\A y \in above : m >= y) => m = l
  <2>1. ASSUME NEW m \in above, \A y \in above : m >= y PROVE m = l
    <3>1. m >= l /\ l >= m
      BY <1>3, <1>4, <2>1
    <3>2. m \in Nat /\ l \in Nat
      BY <1>1
    <3> QED
      BY <3>1, <3>2
  <2> QED
    BY <2>1
<1> HIDE DEF above
<1>6. Max(above) = l
  BY <1>3, <1>4, <1>5, Zenon DEF Max
<1> QED
  BY <1>6 DEF above

(* The line that a line hangs on is that of the owner of its node. *)
LEMMA SoundAbove == Sound => ShownBelowParent
<1> SUFFICES ASSUME Sound, NEW k \in DOMAIN lines, lines[k].depth > 0, lines[k].pid # 0
             PROVE  LET above == {l \in 1 .. k - 1 : lines[l].depth = lines[k].depth - 1}
                        parent == lines[Max(above)].pid IN
                      \E q \in Pids :
                        /\ lines[k].pid \in Range(born[q])
                        /\ parent = q \/ (parent = init /\ status[q] \in {"zombie", "gone"})
  BY DEF ShownBelowParent
<1>1. lines \in Seq(Rows) /\ k \in 1 .. Len(lines) /\ lines # <<>>
  BY DEF Sound, Printing
<1>2. PICK who, owner, anc, at :
        /\ Labels(who) /\ Kinship(who, owner) /\ Shown(lines, at, 1, 0, owner, anc)
  BY <1>1, LinesStandFor
<1>3. PICK l \in 1 .. k - 1 : HangsOn(lines, at, l, k, owner)
  <2>1. lines[k].depth \in Nat
    <3>1. lines[k] \in Rows
      BY <1>1
    <3> QED
      BY <3>1 DEF Rows
  <2>2. 0 < lines[k].depth
    BY <2>1
  <2> QED
    BY <1>1, <1>2, <2>2 DEF Shown
<1>4. l \in 1 .. Len(lines) /\ 1 \in 1 .. Len(lines) /\ k # 1
  BY <1>1
<1>5. /\ at[k] \in Ns /\ at[l] \in Ns /\ at[1] = 1 /\ at[k] # 1
      /\ lines[k].pid = tree[at[k]].pid /\ lines[l].pid = tree[at[l]].pid
  BY <1>1, <1>2, <1>4 DEF Shown
<1>6. lines[k].pid = who[at[k]]
  BY <1>2, <1>5 DEF Labels
<1>7. lines[l].pid = who[at[l]]
  BY <1>2, <1>3, <1>5 DEF Labels, HangsOn
<1>8. owner[at[k]] = at[l]
  BY <1>3 DEF HangsOn
<1>9. BelongsTo(who[at[k]], who[owner[at[k]]])
  BY <1>2, <1>5 DEF Kinship
<1>10. BelongsTo(lines[k].pid, lines[l].pid)
  BY <1>6, <1>7, <1>8, <1>9
<1>11. Max({m \in 1 .. k - 1 : lines[m].depth = lines[k].depth - 1}) = l
  BY <1>1, <1>3, HangsOnLast
<1> QED
  BY <1>10, <1>11 DEF BelongsTo, Dead

(* Every pointer of the structure and of every activation leads to memory that was
   allocated, and every line printed has a type. *)
THEOREM PtreeTypes == Spec => []PtreeTypeOK
BY SoundInit, SoundStep, SoundTypes, PTL DEF Spec

(* An empty line stands for a process that is gone, each for another; nobody is printed
   twice, whatever forks, ends and is reaped between two reads of /proc. *)
THEOREM NobodyElseIsMissed == Spec => []OnlyTheGoneAreMissed
BY SoundInit, SoundStep, SoundMisses, PTL DEF Spec

(* Whoever has run all the time is printed, with its name and below its parent, if all
   above it have run all the time too: the elder before the younger. *)
THEOREM TheSteadyAreShown == Spec => []SteadyShown
BY SoundInit, SoundStep, SoundSteady, PTL DEF Spec

(* Every process is printed below the one that forked it, or below init, to which it
   went when that one ended. *)
THEOREM AlwaysBelowParent == Spec => []ShownBelowParent
BY SoundInit, SoundStep, SoundAbove, PTL DEF Spec
================================================================================
