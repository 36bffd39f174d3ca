--------------------------------- MODULE MCPtree -------------------------------
(* Families of five processes, for TLC. *)
EXTENDS Ptree

Kids(of1, of2, of3) == [p \in Pids |-> CASE p = 1 -> of1 [] p = 2 -> of2 [] p = 3 -> of3
                                           [] OTHER -> <<>>]

(* Siblings, two generations of them, and three with a process yet to be forked. *)
Families ==
  {Kids(<<2, 3, 4, 5>>, <<>>, <<>>), Kids(<<2, 5>>, <<4, 3>>, <<>>),
   Kids(<<2>>, <<3, 4>>, <<>>)}

(* Enough for two files of each, and too few for the second or the third process. *)
SomeLimits == {3, 4, 2 * MaxPid}

SomeDepths == {-1, 0, 2}
================================================================================
