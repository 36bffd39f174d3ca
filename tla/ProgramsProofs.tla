----------------------------- MODULE ProgramsProofs ----------------------------
(***************************************************************************)
(* Proofs about the small programs: each one for all its inputs, sizes and *)
(* limits, first alone, then side by side as MCPrograms runs them.         *)
(***************************************************************************)
EXTENDS FiniteSetTheorems, Minimum, MCPrograms, ChatClientProofs

(* What a sequence has at one of its places. *)
LEMMA MemberOf ==
  ASSUME NEW T, NEW s \in Seq(T), NEW l \in DOMAIN s
  PROVE  s[l] \in T
  OBVIOUS

(* A sequence over a set is one over any larger set. *)
LEMMA SeqGrows ==
  ASSUME NEW S, NEW T, S \subseteq T, NEW s \in Seq(S)
  PROVE  s \in Seq(T)
  OBVIOUS

(* Induction on the naturals, for the members of a set. *)
LEMMA AllNaturals ==
  ASSUME NEW S \in SUBSET Nat, 0 \in S, \A k \in S : k + 1 \in S
  PROVE  S = Nat
<1> SUFFICES ASSUME Nat \ S # {} PROVE FALSE
  OBVIOUS
<1>1. PICK x \in Nat \ S : \A y \in Nat \ S : x <= y
  <2>1. Nat \ S \in SUBSET Nat
    OBVIOUS
  <2> QED
    BY <2>1, HasLeast, Zenon
<1>2. x # 0 /\ x \in Nat
  BY <1>1
<1>3. x - 1 \in Nat /\ ~ (x <= x - 1) /\ (x - 1) + 1 = x
  BY <1>2
<1>4. x - 1 \in S
  BY <1>1, <1>3, Zenon
<1>5. x \in S
  BY <1>3, <1>4, Zenon
<1> QED
  BY <1>1, <1>5, Zenon

(* A function is defined by its first value and by the step from each to the next. *)
StartsAs(f, n, V, a, h) ==
  f \in [0 .. n -> V] /\ f[0] = a /\ \A k \in 0 .. n - 1 : f[k + 1] = h[<<k, f[k]>>]

Defines(V, a, h) == a \in V /\ h \in [Nat \X V -> V]

Defined(f, V, a, h) ==
  f \in [Nat -> V] /\ f[0] = a /\ \A k \in Nat : f[k + 1] = h[<<k, f[k]>>]

LEMMA Beginnings ==
  ASSUME NEW V, NEW a, NEW h, Defines(V, a, h)
  PROVE  \A n \in Nat : \E f : StartsAs(f, n, V, a, h)
<1> USE DEF Defines
<1> DEFINE S == {n \in Nat : \E f : StartsAs(f, n, V, a, h)}
<1>1. 0 \in S
  <2> DEFINE f == [k \in 0 .. 0 |-> a]
  <2>1. StartsAs(f, 0, V, a, h)
    BY DEF StartsAs
  <2> QED
    BY <2>1, Zenon
<1>2. ASSUME NEW n \in S PROVE n + 1 \in S
  <2>1. n \in Nat /\ n + 1 \in Nat
    OBVIOUS
  <2>2. PICK f : StartsAs(f, n, V, a, h)
    BY Zenon
  <2> DEFINE g == [k \in 0 .. n + 1 |-> IF k = n + 1 THEN h[<<n, f[n]>>] ELSE f[k]]
  <2>3. f[n] \in V /\ h[<<n, f[n]>>] \in V
    BY <2>1, <2>2 DEF StartsAs
  <2>4. \A k \in 0 .. n : k \in 0 .. n + 1 /\ g[k] = f[k] /\ f[k] \in V
    BY <2>1, <2>2 DEF StartsAs
  <2>5. g[n + 1] = h[<<n, f[n]>>]
    BY <2>1
  <2>6. \A k \in 0 .. n + 1 : k = n + 1 \/ k \in 0 .. n
    BY <2>1
  <2>7. g \in [0 .. n + 1 -> V]
    BY <2>3, <2>4, <2>5, <2>6
  <2> HIDE DEF g
  <2>8. ASSUME NEW k \in 0 .. (n + 1) - 1 PROVE g[k + 1] = h[<<k, g[k]>>]
    <3>1. k \in 0 .. n
      BY <2>1
    <3>2. CASE k = n
      BY <2>4, <2>5, <3>1, <3>2
    <3>3. CASE k # n
      <4>1. k \in 0 .. n - 1 /\ k + 1 \in 0 .. n
        BY <2>1, <3>1, <3>3
      <4>2. f[k + 1] = h[<<k, f[k]>>]
        BY <2>2, <4>1, Zenon DEF StartsAs
      <4> QED
        BY <2>4, <3>1, <4>1, <4>2, Zenon
    <3> QED
      BY <3>2, <3>3
  <2>9. g[0] = a
    <3>1. 0 \in 0 .. n
      BY <2>1
    <3> QED
      BY <2>2, <2>4, <3>1, Zenon DEF StartsAs
  <2>10. StartsAs(g, n + 1, V, a, h)
    BY <2>7, <2>8, <2>9, Zenon DEF StartsAs
  <2> QED
    BY <2>1, <2>10, Zenon
<1>3. S = Nat
  <2>1. S \in SUBSET Nat
    OBVIOUS
  <2> HIDE DEF S
  <2> QED
    BY <1>1, <1>2, <2>1, AllNaturals, Zenon
<1> QED
  BY <1>3, Zenon

BothStart(f, n, g, m, V, a, h) ==
  n \in Nat /\ m \in Nat /\ StartsAs(f, n, V, a, h) /\ StartsAs(g, m, V, a, h)

LEMMA SameBeginnings ==
  ASSUME NEW V, NEW a, NEW h, NEW n, NEW m, NEW f, NEW g, BothStart(f, n, g, m, V, a, h)
  PROVE  \A i \in Nat : i <= n /\ i <= m => f[i] = g[i]
<1> USE DEF BothStart
<1> DEFINE S == {i \in Nat : i <= n /\ i <= m => f[i] = g[i]}
<1>1. 0 \in S
  BY DEF StartsAs
<1>2. ASSUME NEW i \in S PROVE i + 1 \in S
  <2>1. i \in Nat /\ (i <= n /\ i <= m => f[i] = g[i])
    OBVIOUS
  <2>2. ASSUME i + 1 <= n, i + 1 <= m PROVE f[i + 1] = g[i + 1]
    <3>1. i \in 0 .. n - 1 /\ i \in 0 .. m - 1 /\ i <= n /\ i <= m
      BY <2>1, <2>2
    <3> QED
      BY <2>1, <3>1, Zenon DEF StartsAs
  <2> QED
    BY <2>1, <2>2
<1>3. S = Nat
  <2>1. S \in SUBSET Nat
    OBVIOUS
  <2> HIDE DEF S
  <2> QED
    BY <1>1, <1>2, <2>1, AllNaturals, Zenon
<1> QED
  BY <1>3, Zenon

LEMMA Recursion ==
  ASSUME NEW V, NEW a, NEW h, Defines(V, a, h)
  PROVE  \E f : Defined(f, V, a, h)
<1> DEFINE part(n) == CHOOSE f : StartsAs(f, n, V, a, h)
           all == [n \in Nat |-> part(n)[n]]
<1>1. \A n \in Nat : StartsAs(part(n), n, V, a, h)
  BY Beginnings, Zenon
<1> HIDE DEF part
<1>2. \A n \in Nat : all[n] = part(n)[n]
  BY Zenon
<1>3. ASSUME NEW n \in Nat PROVE all[n] \in V
  <2>1. n \in 0 .. n
    OBVIOUS
  <2> QED
    BY <1>1, <1>2, <2>1 DEF StartsAs
<1>4. all \in [Nat -> V]
  BY <1>3
<1> HIDE DEF all
<1>5. all[0] = a
  BY <1>1, <1>2 DEF StartsAs
<1>6. ASSUME NEW k \in Nat PROVE all[k + 1] = h[<<k, all[k]>>]
  <2>1. k + 1 \in Nat /\ k <= k + 1 /\ k <= k /\ k \in 0 .. (k + 1) - 1
    OBVIOUS
  <2>2. part(k + 1)[k + 1] = h[<<k, part(k + 1)[k]>>]
    BY <1>1, <2>1, Zenon DEF StartsAs
  <2>3. part(k + 1)[k] = part(k)[k]
    <3>1. StartsAs(part(k + 1), k + 1, V, a, h) /\ StartsAs(part(k), k, V, a, h)
      BY <1>1, <2>1, Zenon
    <3> DEFINE f == part(k + 1)
               g == part(k)
               n == k + 1
    <3>2. BothStart(f, n, g, k, V, a, h)
      BY <2>1, <3>1, Zenon DEF BothStart
    <3> HIDE DEF f, g, n
    <3>3. \A i \in Nat : i <= n /\ i <= k => f[i] = g[i]
      BY <3>2, SameBeginnings
    <3>4. f[k] = g[k]
      BY <2>1, <3>3 DEF n
    <3> QED
      BY <3>4 DEF f, g
  <2> QED
    BY <1>2, <2>1, <2>2, <2>3, Zenon
<1>7. Defined(all, V, a, h)
  BY <1>4, <1>5, <1>6, Zenon DEF Defined
<1> QED
  BY <1>7, Zenon

(* A function that is multiplied by c from each number to the next. *)
IsGeometric(f, c) == f = [k \in Nat |-> IF k = 0 THEN 1 ELSE c * f[k - 1]]

LEMMA Geometric ==
  ASSUME NEW c \in Nat \ {0}
  PROVE  LET g == CHOOSE f : IsGeometric(f, c) IN
           /\ g \in [Nat -> Nat \ {0}] /\ g[0] = 1
           /\ \A k \in Nat : g[k + 1] = c * g[k]
<1> DEFINE V == Nat \ {0}
           h == [x \in Nat \X V |-> c * x[2]]
<1>1. Defines(V, 1, h)
  <2>1. \A x \in V : c * x \in V
    OBVIOUS
  <2> QED
    BY <2>1 DEF Defines
<1>2. PICK f : Defined(f, V, 1, h)
  <2> HIDE DEF V, h
  <2> QED
    BY <1>1, Recursion, Zenon
<1>3. ASSUME NEW k \in Nat PROVE f[k] = IF k = 0 THEN 1 ELSE c * f[k - 1]
  <2>1. CASE k # 0
    <3>1. k - 1 \in Nat /\ (k - 1) + 1 = k
      BY <2>1
    <3>2. <<k - 1, f[k - 1]>> \in Nat \X V /\ f[k] = h[<<k - 1, f[k - 1]>>]
      BY <1>2, <3>1 DEF Defined
    <3>3. h[<<k - 1, f[k - 1]>>] = c * f[k - 1]
      BY <3>2
    <3> QED
      BY <2>1, <3>2, <3>3, Zenon
  <2> QED
    BY <1>2, <2>1 DEF Defined
<1>4. IsGeometric(f, c)
  BY <1>2, <1>3 DEF Defined, IsGeometric
<1> DEFINE g == CHOOSE e : IsGeometric(e, c)
<1>5. IsGeometric(g, c)
  BY <1>4, Zenon
<1> HIDE DEF g
<1>6. \A k \in Nat : g[k] = IF k = 0 THEN 1 ELSE c * g[k - 1]
  BY <1>5, Zenon DEF IsGeometric
<1>7. g = [k \in Nat |-> g[k]]
  BY <1>5, Zenon DEF IsGeometric
<1>8. ASSUME NEW k \in Nat PROVE g[k + 1] = c * g[k]
  <2>1. k + 1 \in Nat /\ k + 1 # 0 /\ (k + 1) - 1 = k
    OBVIOUS
  <2> QED
    BY <1>6, <2>1
<1>9. g[0] = 1
  BY <1>6
<1> DEFINE S == {k \in Nat : g[k] \in Nat \ {0}}
<1>10. 0 \in S
  BY <1>9
<1>11. ASSUME NEW k \in S PROVE k + 1 \in S
  <2>1. c * g[k] \in Nat \ {0}
    OBVIOUS
  <2> QED
    BY <1>8, <2>1
<1>12. S = Nat
  <2>1. S \in SUBSET Nat
    OBVIOUS
  <2> HIDE DEF S
  <2> QED
    BY <1>10, <1>11, <2>1, AllNaturals, Zenon
<1>13. g \in [Nat -> Nat \ {0}]
  BY <1>7, <1>12
<1>14. g \in [Nat -> Nat \ {0}] /\ g[0] = 1 /\ \A k \in Nat : g[k + 1] = c * g[k]
  BY <1>8, <1>9, <1>13, Zenon
<1> QED
  BY <1>14 DEF g

--------------------------------------------------------------------------------
(* PidList: the reply to a jobs command. *)

(* What so many pids and the blanks before them need at most. *)
Need(pids) == pids * (widest + 1)

(* The list is no longer than its beginning and the pids that were appended, and while
   there is room for all of them none was left out. *)
Packed ==
  /\ reply = "packing" => length < ListSize
  /\ reply = "packing" => length <= 8 + Need(listed)
  /\ 8 + Need(MAX_JOBS) + 2 < ListSize => listed = active /\ reply # "aborted"

PackedInv == PidListTypeOK /\ Packed

(* One more pid needs one more place. *)
LEMMA OneMore ==
  ASSUME NEW n \in Nat, NEW w \in Nat
  PROVE  (n + 1) * (w + 1) = n * (w + 1) + w + 1
  BY SMT

(* Fewer pids need no more room. *)
LEMMA NeedGrows ==
  ASSUME NEW m \in Nat, NEW n \in Nat, m <= n, NEW w \in Nat
  PROVE  m * (w + 1) <= n * (w + 1) /\ m * (w + 1) \in Nat /\ n * (w + 1) \in Nat
<1>1. n * (w + 1) = m * (w + 1) + (n - m) * (w + 1)
  BY SMT
<1>2. (n - m) * (w + 1) \in Nat /\ m * (w + 1) \in Nat
  BY SMT
<1> QED
  BY <1>1, <1>2

LEMMA InitPacked == PidListInit => PackedInv
<1> SUFFICES ASSUME PidListInit PROVE PackedInv
  OBVIOUS
<1>1. widest \in Nat /\ Need(0) = 0
  BY PidListAssumption, SMT DEF PidListInit, Need
<1> QED
  BY <1>1, PidListAssumption DEF PidListInit, PackedInv, PidListTypeOK, Packed

(* Every step keeps the list in the array, and leaves a pid out only when all of them
   would not have fitted. *)
LEMMA StepPacked == PackedInv /\ [PidListNext]_pidListVars => PackedInv'
<1> SUFFICES ASSUME PackedInv, [PidListNext]_pidListVars PROVE PackedInv'
  OBVIOUS
<1> USE PidListAssumption DEF PackedInv, PidListTypeOK
<1> widest \in Nat
  OBVIOUS
<1>1. CASE NoJob
  BY <1>1 DEF NoJob, Packed, Need
<1>2. CASE AppendPid
  <2>1. PICK digits \in 1 .. widest :
          LET current == length + 1 + digits IN
            IF Room(current) THEN length' = current /\ listed' = listed + 1
            ELSE UNCHANGED <<length, listed>>
    BY <1>2 DEF AppendPid
  <2>2. /\ reply = "packing" /\ next < MAX_JOBS
        /\ next' = next + 1 /\ active' = active + 1
        /\ widest' = widest /\ reply' = reply
    BY <1>2 DEF AppendPid
  <2>3. Need(listed)' = listed' * (widest + 1) /\ Need(MAX_JOBS)' = Need(MAX_JOBS)
    BY <2>2 DEF Need
  <2>4. CASE Room(length + 1 + digits)
    <3>1. length' = length + 1 + digits /\ listed' = listed + 1
      BY <2>1, <2>4
    <3>2. Need(listed)' = Need(listed) + widest + 1
      BY <2>3, <3>1, OneMore DEF Need
    <3>3. Need(listed) \in Int
      BY NeedGrows DEF Need
    <3> QED
      BY <2>2, <2>3, <2>4, <3>1, <3>2, <3>3 DEF Packed, Room
  <2>5. CASE ~ Room(length + 1 + digits)
    <3>1. length' = length /\ listed' = listed
      BY <2>1, <2>5
    <3>2. Need(listed)' = Need(listed)
      BY <2>3, <3>1 DEF Need
    <3>3. ~ (8 + Need(MAX_JOBS) + 2 < ListSize)
      <4>1. SUFFICES ASSUME listed = active PROVE ~ (8 + Need(MAX_JOBS) + 2 < ListSize)
        BY DEF Packed
      <4>2. listed \in Nat /\ listed + 1 \in Nat /\ listed + 1 <= MAX_JOBS
        BY <2>2, <4>1
      <4>3. Need(listed) + widest + 1 <= Need(MAX_JOBS) /\ Need(listed) \in Nat /\ Need(MAX_JOBS) \in Nat
        <5>1. Need(listed) + widest + 1 = (listed + 1) * (widest + 1)
          BY <4>2, OneMore DEF Need
        <5>2. (listed + 1) * (widest + 1) <= MAX_JOBS * (widest + 1)
          BY <4>2, NeedGrows
        <5>3. Need(listed) \in Nat /\ Need(MAX_JOBS) \in Nat
          BY <4>2, NeedGrows DEF Need
        <5> QED
          BY <5>1, <5>2, <5>3 DEF Need
      <4>4. length <= 8 + Need(listed)
        BY <2>2 DEF Packed
      <4> QED
        BY <2>5, <4>3, <4>4 DEF Room
    <3> QED
      BY <2>2, <2>3, <3>1, <3>2, <3>3 DEF Packed
  <2> QED
    BY <2>4, <2>5
<1>3. CASE SendReply
  <2>1. /\ reply = "packing" /\ next = MAX_JOBS
        /\ UNCHANGED <<widest, next, active, listed>>
        /\ length' \in {length, length + 2} /\ reply' \in {"sent", "aborted"}
    BY <1>3 DEF SendReply
  <2>2. reply' = "aborted" => ~ (length + 3 <= ListSize)
    BY <1>3 DEF SendReply
  <2>3. Need(MAX_JOBS)' = Need(MAX_JOBS)
    BY <2>1 DEF Need
  <2>4. Need(listed) <= Need(MAX_JOBS) /\ Need(listed) \in Nat /\ Need(MAX_JOBS) \in Nat
    BY NeedGrows DEF Need
  <2> QED
    BY <2>1, <2>2, <2>3, <2>4 DEF Packed
<1>4. CASE UNCHANGED pidListVars
  BY <1>4 DEF pidListVars, Packed, Need
<1> QED
  BY <1>1, <1>2, <1>3, <1>4 DEF PidListNext

(* When all was listed, or all is being listed, the list fits. *)
LEMMA PackedFits == PackedInv => PidsFit
BY DEF PackedInv, Packed, PidsFit, Need

(* The loop over the slots of print_active_jobs stays in its array, and no list that
   has room for all pids is cut or ends the server: for any size of the array, any
   number of slots and pids of any length. *)
THEOREM PidsAlwaysFit == PidListSpec => []PidsFit
BY PackedFits, InitPacked, StepPacked, PTL DEF PidListSpec

--------------------------------------------------------------------------------
(* Validate: the exit status. *)

(* How much the read of the user id takes when the writer has written one chunk, or both. *)
FirstReads == {Least(MAX_PASSWORD, Len(id)), Least(MAX_PASSWORD, Len(id) + Len(pw))}

(* The user id's chunk fits, and a newline or the read ends where it does. *)
WholeId == Len(id) <= MAX_PASSWORD /\ (taken = Len(id) \/ LineEnds(id) # {})

(* What the program has of the two chunks after each of its reads. *)
ReadsKnown ==
  /\ stage = "userid" => taken = 0
  /\ stage \in {"password", "lookup", "fileless"} => sent >= 1 /\ taken \in FirstReads
  /\ stage \in {"password", "lookup"} /\ WholeId => userid = TextOf(id)
  /\ stage = "lookup" /\ taken = Len(id) /\ Len(pw) <= MAX_PASSWORD => password = TextOf(pw)
  /\ stage \in {"userid", "password", "lookup"} => status = -1

StatusInv == ValidateTypeOK /\ ReadsKnown /\ StatusIsRight

LEMMA ChunksAre ==
  ASSUME ValidateTypeOK
  PROVE  /\ id \in Seq(Characters) /\ pw \in Seq(Characters)
         /\ Len(id) \in Nat \ {0} /\ Len(pw) \in Nat \ {0}
         /\ MAX_PASSWORD \in Nat \ {0}
         /\ sent \in {0, 1, 2}
         /\ Written = IF sent = 0 THEN <<>> ELSE IF sent = 1 THEN id ELSE id \o pw
         /\ Written \in Seq(Characters)
         /\ Len(Written) = IF sent = 0 THEN 0
                           ELSE IF sent = 1 THEN Len(id) ELSE Len(id) + Len(pw)
<1>1. id \in Ids /\ pw \in Passwords /\ sent \in {0, 1, 2}
  BY DEF ValidateTypeOK
<1>2. id \in Seq(Characters) /\ pw \in Seq(Characters) /\ id # <<>> /\ pw # <<>>
  BY <1>1, ValidateAssumption, Zenon
<1>3. Len(id) \in Nat \ {0} /\ Len(pw) \in Nat \ {0}
  BY <1>2, EmptySeq
<1>4. Written = IF sent = 0 THEN <<>> ELSE IF sent = 1 THEN id ELSE id \o pw
  <2>1. CASE sent = 0
    BY <2>1 DEF Written
  <2>2. CASE sent = 1
    BY <2>2 DEF Written
  <2>3. CASE sent = 2
    BY <2>3 DEF Written
  <2> QED
    BY <1>1, <2>1, <2>2, <2>3
<1>5. /\ id \o pw \in Seq(Characters) /\ Len(id \o pw) = Len(id) + Len(pw)
      /\ <<>> \in Seq(Characters) /\ Len(<<>>) = 0
  BY <1>2
<1>6. /\ Written \in Seq(Characters)
      /\ Len(Written) = IF sent = 0 THEN 0
                        ELSE IF sent = 1 THEN Len(id) ELSE Len(id) + Len(pw)
  BY <1>1, <1>2, <1>4, <1>5
<1> QED
  BY <1>1, <1>2, <1>3, <1>4, <1>6, ValidateAssumption

(* A text is a sequence of characters, and ends before the first newline. *)
LEMMA TextIs ==
  ASSUME NEW s \in Seq(Characters)
  PROVE  /\ TextOf(s) \in Seq(Characters)
         /\ LineEnds(s) # {} => /\ Min(LineEnds(s)) \in 1 .. Len(s)
                                /\ s[Min(LineEnds(s))] = "LF"
                                /\ \A k \in 1 .. Len(s) : s[k] = "LF" => Min(LineEnds(s)) <= k
<1>1. LineEnds(s) \in SUBSET Nat
  BY DEF LineEnds
<1>2. LineEnds(s) # {} => /\ Min(LineEnds(s)) \in LineEnds(s)
                          /\ \A k \in LineEnds(s) : Min(LineEnds(s)) <= k
  BY <1>1, MinBelongs, MinIsLeast
<1> DEFINE m == Min(LineEnds(s))
<1>3. LineEnds(s) # {} => /\ m \in 1 .. Len(s) /\ s[m] = "LF"
                          /\ \A k \in 1 .. Len(s) : s[k] = "LF" => m <= k
  BY <1>2 DEF LineEnds
<1> HIDE DEF m
<1>4. LineEnds(s) # {} => SubSeq(s, 1, m - 1) \in Seq(Characters)
  BY <1>3
<1>5. TextOf(s) \in Seq(Characters)
  BY <1>4 DEF TextOf, m
<1> QED
  BY <1>3, <1>5 DEF m

(* What is read behind the first newline does not change the text. *)
LEMMA TextOfMore ==
  ASSUME NEW s \in Seq(Characters), NEW t \in Seq(Characters), LineEnds(s) # {},
         NEW n \in Nat, n >= Len(s), n <= Len(s) + Len(t)
  PROVE  TextOf(SubSeq(s \o t, 1, n)) = TextOf(s)
<1> DEFINE r == SubSeq(s \o t, 1, n)
           m == Min(LineEnds(s))
<1>1. s \o t \in Seq(Characters) /\ Len(s \o t) = Len(s) + Len(t)
      /\ \A k \in 1 .. Len(s) : (s \o t)[k] = s[k]
  OBVIOUS
<1>2. /\ r \in Seq(Characters) /\ Len(r) = n
      /\ \A k \in 1 .. n : r[k] = (s \o t)[k]
  BY <1>1
<1>3. \A k \in 1 .. Len(s) : r[k] = s[k]
  BY <1>1, <1>2
<1> HIDE DEF r
<1>4. /\ m \in 1 .. Len(s) /\ s[m] = "LF"
      /\ \A k \in 1 .. Len(s) : s[k] = "LF" => m <= k
  BY TextIs
<1> HIDE DEF m
<1>5. m \in LineEnds(r)
  BY <1>2, <1>3, <1>4 DEF LineEnds
<1>6. \A k \in LineEnds(r) : m <= k
  <2> SUFFICES ASSUME NEW k \in LineEnds(r) PROVE m <= k
    OBVIOUS
  <2>1. k \in 1 .. n /\ r[k] = "LF"
    BY <1>2 DEF LineEnds
  <2> QED
    BY <1>3, <1>4, <2>1
<1>7. LineEnds(r) \in SUBSET Nat
  BY <1>2 DEF LineEnds
<1>8. Min(LineEnds(r)) = m
  BY <1>5, <1>6, <1>7, MinWhenLeast, Zenon
<1>9. SubSeq(r, 1, m - 1) = SubSeq(s, 1, m - 1)
  <2>1. /\ SubSeq(r, 1, m - 1) \in Seq(Characters) /\ Len(SubSeq(r, 1, m - 1)) = m - 1
        /\ SubSeq(s, 1, m - 1) \in Seq(Characters) /\ Len(SubSeq(s, 1, m - 1)) = m - 1
    BY <1>2, <1>4
  <2>2. \A k \in 1 .. m - 1 : SubSeq(r, 1, m - 1)[k] = SubSeq(s, 1, m - 1)[k]
    BY <1>2, <1>3, <1>4
  <2> QED
    BY <2>1, <2>2, SeqEqual
<1> QED
  BY <1>5, <1>8, <1>9 DEF TextOf, r, m

(* The two parts of two chunks that were written together. *)
LEMMA PartsOf ==
  ASSUME NEW s \in Seq(Characters), NEW t \in Seq(Characters)
  PROVE  /\ SubSeq(s, 1, Len(s)) = s
         /\ SubSeq(s \o t, 1, Len(s)) = s
         /\ SubSeq(s \o t, Len(s) + 1, Len(s) + Len(t)) = t
<1>1. /\ SubSeq(s \o t, 1, Len(s)) \in Seq(Characters)
      /\ Len(SubSeq(s \o t, 1, Len(s))) = Len(s)
      /\ \A k \in 1 .. Len(s) : SubSeq(s \o t, 1, Len(s))[k] = s[k]
  OBVIOUS
<1> DEFINE u == SubSeq(s \o t, Len(s) + 1, Len(s) + Len(t))
<1>2. u \in Seq(Characters) /\ Len(u) = Len(t)
  OBVIOUS
<1>3. \A k \in 1 .. Len(t) : u[k] = (s \o t)[Len(s) + k]
  OBVIOUS
<1>4. \A k \in 1 .. Len(t) : (s \o t)[Len(s) + k] = t[k]
  OBVIOUS
<1>5. \A k \in 1 .. Len(t) : u[k] = t[k]
  BY <1>3, <1>4
<1> HIDE DEF u
<1>6. u = t
  BY <1>2, <1>5, SeqEqual
<1>7. SubSeq(s \o t, 1, Len(s)) = s
  BY <1>1, SeqEqual
<1> QED
  BY <1>6, <1>7 DEF u

(* What a read brings, and what it brings of chunks that it takes whole. *)
LEMMA ChunkIs ==
  ASSUME ValidateTypeOK, NEW from \in Nat, from <= Len(Written)
  PROVE  /\ Chunk(from) \in Seq(Characters)
         /\ Len(Chunk(from)) = Least(MAX_PASSWORD, Len(Written) - from)
<1>1. PICK w \in Seq(Characters), top \in Nat :
        /\ w = Written /\ top = Least(from + MAX_PASSWORD, Len(w))
        /\ top <= Len(w) /\ from <= top
        /\ top - from = Least(MAX_PASSWORD, Len(w) - from)
  BY ChunksAre DEF Least
<1>2. Chunk(from) = SubSeq(w, from + 1, top)
  BY <1>1 DEF Chunk
<1>3. SubSeq(w, from + 1, top) \in Seq(Characters) /\ Len(SubSeq(w, from + 1, top)) = top - from
  BY <1>1
<1> QED
  BY <1>1, <1>2, <1>3

LEMMA FirstChunk ==
  ASSUME ValidateTypeOK, sent >= 1, Len(id) <= MAX_PASSWORD,
         Len(Chunk(0)) = Len(id) \/ LineEnds(id) # {}
  PROVE  TextOf(Chunk(0)) = TextOf(id)
<1>1. /\ id \in Seq(Characters) /\ pw \in Seq(Characters)
      /\ Len(id) \in Nat \ {0} /\ Len(pw) \in Nat \ {0} /\ MAX_PASSWORD \in Nat \ {0}
      /\ Written = (IF sent = 1 THEN id ELSE id \o pw) /\ sent \in {1, 2}
      /\ Len(Written) = IF sent = 1 THEN Len(id) ELSE Len(id) + Len(pw)
  BY ChunksAre
<1>2. PICK n : n = Least(0 + MAX_PASSWORD, Len(Written))
  OBVIOUS
<1>3. /\ n \in Nat /\ n >= Len(id) /\ n <= Len(id) + Len(pw)
      /\ sent = 1 => n = Len(id)
  BY <1>1, <1>2 DEF Least
<1>4. Chunk(0) = SubSeq(Written, 1, n)
  BY <1>2 DEF Chunk
<1>5. Len(Chunk(0)) = n
  BY <1>1, <1>2, ChunkIs DEF Least
<1>6. CASE sent = 1
  BY <1>1, <1>3, <1>4, <1>6, PartsOf
<1>7. CASE sent = 2 /\ n = Len(id)
  BY <1>1, <1>4, <1>7, PartsOf
<1>8. CASE sent = 2 /\ n # Len(id)
  <2>1. Chunk(0) = SubSeq(id \o pw, 1, n) /\ LineEnds(id) # {}
    <3>1. Written = id \o pw
      BY <1>1, <1>8
    <3>2. LineEnds(id) # {}
      BY ONLY <1>5, <1>8, Len(Chunk(0)) = Len(id) \/ LineEnds(id) # {}
    <3> QED
      BY ONLY <1>4, <3>1, <3>2
  <2>2. TextOf(SubSeq(id \o pw, 1, n)) = TextOf(id)
    BY <1>1, <1>3, <2>1, TextOfMore
  <2> QED
    BY <2>1, <2>2
<1> QED
  BY <1>1, <1>6, <1>7, <1>8

LEMMA SecondChunk ==
  ASSUME ValidateTypeOK, taken = Len(id), taken < Len(Written), Len(pw) <= MAX_PASSWORD
  PROVE  Chunk(taken) = pw
<1>1. /\ id \in Seq(Characters) /\ pw \in Seq(Characters)
      /\ Len(id) \in Nat /\ Len(pw) \in Nat /\ MAX_PASSWORD \in Nat
      /\ Written = id \o pw /\ Len(Written) = Len(id) + Len(pw)
  BY ChunksAre
<1>2. Least(taken + MAX_PASSWORD, Len(Written)) = Len(id) + Len(pw)
  BY <1>1 DEF Least
<1>3. Chunk(taken) = SubSeq(id \o pw, Len(id) + 1, Len(id) + Len(pw))
  BY <1>1, <1>2 DEF Chunk
<1> QED
  BY <1>1, <1>3, PartsOf

LEMMA StatusInit == ValidateInit => StatusInv
<1> SUFFICES ASSUME ValidateInit PROVE StatusInv
  OBVIOUS
<1>1. Len(Written) = 0 /\ <<>> \in Seq(Characters)
  BY DEF ValidateInit, Written
<1>2. ValidateTypeOK
  <2>1. closed \in BOOLEAN
    BY Zenon DEF ValidateInit
  <2> QED
    BY <1>1, <2>1 DEF ValidateInit, ValidateTypeOK
<1>3. ReadsKnown /\ StatusIsRight
  BY DEF ValidateInit, ReadsKnown, StatusIsRight
<1> QED
  BY <1>2, <1>3 DEF StatusInv

(* A file's lines by their numbers, and the first one of a user. *)
LEMMA FirstLineOf ==
  ASSUME ValidateTypeOK
  PROVE  /\ file \in Seq([user : Seq(Characters), password : Seq(Characters)])
         /\ LET k == SelectInSeq(file, LAMBDA line_ : line_.user = userid) IN
              /\ k = 0 => \A l \in DOMAIN file : file[l].user # userid
              /\ k # 0 => k \in DOMAIN file /\ file[k].user = userid
<1>1. file \in Seq([user : Seq(Characters), password : Seq(Characters)])
  BY ValidateAssumption DEF ValidateTypeOK
<1> DEFINE I == {l \in 1 .. Len(file) : file[l].user = userid}
           k == SelectInSeq(file, LAMBDA line_ : line_.user = userid)
<1>2. k = IF I # {} THEN Min(I) ELSE 0
  BY DEF SelectInSeq
<1>3. I # {} => Min(I) \in I
  <2>1. I \in SUBSET Nat
    BY <1>1
  <2> QED
    BY <2>1, MinBelongs
<1>4. DOMAIN file = 1 .. Len(file)
  BY <1>1
<1> HIDE DEF k
<1>5. /\ k = 0 => \A l \in DOMAIN file : file[l].user # userid
      /\ k # 0 => k \in DOMAIN file /\ file[k].user = userid
  BY <1>2, <1>3, <1>4
<1> QED
  BY <1>1, <1>5 DEF k

(* The chunks stay as they are, and so does all that is said of them. *)
LEMMA ChunksStay ==
  ASSUME ValidateTypeOK, UNCHANGED <<id, pw, taken>>
  PROVE  /\ FirstReads' = FirstReads
         /\ WholeId' = WholeId
         /\ TextOf(id)' = TextOf(id) /\ TextOf(pw)' = TextOf(pw)
  BY DEF FirstReads, WholeId, Least, TextOf, LineEnds

LEMMA StatusStep == StatusInv /\ [ValidateNext]_validateVars => StatusInv'
<1> SUFFICES ASSUME StatusInv, [ValidateNext]_validateVars PROVE StatusInv'
  OBVIOUS
<1>t. ValidateTypeOK /\ ReadsKnown /\ StatusIsRight
  BY DEF StatusInv
<1>l. /\ id \in Seq(Characters) /\ pw \in Seq(Characters)
      /\ Len(id) \in Nat \ {0} /\ Len(pw) \in Nat \ {0}
      /\ MAX_PASSWORD \in Nat \ {0}
      /\ sent \in {0, 1, 2}
      /\ Len(Written) = IF sent = 0 THEN 0
                        ELSE IF sent = 1 THEN Len(id) ELSE Len(id) + Len(pw)
  BY <1>t, ChunksAre
<1>k. taken \in Nat /\ taken <= Len(Written) /\ Len(Written) \in Nat
  BY <1>l, <1>t DEF ValidateTypeOK
<1>1. CASE UNCHANGED validateVars
  <2>1. UNCHANGED <<file, id, pw, sent, closed, stage, taken, userid, password, status>>
    BY <1>1 DEF validateVars
  <2>2. Written' = Written /\ Documented' = Documented /\ LineEnds(id)' = LineEnds(id)
    BY <2>1 DEF Written, Documented, TextOf, LineEnds
  <2>3. ValidateTypeOK'
    BY <2>1, <2>2, <1>t, Zenon DEF ValidateTypeOK
  <2>4. ReadsKnown'
    BY <2>1, <1>t, ChunksStay DEF ReadsKnown
  <2>5. StatusIsRight'
    BY <2>1, <2>2, <1>t, ChunksStay, Zenon DEF StatusIsRight
  <2> QED
    BY <2>3, <2>4, <2>5 DEF StatusInv
<1>2. CASE ReadUserid
  <2>0. /\ stage = "userid" /\ stage' = "password" /\ Written # <<>>
        /\ taken' = Len(Chunk(0)) /\ userid' = TextOf(Chunk(0))
        /\ UNCHANGED <<file, id, pw, sent, closed, password, status>>
    BY <1>2 DEF ReadUserid
  <2>1. Written' = Written
    BY <2>0 DEF Written
  <2>2. sent >= 1
    <3>1. sent # 0
      BY <2>0, <1>t, ChunksAre
    <3> QED
      BY <3>1, <1>l
  <2>3. /\ Chunk(0) \in Seq(Characters)
        /\ Len(Chunk(0)) = Least(MAX_PASSWORD, Len(Written) - 0)
    BY <1>t, <1>k, ChunkIs
  <2>4. Len(Chunk(0)) \in FirstReads /\ Len(Chunk(0)) \in 0 .. Len(Written)
    BY <2>2, <2>3, <1>l DEF FirstReads, Least
  <2>5. TextOf(Chunk(0)) \in Seq(Characters)
    BY <2>3, TextIs
  <2>6. ValidateTypeOK'
    BY <2>0, <1>t, <2>1, <2>4, <2>5, Zenon DEF ValidateTypeOK
  <2>7. WholeId' => userid' = TextOf(id)'
    <3>1. SUFFICES ASSUME WholeId' PROVE userid' = TextOf(id)
      BY <2>0 DEF TextOf, LineEnds
    <3>2. Len(id) <= MAX_PASSWORD /\ (Len(Chunk(0)) = Len(id) \/ LineEnds(id) # {})
      BY <2>0, <3>1 DEF WholeId, LineEnds
    <3> QED
      BY <2>0, <2>2, <3>2, <1>t, FirstChunk
  <2>8. FirstReads' = FirstReads
    BY <2>0 DEF FirstReads, Least
  <2>9. ReadsKnown'
    BY <2>0, <2>2, <2>4, <2>7, <2>8, <1>t DEF ReadsKnown
  <2>10. StatusIsRight'
    BY <2>0, <1>t DEF ReadsKnown, StatusIsRight
  <2> QED
    BY <2>6, <2>9, <2>10 DEF StatusInv
<1>3. CASE ReadPassword
  <2>0. /\ stage = "password" /\ stage' = "lookup" /\ Len(Written) > taken
        /\ password' = TextOf(Chunk(taken))
        /\ UNCHANGED <<file, id, pw, sent, closed, taken, userid, status>>
    BY <1>3 DEF ReadPassword
  <2>1. Written' = Written
    BY <2>0 DEF Written
  <2>2. Chunk(taken) \in Seq(Characters)
    BY <1>t, <1>k, ChunkIs
  <2>3. TextOf(Chunk(taken)) \in Seq(Characters)
    BY <2>2, TextIs
  <2>4. ValidateTypeOK'
    BY <2>0, <1>t, <2>1, <2>3, Zenon DEF ValidateTypeOK
  <2>5. taken = Len(id) /\ Len(pw) <= MAX_PASSWORD => password' = TextOf(pw)
    <3> SUFFICES ASSUME taken = Len(id), Len(pw) <= MAX_PASSWORD PROVE password' = TextOf(pw)
      OBVIOUS
    <3>1. taken < Len(Written)
      BY <2>0, <1>k
    <3>2. Chunk(taken) = pw
      BY <3>1, <1>t, SecondChunk
    <3> QED
      BY <2>0, <3>2
  <2>6. ReadsKnown'
    BY <2>0, <2>5, <1>t, ChunksStay DEF ReadsKnown
  <2>7. StatusIsRight'
    BY <2>0, <1>t DEF ReadsKnown, StatusIsRight
  <2> QED
    BY <2>4, <2>6, <2>7 DEF StatusInv
<1>4. CASE ReadNothing
  <2>0. /\ stage \in {"userid", "password"} /\ stage' = "exited" /\ status' = 1
        /\ closed /\ Len(Written) = taken
        /\ UNCHANGED <<file, id, pw, sent, closed, taken, userid, password>>
    BY <1>4 DEF ReadNothing
  <2>1. Written' = Written
    BY <2>0 DEF Written
  <2>2. ValidateTypeOK'
    <3>1. stage' \in {"userid", "password", "lookup", "exited", "fileless"} /\ status' \in -1 .. 3
      BY <2>0
    <3> QED
      BY <2>0, <1>t, <2>1, <3>1, Zenon DEF ValidateTypeOK
  <2>3. ReadsKnown'
    BY <2>0, <1>t, ChunksStay DEF ReadsKnown
  <2>4. sent < 2 \/ taken # Len(id)
    BY <2>0, <1>l
  <2>5. StatusIsRight'
    BY <2>0, <2>4 DEF StatusIsRight
  <2> QED
    BY <2>2, <2>3, <2>5 DEF StatusInv
<1>5. CASE Lookup
  <2> DEFINE k == SelectInSeq(file, LAMBDA line_ : line_.user = userid)
  <2>1. /\ file \in Seq([user : Seq(Characters), password : Seq(Characters)])
        /\ k = 0 => \A l \in DOMAIN file : file[l].user # userid
        /\ k # 0 => k \in DOMAIN file /\ file[k].user = userid
    BY <1>t, FirstLineOf
  <2>2. /\ stage = "lookup" /\ stage' = "exited"
        /\ status' = IF k = 0 THEN 3 ELSE IF file[k].password = password THEN 0 ELSE 2
        /\ UNCHANGED <<file, id, pw, sent, closed, taken, userid, password>>
    BY <1>5 DEF Lookup
  <2> HIDE DEF k
  <2>3. Written' = Written
    BY <2>2 DEF Written
  <2>4. ValidateTypeOK'
    BY <2>2, <2>3, <1>t DEF ValidateTypeOK
  <2>5. /\ WholeId => userid = TextOf(id)
        /\ taken = Len(id) /\ Len(pw) <= MAX_PASSWORD => password = TextOf(pw)
    BY <2>2, <1>t DEF ReadsKnown
  <2>6. ReadsKnown'
    BY <2>2 DEF ReadsKnown
  <2> DEFINE pair == [user |-> TextOf(id), password |-> TextOf(pw)]
             Line(l) == file[l] = [user |-> file[l].user, password |-> file[l].password]
  <2>9. \A l \in DOMAIN file : Line(l)
    <3> SUFFICES ASSUME NEW l \in DOMAIN file
                 PROVE  Line(l)
      OBVIOUS
    <3> DEFINE S == Seq(Characters)
    <3>1. file \in Seq([user : S, password : S])
      BY <2>1, Zenon
    <3> HIDE DEF S
    <3>2. file[l] \in [user : S, password : S]
      BY <3>1, MemberOf, Zenon
    <3> QED
      BY <3>2
  <2>10. WholeId => (status' = 3 <=> \A l \in DOMAIN file : file[l].user # TextOf(id))
    BY <2>1, <2>2, <2>5
  <2>11. ASSUME \A l, m \in DOMAIN file : file[l].user = file[m].user => l = m,
                Len(id) <= MAX_PASSWORD, taken = Len(id), Len(pw) <= MAX_PASSWORD
         PROVE  status' = Documented
    <3>2. userid = TextOf(id) /\ password = TextOf(pw)
      BY <2>5, <2>11 DEF WholeId
    <3>3. CASE k = 0
      <4>1. \A l \in DOMAIN file : file[l].user # TextOf(id)
        BY <2>1, <3>2, <3>3
      <4>2. pair \notin {file[l] : l \in DOMAIN file}
        BY <4>1
      <4> QED
        BY <2>2, <3>3, <4>1, <4>2 DEF Documented
    <3>4. CASE k # 0
      <4>1. k \in DOMAIN file /\ file[k].user = TextOf(id)
        BY <2>1, <3>2, <3>4
      <4>2. CASE file[k].password = TextOf(pw)
        <5>1. file[k] = pair
          BY <2>9, <4>1, <4>2
        <5> QED
          BY <2>2, <3>2, <3>4, <4>1, <4>2, <5>1 DEF Documented
      <4>3. CASE file[k].password # TextOf(pw)
        <5>1. \A l \in DOMAIN file : file[l] # pair
          BY <2>11, <4>1, <4>3
        <5> QED
          BY <2>2, <3>2, <3>4, <4>1, <4>3, <5>1 DEF Documented
      <4> QED
        BY <4>2, <4>3
    <3> QED
      BY <3>3, <3>4
  <2>12. /\ Documented' = Documented /\ TextOf(id)' = TextOf(id)
         /\ LineEnds(id)' = LineEnds(id)
    BY <2>2 DEF Documented, TextOf, LineEnds
  <2>13. status' # 1
    BY <2>2
  <2>14. StatusIsRight'
    BY <2>2, <2>10, <2>11, <2>12, <2>13 DEF StatusIsRight, WholeId
  <2> QED
    BY <2>4, <2>6, <2>14 DEF StatusInv
<1>6. CASE NoFile
  <2>1. Written' = Written
    BY <1>6 DEF NoFile, Written
  <2>2. ValidateTypeOK'
    <3>1. stage' \in {"userid", "password", "lookup", "exited", "fileless"} /\ status' \in -1 .. 3
      BY <1>6 DEF NoFile
    <3> QED
      BY <1>6, <1>t, <2>1, <3>1, Zenon DEF NoFile, ValidateTypeOK
  <2>3. ReadsKnown'
    BY <1>6, <1>t, ChunksStay DEF NoFile, ReadsKnown
  <2>4. StatusIsRight'
    <3>1. status' \notin {0, 2, 3} /\ status' # 0 /\ stage' = "fileless"
      BY <1>6 DEF NoFile
    <3> QED
      BY <3>1, Zenon DEF StatusIsRight
  <2> QED
    BY <2>2, <2>3, <2>4 DEF StatusInv
<1>7. CASE Writer
  <2>1. /\ UNCHANGED <<file, id, pw, stage, taken, userid, password, status>>
        /\ ~ closed
        /\ \/ sent = 0 /\ sent' = 1 /\ closed' = closed
           \/ sent = 1 /\ sent' = 2 /\ closed' = closed
           \/ sent' = sent /\ closed' = TRUE
    BY <1>7, <1>l DEF Writer
  <2>2. Len(Written)' \in Nat /\ Len(Written)' >= Len(Written)
    <3>1. Written' = <<<<>>, id, id \o pw>>[sent' + 1]
      BY <2>1 DEF Written
    <3>2. Written' = IF sent' = 0 THEN <<>> ELSE IF sent' = 1 THEN id ELSE id \o pw
      <4>1. CASE sent' = 0
        BY <3>1, <4>1
      <4>2. CASE sent' = 1
        BY <3>1, <4>2
      <4>3. CASE sent' = 2
        BY <3>1, <4>3
      <4> QED
        BY <2>1, <4>1, <4>2, <4>3, <1>l
    <3>3. Len(<<>>) = 0 /\ Len(id \o pw) = Len(id) + Len(pw)
      BY <1>l
    <3> HIDE DEF Written
    <3> QED
      BY <2>1, <3>2, <3>3, <1>l
  <2>3. ValidateTypeOK'
    <3>1. taken \in 0 .. Len(Written)'
      BY <2>2, <1>k
    <3>2. sent' \in 0 .. 2
      BY <2>1, <1>l
    <3>3. closed' \in BOOLEAN
      <4>1. closed \in BOOLEAN /\ (closed' = closed \/ closed' = TRUE)
        BY <2>1, <1>t, Zenon DEF ValidateTypeOK
      <4> QED
        BY <4>1, Zenon
    <3> QED
      BY <2>1, <3>1, <3>2, <3>3, <1>t, Zenon DEF ValidateTypeOK
  <2>4. ReadsKnown'
    <3>1. sent >= 1 => sent' >= 1
      BY <2>1, <1>l
    <3> QED
      BY <2>1, <3>1, <1>t, ChunksStay DEF ReadsKnown
  <2>5. StatusIsRight'
    <3>1. /\ Documented' = Documented /\ TextOf(id)' = TextOf(id)
          /\ LineEnds(id)' = LineEnds(id)
      BY <2>1 DEF Documented, TextOf, LineEnds
    <3> QED
      BY <2>1, <3>1, <1>t DEF StatusIsRight
  <2> QED
    BY <2>3, <2>4, <2>5 DEF StatusInv
<1> QED
  BY <1>1, <1>2, <1>3, <1>4, <1>5, <1>6, <1>7 DEF ValidateNext

(* The status is a part of the invariant. *)
LEMMA StatusKnown == StatusInv => StatusIsRight
BY DEF StatusInv

(* The exit status is the documented one for chunks that are read one by one, whether
   the user is known is told rightly also when a read takes bytes of both chunks, and an
   error has a reason: for all files, chunks and sizes. *)
THEOREM StatusAlwaysRight == ValidateSpec => []StatusIsRight
BY StatusKnown, StatusInit, StatusStep, PTL DEF ValidateSpec

--------------------------------------------------------------------------------
(* CountLarge: the number of large files. *)

(* The files to be counted among the first so many. *)
LargeUpTo(n) == {k \in 1 .. n : Large(listing[k])}

(* Where in the listing the program is: the words that it took are the line's, and a
   character is lost only of a file's mode. *)
Placed ==
  /\ word <= IF line = 0 THEN 0 ELSE Len(listing[line].words)
  /\ dash => line < Len(listing) /\ listing[line + 1].type = "-"
  /\ Plain => ~ dash
  /\ printed => line = Len(listing) /\ AtLineEnd

(* The counter has the large files of the lines begun. *)
CountedSoFar ==
  /\ Plain => size_counter = Cardinality(LargeUpTo(line))
  /\ modifier = <<>> => size_counter >= Cardinality(LargeUpTo(line))

CountInv ==
  CountTypeOK /\ listing \in Seq(ListedFiles) /\ Placed /\ CountedSoFar

LEMMA CountStarts == CountInit => CountInv
<1> SUFFICES ASSUME CountInit PROVE CountInv
  OBVIOUS
<1>1. /\ listing \in Seq(ListedFiles)
      /\ modifier \in {<<>>} \cup Permissions
      /\ line = 0 /\ word = 0 /\ size_file = 0 /\ size_counter = 0
      /\ dash = FALSE /\ printed = FALSE
  BY CountAssumption DEF CountInit
<1>2. Len(listing) \in Nat
  BY <1>1
<1>3. DOMAIN given_permissions = 0 .. PERMS + 1
  BY DEF CountInit
<1>4. {dash, printed} \subseteq BOOLEAN
  BY <1>1, Zenon
<1>5. CountTypeOK
  BY <1>1, <1>2, <1>3, <1>4 DEF CountTypeOK
<1>6. Cardinality(LargeUpTo(0)) = 0
  BY FS_EmptySet DEF LargeUpTo
<1>7. Placed
  BY <1>1 DEF Placed
<1>8. CountedSoFar
  BY <1>1, <1>6 DEF CountedSoFar
<1> QED
  BY <1>1, <1>5, <1>7, <1>8 DEF CountInv

(* What the array has of a word that scanf put there. *)
LEMMA StoredIs ==
  ASSUME DOMAIN given_permissions = 0 .. PERMS + 1, NEW C, NEW chars \in Seq(C)
  PROVE  /\ DOMAIN Stored(chars) = 0 .. PERMS + 1
         /\ \A i \in 0 .. PERMS + 1 : i < Len(chars) => Stored(chars)[i] = chars[i + 1]
         /\ Len(chars) \in 0 .. PERMS + 1 => Stored(chars)[Len(chars)] = "NUL"
  BY DEF Stored

(* Three words in one. *)
LEMMA Joined ==
  ASSUME NEW C, NEW s \in Seq(C), NEW t \in Seq(C), NEW u \in Seq(C)
  PROVE  /\ (s \o t) \o u \in Seq(C)
         /\ Len((s \o t) \o u) = Len(s) + Len(t) + Len(u)
         /\ \A k \in 1 .. Len(t) : ((s \o t) \o u)[Len(s) + k] = t[k]
         /\ s # <<>> => ((s \o t) \o u)[1] = s[1]
<1>1. /\ Len(s) \in Nat /\ Len(t) \in Nat /\ Len(u) \in Nat
      /\ s \o t \in Seq(C) /\ Len(s \o t) = Len(s) + Len(t)
  OBVIOUS
<1>2. (s \o t) \o u \in Seq(C) /\ Len((s \o t) \o u) = Len(s) + Len(t) + Len(u)
  BY <1>1
<1>3. ASSUME NEW i \in 1 .. Len(s \o t) PROVE ((s \o t) \o u)[i] = (s \o t)[i]
  BY <1>1
<1>4. ASSUME NEW k \in 1 .. Len(t) PROVE ((s \o t) \o u)[Len(s) + k] = t[k]
  <2>1. Len(s) + k \in 1 .. Len(s \o t)
    BY <1>1
  <2>2. (s \o t)[Len(s) + k] = t[k]
    BY <1>1
  <2> QED
    BY <2>1, <2>2, <1>3
<1>5. ASSUME s # <<>> PROVE ((s \o t) \o u)[1] = s[1]
  <2>1. Len(s) >= 1
    BY <1>1, <1>5
  <2>2. 1 \in 1 .. Len(s \o t) /\ (s \o t)[1] = s[1]
    BY <1>1, <2>1
  <2> QED
    BY <2>2, <1>3
<1> QED
  BY <1>2, <1>4, <1>5, Zenon

(* A mode: its first character, and the others if none was lost. *)
LEMMA ModeIs ==
  ASSUME NEW f \in ListedFiles
  PROVE  /\ Mode(f) \in Seq(STRING \cup {"-", "d"} \cup Bits)
         /\ dash => Len(Mode(f)) >= PERMS /\ Mode(f)[1] = f.bits[1]
         /\ ~ dash => /\ Len(Mode(f)) = PERMS + 1 + Len(f.marks)
                      /\ Mode(f)[1] = f.type
                      /\ \A k \in 1 .. PERMS : Mode(f)[k + 1] = f.bits[k]
<1> DEFINE C == STRING \cup {"-", "d"} \cup Bits
           b == f.bits
           m == f.marks
           t == f.type
<1>1. b \in [1 .. PERMS -> Bits] /\ m \in Seq(STRING) /\ t \in {"-", "d"}
  BY DEF ListedFiles, Permissions
<1>2. t \in C
  BY <1>1
<1>3. Bits \subseteq C /\ STRING \subseteq C
  OBVIOUS
<1>p. PERMS \in Nat \ {0}
  BY CountAssumption
<1> HIDE DEF C, b, m, t
<1>4. b \in Seq(C) /\ Len(b) = PERMS
  <2>1. b \in Seq(Bits) /\ Len(b) = PERMS
    BY <1>1, <1>p
  <2> QED
    BY <2>1, <1>3
<1>5. m \in Seq(C) /\ <<>> \in Seq(C) /\ <<t>> \in Seq(C)
  <2>1. m \in Seq(C)
    BY <1>1, <1>3, SeqGrows
  <2> QED
    BY <2>1, <1>2
<1>6. CASE dash
  <2>1. Mode(f) = (<<>> \o b) \o m
    BY <1>6, Zenon DEF Mode, b, m
  <2> DEFINE e == <<>>
  <2>0. e \in Seq(C)
    BY <1>5
  <2> HIDE DEF e
  <2>2. /\ Mode(f) \in Seq(C) /\ Len(Mode(f)) = Len(e) + PERMS + Len(m)
        /\ \A k \in 1 .. Len(b) : Mode(f)[Len(e) + k] = b[k]
    <3>1. Mode(f) = (e \o b) \o m
      BY <2>1 DEF e
    <3>2. b \in Seq(C) /\ m \in Seq(C) /\ Len(b) = PERMS
      BY <1>4, <1>5, Zenon
    <3>3. /\ (e \o b) \o m \in Seq(C)
          /\ Len((e \o b) \o m) = Len(e) + Len(b) + Len(m)
          /\ \A k \in 1 .. Len(b) : ((e \o b) \o m)[Len(e) + k] = b[k]
          /\ e # <<>> => ((e \o b) \o m)[1] = e[1]
      <4>1. (e \o b) \o m \in Seq(C) /\ Len((e \o b) \o m) = Len(e) + Len(b) + Len(m)
        <5>1. e \o b \in Seq(C) /\ Len(e \o b) = Len(e) + Len(b)
          BY <2>0, <3>2
        <5> QED
          BY <3>2, <5>1
      <4>2. \A k \in 1 .. Len(b) : ((e \o b) \o m)[Len(e) + k] = b[k]
        BY <2>0, <3>2, Joined, SMTT(2)
      <4>3. e # <<>> => ((e \o b) \o m)[1] = e[1]
        BY <2>0, <3>2, Joined, SMTT(2)
      <4> QED
        BY <4>1, <4>2, <4>3
    <3> QED
      BY <3>1, <3>2, <3>3, Zenon
  <2>3. Len(e) = 0 /\ Len(m) \in Nat
    BY <1>5 DEF e
  <2>4. Len(Mode(f)) >= PERMS /\ Mode(f)[1] = b[1]
    BY <2>2, <2>3, <1>4, <1>p
  <2> QED
    BY <2>2, <2>4, <1>6, Zenon DEF C, b
<1>7. CASE ~ dash
  <2>1. Mode(f) = (<<t>> \o b) \o m
    BY <1>7, Zenon DEF Mode, b, m, t
  <2> DEFINE e == <<t>>
  <2>0. e \in Seq(C)
    BY <1>5
  <2> HIDE DEF e
  <2>2. /\ Mode(f) \in Seq(C) /\ Len(Mode(f)) = Len(e) + PERMS + Len(m)
        /\ \A k \in 1 .. Len(b) : Mode(f)[Len(e) + k] = b[k]
        /\ e # <<>> => Mode(f)[1] = e[1]
    <3>1. Mode(f) = (e \o b) \o m
      BY <2>1 DEF e
    <3>2. b \in Seq(C) /\ m \in Seq(C) /\ Len(b) = PERMS
      BY <1>4, <1>5, Zenon
    <3>3. /\ (e \o b) \o m \in Seq(C)
          /\ Len((e \o b) \o m) = Len(e) + Len(b) + Len(m)
          /\ \A k \in 1 .. Len(b) : ((e \o b) \o m)[Len(e) + k] = b[k]
          /\ e # <<>> => ((e \o b) \o m)[1] = e[1]
      <4>1. (e \o b) \o m \in Seq(C) /\ Len((e \o b) \o m) = Len(e) + Len(b) + Len(m)
        <5>1. e \o b \in Seq(C) /\ Len(e \o b) = Len(e) + Len(b)
          BY <2>0, <3>2
        <5> QED
          BY <3>2, <5>1
      <4>2. \A k \in 1 .. Len(b) : ((e \o b) \o m)[Len(e) + k] = b[k]
        BY <2>0, <3>2, Joined, SMTT(2)
      <4>3. e # <<>> => ((e \o b) \o m)[1] = e[1]
        BY <2>0, <3>2, Joined, SMTT(2)
      <4> QED
        BY <4>1, <4>2, <4>3
    <3> QED
      BY <3>1, <3>2, <3>3, Zenon
  <2>3. Len(e) = 1 /\ Len(m) \in Nat /\ e # <<>> /\ e[1] = t
    BY <1>5 DEF e
  <2>4. /\ Len(Mode(f)) = PERMS + 1 + Len(m) /\ Mode(f)[1] = t
        /\ \A k \in 1 .. PERMS : Mode(f)[k + 1] = b[k]
    BY <2>2, <2>3, <1>4, <1>p
  <2> QED
    BY <2>2, <2>4, <1>7, Zenon DEF C, b, m, t
<1> QED
  BY <1>6, <1>7

(* One more line is one more element, if its file is large. *)
LEMMA OneLineMore ==
  ASSUME NEW n \in Nat
  PROVE  /\ IsFiniteSet(LargeUpTo(n)) /\ Cardinality(LargeUpTo(n)) \in Nat
         /\ Cardinality(LargeUpTo(n + 1)) =
              Cardinality(LargeUpTo(n)) + (IF Large(listing[n + 1]) THEN 1 ELSE 0)
<1>1. IsFiniteSet(LargeUpTo(n))
  <2>1. IsFiniteSet(1 .. n)
    BY FS_Interval
  <2>2. LargeUpTo(n) \subseteq 1 .. n
    BY DEF LargeUpTo
  <2> QED
    BY <2>1, <2>2, FS_Subset
<1>2. Cardinality(LargeUpTo(n)) \in Nat
  BY <1>1, FS_CardinalityType
<1>3. CASE Large(listing[n + 1])
  <2>1. LargeUpTo(n + 1) = LargeUpTo(n) \cup {n + 1}
    BY <1>3 DEF LargeUpTo
  <2>2. n + 1 \notin LargeUpTo(n)
    BY DEF LargeUpTo
  <2> QED
    BY <1>1, <1>2, <1>3, <2>1, <2>2, FS_AddElement
<1>4. CASE ~ Large(listing[n + 1])
  <2>1. LargeUpTo(n + 1) = LargeUpTo(n)
    BY <1>4 DEF LargeUpTo
  <2> QED
    BY <1>1, <1>2, <1>4, <2>1
<1> QED
  BY <1>1, <1>2, <1>3, <1>4

(* A large file is counted, whatever its mode, if no permissions are asked for; and a
   line that is taken for itself is counted only if its file is large. *)
LEMMA CountsTheLarge ==
  ASSUME CountTypeOK, NEW f \in ListedFiles, NEW given, given = Stored(Mode(f))
  PROVE  /\ modifier = <<>> /\ Large(f) => Counts(given, f.size)
         /\ ~ dash /\ (modifier = <<>> \/ f.marks = <<>>) => (Counts(given, f.size) <=> Large(f))
<1>1. /\ f.bits \in [1 .. PERMS -> Bits] /\ f.type \in {"-", "d"} /\ f.size \in Int
      /\ PERMS \in Nat \ {0} /\ "d" \notin Bits /\ "NUL" \notin Bits /\ "-" \in Bits
  BY CountAssumption DEF ListedFiles, Permissions
<1>2. DOMAIN given_permissions = 0 .. PERMS + 1 /\ modifier \in {<<>>} \cup [1 .. PERMS -> Bits]
  BY DEF CountTypeOK, Permissions
<1> DEFINE letters == Mode(f)
<1>3. /\ letters \in Seq(STRING \cup {"-", "d"} \cup Bits)
      /\ dash => Len(letters) >= PERMS /\ letters[1] = f.bits[1]
      /\ ~ dash => /\ Len(letters) = PERMS + 1 + Len(f.marks)
                   /\ letters[1] = f.type
                   /\ \A k \in 1 .. PERMS : letters[k + 1] = f.bits[k]
  BY ModeIs
<1>4. /\ \A i \in 0 .. PERMS + 1 : i < Len(letters) => given[i] = letters[i + 1]
      /\ Len(letters) \in 0 .. PERMS + 1 => given[Len(letters)] = "NUL"
  BY <1>2, <1>3, StoredIs
<1>5. Len(f.marks) \in Nat
  BY DEF ListedFiles
<1> HIDE DEF letters
<1>6. /\ dash => given[0] = f.bits[1]
      /\ ~ dash => given[0] = f.type
  <2>1. Len(letters) >= 1
    <3>1. PERMS \in Nat \ {0}
      BY <1>1
    <3>2. CASE dash
      <4>1. Len(letters) >= PERMS /\ Len(letters) \in Nat
        BY <1>3, <3>2
      <4> QED
        BY <3>1, <4>1
    <3>3. CASE ~ dash
      <4> DEFINE m == Len(f.marks)
      <4>1. Len(letters) = PERMS + 1 + m /\ m \in Nat
        BY <1>3, <1>5, <3>3
      <4> HIDE DEF m
      <4> QED
        BY <3>1, <4>1
    <3> QED
      BY <3>2, <3>3
  <2>2. given[0] = letters[1]
    BY <1>1, <1>4, <2>1
  <2> QED
    BY <1>3, <2>2
<1>7. ~ dash => given[0] # "d" <=> f.type = "-"
  BY <1>1, <1>6
<1>8. modifier = <<>> /\ Large(f) => Counts(given, f.size)
  <2> SUFFICES ASSUME modifier = <<>>, Large(f) PROVE Counts(given, f.size)
    OBVIOUS
  <2>1. f.type = "-" /\ Limit < f.size
    BY DEF Large
  <2>2. f.bits[1] \in Bits
    BY <1>1
  <2>3. given[0] # "d"
    BY <1>1, <1>6, <2>1, <2>2
  <2> QED
    BY <2>1, <2>3 DEF Counts
<1>9. ASSUME ~ dash, modifier = <<>> PROVE Counts(given, f.size) <=> Large(f)
  <2>1. \A k \in DOMAIN modifier : modifier[k] \in {"-", f.bits[k]}
    BY <1>9
  <2> QED
    BY <1>7, <1>9, <2>1 DEF Counts, Large
<1>10. ASSUME ~ dash, modifier # <<>>, f.marks = <<>> PROVE Counts(given, f.size) <=> Large(f)
  <2>1. modifier \in [1 .. PERMS -> Bits]
    BY <1>2, <1>10
  <2>2. \A k \in 1 .. PERMS : given[k] = f.bits[k]
    <3> SUFFICES ASSUME NEW k \in 1 .. PERMS PROVE given[k] = f.bits[k]
      OBVIOUS
    <3>1. k < Len(letters) /\ k \in 0 .. PERMS + 1
      BY <1>1, <1>3, <1>5, <1>10
    <3>2. given[k] = letters[k + 1]
      BY <1>4, <3>1
    <3> QED
      BY <1>3, <1>10, <3>2
  <2>3. given[PERMS + 1] = "NUL"
    <3>1. Len(letters) = PERMS + 1
      BY <1>1, <1>3, <1>10
    <3> QED
      BY <1>1, <1>4, <3>1
  <2>4. check_permissions(given) <=>
          /\ given[0] # "d"
          /\ \A k \in 1 .. PERMS : modifier[k] = "-" \/ modifier[k] = f.bits[k]
    <3> DEFINE required(i) == IF i < PERMS THEN modifier[i + 1] ELSE "NUL"
    <3>1. check_permissions(given) <=>
            /\ given[0] # "d"
            /\ \A i \in 0 .. PERMS : required(i) = "-" \/ required(i) = given[i + 1]
      BY DEF check_permissions
    <3>2. required(PERMS) = given[PERMS + 1]
      BY <1>1, <2>3
    <3>3. \A i \in 0 .. PERMS - 1 : required(i) = modifier[i + 1] /\ given[i + 1] = f.bits[i + 1]
      BY <1>1, <2>2
    <3> HIDE DEF required
    <3>4. ASSUME \A i \in 0 .. PERMS : required(i) = "-" \/ required(i) = given[i + 1],
                 NEW k \in 1 .. PERMS
          PROVE  modifier[k] = "-" \/ modifier[k] = f.bits[k]
      <4>1. k - 1 \in 0 .. PERMS - 1 /\ k - 1 \in 0 .. PERMS /\ k = (k - 1) + 1
        BY <1>1
      <4> QED
        BY <3>3, <3>4, <4>1
    <3>5. ASSUME \A k \in 1 .. PERMS : modifier[k] = "-" \/ modifier[k] = f.bits[k],
                 NEW i \in 0 .. PERMS
          PROVE  required(i) = "-" \/ required(i) = given[i + 1]
      <4>1. CASE i = PERMS
        BY <3>2, <4>1
      <4>2. CASE i # PERMS
        <5>1. i \in 0 .. PERMS - 1 /\ i + 1 \in 1 .. PERMS
          BY <1>1, <4>2
        <5> QED
          BY <3>3, <3>5, <5>1
      <4> QED
        BY <4>1, <4>2
    <3> QED
      BY <3>1, <3>4, <3>5
  <2>5. Large(f) <=>
          /\ f.type = "-" /\ Limit < f.size
          /\ \A k \in 1 .. PERMS : modifier[k] = "-" \/ modifier[k] = f.bits[k]
    BY <2>1 DEF Large
  <2> QED
    BY <1>7, <1>10, <2>4, <2>5 DEF Counts
<1> QED
  BY <1>8, <1>9, <1>10

LEMMA CountSteps == CountInv /\ [CountNext]_countVars => CountInv'
<1> SUFFICES ASSUME CountInv, [CountNext]_countVars PROVE CountInv'
  OBVIOUS
<1>t. CountTypeOK /\ listing \in Seq(ListedFiles) /\ Placed /\ CountedSoFar
  BY DEF CountInv
<1>l. /\ line \in Nat /\ Len(listing) \in Nat /\ line <= Len(listing)
      /\ size_counter \in Nat /\ size_file \in Int /\ word \in Nat
      /\ \A k \in 1 .. Len(listing) : listing[k] \in ListedFiles
  BY <1>t DEF CountTypeOK
<1>c. ASSUME listing' = listing, modifier' = modifier, NEW n \in Nat
      PROVE  LargeUpTo(n)' = LargeUpTo(n) /\ (Plain' <=> Plain)
  BY <1>c DEF LargeUpTo, Large, Plain
<1>1. CASE ScanLine
  <2> DEFINE f == listing[line + 1]
  <2>1. /\ AtLineEnd /\ line < Len(listing)
        /\ line' = line + 1 /\ word' = 0 /\ dash' = FALSE
        /\ given_permissions' = Stored(Mode(f)) /\ size_file' = f.size
        /\ listing' = listing /\ modifier' = modifier /\ printed' = printed
    BY <1>1 DEF ScanLine
  <2>2. size_counter' = size_counter + IF Counts(given_permissions', f.size) THEN 1 ELSE 0
    BY <1>1, <2>1 DEF ScanLine, Count
  <2>3. f \in ListedFiles /\ line + 1 \in 1 .. Len(listing) /\ line + 1 \in Nat
    BY <1>l, <2>1
  <2>4. /\ modifier = <<>> /\ Large(f) => Counts(given_permissions', f.size)
        /\ ~ dash /\ (modifier = <<>> \/ f.marks = <<>>) =>
             (Counts(given_permissions', f.size) <=> Large(f))
    BY <1>t, <2>1, <2>3, CountsTheLarge
  <2>5. LargeUpTo(line)' = LargeUpTo(line + 1)
    BY <2>1, <2>3, <1>c, Zenon DEF LargeUpTo, Large
  <2>6. /\ Cardinality(LargeUpTo(line)) \in Nat
        /\ Cardinality(LargeUpTo(line + 1)) =
             Cardinality(LargeUpTo(line)) + (IF Large(f) THEN 1 ELSE 0)
    BY <1>l, OneLineMore
  <2>7. Plain' <=> Plain
    BY <2>1, <1>l, <1>c
  <2>8. Plain => ~ dash /\ (modifier = <<>> \/ f.marks = <<>>)
    BY <1>t, <1>l, <2>3 DEF Plain, Placed
  <2> HIDE DEF f
  <2>9. CountedSoFar'
    <3> DEFINE N == Cardinality(LargeUpTo(line))
    <3>1. N \in Nat /\ N' = N + (IF Large(f) THEN 1 ELSE 0)
      BY <2>5, <2>6
    <3>2. Plain => size_counter = N
      BY <1>t DEF CountedSoFar
    <3>3. modifier = <<>> => size_counter >= N
      BY <1>t DEF CountedSoFar
    <3> HIDE DEF N
    <3>4. Plain => size_counter' = N'
      BY <2>2, <2>4, <2>8, <3>1, <3>2, <1>l
    <3>5. modifier = <<>> => size_counter' >= N'
      BY <2>2, <2>4, <3>1, <3>3, <1>l
    <3> QED
      BY <2>1, <2>7, <3>4, <3>5 DEF N, CountedSoFar
  <2>10. CountTypeOK'
    <3>1. {dash', printed'} \subseteq BOOLEAN
      BY <2>1, <1>t, Zenon DEF CountTypeOK
    <3>2. DOMAIN given_permissions' = 0 .. PERMS + 1
      <4>1. DOMAIN given_permissions = 0 .. PERMS + 1
        BY <1>t DEF CountTypeOK
      <4>2. DOMAIN Stored(Mode(f)) = DOMAIN given_permissions
        BY DEF Stored
      <4> QED
        BY <2>1, <4>1, <4>2
    <3>3. line' \in 0 .. Len(listing') /\ word' \in Nat /\ size_counter' \in Nat
      BY <2>1, <2>2, <1>l
    <3>4. size_file' \in Int
      BY <2>1, <2>3 DEF ListedFiles
    <3>5. modifier' \in {<<>>} \cup Permissions
      BY <2>1, <1>t, Zenon DEF CountTypeOK
    <3> QED
      BY <3>1, <3>2, <3>3, <3>4, <3>5 DEF CountTypeOK
  <2>11. Placed'
    <3>1. f.words \in Seq(Seq(STRING))
      BY <2>3 DEF ListedFiles
    <3>2. listing'[line'] = f /\ line' # 0
      BY <2>1, <2>3 DEF f
    <3>3. Len(listing'[line'].words) \in Nat
      BY <3>1, <3>2
    <3>4. ~ printed'
      BY <1>t, <1>l, <2>1 DEF Placed
    <3> QED
      BY <2>1, <3>2, <3>3, <3>4 DEF Placed
  <2> QED
    BY <2>1, <2>9, <2>10, <2>11, <1>t DEF CountInv
<1>2. CASE ScanWord
  <2>1. /\ ~ AtLineEnd
        /\ word' = word + 1
        /\ dash' = (word' = Len(listing[line].words) /\ line < Len(listing)
                      /\ listing[line + 1].type = "-")
        /\ listing' = listing /\ modifier' = modifier /\ line' = line
        /\ size_file' = size_file /\ printed' = printed
    BY <1>2 DEF ScanWord
  <2>2. size_counter' \in {size_counter, size_counter + 1}
    BY <1>2, <1>l DEF ScanWord, Count
  <2>3. line # 0 /\ word < Len(listing[line].words)
    <3>1. line # 0 /\ word # Len(listing[line].words)
      BY <2>1 DEF AtLineEnd
    <3>2. listing[line].words \in Seq(Seq(STRING))
      BY <1>l, <3>1 DEF ListedFiles
    <3> QED
      BY <1>t, <1>l, <3>1, <3>2 DEF Placed
  <2>4. ~ Plain
    BY <1>l, <2>3 DEF Plain
  <2>5. LargeUpTo(line)' = LargeUpTo(line) /\ (Plain' <=> Plain)
    <3>1. LargeUpTo(line)' = {k \in 1 .. line' : Large(listing[k])}
      BY <2>1 DEF LargeUpTo, Large
    <3> QED
      BY <2>1, <3>1, <1>l, <1>c DEF LargeUpTo
  <2>6. CountedSoFar'
    <3> DEFINE N == Cardinality(LargeUpTo(line))
    <3>1. N' = N /\ N \in Nat
      BY <2>5, <1>l, OneLineMore
    <3>2. modifier = <<>> => size_counter >= N
      BY <1>t DEF CountedSoFar
    <3> HIDE DEF N
    <3>3. modifier = <<>> => size_counter' >= N'
      BY <2>2, <3>1, <3>2, <1>l
    <3> QED
      BY <2>1, <2>4, <2>5, <3>3 DEF CountedSoFar, N
  <2>7. CountTypeOK'
    <3>1. dash' \in BOOLEAN
      BY <2>1, Zenon
    <3>2. {dash', printed'} \subseteq BOOLEAN
      BY <2>1, <3>1, <1>t, Zenon DEF CountTypeOK
    <3>3. DOMAIN given_permissions' = 0 .. PERMS + 1
      BY <1>2, <1>t DEF ScanWord, Stored, CountTypeOK
    <3>4. line' \in 0 .. Len(listing') /\ word' \in Nat /\ size_counter' \in Nat /\ size_file' \in Int
      BY <2>1, <2>2, <1>l
    <3>5. modifier' \in {<<>>} \cup Permissions
      BY <2>1, <1>t, Zenon DEF CountTypeOK
    <3> QED
      BY <3>2, <3>3, <3>4, <3>5 DEF CountTypeOK
  <2>8. Placed'
    <3>1. ~ printed
      BY <1>t, <2>1 DEF Placed
    <3>2. dash' => line' < Len(listing') /\ listing'[line' + 1].type = "-"
      BY <2>1
    <3> QED
      BY <2>1, <2>3, <2>4, <2>5, <3>1, <3>2, <1>l DEF Placed
  <2> QED
    BY <2>1, <2>6, <2>7, <2>8, <1>t DEF CountInv
<1>3. CASE ScanEnds
  <2>1. /\ AtLineEnd /\ line = Len(listing)
        /\ UNCHANGED <<listing, modifier, line, word, dash, given_permissions, size_file,
                      size_counter>>
    BY <1>3 DEF ScanEnds
  <2>2. printed' = TRUE
    BY <1>3 DEF ScanEnds
  <2>3. CountTypeOK'
    <3>1. {dash', printed'} \subseteq BOOLEAN
      BY <2>1, <2>2, <1>t, Zenon DEF CountTypeOK
    <3> QED
      BY <2>1, <3>1, <1>t DEF CountTypeOK
  <2>4. Placed'
    BY <2>1, <1>t DEF Placed, AtLineEnd, Plain
  <2>5. CountedSoFar'
    BY <2>1, <1>t DEF CountedSoFar, LargeUpTo, Large, Plain
  <2> QED
    BY <2>1, <2>3, <2>4, <2>5, <1>t DEF CountInv
<1>4. CASE UNCHANGED countVars
  BY <1>4, <1>t DEF countVars, CountInv, CountTypeOK, Placed, AtLineEnd, Plain, CountedSoFar,
     LargeUpTo, Large
<1> QED
  BY <1>1, <1>2, <1>3, <1>4 DEF CountNext

(* When all lines are read, the counter is that of all files. *)
LEMMA CountedRight == CountInv => CountsLargeFiles
<1> SUFFICES ASSUME CountInv, printed PROVE
      LET large == Cardinality({k \in DOMAIN listing : Large(listing[k])}) IN
        /\ Plain => size_counter = large
        /\ modifier = <<>> => size_counter >= large
  BY DEF CountsLargeFiles
<1>1. line = Len(listing) /\ listing \in Seq(ListedFiles)
  BY DEF CountInv, Placed
<1>2. LargeUpTo(line) = {k \in DOMAIN listing : Large(listing[k])}
  BY <1>1 DEF LargeUpTo
<1> QED
  BY <1>2 DEF CountInv, CountedSoFar

(* What count_large prints is the number of large files that have the permissions, in
   every listing in which each name is one word, and never less when no permissions are
   asked for: for listings of any length, any limit and any number of permissions. *)
THEOREM CountIsRight == CountSpec => []CountsLargeFiles
BY CountedRight, CountStarts, CountSteps, PTL DEF CountSpec

--------------------------------------------------------------------------------
(* Forks: the two programs whose processes wait. *)

(* The lines in which a process has its parent's name. *)
RightLines ==
  {l \in [pid : Seq(Nat), ppid : Seq(Int), i : Nat] :
     l.ppid = IF l.pid = <<>> THEN shell ELSE Front(l.pid)}

Process ==
  [at : {"test", "fork", "print", "wait", "exit", "zombie", "reaped"},
   i : Nat, n : {-1, 0, 1}, stdout : Seq(RightLines)]

ProcsKnown ==
  /\ run \in Starts
  /\ <<>> \in DOMAIN procs /\ DOMAIN procs \subseteq Seq(Nat)
  /\ \A p \in DOMAIN procs : procs[p] \in Process
  /\ DOMAIN out \subseteq RightLines

(* A process is in the round in which its last child was forked until it has waited for
   that child; and it has itself gone further than the round in which it was forked
   before it may fork. *)
Kin ==
  \A q \in DOMAIN procs \ {<<>>} :
    /\ Front(q) \in DOMAIN procs
    /\ Last(q) <= procs[q].i
    /\ procs[q].at \in {"test", "fork"} => Last(q) < procs[q].i
    /\ Last(q) <= procs[Front(q)].i
    /\ Last(q) = procs[Front(q)].i =>
         \/ procs[Front(q)].at = "wait"
         \/ procs[Front(q)].at = "print" /\ procs[Front(q)].n = 1
    /\ procs[q].at # "reaped" => Last(q) = procs[Front(q)].i

(* Who is meant to fork in round k. *)
ForksIn(p, k) ==
  IF run.program = "parentcreates" THEN p = <<>>
  ELSE (p = <<>> /\ k = 0) \/ (p = <<0>> /\ k > 0)

(* A process has been through the fork of round k, or its omission. *)
Begun(p, k) ==
  k < procs[p].i \/ (k = procs[p].i /\ procs[p].at \in {"print", "wait"})

(* As long as no fork fails, there are exactly the children that were meant. *)
Rounds ==
  \A p \in DOMAIN procs :
    /\ procs[p].n = -1 => fork_failed
    /\ ~ fork_failed =>
         /\ \A k \in Nat : Append(p, k) \in DOMAIN procs <=> ForksIn(p, k) /\ Begun(p, k)
         /\ procs[p].at = "fork" => ForksIn(p, procs[p].i)
         /\ procs[p].at \in {"exit", "zombie", "reaped"} => procs[p].i = run.iterations

ForksInv == Waiting => ProcsKnown /\ Kin /\ Rounds

(* The names of processes. *)
LEMMA ChildNames ==
  ASSUME NEW p \in Seq(Nat), NEW k \in Nat
  PROVE  /\ Append(p, k) \in Seq(Nat) /\ Append(p, k) # <<>>
         /\ Front(Append(p, k)) = p /\ Last(Append(p, k)) = k
<1> DEFINE q == Append(p, k)
<1>1. q \in Seq(Nat) /\ Len(q) = Len(p) + 1 /\ q[Len(q)] = k /\ Len(p) \in Nat
  OBVIOUS
<1>2. q # <<>>
  BY <1>1
<1>3. SubSeq(q, 1, Len(q) - 1) = p
  BY <1>1
<1> QED
  BY <1>1, <1>2, <1>3 DEF Front, Last

LEMMA ParentNames ==
  ASSUME NEW q \in Seq(Nat), q # <<>>
  PROVE  Front(q) \in Seq(Nat) /\ Last(q) \in Nat /\ q = Append(Front(q), Last(q))
<1>1. Len(q) \in Nat \ {0}
  OBVIOUS
<1>2. SubSeq(q, 1, Len(q) - 1) \in Seq(Nat) /\ q[Len(q)] \in Nat
  BY <1>1
<1>3. Append(SubSeq(q, 1, Len(q) - 1), q[Len(q)]) = q
  BY <1>1
<1> QED
  BY <1>2, <1>3 DEF Front, Last

LEMMA ForksStart == ForksInit => ForksInv
<1> SUFFICES ASSUME ForksInit, Waiting PROVE ProcsKnown /\ Kin /\ Rounds
  BY DEF ForksInv
<1>1. run \in Starts /\ run \in [program : Programs, iterations : Nat]
  BY ForksAssumption DEF ForksInit
<1>2. run.program \in {"parentcreates", "childcreates"}
  BY DEF Waiting
<1> DEFINE first == [at |-> "test", i |-> 0, n |-> 0, stdout |-> <<>>]
<1>3. DOMAIN procs = {<<>>} /\ procs[<<>>] = first
  BY <1>2 DEF ForksInit
<1>4. first \in Process
  BY DEF Process
<1>5. DOMAIN out = {}
  BY DEF ForksInit, EmptyBag, SetToBag
<1>6. ProcsKnown
  BY <1>1, <1>3, <1>4, <1>5 DEF ProcsKnown
<1>7. Kin
  BY <1>3 DEF Kin
<1>8. Rounds
  <2>1. ASSUME NEW k \in Nat PROVE Append(<<>>, k) \notin DOMAIN procs /\ ~ Begun(<<>>, k)
    BY <1>3, ChildNames DEF Begun
  <2>2. \A k \in Nat : Append(<<>>, k) \in DOMAIN procs <=> ForksIn(<<>>, k) /\ Begun(<<>>, k)
    BY <2>1
  <2>3. procs[<<>>].n # -1 /\ procs[<<>>].at \notin {"fork", "exit", "zombie", "reaped"}
    BY <1>3
  <2>4. \A p \in DOMAIN procs : p = <<>>
    BY <1>3
  <2> QED
    BY <2>2, <2>3, <2>4, Zenon DEF Rounds
<1> QED
  BY <1>6, <1>7, <1>8

(* What every step but a fork leaves as it was, and what it may do to the process p that
   takes it. *)
Moves(p, new) ==
  /\ run' = run
  /\ DOMAIN procs' = DOMAIN procs
  /\ procs'[p] = new
  /\ \A q \in DOMAIN procs \ {p} : procs'[q] = procs[q]
  /\ fork_failed => fork_failed'

LEMMA Moving ==
  ASSUME NEW p \in DOMAIN procs, NEW new, procs' = [procs EXCEPT ![p] = new],
         run' = run, fork_failed => fork_failed'
  PROVE  Moves(p, new)
  BY DEF Moves

(* A step within a round keeps the kinship, if it does not leave a child behind. *)
LEMMA KinKept ==
  ASSUME ProcsKnown, Kin, NEW p \in DOMAIN procs, NEW new \in Process, Moves(p, new),
         new.i = procs[p].i,
         new.at \in {"test", "fork"} => procs[p].at \in {"test", "fork"},
         new.at # "reaped" => procs[p].at # "reaped",
         procs[p].at = "wait" => new.at = "wait",
         procs[p].at = "print" /\ procs[p].n = 1 => new.at = "wait"
  PROVE  Kin'
<1> SUFFICES ASSUME NEW q \in DOMAIN procs', q # <<>>
             PROVE  /\ Front(q) \in DOMAIN procs'
                    /\ Last(q) <= procs'[q].i
                    /\ procs'[q].at \in {"test", "fork"} => Last(q) < procs'[q].i
                    /\ Last(q) <= procs'[Front(q)].i
                    /\ Last(q) = procs'[Front(q)].i =>
                         \/ procs'[Front(q)].at = "wait"
                         \/ procs'[Front(q)].at = "print" /\ procs'[Front(q)].n = 1
                    /\ procs'[q].at # "reaped" => Last(q) = procs'[Front(q)].i
  BY DEF Kin
<1>1. q \in DOMAIN procs \ {<<>>} /\ DOMAIN procs' = DOMAIN procs
  BY DEF Moves
<1>2. /\ Front(q) \in DOMAIN procs
      /\ Last(q) <= procs[q].i
      /\ procs[q].at \in {"test", "fork"} => Last(q) < procs[q].i
      /\ Last(q) <= procs[Front(q)].i
      /\ Last(q) = procs[Front(q)].i =>
           \/ procs[Front(q)].at = "wait"
           \/ procs[Front(q)].at = "print" /\ procs[Front(q)].n = 1
      /\ procs[q].at # "reaped" => Last(q) = procs[Front(q)].i
  BY <1>1 DEF Kin
<1> DEFINE parent == Front(q)
           last == Last(q)
<1>3. /\ procs'[q].i = procs[q].i
      /\ procs'[q].at \in {"test", "fork"} => procs[q].at \in {"test", "fork"}
      /\ procs'[q].at # "reaped" => procs[q].at # "reaped"
  BY <1>1 DEF Moves
<1>4. /\ procs'[parent].i = procs[parent].i
      /\ procs[parent].at = "wait" => procs'[parent].at = "wait"
      /\ procs[parent].at = "print" /\ procs[parent].n = 1 =>
           \/ procs'[parent].at = "wait"
           \/ procs'[parent].at = "print" /\ procs'[parent].n = 1
  BY <1>2 DEF Moves
<1> HIDE DEF parent, last
<1> QED
  BY <1>1, <1>2, <1>3, <1>4, Zenon DEF parent, last

(* A step within a round keeps the count of the rounds, if it is not past the fork of
   one in which it was meant to fork. *)
LEMMA RoundsKept ==
  ASSUME ProcsKnown, Rounds, NEW p \in DOMAIN procs, NEW new \in Process, Moves(p, new),
         new.i = procs[p].i,
         new.n = -1 => fork_failed',
         ~ fork_failed' =>
           /\ new.at = "fork" => ForksIn(p, new.i)
           /\ new.at \in {"exit", "zombie", "reaped"} => new.i = run.iterations
           /\ \/ new.at \in {"print", "wait"} <=> procs[p].at \in {"print", "wait"}
              \/ ~ ForksIn(p, new.i)
  PROVE  Rounds'
<1> SUFFICES ASSUME NEW q \in DOMAIN procs
             PROVE  /\ procs'[q].n = -1 => fork_failed'
                    /\ ~ fork_failed' =>
                         /\ \A k \in Nat : Append(q, k) \in DOMAIN procs' <=>
                              ForksIn(q, k)' /\ Begun(q, k)'
                         /\ procs'[q].at = "fork" => ForksIn(q, procs[q].i)'
                         /\ procs'[q].at \in {"exit", "zombie", "reaped"} =>
                              procs'[q].i = run'.iterations
  BY DEF Rounds, Moves
<1>1. run' = run /\ DOMAIN procs' = DOMAIN procs /\ (fork_failed => fork_failed')
  BY DEF Moves
<1>2. ~ fork_failed' =>
        /\ procs'[q].at = "fork" => ForksIn(q, procs[q].i)
        /\ procs'[q].at \in {"exit", "zombie", "reaped"} => procs'[q].i = run.iterations
        /\ procs'[q].i = procs[q].i
        /\ \/ procs'[q].at \in {"print", "wait"} <=> procs[q].at \in {"print", "wait"}
           \/ ~ ForksIn(q, procs[q].i)
  <2>1. CASE q = p
    BY <2>1 DEF Moves
  <2>2. CASE q # p
    BY <1>1, <2>2 DEF Moves, Rounds
  <2> QED
    BY <2>1, <2>2
<1>3. procs'[q].n = -1 => fork_failed'
  BY <1>1 DEF Moves, Rounds
<1>4. ForksIn(q, procs[q].i)' <=> IF run'.program = "parentcreates" THEN q = <<>>
        ELSE (q = <<>> /\ procs'[q].i = 0) \/ (q = <<0>> /\ procs'[q].i > 0)
  BY DEF ForksIn
<1>5. ASSUME ~ fork_failed', NEW k \in Nat
      PROVE  Append(q, k) \in DOMAIN procs' <=> ForksIn(q, k)' /\ Begun(q, k)'
  <2>1. Append(q, k) \in DOMAIN procs <=> ForksIn(q, k) /\ Begun(q, k)
    BY <1>1, <1>5 DEF Rounds
  <2>2. ForksIn(q, k)' <=> ForksIn(q, k)
    BY <1>1 DEF ForksIn
  <2>3. Begun(q, k)' <=> k < procs[q].i \/ (k = procs[q].i /\ procs'[q].at \in {"print", "wait"})
    BY <1>2, <1>5 DEF Begun
  <2>4. k = procs[q].i \/ (Begun(q, k)' <=> Begun(q, k))
    BY <2>3 DEF Begun
  <2>5. k = procs[q].i /\ ForksIn(q, k) => (Begun(q, k)' <=> Begun(q, k))
    <3> SUFFICES ASSUME k = procs[q].i, ForksIn(q, k) PROVE Begun(q, k)' <=> Begun(q, k)
      OBVIOUS
    <3>1. procs'[q].at \in {"print", "wait"} <=> procs[q].at \in {"print", "wait"}
      BY <1>2, <1>5
    <3> QED
      BY <2>3, <3>1 DEF Begun
  <2> QED
    BY <1>1, <2>1, <2>2, <2>4, <2>5, Zenon
<1>6. ~ fork_failed' => (ForksIn(q, procs[q].i)' <=> ForksIn(q, procs[q].i))
  BY <1>1, <1>2, <1>4 DEF ForksIn
<1> QED
  BY <1>1, <1>2, <1>3, <1>5, <1>6

(* A process that has not been waited for has a parent that has not exited. *)
LEMMA ParentAlive ==
  ASSUME ProcsKnown, Kin, NEW p \in DOMAIN procs, p # <<>>, procs[p].at # "reaped"
  PROVE  getppid(p) = Front(p)
<1>1. /\ Front(p) \in DOMAIN procs /\ Last(p) = procs[Front(p)].i
      /\ procs[Front(p)].at = "wait" \/ procs[Front(p)].at = "print"
  BY DEF Kin
<1>2. Alive(Front(p))
  BY <1>1 DEF Alive
<1> QED
  BY <1>2 DEF getppid

LEMMA RightLine ==
  ASSUME ProcsKnown, Kin, NEW p \in DOMAIN procs, procs[p].at = "print"
  PROVE  [pid |-> p, ppid |-> getppid(p), i |-> procs[p].i] \in RightLines
<1>1. p \in Seq(Nat) /\ procs[p].i \in Nat
  BY DEF ProcsKnown, Process
<1>2. CASE p = <<>>
  <2>1. getppid(p) = shell /\ shell \in Seq(Int)
    BY <1>2 DEF getppid, shell
  <2> QED
    BY <1>1, <1>2, <2>1 DEF RightLines
<1>3. CASE p # <<>>
  <2>1. getppid(p) = Front(p)
    BY <1>3, ParentAlive
  <2>2. Front(p) \in Seq(Int)
    <3>1. Front(p) \in Seq(Nat) /\ Nat \subseteq Int
      BY <1>1, <1>3, ParentNames
    <3> QED
      BY <3>1, SeqGrows
  <2> QED
    BY <1>1, <1>3, <2>1, <2>2 DEF RightLines
<1> QED
  BY <1>2, <1>3

(* Who forks, by getppid and by its own round, is who is meant to. *)
LEMMA WhoForks ==
  ASSUME ProcsKnown, Kin, Rounds, Waiting, ~ fork_failed,
         NEW p \in DOMAIN procs, procs[p].at = "test"
  PROVE  Forks(p) <=> ForksIn(p, procs[p].i)
<1>1. p \in Seq(Nat) /\ procs[p].i \in Nat
  BY DEF ProcsKnown, Process
<1>2. CASE run.program = "parentcreates"
  BY <1>2 DEF Forks, ForksIn
<1>3. CASE run.program = "childcreates"
  <2>1. Forks(p) <=> (p = <<>> /\ procs[p].i = 0) \/ getppid(p) = <<>>
    BY <1>3 DEF Forks
  <2>2. ForksIn(p, procs[p].i) <=> (p = <<>> /\ procs[p].i = 0) \/ (p = <<0>> /\ procs[p].i > 0)
    BY <1>3 DEF ForksIn
  <2>3. CASE p = <<>>
    <3>1. getppid(p) # <<>> /\ p # <<0>>
      BY <2>3 DEF getppid, shell
    <3> QED
      BY <2>1, <2>2, <3>1
  <2>4. CASE p # <<>>
    <3>1. getppid(p) = Front(p) /\ Last(p) < procs[p].i
      BY <2>4, ParentAlive DEF Kin
    <3>2. p = Append(Front(p), Last(p)) /\ Last(p) \in Nat
      BY <1>1, <2>4, ParentNames
    <3>3. ASSUME Front(p) = <<>> PROVE p = <<0>> /\ procs[p].i > 0
      <4>1. Append(<<>>, Last(p)) \in DOMAIN procs /\ <<>> \in DOMAIN procs
        BY <3>2, <3>3 DEF ProcsKnown
      <4>2. ForksIn(<<>>, Last(p))
        BY <3>2, <4>1 DEF Rounds
      <4>3. Last(p) = 0
        BY <1>3, <4>2 DEF ForksIn
      <4>4. p = Append(<<>>, 0)
        BY <3>2, <3>3, <4>3
      <4> QED
        BY <1>1, <3>1, <4>3, <4>4
    <3>4. ASSUME p = << 0 >> PROVE Front(p) = <<>>
      <4>1. p = Append(<<>>, 0) /\ <<>> \in Seq(Nat) /\ 0 \in Nat
        BY <3>4
      <4> QED
        BY <4>1, ChildNames
    <3> QED
      BY <2>1, <2>2, <2>4, <3>1, <3>3, <3>4
  <2> QED
    BY <2>3, <2>4
<1> QED
  BY <1>2, <1>3 DEF Waiting

(* What a step may do to the other parts of the state. *)
LEMMA KnownKept ==
  ASSUME ProcsKnown, NEW p \in DOMAIN procs, NEW new \in Process, Moves(p, new),
         DOMAIN out' \subseteq RightLines
  PROVE  ProcsKnown'
<1>1. \A q \in DOMAIN procs' : procs'[q] \in Process
  BY DEF Moves, ProcsKnown
<1> QED
  BY <1>1 DEF Moves, ProcsKnown

(* A new process has a new name. *)
LEMMA NewChild ==
  ASSUME ProcsKnown, Kin, NEW p \in DOMAIN procs, procs[p].at = "fork"
  PROVE  /\ Append(p, procs[p].i) \in Seq(Nat) \ DOMAIN procs
         /\ Append(p, procs[p].i) # <<>>
         /\ Front(Append(p, procs[p].i)) = p /\ Last(Append(p, procs[p].i)) = procs[p].i
<1>1. p \in Seq(Nat) /\ procs[p].i \in Nat
  BY DEF ProcsKnown, Process
<1> DEFINE c == Append(p, procs[p].i)
<1>2. c \in Seq(Nat) /\ c # <<>> /\ Front(c) = p /\ Last(c) = procs[p].i
  BY <1>1, ChildNames
<1> HIDE DEF c
<1>3. c \notin DOMAIN procs
  BY <1>2 DEF Kin
<1> QED
  BY <1>2, <1>3 DEF c

LEMMA ForkKeeps ==
  ASSUME ProcsKnown, Kin, Rounds, Waiting, NEW p \in DOMAIN procs, Fork(p)
  PROVE  ProcsKnown' /\ Kin' /\ Rounds'
<1> DEFINE me == procs[p]
           c == Append(p, me.i)
<1>1. me \in Process /\ me.at = "fork" /\ p \in Seq(Nat) /\ me.i \in Nat
  BY DEF Fork, ProcsKnown, Process
<1>2. c \in Seq(Nat) /\ c \notin DOMAIN procs /\ c # <<>> /\ Front(c) = p /\ Last(c) = me.i
  BY <1>1, NewChild
<1>3. AfterFork = "print"
  BY DEF AfterFork, Waiting
<1>4. procs' = [q \in DOMAIN procs \cup {c} |->
                  IF q = c THEN [me EXCEPT !.at = "print", !.n = 0]
                  ELSE IF q = p THEN [me EXCEPT !.at = "print", !.n = 1] ELSE procs[q]]
  BY <1>3 DEF Fork
<1>5. UNCHANGED <<run, tty, out, fork_failed>>
  BY DEF Fork
<1>6. DOMAIN procs' = DOMAIN procs \cup {c}
  BY <1>4
<1>7. /\ procs'[c] \in Process /\ procs'[c].at = "print" /\ procs'[c].n = 0
      /\ procs'[c].i = me.i
  BY <1>1, <1>4 DEF Process
<1>8. /\ procs'[p] \in Process /\ procs'[p].at = "print" /\ procs'[p].n = 1
      /\ procs'[p].i = me.i
  BY <1>1, <1>2, <1>4 DEF Process
<1>9. \A q \in DOMAIN procs : q # p => procs'[q] = procs[q]
  BY <1>2, <1>4
<1> HIDE DEF me, c
<1>10. ProcsKnown'
  <2>1. \A q \in DOMAIN procs' : procs'[q] \in Process
    BY <1>6, <1>7, <1>8, <1>9 DEF ProcsKnown
  <2> QED
    BY <1>2, <1>5, <1>6, <2>1 DEF ProcsKnown
<1>11. Kin'
  <2> SUFFICES ASSUME NEW q \in DOMAIN procs', q # <<>>
               PROVE  /\ Front(q) \in DOMAIN procs'
                      /\ Last(q) <= procs'[q].i
                      /\ procs'[q].at \in {"test", "fork"} => Last(q) < procs'[q].i
                      /\ Last(q) <= procs'[Front(q)].i
                      /\ Last(q) = procs'[Front(q)].i =>
                           \/ procs'[Front(q)].at = "wait"
                           \/ procs'[Front(q)].at = "print" /\ procs'[Front(q)].n = 1
                      /\ procs'[q].at # "reaped" => Last(q) = procs'[Front(q)].i
    BY DEF Kin
  <2>1. CASE q = c
    BY <1>1, <1>2, <1>6, <1>7, <1>8, <2>1
  <2>2. CASE q # c
    <3>1. q \in DOMAIN procs
      BY <1>6, <2>2
    <3>2. /\ Front(q) \in DOMAIN procs
          /\ Last(q) <= procs[q].i
          /\ procs[q].at \in {"test", "fork"} => Last(q) < procs[q].i
          /\ Last(q) <= procs[Front(q)].i
          /\ Last(q) = procs[Front(q)].i =>
               \/ procs[Front(q)].at = "wait"
               \/ procs[Front(q)].at = "print" /\ procs[Front(q)].n = 1
          /\ procs[q].at # "reaped" => Last(q) = procs[Front(q)].i
      BY <3>1 DEF Kin
    <3>3. /\ procs'[q].i = procs[q].i
          /\ procs'[q].at \in {"test", "fork"} => procs[q].at \in {"test", "fork"}
          /\ procs'[q].at # "reaped" => procs[q].at # "reaped"
      <4>1. CASE q = p
        BY <1>1, <1>8, <4>1 DEF me
      <4> QED
        BY <1>9, <3>1, <4>1
    <3> DEFINE parent == Front(q)
               last == Last(q)
    <3>4. CASE parent = p
      <4>1. last < me.i /\ procs[q].at = "reaped"
        <5>1. procs[parent].at = "fork"
          BY <1>1, <3>4 DEF me
        <5>2. last # procs[parent].i
          BY <3>2, <5>1
        <5>3. last \in Nat
          BY <3>1, ParentNames DEF ProcsKnown
        <5> QED
          BY <1>1, <3>2, <3>4, <5>2, <5>3 DEF me
      <4>2. procs'[parent].i = me.i
        BY <1>8, <3>4
      <4>3. last \in Nat
        BY <3>1, ParentNames DEF ProcsKnown
      <4> HIDE DEF parent, last
      <4>4. last <= procs'[parent].i /\ last # procs'[parent].i /\ procs'[q].at = "reaped"
        BY <1>1, <3>3, <4>1, <4>2, <4>3
      <4> QED
        BY <1>6, <3>2, <3>3, <4>4 DEF parent, last
    <3>5. CASE parent # p
      <4>1. procs'[parent] = procs[parent]
        BY <1>9, <3>2, <3>5
      <4> HIDE DEF parent, last
      <4> QED
        BY <1>6, <3>2, <3>3, <4>1 DEF parent, last
    <3> QED
      BY <3>4, <3>5
  <2> QED
    BY <2>1, <2>2
<1>12. Rounds'
  <2> SUFFICES ASSUME NEW q \in DOMAIN procs'
               PROVE  /\ procs'[q].n = -1 => fork_failed'
                      /\ ~ fork_failed' =>
                           /\ \A k \in Nat : Append(q, k) \in DOMAIN procs' <=>
                                ForksIn(q, k)' /\ Begun(q, k)'
                           /\ procs'[q].at = "fork" => ForksIn(q, procs[q].i)'
                           /\ procs'[q].at \in {"exit", "zombie", "reaped"} =>
                                procs'[q].i = run'.iterations
    BY DEF Rounds
  <2>1. CASE q \notin {c, p}
    <3>1. q \in DOMAIN procs /\ procs'[q] = procs[q]
      BY <1>6, <1>9, <2>1
    <3>2. ASSUME NEW k \in Nat PROVE Append(q, k) \in DOMAIN procs' <=> Append(q, k) \in DOMAIN procs
      <4>1. Front(Append(q, k)) = q
        BY <3>1, ChildNames DEF ProcsKnown
      <4>2. Append(q, k) # c
        BY <1>2, <2>1, <4>1
      <4> QED
        BY <1>6, <4>2
    <3> QED
      BY <1>5, <3>1, <3>2 DEF Rounds, ForksIn, Begun
  <2>2. CASE q = p
    <3>1. ASSUME ~ fork_failed, NEW k \in Nat
          PROVE  Append(p, k) \in DOMAIN procs' <=> ForksIn(p, k)' /\ Begun(p, k)'
      <4>1. Append(p, k) \in DOMAIN procs <=> ForksIn(p, k) /\ k < me.i
        BY <1>1, <3>1 DEF Rounds, Begun, me
      <4>2. Begun(p, k)' <=> k < me.i \/ k = me.i
        BY <1>8 DEF Begun
      <4>3. ForksIn(p, k)' <=> ForksIn(p, k)
        BY <1>5 DEF ForksIn
      <4>4. ForksIn(p, me.i)
        BY <1>1, <3>1 DEF Rounds, me
      <4>5. Append(p, k) = c <=> k = me.i
        <5>1. Last(Append(p, k)) = k
          BY <1>1, ChildNames
        <5>2. k = me.i => Append(p, k) = c
          BY DEF c
        <5> QED
          BY <1>2, <5>1, <5>2
      <4> QED
        BY <1>6, <4>1, <4>2, <4>3, <4>4, <4>5
    <3> QED
      BY <1>5, <1>8, <2>2, <3>1
  <2>3. CASE q = c
    <3>1. ASSUME NEW k \in Nat PROVE Append(q, k) \notin DOMAIN procs'
      <4>1. Append(q, k) \in Seq(Nat) /\ Append(q, k) # <<>> /\ Front(Append(q, k)) = q
        BY <1>2, <2>3, ChildNames
      <4>2. Append(q, k) \notin DOMAIN procs
        BY <1>2, <2>3, <4>1 DEF Kin
      <4>3. Append(q, k) # q
        BY <1>2, <2>3, <4>1 DEF ProcsKnown
      <4> QED
        BY <1>6, <2>3, <4>2, <4>3
    <3>2. ASSUME NEW k \in Nat, ForksIn(q, k)', ~ fork_failed PROVE ~ Begun(q, k)'
      <4>1. c = <<0>> /\ k > 0
        BY <1>2, <2>3, <3>2 DEF ForksIn
      <4>2. me.i = 0
        <5>1. <<0>> = Append(<<>>, 0) /\ <<>> \in Seq(Nat)
          OBVIOUS
        <5>2. Last(<<0>>) = 0
          BY <5>1, ChildNames
        <5> QED
          BY <1>2, <4>1, <5>2
      <4> QED
        BY <1>7, <2>3, <4>1, <4>2 DEF Begun
    <3> QED
      BY <1>5, <1>7, <2>3, <3>1, <3>2
  <2> QED
    BY <2>1, <2>2, <2>3
<1> QED
  BY <1>10, <1>11, <1>12

(* wait ends the round: none of the process's children is left, since it had one at
   most. *)
LEMMA WaitKeeps ==
  ASSUME ProcsKnown, Kin, Rounds, Waiting, NEW p \in DOMAIN procs, Wait(p)
  PROVE  ProcsKnown' /\ Kin' /\ Rounds'
<1> DEFINE me == procs[p]
<1>1. /\ me \in Process /\ me.at = "wait" /\ p \in Seq(Nat) /\ me.i \in Nat
  BY DEF Wait, ProcsKnown, Process
<1>2. UNCHANGED <<run, tty, out, fork_failed>>
  BY DEF Wait
<1>3. \A q \in Children(p) : q \in DOMAIN procs /\ q # <<>> /\ Front(q) = p /\ Last(q) = me.i
  BY DEF Children, Kin
<1>4. \A q, r \in Children(p) : q = r
  <2> SUFFICES ASSUME NEW q \in Children(p), NEW r \in Children(p) PROVE q = r
    OBVIOUS
  <2>1. q = Append(p, me.i) /\ r = Append(p, me.i)
    BY <1>3, ParentNames DEF ProcsKnown
  <2> QED
    BY <2>1
<1>5. p \notin Children(p)
  <2> SUFFICES ASSUME p \in Children(p) PROVE FALSE
    OBVIOUS
  <2>1. p = Append(p, Last(p)) /\ Last(p) \in Nat
    BY <1>1, <1>3, ParentNames
  <2>2. Len(p) = Len(p) + 1 /\ Len(p) \in Nat
    BY <1>1, <2>1
  <2> QED
    BY <2>2
<1>6. /\ DOMAIN procs' = DOMAIN procs
      /\ procs'[p] = [me EXCEPT !.at = "test", !.i = me.i + 1]
      /\ \A q \in DOMAIN procs \ {p} :
           IF q \in Children(p) THEN procs[q].at = "zombie" /\ procs'[q] = [procs[q] EXCEPT !.at = "reaped"]
           ELSE procs'[q] = procs[q]
  <2> DEFINE goesOn == [procs EXCEPT ![p].at = "test", ![p].i = @ + 1]
  <2>1. /\ DOMAIN goesOn = DOMAIN procs
        /\ goesOn[p] = [me EXCEPT !.at = "test", !.i = me.i + 1]
        /\ \A q \in DOMAIN procs \ {p} : goesOn[q] = procs[q]
    BY <1>1 DEF Process
  <2> HIDE DEF goesOn
  <2>2. CASE Children(p) = {} /\ procs' = goesOn
    BY <2>1, <2>2
  <2>3. ASSUME NEW q \in Children(p), procs[q].at = "zombie", procs' = [goesOn EXCEPT ![q].at = "reaped"]
        PROVE  <1>6!1 /\ <1>6!2 /\ <1>6!3
    <3>1. q \in DOMAIN procs /\ q # p
      BY <1>3, <1>5, <2>3
    <3>2. DOMAIN procs' = DOMAIN procs /\ procs'[p] = goesOn[p]
      BY <2>1, <2>3, <3>1
    <3>3. procs'[q] = [procs[q] EXCEPT !.at = "reaped"]
      BY <2>1, <2>3, <3>1
    <3>4. \A r \in DOMAIN procs \ {p} : r # q => procs'[r] = procs[r] /\ r \notin Children(p)
      BY <1>4, <2>1, <2>3, <3>1
    <3> QED
      BY <2>1, <2>3, <3>2, <3>3, <3>4
  <2> QED
    BY <2>2, <2>3 DEF Wait, goesOn
<1>7. /\ procs'[p] \in Process /\ procs'[p].at = "test" /\ procs'[p].i = me.i + 1
      /\ procs'[p].n = me.n
  <2>1. procs'[p] = [me EXCEPT !.at = "test", !.i = me.i + 1]
    BY <1>6
  <2>2. me \in [at : {"test", "fork", "print", "wait", "exit", "zombie", "reaped"},
                i : Nat, n : {-1, 0, 1}, stdout : Seq(RightLines)]
    BY <1>1 DEF Process
  <2> HIDE DEF me
  <2>3. procs'[p] = [at |-> "test", i |-> me.i + 1, n |-> me.n, stdout |-> me.stdout]
    BY <2>1, <2>2
  <2>4. me.i + 1 \in Nat /\ me.n \in {-1, 0, 1} /\ me.stdout \in Seq(RightLines)
    BY <2>2
  <2>5. procs'[p] \in Process
    BY <2>3, <2>4 DEF Process
  <2> QED
    BY <2>3, <2>5
<1>8. \A q \in DOMAIN procs \ {p} :
        /\ procs'[q] \in Process /\ procs'[q].i = procs[q].i /\ procs'[q].n = procs[q].n
        /\ procs'[q].at = IF q \in Children(p) THEN "reaped" ELSE procs[q].at
        /\ q \in Children(p) => procs[q].at = "zombie"
  <2> SUFFICES ASSUME NEW q \in DOMAIN procs \ {p}
               PROVE  /\ procs'[q] \in Process /\ procs'[q].i = procs[q].i
                      /\ procs'[q].n = procs[q].n
                      /\ procs'[q].at = IF q \in Children(p) THEN "reaped" ELSE procs[q].at
                      /\ q \in Children(p) => procs[q].at = "zombie"
    OBVIOUS
  <2> DEFINE him == procs[q]
  <2>1. him \in [at : {"test", "fork", "print", "wait", "exit", "zombie", "reaped"},
                 i : Nat, n : {-1, 0, 1}, stdout : Seq(RightLines)]
    BY DEF ProcsKnown, Process
  <2>2. CASE q \in Children(p)
    <3>1. procs'[q] = [him EXCEPT !.at = "reaped"] /\ him.at = "zombie"
      BY <1>6, <2>2
    <3> HIDE DEF him
    <3>2. procs'[q] \in Process /\ procs'[q].i = him.i /\ procs'[q].n = him.n /\ procs'[q].at = "reaped"
      BY <2>1, <3>1 DEF Process
    <3> QED
      BY <2>2, <3>1, <3>2 DEF him
  <2>3. CASE q \notin Children(p)
    <3>1. procs'[q] = him
      BY <1>6, <2>3
    <3> QED
      BY <2>1, <2>3, <3>1 DEF Process
  <2> QED
    BY <2>2, <2>3
<1> HIDE DEF me
<1>9. ProcsKnown'
  BY <1>2, <1>6, <1>7, <1>8 DEF ProcsKnown
<1>10. Kin'
  <2> SUFFICES ASSUME NEW q \in DOMAIN procs', q # <<>>
               PROVE  /\ Front(q) \in DOMAIN procs'
                      /\ Last(q) <= procs'[q].i
                      /\ procs'[q].at \in {"test", "fork"} => Last(q) < procs'[q].i
                      /\ Last(q) <= procs'[Front(q)].i
                      /\ Last(q) = procs'[Front(q)].i =>
                           \/ procs'[Front(q)].at = "wait"
                           \/ procs'[Front(q)].at = "print" /\ procs'[Front(q)].n = 1
                      /\ procs'[q].at # "reaped" => Last(q) = procs'[Front(q)].i
    BY DEF Kin
  <2> DEFINE parent == Front(q)
             round == Last(q)
  <2>1. /\ parent \in DOMAIN procs
        /\ round <= procs[q].i
        /\ procs[q].at \in {"test", "fork"} => round < procs[q].i
        /\ round <= procs[parent].i
        /\ round = procs[parent].i =>
             \/ procs[parent].at = "wait"
             \/ procs[parent].at = "print" /\ procs[parent].n = 1
        /\ procs[q].at # "reaped" => round = procs[parent].i
    BY <1>6 DEF Kin
  <2>2. q \in DOMAIN procs /\ round \in Nat /\ procs[q].i \in Nat
    BY <1>6, ParentNames DEF ProcsKnown, Process
  <2>3. /\ round <= procs'[q].i
        /\ procs'[q].at \in {"test", "fork"} => round < procs'[q].i
    <3> HIDE DEF parent, round
    <3>1. CASE q = p
      BY <1>1, <1>7, <2>1, <2>2, <3>1 DEF me
    <3>2. CASE q # p
      BY <1>8, <2>1, <2>2, <3>2
    <3> QED
      BY <3>1, <3>2
  <2>4. CASE parent = p
    <3>1. procs'[q].at = "reaped"
      <4>1. CASE procs[q].at = "reaped"
        <5>1. q # p
          BY <1>1, <4>1 DEF me
        <5>2. q \notin Children(p)
          BY <4>1 DEF Children
        <5> QED
          BY <1>8, <2>2, <4>1, <5>1, <5>2
      <4>2. CASE procs[q].at # "reaped"
        <5>1. q \in Children(p)
          BY <2>2, <2>4, <4>2 DEF Children
        <5> QED
          BY <1>5, <1>8, <2>2, <5>1
      <4> QED
        BY <4>1, <4>2
    <3>2. procs'[parent].i = me.i + 1 /\ round <= me.i
      BY <1>7, <2>1, <2>4 DEF me
    <3> HIDE DEF parent, round
    <3>3. round <= procs'[parent].i /\ round # procs'[parent].i
      BY <1>1, <2>2, <3>2
    <3> QED
      BY <1>6, <2>1, <2>3, <3>1, <3>3 DEF parent, round
  <2>5. CASE parent # p
    <3>1. q \notin Children(p)
      BY <2>5 DEF Children
    <3>2. /\ procs'[parent].i = procs[parent].i /\ procs'[parent].n = procs[parent].n
          /\ procs[parent].at \in {"wait", "print"} => procs'[parent].at = procs[parent].at
      <4> HIDE DEF parent
      <4> QED
        BY <1>8, <2>1, <2>5
    <3>3. procs'[q].at # "reaped" => procs[q].at # "reaped"
      <4>1. CASE q = p
        BY <1>1, <4>1 DEF me
      <4> QED
        BY <1>8, <2>2, <3>1, <4>1
    <3> HIDE DEF parent, round
    <3> QED
      BY <1>6, <2>1, <2>3, <3>2, <3>3 DEF parent, round
  <2> QED
    BY <2>4, <2>5
<1>11. Rounds'
  <2> SUFFICES ASSUME NEW q \in DOMAIN procs
               PROVE  /\ procs'[q].n = -1 => fork_failed'
                      /\ ~ fork_failed' =>
                           /\ \A k \in Nat : Append(q, k) \in DOMAIN procs' <=>
                                ForksIn(q, k)' /\ Begun(q, k)'
                           /\ procs'[q].at = "fork" => ForksIn(q, procs[q].i)'
                           /\ procs'[q].at \in {"exit", "zombie", "reaped"} =>
                                procs'[q].i = run'.iterations
    BY <1>6 DEF Rounds
  <2>1. CASE q = p
    <3>1. ASSUME NEW k \in Nat PROVE Begun(p, k)' <=> Begun(p, k)
      <4>1. Begun(p, k)' <=> k < me.i + 1
        BY <1>1, <1>7 DEF Begun
      <4>2. Begun(p, k) <=> k < me.i \/ k = me.i
        BY <1>1 DEF Begun, me
      <4> QED
        BY <1>1, <4>1, <4>2
    <3>2. \A k \in Nat : ForksIn(p, k)' <=> ForksIn(p, k)
      BY <1>2 DEF ForksIn
    <3>3. procs'[p].n = -1 => fork_failed'
      BY <1>2, <1>7 DEF Rounds, me
    <3> QED
      BY <1>2, <1>6, <1>7, <2>1, <3>1, <3>2, <3>3 DEF Rounds
  <2>2. CASE q # p
    <3>1. /\ procs'[q].i = procs[q].i /\ procs'[q].n = procs[q].n
          /\ procs'[q].at \in {"print", "wait"} <=> procs[q].at \in {"print", "wait"}
          /\ procs'[q].at = "fork" => procs[q].at = "fork"
          /\ procs'[q].at \in {"exit", "zombie", "reaped"} =>
               procs[q].at \in {"exit", "zombie", "reaped"}
      BY <1>8, <2>2
    <3>2. \A k \in Nat : (ForksIn(q, k)' <=> ForksIn(q, k)) /\ (Begun(q, k)' <=> Begun(q, k))
      BY <1>2, <3>1 DEF ForksIn, Begun
    <3>3. ForksIn(q, procs[q].i)' <=> ForksIn(q, procs[q].i)
      BY <1>2, <3>1 DEF ForksIn
    <3> QED
      BY <1>2, <1>6, <3>1, <3>2, <3>3 DEF Rounds
  <2> QED
    BY <2>1, <2>2
<1> QED
  BY <1>9, <1>10, <1>11

LEMMA TestKeeps ==
  ASSUME ProcsKnown, Kin, Rounds, Waiting, NEW p \in DOMAIN procs, Test(p)
  PROVE  ProcsKnown' /\ Kin' /\ Rounds'
<1> DEFINE goal == IF procs[p].i = run.iterations THEN "exit" ELSE IF Forks(p) THEN "fork" ELSE "wait"
           new == [procs[p] EXCEPT !.at = goal]
<1>1. procs[p] \in Process /\ procs[p].at = "test"
  BY DEF Test, ProcsKnown
<1>2. goal \in {"exit", "fork", "wait"}
  OBVIOUS
<1>3. procs' = [procs EXCEPT ![p] = new] /\ UNCHANGED <<run, out, fork_failed>>
  BY DEF Test
<1>4. /\ goal = "fork" => Forks(p)
      /\ goal = "exit" => procs[p].i = run.iterations
      /\ goal = "wait" => ~ Forks(p)
  OBVIOUS
<1> HIDE DEF goal
<1>5. /\ new \in Process /\ new.at = goal /\ new.i = procs[p].i /\ new.n = procs[p].n
  BY <1>1, <1>2 DEF Process
<1> HIDE DEF new
<1>6. Moves(p, new)
  BY <1>3, Moving
<1>7. ProcsKnown'
  BY <1>3, <1>5, <1>6, KnownKept DEF ProcsKnown
<1>8. Kin'
  BY <1>1, <1>5, <1>6, KinKept
<1>9. new.n = -1 => fork_failed'
  BY <1>3, <1>5 DEF Rounds
<1>10. ~ fork_failed' => (Forks(p) <=> ForksIn(p, new.i))
  BY <1>1, <1>3, <1>5, WhoForks
<1>11. Rounds'
  BY <1>1, <1>2, <1>4, <1>5, <1>6, <1>9, <1>10, RoundsKept
<1> QED
  BY <1>7, <1>8, <1>11

LEMMA ForkFailsKeeps ==
  ASSUME ProcsKnown, Kin, Rounds, Waiting, NEW p \in DOMAIN procs, ForkFails(p)
  PROVE  ProcsKnown' /\ Kin' /\ Rounds'
<1> DEFINE new == [procs[p] EXCEPT !.at = "print", !.n = -1]
<1>1. procs[p] \in Process /\ procs[p].at = "fork"
  BY DEF ForkFails, ProcsKnown
<1>2. procs' = [procs EXCEPT ![p] = new] /\ UNCHANGED <<run, out>> /\ fork_failed'
  BY DEF ForkFails, Waiting, AfterFork
<1>3. new \in Process /\ new.at = "print" /\ new.i = procs[p].i /\ new.n = -1
  BY <1>1 DEF Process
<1> HIDE DEF new
<1>4. Moves(p, new)
  BY <1>2, Moving
<1>5. ProcsKnown'
  BY <1>2, <1>3, <1>4, KnownKept DEF ProcsKnown
<1>6. Kin'
  BY <1>1, <1>3, <1>4, KinKept
<1>7. Rounds'
  BY <1>2, <1>3, <1>4, RoundsKept
<1> QED
  BY <1>5, <1>6, <1>7

LEMMA PrintKeeps ==
  ASSUME ProcsKnown, Kin, Rounds, Waiting, NEW p \in DOMAIN procs, PrintLine(p)
  PROVE  ProcsKnown' /\ Kin' /\ Rounds'
<1> DEFINE me == procs[p]
           line_ == [pid |-> p, ppid |-> getppid(p), i |-> me.i]
           goal == IF me.n < 0 THEN "exit" ELSE "wait"
           goesOn == [me EXCEPT !.at = goal]
           new == procs'[p]
<1>1. me \in Process /\ me.at = "print"
  BY DEF PrintLine, ProcsKnown
<1>2. line_ \in RightLines
  BY <1>1, RightLine
<1>3. printf(p, line_, goesOn) /\ UNCHANGED <<run, fork_failed>>
  BY DEF PrintLine
<1> HIDE DEF line_
<1>4. goal \in {"exit", "wait"} /\ (goal = "exit" => me.n = -1) /\ (me.n = 1 => goal = "wait")
  BY <1>1 DEF Process
<1> HIDE DEF goal
<1>5. /\ goesOn \in Process /\ goesOn.at = goal /\ goesOn.i = me.i /\ goesOn.n = me.n
  BY <1>1, <1>4 DEF Process
<1> HIDE DEF goesOn
<1>6. /\ procs' = [procs EXCEPT ![p] = new]
      /\ new \in Process /\ new.at = goal /\ new.i = me.i /\ new.n = me.n
      /\ DOMAIN out' \subseteq RightLines
  <2>1. CASE tty
    <3>1. procs' = [procs EXCEPT ![p] = goesOn] /\ out' = out (+) SetToBag({line_})
      BY <1>3, <2>1 DEF printf
    <3>2. DOMAIN out' = DOMAIN out \cup {line_}
      BY <3>1 DEF (+), SetToBag
    <3> QED
      BY <1>2, <1>5, <3>1, <3>2 DEF ProcsKnown
  <2>2. CASE ~ tty
    <3> DEFINE longer == [goesOn EXCEPT !.stdout = Append(goesOn.stdout, line_)]
    <3>1. procs' = [procs EXCEPT ![p] = longer] /\ out' = out
      BY <1>3, <2>2 DEF printf
    <3>2. Append(goesOn.stdout, line_) \in Seq(RightLines)
      BY <1>2, <1>5 DEF Process
    <3>3. longer \in Process /\ longer.at = goal /\ longer.i = me.i /\ longer.n = me.n
      BY <1>5, <3>2 DEF Process
    <3> HIDE DEF longer
    <3> QED
      BY <3>1, <3>3 DEF ProcsKnown
  <2> QED
    BY <2>1, <2>2
<1> HIDE DEF new
<1>7. Moves(p, new)
  BY <1>3, <1>6, Moving
<1>8. ProcsKnown'
  BY <1>6, <1>7, KnownKept
<1>9. Kin'
  BY <1>1, <1>4, <1>6, <1>7, KinKept
<1>10. new.n = -1 => fork_failed'
  BY <1>3, <1>6 DEF Rounds
<1>11. ~ fork_failed' => new.at = "wait"
  BY <1>4, <1>6, <1>10
<1>12. Rounds'
  BY <1>1, <1>4, <1>6, <1>7, <1>10, <1>11, RoundsKept
<1> QED
  BY <1>8, <1>9, <1>12

LEMMA ExitKeeps ==
  ASSUME ProcsKnown, Kin, Rounds, Waiting, NEW p \in DOMAIN procs, Exit(p)
  PROVE  ProcsKnown' /\ Kin' /\ Rounds'
<1> DEFINE me == procs[p]
           new == [me EXCEPT !.at = "zombie"]
<1>1. me \in Process /\ me.at = "exit"
  BY DEF Exit, ProcsKnown
<1>2. /\ procs' = [procs EXCEPT ![p] = new] /\ UNCHANGED <<run, fork_failed>>
      /\ out' = out (+) ToBag(me.stdout)
  BY DEF Exit
<1>3. DOMAIN out' \subseteq RightLines
  <2> DEFINE s == me.stdout
  <2>1. s \in Seq(RightLines)
    BY <1>1 DEF Process
  <2> HIDE DEF s
  <2>2. DOMAIN ToBag(s) = {s[x] : x \in DOMAIN s}
    BY DEF ToBag, Range
  <2>3. DOMAIN ToBag(s) \subseteq RightLines
    BY <2>1, <2>2
  <2>4. DOMAIN out' = DOMAIN out \cup DOMAIN ToBag(s)
    BY <1>2 DEF (+), s
  <2> QED
    BY <2>3, <2>4 DEF ProcsKnown
<1>4. new \in Process /\ new.at = "zombie" /\ new.i = me.i /\ new.n = me.n
  BY <1>1 DEF Process
<1> HIDE DEF new
<1>5. Moves(p, new)
  BY <1>2, Moving
<1>6. ProcsKnown'
  BY <1>3, <1>4, <1>5, KnownKept
<1>7. Kin'
  BY <1>1, <1>4, <1>5, KinKept
<1>8. (new.n = -1 => fork_failed') /\ (~ fork_failed' => new.i = run.iterations)
  BY <1>1, <1>2, <1>4 DEF Rounds
<1>9. Rounds'
  BY <1>1, <1>4, <1>5, <1>8, RoundsKept
<1> QED
  BY <1>6, <1>7, <1>9

LEMMA ForksSteps == ForksInv /\ [ForksNext]_forksVars => ForksInv'
<1> SUFFICES ASSUME ForksInv, [ForksNext]_forksVars, Waiting' PROVE ProcsKnown' /\ Kin' /\ Rounds'
  BY DEF ForksInv
<1>1. CASE UNCHANGED forksVars
  <2>1. Waiting
    BY <1>1 DEF Waiting, forksVars
  <2> QED
    BY <1>1, <2>1 DEF ForksInv, forksVars, ProcsKnown, Kin, Rounds, ForksIn, Begun
<1>2. CASE ForksNext
  <2>1. PICK p \in DOMAIN procs :
          \/ SimplePrint(p) \/ Test(p) \/ Fork(p) \/ ForkFails(p)
          \/ PrintLine(p) \/ Wait(p) \/ Exit(p)
    BY <1>2 DEF ForksNext
  <2>2. run' = run
    BY <2>1 DEF SimplePrint, Test, Fork, ForkFails, PrintLine, Wait, Exit
  <2>3. Waiting /\ ProcsKnown /\ Kin /\ Rounds
    BY <2>2 DEF Waiting, ForksInv
  <2>4. ~ SimplePrint(p)
    BY <2>3 DEF SimplePrint, ProcsKnown, Process
  <2> QED
    BY <2>1, <2>3, <2>4, TestKeeps, ForkKeeps, ForkFailsKeeps, PrintKeeps, WaitKeeps, ExitKeeps
<1> QED
  BY <1>1, <1>2

(* When all have exited, the rounds in which the processes were forked are the numbers
   of the program's rounds, each one once. *)
LEMMA OneForkARound ==
  ASSUME ProcsKnown, Kin, Rounds, Waiting, AllExited, ~ fork_failed
  PROVE  Cardinality(DOMAIN procs) = run.iterations + 1
<1> DEFINE n == run.iterations
           D == DOMAIN procs
           f == [q \in D |-> IF q = <<>> THEN n ELSE Last(q)]
<1>1. n \in Nat /\ <<>> \in D /\ D \subseteq Seq(Nat)
  BY ForksAssumption DEF ProcsKnown
<1>2. ASSUME NEW p \in D, NEW k \in Nat
      PROVE  Append(p, k) \in D <=> ForksIn(p, k) /\ k < n
  <2>1. procs[p].at \in {"zombie", "reaped"} /\ procs[p].i = n
    BY DEF AllExited, Alive, Rounds
  <2>2. Append(p, k) \in D <=> ForksIn(p, k) /\ Begun(p, k)
    BY DEF Rounds
  <2>3. Begun(p, k) <=> k < n
    BY <2>1 DEF Begun
  <2> QED
    BY <2>2, <2>3
<1>3. ASSUME NEW q \in D, q # <<>>
      PROVE  /\ Front(q) \in D /\ Last(q) \in Nat /\ q = Append(Front(q), Last(q))
             /\ ForksIn(Front(q), Last(q)) /\ Last(q) < n
  <2>1. Front(q) \in D /\ Last(q) \in Nat /\ q = Append(Front(q), Last(q))
    BY <1>1, <1>3, ParentNames DEF Kin
  <2> QED
    BY <1>2, <2>1
<1> HIDE DEF n, D
<1>4. f \in [D -> 0 .. n]
  BY <1>1, <1>3
<1>5. IsInjective(f)
  <2> SUFFICES ASSUME NEW q \in D, NEW r \in D, f[q] = f[r] PROVE q = r
    BY DEF IsInjective
  <2>1. CASE q = <<>> \/ r = <<>>
    BY <1>1, <1>3, <2>1
  <2>2. CASE q # <<>> /\ r # <<>>
    <3>1. Last(q) = Last(r) /\ ForksIn(Front(q), Last(q)) /\ ForksIn(Front(r), Last(r))
      BY <1>3, <2>2
    <3>2. Front(q) = Front(r)
      BY <3>1 DEF ForksIn
    <3> QED
      BY <1>3, <2>2, <3>1, <3>2
  <2> QED
    BY <2>1, <2>2
<1>6. \A t \in 0 .. n : \E q \in D : f[q] = t
  <2> SUFFICES ASSUME NEW t \in 0 .. n PROVE \E q \in D : f[q] = t
    OBVIOUS
  <2>1. CASE t = n
    BY <1>1, <2>1
  <2>2. CASE t # n
    <3>1. t \in Nat /\ t < n /\ 0 < n
      BY <1>1, <2>2
    <3>2. PICK p \in D : ForksIn(p, t)
      <4>1. CASE run.program = "parentcreates" \/ t = 0
        BY <1>1, <4>1 DEF ForksIn
      <4>2. CASE run.program # "parentcreates" /\ t # 0
        <5>1. Append(<<>>, 0) \in D
          BY <1>1, <1>2, <3>1, <4>2 DEF ForksIn
        <5>2. <<0>> \in D
          BY <5>1
        <5> QED
          BY <3>1, <4>2, <5>2 DEF ForksIn
      <4> QED
        BY <4>1, <4>2
    <3>3. Append(p, t) \in D
      BY <1>2, <3>1, <3>2
    <3>4. Append(p, t) # <<>> /\ Last(Append(p, t)) = t
      BY <1>1, <3>1, <3>2, ChildNames
    <3> QED
      BY <3>3, <3>4
  <2> QED
    BY <2>1, <2>2
<1>7. f \in Injection(D, 0 .. n) /\ f \in Surjection(D, 0 .. n)
  BY <1>4, <1>5, <1>6 DEF Injection, Surjection
<1> HIDE DEF f
<1>8. IsFiniteSet(0 .. n) /\ Cardinality(0 .. n) = n + 1
  <2>1. 0 \in Int /\ n \in Int /\ n >= 0
    BY <1>1
  <2>2. /\ IsFiniteSet(0 .. n)
        /\ Cardinality(0 .. n) = IF 0 > n THEN 0 ELSE n - 0 + 1
    BY <2>1, FS_Interval
  <2> QED
    BY <2>1, <2>2
<1> QED
  BY <1>7, <1>8, FS_Injection DEF n, D

(* A process that is not waited for has a parent that has yet to wait. *)
LEMMA KinAwaited == ForksInv => ParentsAwait
<1> SUFFICES ASSUME ForksInv, Waiting
             PROVE  /\ \A p \in DOMAIN procs : ~ Alive(p) => Children(p) = {}
                    /\ \A line_ \in BagToSet(out) :
                         line_.ppid = IF line_.pid = <<>> THEN shell ELSE Front(line_.pid)
                    /\ AllExited /\ ~ fork_failed =>
                         Cardinality(DOMAIN procs) = run.iterations + 1
  BY DEF ParentsAwait
<1>1. ProcsKnown /\ Kin /\ Rounds
  BY DEF ForksInv
<1>2. ASSUME NEW p \in DOMAIN procs, ~ Alive(p), NEW q \in Children(p) PROVE FALSE
  <2>1. procs[p].at = "wait" \/ procs[p].at = "print"
    BY <1>1 DEF Kin, Children
  <2> QED
    BY <1>2, <2>1 DEF Alive
<1>3. \A line_ \in BagToSet(out) :
        line_.ppid = IF line_.pid = <<>> THEN shell ELSE Front(line_.pid)
  BY <1>1 DEF BagToSet, ProcsKnown, RightLines
<1> QED
  BY <1>1, <1>2, <1>3, OneForkARound

(* In the two programs that wait, every child is waited for, every ppid is that of the
   process that forked, and as many children are forked as there are rounds: for any
   number of rounds, on a terminal and elsewhere, with any failures of fork. *)
THEOREM ParentsAlwaysAwait == ForksSpec => []ParentsAwait
BY KinAwaited, ForksStart, ForksSteps, PTL DEF ForksSpec

--------------------------------------------------------------------------------
(* LineBuffer: the lines of a connection. *)

(* The number of bytes of the stream that are consumed. *)
Consumed == got - inbuf

(* The input in the buffer is what follows them, and they end with a line. *)
Buffered ==
  /\ Paired(stream)
  /\ Consumed \in 0 .. Len(stream)
  /\ Consumed = 0 \/ stream[Consumed] = "LF"
  /\ state # "aborted" => inbuf >= 0
  /\ \A j \in 0 .. inbuf - 1 : buf[j] = stream[Consumed + j + 1]

(* Before a read the buffer has no newline, and perhaps the first half of one, if it is
   not full. *)
Searched ==
  state = "read" =>
    /\ \A j \in 0 .. inbuf - 2 : buf[j] # "CR"
    /\ inbuf = BUFSIZE => buf[BUFSIZE - 1] # "CR"

(* The lines handed on are those that end in what is consumed. *)
HandedOn ==
  /\ Len(lines) = Cardinality(NewlinesUpTo(stream, Consumed))
  /\ \A k \in 1 .. Len(lines) : lines[k] = Split(stream)[k]
  /\ state = "closed" /\ LinesFit => NewlinesUpTo(stream, Consumed) = NewlinesIn(stream)

LineInv == LineTypeOK /\ Buffered /\ Searched /\ HandedOn

LEMMA FiniteNewlines ==
  ASSUME NEW s \in Seq(Bytes), NEW n \in Int
  PROVE  /\ IsFiniteSet(NewlinesIn(s)) /\ Cardinality(NewlinesIn(s)) \in Nat
         /\ IsFiniteSet(NewlinesUpTo(s, n)) /\ Cardinality(NewlinesUpTo(s, n)) \in Nat
         /\ Cardinality(NewlinesUpTo(s, n)) <= Cardinality(NewlinesIn(s))
<1>1. 1 \in Int /\ Len(s) - 1 \in Int
  OBVIOUS
<1>2. IsFiniteSet(1 .. Len(s) - 1)
  BY <1>1, FS_Interval
<1>3. NewlinesIn(s) \subseteq 1 .. Len(s) - 1 /\ NewlinesUpTo(s, n) \subseteq NewlinesIn(s)
  BY DEF NewlinesIn, NewlinesUpTo
<1>4. IsFiniteSet(NewlinesIn(s))
  BY <1>2, <1>3, FS_Subset
<1>5. /\ IsFiniteSet(NewlinesUpTo(s, n))
      /\ Cardinality(NewlinesUpTo(s, n)) <= Cardinality(NewlinesIn(s))
  BY <1>3, <1>4, FS_Subset
<1> QED
  BY <1>4, <1>5, FS_CardinalityType

(* A newline has as its number that of the newlines up to it. *)
LEMMA NewlineByNumber ==
  ASSUME NEW s \in Seq(Bytes), NEW i \in NewlinesIn(s)
  PROVE  Newline(s, Cardinality(NewlinesUpTo(s, i))) = i
<1>1. NewlinesIn(s) \subseteq Nat
  BY DEF NewlinesIn
<1>2. ASSUME NEW m \in NewlinesIn(s), NEW n \in NewlinesIn(s), m < n
      PROVE  Cardinality(NewlinesUpTo(s, m)) # Cardinality(NewlinesUpTo(s, n))
  <2>1. m \in Int /\ n \in Int
    BY <1>1
  <2>2. NewlinesUpTo(s, m) \subseteq NewlinesUpTo(s, n)
    BY <1>1, <1>2 DEF NewlinesUpTo
  <2>3. n \in NewlinesUpTo(s, n) /\ n \notin NewlinesUpTo(s, m)
    BY <1>1, <1>2 DEF NewlinesUpTo
  <2>4. IsFiniteSet(NewlinesUpTo(s, n))
    BY <2>1, FiniteNewlines
  <2>5. Cardinality(NewlinesUpTo(s, m)) = Cardinality(NewlinesUpTo(s, n)) =>
          NewlinesUpTo(s, m) = NewlinesUpTo(s, n)
    BY <2>2, <2>4, FS_Subset
  <2> QED
    BY <2>3, <2>5
<1>3. ASSUME NEW j \in NewlinesIn(s),
             Cardinality(NewlinesUpTo(s, j)) = Cardinality(NewlinesUpTo(s, i))
      PROVE  j = i
  <2>1. i \in Nat /\ j \in Nat
    BY <1>1
  <2>2. ~ (i < j) /\ ~ (j < i)
    BY <1>2, <1>3
  <2> QED
    BY <2>1, <2>2
<1> QED
  BY <1>3 DEF Newline

(* The line after a line: its number, and its bytes. *)
LEMMA LineAfter ==
  ASSUME NEW s \in Seq(Bytes), Paired(s), NEW c \in 0 .. Len(s), c = 0 \/ s[c] = "LF",
         NEW e \in NewlinesIn(s), c < e, \A j \in c + 1 .. e - 1 : s[j] # "CR",
         NEW k, k = Cardinality(NewlinesUpTo(s, c))
  PROVE  /\ k + 1 \in 1 .. Cardinality(NewlinesIn(s))
         /\ Cardinality(NewlinesUpTo(s, e + 1)) = k + 1
         /\ Split(s)[k + 1] = SubSeq(s, c + 1, e - 1)
<1>1. Len(s) \in Nat /\ e \in 1 .. Len(s) - 1 /\ s[e] = "CR" /\ s[e + 1] = "LF"
  BY DEF NewlinesIn
<1>2. NewlinesUpTo(s, e) = NewlinesUpTo(s, c) \cup {e} /\ e \notin NewlinesUpTo(s, c)
  <2>1. ASSUME NEW i \in NewlinesUpTo(s, e), i # e PROVE i \in NewlinesUpTo(s, c)
    <3>1. i \in 1 .. Len(s) - 1 /\ i <= e /\ s[i] = "CR" /\ i \in NewlinesIn(s)
      BY <2>1 DEF NewlinesUpTo, NewlinesIn
    <3>2. i \notin c + 1 .. e - 1
      BY <3>1
    <3>3. i <= c
      BY <1>1, <2>1, <3>1, <3>2
    <3> QED
      BY <3>1, <3>3 DEF NewlinesUpTo
  <2>2. NewlinesUpTo(s, c) \subseteq NewlinesUpTo(s, e)
    BY <1>1 DEF NewlinesUpTo, NewlinesIn
  <2>3. e \in NewlinesUpTo(s, e) /\ e \notin NewlinesUpTo(s, c)
    BY <1>1 DEF NewlinesUpTo
  <2> QED
    BY <2>1, <2>2, <2>3
<1>3. /\ IsFiniteSet(NewlinesUpTo(s, c)) /\ k \in Nat
      /\ Cardinality(NewlinesIn(s)) \in Nat
      /\ Cardinality(NewlinesUpTo(s, e)) <= Cardinality(NewlinesIn(s))
  <2>1. c \in Int /\ e \in Int
    BY <1>1
  <2> QED
    BY <2>1, FiniteNewlines
<1>4. Cardinality(NewlinesUpTo(s, e)) = k + 1
  BY <1>2, <1>3, FS_AddElement
<1>5. NewlinesUpTo(s, e + 1) = NewlinesUpTo(s, e)
  <2>1. e + 1 \notin NewlinesIn(s)
    BY <1>1 DEF NewlinesIn
  <2> QED
    BY <1>1, <2>1 DEF NewlinesUpTo, NewlinesIn
<1>6. Newline(s, k + 1) = e
  BY <1>4, NewlineByNumber
<1>7. CASE c = 0
  <2>1. NewlinesUpTo(s, c) = {}
    BY <1>7 DEF NewlinesUpTo, NewlinesIn
  <2>2. k = 0
    BY <2>1, FS_EmptySet
  <2>3. k + 1 = 1 /\ k + 1 \in 1 .. Cardinality(NewlinesIn(s))
    BY <1>3, <1>4, <2>2
  <2>4. Split(s)[k + 1] =
          SubSeq(s, IF k + 1 = 1 THEN 1 ELSE Newline(s, (k + 1) - 1) + 2, Newline(s, k + 1) - 1)
    BY <2>3 DEF Split
  <2> QED
    BY <1>4, <1>5, <1>6, <1>7, <2>3, <2>4
<1>8. CASE c # 0
  <2>1. c - 1 \in 1 .. Len(s) - 1 /\ s[c - 1] = "CR" /\ s[(c - 1) + 1] = "LF"
    <3>1. c - 1 \in 0 .. Len(s) /\ c - 1 < Len(s) /\ (c - 1) + 1 = c
      BY <1>1, <1>8
    <3> HIDE DEF Paired
    <3>2. c - 1 > 0 /\ s[c - 1] = "CR"
      BY <1>8, <3>1 DEF Paired
    <3> QED
      BY <1>1, <1>8, <3>1, <3>2
  <2>2. c - 1 \in NewlinesIn(s)
    BY <2>1 DEF NewlinesIn
  <2>3. NewlinesUpTo(s, c - 1) = NewlinesUpTo(s, c)
    <3>1. c \notin NewlinesIn(s)
      BY <1>8 DEF NewlinesIn
    <3> QED
      BY <1>1, <3>1 DEF NewlinesUpTo, NewlinesIn
  <2>4. Newline(s, k) = c - 1
    BY <2>2, <2>3, NewlineByNumber
  <2>5. k # 0
    <3>1. NewlinesUpTo(s, c) # {}
      BY <1>1, <2>2 DEF NewlinesUpTo
    <3> QED
      BY <1>3, <3>1, FS_EmptySet
  <2>6. (k + 1) - 1 = k /\ k + 1 # 1 /\ (c - 1) + 2 = c + 1 /\ k + 1 \in 1 .. Cardinality(NewlinesIn(s))
    BY <1>1, <1>3, <1>4, <2>5
  <2>7. Split(s)[k + 1] =
          SubSeq(s, IF k + 1 = 1 THEN 1 ELSE Newline(s, (k + 1) - 1) + 2, Newline(s, k + 1) - 1)
    BY <2>6 DEF Split
  <2> QED
    BY <1>4, <1>5, <1>6, <2>4, <2>6, <2>7
<1> QED
  BY <1>7, <1>8

(* A connection begins with an empty buffer. *)
LEMMA LineStart == Init => LineInv
<1> SUFFICES ASSUME Init PROVE LineInv
  OBVIOUS
<1>1. stream \in Seq(Bytes) /\ Paired(stream) /\ BUFSIZE \in Nat
  BY BufferAssumption DEF Init
<1>2. LineTypeOK
  BY <1>1 DEF Init, LineTypeOK
<1>3. Consumed = 0 /\ Len(stream) \in Nat
  BY <1>1 DEF Init, Consumed
<1>4. Buffered
  BY <1>1, <1>3 DEF Init, Buffered
<1>5. Searched
  BY <1>1, BufferAssumption DEF Init, Searched
<1>6. NewlinesUpTo(stream, Consumed) = {}
  BY <1>1, <1>3 DEF NewlinesUpTo, NewlinesIn
<1>7. HandedOn
  BY <1>6, FS_EmptySet DEF Init, HandedOn
<1> QED
  BY <1>2, <1>4, <1>5, <1>7 DEF LineInv

(* A carriage return of the input that is followed by another byte of it is a newline
   that the search finds. *)
LEMMA SearchFinds ==
  ASSUME LineTypeOK, Buffered, NEW j \in 0 .. inbuf - 2, buf[j] = "CR"
  PROVE  j \in Newlines
<1>1. /\ got \in Nat /\ inbuf \in Int /\ inbuf <= BUFSIZE /\ BUFSIZE \in Nat /\ j \in Nat
      /\ got <= Len(stream) /\ Len(stream) \in Nat /\ Consumed \in Nat
      /\ got = Consumed + inbuf
  BY BufferAssumption DEF LineTypeOK, Buffered, Consumed
<1>2. j \in 0 .. inbuf - 1 /\ j + 1 \in 0 .. inbuf - 1 /\ j + 1 < BUFSIZE
  BY <1>1
<1>3. stream[Consumed + j + 1] = "CR"
  BY <1>2 DEF Buffered
<1>4. Consumed + j + 1 \in 0 .. Len(stream) /\ Consumed + j + 1 > 0
  BY <1>1, <1>2
<1>5. stream[(Consumed + j + 1) + 1] = "LF"
  BY <1>3, <1>4 DEF Buffered, Paired
<1>6. buf[j + 1] = stream[Consumed + (j + 1) + 1]
  BY <1>2 DEF Buffered
<1>7. Consumed + (j + 1) + 1 = (Consumed + j + 1) + 1
  BY <1>1
<1> QED
  BY <1>2, <1>5, <1>6, <1>7 DEF Newlines

(* The newline that the search finds ends the first line that is not consumed, even when
   its second byte is only what an earlier line left in the buffer. *)
LEMMA FirstNewline ==
  ASSUME LineTypeOK, Buffered, inbuf >= 0, find_network_newline > 0
  PROVE  /\ First \in 0 .. inbuf - 1 /\ First + 1 < BUFSIZE
         /\ find_network_newline = First + 2
         /\ Consumed + First + 1 \in NewlinesIn(stream)
         /\ \A j \in 0 .. First - 1 : buf[j] # "CR"
<1>1. /\ got \in Nat /\ inbuf \in Int /\ inbuf <= BUFSIZE /\ BUFSIZE \in Nat
      /\ got <= Len(stream) /\ Len(stream) \in Nat /\ Consumed \in Nat
      /\ got = Consumed + inbuf
  BY BufferAssumption DEF LineTypeOK, Buffered, Consumed
<1>2. Newlines # {} /\ find_network_newline = First + 2
  BY DEF find_network_newline
<1>3. Newlines \in SUBSET Nat
  BY <1>1 DEF Newlines
<1>4. First \in Newlines /\ \A j \in Newlines : First <= j
  BY <1>2, <1>3, HasLeast DEF First
<1>5. First \in 0 .. inbuf - 1 /\ First + 1 < BUFSIZE /\ buf[First] = "CR"
  BY <1>4 DEF Newlines
<1> HIDE DEF First
<1>6. Consumed + First + 1 \in NewlinesIn(stream)
  <2>1. stream[Consumed + First + 1] = "CR"
    BY <1>5 DEF Buffered
  <2>2. Consumed + First + 1 \in 0 .. Len(stream) /\ Consumed + First + 1 > 0
    BY <1>1, <1>5
  <2>3. Consumed + First + 1 < Len(stream) /\ stream[(Consumed + First + 1) + 1] = "LF"
    BY <2>1, <2>2 DEF Buffered, Paired
  <2>4. Consumed + First + 1 \in 1 .. Len(stream) - 1
    BY <1>1, <2>2, <2>3
  <2> QED
    BY <2>1, <2>3, <2>4 DEF NewlinesIn
<1>7. ASSUME NEW j \in 0 .. First - 1, buf[j] = "CR" PROVE FALSE
  <2>1. j \in 0 .. inbuf - 2 /\ j < First /\ j \in Int /\ First \in Int
    BY <1>1, <1>5
  <2>2. First <= j
    BY <1>4, <1>7, <2>1, SearchFinds
  <2> QED
    BY <2>1, <2>2
<1> QED
  BY <1>2, <1>5, <1>6, <1>7

(* A part of a sequence, as a function. *)
LEMMA PartOf ==
  ASSUME NEW T, NEW s \in Seq(T), NEW a \in Nat, NEW n \in Nat, a + n <= Len(s)
  PROVE  SubSeq(s, a + 1, a + n) = [x \in 1 .. n |-> s[a + x]]
<1>1. SubSeq(s, a + 1, a + n) \in Seq(T) /\ Len(SubSeq(s, a + 1, a + n)) = n
  OBVIOUS
<1>2. \A x \in 1 .. n : SubSeq(s, a + 1, a + n)[x] = s[a + x]
  OBVIOUS
<1>3. DOMAIN SubSeq(s, a + 1, a + n) = 1 .. n
  BY <1>1
<1>4. SubSeq(s, a + 1, a + n) = [x \in 1 .. n |-> SubSeq(s, a + 1, a + n)[x]]
  BY <1>1, <1>3
<1> QED
  BY <1>2, <1>4

(* A read appends to the input in the buffer and consumes nothing. *)
LEMMA ReadKeeps == LineInv /\ Read => LineInv'
<1> SUFFICES ASSUME LineInv, Read PROVE LineInv'
  OBVIOUS
<1> USE DEF LineInv
<1>1. PICK n \in 1 .. room :
        /\ got + n <= Len(stream)
        /\ buf' = [i \in DOMAIN buf |->
                    IF i \in inbuf .. inbuf + n - 1 THEN stream[got + i - inbuf + 1] ELSE buf[i]]
        /\ inbuf' = inbuf + n
        /\ got' = got + n
  BY DEF Read
<1>2. state = "read" /\ state' = "search" /\ stream' = stream /\ lines' = lines
  BY DEF Read
<1>3. /\ got \in Nat /\ inbuf \in Nat /\ BUFSIZE \in Nat /\ inbuf + n <= BUFSIZE
      /\ got <= Len(stream) /\ Len(stream) \in Nat /\ Consumed \in Nat
      /\ got = Consumed + inbuf /\ n \in Nat
  BY <1>2, BufferAssumption DEF LineTypeOK, Buffered, Consumed, room
<1>4. Consumed' = Consumed
  BY <1>1, <1>3 DEF Consumed
<1>5. LineTypeOK'
  <2>1. ASSUME NEW i \in 0 .. BUFSIZE - 1
        PROVE  buf'[i] \in Bytes \cup {"NUL", "SP"}
    <3>1. CASE i \in inbuf .. inbuf + n - 1
      <4>1. got + i - inbuf + 1 \in 1 .. Len(stream)
        BY <1>1, <1>3, <3>1
      <4>2. buf'[i] = stream[got + i - inbuf + 1]
        BY <1>1, <3>1, <2>1 DEF LineTypeOK
      <4> QED
        BY <4>1, <4>2 DEF LineTypeOK
    <3>2. CASE i \notin inbuf .. inbuf + n - 1
      BY <1>1, <3>2, <2>1 DEF LineTypeOK
    <3> QED
      BY <3>1, <3>2
  <2>2. buf' \in [0 .. BUFSIZE - 1 -> Bytes \cup {"NUL", "SP"}]
    BY <1>1, <2>1 DEF LineTypeOK
  <2>3. got' \in 0 .. Len(stream) /\ inbuf' \in -1 .. BUFSIZE
    BY <1>1, <1>3
  <2> QED
    BY <1>2, <2>2, <2>3 DEF LineTypeOK
<1>6. Buffered'
  <2>1. ASSUME NEW j \in 0 .. inbuf' - 1
        PROVE  buf'[j] = stream[Consumed + j + 1]
    <3>1. j \in 0 .. BUFSIZE - 1 /\ j \in DOMAIN buf
      BY <1>1, <1>3 DEF LineTypeOK
    <3>2. CASE j < inbuf
      <4>1. j \in 0 .. inbuf - 1 /\ j \notin inbuf .. inbuf + n - 1
        BY <1>3, <3>1, <3>2
      <4> QED
        BY <1>1, <3>1, <4>1 DEF Buffered
    <3>3. CASE j >= inbuf
      <4>1. j \in inbuf .. inbuf + n - 1 /\ got + j - inbuf + 1 = Consumed + j + 1
        BY <1>1, <1>3, <3>1, <3>3
      <4> QED
        BY <1>1, <3>1, <4>1
    <3> QED
      BY <1>3, <3>1, <3>2, <3>3
  <2>2. inbuf' >= 0
    BY <1>1, <1>3
  <2> QED
    BY <1>2, <1>4, <2>1, <2>2 DEF Buffered
<1>7. Searched'
  BY <1>2 DEF Searched
<1>8. HandedOn'
  BY <1>2, <1>4 DEF HandedOn
<1> QED
  BY <1>5, <1>6, <1>7, <1>8

(* The stream has ended, or no line fits: nothing of what a connection closes on is a
   complete line. *)
LEMMA ReadZeroKeeps == LineInv /\ ReadZero => LineInv'
<1> SUFFICES ASSUME LineInv, ReadZero PROVE LineInv'
  OBVIOUS
<1> USE DEF LineInv
<1>1. /\ state = "read" /\ state' = "closed" /\ (room = 0 \/ got = Len(stream))
      /\ stream' = stream /\ got' = got /\ buf' = buf /\ inbuf' = inbuf /\ lines' = lines
  BY DEF ReadZero
<1>2. /\ got \in Nat /\ inbuf \in Nat /\ BUFSIZE \in Nat \ {0} /\ inbuf <= BUFSIZE
      /\ got <= Len(stream) /\ Len(stream) \in Nat /\ Consumed \in Nat
      /\ got = Consumed + inbuf
  BY <1>1, BufferAssumption DEF LineTypeOK, Buffered, Consumed
<1>3. Consumed' = Consumed
  BY <1>1 DEF Consumed
<1>4. \A i \in Consumed + 1 .. got - 1 : stream[i] # "CR"
  <2> SUFFICES ASSUME NEW i \in Consumed + 1 .. got - 1 PROVE stream[i] # "CR"
    OBVIOUS
  <2>1. i - Consumed - 1 \in 0 .. inbuf - 2 /\ i - Consumed - 1 \in 0 .. inbuf - 1
    BY <1>2
  <2>2. Consumed + (i - Consumed - 1) + 1 = i
    BY <1>2
  <2>3. buf[i - Consumed - 1] = stream[Consumed + (i - Consumed - 1) + 1]
    BY <2>1 DEF Buffered
  <2> QED
    BY <1>1, <2>1, <2>2, <2>3 DEF Searched
<1>5. LinesFit => NewlinesUpTo(stream, Consumed) = NewlinesIn(stream)
  <2> SUFFICES ASSUME LinesFit, NEW e \in NewlinesIn(stream), ~ (e <= Consumed)
               PROVE  FALSE
    BY DEF NewlinesUpTo
  <2>1. e \in Consumed + 1 .. Len(stream) - 1 /\ stream[e] = "CR"
    BY <1>2 DEF NewlinesIn
  <2>2. got < Len(stream)
    BY <1>2, <1>4, <2>1
  <2>3. room = 0 /\ inbuf = BUFSIZE
    BY <1>1, <1>2, <2>2 DEF room
  <2>4. Consumed + 1 \in 1 .. Len(stream) /\ (Consumed + 1) - 1 = Consumed
    BY <1>2, <2>2
  <2>5. Consumed + 1 = 1 \/ stream[Consumed] = "LF"
    BY <1>2 DEF Buffered
  <2>6. PICK k \in Consumed + 2 .. Consumed + BUFSIZE : stream[k] = "LF"
    <3>1. \/ Len(stream) - (Consumed + 1) + 1 < BUFSIZE
          \/ \E k \in (Consumed + 1) + 1 .. (Consumed + 1) + BUFSIZE - 1 : stream[k] = "LF"
      BY <2>4, <2>5 DEF LinesFit
    <3>2. ~ (Len(stream) - (Consumed + 1) + 1 < BUFSIZE)
      BY <1>2, <2>2, <2>3
    <3>3. /\ (Consumed + 1) + 1 = Consumed + 2
          /\ (Consumed + 1) + BUFSIZE - 1 = Consumed + BUFSIZE
      BY <1>2
    <3> QED
      BY <3>1, <3>2, <3>3
  <2>7. k - 1 \in Consumed + 1 .. got - 1 /\ k - 1 \in 0 .. Len(stream) /\ k - 1 < Len(stream)
        /\ (k - 1) + 1 = k
    BY <1>2, <2>2, <2>3
  <2>8. stream[k - 1] = "CR"
    BY <2>6, <2>7 DEF Buffered, Paired
  <2> QED
    BY <1>4, <2>7, <2>8
<1>6. LineTypeOK'
  BY <1>1 DEF LineTypeOK
<1>7. Buffered'
  BY <1>1, <1>2, <1>3 DEF Buffered
<1>8. Searched'
  BY <1>1 DEF Searched
<1>9. HandedOn'
  BY <1>1, <1>3, <1>5 DEF HandedOn, LinesFit
<1> QED
  BY <1>6, <1>7, <1>8, <1>9

(* Without a newline in the input only its last byte can be a carriage return, and in a
   full buffer not even that. *)
LEMMA NoLineKeeps == LineInv /\ NoLine => LineInv'
<1> SUFFICES ASSUME LineInv, NoLine PROVE LineInv'
  OBVIOUS
<1> USE DEF LineInv
<1>1. /\ state = "search" /\ Newlines = {}
      /\ state' = IF ReadsOutside THEN "aborted" ELSE "read"
      /\ stream' = stream /\ got' = got /\ buf' = buf /\ inbuf' = inbuf /\ lines' = lines
  BY DEF NoLine
<1>2. Consumed' = Consumed
  BY <1>1 DEF Consumed
<1>3. LineTypeOK'
  BY <1>1 DEF LineTypeOK
<1>4. Buffered'
  BY <1>1, <1>2 DEF Buffered
<1>5. Searched'
  <2>1. \A j \in 0 .. inbuf - 2 : buf[j] # "CR"
    BY <1>1, SearchFinds
  <2>2. ~ ReadsOutside /\ inbuf = BUFSIZE => buf[BUFSIZE - 1] # "CR"
    BY <1>1 DEF ReadsOutside
  <2> QED
    BY <1>1, <2>1, <2>2 DEF Searched
<1>6. HandedOn'
  BY <1>1, <1>2 DEF HandedOn
<1> QED
  BY <1>3, <1>4, <1>5, <1>6

(* A line that is handed on is the next one of the stream, and consumed with its
   newline. *)
LEMMA TakeLineKeeps == LineInv /\ TakeLine => LineInv'
<1> SUFFICES ASSUME LineInv, TakeLine PROVE LineInv'
  OBVIOUS
<1> USE DEF LineInv
<1> DEFINE where == find_network_newline
           e == Consumed + First + 1
<1>1. /\ state = "search" /\ where > 0
      /\ lines' = Append(lines, [i \in 1 .. where - 2 |-> buf[i - 1]])
      /\ inbuf' = inbuf - where
      /\ \/ /\ where <= inbuf
            /\ buf' = [i \in DOMAIN buf |->
                        IF i < inbuf - where THEN buf[i + where] ELSE Marked(where)[i]]
            /\ state' = state
         \/ /\ where > inbuf
            /\ buf' = Marked(where)
            /\ state' = "aborted"
      /\ stream' = stream /\ got' = got
  BY DEF TakeLine, HandOn
<1>2. /\ got \in Nat /\ inbuf \in Nat /\ BUFSIZE \in Nat \ {0} /\ inbuf <= BUFSIZE
      /\ got <= Len(stream) /\ Len(stream) \in Nat /\ Consumed \in Nat
      /\ got = Consumed + inbuf
  BY <1>1, BufferAssumption DEF LineTypeOK, Buffered, Consumed
<1>3. /\ First \in 0 .. inbuf - 1 /\ First + 1 < BUFSIZE /\ where = First + 2
      /\ e \in NewlinesIn(stream)
      /\ \A j \in 0 .. First - 1 : buf[j] # "CR"
  <2>1. inbuf >= 0
    BY <1>2
  <2> QED
    BY <1>1, <2>1, FirstNewline
<1> HIDE DEF where
<1>4. First \in Nat /\ where \in Nat /\ where - 2 = First /\ where <= inbuf + 1
  BY <1>2, <1>3
<1>5. Consumed' = e + 1
  <2>1. Consumed' = got - (inbuf - where)
    BY <1>1 DEF Consumed
  <2> QED
    BY <1>2, <1>3, <1>4, <2>1
<1>6. e \in 1 .. Len(stream) - 1 /\ stream[e] = "CR" /\ stream[e + 1] = "LF"
  BY <1>3 DEF NewlinesIn
<1>7. \A j \in Consumed + 1 .. e - 1 : stream[j] # "CR"
  <2> SUFFICES ASSUME NEW j \in Consumed + 1 .. e - 1 PROVE stream[j] # "CR"
    OBVIOUS
  <2>1. /\ j - Consumed - 1 \in 0 .. First - 1 /\ j - Consumed - 1 \in 0 .. inbuf - 1
        /\ Consumed + (j - Consumed - 1) + 1 = j
    BY <1>2, <1>3, <1>4
  <2>2. buf[j - Consumed - 1] = stream[Consumed + (j - Consumed - 1) + 1]
    BY <2>1 DEF Buffered
  <2> QED
    BY <1>3, <2>1, <2>2
<1>8. /\ Cardinality(NewlinesUpTo(stream, e + 1)) = Len(lines) + 1
      /\ Split(stream)[Len(lines) + 1] = SubSeq(stream, Consumed + 1, e - 1)
  <2>1. stream \in Seq(Bytes) /\ Paired(stream) /\ Consumed \in 0 .. Len(stream)
        /\ (Consumed = 0 \/ stream[Consumed] = "LF") /\ Consumed < e
    BY <1>2, <1>4 DEF LineTypeOK, Buffered
  <2>2. Len(lines) = Cardinality(NewlinesUpTo(stream, Consumed))
    BY DEF HandedOn
  <2> HIDE DEF e
  <2> QED
    BY <1>3, <1>7, <2>1, <2>2, LineAfter
<1> DEFINE handed == [i \in 1 .. where - 2 |-> buf[i - 1]]
<1>9. handed = SubSeq(stream, Consumed + 1, e - 1) /\ handed \in Seq(Bytes)
  <2>1. ASSUME NEW x \in 1 .. First
        PROVE  buf[x - 1] = stream[Consumed + x] /\ Consumed + x \in 1 .. Len(stream)
    <3>1. x - 1 \in 0 .. inbuf - 1 /\ Consumed + (x - 1) + 1 = Consumed + x
      BY <1>2, <1>3, <1>4
    <3>2. Consumed + x \in 1 .. Len(stream)
      BY <1>2, <1>4, <1>6
    <3> QED
      BY <3>1, <3>2 DEF Buffered
  <2>2. handed = [x \in 1 .. First |-> stream[Consumed + x]]
    BY <1>4, <2>1
  <2>3. SubSeq(stream, Consumed + 1, e - 1) = [x \in 1 .. First |-> stream[Consumed + x]]
    <3>1. stream \in Seq(Bytes) /\ e - 1 = Consumed + First /\ Consumed + First <= Len(stream)
      BY <1>2, <1>4, <1>6 DEF LineTypeOK
    <3> HIDE DEF e
    <3> QED
      BY <1>2, <1>4, <3>1, PartOf
  <2>4. SubSeq(stream, Consumed + 1, e - 1) \in Seq(Bytes)
    BY <1>2, <1>4, <1>6 DEF LineTypeOK
  <2> QED
    BY <2>2, <2>3, <2>4
<1> HIDE DEF handed
<1>10. lines' = Append(lines, handed) /\ lines \in Seq(Seq(Bytes))
  BY <1>1 DEF handed, LineTypeOK
<1>11. Len(lines') = Len(lines) + 1 /\ lines' \in Seq(Seq(Bytes))
  BY <1>9, <1>10
<1>12. LineTypeOK'
  <2>1. Marked(where) \in [0 .. BUFSIZE - 1 -> Bytes \cup {"NUL", "SP"}]
    BY DEF Marked, LineTypeOK
  <2>2. buf' \in [0 .. BUFSIZE - 1 -> Bytes \cup {"NUL", "SP"}]
    <3>1. CASE where <= inbuf /\ buf' = [i \in DOMAIN buf |->
                   IF i < inbuf - where THEN buf[i + where] ELSE Marked(where)[i]]
      <4>1. ASSUME NEW i \in 0 .. BUFSIZE - 1
            PROVE  buf'[i] \in Bytes \cup {"NUL", "SP"}
        <5>1. buf'[i] = IF i < inbuf - where THEN buf[i + where] ELSE Marked(where)[i]
          BY <3>1 DEF LineTypeOK
        <5>2. i < inbuf - where => i + where \in 0 .. BUFSIZE - 1
          BY <1>2, <1>4
        <5> HIDE DEF Bytes
        <5> QED
          BY <2>1, <5>1, <5>2 DEF LineTypeOK
      <4>2. DOMAIN buf = 0 .. BUFSIZE - 1
        BY DEF LineTypeOK
      <4> HIDE DEF Bytes
      <4> QED
        BY <3>1, <4>1, <4>2
    <3> QED
      BY <1>1, <2>1, <3>1
  <2>3. inbuf' \in -1 .. BUFSIZE
    BY <1>1, <1>2, <1>4
  <2>4. state' \in {"read", "search", "closed", "aborted"}
    BY <1>1
  <2> QED
    BY <1>1, <1>11, <2>2, <2>3, <2>4 DEF LineTypeOK
<1>13. Buffered'
  <2>1. Consumed' \in 0 .. Len(stream) /\ stream[Consumed'] = "LF"
    BY <1>2, <1>5, <1>6
  <2>2. state' # "aborted" => inbuf' >= 0
    BY <1>1, <1>2, <1>4
  <2>3. ASSUME NEW j \in 0 .. inbuf' - 1
        PROVE  buf'[j] = stream[Consumed' + j + 1]
    <3>1. where <= inbuf /\ j < inbuf - where /\ j \in Nat
      BY <1>1, <1>2, <1>4, <2>3
    <3>2. /\ j \in DOMAIN buf /\ j + where \in 0 .. inbuf - 1
          /\ Consumed + (j + where) + 1 = Consumed' + j + 1
      <4>1. Consumed' = Consumed + First + 2
        BY <1>2, <1>4, <1>5
      <4>2. DOMAIN buf = 0 .. BUFSIZE - 1
        BY DEF LineTypeOK
      <4> HIDE DEF Consumed
      <4>3. j \in 0 .. BUFSIZE - 1 /\ j + where \in 0 .. inbuf - 1
        BY <1>2, <1>4, <3>1
      <4>4. Consumed + (j + where) + 1 = (Consumed + First + 2) + j + 1
        BY <1>2, <1>3, <1>4, <3>1
      <4> QED
        BY <4>1, <4>2, <4>3, <4>4
    <3>3. buf'[j] = buf[j + where]
      BY <1>1, <1>2, <1>4, <3>1, <3>2
    <3>4. buf[j + where] = stream[Consumed + (j + where) + 1]
      BY <3>2 DEF Buffered
    <3> QED
      BY <3>2, <3>3, <3>4
  <2>4. Paired(stream)
    BY DEF Buffered
  <2> HIDE DEF Consumed
  <2> QED
    BY <1>1, <2>1, <2>2, <2>3, <2>4 DEF Buffered
<1>14. Searched'
  BY <1>1 DEF Searched
<1>15. HandedOn'
  <2>1. Len(lines') = Cardinality(NewlinesUpTo(stream, e + 1))
    BY <1>8, <1>11
  <2>2. ASSUME NEW k \in 1 .. Len(lines') PROVE lines'[k] = Split(stream)[k]
    <3>1. CASE k = Len(lines) + 1
      <4>1. lines'[Len(lines) + 1] = handed
        BY <1>9, <1>10
      <4> QED
        BY <1>8, <1>9, <3>1, <4>1, Zenon
    <3>2. CASE k # Len(lines) + 1
      <4>1. k \in 1 .. Len(lines)
        BY <1>10, <1>11, <3>2
      <4>2. lines'[k] = lines[k]
        BY <1>9, <1>10, <4>1
      <4> QED
        BY <4>1, <4>2 DEF HandedOn
    <3> QED
      BY <3>1, <3>2
  <2>3. state' # "closed"
    BY <1>1
  <2> HIDE DEF e
  <2> HIDE DEF Consumed
  <2>4. stream' = stream /\ Consumed' = e + 1
    BY <1>1, <1>5
  <2>5. Len(lines') = Cardinality(NewlinesUpTo(stream', Consumed'))
    BY <2>1, <2>4
  <2>6. \A k \in 1 .. Len(lines') : lines'[k] = Split(stream')[k]
    BY <2>2, <2>4
  <2> QED
    BY <2>3, <2>5, <2>6 DEF HandedOn
<1> QED
  BY <1>12, <1>13, <1>14, <1>15

LEMMA LineSteps == LineInv /\ [Next]_vars => LineInv'
<1> SUFFICES ASSUME LineInv, [Next]_vars PROVE LineInv'
  OBVIOUS
<1>1. CASE UNCHANGED vars
  BY <1>1 DEF vars, LineInv, LineTypeOK, Buffered, Searched, HandedOn, Consumed, LinesFit
<1> QED
  BY <1>1, ReadKeeps, ReadZeroKeeps, TakeLineKeeps, NoLineKeeps DEF Next

(* The lines handed on are the first of the stream, one by one. *)
LEMMA HandedOnRight == LineInv => LinesAreTheStreams
<1> SUFFICES ASSUME LineInv PROVE LinesAreTheStreams
  OBVIOUS
<1>1. /\ lines \in Seq(Seq(Bytes)) /\ stream \in Seq(Bytes)
      /\ Len(lines) = Cardinality(NewlinesUpTo(stream, Consumed))
      /\ \A k \in 1 .. Len(lines) : lines[k] = Split(stream)[k]
      /\ state = "closed" /\ LinesFit =>
           NewlinesUpTo(stream, Consumed) = NewlinesIn(stream)
  BY DEF LineInv, LineTypeOK, HandedOn
<1>2. /\ Cardinality(NewlinesIn(stream)) \in Nat
      /\ Len(lines) <= Cardinality(NewlinesIn(stream))
  <2>1. Consumed \in Int
    BY DEF LineInv, LineTypeOK, Consumed
  <2> QED
    BY <1>1, <2>1, FiniteNewlines
<1>3. DOMAIN Split(stream) = 1 .. Cardinality(NewlinesIn(stream))
  BY DEF Split
<1> DEFINE n == Len(lines)
           all == Split(stream)
           T == {all[k] : k \in 1 .. Cardinality(NewlinesIn(stream))}
<1>4. n \in Nat /\ DOMAIN lines = 1 .. n
  BY <1>1
<1>5. all = [k \in 1 .. Cardinality(NewlinesIn(stream)) |-> all[k]]
  BY DEF Split
<1>6. \A k \in 1 .. Cardinality(NewlinesIn(stream)) : all[k] \in T
  OBVIOUS
<1> HIDE DEF all, T, n
<1>7. all \in [1 .. Cardinality(NewlinesIn(stream)) -> T]
  BY <1>5, <1>6
<1>8. all \in Seq(T) /\ Len(all) = Cardinality(NewlinesIn(stream))
  BY <1>2, <1>7
<1>9. SubSeq(lines, 1, n) = [k \in 1 .. n |-> lines[k]]
  <2>1. SubSeq(lines, 0 + 1, 0 + n) = [k \in 1 .. n |-> lines[0 + k]]
    BY <1>1, <1>4, PartOf DEF n
  <2> QED
    BY <1>4, <2>1
<1>10. SubSeq(all, 1, n) = [k \in 1 .. n |-> all[k]]
  <2>1. n <= Len(all)
    BY <1>2, <1>8 DEF n
  <2>2. SubSeq(all, 0 + 1, 0 + n) = [k \in 1 .. n |-> all[0 + k]]
    BY <1>4, <1>8, <2>1, PartOf
  <2> QED
    BY <1>4, <2>2
<1>11. \A k \in 1 .. n : lines[k] = all[k]
  BY <1>1 DEF n, all
<1>12. IsPrefix(lines, all)
  BY <1>2, <1>8, <1>9, <1>10, <1>11 DEF IsPrefix, n
<1>13. ASSUME state = "closed", LinesFit PROVE lines = all
  <2>1. n = Cardinality(NewlinesIn(stream))
    BY <1>1, <1>13 DEF n
  <2>2. lines = [k \in 1 .. n |-> lines[k]]
    BY <1>1 DEF n
  <2> QED
    BY <1>5, <1>11, <2>1, <2>2
<1> QED
  BY <1>12, <1>13 DEF LinesAreTheStreams, all

(* What a connection hands on is always a beginning of the lines of its stream, and when
   the lines fit all of them once it is closed: for a buffer of any size, any stream of
   paired CR and LF, and reads that return any number of bytes. *)
THEOREM LinesAlwaysTheStreams == Spec => []LinesAreTheStreams
BY HandedOnRight, LineStart, LineSteps, PTL DEF Spec

--------------------------------------------------------------------------------
(* Sin: types. *)

(* What an int is converted to is an int. *)
LEMMA ToIntIsInt ==
  ASSUME NEW n \in Int
  PROVE  ToInt(n) \in -INT_MAX - 1 .. INT_MAX
<1>1. PICK m : m = 2 * (INT_MAX + 1)
  OBVIOUS
<1>2. PICK k : k = n + INT_MAX + 1
  OBVIOUS
<1>3. INT_MAX \in Nat /\ m \in Nat \ {0} /\ k \in Int
  BY <1>1, <1>2, SinAssumption
<1>4. k % m \in 0 .. m - 1
  BY <1>3
<1>5. ToInt(n) = (k % m) - (INT_MAX + 1)
  BY <1>1, <1>2, Zenon DEF ToInt
<1> QED
  BY <1>1, <1>3, <1>4, <1>5

(* An int is a number. *)
LEMMA IntIsNumber ==
  ASSUME NEW n \in -INT_MAX - 1 .. INT_MAX
  PROVE  n \in Int /\ n <= INT_MAX /\ INT_MAX \in Nat
  BY SinAssumption

(* The digits are checked only when there are as many as there should be. *)
SinTyped ==
  /\ SinTypeOK
  /\ verdict = "check" => Len(sin_array) = DIGITS

LEMMA SinStarts == SinInit => SinTyped
<1> SUFFICES ASSUME SinInit PROVE SinTyped
  OBVIOUS
<1>1. ToInt(arg) \in -INT_MAX - 1 .. INT_MAX
  BY ToIntIsInt, SinAssumption DEF SinInit
<1> QED
  BY <1>1, SinAssumption DEF SinInit, SinTyped, SinTypeOK

LEMMA SinSteps == SinTyped /\ [SinNext]_sinVars => SinTyped'
<1> SUFFICES ASSUME SinTyped, [SinNext]_sinVars PROVE SinTyped'
  OBVIOUS
<1>1. /\ arg \in Args /\ sin \in -INT_MAX - 1 .. INT_MAX
      /\ reversed_sin \in -INT_MAX - 1 .. INT_MAX
      /\ sin_array \in Seq(0 .. 9) /\ sum \in Nat /\ checked \in 0 .. DIGITS
      /\ INT_MAX \in Nat /\ DIGITS \in Nat
      /\ verdict \in {"reverse", "split", "check", "Valid SIN", "Invalid SIN"}
      /\ verdict = "check" => Len(sin_array) = DIGITS
  BY SinAssumption DEF SinTyped, SinTypeOK
<1>2. CASE ReverseDigit
  <2>1. ToInt(10 * reversed_sin + (sin % 10)) \in -INT_MAX - 1 .. INT_MAX
    <3>1. sin \in Int /\ reversed_sin \in Int
      BY <1>1, IntIsNumber, Zenon
    <3>2. PICK a : a = 10 * reversed_sin
      OBVIOUS
    <3>3. PICK b : b = sin % 10
      OBVIOUS
    <3>4. a + b \in Int
      BY <3>1, <3>2, <3>3
    <3> QED
      BY <3>2, <3>3, <3>4, ToIntIsInt
  <2>2. sin > 0 => sin \div 10 \in -INT_MAX - 1 .. INT_MAX
    <3> SUFFICES ASSUME sin > 0 PROVE sin \div 10 \in -INT_MAX - 1 .. INT_MAX
      OBVIOUS
    <3>0. sin \in Int /\ sin <= INT_MAX /\ INT_MAX \in Nat
      BY <1>1, IntIsNumber, Zenon
    <3>1. sin \in Nat /\ sin <= INT_MAX /\ INT_MAX \in Nat
      BY <3>0
    <3>2. PICK d : d = sin \div 10
      OBVIOUS
    <3>3. d \in Nat /\ d <= sin
      BY <3>1, <3>2
    <3> QED
      BY <3>1, <3>2, <3>3
  <2>3. reversed_sin' \in -INT_MAX - 1 .. INT_MAX
    BY <1>1, <1>2, <2>1, Zenon DEF ReverseDigit
  <2>4. sin' \in -INT_MAX - 1 .. INT_MAX
    BY <1>1, <1>2, <2>2, Zenon DEF ReverseDigit
  <2>5. verdict' \in {"reverse", "split"} /\ UNCHANGED <<arg, sin_array, sum, checked>>
    BY <1>2 DEF ReverseDigit
  <2> QED
    BY <1>1, <2>3, <2>4, <2>5 DEF SinTyped, SinTypeOK
<1>3. CASE SplitDigit
  <2>1. reversed_sin % 10 \in 0 .. 9 /\ reversed_sin \div 10 \in -INT_MAX - 1 .. INT_MAX
    BY <1>1, <1>3 DEF SplitDigit
  <2>2. sin_array' \in Seq(0 .. 9)
    BY <1>1, <1>3, <2>1 DEF SplitDigit
  <2>3. /\ reversed_sin' \in -INT_MAX - 1 .. INT_MAX /\ verdict = "split"
        /\ UNCHANGED <<arg, sin, sum, checked, verdict>>
    BY <1>3, <2>1, Zenon DEF SplitDigit
  <2> QED
    BY <1>1, <2>2, <2>3 DEF SinTyped, SinTypeOK
<1>4. CASE SplitEnds
  BY <1>1, <1>4 DEF SplitEnds, SinTyped, SinTypeOK
<1>5. CASE CheckDigit
  <2>1. PICK digit : digit = sin_array[checked + 1]
    OBVIOUS
  <2>2. digit \in 0 .. 9 /\ checked < DIGITS
    BY <1>1, <1>5, <2>1 DEF CheckDigit
  <2>3. disect_greater_than(validation(checked) * digit) \in Nat
    <3>1. PICK d : d = validation(checked) * digit
      OBVIOUS
    <3>2. validation(checked) \in {1, 2}
      BY DEF validation
    <3>3. d \in Nat
      <4>1. d = 1 * digit \/ d = 2 * digit
        BY <3>1, <3>2
      <4> QED
        BY <2>2, <4>1
    <3>4. d % 10 \in Nat /\ d \div 10 \in Nat
      BY <3>3
    <3>5. disect_greater_than(d) \in Nat
      BY <3>3, <3>4 DEF disect_greater_than
    <3> QED
      BY <3>1, <3>5
  <2>4. sum' \in Nat /\ checked' \in 0 .. DIGITS
    <3>1. sum' = sum + disect_greater_than(validation(checked) * digit)
      BY <1>5, <2>1, Zenon DEF CheckDigit
    <3>2. PICK more : more = disect_greater_than(validation(checked) * digit)
      OBVIOUS
    <3>3. sum \in Nat /\ more \in Nat
      BY <1>1, <2>3, <3>2, Zenon
    <3>4. sum' = sum + more
      BY <3>1, <3>2, Zenon
    <3>5. sum' \in Nat
      BY <3>3, <3>4
    <3>6. checked' = checked + 1
      BY <1>5, Zenon DEF CheckDigit
    <3>7. checked \in 0 .. DIGITS /\ DIGITS \in Nat /\ checked < DIGITS
      BY <1>1, <2>2, Zenon
    <3>8. checked' \in 0 .. DIGITS
      BY <3>6, <3>7
    <3> QED
      BY <3>5, <3>8
  <2>5. UNCHANGED <<arg, sin, reversed_sin, sin_array, verdict>>
    BY <1>5 DEF CheckDigit
  <2> QED
    BY <1>1, <2>4, <2>5 DEF SinTyped, SinTypeOK
<1>6. CASE CheckEnds
  BY <1>1, <1>6 DEF CheckEnds, SinTyped, SinTypeOK
<1>7. CASE UNCHANGED sinVars
  BY <1>1, <1>7 DEF sinVars, SinTyped, SinTypeOK
<1> QED
  BY <1>2, <1>3, <1>4, <1>5, <1>6, <1>7 DEF SinNext

--------------------------------------------------------------------------------
(* Sin: the verdict. *)

(* The powers of ten are what their definition says. *)
LEMMA Powers ==
  /\ power \in [Nat -> Nat \ {0}]
  /\ power[0] = 1
  /\ \A k \in Nat : power[k + 1] = 10 * power[k]
<1>1. power = CHOOSE f : IsGeometric(f, 10)
  BY Zenon DEF power, IsGeometric
<1>2. 10 \in Nat \ {0}
  OBVIOUS
<1> QED
  BY <1>1, <1>2, Geometric, Zenon

LEMMA PowersGrow ==
  ASSUME NEW i \in Nat, NEW j \in Nat
  PROVE  power[i] <= power[i + j]
<1> DEFINE S == {k \in Nat : power[i] <= power[i + k]}
<1>1. 0 \in S
  <2>1. i + 0 = i /\ power[i] \in Nat
    BY Powers
  <2> QED
    BY <2>1
<1>2. ASSUME NEW k \in S PROVE k + 1 \in S
  <2>1. power[i] <= power[i + k] /\ i + k \in Nat /\ i + (k + 1) = (i + k) + 1
    OBVIOUS
  <2>2. power[(i + k) + 1] = 10 * power[i + k] /\ power[i + k] \in Nat /\ power[i] \in Nat
    BY <2>1, Powers
  <2> QED
    BY <2>1, <2>2
<1>3. S = Nat
  <2>1. S \in SUBSET Nat
    OBVIOUS
  <2> HIDE DEF S
  <2> QED
    BY <1>1, <1>2, <2>1, AllNaturals, Zenon
<1> QED
  BY <1>3

(* A number is between the product of its quotient and the next multiple. *)
LEMMA QuotientBounds ==
  ASSUME NEW a \in Nat, NEW b \in Nat \ {0}
  PROVE  a \div b \in Nat /\ b * (a \div b) <= a /\ a < b * ((a \div b) + 1)
<1>1. a = b * (a \div b) + (a % b) /\ a % b \in 0 .. b - 1
  OBVIOUS
<1>2. PICK q : q = a \div b
  OBVIOUS
<1>3. PICK r : r = a % b
  OBVIOUS
<1>4. q \in Int /\ r \in 0 .. b - 1 /\ a = b * q + r
  BY <1>1, <1>2, <1>3
<1>5. b * (q + 1) = b * q + b /\ b * q \in Int
  BY <1>4
<1>6. q >= 0
  BY <1>4
<1> QED
  BY <1>2, <1>4, <1>5, <1>6

LEMMA ProductsGrow ==
  ASSUME NEW b \in Nat, NEW x \in Nat, NEW y \in Nat, x <= y
  PROVE  b * x <= b * y
<1>1. b * y = b * x + b * (y - x) /\ y - x \in Nat
  OBVIOUS
<1>2. b * (y - x) \in Nat /\ b * x \in Nat /\ b * y \in Nat
  BY <1>1
<1> QED
  BY <1>1, <1>2

LEMMA OnlyQuotient ==
  ASSUME NEW a \in Nat, NEW b \in Nat \ {0}, NEW q \in Nat, b * q <= a, a < b * (q + 1)
  PROVE  a \div b = q
<1>1. PICK p : p = a \div b
  OBVIOUS
<1>2. p \in Nat /\ b * p <= a /\ a < b * (p + 1)
  BY <1>1, QuotientBounds
<1>3. b * q \in Nat /\ b * (q + 1) \in Nat /\ b * p \in Nat /\ b * (p + 1) \in Nat
  BY <1>2
<1>4. CASE p < q
  <2>1. p + 1 <= q /\ p + 1 \in Nat
    BY <1>2, <1>4
  <2>2. b * (p + 1) <= b * q
    BY <2>1, ProductsGrow
  <2> QED
    BY <1>2, <1>3, <2>2
<1>5. CASE q < p
  <2>1. q + 1 <= p /\ q + 1 \in Nat
    BY <1>2, <1>5
  <2>2. b * (q + 1) <= b * p
    BY <1>2, <2>1, ProductsGrow
  <2> QED
    BY <1>2, <1>3, <2>2
<1> QED
  BY <1>1, <1>2, <1>4, <1>5

(* To divide by ten once more is to drop one more digit. *)
LEMMA OneDigitLess ==
  ASSUME NEW n \in Nat, NEW k \in Nat
  PROVE  n \div power[k + 1] = (n \div power[k]) \div 10
<1>1. PICK b : b = power[k]
  OBVIOUS
<1>2. b \in Nat \ {0} /\ power[k + 1] = 10 * b
  BY <1>1, Powers
<1>3. PICK q : q = n \div b
  OBVIOUS
<1>4. q \in Nat /\ b * q <= n /\ n < b * (q + 1)
  BY <1>2, <1>3, QuotientBounds
<1>5. PICK r : r = q \div 10
  OBVIOUS
<1>6. r \in Nat /\ 10 * r <= q /\ q + 1 <= 10 * (r + 1)
  BY <1>4, <1>5
<1>7. b * (10 * r) <= b * q
  BY <1>2, <1>4, <1>6, ProductsGrow
<1>8. b * (q + 1) <= b * (10 * (r + 1))
  BY <1>2, <1>4, <1>6, ProductsGrow
<1>9. b * (10 * r) = (10 * b) * r /\ b * (10 * (r + 1)) = (10 * b) * (r + 1)
  BY <1>2, <1>6
<1>10. PICK c : c = 10 * b
  OBVIOUS
<1>11. c \in Nat \ {0}
  BY <1>2, <1>10
<1>12. b * q \in Nat /\ b * (q + 1) \in Nat /\ c * r \in Nat /\ c * (r + 1) \in Nat
  BY <1>2, <1>4, <1>6, <1>11
<1>13. c * r <= n /\ n < c * (r + 1)
  BY <1>4, <1>7, <1>8, <1>9, <1>10, <1>12
<1>14. n \div c = r
  BY <1>6, <1>11, <1>13, OnlyQuotient
<1> QED
  BY <1>1, <1>2, <1>3, <1>5, <1>10, <1>14

(* Which numbers have no more than k digits. *)
LEMMA NothingLeft ==
  ASSUME NEW n \in Nat, NEW k \in Nat
  PROVE  n \div power[k] \in Nat /\ (n \div power[k] = 0 <=> n < power[k])
<1>1. PICK b : b = power[k]
  OBVIOUS
<1>2. b \in Nat \ {0}
  BY <1>1, Powers
<1>3. PICK q : q = n \div b
  OBVIOUS
<1>4. q \in Nat /\ b * q <= n /\ n < b * (q + 1)
  BY <1>2, <1>3, QuotientBounds
<1>5. q = 0 => n < b
  BY <1>2, <1>4
<1>6. ASSUME q # 0 PROVE b <= n
  <2>1. 1 <= q /\ b * 1 = b
    BY <1>2, <1>4, <1>6
  <2>2. b * 1 <= b * q
    BY <1>2, <1>4, <2>1, ProductsGrow
  <2> QED
    BY <1>2, <1>4, <2>1, <2>2
<1> QED
  BY <1>1, <1>2, <1>3, <1>4, <1>5, <1>6

(* A machine int holds its value. *)
LEMMA ToIntSame ==
  ASSUME NEW n \in -INT_MAX - 1 .. INT_MAX
  PROVE  ToInt(n) = n
<1>1. PICK m : m = 2 * (INT_MAX + 1)
  OBVIOUS
<1>2. PICK k : k = n + INT_MAX + 1
  OBVIOUS
<1>3. INT_MAX \in Nat /\ m \in Nat \ {0} /\ k \in Nat /\ k < m
  BY <1>1, <1>2, SinAssumption
<1>4. k % m = k
  BY <1>3
<1>5. ToInt(n) = (k % m) - (INT_MAX + 1)
  BY <1>1, <1>2, Zenon DEF ToInt
<1> QED
  BY <1>2, <1>3, <1>4, <1>5

(* The digits of a number from the right, put in front of each other. *)
IsReversal(f, n) ==
  /\ f \in [Nat -> Nat] /\ f[0] = 0
  /\ \A k \in Nat : f[k + 1] = 10 * f[k] + ((n \div power[k]) % 10)

reversal(n) == CHOOSE f : IsReversal(f, n)

LEMMA Reversals ==
  ASSUME NEW n \in Nat
  PROVE  IsReversal(reversal(n), n)
<1> DEFINE h == [x \in Nat \X Nat |-> 10 * x[2] + ((n \div power[x[1]]) % 10)]
<1>1. ASSUME NEW k \in Nat, NEW v \in Nat
      PROVE  10 * v + ((n \div power[k]) % 10) \in Nat
  <2>1. PICK q : q = n \div power[k]
    OBVIOUS
  <2>2. q \in Nat
    BY <2>1, NothingLeft
  <2>3. 10 * v + (q % 10) \in Nat
    BY <2>2
  <2> QED
    BY <2>1, <2>3
<1>2. h \in [Nat \X Nat -> Nat]
  BY <1>1
<1>3. \A k \in Nat, v \in Nat : h[<<k, v>>] = 10 * v + ((n \div power[k]) % 10)
  OBVIOUS
<1> HIDE DEF h
<1>4. Defines(Nat, 0, h)
  BY <1>2 DEF Defines
<1>5. PICK f : Defined(f, Nat, 0, h)
  BY <1>4, Recursion, Zenon
<1>6. IsReversal(f, n)
  <2>1. ASSUME NEW k \in Nat PROVE f[k + 1] = 10 * f[k] + ((n \div power[k]) % 10)
    <3>1. f[k + 1] = h[<<k, f[k]>>] /\ f[k] \in Nat
      BY <1>5 DEF Defined
    <3> QED
      BY <1>3, <3>1, Zenon
  <2>2. f \in [Nat -> Nat] /\ f[0] = 0
    BY <1>5 DEF Defined
  <2> QED
    BY <2>1, <2>2, Zenon DEF IsReversal
<1> QED
  BY <1>6, Zenon DEF reversal

(* The reversal of k digits has no more than k, and some if the last one is not 0. *)
LEMMA ReversalFits ==
  ASSUME NEW n \in Nat, NEW k \in Nat
  PROVE  /\ reversal(n)[k] \in Nat /\ reversal(n)[k] < power[k]
         /\ n % 10 # 0 /\ k # 0 => reversal(n)[k] > 0
<1> DEFINE f == reversal(n)
           d(i) == (n \div power[i]) % 10
           S == {i \in Nat : f[i] < power[i] /\ (n % 10 # 0 /\ i # 0 => f[i] > 0)}
<1>1. /\ f \in [Nat -> Nat] /\ f[0] = 0
      /\ \A i \in Nat : f[i + 1] = 10 * f[i] + d(i)
  BY Reversals, Zenon DEF IsReversal
<1>2. \A i \in Nat : d(i) \in 0 .. 9
  <2> SUFFICES ASSUME NEW i \in Nat PROVE d(i) \in 0 .. 9
    OBVIOUS
  <2>1. PICK q : q = n \div power[i]
    OBVIOUS
  <2>2. q \in Nat
    BY <2>1, NothingLeft
  <2>3. q % 10 \in 0 .. 9
    BY <2>2
  <2> QED
    BY <2>1, <2>3
<1>3. d(0) = n % 10
  <2>1. power[0] = 1 /\ n \div 1 = n
    BY Powers
  <2> QED
    BY <2>1
<1> HIDE DEF f, d
<1>4. 0 \in S
  BY <1>1, Powers
<1>5. ASSUME NEW i \in S PROVE i + 1 \in S
  <2>1. i \in Nat /\ i + 1 \in Nat /\ i + 1 # 0
    OBVIOUS
  <2>2. f[i] < power[i] /\ (n % 10 # 0 /\ i # 0 => f[i] > 0)
    OBVIOUS
  <2>3. PICK v : v = f[i]
    OBVIOUS
  <2>4. PICK w : w = power[i]
    OBVIOUS
  <2>5. PICK c : c = d(i)
    OBVIOUS
  <2>6. v \in Nat /\ w \in Nat /\ c \in 0 .. 9 /\ f[i + 1] = 10 * v + c /\ power[i + 1] = 10 * w
    BY <1>1, <1>2, <2>1, <2>3, <2>4, <2>5, Powers
  <2>7. f[i + 1] < power[i + 1]
    BY <2>2, <2>3, <2>4, <2>6
  <2>8. ASSUME n % 10 # 0 PROVE f[i + 1] > 0
    <3>1. CASE i = 0
      <4>1. c # 0
        BY <1>3, <2>5, <2>8, <3>1
      <4> QED
        BY <2>6, <4>1
    <3>2. CASE i # 0
      <4>1. v > 0
        BY <2>2, <2>3, <2>8, <3>2, Zenon
      <4> QED
        BY <2>6, <4>1
    <3> QED
      BY <3>1, <3>2
  <2> QED
    BY <2>1, <2>7, <2>8
<1>6. S = Nat
  <2>1. S \in SUBSET Nat
    OBVIOUS
  <2> HIDE DEF S
  <2> QED
    BY <1>4, <1>5, <2>1, AllNaturals, Zenon
<1>7. f[k] \in Nat /\ f[k] < power[k] /\ (n % 10 # 0 /\ k # 0 => f[k] > 0)
  BY <1>1, <1>6
<1> QED
  BY <1>7 DEF f

(* The last digit of a reversal is the digit put there last. *)
LEMMA ReversalEnds ==
  ASSUME NEW n \in Nat, NEW k \in Nat
  PROVE  /\ reversal(n)[k + 1] % 10 = (n \div power[k]) % 10
         /\ reversal(n)[k + 1] \div 10 = reversal(n)[k]
         /\ (n \div power[k]) % 10 \in 0 .. 9
<1>1. PICK v : v = reversal(n)[k]
  OBVIOUS
<1>2. PICK q : q = n \div power[k]
  OBVIOUS
<1>3. v \in Nat /\ reversal(n)[k + 1] = 10 * v + (q % 10)
  BY <1>1, <1>2, Reversals, Zenon DEF IsReversal
<1>4. PICK d : d = q % 10
  OBVIOUS
<1>5. d \in 0 .. 9
  <2>1. q \in Nat
    BY <1>2, NothingLeft
  <2> QED
    BY <1>4, <2>1
<1>6. PICK w : w = 10 * v + d
  OBVIOUS
<1>7. w % 10 = d /\ w \div 10 = v
  BY <1>3, <1>5, <1>6
<1> QED
  BY <1>1, <1>2, <1>3, <1>4, <1>5, <1>6, <1>7

--------------------------------------------------------------------------------
(* What check_sin adds is what the definition of a Social Insurance Number counts. *)
LEMMA DigitCounts ==
  ASSUME NEW n \in Nat, NEW c \in Nat, c < DIGITS
  PROVE  /\ disect_greater_than(validation(c) * Digit(n, c + 1)) = Weighed(n, c + 1)
         /\ Weighed(n, c + 1) \in Nat
<1>1. PICK d : d = Digit(n, c + 1)
  OBVIOUS
<1>2. d \in 0 .. 9
  <2>1. DIGITS - (c + 1) \in Nat
    BY SinAssumption
  <2>2. PICK q : q = n \div power[DIGITS - (c + 1)]
    OBVIOUS
  <2>3. q \in Nat
    BY <2>1, <2>2, NothingLeft
  <2>4. q % 10 \in 0 .. 9
    BY <2>3
  <2> QED
    BY <1>1, <2>2, <2>4, Zenon DEF Digit
<1>3. CASE c % 2 = 0
  <2>1. validation(c) = 1 /\ (c + 1) % 2 = 1
    BY <1>3 DEF validation
  <2>2. 1 * d = d /\ disect_greater_than(d) = d
    BY <1>2 DEF disect_greater_than
  <2>3. Weighed(n, c + 1) = d
    BY <1>1, <2>1, Zenon DEF Weighed
  <2> QED
    BY <1>1, <1>2, <2>1, <2>2, <2>3
<1>4. CASE c % 2 # 0
  <2>1. validation(c) = 2 /\ (c + 1) % 2 # 1
    BY <1>4 DEF validation
  <2>2. disect_greater_than(2 * d) = IF d < 5 THEN 2 * d ELSE 2 * d - 9
    <3>1. CASE d < 5
      BY <1>2, <3>1 DEF disect_greater_than
    <3>2. CASE ~ (d < 5)
      <4>1. 2 * d >= 10 /\ (2 * d) % 10 = 2 * d - 10 /\ (2 * d) \div 10 = 1
        BY <1>2, <3>2
      <4> QED
        BY <1>2, <3>2, <4>1 DEF disect_greater_than
    <3> QED
      BY <3>1, <3>2
  <2>3. Weighed(n, c + 1) = IF d < 5 THEN 2 * d ELSE 2 * d - 9
    BY <1>1, <2>1, Zenon DEF Weighed
  <2>4. (IF d < 5 THEN 2 * d ELSE 2 * d - 9) \in Nat
    BY <1>2
  <2> QED
    BY <1>1, <2>1, <2>2, <2>3, <2>4, Zenon
<1> QED
  BY <1>3, <1>4

(* The sums of the first digits. *)
IsTotal(f, n) == f = [k \in 0 .. DIGITS |-> IF k = 0 THEN 0 ELSE f[k - 1] + Weighed(n, k)]

Total(n) == CHOOSE f : IsTotal(f, n)

LEMMA CheckSumIs ==
  ASSUME NEW n
  PROVE  CheckSum(n) = Total(n)[DIGITS]
BY Zenon DEF CheckSum, Total, IsTotal

LEMMA Totals ==
  ASSUME NEW n \in Nat
  PROVE  /\ Total(n)[0] = 0
         /\ \A c \in Nat : c < DIGITS => Total(n)[c + 1] = Total(n)[c] + Weighed(n, c + 1)
<1> DEFINE h == [x \in Nat \X Nat |-> IF x[1] < DIGITS THEN x[2] + Weighed(n, x[1] + 1) ELSE 0]
<1>1. ASSUME NEW c \in Nat, NEW v \in Nat
      PROVE  (IF c < DIGITS THEN v + Weighed(n, c + 1) ELSE 0) \in Nat
  <2>1. PICK w : w = Weighed(n, c + 1)
    OBVIOUS
  <2>2. c < DIGITS => w \in Nat
    BY <2>1, DigitCounts
  <2>3. (IF c < DIGITS THEN v + w ELSE 0) \in Nat
    BY <2>2
  <2> QED
    BY <2>1, <2>3
<1>2. h \in [Nat \X Nat -> Nat]
  BY <1>1
<1>3. \A c \in Nat, v \in Nat : h[<<c, v>>] = IF c < DIGITS THEN v + Weighed(n, c + 1) ELSE 0
  OBVIOUS
<1> HIDE DEF h
<1>4. Defines(Nat, 0, h)
  BY <1>2 DEF Defines
<1>5. PICK f : Defined(f, Nat, 0, h)
  BY <1>4, Recursion, Zenon
<1> DEFINE g == [k \in 0 .. DIGITS |-> f[k]]
<1>6. DIGITS \in Nat
  BY SinAssumption
<1>7. ASSUME NEW k \in 0 .. DIGITS PROVE g[k] = IF k = 0 THEN 0 ELSE g[k - 1] + Weighed(n, k)
  <2>1. k \in Nat /\ g[k] = f[k]
    BY <1>6
  <2>2. CASE k = 0
    BY <1>5, <2>1, <2>2 DEF Defined
  <2>3. CASE k # 0
    <3>1. k - 1 \in Nat /\ (k - 1) + 1 = k /\ k - 1 < DIGITS /\ k - 1 \in 0 .. DIGITS
      BY <1>6, <2>1, <2>3
    <3>2. f[k] = h[<<k - 1, f[k - 1]>>] /\ f[k - 1] \in Nat
      BY <1>5, <3>1 DEF Defined
    <3>3. h[<<k - 1, f[k - 1]>>] = f[k - 1] + Weighed(n, k)
      BY <1>3, <3>1, <3>2
    <3>4. g[k - 1] = f[k - 1]
      BY <3>1
    <3> QED
      BY <2>1, <2>3, <3>2, <3>3, <3>4, Zenon
  <2> QED
    BY <2>2, <2>3
<1>8. IsTotal(g, n)
  BY <1>7 DEF IsTotal
<1> HIDE DEF g
<1>9. IsTotal(Total(n), n)
  BY <1>8, Zenon DEF Total
<1>10. \A k \in 0 .. DIGITS : Total(n)[k] = IF k = 0 THEN 0 ELSE Total(n)[k - 1] + Weighed(n, k)
  BY <1>9, Zenon DEF IsTotal
<1>11. Total(n)[0] = 0
  <2>1. 0 \in 0 .. DIGITS
    BY <1>6
  <2> QED
    BY <1>10, <2>1
<1>12. ASSUME NEW c \in Nat, c < DIGITS
       PROVE  Total(n)[c + 1] = Total(n)[c] + Weighed(n, c + 1)
  <2>1. c + 1 \in 0 .. DIGITS /\ c + 1 # 0 /\ (c + 1) - 1 = c
    BY <1>6, <1>12
  <2> QED
    BY <1>10, <2>1
<1> QED
  BY <1>11, <1>12

(* How many digits a number has, of DIGITS at most. *)
HasDigits(n, l) == l \in 1 .. DIGITS /\ n \div power[l] = 0 /\ n \div power[l - 1] # 0

(* Only a number of DIGITS digits can be a Social Insurance Number. *)
LEMMA EnoughDigits ==
  ASSUME NEW n \in Nat, n < power[DIGITS], NEW l, HasDigits(n, l)
  PROVE  n \in power[DIGITS - 1] .. power[DIGITS] - 1 <=> l = DIGITS
<1>1. DIGITS \in Nat \ {0} /\ l \in 1 .. DIGITS /\ l \in Nat /\ DIGITS - 1 \in Nat
  BY SinAssumption DEF HasDigits
<1>2. power[DIGITS] \in Nat /\ power[DIGITS - 1] \in Nat /\ power[l] \in Nat
  BY <1>1, Powers
<1>3. ASSUME l = DIGITS PROVE power[DIGITS - 1] <= n
  <2>1. ~ (n < power[DIGITS - 1])
    BY <1>1, <1>3, NothingLeft, Zenon DEF HasDigits
  <2> QED
    BY <1>2, <2>1
<1>4. ASSUME l # DIGITS PROVE n < power[DIGITS - 1]
  <2>1. n < power[l]
    BY <1>1, NothingLeft, Zenon DEF HasDigits
  <2>2. (DIGITS - 1) - l \in Nat /\ l + ((DIGITS - 1) - l) = DIGITS - 1
    BY <1>1, <1>4
  <2>3. power[l] <= power[l + ((DIGITS - 1) - l)]
    BY <1>1, <2>2, PowersGrow
  <2>4. power[l] <= power[DIGITS - 1]
    BY <2>2, <2>3
  <2> QED
    BY <1>2, <2>1, <2>4
<1> QED
  BY <1>2, <1>3, <1>4

Ordinary(n) == n < power[DIGITS] /\ -INT_MAX <= n /\ n % 10 # 0

(* A negative number has no digits, and is invalid. *)
NegativeSo ==
  /\ verdict = "reverse" => sin = arg
  /\ verdict \in {"reverse", "split"} => reversed_sin = 0 /\ sin_array = <<>>
  /\ verdict \in {"reverse", "split", "Invalid SIN"}

(* Of a positive one the digits are first put in front of each other, then taken off
   again and entered, and at last counted. *)
Reversed(n, k) ==
  k \in 0 .. DIGITS /\ sin = n \div power[k] /\ reversed_sin = reversal(n)[k]
    /\ (k # 0 => n \div power[k - 1] # 0)

Entered(n, l, k) ==
  /\ HasDigits(n, l) /\ k \in 0 .. l
  /\ Len(sin_array) = l - k /\ reversed_sin = reversal(n)[k]
  /\ \A j \in 1 .. l - k : sin_array[j] = (n \div power[l - j]) % 10

PositiveSo ==
  /\ verdict \in {"reverse", "split"} => sum = 0 /\ checked = 0
  /\ verdict = "reverse" => sin_array = <<>> /\ \E k : Reversed(arg, k)
  /\ verdict = "split" => \E l, k : Entered(arg, l, k)
  /\ verdict = "check" =>
       /\ HasDigits(arg, DIGITS) /\ sum = Total(arg)[checked]
       /\ \A j \in 1 .. DIGITS : sin_array[j] = Digit(arg, j)
  /\ Decided => (verdict = "Valid SIN" <=> IsSin(arg))

SinInv ==
  /\ SinTyped
  /\ Ordinary(arg) => IF arg < 0 THEN NegativeSo ELSE PositiveSo

LEMMA SinInvInit == SinInit => SinInv
<1> SUFFICES ASSUME SinInit, Ordinary(arg) PROVE IF arg < 0 THEN NegativeSo ELSE PositiveSo
  BY SinStarts DEF SinInv
<1>1. /\ arg \in Int /\ sin = ToInt(arg) /\ reversed_sin = 0 /\ sin_array = <<>>
      /\ sum = 0 /\ checked = 0 /\ verdict = "reverse"
  BY SinAssumption DEF SinInit
<1>2. sin = arg
  <2>1. power[DIGITS] \in Nat /\ power[DIGITS] <= INT_MAX /\ INT_MAX \in Nat
    BY SinAssumption, Powers
  <2>2. arg \in -INT_MAX - 1 .. INT_MAX
    BY <1>1, <2>1 DEF Ordinary
  <2> QED
    BY <1>1, <2>2, ToIntSame, Zenon
<1>3. CASE arg < 0
  BY <1>1, <1>2, <1>3 DEF NegativeSo
<1>4. CASE ~ (arg < 0)
  <2>1. arg \in Nat
    BY <1>1, <1>4
  <2>2. Reversed(arg, 0)
    <3>1. power[0] = 1 /\ reversal(arg)[0] = 0 /\ arg \div 1 = arg
      BY <2>1, Powers, Reversals DEF IsReversal
    <3>2. 0 \in 0 .. DIGITS
      BY SinAssumption
    <3> QED
      BY <1>1, <1>2, <3>1, <3>2 DEF Reversed
  <2> QED
    BY <1>1, <1>4, <2>2 DEF PositiveSo, Decided
<1> QED
  BY <1>3, <1>4

LEMMA NegativeSteps ==
  ASSUME SinTyped, NegativeSo, arg < 0, [SinNext]_sinVars
  PROVE  NegativeSo' /\ arg' = arg
<1>1. sin \in Int /\ DIGITS # 0 /\ arg \in Int
  BY IntIsNumber, SinAssumption DEF SinTyped, SinTypeOK
<1>2. CASE ReverseDigit
  <2>1. ~ (sin > 0)
    BY <1>1, <1>2 DEF ReverseDigit, NegativeSo
  <2>2. /\ verdict = "reverse" /\ reversed_sin' = reversed_sin /\ verdict' = "split"
        /\ arg' = arg /\ sin_array' = sin_array
    BY <1>2, <2>1, Zenon DEF ReverseDigit
  <2> QED
    BY <2>2 DEF NegativeSo
<1>3. CASE SplitDigit
  BY <1>3 DEF SplitDigit, NegativeSo
<1>4. CASE SplitEnds
  BY <1>1, <1>4 DEF SplitEnds, NegativeSo
<1>5. CASE CheckDigit
  BY <1>5 DEF CheckDigit, NegativeSo
<1>6. CASE CheckEnds
  BY <1>6 DEF CheckEnds, NegativeSo
<1>7. CASE UNCHANGED sinVars
  BY <1>7 DEF sinVars, NegativeSo
<1> QED
  BY <1>2, <1>3, <1>4, <1>5, <1>6, <1>7 DEF SinNext

LEMMA ReverseSteps ==
  ASSUME SinTyped, PositiveSo, Ordinary(arg), arg \in Nat, ReverseDigit
  PROVE  PositiveSo'
<1>1. /\ verdict = "reverse" /\ sum = 0 /\ checked = 0 /\ sin_array = <<>>
      /\ arg' = arg /\ sin_array' = sin_array /\ sum' = sum /\ checked' = checked
  BY DEF ReverseDigit, PositiveSo
<1>2. PICK k : Reversed(arg, k)
  BY <1>1 DEF PositiveSo
<1>3. /\ k \in 0 .. DIGITS /\ sin = arg \div power[k] /\ reversed_sin = reversal(arg)[k]
      /\ (k # 0 => arg \div power[k - 1] # 0) /\ DIGITS \in Nat
  BY <1>2, SinAssumption DEF Reversed
<1>4. k \in Nat /\ sin \in Nat /\ (sin = 0 <=> arg < power[k])
  <2>1. k \in Nat
    BY <1>3
  <2> QED
    BY <1>3, <2>1, NothingLeft, Zenon
<1>5. CASE sin > 0
  <2>1. k # DIGITS
    BY <1>4, <1>5 DEF Ordinary
  <2>2. k + 1 \in 0 .. DIGITS /\ k + 1 # 0 /\ (k + 1) - 1 = k
    BY <1>3, <2>1
  <2>3. verdict' = "reverse" /\ sin' = sin \div 10
        /\ reversed_sin' = ToInt(10 * reversed_sin + (sin % 10))
    BY <1>5, Zenon DEF ReverseDigit
  <2>4. sin' = arg \div power[k + 1]
    BY <1>3, <1>4, <2>3, OneDigitLess
  <2>5. reversed_sin' = reversal(arg)[k + 1]
    <3>1. reversal(arg)[k + 1] = 10 * reversed_sin + (sin % 10)
      BY <1>3, <1>4, Reversals, Zenon DEF IsReversal
    <3>2. reversal(arg)[k + 1] \in Nat /\ reversal(arg)[k + 1] < power[k + 1]
      BY <1>4, <2>2, ReversalFits
    <3>3. power[k + 1] <= power[DIGITS]
      <4>1. DIGITS - (k + 1) \in Nat /\ k + 1 \in Nat /\ (k + 1) + (DIGITS - (k + 1)) = DIGITS
        BY <1>3, <2>2
      <4>2. power[k + 1] <= power[(k + 1) + (DIGITS - (k + 1))]
        BY <4>1, PowersGrow
      <4> QED
        BY <4>1, <4>2
    <3>4. power[k + 1] \in Nat /\ power[DIGITS] \in Nat
      BY <1>3, <1>4, Powers
    <3>5. reversal(arg)[k + 1] \in -INT_MAX - 1 .. INT_MAX
      BY <3>2, <3>3, <3>4, SinAssumption
    <3>6. ToInt(reversal(arg)[k + 1]) = reversal(arg)[k + 1]
      BY <3>5, ToIntSame
    <3> QED
      BY <2>3, <3>1, <3>6, Zenon
  <2>6. arg \div power[k] # 0
    BY <1>3, <1>5
  <2>7. Reversed(arg, k + 1)'
    <3>1. /\ k + 1 \in 0 .. DIGITS /\ sin' = arg' \div power[k + 1]
          /\ reversed_sin' = reversal(arg')[k + 1]
          /\ (k + 1 # 0 => arg' \div power[(k + 1) - 1] # 0)
      BY <1>1, <2>2, <2>4, <2>5, <2>6, Zenon
    <3> QED
      BY <3>1, Zenon DEF Reversed
  <2>8. \E i : Reversed(arg, i)'
    BY <2>7, Zenon
  <2> QED
    BY <1>1, <2>3, <2>8 DEF PositiveSo, Decided
<1>6. CASE ~ (sin > 0)
  <2>1. sin = 0 /\ verdict' = "split" /\ reversed_sin' = reversed_sin
    BY <1>4, <1>6 DEF ReverseDigit
  <2>2. k # 0
    <3>1. arg # 0
      BY DEF Ordinary
    <3>2. power[0] = 1
      BY Powers
    <3> QED
      BY <1>4, <2>1, <3>1, <3>2
  <2>3. HasDigits(arg, k)
    BY <1>3, <2>1, <2>2 DEF HasDigits
  <2>4. Len(sin_array') = k - k
    BY <1>1, <1>3
  <2>5. \A j \in 1 .. k - k : FALSE
    BY <1>3
  <2>6. k \in 0 .. k
    BY <1>3
  <2>7. Entered(arg, k, k)'
    BY <1>1, <1>3, <2>1, <2>3, <2>4, <2>5, <2>6, Zenon DEF Entered
  <2>8. \E l, i : Entered(arg, l, i)'
    BY <2>7, Zenon
  <2> QED
    BY <1>1, <2>1, <2>8 DEF PositiveSo, Decided
<1> QED
  BY <1>5, <1>6

LEMMA SplitSteps ==
  ASSUME SinTyped, PositiveSo, Ordinary(arg), arg \in Nat, SplitDigit
  PROVE  PositiveSo'
<1>1. /\ verdict = "split" /\ verdict' = "split" /\ sum = 0 /\ checked = 0
      /\ arg' = arg /\ sum' = sum /\ checked' = checked
      /\ reversed_sin > 0 /\ reversed_sin' = reversed_sin \div 10
      /\ sin_array' = Append(sin_array, reversed_sin % 10)
  BY DEF SplitDigit, PositiveSo
<1>2. PICK l, k : Entered(arg, l, k)
  BY <1>1 DEF PositiveSo
<1>3. /\ HasDigits(arg, l) /\ k \in 0 .. l
      /\ Len(sin_array) = l - k /\ reversed_sin = reversal(arg)[k]
      /\ \A j \in 1 .. l - k : sin_array[j] = (arg \div power[l - j]) % 10
  BY <1>2, Zenon DEF Entered
<1>4. l \in 1 .. DIGITS /\ DIGITS \in Nat /\ l \in Nat
  BY <1>3, SinAssumption DEF HasDigits
<1>5. k # 0
  <2>1. k = 0 => reversed_sin = 0
    BY <1>3, Reversals DEF IsReversal
  <2> QED
    BY <1>1, <2>1
<1> DEFINE i == k - 1
<1>6. i \in Nat /\ i + 1 = k /\ i \in 0 .. l /\ l - i = (l - k) + 1 /\ l - (l - i) = i
  BY <1>3, <1>4, <1>5
<1> HIDE DEF i
<1>7. /\ reversed_sin % 10 = (arg \div power[i]) % 10
      /\ reversed_sin' = reversal(arg)[i]
      /\ reversed_sin % 10 \in 0 .. 9
  BY <1>1, <1>3, <1>6, ReversalEnds
<1>8. sin_array \in Seq(0 .. 9)
  BY DEF SinTyped, SinTypeOK
<1>9. /\ Len(sin_array') = l - i
      /\ sin_array'[l - i] = reversed_sin % 10
      /\ \A j \in 1 .. l - k : sin_array'[j] = sin_array[j]
  <2>1. PICK d : d = reversed_sin % 10
    OBVIOUS
  <2>2. sin_array' = Append(sin_array, d) /\ Len(sin_array) = l - k /\ d \in 0 .. 9
    BY <1>1, <1>3, <1>7, <2>1, Zenon
  <2>3. /\ Len(Append(sin_array, d)) = (l - k) + 1
        /\ Append(sin_array, d)[(l - k) + 1] = d
        /\ \A j \in 1 .. l - k : Append(sin_array, d)[j] = sin_array[j]
    BY <1>8, <2>2
  <2> QED
    BY <1>6, <2>1, <2>2, <2>3, Zenon
<1>10. ASSUME NEW j \in 1 .. l - i PROVE sin_array'[j] = (arg \div power[l - j]) % 10
  <2>1. CASE j = l - i
    BY <1>6, <1>7, <1>9, <2>1, Zenon
  <2>2. CASE j # l - i
    <3>1. j \in 1 .. l - k
      BY <1>3, <1>4, <1>6, <2>2
    <3> QED
      BY <1>3, <1>9, <3>1, Zenon
  <2> QED
    BY <2>1, <2>2
<1>11. Entered(arg, l, i)'
  BY <1>1, <1>3, <1>6, <1>7, <1>9, <1>10, Zenon DEF Entered
<1>12. \E m, j : Entered(arg, m, j)'
  BY <1>11, Zenon
<1> QED
  BY <1>1, <1>12 DEF PositiveSo, Decided

LEMMA SplitEndsSo ==
  ASSUME SinTyped, PositiveSo, Ordinary(arg), arg \in Nat, SplitEnds
  PROVE  PositiveSo'
<1>1. /\ verdict = "split" /\ sum = 0 /\ checked = 0 /\ reversed_sin <= 0
      /\ verdict' = IF Len(sin_array) = DIGITS THEN "check" ELSE "Invalid SIN"
      /\ arg' = arg /\ sum' = sum /\ checked' = checked /\ sin_array' = sin_array
  BY DEF SplitEnds, PositiveSo
<1>2. PICK l, k : Entered(arg, l, k)
  BY <1>1 DEF PositiveSo
<1>3. /\ HasDigits(arg, l) /\ k \in 0 .. l
      /\ Len(sin_array) = l - k /\ reversed_sin = reversal(arg)[k]
      /\ \A j \in 1 .. l - k : sin_array[j] = (arg \div power[l - j]) % 10
  BY <1>2, Zenon DEF Entered
<1>4. l \in 1 .. DIGITS /\ DIGITS \in Nat /\ l \in Nat /\ k \in Nat
  BY <1>3, SinAssumption DEF HasDigits
<1>5. k = 0
  <2>1. arg % 10 # 0
    BY DEF Ordinary
  <2>2. k # 0 => reversal(arg)[k] > 0 /\ reversal(arg)[k] \in Nat
    BY <1>4, <2>1, ReversalFits
  <2>3. reversed_sin <= 0 /\ (k # 0 => reversed_sin > 0 /\ reversed_sin \in Nat)
    BY <1>1, <1>3, <2>2, Zenon
  <2> QED
    BY <2>3
<1>6. l - k = l /\ Len(sin_array) = l
  BY <1>3, <1>4, <1>5
<1>7. CASE l = DIGITS
  <2>1. verdict' = "check"
    BY <1>1, <1>6, <1>7
  <2>2. \A j \in 1 .. DIGITS : sin_array'[j] = Digit(arg', j)
    BY <1>1, <1>3, <1>6, <1>7, Zenon DEF Digit
  <2>3. sum' = Total(arg')[checked']
    BY <1>1, Totals
  <2>4. HasDigits(arg', DIGITS)
    BY <1>1, <1>3, <1>7
  <2> QED
    BY <2>1, <2>2, <2>3, <2>4 DEF PositiveSo, Decided
<1>8. CASE l # DIGITS
  <2>1. verdict' = "Invalid SIN"
    BY <1>1, <1>6, <1>8
  <2>2. ~ IsSin(arg)
    BY <1>3, <1>8, EnoughDigits DEF Ordinary, IsSin
  <2>3. ~ IsSin(arg')
    BY <1>1, <2>2, Zenon
  <2> QED
    BY <2>1, <2>3, Zenon DEF PositiveSo, Decided
<1> QED
  BY <1>7, <1>8

LEMMA CheckSteps ==
  ASSUME SinTyped, PositiveSo, Ordinary(arg), arg \in Nat, CheckDigit
  PROVE  PositiveSo'
<1>1. /\ verdict = "check" /\ verdict' = "check" /\ checked < DIGITS /\ checked' = checked + 1
      /\ arg' = arg /\ sin_array' = sin_array
      /\ sum' = sum + disect_greater_than(validation(checked) * sin_array[checked + 1])
  BY DEF CheckDigit
<1>2. /\ HasDigits(arg, DIGITS) /\ sum = Total(arg)[checked]
      /\ \A j \in 1 .. DIGITS : sin_array[j] = Digit(arg, j)
  BY <1>1, Zenon DEF PositiveSo
<1>3. checked \in 0 .. DIGITS /\ DIGITS \in Nat
  BY SinAssumption DEF SinTyped, SinTypeOK
<1>4. checked \in Nat /\ checked + 1 \in 1 .. DIGITS
  BY <1>1, <1>3
<1>5. sin_array[checked + 1] = Digit(arg, checked + 1)
  BY <1>2, <1>4, Zenon
<1>6. sum' = Total(arg)[checked] + Weighed(arg, checked + 1)
  BY <1>1, <1>2, <1>4, <1>5, DigitCounts, Zenon
<1>7. sum' = Total(arg)[checked + 1]
  BY <1>1, <1>4, <1>6, Totals, Zenon
<1> QED
  BY <1>1, <1>2, <1>7, Zenon DEF PositiveSo, Decided

LEMMA CheckEndsSo ==
  ASSUME SinTyped, PositiveSo, Ordinary(arg), arg \in Nat, CheckEnds
  PROVE  PositiveSo'
<1>1. /\ verdict = "check" /\ checked = DIGITS /\ arg' = arg
      /\ verdict' = IF sum % 10 = 0 THEN "Valid SIN" ELSE "Invalid SIN"
  BY DEF CheckEnds
<1>2. HasDigits(arg, DIGITS) /\ sum = Total(arg)[checked]
  BY <1>1, Zenon DEF PositiveSo
<1>3. sum = CheckSum(arg)
  BY <1>1, <1>2, CheckSumIs, Zenon
<1>4. IsSin(arg) <=> sum % 10 = 0
  BY <1>2, <1>3, EnoughDigits DEF Ordinary, IsSin
<1>5. IsSin(arg') <=> sum % 10 = 0
  BY <1>1, <1>4, Zenon
<1>6. verdict' = "Valid SIN" <=> sum % 10 = 0
  BY <1>1
<1>7. verdict' \in {"Valid SIN", "Invalid SIN"}
  BY <1>1
<1> QED
  BY <1>5, <1>6, <1>7 DEF PositiveSo, Decided

LEMMA SinInvSteps == SinInv /\ [SinNext]_sinVars => SinInv'
<1> SUFFICES ASSUME SinInv, [SinNext]_sinVars PROVE SinInv'
  OBVIOUS
<1>1. SinTyped /\ SinTyped' /\ arg \in Int
  BY SinSteps, SinAssumption DEF SinInv, SinTyped, SinTypeOK
<1>2. arg' = arg
  BY DEF SinNext, sinVars, ReverseDigit, SplitDigit, SplitEnds, CheckDigit, CheckEnds
<1>3. ASSUME Ordinary(arg), arg < 0 PROVE NegativeSo'
  BY <1>1, <1>3, NegativeSteps DEF SinInv
<1>4. ASSUME Ordinary(arg), ~ (arg < 0) PROVE PositiveSo'
  <2>1. arg \in Nat /\ PositiveSo
    BY <1>1, <1>4 DEF SinInv
  <2>2. CASE UNCHANGED sinVars
    BY <2>1, <2>2 DEF sinVars, PositiveSo, Decided, Reversed, Entered
  <2> QED
    BY <1>1, <1>4, <2>1, <2>2, ReverseSteps, SplitSteps, SplitEndsSo, CheckSteps, CheckEndsSo,
       Zenon DEF SinNext
<1>5. Ordinary(arg') => IF arg' < 0 THEN NegativeSo' ELSE PositiveSo'
  BY <1>2, <1>3, <1>4, Zenon
<1> QED
  BY <1>1, <1>5, Zenon DEF SinInv

LEMMA VerdictKnown == SinInv => VerdictIsRight
<1> SUFFICES ASSUME SinInv, Decided, Ordinary(arg) PROVE verdict = "Valid SIN" <=> IsSin(arg)
  BY DEF VerdictIsRight, Ordinary
<1>1. CASE arg < 0
  <2>1. NegativeSo /\ arg \in Args
    BY <1>1, Zenon DEF SinInv, SinTyped, SinTypeOK
  <2>2. verdict # "Valid SIN"
    BY <2>1 DEF NegativeSo
  <2>3. DIGITS - 1 \in Nat /\ arg \in Int
    BY <2>1, SinAssumption
  <2>4. power[DIGITS - 1] \in Nat
    BY <2>3, Powers
  <2>5. ~ IsSin(arg)
    BY <1>1, <2>3, <2>4 DEF IsSin
  <2> QED
    BY <2>2, <2>5
<1>2. CASE ~ (arg < 0)
  BY <1>2, Zenon DEF SinInv, PositiveSo
<1> QED
  BY <1>1, <1>2

(* The verdict is right for all the numbers for which it is said to be: for any number of
   digits, with ints that hold them. *)
THEOREM VerdictAlwaysRight == SinSpec => []VerdictIsRight
BY SinInvInit, SinInvSteps, VerdictKnown, PTL DEF SinSpec

--------------------------------------------------------------------------------
(* Forks: types, for all four programs. *)

(* Bags: of one line, of the lines of a buffer, and of two bags together. *)
LEMMA OneLineBag == ASSUME NEW x PROVE IsABag(SetToBag({x}))
  BY DEF IsABag, SetToBag

LEMMA BufferBag ==
  ASSUME NEW T, NEW s \in Seq(T)
  PROVE  IsABag(ToBag(s))
<1>1. Len(s) \in Nat /\ DOMAIN s = 1 .. Len(s)
  OBVIOUS
<1>2. DOMAIN ToBag(s) = Range(s)
  BY DEF ToBag
<1>3. ASSUME NEW x \in Range(s) PROVE ToBag(s)[x] \in Nat /\ ToBag(s)[x] > 0
  <2> DEFINE I == {i \in DOMAIN s : s[i] = x}
  <2>1. ToBag(s)[x] = Cardinality(I)
    BY DEF ToBag
  <2>2. PICK k \in DOMAIN s : s[k] = x
    BY DEF Range
  <2>3. IsFiniteSet(1 .. Len(s))
    <3>1. 1 \in Int /\ Len(s) \in Int
      BY <1>1
    <3> QED
      BY <3>1, FS_Interval, Zenon
  <2>4. I \subseteq 1 .. Len(s)
    BY <1>1
  <2>5. k \in I
    BY <2>2
  <2> HIDE DEF I
  <2>6. IsFiniteSet(I)
    BY <2>3, <2>4, FS_Subset, Zenon
  <2>7. Cardinality(I) \in Nat /\ (Cardinality(I) = 0 <=> I = {})
    BY <2>6, FS_CardinalityType, FS_EmptySet, Zenon
  <2> QED
    BY <2>1, <2>5, <2>7
<1>4. ToBag(s) = [x \in Range(s) |-> ToBag(s)[x]]
  BY DEF ToBag
<1> QED
  BY <1>2, <1>3, <1>4 DEF IsABag

LEMMA BagsTogether ==
  ASSUME NEW b, NEW c, IsABag(b), IsABag(c)
  PROVE  IsABag(b (+) c)
<1> DEFINE times(e) == (IF e \in DOMAIN b THEN b[e] ELSE 0) + (IF e \in DOMAIN c THEN c[e] ELSE 0)
<1>1. b (+) c = [e \in DOMAIN b \cup DOMAIN c |-> times(e)]
  BY Zenon DEF (+)
<1>2. ASSUME NEW e \in DOMAIN b \cup DOMAIN c PROVE times(e) \in {n \in Nat : n > 0}
  <2>1. e \in DOMAIN b => b[e] \in Nat /\ b[e] > 0
    BY DEF IsABag
  <2>2. e \in DOMAIN c => c[e] \in Nat /\ c[e] > 0
    BY DEF IsABag
  <2> QED
    BY <2>1, <2>2
<1> HIDE DEF times
<1>3. DOMAIN (b (+) c) = DOMAIN b \cup DOMAIN c
  BY <1>1
<1> QED
  BY <1>1, <1>2, <1>3 DEF IsABag

--------------------------------------------------------------------------------

Letters == {"A", "B", "C", "D", "E"}

(* What may be printed, and what a process may be. *)
AnyLine == Letters \cup [pid : Seq(Int), ppid : Seq(Int), i : Int]

AnyProcess ==
  [at : Letters \cup {"test", "fork", "print", "wait", "exit", "zombie", "reaped"},
   i : Nat, n : -1 .. 1, stdout : Seq(AnyLine)]

(* What is set of a process leaves the rest. *)
LEMMA Moved ==
  ASSUME NEW me \in AnyProcess,
         NEW goal \in Letters \cup {"test", "fork", "print", "wait", "exit", "zombie", "reaped"}
  PROVE  /\ [me EXCEPT !.at = goal] \in AnyProcess
         /\ [me EXCEPT !.at = goal].at = goal /\ [me EXCEPT !.at = goal].i = me.i
         /\ [me EXCEPT !.at = goal].stdout = me.stdout /\ [me EXCEPT !.at = goal].n = me.n
  BY DEF AnyProcess

LEMMA MovedWithN ==
  ASSUME NEW me \in AnyProcess, NEW k \in -1 .. 1,
         NEW goal \in Letters \cup {"test", "fork", "print", "wait", "exit", "zombie", "reaped"}
  PROVE  LET new == [me EXCEPT !.at = goal, !.n = k] IN
           new \in AnyProcess /\ new.at = goal /\ new.i = me.i /\ new.stdout = me.stdout
<1> DEFINE half == [me EXCEPT !.at = goal]
<1>1. half \in AnyProcess /\ half.at = goal /\ half.i = me.i /\ half.stdout = me.stdout
  BY Moved
<1>2. [me EXCEPT !.at = goal, !.n = k] = [half EXCEPT !.n = k]
  OBVIOUS
<1> HIDE DEF half
<1>3. /\ [half EXCEPT !.n = k] \in AnyProcess /\ [half EXCEPT !.n = k].at = goal
      /\ [half EXCEPT !.n = k].i = me.i /\ [half EXCEPT !.n = k].stdout = me.stdout
  BY <1>1 DEF AnyProcess
<1> QED
  BY <1>2, <1>3, Zenon

LEMMA MovedN ==
  ASSUME NEW me \in AnyProcess, NEW k \in -1 .. 1, NEW goal
  PROVE  [me EXCEPT !.at = goal, !.n = k].n = k
<1> DEFINE half == [me EXCEPT !.at = goal]
<1>1. DOMAIN half = {"at", "i", "n", "stdout"}
  BY DEF AnyProcess
<1>2. [me EXCEPT !.at = goal, !.n = k] = [half EXCEPT !.n = k]
  OBVIOUS
<1> HIDE DEF half
<1>3. [half EXCEPT !.n = k].n = k
  BY <1>1
<1> QED
  BY <1>2, <1>3, Zenon

LEMMA NextRound ==
  ASSUME NEW me \in AnyProcess
  PROVE  LET new == [me EXCEPT !.at = "test", !.i = @ + 1] IN
           /\ new \in AnyProcess /\ new.at = "test" /\ new.i = me.i + 1 /\ new.stdout = me.stdout
           /\ new.n = me.n
<1> DEFINE half == [me EXCEPT !.at = "test"]
<1>1. /\ half \in AnyProcess /\ half.at = "test" /\ half.i = me.i /\ half.stdout = me.stdout
      /\ half.n = me.n
  BY Moved
<1>2. [me EXCEPT !.at = "test", !.i = @ + 1] = [half EXCEPT !.i = half.i + 1]
  OBVIOUS
<1> HIDE DEF half
<1>3. /\ [half EXCEPT !.i = half.i + 1] \in AnyProcess /\ [half EXCEPT !.i = half.i + 1].at = "test"
      /\ [half EXCEPT !.i = half.i + 1].i = half.i + 1
      /\ [half EXCEPT !.i = half.i + 1].stdout = half.stdout
      /\ [half EXCEPT !.i = half.i + 1].n = half.n
  BY <1>1 DEF AnyProcess
<1> QED
  BY <1>1, <1>2, <1>3, Zenon

(* A process goes on to another round only when there is one left. *)
InRound(me, what, terminal) ==
  /\ me \in AnyProcess
  /\ me.i <= what.iterations
  /\ terminal => me.stdout = <<>>
  /\ me.at \in Letters => what.program = "simplefork"
  /\ me.at = "fork" => me.i < what.iterations \/ what.program = "simplefork"
  /\ me.at \in {"print", "wait"} => me.i < what.iterations

ForksTyped ==
  /\ run \in Starts /\ tty \in BOOLEAN /\ fork_failed \in BOOLEAN /\ IsABag(out)
  /\ \A p \in DOMAIN procs : p \in Seq(0 .. run.iterations) /\ InRound(procs[p], run, tty)

LEMMA ForksTypedOK == ForksTyped => ForksTypeOK
<1> SUFFICES ASSUME ForksTyped PROVE ForksTypeOK
  OBVIOUS
<1>1. run.iterations \in Nat
  BY ForksAssumption DEF ForksTyped
<1>2. ASSUME NEW p \in DOMAIN procs
      PROVE  /\ p \in Seq(0 .. run.iterations)
             /\ procs[p].at \in {"A", "B", "C", "D", "E", "test", "fork", "print", "wait", "exit",
                                 "zombie", "reaped"}
             /\ procs[p].i \in 0 .. run.iterations /\ procs[p].n \in -1 .. 1
             /\ tty => procs[p].stdout = <<>>
  <2> DEFINE me == procs[p]
  <2>1. /\ p \in Seq(0 .. run.iterations) /\ me \in AnyProcess /\ me.i <= run.iterations
        /\ tty => me.stdout = <<>>
    BY Zenon DEF ForksTyped, InRound
  <2> HIDE DEF me
  <2>2. /\ me.at \in Letters \cup {"test", "fork", "print", "wait", "exit", "zombie", "reaped"}
        /\ me.i \in Nat /\ me.n \in -1 .. 1
    BY <2>1 DEF AnyProcess
  <2>3. me.i \in 0 .. run.iterations
    BY <1>1, <2>1, <2>2
  <2>4. me.at \in {"A", "B", "C", "D", "E", "test", "fork", "print", "wait", "exit",
                   "zombie", "reaped"}
    BY <2>2 DEF Letters
  <2> QED
    BY <2>1, <2>2, <2>3, <2>4, Zenon DEF me
<1> QED
  BY <1>2 DEF ForksTyped, ForksTypeOK

LEMMA ForksTypedInit == ForksInit => ForksTyped
<1> SUFFICES ASSUME ForksInit PROVE ForksTyped
  OBVIOUS
<1> DEFINE start == IF run.program = "simplefork" THEN "A" ELSE "test"
           first == [at |-> start, i |-> 0, n |-> 0, stdout |-> <<>>]
<1>1. run \in Starts /\ run.iterations \in Nat /\ tty \in BOOLEAN /\ fork_failed = FALSE
  BY ForksAssumption DEF ForksInit
<1>2. DOMAIN procs = {<<>>} /\ procs[<<>>] = first
  BY DEF ForksInit
<1>3. /\ start \in Letters => run.program = "simplefork"
      /\ start \in {"A", "test"}
  BY DEF Letters
<1> HIDE DEF start
<1>4. /\ first \in AnyProcess /\ first.i = 0 /\ first.stdout = <<>> /\ first.at = start
  BY <1>3 DEF AnyProcess, Letters
<1> HIDE DEF first
<1>5. InRound(first, run, tty)
  BY <1>1, <1>3, <1>4 DEF InRound
<1>6. IsABag(out)
  BY DEF ForksInit, EmptyBag, SetToBag, IsABag
<1>7. <<>> \in Seq(0 .. run.iterations)
  OBVIOUS
<1> QED
  BY <1>1, <1>2, <1>5, <1>6, <1>7 DEF ForksTyped

(* Who is typed of the processes of a step. *)
LEMMA OneMoves ==
  ASSUME ForksTyped, NEW p \in DOMAIN procs, NEW new,
         procs' = [procs EXCEPT ![p] = new], InRound(new, run, tty),
         UNCHANGED <<run, tty>>, fork_failed' \in BOOLEAN, IsABag(out')
  PROVE  ForksTyped'
<1>1. run' = run /\ tty' = tty
  OBVIOUS
<1>2. DOMAIN procs' = DOMAIN procs
  OBVIOUS
<1>3. ASSUME NEW q \in DOMAIN procs PROVE InRound(procs'[q], run, tty)
  <2>1. procs'[q] = IF q = p THEN new ELSE procs[q]
    OBVIOUS
  <2> QED
    BY <2>1, Zenon DEF ForksTyped
<1>4. ASSUME NEW q \in DOMAIN procs' PROVE q \in Seq(0 .. run'.iterations) /\ InRound(procs'[q], run', tty')
  BY <1>1, <1>2, <1>3, Zenon DEF ForksTyped
<1>5. run' \in Starts /\ tty' \in BOOLEAN
  BY <1>1, Zenon DEF ForksTyped
<1> QED
  BY <1>4, <1>5, Zenon DEF ForksTyped

(* What a printf leaves. *)
LEMMA PrintKeepsTyped ==
  ASSUME ForksTyped, NEW p \in DOMAIN procs, NEW text_ \in AnyLine, NEW after,
         InRound(after, run, tty), printf(p, text_, after), UNCHANGED <<run, tty, fork_failed>>
  PROVE  ForksTyped'
<1>1. tty \in BOOLEAN /\ fork_failed' \in BOOLEAN /\ IsABag(out)
  BY DEF ForksTyped
<1>2. CASE tty
  <2>1. procs' = [procs EXCEPT ![p] = after] /\ out' = out (+) SetToBag({text_})
    BY <1>2, Zenon DEF printf
  <2>2. IsABag(out')
    BY <1>1, <2>1, OneLineBag, BagsTogether, Zenon
  <2> QED
    BY <1>1, <2>1, <2>2, OneMoves, Zenon
<1>3. CASE ~ tty
  <2> DEFINE longer == [after EXCEPT !.stdout = Append(@, text_)]
  <2>1. procs' = [procs EXCEPT ![p] = longer] /\ out' = out
    BY <1>3, Zenon DEF printf
  <2>2. after \in AnyProcess
    BY DEF InRound
  <2>3. Append(after.stdout, text_) \in Seq(AnyLine)
    BY <2>2 DEF AnyProcess
  <2>4. longer \in AnyProcess /\ longer.i = after.i /\ longer.at = after.at
    BY <2>2, <2>3 DEF AnyProcess
  <2> HIDE DEF longer
  <2>5. InRound(longer, run, tty)
    BY <1>3, <2>4, Zenon DEF InRound
  <2> QED
    BY <1>1, <2>1, <2>5, OneMoves, Zenon
<1> QED
  BY <1>1, <1>2, <1>3

(* The names and the parents of processes are sequences of numbers. *)
LEMMA NamesTyped ==
  ASSUME ForksTyped, NEW p \in DOMAIN procs
  PROVE  p \in Seq(Int) /\ getppid(p) \in Seq(Int)
<1>1. run.iterations \in Nat
  BY ForksAssumption DEF ForksTyped
<1>2. p \in Seq(0 .. run.iterations) /\ 0 .. run.iterations \subseteq Int
  BY <1>1 DEF ForksTyped
<1>3. p \in Seq(Int)
  BY <1>2, SeqGrows, Zenon
<1>4. ASSUME p # <<>> PROVE Front(p) \in Seq(Int)
  <2>1. Len(p) \in Nat \ {0}
    BY <1>3, <1>4
  <2> QED
    BY <1>3, <2>1 DEF Front
<1>5. shell \in Seq(Int) /\ init \in Seq(Int)
  BY DEF shell, init
<1> QED
  BY <1>3, <1>4, <1>5, Zenon DEF getppid

LEMMA SimplePrintTyped ==
  ASSUME ForksTyped, NEW p \in DOMAIN procs, SimplePrint(p)
  PROVE  ForksTyped'
<1> DEFINE me == procs[p]
           after == CASE me.at = "A"                -> "fork"
                     [] me.at = "B" /\ me.n < 0    -> "exit"
                     [] me.at = "B" /\ me.n = 0    -> "C"
                     [] me.at = "B" /\ me.n > 0    -> "D"
                     [] me.at \in {"C", "D"}       -> "E"
                     [] OTHER                      -> "exit"
           new == [me EXCEPT !.at = after]
<1>1. /\ me.at \in {"A", "B", "C", "D", "E"}
      /\ printf(p, me.at, new) /\ UNCHANGED <<run, tty, fork_failed>>
  BY Zenon DEF SimplePrint
<1>2. InRound(me, run, tty)
  BY DEF ForksTyped
<1>3. after \in {"fork", "exit", "C", "D", "E"}
  BY <1>1, <1>2 DEF InRound, AnyProcess
<1> HIDE DEF after
<1>4. me.at \in Letters /\ me.at \in AnyLine
  BY <1>1 DEF Letters, AnyLine
<1>5. /\ new \in AnyProcess /\ new.at = after /\ new.i = me.i /\ new.stdout = me.stdout
      /\ after \notin {"print", "wait"}
  BY <1>2, <1>3 DEF InRound, AnyProcess, Letters
<1> HIDE DEF new, me
<1>6. InRound(new, run, tty)
  BY <1>2, <1>4, <1>5, Zenon DEF InRound
<1> QED
  BY <1>1, <1>4, <1>6, PrintKeepsTyped, Zenon

LEMMA TestTyped ==
  ASSUME ForksTyped, NEW p \in DOMAIN procs, Test(p)
  PROVE  ForksTyped'
<1> DEFINE me == procs[p]
           goal == IF me.i = run.iterations THEN "exit" ELSE IF Forks(p) THEN "fork" ELSE "wait"
           new == [me EXCEPT !.at = goal]
<1>1. procs' = [procs EXCEPT ![p] = new] /\ UNCHANGED <<run, tty, out, fork_failed>>
  BY DEF Test
<1>2. InRound(me, run, tty) /\ run.iterations \in Nat
  BY ForksAssumption DEF ForksTyped
<1>3. goal \in {"exit", "fork", "wait"} /\ (goal # "exit" => me.i # run.iterations)
  BY Zenon
<1> HIDE DEF goal
<1>4. new \in AnyProcess /\ new.at = goal /\ new.i = me.i /\ new.stdout = me.stdout
  BY <1>2, <1>3 DEF InRound, AnyProcess
<1>5. goal # "exit" => me.i < run.iterations
  <2>1. me.i \in Nat /\ me.i <= run.iterations
    BY <1>2 DEF InRound, AnyProcess
  <2> QED
    BY <1>2, <1>3, <2>1
<1> HIDE DEF new, me
<1>6. InRound(new, run, tty)
  BY <1>2, <1>3, <1>4, <1>5 DEF InRound, Letters
<1>7. fork_failed' \in BOOLEAN /\ IsABag(out')
  BY <1>1 DEF ForksTyped
<1> QED
  BY <1>1, <1>6, <1>7, OneMoves, Zenon

LEMMA ForkTyped ==
  ASSUME ForksTyped, NEW p \in DOMAIN procs, Fork(p)
  PROVE  ForksTyped'
<1> DEFINE me == procs[p]
           child == Append(p, me.i)
           as(k) == [me EXCEPT !.at = AfterFork, !.n = k]
<1>1. /\ me.at = "fork"
      /\ procs' = [q \in DOMAIN procs \cup {child} |->
                     IF q = child THEN as(0) ELSE IF q = p THEN as(1) ELSE procs[q]]
      /\ run' = run /\ tty' = tty /\ out' = out /\ fork_failed' = fork_failed
  BY DEF Fork
<1>2. InRound(me, run, tty) /\ run.iterations \in Nat /\ p \in Seq(0 .. run.iterations)
  BY ForksAssumption DEF ForksTyped
<1>3. AfterFork \in {"B", "print"} /\ (AfterFork = "B" <=> run.program = "simplefork")
  BY DEF AfterFork
<1>4. child \in Seq(0 .. run.iterations)
  <2>1. me.i \in Nat /\ me.i <= run.iterations
    BY <1>2 DEF InRound, AnyProcess
  <2> QED
    BY <1>2, <2>1
<1>5. ASSUME NEW k \in {0, 1} PROVE InRound(as(k), run, tty)
  <2> DEFINE new == as(k)
  <2>1. new \in AnyProcess /\ new.at = AfterFork /\ new.i = me.i /\ new.stdout = me.stdout
    <3>1. me \in AnyProcess /\ k \in -1 .. 1
      BY <1>2 DEF InRound
    <3>2. AfterFork \in Letters \cup {"test", "fork", "print", "wait", "exit", "zombie", "reaped"}
      BY <1>3 DEF Letters
    <3> QED
      BY <3>1, <3>2, MovedWithN, Zenon
  <2>2. AfterFork # "B" => me.i < run.iterations
    BY <1>1, <1>2, <1>3, Zenon DEF InRound
  <2> HIDE DEF new, me
  <2>3. InRound(new, run, tty)
    BY <1>2, <1>3, <2>1, <2>2 DEF InRound, Letters
  <2> QED
    BY <2>3 DEF new
<1> HIDE DEF as, child, me
<1>6. /\ DOMAIN procs' = DOMAIN procs \cup {child}
      /\ \A q \in DOMAIN procs' :
           \/ q = child /\ procs'[q] = as(0)
           \/ q = p /\ procs'[q] = as(1)
           \/ q \in DOMAIN procs /\ procs'[q] = procs[q]
  BY <1>1
<1>7. ASSUME NEW q \in DOMAIN procs'
      PROVE  q \in Seq(0 .. run.iterations) /\ InRound(procs'[q], run, tty)
  <2>1. CASE q = child /\ procs'[q] = as(0)
    BY <1>4, <1>5, <2>1
  <2>2. CASE q = p /\ procs'[q] = as(1)
    BY <1>2, <1>5, <2>2
  <2>3. CASE q \in DOMAIN procs /\ procs'[q] = procs[q]
    BY <2>3, Zenon DEF ForksTyped
  <2> QED
    BY <1>6, <2>1, <2>2, <2>3, Zenon
<1>8. /\ run' \in Starts /\ tty' \in BOOLEAN /\ fork_failed' \in BOOLEAN /\ IsABag(out')
      /\ \A q \in DOMAIN procs' : q \in Seq(0 .. run'.iterations) /\ InRound(procs'[q], run', tty')
  BY <1>1, <1>7, Zenon DEF ForksTyped
<1> QED
  BY <1>8, Zenon DEF ForksTyped

LEMMA ForkFailsTyped ==
  ASSUME ForksTyped, NEW p \in DOMAIN procs, ForkFails(p)
  PROVE  ForksTyped'
<1> DEFINE me == procs[p]
           goal == IF run.program = "forkloop" THEN "exit" ELSE AfterFork
           new == [me EXCEPT !.at = goal, !.n = -1]
<1>1. /\ me.at = "fork" /\ procs' = [procs EXCEPT ![p] = new]
      /\ fork_failed' = TRUE /\ UNCHANGED <<run, tty, out>>
  BY DEF ForkFails
<1>2. InRound(me, run, tty)
  BY DEF ForksTyped
<1>3. /\ goal \in {"exit", "B", "print"}
      /\ goal = "B" => run.program = "simplefork"
      /\ goal = "print" => run.program # "simplefork"
  BY DEF AfterFork
<1> HIDE DEF goal
<1>4. new \in AnyProcess /\ new.at = goal /\ new.i = me.i /\ new.stdout = me.stdout
  <2>1. me \in AnyProcess /\ -1 \in -1 .. 1
    BY <1>2 DEF InRound
  <2>2. goal \in Letters \cup {"test", "fork", "print", "wait", "exit", "zombie", "reaped"}
    BY <1>3 DEF Letters
  <2> QED
    BY <2>1, <2>2, MovedWithN, Zenon
<1>5. goal = "print" => me.i < run.iterations
  BY <1>1, <1>2, <1>3, Zenon DEF InRound
<1> HIDE DEF new, me
<1>6. InRound(new, run, tty)
  BY <1>2, <1>3, <1>4, <1>5 DEF InRound, Letters
<1>7. fork_failed' \in BOOLEAN /\ IsABag(out')
  BY <1>1 DEF ForksTyped
<1> QED
  BY <1>1, <1>6, <1>7, OneMoves, Zenon

LEMMA PrintLineTyped ==
  ASSUME ForksTyped, NEW p \in DOMAIN procs, PrintLine(p)
  PROVE  ForksTyped'
<1> DEFINE me == procs[p]
           text_ == [pid |-> p, ppid |-> getppid(p), i |-> me.i]
           goal == IF me.n < 0 THEN "exit" ELSE "wait"
           after == IF Waiting THEN [me EXCEPT !.at = goal]
                   ELSE [me EXCEPT !.at = "test", !.i = @ + 1]
<1>1. /\ me.at = "print" /\ printf(p, text_, after) /\ UNCHANGED <<run, tty, fork_failed>>
  BY DEF PrintLine
<1>2. InRound(me, run, tty) /\ run.iterations \in Nat
  BY ForksAssumption DEF ForksTyped
<1>3. text_ \in AnyLine
  <2>1. me.i \in Int
    BY <1>2 DEF InRound, AnyProcess
  <2> QED
    BY <2>1, NamesTyped DEF AnyLine
<1> HIDE DEF text_
<1>4. goal \in {"exit", "wait"}
  BY Zenon
<1> HIDE DEF goal
<1>5. me \in AnyProcess /\ me.i \in Nat /\ me.i < run.iterations /\ (tty => me.stdout = <<>>)
  BY <1>1, <1>2 DEF InRound, AnyProcess
<1>6. InRound(after, run, tty)
  <2>1. CASE Waiting
    <3>1. /\ after = [me EXCEPT !.at = goal]
      BY <2>1
    <3>2. after \in AnyProcess /\ after.at = goal /\ after.i = me.i /\ after.stdout = me.stdout
      BY <1>4, <1>5, <3>1 DEF AnyProcess
    <3> HIDE DEF after, me
    <3> QED
      BY <1>2, <1>4, <1>5, <3>2 DEF InRound, Letters
  <2>2. CASE ~ Waiting
    <3>1. after = [me EXCEPT !.at = "test", !.i = @ + 1]
      BY <2>2, Zenon
    <3>2. after \in AnyProcess /\ after.at = "test" /\ after.i = me.i + 1 /\ after.stdout = me.stdout
      BY <1>5, <3>1, NextRound, Zenon
    <3> HIDE DEF after, me
    <3>3. after.i <= run.iterations
      BY <1>2, <1>5, <3>2
    <3> QED
      BY <1>2, <1>5, <3>2, <3>3 DEF InRound, Letters
  <2> QED
    BY <2>1, <2>2
<1> HIDE DEF after
<1> QED
  BY <1>1, <1>3, <1>6, PrintKeepsTyped, Zenon

LEMMA WaitTyped ==
  ASSUME ForksTyped, NEW p \in DOMAIN procs, Wait(p)
  PROVE  ForksTyped'
<1> DEFINE me == procs[p]
           new == [me EXCEPT !.at = "test", !.i = @ + 1]
           after == [procs EXCEPT ![p] = new]
<1>1. /\ me.at = "wait" /\ run' = run /\ tty' = tty /\ out' = out /\ fork_failed' = fork_failed
  BY DEF Wait
<1>2. \/ procs' = after
      \/ \E q \in Children(p) : procs[q].at = "zombie" /\ procs' = [after EXCEPT ![q].at = "reaped"]
  BY DEF Wait
<1>3. InRound(me, run, tty) /\ run.iterations \in Nat
  BY ForksAssumption DEF ForksTyped
<1>4. me \in AnyProcess /\ me.i \in Nat /\ me.i < run.iterations /\ (tty => me.stdout = <<>>)
  BY <1>1, <1>3 DEF InRound, AnyProcess
<1>5. InRound(new, run, tty)
  <2>1. new \in AnyProcess /\ new.at = "test" /\ new.i = me.i + 1 /\ new.stdout = me.stdout
    BY <1>4, NextRound, Zenon
  <2> HIDE DEF new, me
  <2>2. new.i <= run.iterations
    BY <1>3, <1>4, <2>1
  <2> QED
    BY <1>3, <1>4, <2>1, <2>2 DEF InRound, Letters
<1> HIDE DEF new
<1>6. ASSUME NEW q \in DOMAIN procs
      PROVE  after[q] = IF q = p THEN new ELSE procs[q]
  OBVIOUS
<1>7. ASSUME NEW q \in DOMAIN procs PROVE InRound(after[q], run, tty)
  BY <1>5, <1>6, Zenon DEF ForksTyped
<1>8. DOMAIN after = DOMAIN procs
  OBVIOUS
<1> HIDE DEF after, me
<1>9. ASSUME NEW x, InRound(x, run, tty)
      PROVE  InRound([x EXCEPT !.at = "reaped"], run, tty)
  <2> DEFINE gone == [x EXCEPT !.at = "reaped"]
  <2>1. x \in AnyProcess /\ x.i <= run.iterations /\ (tty => x.stdout = <<>>)
    BY <1>9, Zenon DEF InRound
  <2>2. gone \in AnyProcess /\ gone.at = "reaped" /\ gone.i = x.i /\ gone.stdout = x.stdout
    BY <2>1 DEF AnyProcess
  <2> HIDE DEF gone
  <2>3. InRound(gone, run, tty)
    BY <2>1, <2>2 DEF InRound, Letters
  <2> QED
    BY <2>3 DEF gone
<1>10. /\ DOMAIN procs' = DOMAIN procs
       /\ \A q \in DOMAIN procs : InRound(procs'[q], run, tty)
  <2>1. CASE procs' = after
    BY <1>7, <1>8, <2>1, Zenon
  <2>2. ASSUME NEW q \in Children(p), procs' = [after EXCEPT ![q].at = "reaped"]
        PROVE  /\ DOMAIN procs' = DOMAIN procs
               /\ \A r \in DOMAIN procs : InRound(procs'[r], run, tty)
    <3>1. DOMAIN procs' = DOMAIN procs /\ q \in DOMAIN procs
      BY <1>8, <2>2 DEF Children
    <3>2. ASSUME NEW r \in DOMAIN procs
          PROVE  procs'[r] = IF r = q THEN [after[q] EXCEPT !.at = "reaped"] ELSE after[r]
      BY <1>8, <2>2, <3>1
    <3>3. InRound([after[q] EXCEPT !.at = "reaped"], run, tty)
      BY <1>7, <1>9, <3>1
    <3> QED
      BY <1>7, <3>1, <3>2, <3>3, Zenon
  <2> QED
    BY <1>2, <2>1, <2>2
<1>11. /\ run' \in Starts /\ tty' \in BOOLEAN /\ fork_failed' \in BOOLEAN /\ IsABag(out')
       /\ \A q \in DOMAIN procs' : q \in Seq(0 .. run'.iterations) /\ InRound(procs'[q], run', tty')
  BY <1>1, <1>10, Zenon DEF ForksTyped
<1> QED
  BY <1>11, Zenon DEF ForksTyped

LEMMA ExitTyped ==
  ASSUME ForksTyped, NEW p \in DOMAIN procs, Exit(p)
  PROVE  ForksTyped'
<1> DEFINE me == procs[p]
           new == [me EXCEPT !.at = "zombie"]
<1>1. /\ procs' = [procs EXCEPT ![p] = new] /\ UNCHANGED <<run, tty, fork_failed>>
      /\ out' = out (+) ToBag(me.stdout)
  BY DEF Exit
<1>2. InRound(me, run, tty)
  BY DEF ForksTyped
<1>3. me.stdout \in Seq(AnyLine)
  BY <1>2 DEF InRound, AnyProcess
<1>4. IsABag(out')
  <2>1. IsABag(ToBag(me.stdout)) /\ IsABag(out)
    BY <1>3, BufferBag DEF ForksTyped
  <2> QED
    BY <1>1, <2>1, BagsTogether, Zenon
<1>5. new \in AnyProcess /\ new.at = "zombie" /\ new.i = me.i /\ new.stdout = me.stdout
  BY <1>2 DEF InRound, AnyProcess
<1> HIDE DEF new, me
<1>6. InRound(new, run, tty)
  BY <1>2, <1>5 DEF InRound, Letters
<1>7. fork_failed' \in BOOLEAN
  BY <1>1 DEF ForksTyped
<1> QED
  BY <1>1, <1>4, <1>6, <1>7, OneMoves, Zenon

LEMMA ForksTypedSteps == ForksTyped /\ [ForksNext]_forksVars => ForksTyped'
<1> SUFFICES ASSUME ForksTyped, [ForksNext]_forksVars PROVE ForksTyped'
  OBVIOUS
<1>1. CASE UNCHANGED forksVars
  BY <1>1 DEF forksVars, ForksTyped
<1>2. CASE ForksNext
  <2>1. PICK p \in DOMAIN procs : \/ SimplePrint(p) \/ Test(p) \/ Fork(p) \/ ForkFails(p)
                                  \/ PrintLine(p) \/ Wait(p) \/ Exit(p)
    BY <1>2 DEF ForksNext
  <2> QED
    BY <2>1, SimplePrintTyped, TestTyped, ForkTyped, ForkFailsTyped, PrintLineTyped,
       WaitTyped, ExitTyped, Zenon
<1> QED
  BY <1>1, <1>2

(* Every run of the exercises on fork is typed: no process goes on to a round that is not
   in the program, and on a terminal nothing stays in a buffer. *)
THEOREM ForksAlwaysTyped == ForksSpec => []ForksTypeOK
BY ForksTypedInit, ForksTypedSteps, ForksTypedOK, PTL DEF ForksSpec

--------------------------------------------------------------------------------
(* Sums of the values of a function, as SumFunction of the community modules adds them
   up: over a finite set, in the order in which CHOOSE takes its members. *)

Chosen(T) == CHOOSE x \in T : TRUE

IsSum(g, f, S) ==
  g = [T \in SUBSET S |-> IF T = {} THEN 0 ELSE f[Chosen(T)] + g[T \ {Chosen(T)}]]

Sums(f, S) == CHOOSE g : IsSum(g, f, S)

Summable(f, S) == IsFiniteSet(S) /\ \A x \in S : f[x] \in Nat

LEMMA SumFunctionIs ==
  ASSUME NEW f
  PROVE  SumFunction(f) = Sums(f, DOMAIN f)[DOMAIN f]
BY Zenon DEF SumFunction, SumFunctionOnSet, FoldFunctionOnSet, MapThenFoldSet, Sums, IsSum, Chosen

(* To take a member out of a finite set. *)
LEMMA OneTaken ==
  ASSUME NEW T, IsFiniteSet(T), NEW x \in T
  PROVE  /\ IsFiniteSet(T \ {x}) /\ Cardinality(T) \in Nat /\ Cardinality(T) # 0
         /\ Cardinality(T \ {x}) = Cardinality(T) - 1
<1>1. IsFiniteSet(T \ {x}) /\ Cardinality(T \ {x}) = IF x \in T THEN Cardinality(T) - 1 ELSE Cardinality(T)
  BY FS_RemoveElement, Zenon
<1>2. Cardinality(T) \in Nat /\ (Cardinality(T) = 0 <=> T = {})
  BY FS_CardinalityType, FS_EmptySet, Zenon
<1> QED
  BY <1>1, <1>2

(* Induction on the subsets of a finite set, for a set of them. *)
LEMMA AllSubsets ==
  ASSUME NEW S, IsFiniteSet(S), NEW P, \A T \in SUBSET S : (\A x \in T : T \ {x} \in P) => T \in P
  PROVE  \A T \in SUBSET S : T \in P
<1> DEFINE Small(n) == \A T \in SUBSET S : Cardinality(T) <= n => T \in P
           N == {n \in Nat : Small(n)}
<1>1. \A T \in SUBSET S : IsFiniteSet(T) /\ Cardinality(T) <= Cardinality(S)
  BY FS_Subset, Zenon
<1>2. \A T \in SUBSET S : Cardinality(T) \in Nat /\ (Cardinality(T) = 0 <=> T = {})
  BY <1>1, FS_CardinalityType, FS_EmptySet, Zenon
<1>3. 0 \in N
  <2>1. ASSUME NEW T \in SUBSET S, Cardinality(T) <= 0 PROVE T \in P
    <3>1. Cardinality(T) = 0
      BY <1>2, <2>1
    <3>2. T = {}
      BY <1>2, <3>1, Zenon
    <3> QED
      BY <3>2
  <2> QED
    BY <2>1, Zenon
<1>4. ASSUME NEW n \in N PROVE n + 1 \in N
  <2>1. n \in Nat /\ n + 1 \in Nat /\ Small(n)
    OBVIOUS
  <2>2. ASSUME NEW T \in SUBSET S, Cardinality(T) <= n + 1 PROVE T \in P
    <3>1. ASSUME NEW x \in T PROVE T \ {x} \in P
      <4>1. IsFiniteSet(T) /\ T \ {x} \in SUBSET S
        BY <1>1
      <4>2. Cardinality(T \ {x}) = Cardinality(T) - 1 /\ Cardinality(T) \in Nat
        BY <4>1, OneTaken, Zenon
      <4>3. Cardinality(T \ {x}) <= n
        BY <2>1, <2>2, <4>2
      <4> QED
        BY <2>1, <4>1, <4>3, Zenon
    <3> QED
      BY <3>1, Zenon
  <2> QED
    BY <2>1, <2>2, Zenon
<1>5. N = Nat
  <2>1. N \in SUBSET Nat
    OBVIOUS
  <2> HIDE DEF N
  <2> QED
    BY <1>3, <1>4, <2>1, AllNaturals, Zenon
<1>6. Small(Cardinality(S))
  <2>1. Cardinality(S) \in N
    BY <1>5, FS_CardinalityType, Zenon
  <2> QED
    BY <2>1
<1> QED
  BY <1>1, <1>6, Zenon

LEMMA Chooses == ASSUME NEW T, T # {} PROVE Chosen(T) \in T
  BY Zenon DEF Chosen

(* There is such a function: approximations that are right for sets of so many members. *)
LEMMA SumsThere ==
  ASSUME NEW f, NEW S, Summable(f, S)
  PROVE  IsSum(Sums(f, S), f, S) /\ Sums(f, S) \in [SUBSET S -> Nat]
<1> DEFINE V == [SUBSET S -> Nat]
           zero == [T \in SUBSET S |-> 0]
           better(g) == [T \in SUBSET S |-> IF T = {} THEN 0 ELSE f[Chosen(T)] + g[T \ {Chosen(T)}]]
           h == [x \in Nat \X V |-> better(x[2])]
<1>1. ASSUME NEW g \in V PROVE better(g) \in V
  <2>1. ASSUME NEW T \in SUBSET S
        PROVE  (IF T = {} THEN 0 ELSE f[Chosen(T)] + g[T \ {Chosen(T)}]) \in Nat
    <3>1. ASSUME T # {} PROVE f[Chosen(T)] + g[T \ {Chosen(T)}] \in Nat
      <4>1. Chosen(T) \in S /\ T \ {Chosen(T)} \in SUBSET S
        BY <3>1, Chooses
      <4>2. f[Chosen(T)] \in Nat /\ g[T \ {Chosen(T)}] \in Nat
        BY <4>1 DEF Summable
      <4> QED
        BY <4>2
    <3> QED
      BY <3>1
  <2> QED
    BY <2>1
<1>2. \A n \in Nat, g \in V : h[<<n, g>>] = better(g)
  OBVIOUS
<1>3. zero \in V
  OBVIOUS
<1> HIDE DEF zero
<1>4. h \in [Nat \X V -> V]
  <2> HIDE DEF V, better
  <2> QED
    BY <1>1
<1>5. Defines(V, zero, h)
  <2> HIDE DEF V, h
  <2> QED
    BY <1>3, <1>4, Zenon DEF Defines
<1>6. PICK F : Defined(F, V, zero, h)
  <2> HIDE DEF V, h
  <2> QED
    BY <1>5, Recursion, Zenon
<1>7. ASSUME NEW n \in Nat
      PROVE  F[n] \in V /\ F[n + 1] = better(F[n])
  <2>1. F[n] \in V /\ F[n + 1] = h[<<n, F[n]>>]
    <3> HIDE DEF V, h, better
    <3> QED
      BY <1>6 DEF Defined
  <2> HIDE DEF V, h, better
  <2> QED
    BY <1>2, <2>1, Zenon
<1> DEFINE Small(n) == \A T \in SUBSET S : Cardinality(T) <= n => F[n + 1][T] = F[n][T]
           N == {n \in Nat : Small(n)}
<1>8. 0 \in N
  <2>1. F[0 + 1] = better(F[0]) /\ F[0] = zero
    <3>1. F[0] = zero
      BY <1>6, Zenon DEF Defined
    <3> HIDE DEF better, V
    <3> QED
      BY <1>7, <3>1
  <2>2. ASSUME NEW T \in SUBSET S, Cardinality(T) <= 0 PROVE F[0 + 1][T] = F[0][T]
    <3>1. T = {}
      <4>1. IsFiniteSet(T)
        BY FS_Subset, Zenon DEF Summable
      <4>2. Cardinality(T) \in Nat /\ (Cardinality(T) = 0 <=> T = {})
        BY <4>1, FS_CardinalityType, FS_EmptySet, Zenon
      <4> QED
        BY <2>2, <4>2
    <3>2. better(F[0])[T] = 0
      BY <3>1
    <3>3. zero[T] = 0
      BY DEF zero
    <3> HIDE DEF better
    <3> QED
      BY <2>1, <3>2, <3>3, Zenon
  <2> QED
    BY <2>2, Zenon
<1>9. ASSUME NEW n \in N PROVE n + 1 \in N
  <2>1. n \in Nat /\ n + 1 \in Nat /\ Small(n)
    OBVIOUS
  <2>2. F[n + 1] = better(F[n]) /\ F[(n + 1) + 1] = better(F[n + 1])
    <3> HIDE DEF better, V
    <3> QED
      BY <1>7, <2>1
  <2>3. ASSUME NEW T \in SUBSET S, Cardinality(T) <= n + 1 PROVE F[(n + 1) + 1][T] = F[n + 1][T]
    <3>1. CASE T = {}
      <4>1. better(F[n])[T] = 0 /\ better(F[n + 1])[T] = 0
        BY <3>1
      <4> HIDE DEF better
      <4> QED
        BY <2>2, <4>1, Zenon
    <3>2. CASE T # {}
      <4> DEFINE e == Chosen(T)
      <4>1. e \in T /\ T \ {e} \in SUBSET S
        BY <3>2, Chooses
      <4>2. better(F[n])[T] = f[e] + F[n][T \ {e}] /\ better(F[n + 1])[T] = f[e] + F[n + 1][T \ {e}]
        BY <3>2
      <4> HIDE DEF better, e
      <4>3. IsFiniteSet(T)
        BY FS_Subset, Zenon DEF Summable
      <4>4. Cardinality(T \ {e}) = Cardinality(T) - 1 /\ Cardinality(T) \in Nat
        BY <4>1, <4>3, OneTaken, Zenon
      <4>5. Cardinality(T \ {e}) <= n
        BY <2>1, <2>3, <4>4
      <4>6. F[n + 1][T \ {e}] = F[n][T \ {e}]
        BY <2>1, <4>1, <4>5, Zenon
      <4> QED
        BY <2>2, <4>2, <4>6, Zenon
    <3> QED
      BY <3>1, <3>2
  <2> QED
    BY <2>1, <2>3, Zenon
<1>10. N = Nat
  <2>1. N \in SUBSET Nat
    OBVIOUS
  <2> HIDE DEF N
  <2> QED
    BY <1>8, <1>9, <2>1, AllNaturals, Zenon
<1> DEFINE c == Cardinality(S)
<1>11. c \in Nat
  BY FS_CardinalityType, Zenon DEF Summable
<1>12. ASSUME NEW T \in SUBSET S PROVE F[c + 1][T] = F[c][T]
  <2>1. Cardinality(T) <= c
    BY FS_Subset, Zenon DEF Summable
  <2>2. Small(c)
    BY <1>10, <1>11, Zenon
  <2> HIDE DEF c
  <2> QED
    BY <2>1, <2>2, Zenon
<1> HIDE DEF Small, N, c, h
<1>13. F[c] \in V /\ F[c + 1] = better(F[c])
  <2> HIDE DEF V, better
  <2> QED
    BY <1>7, <1>11, Zenon
<1>14. ASSUME NEW T \in SUBSET S
       PROVE  F[c][T] = IF T = {} THEN 0 ELSE f[Chosen(T)] + F[c][T \ {Chosen(T)}]
  <2>1. better(F[c])[T] = IF T = {} THEN 0 ELSE f[Chosen(T)] + F[c][T \ {Chosen(T)}]
    OBVIOUS
  <2> HIDE DEF better
  <2> QED
    BY <1>12, <1>13, <2>1, Zenon
<1>15. IsSum(F[c], f, S)
  <2> PICK g : g = F[c]
    OBVIOUS
  <2>1. g \in V /\ \A T \in SUBSET S : g[T] = IF T = {} THEN 0 ELSE f[Chosen(T)] + g[T \ {Chosen(T)}]
    <3> HIDE DEF V
    <3> QED
      BY <1>13, <1>14
  <2>2. IsSum(g, f, S)
    BY <2>1 DEF IsSum
  <2> QED
    BY <2>2
<1>16. IsSum(Sums(f, S), f, S)
  BY <1>15, Zenon DEF Sums
<1>17. ASSUME NEW T \in SUBSET S
       PROVE  Sums(f, S)[T] = IF T = {} THEN 0 ELSE f[Chosen(T)] + Sums(f, S)[T \ {Chosen(T)}]
  BY <1>16, Zenon DEF IsSum
<1> DEFINE P == {T \in SUBSET S : Sums(f, S)[T] \in Nat}
<1>18. \A T \in SUBSET S : T \in P
  <2>1. ASSUME NEW T \in SUBSET S, \A x \in T : T \ {x} \in P PROVE T \in P
    <3>1. CASE T = {}
      BY <1>17, <3>1
    <3>2. CASE T # {}
      <4>1. Chosen(T) \in T
        BY <3>2, Chooses
      <4>2. f[Chosen(T)] \in Nat /\ Sums(f, S)[T \ {Chosen(T)}] \in Nat
        BY <2>1, <4>1 DEF Summable
      <4>3. Sums(f, S)[T] = f[Chosen(T)] + Sums(f, S)[T \ {Chosen(T)}]
        BY <1>17, <3>2, Zenon
      <4> QED
        BY <4>2, <4>3
    <3> QED
      BY <3>1, <3>2
  <2>2. IsFiniteSet(S)
    BY DEF Summable
  <2> HIDE DEF P
  <2> QED
    BY <2>1, <2>2, AllSubsets, Zenon
<1>19. Sums(f, S) = [T \in SUBSET S |-> Sums(f, S)[T]]
  BY <1>16, Zenon DEF IsSum
<1>20. Sums(f, S) \in V
  <2> PICK g : g = Sums(f, S)
    OBVIOUS
  <2>1. g = [T \in SUBSET S |-> g[T]] /\ \A T \in SUBSET S : g[T] \in Nat
    BY <1>18, <1>19
  <2> QED
    BY <2>1
<1> QED
  BY <1>16, <1>20

Within(f, S, T) == Summable(f, S) /\ T \subseteq S

LEMMA SumAt ==
  ASSUME NEW f, NEW S, NEW T, Within(f, S, T)
  PROVE  /\ Sums(f, S)[T] \in Nat
         /\ T = {} => Sums(f, S)[T] = 0
         /\ T # {} => Sums(f, S)[T] = f[Chosen(T)] + Sums(f, S)[T \ {Chosen(T)}]
<1> USE DEF Within
<1>1. IsSum(Sums(f, S), f, S) /\ Sums(f, S) \in [SUBSET S -> Nat]
  BY SumsThere, Zenon
<1>2. Sums(f, S)[T] \in Nat
  BY <1>1
<1>3. Sums(f, S)[T] = IF T = {} THEN 0 ELSE f[Chosen(T)] + Sums(f, S)[T \ {Chosen(T)}]
  BY <1>1, Zenon DEF IsSum
<1> QED
  BY <1>2, <1>3, Zenon

LEMMA SumOfNone ==
  ASSUME NEW f, NEW S, NEW T, Within(f, S, T), T = {}
  PROVE  Sums(f, S)[T] = 0
BY SumAt

(* Any member may be taken first. *)
LEMMA SumTakes ==
  ASSUME NEW f, NEW S, NEW U, Within(f, S, U)
  PROVE  \A x \in U : Sums(f, S)[U] = f[x] + Sums(f, S)[U \ {x}]
<1>0. Summable(f, S) /\ U \in SUBSET S
  BY DEF Within
<1> DEFINE g == Sums(f, S)
           P == {T \in SUBSET S : \A x \in T : g[T] = f[x] + g[T \ {x}]}
<1>1. ASSUME NEW T \in SUBSET S PROVE g[T] \in Nat
  <2>1. Within(f, S, T)
    BY <1>0 DEF Within
  <2> QED
    BY <2>1, SumAt, Zenon
<1>2. ASSUME NEW T \in SUBSET S, T # {} PROVE g[T] = f[Chosen(T)] + g[T \ {Chosen(T)}]
  <2>1. Within(f, S, T)
    BY <1>0 DEF Within
  <2> QED
    BY <1>2, <2>1, SumAt
<1>3. \A x \in S : f[x] \in Nat
  BY <1>0 DEF Summable
<1> HIDE DEF g
<1>4. ASSUME NEW T \in SUBSET S, \A x \in T : T \ {x} \in P PROVE T \in P
  <2>1. ASSUME NEW x \in T PROVE g[T] = f[x] + g[T \ {x}]
    <3> DEFINE e == Chosen(T)
    <3>1. e \in T /\ g[T] = f[e] + g[T \ {e}]
      BY <1>2, Chooses, Zenon
    <3> HIDE DEF e
    <3>2. CASE x = e
      BY <3>1, <3>2
    <3>3. CASE x # e
      <4>1. T \ {e} \in P /\ T \ {x} \in P /\ x \in T \ {e} /\ e \in T \ {x}
        BY <1>4, <3>1, <3>3
      <4>2. g[T \ {e}] = f[x] + g[(T \ {e}) \ {x}] /\ g[T \ {x}] = f[e] + g[(T \ {x}) \ {e}]
        BY <4>1
      <4>3. (T \ {e}) \ {x} = (T \ {x}) \ {e} /\ (T \ {e}) \ {x} \in SUBSET S
        OBVIOUS
      <4> PICK rest : rest = g[(T \ {e}) \ {x}]
        OBVIOUS
      <4>4. rest \in Nat /\ f[x] \in Nat /\ f[e] \in Nat
        BY <1>1, <1>3, <3>1, <4>3
      <4>5. g[T] = f[e] + (f[x] + rest) /\ g[T \ {x}] = f[e] + rest
        BY <3>1, <4>2, <4>3, Zenon
      <4> QED
        BY <4>4, <4>5
    <3> QED
      BY <3>2, <3>3
  <2> QED
    BY <2>1, Zenon
<1>5. \A T \in SUBSET S : T \in P
  <2>1. IsFiniteSet(S)
    BY <1>0 DEF Summable
  <2> HIDE DEF P
  <2> QED
    BY <1>4, <2>1, AllSubsets, Zenon
<1> QED
  BY <1>0, <1>5, Zenon DEF g

(* What is summed up depends on nothing else. *)
Agree(f, g, T) == \A x \in T : f[x] = g[x]

Alike(f, S, g, R, D) ==
  Summable(f, S) /\ Summable(g, R) /\ D \subseteq S /\ D \subseteq R /\ Agree(f, g, D)

LEMMA SumSame ==
  ASSUME NEW f, NEW S, NEW g, NEW R, NEW D, Alike(f, S, g, R, D)
  PROVE  Sums(f, S)[D] = Sums(g, R)[D]
<1> USE DEF Alike
<1> DEFINE P == {T \in SUBSET D : Sums(f, S)[T] = Sums(g, R)[T]}
<1>1. ASSUME NEW T \in SUBSET D, \A x \in T : T \ {x} \in P PROVE T \in P
  <2>1. Within(f, S, T)
    BY DEF Within
  <2>2. Within(g, R, T)
    BY DEF Within
  <2>3. CASE T = {}
    <3>1. Sums(f, S)[T] = 0 /\ Sums(g, R)[T] = 0
      BY <2>1, <2>2, <2>3, SumOfNone
    <3> QED
      BY <3>1
  <2>4. CASE T # {}
    <3>1. Chosen(T) \in T
      BY <2>4, Chooses
    <3>2. f[Chosen(T)] = g[Chosen(T)] /\ Sums(f, S)[T \ {Chosen(T)}] = Sums(g, R)[T \ {Chosen(T)}]
      BY <1>1, <3>1 DEF Agree
    <3>3. Sums(f, S)[T] = f[Chosen(T)] + Sums(f, S)[T \ {Chosen(T)}]
      BY <2>1, <3>1, SumTakes
    <3>4. Sums(g, R)[T] = g[Chosen(T)] + Sums(g, R)[T \ {Chosen(T)}]
      BY <2>2, <3>1, SumTakes
    <3> QED
      BY <3>2, <3>3, <3>4
  <2> QED
    BY <2>3, <2>4
<1>2. \A T \in SUBSET D : T \in P
  <2>1. IsFiniteSet(D)
    BY FS_Subset, Zenon DEF Summable
  <2> HIDE DEF P
  <2> QED
    BY <1>1, <2>1, AllSubsets, Zenon
<1> QED
  BY <1>2

(* A function with one value more, or another one in its place. *)
ValueAt(f, x) == IF x \in DOMAIN f THEN f[x] ELSE 0

OneDiffers(f, g, x) ==
  /\ Summable(f, DOMAIN f) /\ Summable(g, DOMAIN g)
  /\ DOMAIN g = DOMAIN f \cup {x} /\ Agree(f, g, DOMAIN f \ {x})

LEMMA SumChanges ==
  ASSUME NEW f, NEW g, NEW x, OneDiffers(f, g, x)
  PROVE  /\ SumFunction(f) \in Nat /\ SumFunction(g) \in Nat
         /\ ValueAt(f, x) \in Nat /\ g[x] \in Nat
         /\ SumFunction(g) + ValueAt(f, x) = SumFunction(f) + g[x]
<1> DEFINE S == DOMAIN f
           R == DOMAIN g
           D == S \ {x}
<1>1. /\ Summable(f, S) /\ Summable(g, R) /\ R = S \cup {x} /\ Agree(f, g, D)
      /\ D \in SUBSET S /\ D \in SUBSET R /\ S \in SUBSET S /\ R \in SUBSET R
      /\ x \in R /\ R \ {x} = D /\ (x \notin S => S = D)
  BY DEF OneDiffers
<1>2. SumFunction(f) = Sums(f, S)[S] /\ SumFunction(g) = Sums(g, R)[R]
  BY SumFunctionIs, Zenon
<1> HIDE DEF S, R, D
<1>3. PICK rest : rest = Sums(f, S)[D]
  OBVIOUS
<1>4. rest = Sums(g, R)[D]
  <2>1. Alike(f, S, g, R, D)
    BY <1>1 DEF Alike
  <2> QED
    BY <1>3, <2>1, SumSame
<1>9. Within(f, S, S) /\ Within(f, S, D) /\ Within(g, R, R)
  BY <1>1 DEF Within
<1>5. Sums(g, R)[R] = g[x] + rest
  BY <1>1, <1>4, <1>9, SumTakes
<1>6. Sums(f, S)[S] = ValueAt(f, x) + rest
  <2>1. rest \in Nat
    BY <1>3, <1>9, SumAt, Zenon
  <2>2. CASE x \in S
    <3>1. Sums(f, S)[S] = f[x] + rest
      BY <1>3, <1>9, <2>2, SumTakes DEF D
    <3> QED
      BY <2>2, <3>1 DEF ValueAt, S
  <2>3. CASE x \notin S
    <3>1. ValueAt(f, x) = 0
      BY <2>3, Zenon DEF ValueAt, S
    <3> QED
      BY <1>1, <1>3, <2>1, <2>3, <3>1
  <2> QED
    BY <2>2, <2>3
<1>7. rest \in Nat /\ g[x] \in Nat
  BY <1>1, <1>3, <1>9, SumAt, Zenon DEF Summable
<1>8. ValueAt(f, x) \in Nat
  BY <1>1 DEF Summable, ValueAt, S
<1> QED
  BY <1>2, <1>5, <1>6, <1>7, <1>8

(* Nothing adds up to nothing. *)
LEMMA SumOfNothing ==
  ASSUME NEW f, IsFiniteSet(DOMAIN f), \A x \in DOMAIN f : f[x] = 0
  PROVE  SumFunction(f) = 0
<1> DEFINE S == DOMAIN f
           P == {T \in SUBSET S : Sums(f, S)[T] = 0}
<1>1. Summable(f, S)
  BY DEF Summable
<1>2. SumFunction(f) = Sums(f, S)[S]
  BY SumFunctionIs, Zenon
<1>3. ASSUME NEW T \in SUBSET S, \A x \in T : T \ {x} \in P PROVE T \in P
  <2>1. Within(f, S, T)
    BY <1>1 DEF Within
  <2>2. CASE T = {}
    <3>1. Sums(f, S)[T] = 0
      BY <2>1, <2>2, SumAt
    <3> QED
      BY <3>1
  <2>3. CASE T # {}
    <3>1. Chosen(T) \in T
      BY <2>3, Chooses
    <3>2. f[Chosen(T)] = 0 /\ Sums(f, S)[T \ {Chosen(T)}] = 0
      BY <1>3, <3>1
    <3>3. Sums(f, S)[T] = f[Chosen(T)] + Sums(f, S)[T \ {Chosen(T)}]
      BY <2>1, <2>3, SumAt
    <3> QED
      BY <3>2, <3>3
  <2> QED
    BY <2>2, <2>3
<1>4. \A T \in SUBSET S : T \in P
  <2> HIDE DEF P
  <2> QED
    BY <1>3, AllSubsets, Zenon
<1> QED
  BY <1>2, <1>4

--------------------------------------------------------------------------------
(* How many lines there are in a bag of lines. *)

FiniteBag(b) == IsABag(b) /\ IsFiniteSet(DOMAIN b)

(* One line more. *)
OneAdded(b, c, x) ==
  /\ FiniteBag(b) /\ FiniteBag(c) /\ DOMAIN c = DOMAIN b \cup {x}
  /\ Agree(b, c, DOMAIN b \ {x}) /\ c[x] = ValueAt(b, x) + 1

LEMMA OneLineAdded ==
  ASSUME NEW b, NEW c, NEW x, OneAdded(b, c, x)
  PROVE  SumFunction(b) \in Nat /\ SumFunction(c) = SumFunction(b) + 1
<1>1. OneDiffers(b, c, x)
  BY DEF OneAdded, FiniteBag, IsABag, OneDiffers, Summable
<1>2. /\ SumFunction(b) \in Nat /\ SumFunction(c) \in Nat /\ ValueAt(b, x) \in Nat
      /\ SumFunction(c) + ValueAt(b, x) = SumFunction(b) + c[x]
  BY <1>1, SumChanges, Zenon
<1>3. c[x] = ValueAt(b, x) + 1
  BY DEF OneAdded
<1> QED
  BY <1>2, <1>3

LEMMA BagGrows ==
  ASSUME NEW b, NEW x, FiniteBag(b)
  PROVE  /\ FiniteBag(b (+) SetToBag({x}))
         /\ SumFunction(b) \in Nat /\ SumFunction(b (+) SetToBag({x})) = SumFunction(b) + 1
<1> DEFINE c == b (+) SetToBag({x})
<1>1. /\ c = [e \in DOMAIN b \cup DOMAIN SetToBag({x}) |->
                (IF e \in DOMAIN b THEN b[e] ELSE 0)
                  + (IF e \in DOMAIN SetToBag({x}) THEN SetToBag({x})[e] ELSE 0)]
  BY Zenon DEF (+)
<1>2. DOMAIN SetToBag({x}) = {x} /\ SetToBag({x})[x] = 1
  BY DEF SetToBag
<1>3. IsABag(c)
  BY OneLineBag, BagsTogether, Zenon DEF FiniteBag
<1>4. /\ DOMAIN c = DOMAIN b \cup {x}
      /\ \A e \in DOMAIN b \cup {x} :
           c[e] = (IF e \in DOMAIN b THEN b[e] ELSE 0) + (IF e = x THEN 1 ELSE 0)
  BY <1>1, <1>2
<1> HIDE DEF c
<1>5. \A e \in DOMAIN b : b[e] \in Nat
  BY DEF FiniteBag, IsABag
<1>6. c[x] = ValueAt(b, x) + 1
  BY <1>4, <1>5 DEF ValueAt
<1>7. Agree(b, c, DOMAIN b \ {x})
  BY <1>4, <1>5 DEF Agree
<1>8. IsFiniteSet(DOMAIN c)
  BY <1>4, FS_AddElement, Zenon DEF FiniteBag
<1>9. OneAdded(b, c, x)
  BY <1>3, <1>4, <1>6, <1>7, <1>8, Zenon DEF OneAdded, FiniteBag
<1>10. SumFunction(b) \in Nat /\ SumFunction(c) = SumFunction(b) + 1
  BY <1>9, OneLineAdded, Zenon
<1> QED
  BY <1>3, <1>8, <1>10, Zenon DEF FiniteBag, c

(* The bag b with the first k lines of the buffer s. *)
Among(s, k) == {s[i] : i \in 1 .. k}

Times(s, k, x) == Cardinality({i \in 1 .. k : s[i] = x})

WithLines(b, s, k) == [x \in DOMAIN b \cup Among(s, k) |-> ValueAt(b, x) + Times(s, k, x)]

LEMMA TimesGrow ==
  ASSUME NEW s, NEW k \in Nat, NEW x
  PROVE  /\ Times(s, 0, x) = 0 /\ Times(s, k, x) \in Nat
         /\ Times(s, k + 1, x) = Times(s, k, x) + (IF s[k + 1] = x THEN 1 ELSE 0)
         /\ x \in Among(s, k) <=> Times(s, k, x) # 0
<1> DEFINE I(n) == {i \in 1 .. n : s[i] = x}
<1>1. \A n \in Nat : IsFiniteSet(I(n))
  <2> SUFFICES ASSUME NEW n \in Nat PROVE IsFiniteSet(I(n))
    OBVIOUS
  <2>1. 1 \in Int /\ n \in Int
    OBVIOUS
  <2>2. IsFiniteSet(1 .. n)
    BY <2>1, FS_Interval, Zenon
  <2>3. I(n) \subseteq 1 .. n
    OBVIOUS
  <2> QED
    BY <2>2, <2>3, FS_Subset, Zenon
<1>2. \A n \in Nat : Cardinality(I(n)) \in Nat /\ (Cardinality(I(n)) = 0 <=> I(n) = {})
  <2> HIDE DEF I
  <2> QED
    BY <1>1, FS_CardinalityType, FS_EmptySet, Zenon
<1>3. I(0) = {} /\ 0 \in Nat
  OBVIOUS
<1>4. Times(s, 0, x) = 0
  BY <1>2, <1>3, Zenon DEF Times
<1>5. CASE s[k + 1] = x
  <2>1. I(k + 1) = I(k) \cup {k + 1} /\ k + 1 \notin I(k)
    BY <1>5
  <2> HIDE DEF I
  <2>2. Cardinality(I(k + 1)) = Cardinality(I(k)) + 1
    BY <1>1, <2>1, FS_AddElement
  <2> QED
    BY <1>2, <1>4, <1>5, <2>2 DEF Times, Among, I
<1>6. CASE s[k + 1] # x
  <2>1. I(k + 1) = I(k)
    BY <1>6
  <2>2. x \in Among(s, k) <=> I(k) # {}
    BY DEF Among
  <2>3. Times(s, k + 1, x) = Times(s, k, x)
    BY <2>1, Zenon DEF Times
  <2>4. Times(s, k, x) \in Nat /\ (x \in Among(s, k) <=> Times(s, k, x) # 0)
    BY <1>2, <2>2, Zenon DEF Times
  <2> QED
    BY <1>4, <1>6, <2>3, <2>4
<1> QED
  BY <1>5, <1>6

LEMMA LinesAdd ==
  ASSUME NEW b, FiniteBag(b), NEW s
  PROVE  \A k \in Nat :
           FiniteBag(WithLines(b, s, k))
             /\ SumFunction(WithLines(b, s, k)) = SumFunction(b) + k
<1> DEFINE with(k) == WithLines(b, s, k)
           S == {k \in Nat : FiniteBag(with(k)) /\ SumFunction(with(k)) = SumFunction(b) + k}
<1>1. \A e \in DOMAIN b : b[e] \in Nat /\ b[e] > 0
  BY DEF FiniteBag, IsABag
<1>2. SumFunction(b) \in Nat
  BY BagGrows, Zenon
<1>6. \A k \in Nat : \A e :
        /\ Times(s, k + 1, e) = Times(s, k, e) + (IF s[k + 1] = e THEN 1 ELSE 0)
        /\ Times(s, k, e) \in Nat /\ (e \in Among(s, k) <=> Times(s, k, e) # 0)
  BY TimesGrow
<1>3. 0 \in S
  <2>1. DOMAIN with(0) = DOMAIN b /\ \A e \in DOMAIN b : with(0)[e] = b[e]
    <3>1. Among(s, 0) = {}
      BY DEF Among
    <3>2. \A e : Times(s, 0, e) = 0
      BY TimesGrow, Zenon
    <3> QED
      BY <1>1, <3>1, <3>2 DEF WithLines, ValueAt
  <2>2. b = [e \in DOMAIN b |-> b[e]] /\ with(0) = [e \in DOMAIN with(0) |-> with(0)[e]]
    BY DEF FiniteBag, IsABag, WithLines
  <2>3. with(0) = b
    BY <2>1, <2>2
  <2> QED
    BY <1>2, <2>3
<1>4. ASSUME NEW k \in S PROVE k + 1 \in S
  <2>1. k \in Nat /\ k + 1 \in Nat /\ FiniteBag(with(k)) /\ SumFunction(with(k)) = SumFunction(b) + k
    OBVIOUS
  <2> DEFINE x == s[k + 1]
  <2>2. Among(s, k + 1) = Among(s, k) \cup {x}
    <3>1. 1 .. k + 1 = (1 .. k) \cup {k + 1}
      BY <2>1
    <3> QED
      BY <3>1 DEF Among
  <2>0. ASSUME NEW e
        PROVE  /\ Times(s, k + 1, e) = Times(s, k, e) + (IF x = e THEN 1 ELSE 0)
               /\ Times(s, k, e) \in Nat /\ (e \in Among(s, k) <=> Times(s, k, e) # 0)
    BY <1>6, <2>1
  <2>3. \A e : Times(s, k + 1, e) = Times(s, k, e) + (IF x = e THEN 1 ELSE 0)
    BY <2>0, Zenon
  <2>4. \A e : Times(s, k, e) \in Nat /\ (e \in Among(s, k) <=> Times(s, k, e) # 0)
    BY <2>0, Zenon
  <2>5. \A e : ValueAt(b, e) \in Nat /\ (e \in DOMAIN b => ValueAt(b, e) > 0)
    BY <1>1 DEF ValueAt
  <2> HIDE DEF x
  <2>6. DOMAIN with(k + 1) = DOMAIN with(k) \cup {x}
    BY <2>2 DEF WithLines
  <2>7. \A e \in DOMAIN with(k + 1) : with(k + 1)[e] = ValueAt(b, e) + Times(s, k + 1, e)
    BY DEF WithLines
  <2>8. \A e \in DOMAIN with(k) : with(k)[e] = ValueAt(b, e) + Times(s, k, e)
    BY DEF WithLines
  <2>9. DOMAIN with(k) = DOMAIN b \cup Among(s, k)
    BY DEF WithLines
  <2>10. with(k + 1) = [e \in DOMAIN with(k + 1) |-> with(k + 1)[e]]
    BY DEF WithLines
  <2> HIDE DEF with
  <2>11. Agree(with(k), with(k + 1), DOMAIN with(k) \ {x})
    <3> SUFFICES ASSUME NEW e \in DOMAIN with(k), e # x PROVE with(k)[e] = with(k + 1)[e]
      BY DEF Agree
    <3>1. Times(s, k + 1, e) = Times(s, k, e)
      BY <2>3, <2>4
    <3> QED
      BY <2>6, <2>7, <2>8, <3>1
  <2>12. with(k + 1)[x] = ValueAt(with(k), x) + 1
    <3>1. with(k + 1)[x] = ValueAt(b, x) + (Times(s, k, x) + 1)
      BY <2>3, <2>6, <2>7
    <3>2. CASE x \in DOMAIN with(k)
      <4>1. ValueAt(with(k), x) = ValueAt(b, x) + Times(s, k, x)
        BY <2>8, <3>2 DEF ValueAt
      <4> QED
        BY <2>4, <2>5, <3>1, <4>1
    <3>3. CASE x \notin DOMAIN with(k)
      <4>1. ValueAt(with(k), x) = 0 /\ ValueAt(b, x) = 0 /\ Times(s, k, x) = 0
        BY <2>4, <2>9, <3>3 DEF ValueAt
      <4> QED
        BY <3>1, <4>1
    <3> QED
      BY <3>2, <3>3
  <2>13. FiniteBag(with(k + 1))
    <3>0. IsFiniteSet(DOMAIN with(k))
      BY <2>1, Zenon DEF FiniteBag
    <3>1. IsFiniteSet(DOMAIN with(k + 1))
      BY <2>6, <3>0, FS_AddElement
    <3>2. ASSUME NEW e \in DOMAIN with(k + 1) PROVE with(k + 1)[e] \in {n \in Nat : n > 0}
      <4>1. CASE e = x
        <5>1. Times(s, k + 1, e) = Times(s, k, e) + 1
          BY <2>3, <4>1
        <5> QED
          BY <2>4, <2>5, <2>7, <5>1
      <4>2. CASE e # x
        <5>1. e \in DOMAIN b \cup Among(s, k) /\ Times(s, k + 1, e) = Times(s, k, e)
          BY <2>3, <2>4, <2>6, <2>9, <4>2
        <5> QED
          BY <2>4, <2>5, <2>7, <5>1
      <4> QED
        BY <4>1, <4>2
    <3> QED
      BY <2>10, <3>1, <3>2 DEF FiniteBag, IsABag
  <2>14. OneAdded(with(k), with(k + 1), x)
    BY <2>1, <2>6, <2>11, <2>12, <2>13, Zenon DEF OneAdded
  <2>15. SumFunction(with(k + 1)) = SumFunction(with(k)) + 1
    BY <2>14, OneLineAdded, Zenon
  <2> QED
    BY <1>2, <2>1, <2>13, <2>15
<1>5. S = Nat
  <2>1. S \in SUBSET Nat
    OBVIOUS
  <2> HIDE DEF S
  <2> QED
    BY <1>3, <1>4, <2>1, AllNaturals, Zenon
<1> QED
  BY <1>5, Zenon

LEMMA BufferAdds ==
  ASSUME NEW b, FiniteBag(b), NEW T, NEW s \in Seq(T)
  PROVE  /\ FiniteBag(b (+) ToBag(s))
         /\ SumFunction(b) \in Nat /\ SumFunction(b (+) ToBag(s)) = SumFunction(b) + Len(s)
<1>1. Len(s) \in Nat /\ DOMAIN s = 1 .. Len(s)
  OBVIOUS
<1>2. DOMAIN ToBag(s) = Among(s, Len(s))
  BY <1>1 DEF ToBag, Range, Among
<1>3. \A e \in DOMAIN ToBag(s) : ToBag(s)[e] = Times(s, Len(s), e)
  BY <1>1 DEF ToBag, Times
<1>4. \A e : e \notin DOMAIN ToBag(s) => Times(s, Len(s), e) = 0
  BY <1>1, <1>2, TimesGrow, Zenon
<1> DEFINE more(e) == IF e \in DOMAIN ToBag(s) THEN ToBag(s)[e] ELSE 0
<1>5. \A e : more(e) = Times(s, Len(s), e)
  BY <1>3, <1>4, Zenon
<1>6. b (+) ToBag(s) = [e \in DOMAIN b \cup DOMAIN ToBag(s) |-> ValueAt(b, e) + more(e)]
  BY Zenon DEF (+), ValueAt
<1> HIDE DEF more
<1>7. b (+) ToBag(s) = WithLines(b, s, Len(s))
  BY <1>2, <1>5, <1>6 DEF WithLines
<1>8. SumFunction(b) \in Nat
  BY BagGrows, Zenon
<1> QED
  BY <1>1, <1>7, <1>8, LinesAdd, Zenon

LEMMA PowersOfTwo ==
  /\ twoTo \in [Nat -> Nat \ {0}]
  /\ twoTo[0] = 1
  /\ \A k \in Nat : twoTo[k + 1] = 2 * twoTo[k]
<1>1. twoTo = CHOOSE f : IsGeometric(f, 2)
  BY Zenon DEF twoTo, IsGeometric
<1>2. 2 \in Nat \ {0}
  OBVIOUS
<1> QED
  BY <1>1, <1>2, Geometric, Zenon

--------------------------------------------------------------------------------
(* Forks: the number of lines. *)

(* How many lines are still to be written by a process that has b lines in its buffer and m
   rounds before it, and by those that it forks: in forkloop, and in the programs that
   wait by the one process that goes on forking, itself or its child. *)
LoopLines(b, m, terminal) ==
  IF terminal THEN 2 * (twoTo[m] - 1) ELSE m * twoTo[m] + b * twoTo[m]

WaitLines(b, m, terminal) ==
  IF terminal THEN 2 * m ELSE b + m + m * b + (m * (m + 1)) \div 2

(* Who is meant to fork in round k, as ForksIn says it. *)
GoesOn(p, k, what) ==
  IF what.program = "parentcreates" THEN p = <<>>
  ELSE (p = <<>> /\ k = 0) \/ (p = <<0>> /\ k > 0)

ToCome(p, b, i, what, terminal) ==
  IF what.program = "forkloop" THEN LoopLines(b, what.iterations - i, terminal)
  ELSE IF GoesOn(p, i, what) THEN WaitLines(b, what.iterations - i, terminal) ELSE b

Printing(p, b, i, what, terminal) ==
  IF terminal THEN 1 + ToCome(p, b, i, what, terminal) ELSE ToCome(p, b + 1, i, what, terminal)

(* The same for a process anywhere in its program. *)
Due(p, me, what, terminal) ==
  LET b == Len(me.stdout) IN
    CASE me.at \in {"zombie", "reaped"} -> 0
      [] me.at = "exit"                 -> b
      [] me.at = "A"                    -> IF terminal THEN 7 ELSE 2 * (b + 4)
      [] me.at = "fork" /\ what.program = "simplefork" -> 2 * (b + 3)
      [] me.at = "B"                    -> b + 3
      [] me.at \in {"C", "D"}           -> b + 2
      [] me.at = "E"                    -> b + 1
      [] me.at = "print"                -> Printing(p, b, me.i + 1, what, terminal)
      [] me.at = "wait"                 -> ToCome(p, b, me.i + 1, what, terminal)
      [] OTHER                          -> ToCome(p, b, me.i, what, terminal)

LEMMA LoopUnrolls ==
  ASSUME NEW b \in Nat, NEW m \in Nat, NEW terminal \in BOOLEAN
  PROVE  /\ LoopLines(b, m, terminal) \in Nat
         /\ LoopLines(b, 0, terminal) = IF terminal THEN 0 ELSE b
         /\ LoopLines(b, m + 1, terminal) =
              IF terminal THEN 2 * (1 + LoopLines(b, m, terminal))
              ELSE 2 * LoopLines(b + 1, m, terminal)
<1>1. PICK t : t = twoTo[m]
  OBVIOUS
<1>2. t \in Nat \ {0} /\ twoTo[m + 1] = 2 * t /\ twoTo[0] = 1
  BY <1>1, PowersOfTwo
<1>3. m * t \in Nat /\ b * t \in Nat
  BY <1>2
<1>4. (m + 1) * (2 * t) = 2 * (m * t) + 2 * t /\ b * (2 * t) = 2 * (b * t)
      /\ (b + 1) * t = b * t + t
  BY <1>2
<1> QED
  BY <1>1, <1>2, <1>3, <1>4 DEF LoopLines

LEMMA WaitUnrolls ==
  ASSUME NEW b \in Nat, NEW m \in Nat, NEW terminal \in BOOLEAN
  PROVE  /\ WaitLines(b, m, terminal) \in Nat
         /\ WaitLines(b, 0, terminal) = IF terminal THEN 0 ELSE b
         /\ WaitLines(b, m + 1, terminal) =
              IF terminal THEN 2 + WaitLines(b, m, terminal)
              ELSE (b + 1) + WaitLines(b + 1, m, terminal)
<1>1. PICK x : x = m * (m + 1)
  OBVIOUS
<1>2. x \in Nat /\ (m + 1) * ((m + 1) + 1) = x + 2 * (m + 1) /\ 0 * (0 + 1) = 0
  BY <1>1
<1>3. (x + 2 * (m + 1)) \div 2 = x \div 2 + (m + 1) /\ x \div 2 \in Nat
  BY <1>2
<1>4. (m + 1) * b = m * b + b /\ m * (b + 1) = m * b + m /\ m * b \in Nat /\ 0 * b = 0
  OBVIOUS
<1>5. ((m + 1) * ((m + 1) + 1)) \div 2 = (m * (m + 1)) \div 2 + (m + 1)
  BY <1>1, <1>2, <1>3, Zenon
<1>6. (m * (m + 1)) \div 2 \in Nat
  BY <1>1, <1>3, Zenon
<1>7. (0 * (0 + 1)) \div 2 = 0
  OBVIOUS
<1>8. CASE terminal
  BY <1>8 DEF WaitLines
<1>9. CASE ~ terminal
  <2>1. PICK s : s = (m * (m + 1)) \div 2
    OBVIOUS
  <2>2. PICK z : z = m * b
    OBVIOUS
  <2>3. s \in Nat /\ z \in Nat
    BY <1>4, <1>6, <2>1, <2>2, Zenon
  <2>4. WaitLines(b, m, terminal) = b + m + z + s
    BY <1>9, <2>1, <2>2, Zenon DEF WaitLines
  <2>5. WaitLines(b, m + 1, terminal) = b + (m + 1) + (z + b) + (s + (m + 1))
    BY <1>4, <1>5, <1>9, <2>1, <2>2, Zenon DEF WaitLines
  <2>6. WaitLines(b + 1, m, terminal) = (b + 1) + m + (z + m) + s
    BY <1>4, <1>9, <2>1, <2>2, Zenon DEF WaitLines
  <2>7. WaitLines(b, 0, terminal) = b
    BY <1>4, <1>7, <1>9 DEF WaitLines
  <2> QED
    BY <1>9, <2>3, <2>4, <2>5, <2>6, <2>7
<1> QED
  BY <1>8, <1>9

(* A round i of a program that has rounds, and a process with b lines in its buffer there. *)
AtRound(b, i, what, terminal) ==
  /\ what \in [program : Programs, iterations : Nat] /\ terminal \in BOOLEAN
  /\ b \in Nat /\ i \in Nat /\ i <= what.iterations /\ (terminal => b = 0)

LEMMA ToComeCounts ==
  ASSUME NEW p, NEW b, NEW i, NEW what, NEW terminal, AtRound(b, i, what, terminal)
  PROVE  /\ ToCome(p, b, i, what, terminal) \in Nat
         /\ ToCome(p, b + 1, i, what, terminal) \in Nat
         /\ Printing(p, b, i, what, terminal) \in Nat
         /\ i = what.iterations => ToCome(p, b, i, what, terminal) = b
<1>1. PICK m : m = what.iterations - i
  OBVIOUS
<1>2. b \in Nat /\ b + 1 \in Nat /\ m \in Nat /\ (i = what.iterations <=> m = 0)
      /\ terminal \in BOOLEAN /\ (terminal => b = 0)
  BY <1>1 DEF AtRound
<1>3. /\ LoopLines(b, m, terminal) \in Nat /\ LoopLines(b + 1, m, terminal) \in Nat
      /\ LoopLines(b, 0, terminal) = b
  BY <1>2, LoopUnrolls
<1>4. /\ WaitLines(b, m, terminal) \in Nat /\ WaitLines(b + 1, m, terminal) \in Nat
      /\ WaitLines(b, 0, terminal) = b
  BY <1>2, WaitUnrolls
<1>5. /\ ToCome(p, b, i, what, terminal) \in Nat
      /\ ToCome(p, b + 1, i, what, terminal) \in Nat
      /\ m = 0 => ToCome(p, b, i, what, terminal) = b
  BY <1>1, <1>2, <1>3, <1>4, Zenon DEF ToCome
<1>6. Printing(p, b, i, what, terminal) \in Nat
  BY <1>5 DEF Printing
<1> QED
  BY <1>2, <1>5, <1>6, Zenon

(* The child of the first round. *)
FirstChild == <<0>>

(* A fork doubles what forkloop has to print, and in the programs that wait one of the two
   goes on, while the other one prints its line. *)
LEMMA ForkShares ==
  ASSUME NEW p, NEW c, NEW b, NEW i, NEW what, NEW terminal, AtRound(b, i, what, terminal),
         i < what.iterations, what.program # "simplefork",
         what.program # "forkloop" => GoesOn(p, i, what),
         c # <<>>, p = <<>> => (c = FirstChild <=> i = 0), p # <<>> => c # FirstChild
  PROVE  ToCome(p, b, i, what, terminal) =
           Printing(p, b, i + 1, what, terminal) + Printing(c, b, i + 1, what, terminal)
<1>1. PICK m : m = what.iterations - (i + 1)
  OBVIOUS
<1>2. b \in Nat /\ b + 1 \in Nat /\ m \in Nat /\ what.iterations - i = m + 1
      /\ terminal \in BOOLEAN /\ (terminal => b = 0) /\ i \in Nat
  BY <1>1 DEF AtRound
<1>3. CASE what.program = "forkloop"
  <2>1. /\ LoopLines(b, m, terminal) \in Nat /\ LoopLines(b + 1, m, terminal) \in Nat
        /\ LoopLines(b, m + 1, terminal) =
             IF terminal THEN 2 * (1 + LoopLines(b, m, terminal))
             ELSE 2 * LoopLines(b + 1, m, terminal)
    BY <1>2, LoopUnrolls
  <2>2. ToCome(p, b, i, what, terminal) = LoopLines(b, m + 1, terminal)
    BY <1>2, <1>3, Zenon DEF ToCome
  <2>3. \A q : Printing(q, b, i + 1, what, terminal) =
                 IF terminal THEN 1 + LoopLines(b, m, terminal) ELSE LoopLines(b + 1, m, terminal)
    BY <1>1, <1>3, Zenon DEF ToCome, Printing
  <2> QED
    BY <2>1, <2>2, <2>3
<1>4. CASE what.program # "forkloop"
  <2>1. /\ WaitLines(b, m, terminal) \in Nat /\ WaitLines(b + 1, m, terminal) \in Nat
        /\ WaitLines(b, m + 1, terminal) =
             IF terminal THEN 2 + WaitLines(b, m, terminal)
             ELSE (b + 1) + WaitLines(b + 1, m, terminal)
    BY <1>2, WaitUnrolls
  <2>2. ToCome(p, b, i, what, terminal) = WaitLines(b, m + 1, terminal)
    BY <1>2, <1>4, Zenon DEF ToCome
  <2>3. ASSUME NEW q PROVE
          Printing(q, b, i + 1, what, terminal) =
            IF GoesOn(q, i + 1, what)
            THEN IF terminal THEN 1 + WaitLines(b, m, terminal) ELSE WaitLines(b + 1, m, terminal)
            ELSE b + 1
    <3>1. Printing(q, b, i + 1, what, terminal) =
            IF GoesOn(q, i + 1, what)
            THEN IF terminal THEN 1 + WaitLines(b, m, terminal) ELSE WaitLines(b + 1, m, terminal)
            ELSE IF terminal THEN 1 + b ELSE b + 1
      BY <1>1, <1>4, Zenon DEF ToCome, Printing
    <3> QED
      BY <1>2, <3>1
  <2>4. GoesOn(p, i + 1, what) <=> ~ GoesOn(c, i + 1, what)
    <3>1. GoesOn(p, i, what)
      BY <1>4
    <3>2. i + 1 # 0 /\ i + 1 > 0 /\ (i # 0 <=> i > 0) /\ <<0>> # <<>>
      BY <1>2
    <3> QED
      BY <3>1, <3>2 DEF GoesOn, FirstChild
  <2> QED
    BY <1>2, <2>1, <2>2, <2>3, <2>4
<1> QED
  BY <1>3, <1>4

LEMMA DueCounts ==
  ASSUME NEW p, NEW me, NEW what \in [program : Programs, iterations : Nat],
         NEW terminal \in BOOLEAN, InRound(me, what, terminal)
  PROVE  Due(p, me, what, terminal) \in Nat
<1> PICK b : b = Len(me.stdout)
  OBVIOUS
<1>1. /\ me.at \in Letters \cup {"test", "fork", "print", "wait", "exit", "zombie", "reaped"}
      /\ me.i \in Nat /\ me.i <= what.iterations /\ b \in Nat /\ (terminal => b = 0)
      /\ (me.at \in {"print", "wait"} => me.i < what.iterations)
  BY DEF InRound, AnyProcess
<1>2. AtRound(b, me.i, what, terminal)
  BY <1>1 DEF AtRound
<1>3. me.at \in {"print", "wait"} => AtRound(b, me.i + 1, what, terminal)
  BY <1>1 DEF AtRound
<1>4. ToCome(p, b, me.i, what, terminal) \in Nat
  BY <1>2, ToComeCounts, Zenon
<1>5. me.at \in {"print", "wait"} =>
        ToCome(p, b, me.i + 1, what, terminal) \in Nat
          /\ Printing(p, b, me.i + 1, what, terminal) \in Nat
  BY <1>3, ToComeCounts, Zenon
<1>6. 2 * (b + 3) \in Nat /\ 2 * (b + 4) \in Nat /\ b + 3 \in Nat /\ b + 2 \in Nat /\ b + 1 \in Nat
  BY <1>1
<1> QED
  BY <1>1, <1>4, <1>5, <1>6 DEF Due, Letters

(* What is due of all processes. *)
Dues == [p \in DOMAIN procs |-> Due(p, procs[p], run, tty)]

(* When what is due of one process changes, and that of no other. *)
OneDue(p, new) ==
  /\ DOMAIN procs' = DOMAIN procs
  /\ \A q \in DOMAIN procs \ {p} : Due(q, procs'[q], run, tty) = Due(q, procs[q], run, tty)
  /\ procs'[p] = new

LEMMA RunKnown ==
  ForksTyped => run \in [program : Programs, iterations : Nat] /\ tty \in BOOLEAN
BY ForksAssumption DEF ForksTyped

LEMMA DueChanges ==
  ASSUME ForksTyped, ForksTyped', IsFiniteSet(DOMAIN procs), UNCHANGED <<run, tty>>,
         NEW p \in DOMAIN procs, NEW new, OneDue(p, new)
  PROVE  /\ SumFunction(Dues) \in Nat /\ SumFunction(Dues') \in Nat
         /\ SumFunction(Dues') + Due(p, procs[p], run, tty)
              = SumFunction(Dues) + Due(p, new, run, tty)
         /\ Due(p, procs[p], run, tty) \in Nat /\ Due(p, new, run, tty) \in Nat
<1>1. run \in [program : Programs, iterations : Nat] /\ tty \in BOOLEAN /\ run' = run /\ tty' = tty
  BY RunKnown
<1>2. ASSUME NEW q \in DOMAIN procs PROVE Due(q, procs[q], run, tty) \in Nat
  <2>1. InRound(procs[q], run, tty)
    BY Zenon DEF ForksTyped
  <2> QED
    BY <1>1, <2>1, DueCounts
<1>3. DOMAIN procs' = DOMAIN procs
  BY DEF OneDue
<1>4. ASSUME NEW q \in DOMAIN procs PROVE Due(q, procs'[q], run, tty) \in Nat
  <2>1. InRound(procs'[q], run', tty')
    BY <1>3, Zenon DEF ForksTyped
  <2>2. InRound(procs'[q], run, tty)
    BY <1>1, <2>1, Zenon
  <2> QED
    BY <1>1, <2>2, DueCounts
<1> DEFINE f == [q \in DOMAIN procs |-> Due(q, procs[q], run, tty)]
           g == [q \in DOMAIN procs |-> Due(q, procs'[q], run, tty)]
<1>5. Dues = f /\ Dues' = g
  BY <1>1, <1>3, Zenon DEF Dues
<1>6. Agree(f, g, DOMAIN f \ {p})
  BY DEF OneDue, Agree
<1>7. Summable(f, DOMAIN f) /\ Summable(g, DOMAIN g)
  BY <1>2, <1>4 DEF Summable
<1>8. DOMAIN g = DOMAIN f \cup {p}
  OBVIOUS
<1>9. OneDiffers(f, g, p)
  BY <1>6, <1>7, <1>8, Zenon DEF OneDiffers
<1>10. ValueAt(f, p) = Due(p, procs[p], run, tty) /\ g[p] = Due(p, new, run, tty)
  BY DEF ValueAt, OneDue
<1> HIDE DEF f, g
<1>11. /\ SumFunction(f) \in Nat /\ SumFunction(g) \in Nat
       /\ ValueAt(f, p) \in Nat /\ g[p] \in Nat
       /\ SumFunction(g) + ValueAt(f, p) = SumFunction(f) + g[p]
  BY <1>9, SumChanges, Zenon
<1> QED
  BY <1>5, <1>10, <1>11

(* A process knows its parent, and no parent is still before the fork of its child; the
   result of a fork that failed is that of one that failed. *)
Early == {"A", "test", "fork"}

Descent ==
  \A p \in DOMAIN procs :
    /\ procs[p].n = -1 => fork_failed
    /\ p # <<>> =>
         /\ Front(p) \in DOMAIN procs
         /\ Last(p) <= procs[Front(p)].i
         /\ procs[Front(p)].at \in Early => Last(p) < procs[Front(p)].i

(* As long as no fork fails, what has been written and what is due are all the lines. *)
Accounted ==
  /\ FiniteBag(out) /\ IsFiniteSet(DOMAIN procs)
  /\ Descent
  /\ ~ fork_failed => SumFunction(out) + SumFunction(Dues) = Lines

(* No process goes back before a fork. *)
Onward(me, new) ==
  /\ me.i <= new.i
  /\ new.at \in Early => me.at \in Early \/ me.i < new.i
  /\ new.n = -1 => me.n = -1 \/ fork_failed'

LEMMA DescentKept ==
  ASSUME ForksTyped, ForksTyped', Descent, DOMAIN procs' = DOMAIN procs, fork_failed => fork_failed',
         \A q \in DOMAIN procs : Onward(procs[q], procs'[q])
  PROVE  Descent'
<1> SUFFICES ASSUME NEW p \in DOMAIN procs
             PROVE  /\ procs'[p].n = -1 => fork_failed'
                    /\ p # <<>> =>
                         /\ Front(p) \in DOMAIN procs'
                         /\ Last(p) <= procs'[Front(p)].i
                         /\ procs'[Front(p)].at \in Early => Last(p) < procs'[Front(p)].i
  BY Zenon DEF Descent
<1>1. procs'[p].n = -1 => fork_failed'
  BY Zenon DEF Onward, Descent
<1>2. ASSUME p # <<>>
      PROVE  /\ Front(p) \in DOMAIN procs'
             /\ Last(p) <= procs'[Front(p)].i
             /\ procs'[Front(p)].at \in Early => Last(p) < procs'[Front(p)].i
  <2> DEFINE q == Front(p)
  <2>1. /\ q \in DOMAIN procs /\ Last(p) <= procs[q].i
        /\ procs[q].at \in Early => Last(p) < procs[q].i
    BY <1>2, Zenon DEF Descent
  <2>2. run.iterations \in Nat /\ p \in Seq(0 .. run.iterations)
    BY RunKnown DEF ForksTyped
  <2>3. Last(p) \in Int
    BY <1>2, <2>2 DEF Last
  <2>4. procs[q].i \in Nat /\ procs'[q].i \in Nat
    <3>1. InRound(procs[q], run, tty)
      BY <2>1, Zenon DEF ForksTyped
    <3>2. InRound(procs'[q], run', tty')
      BY <2>1, Zenon DEF ForksTyped
    <3> QED
      BY <3>1, <3>2 DEF InRound, AnyProcess
  <2>5. Onward(procs[q], procs'[q])
    BY <2>1
  <2> HIDE DEF q
  <2>6. /\ q \in DOMAIN procs'
        /\ Last(p) <= procs'[q].i
        /\ procs'[q].at \in Early => Last(p) < procs'[q].i
    BY <2>1, <2>3, <2>4, <2>5 DEF Onward
  <2> QED
    BY <2>6 DEF q
<1> QED
  BY <1>1, <1>2, Zenon

LEMMA SumsAreNumbers ==
  ASSUME ForksTyped, Accounted
  PROVE  SumFunction(out) \in Nat /\ SumFunction(Dues) \in Nat
<1>1. SumFunction(out) \in Nat
  BY BagGrows, Zenon DEF Accounted
<1>2. run \in [program : Programs, iterations : Nat] /\ tty \in BOOLEAN
  BY RunKnown
<1>3. ASSUME NEW q \in DOMAIN procs PROVE Due(q, procs[q], run, tty) \in Nat
  <2>1. InRound(procs[q], run, tty)
    BY Zenon DEF ForksTyped
  <2> QED
    BY <1>2, <2>1, DueCounts
<1>4. Summable(Dues, DOMAIN Dues)
  BY <1>3 DEF Summable, Dues, Accounted
<1>5. Within(Dues, DOMAIN Dues, DOMAIN Dues)
  BY <1>4 DEF Within
<1>6. SumFunction(Dues) \in Nat
  BY <1>5, SumFunctionIs, SumAt, Zenon
<1> QED
  BY <1>1, <1>6

(* A step that writes w lines, and after which so many less are due of one process, keeps
   the account. *)
Writes(w) ==
  w \in Nat /\ FiniteBag(out') /\ SumFunction(out') = SumFunction(out) + w

Settled(p, new, w) ==
  ~ fork_failed => Due(p, procs[p], run, tty) = w + Due(p, new, run, tty)

Steady == run' = run /\ tty' = tty /\ fork_failed' = fork_failed

LEMMA Settles ==
  ASSUME ForksTyped, ForksTyped', Accounted, Steady, NEW p \in DOMAIN procs, NEW new, NEW w,
         OneDue(p, new), Writes(w), Settled(p, new, w), Descent'
  PROVE  Accounted'
<1>1. IsFiniteSet(DOMAIN procs') /\ FiniteBag(out')
  BY Zenon DEF Accounted, OneDue, Writes
<1>2. ASSUME ~ fork_failed' PROVE SumFunction(out') + SumFunction(Dues') = Lines'
  <2>1. ~ fork_failed /\ UNCHANGED <<run, tty>>
    BY <1>2 DEF Steady
  <2>2. SumFunction(out) + SumFunction(Dues) = Lines
    BY <2>1, Zenon DEF Accounted
  <2>3. Lines' = Lines
    BY <2>1 DEF Lines
  <2>4. IsFiniteSet(DOMAIN procs)
    BY Zenon DEF Accounted
  <2>5. /\ SumFunction(Dues) \in Nat /\ SumFunction(Dues') \in Nat
        /\ SumFunction(Dues') + Due(p, procs[p], run, tty)
             = SumFunction(Dues) + Due(p, new, run, tty)
        /\ Due(p, procs[p], run, tty) \in Nat /\ Due(p, new, run, tty) \in Nat
    BY <2>1, <2>4, DueChanges
  <2>6. Due(p, procs[p], run, tty) = w + Due(p, new, run, tty)
    BY <2>1, Zenon DEF Settled
  <2>7. w \in Nat /\ SumFunction(out') = SumFunction(out) + w /\ SumFunction(out) \in Nat
    BY SumsAreNumbers, Zenon DEF Writes
  <2>8. SumFunction(out') + SumFunction(Dues') = SumFunction(out) + SumFunction(Dues)
    BY <2>5, <2>6, <2>7
  <2> QED
    BY <2>2, <2>3, <2>8, Zenon
<1> QED
  BY <1>1, <1>2, Zenon DEF Accounted

LEMMA StaysOnward ==
  ASSUME ForksTyped, NEW q \in DOMAIN procs
  PROVE  Onward(procs[q], procs[q])
<1>1. procs[q].i \in Nat
  BY DEF ForksTyped, InRound, AnyProcess
<1> QED
  BY <1>1 DEF Onward

LEMMA MoveSettles ==
  ASSUME ForksTyped, ForksTyped', Accounted, Steady, NEW p \in DOMAIN procs, NEW new, NEW w,
         procs' = [procs EXCEPT ![p] = new], Onward(procs[p], new), Writes(w), Settled(p, new, w)
  PROVE  Accounted'
<1>1. OneDue(p, new)
  BY DEF OneDue
<1>2. DOMAIN procs' = DOMAIN procs /\ \A q \in DOMAIN procs : Onward(procs[q], procs'[q])
  <2>1. ASSUME NEW q \in DOMAIN procs PROVE procs'[q] = IF q = p THEN new ELSE procs[q]
    OBVIOUS
  <2>2. DOMAIN procs' = DOMAIN procs
    OBVIOUS
  <2> QED
    BY <2>1, <2>2, StaysOnward, Zenon
<1>3. Descent'
  <2>1. Descent /\ (fork_failed => fork_failed')
    BY Zenon DEF Accounted, Steady
  <2> QED
    BY <1>2, <2>1, DescentKept, Zenon
<1> QED
  BY <1>1, <1>3, Settles, Zenon

LEMMA NothingWritten ==
  ASSUME Accounted, ForksTyped, UNCHANGED out
  PROVE  Writes(0)
<1>1. FiniteBag(out') /\ SumFunction(out') = SumFunction(out) /\ SumFunction(out) \in Nat
  BY SumsAreNumbers, Zenon DEF Accounted
<1> QED
  BY <1>1 DEF Writes

(* What a printf takes off what is due. *)
PrintSettled(p, line_, next_) ==
  ~ fork_failed =>
    IF tty THEN Due(p, procs[p], run, tty) = 1 + Due(p, next_, run, tty)
    ELSE Due(p, procs[p], run, tty)
           = Due(p, [next_ EXCEPT !.stdout = Append(@, line_)], run, tty)

LEMMA PrintSettles ==
  ASSUME ForksTyped, ForksTyped', Accounted, Steady, NEW p \in DOMAIN procs,
         NEW line_, NEW after, printf(p, line_, after), after \in AnyProcess, Onward(procs[p], after),
         PrintSettled(p, line_, after)
  PROVE  Accounted'
<1>1. CASE tty
  <2>1. procs' = [procs EXCEPT ![p] = after] /\ out' = out (+) SetToBag({line_})
    BY <1>1, Zenon DEF printf
  <2>2. FiniteBag(out)
    BY Zenon DEF Accounted
  <2>3. FiniteBag(out') /\ SumFunction(out') = SumFunction(out) + 1
    BY <2>1, <2>2, BagGrows, Zenon
  <2>4. Writes(1)
    BY <2>3 DEF Writes
  <2>5. Settled(p, after, 1)
    BY <1>1, Zenon DEF PrintSettled, Settled
  <2> QED
    BY <2>1, <2>4, <2>5, MoveSettles, Zenon
<1>2. CASE ~ tty
  <2> DEFINE longer == [after EXCEPT !.stdout = Append(@, line_)]
  <2>1. procs' = [procs EXCEPT ![p] = longer] /\ out' = out
    BY <1>2, Zenon DEF printf
  <2>2. Writes(0)
    BY <2>1, NothingWritten
  <2>3. longer.i = after.i /\ longer.at = after.at /\ longer.n = after.n
    BY DEF AnyProcess
  <2>4. Onward(procs[p], longer)
    BY <2>3 DEF Onward
  <2>5. Settled(p, longer, 0)
    <3>1. ~ fork_failed => Due(p, procs[p], run, tty) = Due(p, longer, run, tty)
      BY <1>2, Zenon DEF PrintSettled
    <3>2. Due(p, procs[p], run, tty) \in Nat
      BY RunKnown, DueCounts DEF ForksTyped
    <3>3. ~ fork_failed => Due(p, longer, run, tty) \in Nat
      BY <3>1, <3>2, Zenon
    <3> HIDE DEF longer
    <3> QED
      BY <3>1, <3>2, <3>3 DEF Settled
  <2> HIDE DEF longer
  <2> QED
    BY <2>1, <2>2, <2>4, <2>5, MoveSettles, Zenon
<1> QED
  BY <1>1, <1>2

(* What is due of a process, by where it is. *)
LEMMA DueAt ==
  ASSUME NEW p, NEW me, NEW what, NEW terminal, NEW b, Len(me.stdout) = b
  PROVE  /\ me.at = "exit" => Due(p, me, what, terminal) = b
         /\ me.at = "A" => Due(p, me, what, terminal) = IF terminal THEN 7 ELSE 2 * (b + 4)
         /\ me.at = "B" => Due(p, me, what, terminal) = b + 3
         /\ me.at \in {"C", "D"} => Due(p, me, what, terminal) = b + 2
         /\ me.at = "E" => Due(p, me, what, terminal) = b + 1
         /\ me.at = "fork" /\ what.program = "simplefork" =>
              Due(p, me, what, terminal) = 2 * (b + 3)
<1> DEFINE a == me.at
           d == Due(p, me, what, terminal)
<1>1. /\ a = "exit" => d = b
      /\ a = "A" => d = IF terminal THEN 7 ELSE 2 * (b + 4)
      /\ a = "B" => d = b + 3
      /\ a \in {"C", "D"} => d = b + 2
      /\ a = "E" => d = b + 1
  BY DEF Due
<1>2. a = "fork" /\ what.program = "simplefork" => d = 2 * (b + 3)
  BY DEF Due
<1> QED
  BY <1>1, <1>2

LEMMA DueGone ==
  ASSUME NEW p, NEW me, NEW what, NEW terminal, me.at = "zombie" \/ me.at = "reaped"
  PROVE  Due(p, me, what, terminal) = 0
BY DEF Due

LEMMA DueLeaving ==
  ASSUME NEW p, NEW me, NEW what, NEW terminal, me.at = "exit"
  PROVE  Due(p, me, what, terminal) = Len(me.stdout)
BY DEF Due

LEMMA DueSimply ==
  ASSUME NEW p, NEW me, NEW what, NEW terminal
  PROVE  /\ me.at = "B" => Due(p, me, what, terminal) = Len(me.stdout) + 3
         /\ me.at = "fork" /\ what.program = "simplefork" =>
              Due(p, me, what, terminal) = 2 * (Len(me.stdout) + 3)
BY DEF Due

LEMMA DueInRound ==
  ASSUME NEW p, NEW me, NEW what, NEW terminal,
         me.at = "test" \/ (me.at = "fork" /\ what.program # "simplefork")
  PROVE  Due(p, me, what, terminal) = ToCome(p, Len(me.stdout), me.i, what, terminal)
BY DEF Due

LEMMA DuePrinting ==
  ASSUME NEW p, NEW me, NEW what, NEW terminal, me.at = "print"
  PROVE  Due(p, me, what, terminal) = Printing(p, Len(me.stdout), me.i + 1, what, terminal)
BY DEF Due

LEMMA DueWaiting ==
  ASSUME NEW p, NEW me, NEW what, NEW terminal, me.at = "wait"
  PROVE  Due(p, me, what, terminal) = ToCome(p, Len(me.stdout), me.i + 1, what, terminal)
BY DEF Due

LEMMA SimplePrintAccounts ==
  ASSUME ForksTyped, ForksTyped', Accounted, NEW p \in DOMAIN procs, SimplePrint(p)
  PROVE  Accounted'
<1> DEFINE me == procs[p]
           after == CASE me.at = "A"                -> "fork"
                     [] me.at = "B" /\ me.n < 0    -> "exit"
                     [] me.at = "B" /\ me.n = 0    -> "C"
                     [] me.at = "B" /\ me.n > 0    -> "D"
                     [] me.at \in {"C", "D"}       -> "E"
                     [] OTHER                      -> "exit"
           new == [me EXCEPT !.at = after]
           line_ == me.at
           longer == [new EXCEPT !.stdout = Append(@, line_)]
<1>1. /\ me.at \in {"A", "B", "C", "D", "E"} /\ printf(p, line_, new) /\ Steady
  BY Zenon DEF SimplePrint, Steady
<1>2. InRound(me, run, tty) /\ (me.n = -1 => fork_failed)
  BY Zenon DEF ForksTyped, Accounted, Descent
<1>3. /\ me \in AnyProcess /\ me.n \in -1 .. 1 /\ run.program = "simplefork"
      /\ (tty => me.stdout = <<>>)
  BY <1>1, <1>2 DEF InRound, AnyProcess, Letters
<1>4. /\ after \in {"fork", "exit", "C", "D", "E"}
      /\ me.at = "A" => after = "fork"
      /\ me.at = "B" /\ me.n # -1 => after \in {"C", "D"}
      /\ me.at \in {"C", "D"} => after = "E"
      /\ me.at = "E" => after = "exit"
      /\ after = "fork" => me.at = "A"
  BY <1>1, <1>3
<1> HIDE DEF after
<1>5. line_ \in AnyLine
  BY <1>1 DEF AnyLine, Letters
<1>6. /\ new \in AnyProcess /\ new.at = after /\ new.i = me.i /\ new.n = me.n
      /\ new.stdout = me.stdout /\ me.i \in Nat
  BY <1>3, <1>4 DEF AnyProcess, Letters
<1> PICK b : b = Len(me.stdout)
  OBVIOUS
<1>7. b \in Nat /\ (tty => b = 0) /\ Len(new.stdout) = b
  BY <1>3, <1>6 DEF AnyProcess
<1>8. longer.at = after /\ Len(longer.stdout) = b + 1
  BY <1>3, <1>4, <1>5 DEF AnyProcess
<1>9. Onward(me, new)
  BY <1>4, <1>6 DEF Onward, Early
<1> HIDE DEF new, longer, line_, me
<1>10. /\ me.at = "A" => Due(p, me, run, tty) = IF tty THEN 7 ELSE 2 * (b + 4)
       /\ me.at = "B" => Due(p, me, run, tty) = b + 3
       /\ me.at \in {"C", "D"} => Due(p, me, run, tty) = b + 2
       /\ me.at = "E" => Due(p, me, run, tty) = b + 1
  BY DueAt
<1>11. ASSUME NEW next_ \in {new, longer}, NEW c, Len(next_.stdout) = c
       PROVE  /\ after = "fork" => Due(p, next_, run, tty) = 2 * (c + 3)
              /\ after \in {"C", "D"} => Due(p, next_, run, tty) = c + 2
              /\ after = "E" => Due(p, next_, run, tty) = c + 1
              /\ after = "exit" => Due(p, next_, run, tty) = c
  <2>1. next_.at = after
    BY <1>6, <1>8
  <2> QED
    BY <1>3, <1>11, <2>1, DueAt
<1>12. /\ after = "fork" => Due(p, new, run, tty) = 2 * (b + 3)
       /\ after \in {"C", "D"} => Due(p, new, run, tty) = b + 2
       /\ after = "E" => Due(p, new, run, tty) = b + 1
       /\ after = "exit" => Due(p, new, run, tty) = b
  BY <1>7, <1>11
<1>13. /\ after = "fork" => Due(p, longer, run, tty) = 2 * ((b + 1) + 3)
       /\ after \in {"C", "D"} => Due(p, longer, run, tty) = (b + 1) + 2
       /\ after = "E" => Due(p, longer, run, tty) = (b + 1) + 1
       /\ after = "exit" => Due(p, longer, run, tty) = b + 1
  BY <1>8, <1>11
<1>14. ~ fork_failed =>
         IF tty THEN Due(p, me, run, tty) = 1 + Due(p, new, run, tty)
         ELSE Due(p, me, run, tty) = Due(p, longer, run, tty)
  <2> SUFFICES ASSUME ~ fork_failed
               PROVE  IF tty THEN Due(p, me, run, tty) = 1 + Due(p, new, run, tty)
                      ELSE Due(p, me, run, tty) = Due(p, longer, run, tty)
    OBVIOUS
  <2>1. me.n # -1
    BY <1>2
  <2>2. CASE me.at = "A"
    BY <1>4, <1>7, <1>10, <1>12, <1>13, <2>2
  <2>3. CASE me.at = "B"
    BY <1>4, <1>7, <1>10, <1>12, <1>13, <2>1, <2>3
  <2>4. CASE me.at \in {"C", "D"}
    BY <1>4, <1>7, <1>10, <1>12, <1>13, <2>4
  <2>5. CASE me.at = "E"
    BY <1>4, <1>7, <1>10, <1>12, <1>13, <2>5
  <2> QED
    BY <1>1, <2>2, <2>3, <2>4, <2>5
<1>15. PrintSettled(p, line_, new)
  BY <1>14, Zenon DEF PrintSettled, longer, me
<1> QED
  BY <1>1, <1>6, <1>9, <1>15, PrintSettles, Zenon DEF me

(* Only the programs with rounds are at the places of a round. *)
InLoop ==
  \A p \in DOMAIN procs : procs[p].at \in {"test", "print", "wait"} => run.program # "simplefork"

LEMMA InLoopInit == ForksInit => InLoop
BY DEF ForksInit, InLoop

LEMMA InLoopSteps == ForksTyped /\ InLoop /\ [ForksNext]_forksVars => InLoop'
<1> SUFFICES ASSUME ForksTyped, InLoop, [ForksNext]_forksVars PROVE InLoop'
  OBVIOUS
<1> DEFINE Places == {"test", "print", "wait"}
<1>1. CASE UNCHANGED forksVars
  BY <1>1 DEF forksVars, InLoop
<1>2. ASSUME NEW p \in DOMAIN procs,
             SimplePrint(p) \/ Test(p) \/ Fork(p) \/ ForkFails(p) \/ PrintLine(p) \/ Wait(p) \/ Exit(p)
      PROVE  InLoop'
  <2> DEFINE me == procs[p]
  <2>1. me \in AnyProcess
    BY DEF ForksTyped, InRound
  <2>2. me.at \in Places => run.program # "simplefork"
    BY DEF InLoop
  <2>3. run' = run
    BY <1>2 DEF SimplePrint, Test, Fork, ForkFails, PrintLine, Wait, Exit
  <2>4. ASSUME NEW new, procs' = [procs EXCEPT ![p] = new],
               new.at \in Places => run.program # "simplefork"
        PROVE  InLoop'
    BY <2>3, <2>4 DEF InLoop
  <2>5. ASSUME NEW line_, NEW new, printf(p, line_, new), new \in AnyProcess,
               new.at \in Places => run.program # "simplefork"
        PROVE  InLoop'
    <3> DEFINE longer == [new EXCEPT !.stdout = Append(@, line_)]
    <3>1. longer.at = new.at
      BY <2>5 DEF AnyProcess
    <3>2. procs' = [procs EXCEPT ![p] = new] \/ procs' = [procs EXCEPT ![p] = longer]
      BY <2>5, Zenon DEF printf
    <3> HIDE DEF longer
    <3> QED
      BY <2>4, <2>5, <3>1, <3>2, Zenon
  <2>6. CASE SimplePrint(p)
    <3> DEFINE after == CASE me.at = "A"                -> "fork"
                     [] me.at = "B" /\ me.n < 0    -> "exit"
                     [] me.at = "B" /\ me.n = 0    -> "C"
                     [] me.at = "B" /\ me.n > 0    -> "D"
                     [] me.at \in {"C", "D"}       -> "E"
                     [] OTHER                      -> "exit"
    <3>1. me.at \in {"A", "B", "C", "D", "E"} /\ printf(p, me.at, [me EXCEPT !.at = after])
      BY <2>6, Zenon DEF SimplePrint
    <3>2. after \in {"fork", "exit", "C", "D", "E"}
      BY <2>1, <3>1 DEF AnyProcess
    <3> HIDE DEF after
    <3>3. after \in Letters \cup {"test", "fork", "print", "wait", "exit", "zombie", "reaped"}
      BY <3>2 DEF Letters
    <3>4. [me EXCEPT !.at = after] \in AnyProcess /\ [me EXCEPT !.at = after].at = after
      BY <2>1, <3>3, Moved, Zenon
    <3>5. after \notin Places
      BY <3>2
    <3> QED
      BY <2>5, <3>1, <3>4, <3>5, Zenon
  <2>7. CASE Test(p)
    <3>1. me.at = "test" /\ \E goal : procs' = [procs EXCEPT ![p] = [me EXCEPT !.at = goal]]
      BY <2>7 DEF Test
    <3>2. run.program # "simplefork"
      BY <2>2, <3>1
    <3> QED
      BY <2>4, <3>1, <3>2, Zenon
  <2>8. CASE Fork(p)
    <3> DEFINE child == Append(p, me.i)
    <3>1. /\ DOMAIN procs' = DOMAIN procs \cup {child}
          /\ \A q \in DOMAIN procs' :
               \/ procs'[q] = [me EXCEPT !.at = AfterFork, !.n = 0]
               \/ procs'[q] = [me EXCEPT !.at = AfterFork, !.n = 1]
               \/ q \in DOMAIN procs /\ procs'[q] = procs[q]
      BY <2>8 DEF Fork
    <3>2. AfterFork \in Letters \cup {"test", "fork", "print", "wait", "exit", "zombie", "reaped"}
      BY DEF AfterFork, Letters
    <3>3. ASSUME NEW k \in -1 .. 1 PROVE [me EXCEPT !.at = AfterFork, !.n = k].at = AfterFork
      <4> DEFINE new == [me EXCEPT !.at = AfterFork, !.n = k]
      <4>1. new \in AnyProcess /\ new.at = AfterFork /\ new.i = me.i /\ new.stdout = me.stdout
        BY <2>1, <3>2, MovedWithN, Zenon
      <4> QED
        BY <4>1
    <3>4. AfterFork \in Places => run.program # "simplefork"
      BY DEF AfterFork
    <3>5. ASSUME NEW q \in DOMAIN procs', procs'[q].at \in Places PROVE run.program # "simplefork"
      <4>1. 0 \in -1 .. 1 /\ 1 \in -1 .. 1
        OBVIOUS
      <4> QED
        BY <3>1, <3>3, <3>4, <3>5, <4>1, Zenon DEF InLoop
    <3> QED
      BY <2>3, <3>5, Zenon DEF InLoop
  <2>9. CASE ForkFails(p)
    <3> DEFINE goal == IF run.program = "forkloop" THEN "exit" ELSE AfterFork
               new == [me EXCEPT !.at = goal, !.n = -1]
    <3>1. procs' = [procs EXCEPT ![p] = new]
      BY <2>9 DEF ForkFails
    <3>2. goal \in Letters \cup {"test", "fork", "print", "wait", "exit", "zombie", "reaped"}
      BY DEF AfterFork, Letters
    <3>3. goal \in Places => run.program # "simplefork"
      BY DEF AfterFork
    <3> HIDE DEF goal
    <3>4. -1 \in -1 .. 1
      OBVIOUS
    <3>5. new \in AnyProcess /\ new.at = goal /\ new.i = me.i /\ new.stdout = me.stdout
      BY <2>1, <3>2, <3>4, MovedWithN, Zenon
    <3> QED
      BY <2>4, <3>1, <3>3, <3>5, Zenon
  <2>10. CASE PrintLine(p)
    <3>1. me.at = "print" /\ \E line_ :
            \/ \E goal \in {"exit", "wait"} : printf(p, line_, [me EXCEPT !.at = goal])
            \/ printf(p, line_, [me EXCEPT !.at = "test", !.i = @ + 1])
      BY <2>10, Zenon DEF PrintLine
    <3>2. run.program # "simplefork"
      BY <2>2, <3>1
    <3>3. ASSUME NEW goal \in {"exit", "wait"} PROVE [me EXCEPT !.at = goal] \in AnyProcess
      <4>1. goal \in Letters \cup {"test", "fork", "print", "wait", "exit", "zombie", "reaped"}
        OBVIOUS
      <4> QED
        BY <2>1, <4>1, Moved, Zenon
    <3>4. [me EXCEPT !.at = "test", !.i = @ + 1] \in AnyProcess
      BY <2>1, NextRound, Zenon
    <3> QED
      BY <2>5, <3>1, <3>2, <3>3, <3>4, Zenon
  <2>11. CASE Wait(p)
    <3>1. me.at = "wait"
      BY <2>11 DEF Wait
    <3>2. run.program # "simplefork"
      BY <2>2, <3>1
    <3> QED
      BY <2>3, <3>2 DEF InLoop
  <2>12. CASE Exit(p)
    <3>1. procs' = [procs EXCEPT ![p] = [me EXCEPT !.at = "zombie"]]
      BY <2>12 DEF Exit
    <3>2. [me EXCEPT !.at = "zombie"].at = "zombie"
      BY <2>1 DEF AnyProcess
    <3>3. [me EXCEPT !.at = "zombie"].at \notin Places
      BY <3>2
    <3> QED
      BY <2>4, <3>1, <3>3, Zenon
  <2> QED
    BY <1>2, <2>6, <2>7, <2>8, <2>9, <2>10, <2>11, <2>12
<1>3. CASE ForksNext
  BY <1>2, <1>3 DEF ForksNext
<1> QED
  BY <1>1, <1>3

(* What is known of a process in a round. *)
LEMMA RoundKnown ==
  ASSUME ForksTyped, NEW p \in DOMAIN procs
  PROVE  /\ run \in [program : Programs, iterations : Nat] /\ tty \in BOOLEAN
         /\ procs[p] \in AnyProcess
         /\ AtRound(Len(procs[p].stdout), procs[p].i, run, tty)
         /\ procs[p].at \in {"print", "wait"} =>
              AtRound(Len(procs[p].stdout), procs[p].i + 1, run, tty)
<1>1. run \in [program : Programs, iterations : Nat] /\ tty \in BOOLEAN /\ InRound(procs[p], run, tty)
  BY RunKnown DEF ForksTyped
<1> DEFINE me == procs[p]
<1> HIDE DEF me
<1>2. /\ me \in AnyProcess /\ me.i \in Nat /\ me.i <= run.iterations /\ run.iterations \in Nat
      /\ (tty => me.stdout = <<>>) /\ (me.at \in {"print", "wait"} => me.i < run.iterations)
  BY <1>1 DEF InRound, AnyProcess, me
<1>3. Len(me.stdout) \in Nat /\ (tty => Len(me.stdout) = 0)
  BY <1>2 DEF AnyProcess
<1> QED
  BY <1>1, <1>2, <1>3 DEF AtRound, me

LEMMA SameGoesOn ==
  ASSUME NEW p, NEW k
  PROVE  ForksIn(p, k) <=> GoesOn(p, k, run)
BY DEF ForksIn, GoesOn

LEMMA TestAccounts ==
  ASSUME ForksTyped, ForksTyped', ForksInv, InLoop, Accounted, NEW p \in DOMAIN procs, Test(p)
  PROVE  Accounted'
<1> DEFINE me == procs[p]
           goal == IF me.i = run.iterations THEN "exit" ELSE IF Forks(p) THEN "fork" ELSE "wait"
           new == [me EXCEPT !.at = goal]
           round == me.i
<1>1. me.at = "test" /\ procs' = [procs EXCEPT ![p] = new] /\ Steady /\ out' = out
  BY DEF Test, Steady
<1>2. /\ me \in AnyProcess /\ AtRound(Len(me.stdout), round, run, tty)
  BY RoundKnown, Zenon
<1>3. run.program # "simplefork"
  BY <1>1 DEF InLoop
<1>4. /\ goal \in {"exit", "fork", "wait"}
      /\ goal = "exit" => round = run.iterations
      /\ goal = "fork" => Forks(p)
      /\ goal = "wait" => ~ Forks(p)
  BY Zenon
<1> HIDE DEF goal
<1>5. /\ new \in AnyProcess /\ new.at = goal /\ new.i = round /\ new.stdout = me.stdout
      /\ new.n = me.n
  <2>1. goal \in Letters \cup {"test", "fork", "print", "wait", "exit", "zombie", "reaped"}
    BY <1>4
  <2> QED
    BY <1>2, <2>1, Moved
<1>6. Onward(me, new)
  <2>1. round \in Nat
    BY <1>2 DEF AtRound
  <2> QED
    BY <1>1, <1>5, <2>1 DEF Onward, Early
<1> PICK b : b = Len(me.stdout)
  OBVIOUS
<1>7. b \in Nat /\ round \in Nat /\ Len(new.stdout) = b /\ Len(me.stdout) = b
  BY <1>2, <1>5 DEF AtRound
<1>13. AtRound(b, round, run, tty)
  BY <1>2, <1>7, Zenon
<1>14. me.i = round
  OBVIOUS
<1> HIDE DEF new, me, round
<1>8. Due(p, me, run, tty) = ToCome(p, b, round, run, tty)
  BY <1>1, <1>7, <1>14, DueInRound, Zenon
<1>9. ToCome(p, b, round, run, tty) \in Nat /\ (round = run.iterations => ToCome(p, b, round, run, tty) = b)
  BY ONLY <1>13, ToComeCounts
<1>10. ASSUME ~ fork_failed PROVE Due(p, new, run, tty) = Due(p, me, run, tty)
  <2>1. CASE goal = "exit"
    <3>1. Due(p, new, run, tty) = b
      BY <1>5, <1>7, <2>1, DueLeaving, Zenon
    <3> QED
      BY <1>4, <1>8, <1>9, <2>1, <3>1, Zenon
  <2>2. CASE goal = "fork"
    <3>1. Due(p, new, run, tty) = ToCome(p, b, new.i, run, tty)
      BY <1>3, <1>5, <1>7, <2>2, DueInRound, Zenon
    <3> QED
      BY <1>5, <1>8, <3>1, Zenon
  <2>3. CASE goal = "wait"
    <3>1. Due(p, new, run, tty) = ToCome(p, b, round + 1, run, tty)
      <4>1. Due(p, new, run, tty) = ToCome(p, b, new.i + 1, run, tty)
        BY <1>5, <1>7, <2>3, DueWaiting, Zenon
      <4> QED
        BY <1>5, <4>1, Zenon
    <3>2. ~ Forks(p) /\ run.program # "forkloop"
      BY <1>4, <2>3 DEF Forks
    <3>3. Waiting
      <4>1. run.program \in {"simplefork", "forkloop", "parentcreates", "childcreates"}
        BY RunKnown DEF Programs
      <4> QED
        BY <1>3, <3>2, <4>1 DEF Waiting
    <3>4. ProcsKnown /\ Kin /\ Rounds
      BY <3>3, Zenon DEF ForksInv
    <3>5. ~ GoesOn(p, round, run)
      BY <1>1, <1>10, <3>2, <3>3, <3>4, WhoForks, SameGoesOn DEF me, round
    <3>6. ~ GoesOn(p, round + 1, run)
      <4>1. p # <<>> => Last(p) < round
        BY <1>1, <3>4 DEF Kin, me, round
      <4>2. p = <<0>> => Last(p) = 0 /\ p # <<>>
        BY DEF Last
      <4>3. p = <<0>> => round > 0
        BY <1>7, <4>1, <4>2
      <4> QED
        BY <1>7, <3>5, <4>3 DEF GoesOn
    <3> QED
      BY <1>8, <3>1, <3>2, <3>5, <3>6, Zenon DEF ToCome
  <2> QED
    BY <1>4, <2>1, <2>2, <2>3
<1>11. Settled(p, new, 0)
  <2>1. Due(p, me, run, tty) \in Nat
    BY <1>8, <1>9, Zenon
  <2> QED
    BY <1>10, <2>1 DEF Settled, me
<1>12. Writes(0)
  BY <1>1, NothingWritten
<1> QED
  BY <1>1, <1>6, <1>11, <1>12, MoveSettles, Zenon DEF me

LEMMA ExitAccounts ==
  ASSUME ForksTyped, ForksTyped', Accounted, NEW p \in DOMAIN procs, Exit(p)
  PROVE  Accounted'
<1> DEFINE me == procs[p]
           new == [me EXCEPT !.at = "zombie"]
<1>1. /\ me.at = "exit" /\ procs' = [procs EXCEPT ![p] = new] /\ Steady
      /\ out' = out (+) ToBag(me.stdout)
  BY DEF Exit, Steady
<1>2. me \in AnyProcess /\ me.stdout \in Seq(AnyLine) /\ Len(me.stdout) \in Nat /\ me.i \in Nat
  <2>1. me \in AnyProcess
    BY RoundKnown, Zenon
  <2> QED
    BY <2>1 DEF AnyProcess
<1>3. new.at = "zombie" /\ new.i = me.i /\ new.n = me.n
  BY <1>2 DEF AnyProcess
<1>4. Onward(me, new)
  BY <1>2, <1>3 DEF Onward, Early
<1> HIDE DEF new, me
<1>5. Due(p, me, run, tty) = Len(me.stdout)
  BY <1>1, DueLeaving, Zenon
<1>8. Due(p, new, run, tty) = 0
  BY <1>3, DueGone, Zenon
<1>6. Settled(p, new, Len(me.stdout))
  BY <1>2, <1>5, <1>8 DEF Settled, me
<1>7. Writes(Len(me.stdout))
  <2>1. FiniteBag(out)
    BY Zenon DEF Accounted
  <2>2. /\ FiniteBag(out (+) ToBag(me.stdout))
        /\ SumFunction(out (+) ToBag(me.stdout)) = SumFunction(out) + Len(me.stdout)
    BY <1>2, <2>1, BufferAdds, Zenon
  <2> QED
    BY <1>1, <1>2, <2>2, Zenon DEF Writes
<1> QED
  BY <1>1, <1>4, <1>6, <1>7, MoveSettles, Zenon DEF me

LEMMA ForkFailsAccounts ==
  ASSUME ForksTyped, ForksTyped', Accounted, NEW p \in DOMAIN procs, ForkFails(p)
  PROVE  Accounted'
<1> DEFINE me == procs[p]
           goal == IF run.program = "forkloop" THEN "exit" ELSE AfterFork
           new == [me EXCEPT !.at = goal, !.n = -1]
<1>1. /\ procs' = [procs EXCEPT ![p] = new] /\ fork_failed' /\ out' = out
      /\ run' = run /\ tty' = tty
  BY DEF ForkFails
<1>2. me \in AnyProcess /\ me.i \in Nat
  <2>1. me \in AnyProcess
    BY RoundKnown, Zenon
  <2> QED
    BY <2>1 DEF AnyProcess
<1>3. goal \in {"exit", "B", "print"}
  BY DEF AfterFork
<1> HIDE DEF goal
<1>4. new \in AnyProcess /\ new.at = goal /\ new.i = me.i /\ new.stdout = me.stdout
  <2>1. -1 \in -1 .. 1
    OBVIOUS
  <2>2. goal \in Letters \cup {"test", "fork", "print", "wait", "exit", "zombie", "reaped"}
    BY <1>3 DEF Letters
  <2> QED
    BY <1>2, <2>1, <2>2, MovedWithN, Zenon
<1>5. Onward(me, new)
  BY <1>1, <1>2, <1>3, <1>4 DEF Onward, Early
<1> HIDE DEF new
<1>6. DOMAIN procs' = DOMAIN procs /\ \A q \in DOMAIN procs : Onward(procs[q], procs'[q])
  <2>1. ASSUME NEW q \in DOMAIN procs PROVE procs'[q] = IF q = p THEN new ELSE procs[q]
    BY <1>1
  <2>2. DOMAIN procs' = DOMAIN procs
    BY <1>1
  <2> QED
    BY <1>5, <2>1, <2>2, StaysOnward, Zenon
<1>7. Descent'
  <2>1. Descent
    BY Zenon DEF Accounted
  <2> QED
    BY <1>1, <1>6, <2>1, DescentKept, Zenon
<1> QED
  BY <1>1, <1>6, <1>7, Zenon DEF Accounted

LEMMA PrintLineAccounts ==
  ASSUME ForksTyped, ForksTyped', InLoop, Accounted, NEW p \in DOMAIN procs, PrintLine(p)
  PROVE  Accounted'
<1> DEFINE me == procs[p]
           line_ == [pid |-> p, ppid |-> getppid(p), i |-> me.i]
           new == IF Waiting THEN [me EXCEPT !.at = IF me.n < 0 THEN "exit" ELSE "wait"]
                  ELSE [me EXCEPT !.at = "test", !.i = @ + 1]
           longer == [new EXCEPT !.stdout = Append(@, line_)]
           b == Len(me.stdout)
           i == me.i
<1>1. me.at = "print" /\ printf(p, line_, new) /\ Steady
  BY Zenon DEF PrintLine, Steady
<1>2. /\ me \in AnyProcess /\ AtRound(b, i + 1, run, tty)
      /\ run \in [program : Programs, iterations : Nat] /\ tty \in BOOLEAN
  BY <1>1, RoundKnown, Zenon
<1>3. run.program # "simplefork" /\ (me.n = -1 => fork_failed)
  BY <1>1, Zenon DEF InLoop, Accounted, Descent
<1>4. me.n \in -1 .. 1 /\ i \in Nat /\ b \in Nat /\ me.stdout \in Seq(AnyLine)
  BY <1>2 DEF AnyProcess
<1>5. new \in AnyProcess /\ new.stdout = me.stdout /\ new.n = me.n
      /\ \/ Waiting /\ new.i = i /\ new.at = "exit" /\ me.n = -1
         \/ Waiting /\ new.i = i /\ new.at = "wait"
         \/ new.at = "test" /\ new.i = i + 1
  <2>1. CASE Waiting
    <3> DEFINE goal == IF me.n < 0 THEN "exit" ELSE "wait"
    <3>1. (goal = "exit" /\ me.n = -1) \/ goal = "wait"
      BY <1>4
    <3>2. new = [me EXCEPT !.at = goal]
      BY <2>1, Zenon
    <3> HIDE DEF goal, new
    <3>3. goal \in Letters \cup {"test", "fork", "print", "wait", "exit", "zombie", "reaped"}
      BY <3>1
    <3>4. new \in AnyProcess /\ new.at = goal /\ new.i = i /\ new.stdout = me.stdout /\ new.n = me.n
      BY <1>2, <3>2, <3>3, Moved
    <3> QED
      BY <2>1, <3>1, <3>4, Zenon
  <2>2. CASE ~ Waiting
    <3>1. new = [me EXCEPT !.at = "test", !.i = @ + 1]
      BY <2>2, Zenon
    <3>2. /\ new \in AnyProcess /\ new.at = "test" /\ new.i = i + 1 /\ new.stdout = me.stdout
          /\ new.n = me.n
      BY <1>2, <3>1, NextRound, Zenon
    <3> QED
      BY <3>2, Zenon
  <2> QED
    BY <2>1, <2>2
<1> HIDE DEF new
<1>6. Onward(me, new)
  BY <1>3, <1>4, <1>5 DEF Onward, Early
<1>7. /\ longer.at = new.at /\ longer.i = new.i /\ longer.n = new.n /\ Len(longer.stdout) = b + 1
      /\ Len(new.stdout) = b
  BY <1>4, <1>5 DEF AnyProcess
<1>8. me.i = i /\ Len(me.stdout) = b
  OBVIOUS
<1> HIDE DEF longer, line_, me, b, i
<1>9. Due(p, me, run, tty) = Printing(p, b, i + 1, run, tty)
  BY <1>1, <1>8, DuePrinting, Zenon
<1>10. ASSUME ~ fork_failed, NEW next_, next_.at = new.at, next_.i = new.i
       PROVE  Due(p, next_, run, tty) = ToCome(p, Len(next_.stdout), i + 1, run, tty)
  <2>1. CASE next_.at = "wait"
    <3>1. next_.i = i
      BY <1>5, <1>10, <2>1
    <3> QED
      BY <2>1, <3>1, DueWaiting, Zenon
  <2>2. CASE next_.at = "test"
    <3>1. next_.i = i + 1
      BY <1>5, <1>10, <2>2
    <3> QED
      BY <2>2, <3>1, DueInRound, Zenon
  <2> QED
    BY <1>3, <1>5, <1>10, <2>1, <2>2
<1>11. ASSUME ~ fork_failed
       PROVE  IF tty THEN Due(p, me, run, tty) = 1 + Due(p, new, run, tty)
              ELSE Due(p, me, run, tty) = Due(p, longer, run, tty)
  <2>1. Due(p, new, run, tty) = ToCome(p, b, i + 1, run, tty)
    BY <1>7, <1>10, <1>11, Zenon
  <2>2. Due(p, longer, run, tty) = ToCome(p, b + 1, i + 1, run, tty)
    BY <1>7, <1>10, <1>11, Zenon
  <2>3. Due(p, me, run, tty)
          = IF tty THEN 1 + ToCome(p, b, i + 1, run, tty) ELSE ToCome(p, b + 1, i + 1, run, tty)
    BY <1>9, Zenon DEF Printing
  <2> QED
    BY <2>1, <2>2, <2>3, Zenon
<1>12. PrintSettled(p, line_, new)
  BY <1>11, Zenon DEF PrintSettled, longer, me
<1> QED
  BY <1>1, <1>5, <1>6, <1>12, PrintSettles, Zenon DEF me

LEMMA WaitAccounts ==
  ASSUME ForksTyped, ForksTyped', Accounted, NEW p \in DOMAIN procs, Wait(p), InLoop
  PROVE  Accounted'
<1> DEFINE me == procs[p]
           new == [me EXCEPT !.at = "test", !.i = @ + 1]
<1>1. me.at = "wait" /\ Steady /\ out' = out
  BY DEF Wait, Steady
<1>2. me \in AnyProcess
  BY RoundKnown, Zenon
<1>3. /\ new \in AnyProcess /\ new.at = "test" /\ new.i = me.i + 1 /\ new.stdout = me.stdout
      /\ new.n = me.n
  BY <1>2, NextRound, Zenon
<1>4. \/ procs' = [procs EXCEPT ![p] = new]
      \/ \E q \in DOMAIN procs : procs[q].at = "zombie"
                               /\ procs' = [[procs EXCEPT ![p] = new] EXCEPT ![q].at = "reaped"]
  BY DEF Wait, Children
<1>5. me.i \in Nat
  BY <1>2 DEF AnyProcess
<1>6. Onward(me, new)
  BY <1>1, <1>3, <1>5 DEF Onward
<1> HIDE DEF new, me
<1>7. Due(p, me, run, tty) = ToCome(p, Len(me.stdout), me.i + 1, run, tty)
  BY <1>1, DueWaiting, Zenon
<1>8. Due(p, new, run, tty) = ToCome(p, Len(me.stdout), me.i + 1, run, tty)
  <2>1. Due(p, new, run, tty) = ToCome(p, Len(new.stdout), new.i, run, tty)
    BY <1>3, DueInRound, Zenon
  <2> QED
    BY <1>3, <2>1, Zenon
<1>9. Settled(p, new, 0)
  <2>1. Due(p, me, run, tty) \in Nat
    BY RunKnown, DueCounts DEF ForksTyped, me
  <2> QED
    BY <1>7, <1>8, <2>1 DEF Settled, me
<1>10. Writes(0)
  BY <1>1, NothingWritten
<1>11. CASE procs' = [procs EXCEPT ![p] = new]
  BY <1>1, <1>6, <1>9, <1>10, <1>11, MoveSettles, Zenon DEF me
<1>12. ASSUME NEW q \in DOMAIN procs, procs[q].at = "zombie",
              procs' = [[procs EXCEPT ![p] = new] EXCEPT ![q].at = "reaped"]
       PROVE  Accounted'
  <2> DEFINE gone == [procs[q] EXCEPT !.at = "reaped"]
  <2>1. q # p
    BY <1>1, <1>12 DEF me
  <2>2. /\ DOMAIN procs' = DOMAIN procs /\ procs'[p] = new /\ procs'[q] = gone
        /\ \A r \in DOMAIN procs \ {p, q} : procs'[r] = procs[r]
    BY <1>12, <2>1
  <2>3. gone.at = "reaped" /\ gone.i = procs[q].i /\ gone.n = procs[q].n /\ procs[q].i \in Nat
    <3>1. procs[q] \in AnyProcess
      BY RoundKnown, Zenon
    <3> QED
      BY <3>1 DEF AnyProcess
  <2> HIDE DEF gone
  <2>4. Due(q, gone, run, tty) = 0 /\ Due(q, procs[q], run, tty) = 0
    BY <1>12, <2>3, DueGone, Zenon
  <2>5. OneDue(p, new)
    <3>1. ASSUME NEW r \in DOMAIN procs \ {p} PROVE Due(r, procs'[r], run, tty) = Due(r, procs[r], run, tty)
      BY <2>2, <2>4
    <3> QED
      BY <2>2, <3>1, Zenon DEF OneDue
  <2>6. Onward(procs[q], gone)
    BY <2>3 DEF Onward, Early
  <2>7. \A r \in DOMAIN procs : Onward(procs[r], procs'[r])
    <3>1. ASSUME NEW r \in DOMAIN procs PROVE Onward(procs[r], procs'[r])
      <4>1. CASE r = p
        BY <1>6, <2>2, <4>1, Zenon DEF me
      <4>2. CASE r = q
        BY <2>2, <2>6, <4>2, Zenon
      <4>3. CASE r \notin {p, q}
        <5>1. procs'[r] = procs[r]
          BY <2>2, <4>3
        <5> QED
          BY <5>1, StaysOnward, Zenon
      <4> QED
        BY <4>1, <4>2, <4>3
    <3> QED
      BY <3>1, Zenon
  <2>8. Descent'
    <3>1. Descent /\ (fork_failed => fork_failed')
      BY <1>1, Zenon DEF Accounted, Steady
    <3> QED
      BY <2>2, <2>7, <3>1, DescentKept, Zenon
  <2> QED
    BY <1>1, <1>9, <1>10, <2>5, <2>8, Settles, Zenon
<1> QED
  BY <1>4, <1>11, <1>12, Zenon

(* When the value of one member is shared with a new one, the sum stays. *)
Sharing(f, p, c, x, y) ==
  /\ Summable(f, DOMAIN f) /\ p \in DOMAIN f /\ c \notin DOMAIN f
  /\ x \in Nat /\ y \in Nat /\ f[p] = x + y

SharedOut(f, p, c, x, y) ==
  [q \in DOMAIN f \cup {c} |-> IF q = c THEN y ELSE IF q = p THEN x ELSE f[q]]

LEMMA SharedSum ==
  ASSUME NEW f, NEW p, NEW c, NEW x, NEW y, Sharing(f, p, c, x, y)
  PROVE  SumFunction(SharedOut(f, p, c, x, y)) = SumFunction(f)
<1> DEFINE mid == [q \in DOMAIN f |-> IF q = p THEN x ELSE f[q]]
           g == SharedOut(f, p, c, x, y)
<1>1. /\ IsFiniteSet(DOMAIN f) /\ (\A q \in DOMAIN f : f[q] \in Nat)
      /\ p \in DOMAIN f /\ c \notin DOMAIN f /\ x \in Nat /\ y \in Nat /\ f[p] = x + y
  BY DEF Sharing, Summable
<1>2. /\ DOMAIN mid = DOMAIN f /\ DOMAIN g = DOMAIN f \cup {c} /\ mid[p] = x /\ g[c] = y
      /\ \A q \in DOMAIN f \ {p} : mid[q] = f[q]
      /\ \A q \in DOMAIN f : g[q] = mid[q]
  BY <1>1 DEF SharedOut
<1> HIDE DEF mid, g
<1>3. Summable(mid, DOMAIN mid)
  BY <1>1, <1>2 DEF Summable
<1>4. Summable(g, DOMAIN g)
  <2>1. IsFiniteSet(DOMAIN g)
    BY <1>1, <1>2, FS_AddElement
  <2> QED
    BY <1>1, <1>2, <1>3, <2>1 DEF Summable
<1>5. OneDiffers(f, mid, p)
  <2>1. Summable(f, DOMAIN f)
    BY Zenon DEF Sharing
  <2> QED
    BY <1>1, <1>2, <1>3, <2>1 DEF OneDiffers, Agree
<1>6. OneDiffers(mid, g, c)
  BY <1>1, <1>2, <1>3, <1>4 DEF OneDiffers, Agree
<1>7. /\ SumFunction(f) \in Nat /\ SumFunction(mid) \in Nat
      /\ SumFunction(mid) + ValueAt(f, p) = SumFunction(f) + mid[p]
  BY <1>5, SumChanges, Zenon
<1>8. SumFunction(g) \in Nat /\ SumFunction(g) + ValueAt(mid, c) = SumFunction(mid) + g[c]
  BY <1>6, SumChanges, Zenon
<1>9. ValueAt(f, p) = x + y /\ ValueAt(mid, c) = 0
  BY <1>1, <1>2 DEF ValueAt
<1>10. SumFunction(g) = SumFunction(f)
  <2>1. SumFunction(mid) + (x + y) = SumFunction(f) + x
    BY <1>2, <1>7, <1>9, Zenon
  <2>2. SumFunction(g) + 0 = SumFunction(mid) + y
    BY <1>2, <1>8, <1>9, Zenon
  <2>3. x \in Nat /\ y \in Nat /\ SumFunction(f) \in Nat /\ SumFunction(mid) \in Nat
        /\ SumFunction(g) \in Nat
    BY <1>1, <1>7, <1>8, Zenon
  <2> QED
    BY ONLY <2>1, <2>2, <2>3
<1> QED
  BY <1>10 DEF g

LEMMA ChildIsNew ==
  ASSUME ForksTyped, Descent, NEW p \in DOMAIN procs, procs[p].at = "fork"
  PROVE  LET c == Append(p, procs[p].i) IN
           /\ c \notin DOMAIN procs /\ c # p /\ c # <<>> /\ Front(c) = p /\ Last(c) = procs[p].i
           /\ p = <<>> => (c = FirstChild <=> procs[p].i = 0)
           /\ p # <<>> => c # FirstChild
<1> DEFINE k == procs[p].i
           c == Append(p, k)
<1>1. k \in Nat
  <2>1. procs[p] \in AnyProcess
    BY RoundKnown, Zenon
  <2> QED
    BY <2>1 DEF AnyProcess
<1>2. p \in Seq(Nat)
  <2>1. p \in Seq(0 .. run.iterations) /\ run.iterations \in Nat
    BY RunKnown DEF ForksTyped
  <2>2. 0 .. run.iterations \subseteq Nat
    BY <2>1
  <2> QED
    BY <2>1, <2>2, SeqGrows, Zenon
<1> HIDE DEF k
<1>3. c # <<>> /\ Front(c) = p /\ Last(c) = k
  BY <1>1, <1>2, ChildNames, Zenon
<1>4. p = <<>> => (c = FirstChild <=> k = 0)
  BY <1>1 DEF FirstChild
<1>5. p # <<>> => c # FirstChild
  <2>1. Len(c) = Len(p) + 1 /\ Len(p) \in Nat /\ (p # <<>> => Len(p) # 0) /\ Len(FirstChild) = 1
    BY <1>1, <1>2 DEF FirstChild
  <2> QED
    BY <2>1
<1>6. c # p
  <2>1. Len(c) = Len(p) + 1 /\ Len(p) \in Nat
    BY <1>1, <1>2
  <2> QED
    BY <2>1
<1> HIDE DEF c
<1>7. c \notin DOMAIN procs
  <2> SUFFICES ASSUME c \in DOMAIN procs PROVE FALSE
    OBVIOUS
  <2>1. procs[Front(c)].at \in Early => Last(c) < procs[Front(c)].i
    BY <1>3, Zenon DEF Descent
  <2>2. procs[p].at \in Early => k < procs[p].i
    BY <1>3, <2>1, Zenon
  <2> QED
    BY <1>1, <2>2 DEF Early, k
<1> QED
  BY <1>3, <1>4, <1>5, <1>6, <1>7, Zenon DEF c, k

LEMMA ForkAccounts ==
  ASSUME ForksTyped, ForksTyped', ForksInv, Accounted, NEW p \in DOMAIN procs, Fork(p)
  PROVE  Accounted'
<1> DEFINE me == procs[p]
           c == Append(p, me.i)
           kid == [me EXCEPT !.at = AfterFork, !.n = 0]
           own == [me EXCEPT !.at = AfterFork, !.n = 1]
           b == Len(me.stdout)
<1>1. /\ me.at = "fork" /\ Steady /\ out' = out
      /\ procs' = [q \in DOMAIN procs \cup {c} |-> IF q = c THEN kid ELSE IF q = p THEN own ELSE procs[q]]
  BY DEF Fork, Steady
<1>2. Descent /\ FiniteBag(out) /\ IsFiniteSet(DOMAIN procs)
  BY Zenon DEF Accounted
<1>3. /\ c \notin DOMAIN procs /\ c # p /\ c # <<>> /\ Front(c) = p /\ Last(c) = me.i
      /\ p = <<>> => (c = FirstChild <=> me.i = 0)
      /\ p # <<>> => c # FirstChild
  BY <1>1, <1>2, ChildIsNew
<1>4. me \in AnyProcess /\ AtRound(b, me.i, run, tty) /\ me.i \in Nat
  <2>1. me \in AnyProcess /\ AtRound(b, me.i, run, tty)
    BY RoundKnown, Zenon
  <2> QED
    BY <2>1, Zenon DEF AtRound
<1>5. AfterFork \in Letters \cup {"test", "fork", "print", "wait", "exit", "zombie", "reaped"}
      /\ AfterFork \notin Early
  BY DEF AfterFork, Letters, Early
<1>6. /\ kid \in AnyProcess /\ kid.at = AfterFork /\ kid.i = me.i /\ kid.stdout = me.stdout
      /\ own \in AnyProcess /\ own.at = AfterFork /\ own.i = me.i /\ own.stdout = me.stdout
      /\ kid.n = 0 /\ own.n = 1
  <2>1. 0 \in -1 .. 1 /\ 1 \in -1 .. 1
    OBVIOUS
  <2>2. kid \in AnyProcess /\ kid.at = AfterFork /\ kid.i = me.i /\ kid.stdout = me.stdout
    BY <1>4, <1>5, <2>1, MovedWithN, Zenon
  <2>3. own \in AnyProcess /\ own.at = AfterFork /\ own.i = me.i /\ own.stdout = me.stdout
    BY <1>4, <1>5, <2>1, MovedWithN, Zenon
  <2>4. kid.n = 0 /\ own.n = 1
    BY <1>4, <2>1, MovedN, Zenon
  <2> QED
    BY <2>2, <2>3, <2>4, Zenon
<1>7. Len(kid.stdout) = b /\ Len(own.stdout) = b /\ b \in Nat
  BY <1>4, <1>6, Zenon DEF AtRound
<1>8. run \in [program : Programs, iterations : Nat] /\ tty \in BOOLEAN /\ InRound(me, run, tty)
  BY RunKnown DEF ForksTyped
<1> HIDE DEF kid, own, c, me, b
<1>9. /\ DOMAIN procs' = DOMAIN procs \cup {c} /\ procs'[c] = kid /\ procs'[p] = own
      /\ \A q \in DOMAIN procs \ {p} : procs'[q] = procs[q]
  BY <1>1, <1>3
<1>10. Descent'
  <2>1. ASSUME NEW r \in DOMAIN procs
        PROVE  /\ procs'[r].i = procs[r].i
               /\ procs'[r].at \in Early => procs[r].at \in Early
               /\ procs'[r].n = -1 => procs[r].n = -1
    <3>1. CASE r = p
      BY <1>5, <1>6, <1>9, <3>1 DEF me
    <3>2. CASE r # p
      BY <1>9, <3>2
    <3> QED
      BY <3>1, <3>2
  <2>2. ASSUME NEW q \in DOMAIN procs'
        PROVE  /\ procs'[q].n = -1 => fork_failed'
               /\ q # <<>> =>
                    /\ Front(q) \in DOMAIN procs'
                    /\ Last(q) <= procs'[Front(q)].i
                    /\ procs'[Front(q)].at \in Early => Last(q) < procs'[Front(q)].i
    <3>1. CASE q = c
      <4>1. procs'[q].n # -1
        BY <1>6, <1>9, <3>1
      <4>2. Front(q) = p /\ Last(q) = me.i /\ procs'[p].i = me.i /\ procs'[p].at \notin Early
        BY <1>3, <1>5, <1>6, <1>9, <3>1
      <4>3. me.i <= me.i
        BY <1>4
      <4> QED
        BY <1>9, <4>1, <4>2, <4>3, Zenon
    <3>2. CASE q # c
      <4>1. q \in DOMAIN procs
        BY <1>9, <3>2
      <4>2. /\ procs[q].n = -1 => fork_failed
            /\ q # <<>> =>
                 /\ Front(q) \in DOMAIN procs
                 /\ Last(q) <= procs[Front(q)].i
                 /\ procs[Front(q)].at \in Early => Last(q) < procs[Front(q)].i
        BY <1>2, <4>1, Zenon DEF Descent
      <4>3. fork_failed => fork_failed'
        BY <1>1, Zenon DEF Steady
      <4>4. \A r \in DOMAIN procs : r \in DOMAIN procs'
        BY <1>9
      <4>5. procs'[q].n = -1 => fork_failed'
        BY <2>1, <4>1, <4>2, <4>3, Zenon
      <4>6. ASSUME q # <<>>
            PROVE  /\ Front(q) \in DOMAIN procs'
                   /\ Last(q) <= procs'[Front(q)].i
                   /\ procs'[Front(q)].at \in Early => Last(q) < procs'[Front(q)].i
        <5> PICK r : r = Front(q)
          OBVIOUS
        <5>1. /\ r \in DOMAIN procs /\ Last(q) <= procs[r].i
              /\ procs[r].at \in Early => Last(q) < procs[r].i
          BY <4>2, <4>6, Zenon
        <5>2. /\ procs'[r].i = procs[r].i
              /\ procs'[r].at \in Early => procs[r].at \in Early
          BY <2>1, <5>1, Zenon
        <5>3. /\ r \in DOMAIN procs' /\ Last(q) <= procs'[r].i
              /\ procs'[r].at \in Early => Last(q) < procs'[r].i
          BY <4>4, <5>1, <5>2
        <5> QED
          BY <5>3
      <4> QED
        BY <4>5, <4>6, Zenon
    <3> QED
      BY <3>1, <3>2
  <2> QED
    BY <2>2, Zenon DEF Descent
<1>11. Due(p, own, run, tty) \in Nat /\ Due(c, kid, run, tty) \in Nat
  <2>1. run' = run /\ tty' = tty
    BY <1>1 DEF Steady
  <2>2. InRound(procs'[p], run', tty') /\ InRound(procs'[c], run', tty')
    BY <1>9, Zenon DEF ForksTyped
  <2>3. InRound(own, run, tty) /\ InRound(kid, run, tty)
    BY <1>9, <2>1, <2>2, Zenon
  <2> QED
    BY <1>8, <2>3, DueCounts
<1>12. ASSUME ~ fork_failed
       PROVE  Due(p, me, run, tty) = Due(p, own, run, tty) + Due(c, kid, run, tty)
  <2>1. CASE run.program = "simplefork"
    <3>1. own.at = "B" /\ kid.at = "B"
      BY <1>6, <2>1 DEF AfterFork
    <3>2. Due(p, own, run, tty) = b + 3
      BY <1>7, <3>1, DueSimply, Zenon
    <3>3. Due(c, kid, run, tty) = b + 3
      BY <1>7, <3>1, DueSimply, Zenon
    <3>4. Due(p, me, run, tty) = 2 * (b + 3)
      BY <1>1, <2>1, DueSimply, Zenon DEF me, b
    <3> QED
      BY <1>7, <3>2, <3>3, <3>4
  <2>2. CASE run.program # "simplefork"
    <3>1. own.at = "print" /\ kid.at = "print"
      BY <1>6, <2>2 DEF AfterFork
    <3>2. Due(p, own, run, tty) = Printing(p, b, me.i + 1, run, tty)
      <4>1. Due(p, own, run, tty) = Printing(p, Len(own.stdout), own.i + 1, run, tty)
        BY <3>1, DuePrinting, Zenon
      <4> QED
        BY <1>6, <1>7, <4>1, Zenon
    <3>3. Due(c, kid, run, tty) = Printing(c, b, me.i + 1, run, tty)
      <4>1. Due(c, kid, run, tty) = Printing(c, Len(kid.stdout), kid.i + 1, run, tty)
        BY <3>1, DuePrinting, Zenon
      <4> QED
        BY <1>6, <1>7, <4>1, Zenon
    <3>4. Due(p, me, run, tty) = ToCome(p, b, me.i, run, tty)
      BY <1>1, <2>2, DueInRound, Zenon DEF me, b
    <3>5. me.i < run.iterations
      BY <1>1, <1>8, <2>2 DEF InRound
    <3>6. run.program # "forkloop" => GoesOn(p, me.i, run)
      <4> SUFFICES ASSUME run.program # "forkloop" PROVE GoesOn(p, me.i, run)
        OBVIOUS
      <4>1. run.program \in {"simplefork", "forkloop", "parentcreates", "childcreates"}
        BY <1>8 DEF Programs
      <4>2. Waiting
        BY <2>2, <4>1 DEF Waiting
      <4>3. Rounds
        BY <4>2, Zenon DEF ForksInv
      <4>4. ForksIn(p, me.i)
        BY <1>1, <1>12, <4>3, Zenon DEF Rounds, me
      <4> QED
        BY <4>4, SameGoesOn, Zenon
    <3>7. ToCome(p, b, me.i, run, tty)
            = Printing(p, b, me.i + 1, run, tty) + Printing(c, b, me.i + 1, run, tty)
      BY ONLY <1>3, <1>4, <2>2, <3>5, <3>6, ForkShares
    <3> QED
      BY <3>2, <3>3, <3>4, <3>7, Zenon
  <2> QED
    BY <2>1, <2>2
<1>13. IsFiniteSet(DOMAIN procs')
  BY <1>2, <1>9, FS_AddElement
<1>14. ASSUME ~ fork_failed' PROVE SumFunction(out') + SumFunction(Dues') = Lines'
  <2>1. ~ fork_failed /\ run' = run /\ tty' = tty
    BY <1>1, <1>14 DEF Steady
  <2>2. SumFunction(out) + SumFunction(Dues) = Lines /\ Lines' = Lines /\ out' = out
    BY <1>1, <2>1 DEF Accounted, Lines
  <2>3. Dues' = SharedOut(Dues, p, c, Due(p, own, run, tty), Due(c, kid, run, tty))
    <3>1. Dues' = [q \in DOMAIN procs' |-> Due(q, procs'[q], run, tty)]
      BY <2>1, Zenon DEF Dues
    <3>2. DOMAIN Dues = DOMAIN procs /\ \A q \in DOMAIN procs : Dues[q] = Due(q, procs[q], run, tty)
      BY DEF Dues
    <3>3. ASSUME NEW q \in DOMAIN procs \cup {c}
          PROVE  Due(q, procs'[q], run, tty) =
                   IF q = c THEN Due(c, kid, run, tty)
                   ELSE IF q = p THEN Due(p, own, run, tty) ELSE Dues[q]
      BY <1>9, <3>2, <3>3
    <3> QED
      BY <1>9, <3>1, <3>2, <3>3 DEF SharedOut
  <2>4. Sharing(Dues, p, c, Due(p, own, run, tty), Due(c, kid, run, tty))
    <3>1. ASSUME NEW q \in DOMAIN procs PROVE Due(q, procs[q], run, tty) \in Nat
      <4>1. InRound(procs[q], run, tty)
        BY Zenon DEF ForksTyped
      <4> QED
        BY <1>8, <4>1, DueCounts
    <3>2. Summable(Dues, DOMAIN Dues) /\ DOMAIN Dues = DOMAIN procs /\ Dues[p] = Due(p, me, run, tty)
      BY <1>2, <3>1 DEF Summable, Dues, me
    <3>3. Dues[p] = Due(p, own, run, tty) + Due(c, kid, run, tty)
      BY <1>12, <2>1, <3>2, Zenon
    <3>4. p \in DOMAIN Dues /\ c \notin DOMAIN Dues
      BY <1>3, <3>2
    <3> QED
      BY <1>11, <3>2, <3>3, <3>4, Zenon DEF Sharing
  <2>5. SumFunction(Dues') = SumFunction(Dues)
    <3> PICK e : e = Dues'
      OBVIOUS
    <3>1. e = SharedOut(Dues, p, c, Due(p, own, run, tty), Due(c, kid, run, tty))
      BY <2>3
    <3>2. SumFunction(e) = SumFunction(Dues)
      BY <2>4, <3>1, SharedSum
    <3> QED
      BY <3>2
  <2> QED
    BY <2>2, <2>5, Zenon
<1>15. FiniteBag(out')
  BY <1>1, <1>2, Zenon
<1> QED
  BY <1>10, <1>13, <1>14, <1>15, Zenon DEF Accounted

LEMMA AccountedInit == ForksInit => Accounted
<1> SUFFICES ASSUME ForksInit PROVE Accounted
  OBVIOUS
<1> DEFINE root == <<>>
           me == [at |-> IF run.program = "simplefork" THEN "A" ELSE "test",
                  i |-> 0, n |-> 0, stdout |-> <<>>]
           empty == [p \in {} |-> 0]
<1>1. /\ DOMAIN procs = {root} /\ procs[root] = me /\ out = EmptyBag
      /\ run \in [program : Programs, iterations : Nat] /\ tty \in BOOLEAN
  BY ForksAssumption DEF ForksInit
<1>2. FiniteBag(out) /\ SumFunction(out) = 0
  <2>1. DOMAIN out = {} /\ IsABag(out)
    BY <1>1 DEF EmptyBag, SetToBag, IsABag
  <2>2. IsFiniteSet(DOMAIN out)
    BY <2>1, FS_EmptySet, Zenon
  <2> QED
    BY <2>1, <2>2, SumOfNothing DEF FiniteBag
<1>3. IsFiniteSet(DOMAIN procs)
  BY <1>1, FS_Singleton, Zenon
<1>4. Descent
  <2>1. me.n = 0
    OBVIOUS
  <2> HIDE DEF me
  <2> QED
    BY <1>1, <2>1 DEF Descent
<1>5. me.at = (IF run.program = "simplefork" THEN "A" ELSE "test") /\ me.i = 0 /\ Len(me.stdout) = 0
  OBVIOUS
<1> HIDE DEF me
<1>6. Due(root, me, run, tty) = Lines
  <2> PICK n : n = run.iterations
    OBVIOUS
  <2>1. n \in Nat /\ n = run.iterations
    BY <1>1
  <2>2. CASE run.program = "simplefork"
    <3>1. Due(root, me, run, tty) = IF tty THEN 7 ELSE 2 * (0 + 4)
      BY <1>5, <2>2, DueAt
    <3> QED
      BY <2>2, <3>1 DEF Lines
  <2>3. CASE run.program # "simplefork"
    <3>1. Due(root, me, run, tty) = ToCome(root, 0, 0, run, tty)
      BY <1>5, <2>3, DueInRound, Zenon
    <3>2. CASE run.program = "forkloop"
      <4>1. twoTo[n] \in Nat
        BY <2>1, PowersOfTwo
      <4>2. ToCome(root, 0, 0, run, tty) = LoopLines(0, n - 0, tty) /\ n - 0 = n
        BY <2>1, <3>2 DEF ToCome
      <4>3. Lines = IF tty THEN 2 * (twoTo[n] - 1) ELSE n * twoTo[n]
        BY <2>1, <3>2 DEF Lines
      <4>4. LoopLines(0, n, tty) = IF tty THEN 2 * (twoTo[n] - 1) ELSE n * twoTo[n] + 0 * twoTo[n]
        BY Zenon DEF LoopLines
      <4> PICK m : m = n * twoTo[n]
        OBVIOUS
      <4>5. n * twoTo[n] + 0 * twoTo[n] = n * twoTo[n]
        BY <2>1, <4>1
      <4> QED
        BY <3>1, <4>2, <4>3, <4>4, <4>5, Zenon
    <3>3. CASE run.program # "forkloop"
      <4>1. GoesOn(root, 0, run)
        BY DEF GoesOn
      <4>2. ToCome(root, 0, 0, run, tty) = WaitLines(0, n - 0, tty) /\ n - 0 = n
        BY <2>1, <3>3, <4>1 DEF ToCome
      <4>3. Lines = IF tty THEN 2 * n ELSE n + (n * (n + 1)) \div 2
        BY <2>1, <2>3, <3>3 DEF Lines
      <4>4. WaitLines(0, n, tty) = IF tty THEN 2 * n ELSE 0 + n + n * 0 + (n * (n + 1)) \div 2
        BY Zenon DEF WaitLines
      <4>5. 0 + n + n * 0 = n
        BY <2>1
      <4> QED
        BY <3>1, <4>2, <4>3, <4>4, <4>5, Zenon
    <3> QED
      BY <3>2, <3>3
  <2> QED
    BY <2>2, <2>3
<1>7. SumFunction(Dues) = Due(root, me, run, tty)
  <2>1. DOMAIN Dues = {root} /\ Dues[root] = Due(root, me, run, tty)
    BY <1>1 DEF Dues
  <2>2. Dues[root] \in Nat
    <3>1. InRound(me, run, tty)
      BY <1>1, ForksTypedInit, Zenon DEF ForksTyped
    <3> QED
      BY <1>1, <2>1, <3>1, DueCounts
  <2>3. Summable(Dues, DOMAIN Dues)
    BY <1>1, <1>3, <2>1, <2>2 DEF Summable
  <2>4. DOMAIN empty = {} /\ IsFiniteSet({})
    BY FS_EmptySet
  <2> HIDE DEF empty, root
  <2>5. SumFunction(empty) = 0
    BY <2>4, SumOfNothing
  <2>6. OneDiffers(empty, Dues, root)
    BY <2>1, <2>3, <2>4 DEF OneDiffers, Summable, Agree
  <2>7. ValueAt(empty, root) = 0
    BY <2>4 DEF ValueAt
  <2>8. SumFunction(Dues) \in Nat /\ SumFunction(Dues) + ValueAt(empty, root) = SumFunction(empty) + Dues[root]
    BY <2>6, SumChanges, Zenon
  <2>9. SumFunction(Dues) = Dues[root]
    BY <2>2, <2>5, <2>7, <2>8
  <2> QED
    BY <2>1, <2>9, Zenon
<1>8. SumFunction(out) + SumFunction(Dues) = Lines
  <2>1. InRound(me, run, tty)
    BY <1>1, ForksTypedInit, Zenon DEF ForksTyped
  <2>2. Due(root, me, run, tty) \in Nat
    BY <1>1, <2>1, DueCounts
  <2>3. 0 + Due(root, me, run, tty) = Due(root, me, run, tty)
    BY <2>2
  <2> QED
    BY <1>2, <1>6, <1>7, <2>3, Zenon
<1> QED
  BY <1>2, <1>3, <1>4, <1>8, Zenon DEF Accounted

LEMMA AccountedSteps ==
  ForksTyped /\ ForksInv /\ InLoop /\ Accounted /\ [ForksNext]_forksVars => Accounted'
<1> SUFFICES ASSUME ForksTyped, ForksInv, InLoop, Accounted, [ForksNext]_forksVars PROVE Accounted'
  OBVIOUS
<1>1. ForksTyped'
  BY ForksTypedSteps, Zenon
<1>2. CASE UNCHANGED forksVars
  <2>1. out' = out /\ procs' = procs /\ run' = run /\ tty' = tty /\ fork_failed' = fork_failed
    BY <1>2 DEF forksVars
  <2>2. Dues' = Dues /\ Lines' = Lines /\ (Descent' <=> Descent)
    BY <2>1 DEF Dues, Lines, Descent
  <2> QED
    BY <2>1, <2>2, Zenon DEF Accounted
<1>3. CASE ForksNext
  <2>1. PICK p \in DOMAIN procs :
          SimplePrint(p) \/ Test(p) \/ Fork(p) \/ ForkFails(p) \/ PrintLine(p) \/ Wait(p) \/ Exit(p)
    BY <1>3, Zenon DEF ForksNext
  <2> QED
    BY <1>1, <2>1, SimplePrintAccounts, TestAccounts, ForkAccounts, ForkFailsAccounts,
       PrintLineAccounts, WaitAccounts, ExitAccounts, Zenon
<1> QED
  BY <1>2, <1>3

LEMMA AllWritten == ForksTyped /\ Accounted => LinesAddUp
<1> SUFFICES ASSUME ForksTyped, Accounted, AllExited, ~ fork_failed
             PROVE  SumFunction(out) = Lines
  BY Zenon DEF LinesAddUp
<1>1. DOMAIN Dues = DOMAIN procs /\ \A p \in DOMAIN procs : Dues[p] = 0
  <2>1. ASSUME NEW p \in DOMAIN procs PROVE Due(p, procs[p], run, tty) = 0
    <3>1. procs[p].at = "zombie" \/ procs[p].at = "reaped"
      BY DEF AllExited, Alive
    <3> QED
      BY <3>1, DueGone, Zenon
  <2> QED
    BY <2>1 DEF Dues
<1>2. SumFunction(Dues) = 0
  <2>1. IsFiniteSet(DOMAIN Dues)
    BY <1>1, Zenon DEF Accounted
  <2> QED
    BY <1>1, <2>1, SumOfNothing, Zenon
<1>3. SumFunction(out) + SumFunction(Dues) = Lines /\ SumFunction(out) \in Nat
  BY SumsAreNumbers, Zenon DEF Accounted
<1> QED
  BY <1>2, <1>3

(* In each of the exercises on fork, however its processes are interleaved and for any
   number of rounds: when every fork succeeds there are, once all processes have exited,
   as many lines as the program is meant to write, on a terminal and elsewhere. *)
THEOREM LinesAlwaysAddUp == ForksSpec => []LinesAddUp
<1> DEFINE I == ForksTyped /\ ForksInv /\ InLoop /\ Accounted
<1>1. ForksInit => I
  BY ForksTypedInit, ForksStart, InLoopInit, AccountedInit, Zenon
<1>2. I /\ [ForksNext]_forksVars => I'
  BY ForksTypedSteps, ForksSteps, InLoopSteps, AccountedSteps, Zenon
<1>3. I => LinesAddUp
  BY AllWritten, Zenon
<1> QED
  BY <1>1, <1>2, <1>3, PTL DEF ForksSpec

--------------------------------------------------------------------------------
(* The programs side by side. *)

LEMMA ProgramsStart ==
  ProgramsInit =>
    Init /\ ClientInit /\ ValidateInit /\ PidListInit /\ SinInit /\ CountInit /\ ForksInit
  BY Zenon DEF ProgramsInit

(* A step of the programs is one of each program, or leaves it as it is. *)
LEMMA EachSteps ==
  [ProgramsNext]_programVars =>
    /\ [Next]_vars /\ [ClientNext]_clientVars /\ [ValidateNext]_validateVars
    /\ [PidListNext]_pidListVars /\ [SinNext]_sinVars /\ [CountNext]_countVars
    /\ [ForksNext]_forksVars
<1> SUFFICES ASSUME [ProgramsNext]_programVars
             PROVE  /\ [Next]_vars /\ [ClientNext]_clientVars /\ [ValidateNext]_validateVars
                    /\ [PidListNext]_pidListVars /\ [SinNext]_sinVars /\ [CountNext]_countVars
                    /\ [ForksNext]_forksVars
  OBVIOUS
<1>1. CASE UNCHANGED programVars
  <2>1. /\ UNCHANGED vars /\ UNCHANGED clientVars /\ UNCHANGED validateVars
        /\ UNCHANGED pidListVars /\ UNCHANGED sinVars /\ UNCHANGED countVars
        /\ UNCHANGED forksVars
    BY <1>1 DEF programVars
  <2> QED
    BY <2>1, Zenon
<1>2. CASE ProgramsNext
  <2>1. /\ Next \/ program # "lines"
        /\ ClientNext \/ program # "client"
        /\ ValidateNext \/ program # "validate"
        /\ PidListNext \/ program # "pids"
        /\ SinNext \/ program # "sin"
        /\ CountNext \/ program # "count"
        /\ ForksNext \/ program # "forks"
        /\ Rest
    BY <1>2 DEF ProgramsNext
  <2>2. /\ program # "lines" => UNCHANGED vars
        /\ program # "client" => UNCHANGED clientVars
        /\ program # "validate" => UNCHANGED validateVars
        /\ program # "pids" => UNCHANGED pidListVars
        /\ program # "sin" => UNCHANGED sinVars
        /\ program # "count" => UNCHANGED countVars
        /\ program # "forks" => UNCHANGED forksVars
    BY <2>1, Zenon DEF Rest, Idle
  <2> QED
    BY <2>1, <2>2, Zenon
<1> QED
  BY <1>1, <1>2

ProgramsInv ==
  LineInv /\ ScreenInv /\ StatusInv /\ PackedInv /\ SinInv /\ CountInv /\ ForksTyped /\ ForksInv
  /\ InLoop /\ Accounted

LEMMA ProgramsHold == ProgramsSpec => []ProgramsInv
<1>1. ProgramsInit => ProgramsInv
  BY ProgramsStart, LineStart, InitScreen, StatusInit, InitPacked, SinInvInit, CountStarts,
     ForksTypedInit, ForksStart, InLoopInit, AccountedInit, Zenon DEF ProgramsInv
<1>2. ProgramsInv /\ [ProgramsNext]_programVars => ProgramsInv'
  BY EachSteps, LineSteps, StepScreen, StatusStep, StepPacked, SinInvSteps, CountSteps,
     ForksTypedSteps, ForksSteps, InLoopSteps, AccountedSteps, Zenon DEF ProgramsInv
<1> QED
  BY <1>1, <1>2, PTL DEF ProgramsSpec

(* All the small programs are typed, whichever of them runs: no index leaves its array, no
   counter its range, and a Social Insurance Number is checked only when it has all of
   its digits. *)
THEOREM ProgramsAlwaysTyped == ProgramsSpec => []ProgramsTypeOK
<1>1. ProgramsInv => ProgramsTypeOK
  BY ForksTypedOK, Zenon
     DEF ProgramsInv, ProgramsTypeOK, LineInv, ScreenInv, StatusInv, PackedInv, SinInv, SinTyped,
         CountInv
<1> QED
  BY <1>1, ProgramsHold, PTL

(* What is proved above of each of the programs alone holds of them side by side as well. *)
THEOREM ProgramsAlwaysRight ==
  ProgramsSpec =>
    [](LinesAreTheStreams /\ MessagesAreShown /\ StatusIsRight /\ PidsFit
       /\ VerdictIsRight /\ CountsLargeFiles /\ ParentsAwait /\ LinesAddUp)
<1>1. ProgramsInv =>
        LinesAreTheStreams /\ MessagesAreShown /\ StatusIsRight /\ PidsFit
          /\ VerdictIsRight /\ CountsLargeFiles /\ ParentsAwait /\ LinesAddUp
  BY HandedOnRight, ScreenRight, StatusKnown, PackedFits, VerdictKnown, CountedRight,
     KinAwaited, AllWritten, Zenon
     DEF ProgramsInv
<1> QED
  BY <1>1, ProgramsHold, PTL

================================================================================
