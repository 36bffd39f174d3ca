----------------------------- MODULE ChatClientProofs --------------------------
(***************************************************************************)
(* Proofs about ChatClient: for every size of the buffer, any frames and   *)
(* any reads.                                                              *)
(***************************************************************************)
EXTENDS ChatClient, SequenceTheorems, Minimum, TLAPS

--------------------------------------------------------------------------------
(* Positions and frames. *)

LEMMA FrameSize == BUF_SIZE \in Nat /\ FRAME \in Nat \ {0} /\ BUF_SIZE < FRAME
BY ClientAssumption DEF FRAME

(* The quotient and the remainder are what they are for. *)
LEMMA Quotient ==
  ASSUME NEW d \in Nat \ {0}, NEW x \in Int, NEW q \in Int, d * q <= x, x < d * q + d
  PROVE  x \div d = q /\ x % d = x - d * q
<1> DEFINE r == x \div d
<1>1. /\ r \in Int /\ x % d \in Int
      /\ x = d * r + (x % d) /\ 0 <= x % d /\ x % d < d
  BY SMT
<1> HIDE DEF r
<1>2. ASSUME r > q PROVE FALSE
  <2>1. d * r = d * q + d * (r - q) /\ d * (r - q) >= d
    BY <1>1, <1>2, SMT
  <2>2. d * r \in Int /\ d * q \in Int
    BY <1>1, SMT
  <2> QED
    BY <1>1, <2>1, <2>2
<1>3. ASSUME r < q PROVE FALSE
  <2>1. d * q = d * r + d * (q - r) /\ d * (q - r) >= d
    BY <1>1, <1>3, SMT
  <2>2. d * r \in Int /\ d * q \in Int
    BY <1>1, SMT
  <2> QED
    BY <1>1, <2>1, <2>2
<1>4. r = q
  BY <1>1, <1>2, <1>3
<1> QED
  BY <1>1, <1>4 DEF r

(* Every position up to the end of n frames is in one of them. *)
LEMMA FrameOf ==
  ASSUME NEW n \in Nat, NEW x \in 1 .. FRAME * n
  PROVE  /\ (x - 1) \div FRAME + 1 \in 1 .. n
         /\ (x - 1) % FRAME \in 0 .. FRAME - 1
<1> DEFINE q == (x - 1) \div FRAME
<1>1. x \in Int /\ 1 <= x /\ x <= FRAME * n /\ FRAME * n \in Int
  BY FrameSize, SMT
<1>2. /\ q \in Int /\ (x - 1) % FRAME \in Int
      /\ x - 1 = FRAME * q + ((x - 1) % FRAME)
      /\ 0 <= (x - 1) % FRAME /\ (x - 1) % FRAME < FRAME
  BY FrameSize, <1>1, SMT
<1> HIDE DEF q
<1>3. ASSUME q < 0 PROVE FALSE
  <2>1. FRAME * q <= - FRAME /\ FRAME * q \in Int
    <3>1. FRAME * q = - FRAME + FRAME * (q + 1) /\ FRAME * (q + 1) <= 0 /\ FRAME * (q + 1) \in Int
      BY FrameSize, <1>2, <1>3, SMT
    <3> QED
      BY <3>1, FrameSize
  <2> QED
    BY <2>1, <1>1, <1>2, FrameSize
<1>4. ASSUME q >= n PROVE FALSE
  <2>1. FRAME * q = FRAME * n + FRAME * (q - n) /\ FRAME * (q - n) >= 0
    BY FrameSize, <1>2, <1>4, SMT
  <2>2. FRAME * q \in Int /\ FRAME * n \in Int /\ FRAME * (q - n) \in Int
    BY FrameSize, <1>2, SMT
  <2> QED
    BY <2>1, <2>2, <1>1, <1>2
<1>5. q + 1 \in 1 .. n
  BY <1>2, <1>3, <1>4
<1> QED
  BY <1>2, <1>5, FrameSize DEF q

(* What has been sent stays what it was. *)
LEMMA TextStays ==
  ASSUME frames \in Seq(TextLengths), NEW length \in TextLengths,
         frames' = Append(frames, length),
         NEW x \in 1 .. Sent
  PROVE  IsText(x)' = IsText(x)
<1>1. (x - 1) \div FRAME + 1 \in 1 .. Len(frames)
  BY FrameOf DEF Sent
<1>2. frames'[(x - 1) \div FRAME + 1] = frames[(x - 1) \div FRAME + 1]
  BY <1>1
<1> QED
  BY <1>2 DEF IsText, FRAME

--------------------------------------------------------------------------------
(* What a printf prints of the bytes first .. last. *)

LEMMA PrintedBytes ==
  ASSUME NEW first \in Nat, NEW last \in Nat, first <= last + 1
  PROVE  \E end \in first - 1 .. last :
           /\ Printed(first, last) = [k \in 1 .. end - first + 1 |-> first + k - 1]
           /\ \A x \in first .. end : IsText(x)
           /\ end < last => ~ IsText(end + 1)
<1> DEFINE nuls == {x \in first .. last : ~ IsText(x)}
<1>1. CASE nuls = {}
  <2>1. Printed(first, last) = [k \in 1 .. last - first + 1 |-> first + k - 1]
    BY <1>1 DEF Printed
  <2>2. \A x \in first .. last : IsText(x)
    BY <1>1
  <2>3. last \in first - 1 .. last
    OBVIOUS
  <2> QED
    BY <2>1, <2>2, <2>3
<1>2. CASE nuls # {}
  <2>1. nuls \in SUBSET Nat
    OBVIOUS
  <2>2. Min(nuls) \in nuls
    BY <1>2, <2>1, MinBelongs
  <2>3. \A x \in nuls : Min(nuls) <= x
    BY <1>2, <2>1, MinIsLeast
  <2>4. Printed(first, last) = [k \in 1 .. Min(nuls) - 1 - first + 1 |-> first + k - 1]
    BY <1>2 DEF Printed
  <2>5. /\ Min(nuls) \in Nat /\ first <= Min(nuls) /\ Min(nuls) <= last
        /\ ~ IsText(Min(nuls))
    BY <2>2
  <2> HIDE DEF nuls
  <2>6. Min(nuls) - 1 \in first - 1 .. last
    BY <2>5
  <2>7. \A x \in first .. Min(nuls) - 1 : IsText(x)
    BY <2>3, <2>5 DEF nuls
  <2>8. Min(nuls) - 1 + 1 = Min(nuls)
    BY <2>5
  <2> QED
    BY <2>4, <2>5, <2>6, <2>7, <2>8
<1> QED
  BY <1>1, <1>2

LEMMA PrintedType ==
  ASSUME NEW first \in Nat, NEW last \in Nat, first <= last + 1
  PROVE  Printed(first, last) \in Seq(Nat)
<1>1. PICK end \in first - 1 .. last :
        Printed(first, last) = [k \in 1 .. end - first + 1 |-> first + k - 1]
  BY PrintedBytes
<1>2. end - first + 1 \in Nat
  OBVIOUS
<1>3. [k \in 1 .. end - first + 1 |-> first + k - 1] \in [1 .. end - first + 1 -> Nat]
  OBVIOUS
<1> QED
  BY <1>1, <1>2, <1>3

(* In the last frame the text comes first: behind a NUL there is no more of it. *)
LEMMA LastFrame ==
  ASSUME frames \in Seq(Nat),
         NEW x \in Nat, NEW y \in Nat, Sent < x + FRAME, x <= y, y <= Sent,
         IsText(y)
  PROVE  IsText(x)
<1> DEFINE q == Len(frames) - 1
<1>1. Len(frames) \in Nat /\ FRAME \in Nat \ {0}
  BY FrameSize
<1>2. FRAME * q \in Int /\ Sent = FRAME * q + FRAME
  BY <1>1, SMT DEF Sent
<1>3. ASSUME NEW z \in {x, y}
      PROVE  (z - 1) \div FRAME = q /\ (z - 1) % FRAME = z - 1 - FRAME * q
  <2>1. z - 1 \in Int /\ q \in Int /\ FRAME * q <= z - 1 /\ z - 1 < FRAME * q + FRAME
    BY <1>1, <1>2
  <2> QED
    BY <1>1, <2>1, Quotient
<1>4. CASE Len(frames) = 0
  <2>1. Sent = 0
    BY <1>1, <1>4, SMT DEF Sent
  <2>2. x = y
    BY <2>1
  <2> QED
    BY <2>2
<1>5. CASE Len(frames) # 0
  <2>1. q + 1 \in DOMAIN frames /\ frames[q + 1] \in Nat
    BY <1>1, <1>5
  <2>2. y - 1 - FRAME * q < frames[q + 1]
    BY <1>3 DEF IsText
  <2>3. x - 1 - FRAME * q < frames[q + 1]
    BY <2>1, <2>2, <1>2
  <2> QED
    BY <1>3, <2>3 DEF IsText
<1> QED
  BY <1>4, <1>5

--------------------------------------------------------------------------------
(* Types. *)

LEMMA SentType ==
  ASSUME frames \in Seq(TextLengths)
  PROVE  Sent \in Nat /\ Len(frames) \in Nat /\ frames \in Seq(Nat)
<1>1. Len(frames) \in Nat /\ FRAME \in Nat
  BY FrameSize
<1>2. TextLengths \subseteq Nat
  BY ClientAssumption, FrameSize
<1>3. frames \in Seq(Nat)
  <2>1. frames \in [1 .. Len(frames) -> TextLengths]
    OBVIOUS
  <2>2. frames \in [1 .. Len(frames) -> Nat]
    BY <1>2, <2>1, Zenon
  <2> QED
    BY <1>1, <2>2
<1> QED
  BY <1>1, <1>3, SMT DEF Sent

LEMMA InitTyped == ClientInit => ClientTypeOK
<1> SUFFICES ASSUME ClientInit PROVE ClientTypeOK
  OBVIOUS
<1>1. frames \in Seq(TextLengths)
  BY DEF ClientInit
<1>2. Sent \in Nat
  BY <1>1, SentType
<1>3. text \in Seq(Nat) /\ shown \in Seq(Nat)
  BY DEF ClientInit
<1>4. ready \subseteq {"socket", "stdin"} /\ {eof, paced, failed} \subseteq BOOLEAN
  BY DEF ClientInit
<1>5. received \in 0 .. Sent /\ typed \in Nat /\ written \in 0 .. typed
  BY <1>2 DEF ClientInit
<1>6. sock \in LinkStates /\ at \in {"name", "select", "socket", "stdin"} \cup Ended
  BY DEF ClientInit, LinkStates
<1> QED
  BY <1>1, <1>3, <1>4, <1>5, <1>6 DEF ClientTypeOK

LEMMA StepTyped == ClientTypeOK /\ [ClientNext]_clientVars => ClientTypeOK'
<1> SUFFICES ASSUME ClientTypeOK, [ClientNext]_clientVars PROVE ClientTypeOK'
  OBVIOUS
<1> USE DEF ClientTypeOK
<1>1. Sent \in Nat /\ FRAME \in Nat \ {0} /\ BUF_SIZE \in Nat
  BY SentType, FrameSize
<1>2. AfterWrite(sock) \in LinkStates
  BY DEF AfterWrite, LinkStates
<1>3. ASSUME UNCHANGED frames PROVE Sent' = Sent
  BY <1>3 DEF Sent, FRAME
<1>4. CASE ReadName
  BY <1>2, <1>3, <1>4 DEF ReadName, ReadStdin, server, user, Ended
<1>5. CASE ReadChunk
  BY <1>2, <1>3, <1>5 DEF ReadChunk, ReadStdin, server, user, Ended
<1>6. CASE StdinEnds
  BY <1>3, <1>6 DEF StdinEnds, server, user, Ended
<1>7. CASE Select
  BY <1>3, <1>7 DEF Select, server, user, Ended
<1>8. CASE ReadSocket
  <2>1. PICK n \in 1 .. Min({BUF_SIZE, Sent - received}) :
          /\ received' = received + n
          /\ text' = Printed(received + 1, received + n)
          /\ shown' = shown \o Printed(received + 1, received + n)
    BY <1>8 DEF ReadSocket
  <2>2. n \in Nat /\ received + n <= Sent
    <3>1. {BUF_SIZE, Sent - received} \in SUBSET Nat
      BY <1>1
    <3>2. Min({BUF_SIZE, Sent - received}) \in Nat
          /\ Min({BUF_SIZE, Sent - received}) <= Sent - received
      BY <3>1, MinBelongs, MinIsLeast
    <3> QED
      BY <1>1, <3>2
  <2>3. Printed(received + 1, received + n) \in Seq(Nat)
    BY <1>1, <2>2, PrintedType
  <2>4. shown' \in Seq(Nat) /\ text' \in Seq(Nat)
    BY <2>1, <2>3
  <2> QED
    BY <1>1, <1>3, <1>8, <2>1, <2>2, <2>4 DEF ReadSocket, AfterSocket, server, user, Ended
<1>9. CASE SocketEnds
  BY <1>3, <1>9 DEF SocketEnds, server, user, Ended
<1>10. CASE SocketFails
  <2>1. shown' \in Seq(Nat)
    BY <1>10 DEF SocketFails
  <2> QED
    BY <1>3, <1>10, <2>1 DEF SocketFails, AfterSocket, server, user, Ended, LinkStates
<1>11. CASE UserActs
  <2>1. UNCHANGED <<frames, paced, sock, received, written, ready, at, text, shown, failed>>
    BY <1>11 DEF UserActs, server
  <2>2. typed' \in Nat /\ written \in 0 .. typed'
    BY <1>11 DEF UserActs
  <2>3. eof' \in BOOLEAN
    BY <1>11 DEF UserActs
  <2> QED
    BY <1>3, <2>1, <2>2, <2>3 DEF Ended
<1>12. CASE ServerWrites
  <2>1. PICK length \in TextLengths : frames' = Append(frames, length)
    BY <1>12 DEF ServerWrites
  <2>2. frames' \in Seq(TextLengths) /\ Len(frames') = Len(frames) + 1
    BY <2>1
  <2>3. Sent' = Sent + FRAME
    BY <1>1, <2>2, SMT DEF Sent, FRAME
  <2> QED
    BY <1>1, <1>12, <2>2, <2>3 DEF ServerWrites, user
<1>13. CASE ConnectionFails
  BY <1>3, <1>13 DEF ConnectionFails, server, user, LinkStates
<1>14. CASE UNCHANGED clientVars
  BY <1>3, <1>14 DEF clientVars, server, user
<1> QED
  BY <1>4, <1>5, <1>6, <1>7, <1>8, <1>9, <1>10, <1>11, <1>12, <1>13, <1>14
     DEF ClientNext, ClientStep

(* The variables of the chat client have their types, whatever is sent and typed. *)
THEOREM ClientTyped == ClientSpec => []ClientTypeOK
BY InitTyped, StepTyped, PTL DEF ClientSpec

--------------------------------------------------------------------------------
(* The screen. *)

ShownInOrder ==
  ~ failed =>
    /\ \A k \in DOMAIN shown : shown[k] <= received /\ IsText(shown[k])
    /\ \A k, l \in DOMAIN shown : k < l => shown[k] < shown[l]

NothingMissed ==
  paced => \A x \in 1 .. received : IsText(x) => \E k \in DOMAIN shown : shown[k] = x

(* What a paced server has sent and the client has not read is of one frame. *)
OneFrameLeft == paced => Sent <= received + FRAME

(* A byte on the screen came from the server, so that it is a position in a frame. *)
Positions == ~ failed => \A k \in DOMAIN shown : 1 <= shown[k]

ScreenInv == ClientTypeOK /\ ShownInOrder /\ NothingMissed /\ OneFrameLeft /\ Positions

LEMMA InitScreen == ClientInit => ScreenInv
<1> SUFFICES ASSUME ClientInit PROVE ScreenInv
  OBVIOUS
<1>1. ClientTypeOK
  BY InitTyped
<1>2. DOMAIN shown = {} /\ received = 0 /\ Len(frames) = 0
  BY DEF ClientInit
<1>3. Sent = 0
  BY <1>2, FrameSize, SMT DEF Sent
<1> QED
  BY <1>1, <1>2, <1>3, FrameSize
     DEF ScreenInv, ShownInOrder, NothingMissed, OneFrameLeft, Positions

(* The steps that neither send nor read nor print leave the screen as it is. *)
LEMMA QuietStep ==
  ASSUME ScreenInv, ClientTypeOK', UNCHANGED <<frames, received, shown, paced, failed>>
  PROVE  ScreenInv'
<1>1. Sent' = Sent /\ FRAME' = FRAME
  BY DEF Sent, FRAME
<1>2. \A x : IsText(x)' = IsText(x)
  BY DEF IsText, FRAME
<1> QED
  BY <1>1, <1>2 DEF ScreenInv, ShownInOrder, NothingMissed, OneFrameLeft, Positions

(* What a read brings is printed as far as it is text, behind all that was shown; and
   if the server has waited, that is all the text that was read. *)
LEMMA ReadKeepsScreen == ScreenInv /\ ClientTypeOK' /\ ReadSocket => ScreenInv'
<1> SUFFICES ASSUME ScreenInv, ClientTypeOK', ReadSocket PROVE ScreenInv'
  OBVIOUS
<1>1. Sent \in Nat /\ received \in Nat /\ FRAME \in Nat \ {0} /\ frames \in Seq(Nat)
  BY SentType, FrameSize DEF ScreenInv, ClientTypeOK
<1>2. PICK n \in 1 .. Min({BUF_SIZE, Sent - received}) :
        /\ received' = received + n
        /\ shown' = shown \o Printed(received + 1, received + n)
  BY DEF ReadSocket
<1>3. UNCHANGED <<frames, paced, failed>>
  BY DEF ReadSocket, server
<1>4. Sent' = Sent /\ FRAME' = FRAME
  BY <1>3 DEF Sent, FRAME
<1>5. \A x : IsText(x)' = IsText(x)
  BY <1>3 DEF IsText, FRAME
<1>6. n \in Nat /\ received + n <= Sent
  <2>1. received' \in 0 .. Sent
    BY <1>4 DEF ClientTypeOK
  <2>2. {BUF_SIZE, Sent - received} \in SUBSET Nat
    BY <1>1, FrameSize DEF ScreenInv, ClientTypeOK
  <2>3. Min({BUF_SIZE, Sent - received}) \in Nat
    BY <2>2, MinBelongs
  <2> QED
    BY <1>1, <1>2, <2>1, <2>3
<1>7. PICK end \in received .. received + n :
        /\ Printed(received + 1, received + n)
             = [k \in 1 .. end - received |-> received + k]
        /\ \A x \in received + 1 .. end : IsText(x)
        /\ end < received + n => ~ IsText(end + 1)
  <2> DEFINE first == received + 1
             last == received + n
  <2>1. first \in Nat /\ last \in Nat /\ first <= last + 1
    BY <1>1, <1>6
  <2> HIDE DEF first, last
  <2>2. PICK end \in first - 1 .. last :
          /\ Printed(first, last) = [k \in 1 .. end - first + 1 |-> first + k - 1]
          /\ \A x \in first .. end : IsText(x)
          /\ end < last => ~ IsText(end + 1)
    BY <2>1, PrintedBytes
  <2>3. /\ first - 1 = received /\ end - first + 1 = end - received
        /\ \A k \in Int : first + k - 1 = received + k
    BY <1>1 DEF first
  <2>4. [k \in 1 .. end - received |-> first + k - 1]
          = [k \in 1 .. end - received |-> received + k]
    BY <2>3
  <2>5. /\ end \in received .. last
        /\ Printed(first, last) = [k \in 1 .. end - received |-> received + k]
        /\ \A x \in first .. end : IsText(x)
        /\ end < last => ~ IsText(end + 1)
    BY <2>2, <2>3, <2>4
  <2> QED
    BY <2>5, Zenon DEF first, last
<1> DEFINE m == Len(shown)
           news == [k \in 1 .. end - received |-> received + k]
<1>8. /\ m \in Nat /\ DOMAIN shown = 1 .. m /\ end - received \in Nat
      /\ shown \in Seq(Nat) /\ news \in Seq(Nat) /\ Len(news) = end - received
  BY <1>1, <1>7 DEF ScreenInv, ClientTypeOK
<1>9. /\ DOMAIN shown' = 1 .. m + (end - received)
      /\ \A k \in 1 .. m : shown'[k] = shown[k]
      /\ \A k \in m + 1 .. m + (end - received) : shown'[k] = received + (k - m)
  <2>1. shown' = shown \o news
    BY <1>2, <1>7
  <2>2. \A k \in 1 .. end - received : news[k] = received + k
    OBVIOUS
  <2> HIDE DEF news
  <2> QED
    BY <1>8, <2>1, <2>2
<1> HIDE DEF m, news
<1>10. ShownInOrder' /\ Positions'
  <2> SUFFICES ASSUME ~ failed PROVE ShownInOrder' /\ Positions'
    BY <1>3 DEF ShownInOrder, Positions
  <2>1. \A k \in 1 .. m : /\ shown[k] \in Nat /\ shown[k] <= received
                          /\ 1 <= shown[k] /\ IsText(shown[k])
    <3>1. \A k \in 1 .. m : shown[k] \in Nat
      BY <1>8
    <3>2. ShownInOrder /\ Positions
      BY DEF ScreenInv
    <3> QED
      BY <1>8, <3>1, <3>2 DEF ShownInOrder, Positions
  <2>2. ASSUME NEW k \in DOMAIN shown'
        PROVE  shown'[k] <= received' /\ IsText(shown'[k]) /\ 1 <= shown'[k]
    <3>1. CASE k \in 1 .. m
      <4>1. shown'[k] = shown[k] /\ received' = received + n
        BY <1>2, <1>9, <3>1
      <4>2. /\ shown[k] \in Nat /\ shown[k] <= received
            /\ 1 <= shown[k] /\ IsText(shown[k])
        BY <2>1, <3>1
      <4> QED
        BY <1>1, <1>6, <4>1, <4>2
    <3>2. CASE k \in m + 1 .. m + (end - received)
      <4>1. shown'[k] = received + (k - m) /\ received' = received + n
        BY <1>2, <1>9, <3>2
      <4>2. end \in Int /\ end <= received + n
        BY <1>1, <1>6, <1>7
      <4>3. k \in Int /\ m \in Nat /\ m + 1 <= k /\ k <= m + (end - received)
        BY <1>8, <3>2
      <4>4. shown'[k] \in received + 1 .. end
        BY <1>1, <4>1, <4>2, <4>3
      <4>5. IsText(shown'[k])
        BY <1>7, <4>4
      <4> QED
        BY <1>1, <1>6, <4>1, <4>2, <4>4, <4>5
    <3> QED
      BY <1>8, <1>9, <3>1, <3>2
  <2>3. ASSUME NEW k \in DOMAIN shown', NEW l \in DOMAIN shown', k < l
        PROVE  shown'[k] < shown'[l]
    <3>1. CASE l \in 1 .. m
      <4>1. k \in 1 .. m
        BY <1>8, <1>9, <2>3, <3>1
      <4>2. shown[k] < shown[l]
        BY <1>8, <2>3, <3>1, <4>1 DEF ScreenInv, ShownInOrder
      <4> QED
        BY <1>9, <3>1, <4>1, <4>2
    <3>2. CASE l \in m + 1 .. m + (end - received) /\ k \in 1 .. m
      <4>1. shown'[k] = shown[k] /\ shown'[l] = received + (l - m)
        BY <1>9, <3>2
      <4>2. shown[k] \in Nat /\ shown[k] <= received
        BY <2>1, <3>2
      <4>3. l - m \in Nat /\ 1 <= l - m
        BY <1>8, <3>2
      <4> QED
        BY <1>1, <4>1, <4>2, <4>3
    <3>3. CASE l \in m + 1 .. m + (end - received) /\ k \in m + 1 .. m + (end - received)
      <4>1. shown'[k] = received + (k - m) /\ shown'[l] = received + (l - m)
        BY <1>9, <3>3
      <4>2. k \in Int /\ l \in Int /\ m \in Nat
        BY <1>8, <3>3
      <4> QED
        BY <1>1, <2>3, <4>1, <4>2
    <3> QED
      BY <1>8, <1>9, <3>1, <3>2, <3>3
  <2>4. \A k \in DOMAIN shown' : IsText(shown[k])'
    BY <1>3, <1>4, <2>2 DEF IsText
  <2> QED
    BY <2>2, <2>3, <2>4 DEF ShownInOrder, Positions
<1>11. NothingMissed'
  <2> SUFFICES ASSUME paced, NEW x \in 1 .. received + n, IsText(x)
               PROVE  \E k \in DOMAIN shown' : shown'[k] = x
    BY <1>2, <1>3, <1>5 DEF NothingMissed
  <2>1. CASE x <= received
    <3>1. PICK k \in DOMAIN shown : shown[k] = x
      BY <1>1, <2>1 DEF ScreenInv, NothingMissed
    <3> QED
      BY <1>8, <1>9, <3>1
  <2>2. CASE x > received
    <3>1. x <= end
      <4> SUFFICES ASSUME end < x PROVE FALSE
        BY <1>1, <1>7
      <4>1. ~ IsText(end + 1)
        BY <1>1, <1>6, <1>7
      <4>2. end + 1 \in Nat /\ x \in Nat /\ Sent < end + 1 + FRAME /\ end + 1 <= x /\ x <= Sent
        BY <1>1, <1>6, <1>7 DEF ScreenInv, OneFrameLeft
      <4> QED
        BY <1>1, <4>1, <4>2, LastFrame
    <3>2. m + (x - received) \in m + 1 .. m + (end - received)
      BY <1>1, <1>7, <1>8, <2>2, <3>1
    <3>3. shown'[m + (x - received)] = x
      <4> DEFINE k == m + (x - received)
      <4>1. k - m = x - received
        BY <1>1, <1>8
      <4> HIDE DEF k
      <4>2. shown'[k] = received + (k - m)
        BY <1>9, <3>2 DEF k
      <4>3. shown'[k] = x
        BY <1>1, <4>1, <4>2
      <4> QED
        BY <4>3 DEF k
    <3>4. m + (x - received) \in DOMAIN shown'
      BY <1>8, <1>9, <3>2
    <3> QED
      BY <3>3, <3>4
  <2> QED
    BY <1>1, <2>1, <2>2
<1>12. OneFrameLeft'
  BY <1>1, <1>2, <1>3, <1>4, <1>6 DEF ScreenInv, OneFrameLeft
<1> QED
  BY <1>10, <1>11, <1>12 DEF ScreenInv

(* A frame more: what was shown is what it was, and nothing of it is read yet. *)
LEMMA WriteKeepsScreen == ScreenInv /\ ClientTypeOK' /\ ServerWrites => ScreenInv'
<1> SUFFICES ASSUME ScreenInv, ClientTypeOK', ServerWrites PROVE ScreenInv'
  OBVIOUS
<1>1. /\ Sent \in Nat /\ received \in 0 .. Sent /\ FRAME \in Nat \ {0}
      /\ frames \in Seq(TextLengths) /\ Len(frames) \in Nat /\ shown \in Seq(Nat)
  BY SentType, FrameSize DEF ScreenInv, ClientTypeOK
<1>2. PICK length \in TextLengths : frames' = Append(frames, length)
  BY DEF ServerWrites
<1>3. UNCHANGED <<received, shown, failed>> /\ paced' = (paced /\ received = Sent)
  BY DEF ServerWrites
<1>4. Sent' = Sent + FRAME
  <2>1. Len(frames') = Len(frames) + 1
    BY <1>1, <1>2
  <2> QED
    BY <1>1, <2>1, SMT DEF Sent, FRAME
<1>5. \A x \in 1 .. received : IsText(x)' = IsText(x)
  <2> TAKE x \in 1 .. received
  <2>1. x \in 1 .. Sent
    BY <1>1
  <2> QED
    BY <1>1, <1>2, <2>1, TextStays
<1>6. ShownInOrder' /\ Positions'
  <2> SUFFICES ASSUME ~ failed PROVE ShownInOrder' /\ Positions'
    BY <1>3 DEF ShownInOrder, Positions
  <2>1. \A k \in DOMAIN shown : shown[k] \in 1 .. received /\ IsText(shown[k])
    BY <1>1 DEF ScreenInv, ShownInOrder, Positions
  <2>2. \A k \in DOMAIN shown : IsText(shown[k])'
    BY <1>5, <2>1, <1>3
  <2> QED
    BY <1>3, <2>1, <2>2 DEF ScreenInv, ShownInOrder, Positions
<1>7. NothingMissed'
  BY <1>3, <1>5 DEF ScreenInv, NothingMissed
<1>8. OneFrameLeft'
  <2> SUFFICES ASSUME paced' PROVE (Sent <= received + FRAME)'
    BY DEF OneFrameLeft
  <2>1. received = Sent /\ received' = received /\ FRAME' = FRAME
    BY <1>3 DEF FRAME
  <2> QED
    BY <1>1, <1>4, <2>1
<1> QED
  BY <1>6, <1>7, <1>8 DEF ScreenInv

LEMMA FailureKeepsScreen == ScreenInv /\ ClientTypeOK' /\ SocketFails => ScreenInv'
<1> SUFFICES ASSUME ScreenInv, ClientTypeOK', SocketFails PROVE ScreenInv'
  OBVIOUS
<1>1. UNCHANGED <<frames, paced, received>> /\ failed' = TRUE /\ shown' = shown \o text
  BY DEF SocketFails, server
<1>2. /\ shown \in Seq(Nat) /\ text \in Seq(Nat)
  BY DEF ScreenInv, ClientTypeOK
<1>3. \A k \in DOMAIN shown : k \in DOMAIN shown' /\ shown'[k] = shown[k]
  BY <1>1, <1>2
<1>4. \A x : IsText(x)' = IsText(x)
  BY <1>1 DEF IsText, FRAME
<1>5. NothingMissed'
  BY <1>1, <1>3, <1>4 DEF ScreenInv, NothingMissed
<1> QED
  BY <1>1, <1>5 DEF ScreenInv, ShownInOrder, Positions, OneFrameLeft, Sent, FRAME

LEMMA StepScreen == ScreenInv /\ [ClientNext]_clientVars => ScreenInv'
<1> SUFFICES ASSUME ScreenInv, [ClientNext]_clientVars PROVE ScreenInv'
  OBVIOUS
<1>1. ClientTypeOK'
  BY StepTyped DEF ScreenInv
<1>2. CASE ReadSocket
  BY <1>1, <1>2, ReadKeepsScreen
<1>3. CASE ServerWrites
  BY <1>1, <1>3, WriteKeepsScreen
<1>4. CASE SocketFails
  BY <1>1, <1>4, FailureKeepsScreen
<1>5. CASE ReadName \/ ReadChunk \/ StdinEnds \/ Select \/ SocketEnds
             \/ UserActs \/ ConnectionFails \/ UNCHANGED clientVars
  <2>1. UNCHANGED <<frames, received, shown, paced, failed>>
    BY <1>5 DEF ReadName, ReadChunk, StdinEnds, Select, SocketEnds,
                UserActs, ConnectionFails, clientVars, server
  <2> QED
    BY <1>1, <2>1, QuietStep
<1> QED
  BY <1>2, <1>3, <1>4, <1>5 DEF ClientNext, ClientStep

(* What is on the screen is in order, and nothing is missed. *)
LEMMA ScreenRight == ScreenInv => MessagesAreShown
  BY DEF ScreenInv, ShownInOrder, NothingMissed, MessagesAreShown

(* What the client shows is text of the server's, in the order in which it was sent,
   without padding; and all of it, if every message came after the one before was
   read: for buffers of any size, any number of messages and any reads. *)
THEOREM MessagesAlwaysShown == ClientSpec => []MessagesAreShown
BY ScreenRight, InitScreen, StepScreen, PTL DEF ClientSpec
================================================================================
