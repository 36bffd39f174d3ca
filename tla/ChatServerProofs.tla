---------------------------- MODULE ChatServerProofs ---------------------------
(***************************************************************************)
(* The safety of ChatServer for every number of clients, of slots and of   *)
(* messages.                                                               *)
(***************************************************************************)
EXTENDS ChatServer, FiniteSetTheorems, SequenceTheorems, Minimum, TLAPS

--------------------------------------------------------------------------------
(* The inductive invariant. *)

(* What the place in main says about the variables: the scan starts at slot 0
   with a snapshot of older descriptors, and the last message is the one being
   broadcast. *)
Control ==
  /\ pc = "accept" => index = 0 /\ listen_fds \cap ClientFds \subseteq all_fds
  /\ pc = "broadcast" =>
       /\ index \in Slots /\ sock_fd[index] # -1
       /\ Len(said) > 0 /\ said[Len(said)].by = open[sock_fd[index]]

OpenStates == {"up", "fin", "rst_due", "aborted", "broken"}

(* The descriptors are open on the connections that were accepted and not closed,
   one on each. *)
OpenLinks ==
  /\ \A fd \in ClientFds : open[fd] # NULL => link[open[fd]] \in OpenStates
  /\ \A c \in Clients :
       link[c] \in OpenStates => \E fd \in ClientFds : open[fd] = c
  /\ \A f, g \in ClientFds : open[f] = open[g] /\ open[f] # NULL => f = g

Core == ChatTypeOK /\ TableAgrees /\ Control /\ OpenLinks

--------------------------------------------------------------------------------
(* There is one descriptor more than there are slots, and each slot holds one. *)
LEMMA AlwaysAnFd ==
  ASSUME ChatTypeOK, TableAgrees
  PROVE  FreeFds # {}
<1>. SUFFICES ASSUME FreeFds = {} PROVE FALSE
  OBVIOUS
<1>. DEFINE Taken == {s \in Slots : sock_fd[s] # -1}
            holds == [s \in Taken |-> sock_fd[s]]
<1>1. IsFiniteSet(Slots) /\ Cardinality(Slots) = MAX_CONNECTIONS
  <2>1. /\ MAX_CONNECTIONS - 1 \in Int /\ ~ (0 > MAX_CONNECTIONS - 1)
        /\ (MAX_CONNECTIONS - 1) - 0 + 1 = MAX_CONNECTIONS
    BY ChatAssumption
  <2>. QED
    BY <2>1, FS_Interval DEF Slots
<1>2. IsFiniteSet(ClientFds) /\ Cardinality(ClientFds) = MAX_CONNECTIONS + 1
  <2>1. /\ 4 + MAX_CONNECTIONS \in Int /\ ~ (4 > 4 + MAX_CONNECTIONS)
        /\ (4 + MAX_CONNECTIONS) - 4 + 1 = MAX_CONNECTIONS + 1
    BY ChatAssumption
  <2>. QED
    BY <2>1, FS_Interval DEF ClientFds
<1>3. IsFiniteSet(Taken) /\ Cardinality(Taken) <= Cardinality(Slots)
  BY <1>1, FS_Subset
<1>4. holds \in Surjection(Taken, ClientFds)
  <2>1. holds \in [Taken -> ClientFds]
    BY DEF ChatTypeOK
  <2>2. ASSUME NEW fd \in ClientFds
        PROVE  \E s \in Taken : holds[s] = fd
    <3>1. open[fd] # NULL
      BY DEF FreeFds
    <3>2. PICK s \in Slots : sock_fd[s] = fd
      BY <3>1 DEF TableAgrees
    <3>3. fd # -1
      BY ChatAssumption DEF ClientFds
    <3>. QED
      BY <3>2, <3>3
  <2>. QED
    BY <2>1, <2>2 DEF Surjection
<1>5. Cardinality(ClientFds) <= Cardinality(Taken)
  BY <1>3, <1>4, FS_Surjection
<1>6. Cardinality(Taken) \in Nat
  BY <1>3, FS_CardinalityType
<1>. QED
  BY <1>1, <1>2, <1>3, <1>5, <1>6, ChatAssumption

(* The slot and the descriptor of a new client. *)
LEMMA SlotAndFd ==
  ASSUME ChatTypeOK, TableAgrees, FreeSlots # {}
  PROVE  /\ Min(FreeSlots) \in Slots /\ sock_fd[Min(FreeSlots)] = -1
         /\ Min(FreeFds) \in ClientFds /\ open[Min(FreeFds)] = NULL
<1>1. FreeSlots \in SUBSET Nat /\ FreeFds \in SUBSET Nat
  BY ChatAssumption DEF FreeSlots, FreeFds, Slots, ClientFds
<1>. QED
  BY <1>1, AlwaysAnFd, MinBelongs DEF FreeSlots, FreeFds

(* A slot that is taken: its descriptor is open, on a connection that stands in
   no other slot. *)
LEMMA TakenSlot ==
  ASSUME Core, NEW s \in Slots, sock_fd[s] # -1
  PROVE  /\ sock_fd[s] \in ClientFds /\ sock_fd[s] \in all_fds
         /\ open[sock_fd[s]] \in Clients
         /\ link[open[sock_fd[s]]] \in OpenStates
         /\ \A t \in Slots :
              sock_fd[t] # -1 /\ open[sock_fd[t]] = open[sock_fd[s]] => t = s
<1>1. \A t \in Slots : sock_fd[t] # -1 =>
        /\ sock_fd[t] \in ClientFds /\ sock_fd[t] \in all_fds
        /\ open[sock_fd[t]] # NULL /\ open[sock_fd[t]] \in Clients
  BY DEF Core, ChatTypeOK, TableAgrees
<1>2. link[open[sock_fd[s]]] \in OpenStates
  BY <1>1 DEF Core, OpenLinks
<1>3. ASSUME NEW t \in Slots, sock_fd[t] # -1, open[sock_fd[t]] = open[sock_fd[s]]
      PROVE  t = s
  BY <1>1, <1>3 DEF Core, OpenLinks, TableAgrees
<1>. QED
  BY <1>1, <1>2, <1>3

(* The user that the scan has come to. *)
LEMMA UserIsHere ==
  ASSUME Core, ReadySlots # {}
  PROVE  /\ Here \in Slots /\ Here >= index /\ sock_fd[Here] \in listen_fds
         /\ sock_fd[Here] # -1 /\ sock_fd[Here] \in ClientFds
         /\ User \in Clients /\ open[sock_fd[Here]] = User
         /\ link[User] \in OpenStates
<1>1. ReadySlots \in SUBSET Nat
  BY ChatAssumption DEF ReadySlots, Slots
<1>2. Here \in ReadySlots
  BY <1>1, MinBelongs DEF Here
<1>3. Here \in Slots /\ Here >= index /\ sock_fd[Here] \in listen_fds
  BY <1>2 DEF ReadySlots
<1>4. sock_fd[Here] # -1
  BY <1>3, ChatAssumption DEF Core, ChatTypeOK, ClientFds, listen_fd
<1>. QED
  BY <1>3, <1>4, TakenSlot DEF User

--------------------------------------------------------------------------------
LEMMA CoreInit == Init => Core /\ ReadsDoNotBlock
<1>. SUFFICES ASSUME Init PROVE Core /\ ReadsDoNotBlock
  OBVIOUS
<1>. USE ChatAssumption DEF Init
<1>1. ChatTypeOK
  BY DEF ChatTypeOK, LinkStates, Slots, ClientFds
<1>2. TableAgrees /\ Control /\ OpenLinks
  BY DEF TableAgrees, Control, OpenLinks, OpenStates, ClientFds
<1>3. ReadsDoNotBlock
  BY DEF ReadsDoNotBlock
<1>. QED
  BY <1>1, <1>2, <1>3 DEF Core

(* A step that neither accepts nor drops a client. *)
LEMMA CoreFrame ==
  ASSUME Core, ChatTypeOK', Control',
         UNCHANGED <<open, sock_fd, all_fds, max_fd>>,
         \A s \in Slots :
           \/ username'[s] = username[s]
           \/ sock_fd[s] # -1 /\ username'[s] \in {open[sock_fd[s]], GARBAGE},
         \A c \in Clients : link[c] \in OpenStates <=> link'[c] \in OpenStates
  PROVE  Core'
<1>. USE DEF Core
<1>1. TableAgrees'
  BY DEF TableAgrees
<1>2. \A fd \in ClientFds : open[fd] # NULL => open[fd] \in Clients
  BY DEF ChatTypeOK
<1>3. OpenLinks'
  BY <1>2 DEF OpenLinks
<1>. QED
  BY <1>1, <1>3

(* A step that takes no connection of the snapshot from the scan, and makes none
   unreadable that is still to be read. *)
LEMMA ReadsFrame ==
  ASSUME Core, ReadsDoNotBlock,
         UNCHANGED <<open, sock_fd, listen_fds>>,
         pc' \in {"accept", "scan", "broadcast"} =>
           pc \in {"accept", "scan", "broadcast"},
         \A s \in Slots :
           s >= index' /\ (s # index' \/ pc' # "broadcast") =>
             s >= index /\ (s # index \/ pc # "broadcast"),
         \A s \in Slots :
           /\ s >= index' /\ (s # index' \/ pc' # "broadcast")
           /\ sock_fd[s] # -1 /\ Readable(open[sock_fd[s]])
           => Readable(open[sock_fd[s]])'
  PROVE  ReadsDoNotBlock'
<1>. SUFFICES ASSUME pc' \in {"accept", "scan", "broadcast"},
                     NEW s \in Slots, s >= index', sock_fd'[s] \in listen_fds',
                     s # index' \/ pc' # "broadcast"
              PROVE  Readable(open[sock_fd[s]])'
  BY DEF ReadsDoNotBlock, ReadySlots
<1>1. Readable(open[sock_fd[s]])
  BY DEF ReadsDoNotBlock, ReadySlots
<1>2. sock_fd[s] # -1
  BY ChatAssumption DEF Core, ChatTypeOK, ClientFds, listen_fd
<1>. QED
  BY <1>1, <1>2

LEMMA AcceptPreserves ==
  ASSUME Core, NEW c \in Clients, Accept(c), ReadsDoNotBlock
  PROVE  Core' /\ ReadsDoNotBlock'
<1>0. \A t \in Slots : sock_fd[t] # -1 =>
        open[sock_fd[t]] \in Clients /\ link[open[sock_fd[t]]] \in OpenStates
  BY TakenSlot
<1>. USE ChatAssumption DEF Core
<1>1. PICK s \in Slots, fd \in ClientFds :
        /\ sock_fd[s] = -1 /\ open[fd] = NULL
        /\ open' = [open EXCEPT ![fd] = c]
        /\ sock_fd' = [sock_fd EXCEPT ![s] = fd]
        /\ username' = [username EXCEPT ![s] = NULL]
        /\ all_fds' = all_fds \cup {fd}
        /\ max_fd' = IF fd > max_fd THEN fd ELSE max_fd
  BY SlotAndFd DEF Accept
<1>2. /\ pc = "accept" /\ pc' = "scan" /\ link[c] = "backlog"
      /\ link' = [link EXCEPT ![c] = "up"]
      /\ joined' = [joined EXCEPT ![c] = Len(said)]
      /\ UNCHANGED <<sent, taken, listen_fds, index, i, said, heard, named>>
  BY DEF Accept
<1>. HIDE DEF Accept
<1>3. ChatTypeOK'
  <2>1. Len(said) \in Nat
    BY DEF ChatTypeOK
  <2>. QED
    BY <1>1, <1>2, <2>1 DEF ChatTypeOK, LinkStates
<1>4. TableAgrees'
  <2>1. max_fd \in Int /\ \A f \in ClientFds : f \in Int /\ f # -1
    BY DEF ChatTypeOK, ClientFds, listen_fd
  <2>2. \A t \in Slots : sock_fd[t] # fd
    BY <1>1, <2>1 DEF TableAgrees
  <2>3. \A f \in ClientFds :
          /\ open'[f] # NULL <=> f \in all_fds'
          /\ f \in all_fds' => f <= max_fd'
    BY <1>1, <2>1 DEF TableAgrees, ChatTypeOK
  <2>4. \A f \in ClientFds : open'[f] # NULL <=> \E t \in Slots : sock_fd'[t] = f
    BY <1>1, <2>1, <2>2 DEF TableAgrees, ChatTypeOK
  <2>5. \A t, u \in Slots : sock_fd'[t] = sock_fd'[u] /\ sock_fd'[t] # -1 => t = u
    BY <1>1, <2>2 DEF TableAgrees, ChatTypeOK
  <2>6. \A t \in Slots : IF sock_fd'[t] = -1 THEN username'[t] = NULL
                         ELSE username'[t] \in {open'[sock_fd'[t]], GARBAGE, NULL}
    BY <1>1, <2>1, <2>2 DEF TableAgrees, ChatTypeOK
  <2>. QED
    BY <2>3, <2>4, <2>5, <2>6 DEF TableAgrees
<1>5. Control'
  BY <1>2 DEF Control
<1>6. OpenLinks'
  <2>1. ~ \E f \in ClientFds : open[f] = c
    BY <1>2 DEF OpenLinks, OpenStates
  <2>2. \A f \in ClientFds : open[f] # NULL => open[f] \in Clients
    BY DEF ChatTypeOK
  <2>3. \A d \in Clients :
          link'[d] \in OpenStates => \E f \in ClientFds : open'[f] = d
    BY <1>1, <1>2, <2>1 DEF OpenLinks, ChatTypeOK
  <2>4. \A f \in ClientFds : open'[f] # NULL => link'[open'[f]] \in OpenStates
    BY <1>1, <1>2, <2>1, <2>2 DEF OpenLinks, ChatTypeOK, OpenStates
  <2>5. \A f, g \in ClientFds : open'[f] = open'[g] /\ open'[f] # NULL => f = g
    BY <1>1, <2>1 DEF OpenLinks, ChatTypeOK
  <2>. QED
    BY <2>3, <2>4, <2>5 DEF OpenLinks
<1>7. ReadsDoNotBlock'
  <2>1. fd \notin listen_fds
    BY <1>1, <1>2 DEF Control, TableAgrees
  <2>2. ASSUME NEW t \in Slots, sock_fd'[t] \in listen_fds'
        PROVE  Readable(open[sock_fd[t]])'
    <3>1. t # s /\ sock_fd'[t] = sock_fd[t] /\ sock_fd[t] \in listen_fds
      BY <1>1, <1>2, <2>1, <2>2 DEF ChatTypeOK
    <3>2. sock_fd[t] \in ClientFds /\ sock_fd[t] # fd /\ sock_fd[t] # -1
      BY <2>1, <3>1 DEF ChatTypeOK, ClientFds, listen_fd
    <3>3. open'[sock_fd[t]] = open[sock_fd[t]] /\ open[sock_fd[t]] \in Clients
      BY <1>0, <1>1, <3>2 DEF ChatTypeOK
    <3>4. Readable(open[sock_fd[t]])
      BY <1>2, <3>1 DEF ReadsDoNotBlock, ReadySlots, Control, Slots
    <3>5. open[sock_fd[t]] # c
      BY <1>0, <1>2, <3>2 DEF OpenStates
    <3>. QED
      BY <1>2, <3>1, <3>3, <3>4, <3>5 DEF Readable, Over, AtEnd, ChatTypeOK
  <2>. QED
    BY <1>2, <2>2 DEF ReadsDoNotBlock, ReadySlots
<1>. QED
  BY <1>3, <1>4, <1>5, <1>6, <1>7

(* The steps of the pass that read nothing. *)
LEMMA PassPreserves ==
  ASSUME Core, ReadsDoNotBlock,
         \/ Select \/ \E c \in Clients : Refuse(c) \/ AcceptFails(c)
         \/ NoName \/ EndScan \/ SkipSlot \/ WriteToBroken \/ EndBroadcast
  PROVE  Core' /\ ReadsDoNotBlock'
<1>. USE ChatAssumption DEF world, table, history
<1>1. CASE Select
  <2>0. /\ ReadableNow \subseteq all_fds \cup {listen_fd}
        /\ ReadableNow \cap ClientFds \subseteq all_fds
    BY DEF ReadableNow, listen_fd, ClientFds
  <2>1. ChatTypeOK'
    BY <1>1, <2>0 DEF Select, Core, ChatTypeOK
  <2>2. Control'
    BY <1>1, <2>0 DEF Select, Control
  <2>3. Core'
    BY <1>1, <2>1, <2>2, CoreFrame DEF Select
  <2>4. ReadsDoNotBlock'
    <3>1. \A s \in Slots : sock_fd[s] \in ReadableNow => Readable(open[sock_fd[s]])
      BY DEF ReadableNow, Core, ChatTypeOK, ClientFds, listen_fd
    <3>. QED
      BY <1>1, <3>1 DEF Select, ReadsDoNotBlock, ReadySlots, Readable, Over, AtEnd
  <2>. QED
    BY <2>3, <2>4
<1>2. ASSUME NEW c \in Clients, Refuse(c) \/ AcceptFails(c)
      PROVE  Core' /\ ReadsDoNotBlock'
  <2>0. /\ link[c] = "backlog" /\ pc' = "select"
        /\ link' = link \/ link' = [link EXCEPT ![c] = "off"]
        /\ UNCHANGED <<sent, taken, table, listen_fds, index, i, history>>
    BY <1>2 DEF Refuse, AcceptFails
  <2>1. ChatTypeOK'
    BY <2>0 DEF Core, ChatTypeOK, LinkStates
  <2>2. Control'
    BY <2>0 DEF Core, ChatTypeOK, Control
  <2>3. Core'
    BY <2>0, <2>1, <2>2, CoreFrame DEF Core, ChatTypeOK, OpenStates
  <2>. QED
    BY <2>0, <2>3 DEF ReadsDoNotBlock
<1>3. CASE NoName \/ WriteToBroken
  <2>1. ChatTypeOK'
    BY <1>3 DEF NoName, WriteToBroken, Core, ChatTypeOK
  <2>2. Control'
    BY <1>3 DEF NoName, WriteToBroken, Core, ChatTypeOK, Control
  <2>3. Core'
    BY <1>3, <2>1, <2>2, CoreFrame DEF NoName, WriteToBroken
  <2>. QED
    BY <1>3, <2>3 DEF NoName, WriteToBroken, ReadsDoNotBlock
<1>4. CASE EndScan
  <2>1. ChatTypeOK'
    BY <1>4 DEF EndScan, Core, ChatTypeOK
  <2>2. Control'
    BY <1>4 DEF EndScan, Core, ChatTypeOK, Control
  <2>3. Core'
    BY <1>4, <2>1, <2>2, CoreFrame DEF EndScan
  <2>. QED
    BY <1>4, <2>3 DEF EndScan, ReadsDoNotBlock
<1>5. CASE SkipSlot
  <2>0. i' \in 0 .. MAX_CONNECTIONS
    BY <1>5 DEF SkipSlot, Slots
  <2>1. ChatTypeOK'
    BY <1>5, <2>0 DEF SkipSlot, Core, ChatTypeOK
  <2>2. Control'
    BY <1>5, <2>0 DEF SkipSlot, Core, ChatTypeOK, Control
  <2>3. Core'
    BY <1>5, <2>1, <2>2, CoreFrame DEF SkipSlot
  <2>4. ReadsDoNotBlock'
    BY <1>5, ReadsFrame DEF SkipSlot, Readable, Over, AtEnd
  <2>. QED
    BY <2>3, <2>4
<1>6. CASE EndBroadcast
  <2>0. index \in Slots /\ index' \in 0 .. MAX_CONNECTIONS
    BY <1>6 DEF EndBroadcast, Core, Control, Slots
  <2>1. ChatTypeOK'
    BY <1>6, <2>0 DEF EndBroadcast, Core, ChatTypeOK
  <2>2. Control'
    BY <1>6, <2>0 DEF EndBroadcast, Core, ChatTypeOK, Control
  <2>3. Core'
    BY <1>6, <2>1, <2>2, CoreFrame DEF EndBroadcast
  <2>4. \A s \in Slots : s >= index' => s >= index /\ s # index
    BY <1>6 DEF EndBroadcast, Core, ChatTypeOK, Slots
  <2>5. ReadsDoNotBlock'
    BY <1>6, <2>4, ReadsFrame DEF EndBroadcast, Readable, Over, AtEnd
  <2>. QED
    BY <2>3, <2>5
<1>. QED
  BY <1>1, <1>2, <1>3, <1>4, <1>5, <1>6

(* The steps of the peers and of the network. *)
LEMMA WorldPreserves ==
  ASSUME Core, ReadsDoNotBlock, World
  PROVE  Core' /\ ReadsDoNotBlock'
<1>. USE DEF table, history
<1>1. ASSUME NEW c \in Clients, Connect(c) \/ Send(c) \/ PeerEvent(c)
      PROVE  Core' /\ ReadsDoNotBlock'
  <2>1. /\ ChatTypeOK'
        /\ \A d \in Clients : link[d] \in OpenStates <=> link'[d] \in OpenStates
        /\ \A d \in Clients : Readable(d) => Readable(d)'
        /\ UNCHANGED <<open, sock_fd, username, all_fds, max_fd, listen_fds, pc, index,
                       said>>
    <3>1. CASE Connect(c) \/ PeerEvent(c)
      BY <3>1 DEF Connect, PeerEvent, Core, ChatTypeOK, LinkStates, OpenStates,
                  Readable, Over, AtEnd
    <3>2. CASE Send(c)
      <4>1. /\ sent' = [sent EXCEPT ![c] = @ + 1]
            /\ UNCHANGED <<link, taken, table, listen_fds, pc, index, i, history>>
        BY <3>2 DEF Send
      <4>. QED
        BY <4>1 DEF Core, ChatTypeOK, Readable, Over, AtEnd
    <3>. QED
      BY <1>1, <3>1, <3>2
  <2>2. Control'
    BY <2>1 DEF Core, Control
  <2>3. Core'
    BY <2>1, <2>2, CoreFrame
  <2>4. \A s \in Slots : sock_fd[s] # -1 => open[sock_fd[s]] \in Clients
    BY TakenSlot
  <2>5. ReadsDoNotBlock'
    BY <2>1, <2>4, ReadsFrame
  <2>. QED
    BY <2>3, <2>5
<1>. QED
  BY <1>1 DEF World

(* The readers of a message. *)
LEMMA WritePreserves ==
  ASSUME Core, ReadsDoNotBlock, WriteMessage
  PROVE  Core' /\ ReadsDoNotBlock'
<1>. USE DEF table
<1>1. Reader \in Clients /\ link[Reader] \in OpenStates
  BY TakenSlot DEF WriteMessage, AtReader, Reader
<1>2. /\ ChatTypeOK'
      /\ \A d \in Clients : link[d] \in OpenStates <=> link'[d] \in OpenStates
      /\ \A d \in Clients : Readable(d) => Readable(d)'
      /\ UNCHANGED <<open, sock_fd, username, all_fds, max_fd, listen_fds, pc, index,
                     said>>
  <2>1. link' \in [Clients -> LinkStates]
    BY <1>1 DEF WriteMessage, Core, ChatTypeOK, LinkStates, AfterWrite
  <2>2. heard' \in [Clients -> Seq(Nat)]
    <3>1. Len(said) \in Nat
      BY DEF Core, ChatTypeOK
    <3>2. heard[Reader] \in Seq(Nat)
      BY <1>1 DEF Core, ChatTypeOK
    <3>3. Append(heard[Reader], Len(said)) \in Seq(Nat)
      BY <3>1, <3>2, AppendProperties
    <3>. QED
      BY <1>1, <3>3 DEF WriteMessage, Core, ChatTypeOK
  <2>3. i' \in 0 .. MAX_CONNECTIONS
    BY ChatAssumption DEF WriteMessage, AtReader, Slots
  <2>4. ChatTypeOK'
    BY <2>1, <2>2, <2>3 DEF WriteMessage, Core, ChatTypeOK
  <2>5. \A d \in Clients : link[d] \in OpenStates <=> link'[d] \in OpenStates
    BY <1>1 DEF WriteMessage, Core, ChatTypeOK, OpenStates, AfterWrite
  <2>6. \A d \in Clients : Readable(d) => Readable(d)'
    BY <1>1 DEF WriteMessage, Core, ChatTypeOK, Readable, Over, AtEnd, AfterWrite
  <2>. QED
    BY <2>4, <2>5, <2>6 DEF WriteMessage
<1>3. Control'
  BY <1>2 DEF Core, Control
<1>4. Core'
  BY <1>2, <1>3, CoreFrame
<1>5. \A s \in Slots : sock_fd[s] # -1 => open[sock_fd[s]] \in Clients
  BY TakenSlot
<1>6. ReadsDoNotBlock'
  BY <1>2, <1>5, ReadsFrame
<1>. QED
  BY <1>4, <1>6

(* The other ready users are not the one that is read. *)
LEMMA OthersAreOthers ==
  ASSUME Core, ReadySlots # {}, NEW s \in Slots, s # Here, sock_fd[s] # -1
  PROVE  /\ sock_fd[s] \in ClientFds /\ sock_fd[s] # sock_fd[Here]
         /\ open[sock_fd[s]] \in Clients /\ open[sock_fd[s]] # User
<1>1. /\ sock_fd[s] \in ClientFds /\ open[sock_fd[s]] \in Clients
      /\ open[sock_fd[s]] = User => s = Here
  BY UserIsHere, TakenSlot
<1>. QED
  BY <1>1, UserIsHere

(* The scan reads a user and goes on, or starts a broadcast: either way it is past
   that user, and the next ones are as they were. *)
LEMMA ScanGoesOn ==
  ASSUME Core, ReadsDoNotBlock, pc = "scan", ReadySlots # {},
         UNCHANGED <<open, sock_fd, listen_fds>>,
         \/ pc' = "scan" /\ index' = Here + 1
         \/ pc' = "broadcast" /\ index' = Here,
         \A c \in Clients : c # User /\ Readable(c) => Readable(c)'
  PROVE  ReadsDoNotBlock'
<1>1. Here \in Int /\ Here >= index /\ index \in Int
  BY UserIsHere DEF Core, ChatTypeOK, Slots
<1>2. ASSUME NEW s \in Slots, s >= index', s # index' \/ pc' # "broadcast"
      PROVE  s >= index /\ s # Here
  BY <1>1, <1>2 DEF Slots
<1>3. ASSUME NEW s \in Slots, s # Here, sock_fd[s] # -1, Readable(open[sock_fd[s]])
      PROVE  Readable(open[sock_fd[s]])'
  <2>. DEFINE c == open[sock_fd[s]]
  <2>1. c \in Clients /\ c # User /\ c' = c
    BY <1>3, OthersAreOthers
  <2>2. Readable(c)
    BY <1>3
  <2>. HIDE DEF c
  <2>3. taken'[c] < sent'[c] \/ link'[c] \in Over
    BY <2>1, <2>2 DEF Readable
  <2>. QED
    BY <2>1, <2>3 DEF Readable, c
<1>. QED
  BY <1>2, <1>3, ReadsFrame

LEMMA NamePreserves ==
  ASSUME Core, ReadsDoNotBlock, ReadName \/ NameFails
  PROVE  Core' /\ ReadsDoNotBlock'
<1>0. /\ pc = "scan" /\ ReadySlots # {}
      /\ Here \in Slots /\ sock_fd[Here] # -1
      /\ User \in Clients /\ open[sock_fd[Here]] = User /\ link[User] \in OpenStates
      /\ ChatTypeOK
  BY UserIsHere DEF ReadName, NameFails, ReadyUser, Core
<1>1. /\ index' = Here + 1
      /\ \E name \in {User, GARBAGE} : username' = [username EXCEPT ![Here] = name]
      /\ UNCHANGED <<open, sock_fd, all_fds, max_fd, listen_fds, pc, i, said, heard, joined,
                     sent>>
  BY DEF ReadName, NameFails, world, history
<1>2. \/ link' = link
      \/ link[User] = "aborted" /\ link' = [link EXCEPT ![User] = "broken"]
  BY DEF ReadName, NameFails, Failure, world
<1>3. \/ UNCHANGED <<taken, named>>
      \/ \E n \in Nat : /\ taken' = [taken EXCEPT ![User] = @ + n]
                        /\ named' = [named EXCEPT ![User] = n]
  <2>1. \A n \in 1 .. sent[User] - taken[User] : n \in Nat
    OBVIOUS
  <2>. QED
    BY <2>1 DEF ReadName, NameFails, history
<1>4. ChatTypeOK'
  <2>1. index' \in 0 .. MAX_CONNECTIONS
    BY <1>0, <1>1, ChatAssumption DEF Slots
  <2>2. link' \in [Clients -> LinkStates]
    BY <1>0, <1>2 DEF ChatTypeOK, LinkStates
  <2>3. taken' \in [Clients -> Nat] /\ named' \in [Clients -> Nat]
    <3>1. taken \in [Clients -> Nat] /\ named \in [Clients -> Nat]
      BY <1>0 DEF ChatTypeOK
    <3>. QED
      BY <1>0, <1>3, <3>1
  <2>4. username' \in [Slots -> Clients \cup {GARBAGE, NULL}]
    BY <1>0, <1>1 DEF ChatTypeOK
  <2>. QED
    BY <1>0, <1>1, <2>1, <2>2, <2>3, <2>4 DEF ChatTypeOK
<1>5. Control'
  BY <1>0, <1>1 DEF Control
<1>6. Core'
  <2>1. \A s \in Slots :
          \/ username'[s] = username[s]
          \/ sock_fd[s] # -1 /\ username'[s] \in {open[sock_fd[s]], GARBAGE}
    BY <1>0, <1>1 DEF ChatTypeOK
  <2>2. \A c \in Clients : link[c] \in OpenStates <=> link'[c] \in OpenStates
    BY <1>0, <1>2 DEF ChatTypeOK, OpenStates
  <2>. QED
    BY <1>1, <1>4, <1>5, <2>1, <2>2, CoreFrame
<1>7. \A c \in Clients : c # User /\ Readable(c) => Readable(c)'
  BY <1>0, <1>1, <1>2, <1>3 DEF ChatTypeOK, Readable, Over, AtEnd
<1>8. ReadsDoNotBlock'
  BY <1>0, <1>1, <1>7, ScanGoesOn
<1>. QED
  BY <1>6, <1>8

(* What the reading of a named user says, and what it does to the connection. *)
LEMMA MessageStep ==
  ASSUME Core, ReadMessage \/ ReadFails
  PROVE  /\ pc = "scan" /\ ReadySlots # {} /\ pc' = "broadcast"
         /\ index' = Here /\ i' = 0
         /\ \E n \in Nat :
              /\ taken' = [taken EXCEPT ![User] = @ + n]
              /\ said' = Append(said, [by |-> User, first |-> taken[User] + 1,
                                       last |-> taken[User] + n])
         /\ \/ link' = link
            \/ link[User] = "aborted" /\ link' = [link EXCEPT ![User] = "broken"]
         /\ UNCHANGED <<sent, table, listen_fds, heard, joined, named>>
<1>1. CASE ReadMessage
  <2>1. PICK n \in 1 .. sent[User] - taken[User] :
          /\ taken' = [taken EXCEPT ![User] = @ + n]
          /\ StartBroadcast(taken[User] + 1, taken[User] + n)
    BY <1>1 DEF ReadMessage
  <2>2. n \in Nat
    OBVIOUS
  <2>. QED
    BY <1>1, <2>1, <2>2 DEF ReadMessage, ReadyUser, StartBroadcast, world
<1>2. CASE ReadFails
  <2>1. User \in Clients
    BY <1>2, UserIsHere DEF ReadFails, ReadyUser
  <2>2. taken[User] + 0 = taken[User] /\ taken' = [taken EXCEPT ![User] = @ + 0]
    BY <1>2, <2>1 DEF ReadFails, Core, ChatTypeOK
  <2>. QED
    BY <1>2, <2>2 DEF ReadFails, ReadyUser, StartBroadcast, Failure
<1>. QED
  BY <1>1, <1>2

LEMMA MessagePreserves ==
  ASSUME Core, ReadsDoNotBlock, ReadMessage \/ ReadFails
  PROVE  Core' /\ ReadsDoNotBlock'
<1>0. /\ pc = "scan" /\ ReadySlots # {} /\ pc' = "broadcast"
      /\ index' = Here /\ i' = 0
      /\ \/ link' = link
         \/ link[User] = "aborted" /\ link' = [link EXCEPT ![User] = "broken"]
      /\ UNCHANGED <<sent, open, sock_fd, username, all_fds, max_fd, listen_fds, heard,
                     joined, named>>
  BY MessageStep DEF table
<1>1. PICK n \in Nat :
        /\ taken' = [taken EXCEPT ![User] = @ + n]
        /\ said' = Append(said, [by |-> User, first |-> taken[User] + 1,
                                 last |-> taken[User] + n])
  BY MessageStep
<1>2. /\ Here \in Slots /\ sock_fd[Here] # -1
      /\ User \in Clients /\ open[sock_fd[Here]] = User /\ link[User] \in OpenStates
      /\ ChatTypeOK
  BY <1>0, UserIsHere DEF Core
<1>3. /\ said' \in Seq([by : Clients, first : Nat, last : Nat])
      /\ Len(said') = Len(said) + 1 /\ Len(said) \in Nat
      /\ said'[Len(said')].by = User
  <2>. DEFINE new == [by |-> User, first |-> taken[User] + 1, last |-> taken[User] + n]
  <2>1. new \in [by : Clients, first : Nat, last : Nat]
    BY <1>2 DEF ChatTypeOK
  <2>2. new.by = User
    OBVIOUS
  <2>. HIDE DEF new
  <2>3. said \in Seq([by : Clients, first : Nat, last : Nat])
    BY <1>2 DEF ChatTypeOK
  <2>4. said' = Append(said, new)
    BY <1>1 DEF new
  <2>. QED
    BY <2>1, <2>2, <2>3, <2>4, AppendProperties
<1>4. ChatTypeOK'
  <2>1. link' \in [Clients -> LinkStates]
    BY <1>0, <1>2 DEF ChatTypeOK, LinkStates
  <2>2. taken' \in [Clients -> Nat]
    BY <1>1, <1>2 DEF ChatTypeOK
  <2>3. index' \in 0 .. MAX_CONNECTIONS /\ i' \in 0 .. MAX_CONNECTIONS
    BY <1>0, <1>2, ChatAssumption DEF Slots
  <2>. QED
    BY <1>0, <1>2, <1>3, <2>1, <2>2, <2>3 DEF ChatTypeOK
<1>5. Control'
  BY <1>0, <1>2, <1>3 DEF Control
<1>6. Core'
  <2>1. \A c \in Clients : link[c] \in OpenStates <=> link'[c] \in OpenStates
    BY <1>0, <1>2 DEF ChatTypeOK, OpenStates
  <2>. QED
    BY <1>0, <1>4, <1>5, <2>1, CoreFrame
<1>7. \A c \in Clients : c # User /\ Readable(c) => Readable(c)'
  BY <1>0, <1>1, <1>2 DEF ChatTypeOK, Readable, Over, AtEnd
<1>8. ReadsDoNotBlock'
  BY <1>0, <1>7, ScanGoesOn
<1>. QED
  BY <1>6, <1>8

LEMMA LeavePreserves ==
  ASSUME Core, ReadsDoNotBlock, Leave
  PROVE  Core' /\ ReadsDoNotBlock'
<1>. DEFINE fd == sock_fd[Here]
<1>0. /\ pc = "scan" /\ pc' = "scan" /\ ReadySlots # {}
      /\ Here \in Slots /\ fd # -1 /\ fd \in ClientFds
      /\ User \in Clients /\ open[fd] = User
      /\ link' = [link EXCEPT ![User] = "closed"]
      /\ sock_fd' = [sock_fd EXCEPT ![Here] = -1]
      /\ username' = [username EXCEPT ![Here] = NULL]
      /\ all_fds' = all_fds \ {fd}
      /\ open' = [open EXCEPT ![fd] = NULL]
      /\ index' = Here + 1
      /\ UNCHANGED <<sent, taken, max_fd, listen_fds, i, history>>
  BY UserIsHere DEF Leave, ReadyUser
<1>1. /\ index \in Int /\ Here >= index
      /\ \A s \in Slots : s # Here /\ sock_fd[s] # -1 =>
           /\ sock_fd[s] \in ClientFds /\ sock_fd[s] # fd
           /\ open[sock_fd[s]] \in Clients /\ open[sock_fd[s]] # User
  <2>1. index \in Int /\ Here >= index
    BY <1>0, UserIsHere DEF Core, ChatTypeOK
  <2>. QED
    BY <1>0, <2>1, OthersAreOthers
<1>. HIDE DEF fd
<1>. USE ChatAssumption DEF Core
<1>2. ChatTypeOK'
  <2>1. index' \in 0 .. MAX_CONNECTIONS
    BY <1>0 DEF Slots
  <2>. QED
    BY <1>0, <2>1 DEF ChatTypeOK, LinkStates, history
<1>3. TableAgrees'
  <2>1. \A f \in ClientFds :
          /\ open'[f] # NULL <=> f \in all_fds'
          /\ f \in all_fds' => f <= max_fd'
    BY <1>0 DEF TableAgrees, ChatTypeOK
  <2>2. -1 \notin ClientFds /\ \A t \in Slots : sock_fd'[t] = IF t = Here THEN -1 ELSE sock_fd[t]
    BY <1>0 DEF ChatTypeOK, ClientFds
  <2>3. sock_fd[Here] = fd
    BY DEF fd
  <2>4. \A f \in ClientFds : open'[f] # NULL <=> \E t \in Slots : sock_fd'[t] = f
    BY <1>0, <1>1, <2>2, <2>3 DEF TableAgrees, ChatTypeOK
  <2>5. \A t, u \in Slots : sock_fd'[t] = sock_fd'[u] /\ sock_fd'[t] # -1 => t = u
    BY <2>2 DEF TableAgrees
  <2>6. \A t \in Slots : IF sock_fd'[t] = -1 THEN username'[t] = NULL
                         ELSE username'[t] \in {open'[sock_fd'[t]], GARBAGE, NULL}
    BY <1>0, <1>1, <2>2 DEF TableAgrees, ChatTypeOK
  <2>. QED
    BY <2>1, <2>4, <2>5, <2>6 DEF TableAgrees
<1>4. Control'
  BY <1>0 DEF Control
<1>5. OpenLinks'
  <2>1. \A f \in ClientFds : open'[f] # NULL => f # fd /\ open'[f] = open[f]
    BY <1>0 DEF ChatTypeOK
  <2>2. \A f \in ClientFds : open[f] = User => f = fd
    BY <1>0 DEF OpenLinks
  <2>3. \A f \in ClientFds : open'[f] # NULL => link'[open'[f]] \in OpenStates
    BY <1>0, <2>1, <2>2 DEF OpenLinks, ChatTypeOK
  <2>4. \A c \in Clients :
          link'[c] \in OpenStates => \E f \in ClientFds : open'[f] = c
    BY <1>0, <2>1, <2>2 DEF OpenLinks, OpenStates, ChatTypeOK
  <2>5. \A f, g \in ClientFds : open'[f] = open'[g] /\ open'[f] # NULL => f = g
    BY <2>1 DEF OpenLinks
  <2>. QED
    BY <2>3, <2>4, <2>5 DEF OpenLinks
<1>6. ReadsDoNotBlock'
  <2>1. ASSUME NEW s \in Slots, s >= index', sock_fd'[s] \in listen_fds'
        PROVE  Readable(open[sock_fd[s]])'
    <3>1. s >= index /\ s # Here
      BY <1>0, <1>1, <2>1 DEF Slots
    <3>2. sock_fd'[s] = sock_fd[s] /\ sock_fd[s] \in listen_fds /\ sock_fd[s] # -1
      BY <1>0, <2>1, <3>1 DEF ChatTypeOK, ClientFds, listen_fd
    <3>3. Readable(open[sock_fd[s]])
      BY <1>0, <3>1, <3>2 DEF ReadsDoNotBlock, ReadySlots
    <3>4. open'[sock_fd[s]] = open[sock_fd[s]]
      BY <1>0, <1>1, <3>1, <3>2 DEF ChatTypeOK
    <3>. QED
      BY <1>0, <1>1, <3>1, <3>2, <3>3, <3>4 DEF Readable, ChatTypeOK
  <2>. QED
    BY <1>0, <2>1 DEF ReadsDoNotBlock, ReadySlots
<1>. QED
  BY <1>2, <1>3, <1>4, <1>5, <1>6

LEMMA CorePreserved ==
  Core /\ ReadsDoNotBlock /\ [Next]_vars => Core' /\ ReadsDoNotBlock'
<1>. SUFFICES ASSUME Core, ReadsDoNotBlock, [Next]_vars
              PROVE  Core' /\ ReadsDoNotBlock'
  OBVIOUS
<1>1. CASE UNCHANGED vars
  BY <1>1 DEF vars, world, table, history, Core, ChatTypeOK, TableAgrees, Control,
              OpenLinks, ReadsDoNotBlock, ReadySlots, Readable
<1>. QED
  BY <1>1, AcceptPreserves, PassPreserves, NamePreserves, MessagePreserves,
     LeavePreserves, WritePreserves, WorldPreserves
  DEF Next, ServerStep

--------------------------------------------------------------------------------
(* The conversation. *)

(* Nothing is known of client c yet. *)
Unsaid(c) ==
  /\ taken[c] = 0 /\ named[c] = 0
  /\ \A m \in DOMAIN said : said[m].by # c

Newcomers ==
  /\ \A c \in Clients :
       link[c] \in {"off", "backlog"} => heard[c] = <<>> /\ Unsaid(c)
  /\ \A s \in Slots :
       sock_fd[s] # -1 /\ username[s] = NULL => Unsaid(open[sock_fd[s]])

(* Who is connected while a message is broadcast came before it. *)
Joined ==
  \A c \in Clients :
    /\ joined[c] <= Len(said)
    /\ pc = "broadcast" /\ link[c] = "up" => joined[c] < Len(said)

Conversation == Newcomers /\ Joined /\ HeardByAll /\ OwnWords

Messages == [by : Clients, first : Nat, last : Nat]

LEMMA ConversationInit == Init => Conversation
<1>. SUFFICES ASSUME Init PROVE Conversation
  OBVIOUS
<1>. USE DEF Init
<1>1. Newcomers /\ Joined
  BY DEF Newcomers, Joined, Unsaid
<1>2. HeardByAll
  BY DEF HeardByAll
<1>3. OwnWords
  BY DEF OwnWords, SaidUpTo
<1>. QED
  BY <1>1, <1>2, <1>3 DEF Conversation

(* A step in which nobody says anything, is named or is accepted. *)
LEMMA NewcomersFrame ==
  ASSUME Core, Newcomers,
         UNCHANGED <<taken, named, said>>,
         \A c \in Clients : link'[c] \in {"off", "backlog"} =>
           link[c] \in {"off", "backlog"} /\ heard'[c] = heard[c],
         \A s \in Slots : sock_fd'[s] # -1 /\ username'[s] = NULL =>
           /\ sock_fd[s] # -1 /\ username[s] = NULL
           /\ open'[sock_fd'[s]] = open[sock_fd[s]]
  PROVE  Newcomers'
  BY DEF Newcomers, Unsaid

LEMMA JoinedFrame ==
  ASSUME Core, Joined, UNCHANGED <<said, joined>>,
         pc' = "broadcast" => pc = "broadcast",
         \A c \in Clients : link'[c] = "up" => link[c] = "up"
  PROVE  Joined'
  BY DEF Joined

LEMMA HeardFrame ==
  ASSUME HeardByAll, UNCHANGED <<said, heard, joined>>,
         Running' => Running,
         \A c \in Clients :
           Running' /\ link'[c] = "up" => link[c] = "up" /\ Pending(c)' = Pending(c)
  PROVE  HeardByAll'
  BY DEF HeardByAll

LEMMA OwnWordsFrame ==
  ASSUME OwnWords, UNCHANGED <<said, named, taken>>
  PROVE  OwnWords'
  BY DEF OwnWords, SaidUpTo

(* The steps in which nobody says, hears or joins anything. *)
LEMMA QuietSteps ==
  ASSUME Core, Conversation,
         \/ Select \/ \E c \in Clients : Refuse(c) \/ AcceptFails(c)
         \/ NoName \/ EndScan \/ WriteToBroken \/ EndBroadcast \/ NameFails \/ Leave
         \/ World \/ UNCHANGED vars
  PROVE  Conversation'
<1>. USE DEF Conversation
<1>1. ASSUME UNCHANGED <<said, heard, joined, taken, named>>,
             pc' = "broadcast" => pc = "broadcast",
             Running' => Running,
             \A c \in Clients : link'[c] = "up" => link[c] = "up",
             \A c \in Clients :
               link'[c] \in {"off", "backlog"} => link[c] \in {"off", "backlog"},
             \A s \in Slots : sock_fd'[s] # -1 /\ username'[s] = NULL =>
               /\ sock_fd[s] # -1 /\ username[s] = NULL
               /\ open'[sock_fd'[s]] = open[sock_fd[s]],
             \A c \in Clients : Running' => Pending(c)' = Pending(c)
      PROVE  Conversation'
  <2>1. Newcomers'
    BY <1>1, NewcomersFrame
  <2>2. Joined'
    BY <1>1, JoinedFrame
  <2>3. HeardByAll'
    BY <1>1, HeardFrame
  <2>4. OwnWords'
    BY <1>1, OwnWordsFrame
  <2>. QED
    BY <2>1, <2>2, <2>3, <2>4
<1>2. CASE Select \/ EndScan \/ NoName \/ WriteToBroken
  <2>1. /\ UNCHANGED <<world, taken, table, i, history>>
        /\ pc' # "broadcast" /\ Running
        /\ Running' => pc \in {"select", "scan"}
    BY <1>2 DEF Select, EndScan, NoName, WriteToBroken, ReadyUser, AtReader, Running
  <2>2. \A c \in Clients : Running' => Pending(c)' = Pending(c)
    BY <2>1 DEF Pending
  <2>. QED
    BY <1>1, <2>1, <2>2 DEF world, table, history
<1>3. ASSUME NEW c \in Clients, Refuse(c) \/ AcceptFails(c)
      PROVE  Conversation'
  <2>1. /\ UNCHANGED <<sent, taken, table, i, history>>
        /\ link[c] = "backlog"
        /\ link' = link \/ link' = [link EXCEPT ![c] = "off"]
        /\ pc' = "select" /\ pc = "accept"
    BY <1>3 DEF Refuse, AcceptFails
  <2>2. \A d \in Clients : Pending(d)' = Pending(d)
    BY <2>1 DEF Pending
  <2>3. \A d \in Clients :
          link'[d] = link[d] \/ (link[d] = "backlog" /\ link'[d] = "off")
    BY <2>1 DEF Core, ChatTypeOK
  <2>. QED
    BY <1>1, <2>1, <2>2, <2>3 DEF world, table, history, Running
<1>4. CASE EndBroadcast
  <2>1. /\ UNCHANGED <<world, taken, table, i, history>>
        /\ pc' = "scan" /\ pc = "broadcast" /\ i = MAX_CONNECTIONS
    BY <1>4 DEF EndBroadcast
  <2>2. \A s \in MAX_CONNECTIONS .. MAX_CONNECTIONS - 1 : FALSE
    BY ChatAssumption
  <2>3. \A c \in Clients : Pending(c)' = Pending(c)
    BY <2>1, <2>2 DEF Pending
  <2>. QED
    BY <1>1, <2>1, <2>3 DEF world, table, history, Running
<1>5. CASE NameFails \/ Leave
  <2>0. /\ pc = "scan" /\ pc' = "scan" /\ ReadySlots # {}
        /\ Here \in Slots /\ sock_fd[Here] \in ClientFds
        /\ User \in Clients /\ link[User] \in OpenStates
        /\ UNCHANGED <<sent, taken, i, history>>
    BY <1>5, UserIsHere DEF NameFails, Leave, ReadyUser
  <2>1. \A c \in Clients : Pending(c)' = Pending(c)
    BY <2>0 DEF Pending
  <2>2. \A c \in Clients : link'[c] = link[c] \/ link'[c] \in {"broken", "closed"}
    BY <1>5, <2>0 DEF NameFails, Leave, Core, ChatTypeOK
  <2>3. ASSUME NEW s \in Slots, sock_fd'[s] # -1, username'[s] = NULL
        PROVE  /\ sock_fd[s] # -1 /\ username[s] = NULL
               /\ open'[sock_fd'[s]] = open[sock_fd[s]]
    <3>1. CASE NameFails
      <4>1. username' = [username EXCEPT ![Here] = GARBAGE] /\ UNCHANGED <<open, sock_fd>>
        BY <3>1 DEF NameFails
      <4>. QED
        BY <2>3, <4>1, <2>0, ChatAssumption DEF Core, ChatTypeOK
    <3>2. CASE Leave
      <4>1. /\ username' = [username EXCEPT ![Here] = NULL]
            /\ sock_fd' = [sock_fd EXCEPT ![Here] = -1]
            /\ open' = [open EXCEPT ![sock_fd[Here]] = NULL]
        BY <3>2 DEF Leave
      <4>2. s # Here /\ sock_fd'[s] = sock_fd[s] /\ username'[s] = username[s]
        BY <2>0, <2>3, <4>1 DEF Core, ChatTypeOK
      <4>3. sock_fd[s] # sock_fd[Here] /\ sock_fd[s] \in ClientFds
        BY <2>0, <2>3, <4>2, OthersAreOthers
      <4>. QED
        BY <2>0, <2>3, <4>1, <4>2, <4>3 DEF Core, ChatTypeOK
    <3>. QED
      BY <1>5, <3>1, <3>2
  <2>. QED
    BY <1>1, <2>0, <2>1, <2>2, <2>3 DEF history, Running
<1>6. ASSUME NEW c \in Clients, Connect(c) \/ Send(c) \/ PeerEvent(c)
      PROVE  Conversation'
  <2>1. /\ UNCHANGED <<taken, table, pc, i, index, history>>
        /\ \/ link' = link
           \/ link[c] = "off" /\ link' = [link EXCEPT ![c] = "backlog"]
           \/ link' = [link EXCEPT ![c] = "fin"]
           \/ link' = [link EXCEPT ![c] = "aborted"]
           \/ link' = [link EXCEPT ![c] = "broken"]
    <3>1. CASE Send(c)
      BY <3>1, Zenon DEF Send
    <3>2. CASE Connect(c) \/ PeerEvent(c)
      BY <3>2 DEF Connect, PeerEvent
    <3>. QED
      BY <1>6, <3>1, <3>2
  <2>2. \A d \in Clients :
          \/ link'[d] = link[d] \/ link'[d] \in {"fin", "aborted", "broken"}
          \/ link[d] = "off" /\ link'[d] = "backlog"
    BY <2>1 DEF Core, ChatTypeOK
  <2>3. \A d \in Clients : Pending(d)' = Pending(d)
    BY <2>1 DEF Pending, table
  <2>. QED
    BY <1>1, <2>1, <2>2, <2>3 DEF table, history, Running
<1>7. CASE UNCHANGED vars
  BY <1>1, <1>7 DEF vars, world, table, history, Running, Pending
<1>. QED
  BY <1>2, <1>3, <1>4, <1>5, <1>6, <1>7 DEF World

(* A new client has heard nothing and missed nothing. *)
LEMMA AcceptConverses ==
  ASSUME Core, Conversation, NEW c \in Clients, Accept(c)
  PROVE  Conversation'
<1>. USE ChatAssumption DEF Conversation
<1>1. PICK s \in Slots, fd \in ClientFds :
        /\ sock_fd[s] = -1 /\ open[fd] = NULL
        /\ open' = [open EXCEPT ![fd] = c]
        /\ sock_fd' = [sock_fd EXCEPT ![s] = fd]
        /\ username' = [username EXCEPT ![s] = NULL]
  BY SlotAndFd DEF Accept, Core
<1>2. /\ pc = "accept" /\ pc' = "scan" /\ link[c] = "backlog"
      /\ link' = [link EXCEPT ![c] = "up"]
      /\ joined' = [joined EXCEPT ![c] = Len(said)]
      /\ UNCHANGED <<sent, taken, listen_fds, index, i, said, heard, named>>
  BY DEF Accept
<1>. HIDE DEF Accept
<1>3. heard[c] = <<>> /\ Unsaid(c) /\ Unsaid(c)'
  BY <1>2 DEF Newcomers, Unsaid
<1>4. Newcomers'
  <2>1. \A d \in Clients : link'[d] \in {"off", "backlog"} =>
          link[d] \in {"off", "backlog"} /\ heard'[d] = heard[d]
    BY <1>2 DEF Core, ChatTypeOK
  <2>2. ASSUME NEW t \in Slots, sock_fd'[t] # -1, username'[t] = NULL
        PROVE  Unsaid(open[sock_fd[t]])'
    <3>1. CASE t = s
      <4>1. open'[sock_fd'[t]] = c
        BY <1>1, <3>1 DEF Core, ChatTypeOK
      <4>. QED
        BY <1>2, <1>3, <4>1 DEF Unsaid
    <3>2. CASE t # s
      <4>1. sock_fd'[t] = sock_fd[t] /\ username[t] = NULL
        BY <1>1, <2>2, <3>2 DEF Core, ChatTypeOK
      <4>2. sock_fd[t] \in ClientFds /\ open[sock_fd[t]] \in Clients
        BY <2>2, <4>1, TakenSlot
      <4>3. open'[sock_fd'[t]] = open[sock_fd[t]]
        BY <1>1, <4>1, <4>2 DEF Core, ChatTypeOK
      <4>4. Unsaid(open[sock_fd[t]])
        BY <2>2, <4>1 DEF Newcomers
      <4>. QED
        BY <1>2, <4>3, <4>4 DEF Unsaid
    <3>. QED
      BY <3>1, <3>2
  <2>3. \A d \in Clients : Unsaid(d) => Unsaid(d)'
    BY <1>2 DEF Unsaid
  <2>. QED
    BY <1>2, <2>1, <2>2, <2>3 DEF Newcomers
<1>5. Joined'
  BY <1>2 DEF Joined, Core, ChatTypeOK
<1>6. HeardByAll'
  <2>0. Len(said) \in Nat /\ Len(said) + 1 .. Len(said) = {}
    BY DEF Core, ChatTypeOK
  <2>1. pc' = "scan" /\ pc # "broadcast" /\ \A d \in Clients : ~ Pending(d) /\ ~ Pending(d)'
    BY <1>2 DEF Pending
  <2>2. ASSUME NEW d \in Clients, d # c
        PROVE  joined'[d] = joined[d] /\ (link'[d] = "up" => link[d] = "up")
    BY <1>2, <2>2 DEF Core, ChatTypeOK
  <2>3. joined'[c] = Len(said)
    BY <1>2 DEF Core, ChatTypeOK
  <2>. QED
    BY <1>2, <1>3, <2>0, <2>1, <2>2, <2>3 DEF HeardByAll, Running
<1>7. OwnWords'
  BY <1>2, OwnWordsFrame
<1>. QED
  BY <1>4, <1>5, <1>6, <1>7

(* A name comes before all words. *)
LEMMA NameConverses ==
  ASSUME Core, Conversation, ReadName
  PROVE  Conversation'
<1>. USE DEF Conversation
<1>0. /\ pc = "scan" /\ ReadySlots # {} /\ username[Here] = NULL
      /\ Here \in Slots /\ sock_fd[Here] # -1
      /\ User \in Clients /\ open[sock_fd[Here]] = User /\ link[User] \in OpenStates
      /\ UNCHANGED <<link, sent, open, sock_fd, pc, i, said, heard, joined>>
      /\ username' = [username EXCEPT ![Here] = User]
  BY UserIsHere DEF ReadName, ReadyUser, world
<1>1. PICK n \in Nat : /\ taken' = [taken EXCEPT ![User] = @ + n]
                       /\ named' = [named EXCEPT ![User] = n]
  <2>1. \A n \in 1 .. sent[User] - taken[User] : n \in Nat
    OBVIOUS
  <2>. QED
    BY <2>1 DEF ReadName
<1>2. Unsaid(User)
  BY <1>0 DEF Newcomers
<1>3. taken'[User] = n /\ named'[User] = n
  BY <1>0, <1>1, <1>2 DEF Unsaid, Core, ChatTypeOK
<1>4. \A c \in Clients : c # User => taken'[c] = taken[c] /\ named'[c] = named[c]
  BY <1>1 DEF Core, ChatTypeOK
<1>5. Newcomers'
  <2>1. \A c \in Clients : link[c] \in {"off", "backlog"} => c # User
    BY <1>0 DEF OpenStates
  <2>2. ASSUME NEW s \in Slots, sock_fd[s] # -1, username'[s] = NULL
        PROVE  Unsaid(open[sock_fd[s]])'
    <3>1. s # Here /\ username[s] = NULL
      BY <1>0, <2>2, ChatAssumption DEF Core, ChatTypeOK
    <3>2. open[sock_fd[s]] \in Clients /\ open[sock_fd[s]] # User
      BY <1>0, <2>2, <3>1, OthersAreOthers
    <3>3. Unsaid(open[sock_fd[s]])
      BY <2>2, <3>1 DEF Newcomers
    <3>. QED
      BY <1>0, <1>4, <3>2, <3>3 DEF Unsaid
  <2>. QED
    BY <1>0, <1>4, <2>1, <2>2 DEF Newcomers, Unsaid
<1>6. Joined'
  BY <1>0, JoinedFrame
<1>7. HeardByAll'
  <2>1. \A c \in Clients : Pending(c)' = Pending(c)
    BY <1>0 DEF Pending
  <2>. QED
    BY <1>0, <2>1, HeardFrame DEF Running
<1>8. OwnWords'
  <2>1. ASSUME NEW c \in Clients, c # User
        PROVE  /\ \A m \in DOMAIN said :
                    said[m].by = c => SaidUpTo(c, m, said[m].first - 1)'
               /\ SaidUpTo(c, Len(said) + 1, taken[c])'
    BY <1>0, <1>4, <2>1 DEF OwnWords, SaidUpTo
  <2>2. ASSUME NEW c \in Clients, c = User
        PROVE  /\ \A m \in DOMAIN said : said[m].by # c
               /\ SaidUpTo(c, Len(said) + 1, taken[c])'
    BY <1>0, <1>2, <1>3, <2>2 DEF Unsaid, SaidUpTo
  <2>3. ASSUME NEW c \in Clients
        PROVE  /\ \A m \in DOMAIN said' :
                    said'[m].by = c => SaidUpTo(c, m, said[m].first - 1)'
               /\ SaidUpTo(c, Len(said) + 1, taken[c])'
    BY <1>0, <2>1, <2>2
  <2>. QED
    BY <2>3 DEF OwnWords
<1>. QED
  BY <1>5, <1>6, <1>7, <1>8

(* What is left of the loop over the readers. *)
LEMMA RestOfLoop ==
  ASSUME i \in Slots
  PROVE  \A s : s \in i .. MAX_CONNECTIONS - 1 <=>
                  s = i \/ s \in i + 1 .. MAX_CONNECTIONS - 1
  BY ChatAssumption DEF Slots

(* The sender has heard of its message, and a slot that is empty hears nothing. *)
LEMMA SkipConverses ==
  ASSUME Core, Conversation, SkipSlot
  PROVE  Conversation'
<1>. USE DEF Conversation
<1>0. /\ pc = "broadcast" /\ i \in Slots
      /\ i = index \/ sock_fd[i] = -1
      /\ i' = i + 1
      /\ UNCHANGED <<link, sent, taken, open, sock_fd, username, all_fds, max_fd, pc, index,
                     said, heard, joined, named>>
  BY DEF SkipSlot, world, table, history
<1>1. Newcomers' /\ Joined' /\ OwnWords'
  BY <1>0, NewcomersFrame, JoinedFrame, OwnWordsFrame
<1>2. /\ index \in Slots /\ sock_fd[index] # -1
      /\ said[Len(said)].by = open[sock_fd[index]]
  BY <1>0 DEF Core, Control
<1>3. ASSUME NEW c \in Clients, said[Len(said)].by # c
      PROVE  Pending(c)' <=> Pending(c)
  <2>1. ~ (sock_fd[i] # -1 /\ open[sock_fd[i]] = c)
    BY <1>0, <1>2, <1>3
  <2>. QED
    BY <1>0, <2>1, RestOfLoop DEF Pending
<1>4. HeardByAll'
  BY <1>0, <1>3 DEF HeardByAll, Running
<1>. QED
  BY <1>1, <1>4

(* A message that is added is the last one. *)
LEMMA AppendedMessage ==
  ASSUME ChatTypeOK, NEW new \in Messages, said' = Append(said, new)
  PROVE  /\ Len(said) \in Nat /\ Len(said') = Len(said) + 1
         /\ DOMAIN said = 1 .. Len(said) /\ DOMAIN said' = 1 .. Len(said) + 1
         /\ \A m \in 1 .. Len(said) : said'[m] = said[m]
         /\ said'[Len(said) + 1] = new
<1>1. said \in Seq(Messages)
  BY DEF ChatTypeOK, Messages
<1>2. said' \in Seq(Messages)
  BY <1>1, AppendProperties
<1>. QED
  BY <1>1, <1>2, AppendProperties, LenProperties

(* The words of a user go on where they ended. *)
LEMMA MessageIsOwn ==
  ASSUME ChatTypeOK, OwnWords, NEW u \in Clients, NEW new \in Messages,
         said' = Append(said, new), new.by = u, new.first = taken[u] + 1,
         taken' = [taken EXCEPT ![u] = new.last], UNCHANGED named
  PROVE  OwnWords'
<1>. DEFINE n == Len(said)
<1>0. /\ n \in Nat /\ Len(said') = n + 1
      /\ DOMAIN said = 1 .. n /\ DOMAIN said' = 1 .. n + 1
      /\ \A m \in 1 .. n : said'[m] = said[m]
      /\ said'[n + 1] = new
  BY AppendedMessage
<1>. HIDE DEF n
<1>1. ASSUME NEW c \in Clients, NEW m \in 1 .. n + 1
      PROVE  {k \in DOMAIN said' : k < m /\ said'[k].by = c} =
               {k \in DOMAIN said : k < m /\ said[k].by = c}
  BY <1>0
<1>2. ASSUME NEW c \in Clients, NEW m \in 1 .. n + 1, NEW x, SaidUpTo(c, m, x)
      PROVE  SaidUpTo(c, m, x)'
  <2>. DEFINE own == {k \in DOMAIN said : k < m /\ said[k].by = c}
  <2>1. own = {k \in DOMAIN said' : k < m /\ said'[k].by = c}
    BY <1>1
  <2>2. \A k \in own : said'[k] = said[k]
    BY <1>0
  <2>3. IF own = {} THEN x = named[c]
        ELSE \E k \in own : x = said[k].last /\ \A l \in own : l <= k
    BY <1>2 DEF SaidUpTo
  <2>. HIDE DEF own
  <2>4. IF own = {} THEN x = named'[c]
        ELSE \E k \in own : x = said'[k].last /\ \A l \in own : l <= k
    BY <2>2, <2>3
  <2>. QED
    BY <2>1, <2>4, Zenon DEF SaidUpTo
<1>3. taken[u] \in Nat
  BY DEF ChatTypeOK
<1>4. ASSUME NEW c \in Clients, NEW m \in DOMAIN said', said'[m].by = c
      PROVE  SaidUpTo(c, m, said[m].first - 1)'
  <2>1. CASE m \in 1 .. n
    <3>1. SaidUpTo(c, m, said[m].first - 1)
      BY <1>0, <1>4, <2>1 DEF OwnWords
    <3>2. PICK x : x = said[m].first - 1
      OBVIOUS
    <3>3. SaidUpTo(c, m, x)'
      BY <1>0, <1>2, <2>1, <3>1, <3>2
    <3>4. said'[m].first - 1 = x
      BY <1>0, <2>1, <3>2
    <3>. QED
      BY <3>3, <3>4, Zenon DEF SaidUpTo
  <2>2. CASE m = n + 1
    <3>1. c = u /\ said'[m].first - 1 = taken[u]
      BY <1>0, <1>3, <1>4, <2>2
    <3>2. PICK x : x = taken[u]
      OBVIOUS
    <3>3. SaidUpTo(u, n + 1, x)
      BY <3>2 DEF OwnWords, n
    <3>4. SaidUpTo(c, m, x)'
      BY <1>0, <1>2, <2>2, <3>1, <3>3
    <3>5. said'[m].first - 1 = x
      BY <3>1, <3>2
    <3>. QED
      BY <3>4, <3>5, Zenon DEF SaidUpTo
  <2>. QED
    BY <1>0, <1>4, <2>1, <2>2
<1>5. ASSUME NEW c \in Clients
      PROVE  SaidUpTo(c, Len(said) + 1, taken[c])'
  <2>1. CASE c = u
    <3>1. taken'[c] = new.last /\ said'[n + 1].by = c /\ said'[n + 1].last = taken'[c]
      BY <1>0, <2>1 DEF ChatTypeOK
    <3>2. \A k \in DOMAIN said' : k < Len(said') + 1 /\ k <= n + 1
      BY <1>0
    <3>3. n + 1 \in DOMAIN said'
      BY <1>0
    <3>. QED
      BY <3>1, <3>2, <3>3 DEF SaidUpTo
  <2>2. CASE c # u
    <3>. DEFINE own == {k \in DOMAIN said : k < n + 1 /\ said[k].by = c}
    <3>1. own = {k \in DOMAIN said' : k < Len(said') + 1 /\ said'[k].by = c}
      BY <1>0, <2>2
    <3>2. \A k \in own : said'[k] = said[k]
      BY <1>0
    <3>3. taken'[c] = taken[c] /\ named'[c] = named[c]
      BY <2>2 DEF ChatTypeOK
    <3>4. IF own = {} THEN taken[c] = named[c]
          ELSE \E k \in own : taken[c] = said[k].last /\ \A l \in own : l <= k
      BY Zenon DEF OwnWords, SaidUpTo, n
    <3>. HIDE DEF own
    <3>5. IF own = {} THEN taken'[c] = named'[c]
          ELSE \E k \in own : taken'[c] = said'[k].last /\ \A l \in own : l <= k
      BY <3>2, <3>3, <3>4
    <3>. QED
      BY <3>1, <3>5, Zenon DEF SaidUpTo
  <2>. QED
    BY <2>1, <2>2
<1>. QED
  BY <1>4, <1>5 DEF OwnWords

(* The heard messages are in increasing order, none of them new. *)
Increasing(h) == \A k, l \in DOMAIN h : k < l => h[k] < h[l]

LEMMA HearNext ==
  ASSUME NEW h \in Seq(Nat), NEW n \in Nat, Increasing(h),
         \A k \in DOMAIN h : h[k] < n
  PROVE  /\ Increasing(Append(h, n))
         /\ {Append(h, n)[k] : k \in DOMAIN Append(h, n)} = {h[k] : k \in DOMAIN h} \cup {n}
<1>. DEFINE g == Append(h, n)
<1>1. /\ Len(h) \in Nat /\ DOMAIN h = 1 .. Len(h) /\ DOMAIN g = 1 .. Len(h) + 1
      /\ \A k \in 1 .. Len(h) : g[k] = h[k] /\ h[k] \in Nat
      /\ g[Len(h) + 1] = n
  BY AppendProperties, LenProperties
<1>. HIDE DEF g
<1>2. Increasing(g)
  BY <1>1 DEF Increasing
<1>3. {g[k] : k \in DOMAIN g} = {h[k] : k \in DOMAIN h} \cup {n}
  <2>1. \A k \in DOMAIN g : k \in DOMAIN h \/ k = Len(h) + 1
    BY <1>1
  <2>2. DOMAIN h \subseteq DOMAIN g /\ Len(h) + 1 \in DOMAIN g
    BY <1>1
  <2>. QED
    BY <1>1, <2>1, <2>2
<1>. QED
  BY <1>2, <1>3 DEF g

(* Everyone but the sender is a reader that the broadcast has yet to come to. *)
LEMMA MessageConverses ==
  ASSUME Core, Conversation, ReadMessage \/ ReadFails
  PROVE  Conversation'
<1>. USE DEF Conversation
<1>0. /\ pc = "scan" /\ ReadySlots # {} /\ pc' = "broadcast"
      /\ index' = Here /\ i' = 0
      /\ \/ link' = link
         \/ link[User] = "aborted" /\ link' = [link EXCEPT ![User] = "broken"]
      /\ UNCHANGED <<sent, open, sock_fd, username, heard, joined, named>>
  BY MessageStep DEF table
<1>1. PICK u \in Clients, new \in Messages :
        /\ u = User /\ new.by = u /\ new.first = taken[u] + 1
        /\ taken' = [taken EXCEPT ![u] = new.last]
        /\ said' = Append(said, new)
  <2>1. PICK n \in Nat :
          /\ taken' = [taken EXCEPT ![User] = @ + n]
          /\ said' = Append(said, [by |-> User, first |-> taken[User] + 1,
                                   last |-> taken[User] + n])
    BY MessageStep
  <2>2. User \in Clients /\ taken[User] \in Nat
    BY <1>0, UserIsHere DEF Core, ChatTypeOK
  <2>. DEFINE m == [by |-> User, first |-> taken[User] + 1, last |-> taken[User] + n]
  <2>3. m \in Messages /\ m.by = User /\ m.first = taken[User] + 1 /\ m.last = taken[User] + n
    BY <2>2 DEF Messages
  <2>4. said' = Append(said, m) /\ taken' = [taken EXCEPT ![User] = m.last]
    BY <2>1
  <2>. HIDE DEF m
  <2>. QED
    BY <2>2, <2>3, <2>4
<1>2. /\ Here \in Slots /\ sock_fd[Here] # -1 /\ open[sock_fd[Here]] = u
      /\ link[u] \in OpenStates
      /\ ChatTypeOK
  BY <1>0, <1>1, UserIsHere DEF Core
<1>3. /\ Len(said) \in Nat /\ Len(said') = Len(said) + 1
      /\ DOMAIN said = 1 .. Len(said) /\ DOMAIN said' = 1 .. Len(said) + 1
      /\ \A m \in 1 .. Len(said) : said'[m] = said[m]
      /\ said'[Len(said) + 1] = new
  BY <1>1, <1>2, AppendedMessage
<1>4. \A c \in Clients : link'[c] = link[c] \/ link'[c] = "broken"
  BY <1>0, <1>2 DEF ChatTypeOK
<1>5. Newcomers'
  <2>1. username[Here] # NULL
    BY DEF ReadMessage, ReadFails, ReadyUser
  <2>2. ASSUME NEW c \in Clients, c # u, Unsaid(c)
        PROVE  Unsaid(c)'
    BY <1>0, <1>1, <1>2, <1>3, <2>2 DEF Unsaid, ChatTypeOK
  <2>3. \A c \in Clients : link'[c] \in {"off", "backlog"} =>
          c # u /\ link[c] \in {"off", "backlog"}
    BY <1>2, <1>4 DEF OpenStates
  <2>4. \A s \in Slots : sock_fd[s] # -1 /\ username[s] = NULL =>
          open[sock_fd[s]] \in Clients /\ open[sock_fd[s]] # u
    BY <1>0, <1>1, <2>1, OthersAreOthers
  <2>5. ASSUME NEW s \in Slots, sock_fd'[s] # -1, username'[s] = NULL
        PROVE  Unsaid(open[sock_fd[s]])'
    <3>1. PICK c \in Clients : c = open[sock_fd[s]] /\ c # u
      BY <1>0, <2>4, <2>5
    <3>2. Unsaid(c)
      BY <1>0, <2>5, <3>1 DEF Newcomers
    <3>3. Unsaid(c)'
      BY <2>2, <3>1, <3>2
    <3>. QED
      BY <1>0, <3>1, <3>3 DEF Unsaid
  <2>. QED
    BY <1>0, <2>2, <2>3, <2>5 DEF Newcomers
<1>6. Joined'
  BY <1>0, <1>3, <1>2 DEF Joined, ChatTypeOK
<1>7. HeardByAll'
  <2>1. ASSUME NEW c \in Clients, link'[c] = "up"
        PROVE  link[c] = "up" /\ (c # u => Pending(c)')
    <3>1. link[c] = "up"
      BY <1>4, <2>1
    <3>2. PICK fd \in ClientFds : open[fd] = c
      BY <3>1 DEF Core, OpenLinks, OpenStates
    <3>3. PICK s \in Slots : sock_fd[s] = fd
      BY <3>2, ChatAssumption DEF Core, TableAgrees
    <3>4. fd # -1 /\ s \in 0 .. MAX_CONNECTIONS - 1
      BY ChatAssumption DEF ClientFds, Slots
    <3>. QED
      BY <1>0, <3>1, <3>2, <3>3, <3>4 DEF Pending
  <2>2. ASSUME NEW c \in Clients, link'[c] = "up"
        PROVE  {m \in joined[c] + 1 .. Len(said') :
                  said'[m].by # c /\ ~ (m = Len(said') /\ Pending(c)')} =
               {m \in joined[c] + 1 .. Len(said) :
                  said[m].by # c /\ ~ (m = Len(said) /\ Pending(c))}
    <3>1. joined[c] \in Nat /\ joined[c] <= Len(said)
      BY <1>2 DEF ChatTypeOK, Joined
    <3>2. ~ Pending(c)
      BY <1>0 DEF Pending
    <3>3. said'[Len(said')].by # c => Pending(c)'
      BY <1>1, <1>3, <2>1, <2>2
    <3>4. \A m \in joined[c] + 1 .. Len(said) : m \in 1 .. Len(said)
      BY <1>3, <3>1
    <3>. QED
      BY <1>3, <3>1, <3>2, <3>3, <3>4
  <2>3. Running
    BY <1>0 DEF Running
  <2>. QED
    BY <1>0, <2>1, <2>2, <2>3 DEF HeardByAll
<1>8. OwnWords'
  BY <1>0, <1>1, <1>2, MessageIsOwn
<1>. QED
  BY <1>5, <1>6, <1>7, <1>8

(* The reader hears the message, which it has not heard before. *)
LEMMA WriteConverses ==
  ASSUME Core, Conversation, WriteMessage
  PROVE  Conversation'
<1>. USE DEF Conversation
<1>0. /\ pc = "broadcast" /\ i \in Slots /\ i # index /\ sock_fd[i] # -1
      /\ i' = i + 1
      /\ UNCHANGED <<sent, taken, open, sock_fd, username, pc, index, said, joined, named>>
  BY DEF WriteMessage, AtReader, table
<1>1. PICK r \in Clients :
        /\ r = open[sock_fd[i]] /\ link[r] \in OpenStates
        /\ \A s \in Slots : sock_fd[s] # -1 /\ open[sock_fd[s]] = r => s = i
        /\ link' = [link EXCEPT ![r] = AfterWrite(@)]
        /\ heard' = IF link[r] = "aborted" THEN heard
                    ELSE [heard EXCEPT ![r] = Append(@, Len(said))]
  <2>1. Reader \in Clients /\ Reader = open[sock_fd[i]]
    BY <1>0, TakenSlot DEF Reader
  <2>. QED
    BY <1>0, <2>1, TakenSlot DEF WriteMessage
<1>2. \A c \in Clients :
        /\ link'[c] = link[c] \/ link'[c] \in {"rst_due", "broken"}
        /\ c # r => link'[c] = link[c] /\ heard'[c] = heard[c]
  BY <1>1 DEF AfterWrite, Core, ChatTypeOK
<1>3. Newcomers'
  <2>1. \A c \in Clients : link'[c] \in {"off", "backlog"} =>
          link[c] \in {"off", "backlog"} /\ heard'[c] = heard[c]
    BY <1>1, <1>2 DEF OpenStates
  <2>. QED
    BY <1>0, <2>1, NewcomersFrame
<1>4. Joined'
  BY <1>0, <1>2, JoinedFrame
<1>5. OwnWords'
  BY <1>0, OwnWordsFrame
<1>6. /\ index \in Slots /\ sock_fd[index] # -1
      /\ said[Len(said)].by = open[sock_fd[index]]
  BY <1>0 DEF Core, Control
<1>7. said[Len(said)].by # r
  BY <1>0, <1>1, <1>6
<1>8. ASSUME NEW c \in Clients, c # r
      PROVE  Pending(c)' = Pending(c)
  BY <1>0, <1>1, <1>8, RestOfLoop DEF Pending
<1>9. Pending(r) /\ ~ Pending(r)'
  <2>1. \A s \in i + 1 .. MAX_CONNECTIONS - 1 : s \in Slots /\ s # i
    BY <1>0, ChatAssumption DEF Slots
  <2>2. i \in i .. MAX_CONNECTIONS - 1
    BY <1>0, ChatAssumption DEF Slots
  <2>. QED
    BY <1>0, <1>1, <2>1, <2>2 DEF Pending
<1>10. HeardByAll'
  <2>1. ASSUME NEW c \in Clients, link'[c] = "up", c # r
        PROVE  link[c] = "up" /\ Pending(c)' = Pending(c) /\ heard'[c] = heard[c]
    BY <1>2, <1>8, <2>1
  <2>2. ASSUME link'[r] = "up"
        PROVE  /\ Increasing(heard'[r])
               /\ {heard'[r][k] : k \in DOMAIN heard'[r]} =
                    {m \in joined[r] + 1 .. Len(said) : said[m].by # r}
    <3>. DEFINE n == Len(said)
                h == heard[r]
                old == {m \in joined[r] + 1 .. n : said[m].by # r /\ m # n}
    <3>1. link[r] = "up"
      BY <1>2, <2>2
    <3>2. h \in Seq(Nat) /\ n \in Nat /\ joined[r] \in Nat
      BY DEF Core, ChatTypeOK
    <3>3. heard'[r] = Append(h, n)
      BY <1>1, <3>1 DEF Core, ChatTypeOK
    <3>4. Increasing(h) /\ {h[k] : k \in DOMAIN h} = old
      BY <1>0, <1>9, <3>1 DEF HeardByAll, Increasing, Running
    <3>5. joined[r] < n
      BY <1>0, <3>1 DEF Joined
    <3>. HIDE DEF n, h
    <3>6. \A k \in DOMAIN h : h[k] < n
      <4>1. \A m \in old : m < n
        BY <3>2
      <4>2. \A k \in DOMAIN h : h[k] \in old
        BY <3>4
      <4>. QED
        BY <4>1, <4>2
    <3>7. /\ Increasing(Append(h, n))
          /\ {Append(h, n)[k] : k \in DOMAIN Append(h, n)} = old \cup {n}
      BY <3>2, <3>4, <3>6, HearNext
    <3>8. old \cup {n} = {m \in joined[r] + 1 .. n : said[m].by # r}
      BY <1>7, <3>2, <3>5 DEF n
    <3>. QED
      BY <3>3, <3>7, <3>8 DEF n
  <2>3. Running
    BY <1>0 DEF Running
  <2>4. ASSUME NEW c \in Clients, link'[c] = "up"
        PROVE  /\ Increasing(heard'[c])
               /\ {heard'[c][k] : k \in DOMAIN heard'[c]} =
                    {m \in joined[c] + 1 .. Len(said) :
                       said[m].by # c /\ ~ (m = Len(said) /\ Pending(c)')}
    <3>1. CASE c = r
      BY <1>9, <2>2, <2>4, <3>1
    <3>2. CASE c # r
      BY <2>1, <2>3, <2>4, <3>2 DEF HeardByAll, Increasing
    <3>. QED
      BY <3>1, <3>2
  <2>. QED
    BY <1>0, <2>4 DEF HeardByAll, Increasing
<1>. QED
  BY <1>3, <1>4, <1>5, <1>10

LEMMA ConversationPreserved ==
  Core /\ Conversation /\ [Next]_vars => Conversation'
  BY QuietSteps, AcceptConverses, NameConverses, SkipConverses, MessageConverses,
     WriteConverses
  DEF Next, ServerStep

--------------------------------------------------------------------------------
(* The inductive invariant of the chat server holds for ever. *)
THEOREM ChatInductive == Spec => [](Core /\ ReadsDoNotBlock /\ Conversation)
<1>1. Init => Core /\ ReadsDoNotBlock /\ Conversation
  BY CoreInit, ConversationInit
<1>2. Core /\ ReadsDoNotBlock /\ Conversation /\ [Next]_vars =>
        (Core /\ ReadsDoNotBlock /\ Conversation)'
  BY CorePreserved, ConversationPreserved
<1>. QED
  BY <1>1, <1>2, PTL DEF Spec

(* Every variable of the server keeps its type: in particular, no client is put
   outside the table of users, and accept always finds a descriptor. *)
THEOREM ChatTypeCorrect == Spec => []ChatTypeOK
<1>. QED
  BY ChatInductive, PTL DEF Core

(* The table of users, the descriptors and the set given to select agree, and no
   name is inherited with a slot. *)
THEOREM TableAlwaysAgrees == Spec => []TableAgrees
<1>. QED
  BY ChatInductive, PTL DEF Core

(* No read that the scan has yet to make can block. *)
THEOREM ReadsNeverBlock == Spec => []ReadsDoNotBlock
<1>. QED
  BY ChatInductive, PTL

(* Every connected user has been sent every message of the others since it came,
   once and in order. *)
THEOREM EveryoneHears == Spec => []HeardByAll
<1>. QED
  BY ChatInductive, PTL DEF Conversation

(* No word of a user is lost between two messages, repeated or taken for its
   name. *)
THEOREM WordsAreOwn == Spec => []OwnWords
<1>. QED
  BY ChatInductive, PTL DEF Conversation

================================================================================
