---------------------------- MODULE JobServerProofs ----------------------------
(***************************************************************************)
(* The safety of JobServer for every number of clients, jobs and commands: *)
(* its own invariants, and that it keeps the job table as JobTable has it, *)
(* so that what JobTableProofs proves of the table holds of the server.    *)
(***************************************************************************)
EXTENDS JobServer, JobTableProofs, SequenceTheorems

--------------------------------------------------------------------------------
(* The inductive invariant of the loop. *)

(* What main relies on when it dereferences client_list[index] and when it
   declares buffer anew on every visit. *)
Structure ==
  /\ pc = "serve" => index \in Spots /\ client_list[index] # NULL
  /\ buffer # <<>> => pc = "serve" \/ ~ Running
  /\ pc = "accept" => listenfds \cap ClientFds \subseteq allfds
  /\ pc \in {"select", "accept"} => index = 0

(* A descriptor is open on a connection that was accepted and not closed, and
   no two descriptors are open on the same one. *)
OpenLinks ==
  /\ \A fd \in ClientFds :
       open[fd] # NULL =>
         link[open[fd]] \in {"up", "fin", "rst_due", "aborted", "broken"}
  /\ \A f, g \in ClientFds : open[f] = open[g] /\ open[f] # NULL => f = g

(* SnapshotStaysTrue, and what it comes from while a client is served: the
   slots after its own are as select saw them. *)
Snapshot ==
  /\ SnapshotStaysTrue
  /\ pc = "serve" =>
       \A s \in Spots :
         s > index /\ client_list[s] \in listenfds => Readable(open[client_list[s]])

Core == ServerTypeOK /\ RecordsAgree /\ Structure /\ OpenLinks

--------------------------------------------------------------------------------
(* A free slot leaves a free descriptor: otherwise the occupied slots, fewer
   than MAX_CLIENTS, would hold all MAX_CLIENTS descriptors. *)
LEMMA FreeSpotLeavesFd ==
  ASSUME ServerTypeOK, RecordsAgree, FreeSpots # {}
  PROVE  FreeFds # {}
<1>. SUFFICES ASSUME FreeFds = {} PROVE FALSE
  OBVIOUS
<1>. DEFINE Occupied == {s \in Spots : client_list[s] # NULL}
            holds == [s \in Occupied |-> client_list[s]]
<1>1. IsFiniteSet(Spots) /\ Cardinality(Spots) = MAX_CLIENTS
  <2>1. /\ MAX_CLIENTS - 1 \in Int /\ ~ (0 > MAX_CLIENTS - 1)
        /\ (MAX_CLIENTS - 1) - 0 + 1 = MAX_CLIENTS
    BY ServerAssumption
  <2>. QED
    BY <2>1, FS_Interval DEF Spots
<1>2. IsFiniteSet(ClientFds) /\ Cardinality(ClientFds) = MAX_CLIENTS
  <2>1. /\ 5 + MAX_CLIENTS \in Int /\ ~ (6 > 5 + MAX_CLIENTS)
        /\ (5 + MAX_CLIENTS) - 6 + 1 = MAX_CLIENTS
    BY ServerAssumption
  <2>. QED
    BY <2>1, FS_Interval DEF ClientFds
<1>3. /\ IsFiniteSet(Occupied)
      /\ Cardinality(Occupied) <= Cardinality(Spots)
      /\ Cardinality(Occupied) # Cardinality(Spots)
  <2>1. Occupied \in SUBSET Spots /\ Occupied # Spots
    BY DEF FreeSpots
  <2>. QED
    BY <1>1, <2>1, FS_Subset
<1>4. holds \in Surjection(Occupied, ClientFds)
  <2>1. holds \in [Occupied -> ClientFds]
    BY DEF ServerTypeOK
  <2>2. ASSUME NEW fd \in ClientFds
        PROVE  \E s \in Occupied : holds[s] = fd
    <3>1. open[fd] # NULL
      BY DEF FreeFds
    <3>2. PICK s \in Spots : client_list[s] = fd
      BY <3>1 DEF RecordsAgree
    <3>. QED
      BY <3>2, DescriptorAssumption
  <2>. QED
    BY <2>1, <2>2 DEF Surjection
<1>5. Cardinality(ClientFds) <= Cardinality(Occupied)
  BY <1>3, <1>4, FS_Surjection
<1>6. Cardinality(Occupied) \in Nat
  BY <1>3, FS_CardinalityType
<1>. QED
  BY <1>1, <1>2, <1>3, <1>5, <1>6, ServerAssumption

(* The slot and the descriptor of a new client. *)
LEMMA SpotAndFd ==
  ASSUME ServerTypeOK, RecordsAgree, FreeSpots # {}
  PROVE  /\ Min(FreeSpots) \in Spots /\ client_list[Min(FreeSpots)] = NULL
         /\ Min(FreeFds) \in ClientFds /\ open[Min(FreeFds)] = NULL
<1>1. FreeSpots \in SUBSET Nat /\ FreeFds \in SUBSET Nat
  BY ServerAssumption DEF FreeSpots, FreeFds, Spots, ClientFds
<1>. QED
  BY <1>1, FreeSpotLeavesFd, MinBelongs DEF FreeSpots, FreeFds

(* What a read takes from the front and what it leaves make up the whole. *)
LEMMA CutInTwo ==
  ASSUME NEW S, NEW q \in Seq(S), NEW n \in 1 .. Len(q)
  PROVE  /\ SubSeq(q, 1, n) \in Seq(S)
         /\ SubSeq(q, n + 1, Len(q)) \in Seq(S)
         /\ SubSeq(q, 1, n) # <<>>
         /\ SubSeq(q, 1, n) \o SubSeq(q, n + 1, Len(q)) = q
  OBVIOUS

--------------------------------------------------------------------------------
LEMMA ServerInit == Init => Core /\ Snapshot /\ CommandsInOrder
<1>. SUFFICES ASSUME Init PROVE Core /\ Snapshot /\ CommandsInOrder
  OBVIOUS
<1>. USE ServerAssumption, DescriptorAssumption DEF Init
<1>1. ServerTypeOK
  BY DEF ServerTypeOK, LinkStates
<1>2. RecordsAgree /\ Structure /\ OpenLinks
  BY DEF RecordsAgree, Structure, OpenLinks, ClientFds, Spots, pipe_fds, sock_fd
<1>3. Snapshot
  BY DEF Snapshot, SnapshotStaysTrue
<1>4. CommandsInOrder
  <2>. <<>> \o (<<>> \o <<>>) = <<>>
    OBVIOUS
  <2>. QED
    BY DEF CommandsInOrder, Underway
<1>. QED
  BY <1>1, <1>2, <1>3, <1>4 DEF Core

(* The connection being served. *)
LEMMA ServedIsOpen ==
  ASSUME Core, pc = "serve"
  PROVE  /\ index \in Spots /\ client_list[index] \in ClientFds
         /\ Served \in Clients /\ open[client_list[index]] = Served
         /\ link[Served] \in {"up", "fin", "rst_due", "aborted", "broken"}
  BY ServerAssumption, DescriptorAssumption
  DEF Core, ServerTypeOK, RecordsAgree, Structure, OpenLinks, Served

(* The writes of the server and of its jobs. *)
LEMMA WrittenLinks ==
  ASSUME ServerTypeOK, NEW c \in Clients
  PROVE  /\ Written(c) \in [Clients -> LinkStates]
         /\ \A d \in Clients :
              LET new == Written(c)[d] IN
                \/ new = link[d]
                \/ link[d] = "fin" /\ new = "rst_due"
                \/ link[d] = "aborted" /\ new = "broken"
  BY DEF ServerTypeOK, Written, AfterWrite, LinkStates

(* The connections and the descriptors, step by step.  Accept and ReadEOF are
   the only actions that change the latter. *)
LEMMA AcceptPreservesCore ==
  ASSUME Core, SnapshotStaysTrue, NEW c \in Clients, Accept(c)
  PROVE  Core' /\ SnapshotStaysTrue'
<1>. USE ServerAssumption, DescriptorAssumption DEF Core
<1>1. PICK s \in Spots, fd \in ClientFds :
        /\ client_list[s] = NULL /\ open[fd] = NULL
        /\ open' = [open EXCEPT ![fd] = c]
        /\ client_list' = [client_list EXCEPT ![s] = fd]
        /\ allfds' = allfds \cup {fd}
        /\ maxfd' = IF maxfd > fd THEN maxfd ELSE fd
  BY SpotAndFd DEF Accept
<1>2. /\ pc = "accept" /\ pc' = "scan" /\ link[c] = "backlog"
      /\ link' = [link EXCEPT ![c] = "up"]
      /\ index' = 0
      /\ UNCHANGED <<inbox, sent, listenfds, buffer, output, handled>>
  BY DEF Accept
<1>3. ServerTypeOK'
  BY <1>1, <1>2 DEF ServerTypeOK, LinkStates, Spots
<1>4. RecordsAgree'
  <2>1. maxfd \in Int /\ \A f \in ClientFds : f \in Int
    BY DEF ServerTypeOK, ClientFds, sock_fd
  <2>2. \A t \in Spots : client_list[t] # fd
    BY <1>1 DEF RecordsAgree
  <2>. QED
    BY <1>1, <2>1, <2>2 DEF RecordsAgree, ServerTypeOK
<1>5. Structure' /\ OpenLinks'
  BY <1>1, <1>2 DEF Structure, OpenLinks, ServerTypeOK, Running
<1>6. SnapshotStaysTrue'
  <2>1. fd \notin listenfds
    BY <1>1, <1>2 DEF Structure, RecordsAgree
  <2>2. ASSUME NEW t \in Spots, client_list'[t] \in listenfds'
        PROVE  Readable(open[client_list[t]])'
    <3>1. t # s /\ client_list'[t] = client_list[t] /\ client_list[t] \in listenfds
      BY <1>1, <1>2, <2>1, <2>2 DEF ServerTypeOK
    <3>2. client_list[t] \in ClientFds /\ client_list[t] # fd
      BY <2>1, <3>1 DEF ServerTypeOK
    <3>3. open'[client_list[t]] = open[client_list[t]]
      BY <1>1, <3>2 DEF ServerTypeOK
    <3>4. Readable(open[client_list[t]])
      BY <1>2, <3>1 DEF SnapshotStaysTrue, ReadySpots, Structure, Spots
    <3>. QED
      BY <1>2, <3>1, <3>3, <3>4 DEF Readable, Over, AtEnd, ServerTypeOK
  <2>. QED
    BY <2>2 DEF SnapshotStaysTrue, ReadySpots
<1>. QED
  BY <1>3, <1>4, <1>5, <1>6

OpenStates == {"up", "fin", "rst_due", "aborted", "broken"}

(* A step that touches no descriptor and takes nothing off a connection: the
   world's steps and the handling of commands.  It may end the server. *)
LEMMA GentleStep ==
  ASSUME Core, Snapshot,
         UNCHANGED loopVars,
         pc' = pc \/ pc' \in {"sigpipe", "exited", "killed"},
         link' \in [Clients -> LinkStates],
         \A d \in Clients : link[d] \in OpenStates => link'[d] \in OpenStates,
         \A d \in Clients : Readable(d) => Readable(d)',
         inbox' \in [Clients -> Seq(ClientCommands)],
         sent' \in [Clients -> Seq(ClientCommands)],
         handled' \in [Clients -> Seq(ClientCommands)],
         output' \in [Pids -> Clients \cup {NULL}],
         buffer' \in Seq(ClientCommands),
         buffer' = <<>> \/ buffer # <<>>
  PROVE  Core' /\ Snapshot'
<1>. USE DEF Core, loopVars
<1>1. ServerTypeOK'
  BY DEF ServerTypeOK
<1>2. RecordsAgree'
  BY DEF RecordsAgree
<1>3. Structure'
  BY DEF Structure, Running
<1>4. OpenLinks'
  BY DEF OpenLinks, OpenStates, ServerTypeOK
<1>5. Snapshot'
  <2>1. ASSUME NEW s \in Spots, client_list[s] \in listenfds,
               Readable(open[client_list[s]])
        PROVE  Readable(open[client_list[s]])'
    <3>1. open'[client_list'[s]] = open[client_list[s]]
      OBVIOUS
    <3>2. client_list[s] \in ClientFds
      BY <2>1, DescriptorAssumption DEF ServerTypeOK
    <3>3. open[client_list[s]] \in Clients
      BY <3>2, <2>1 DEF ServerTypeOK, RecordsAgree
    <3>. QED
      BY <2>1, <3>1, <3>3
  <2>2. SnapshotStaysTrue'
    BY <2>1 DEF SnapshotStaysTrue, ReadySpots, Snapshot
  <2>. QED
    BY <2>1, <2>2 DEF Snapshot
<1>. QED
  BY <1>1, <1>2, <1>3, <1>4, <1>5

(* The pass itself, outside the inner loop. *)
LEMMA PassPreserves ==
  ASSUME Core, Snapshot, Select \/ AcceptFails \/ NoAccept \/ Visit \/ EndScan
  PROVE  Core' /\ Snapshot'
<1>. USE ServerAssumption, DescriptorAssumption DEF Core
<1>1. CASE Select
  <2>1. ServerTypeOK'
    BY <1>1 DEF Select, ServerTypeOK, clientVars, ReadableNow
  <2>2. RecordsAgree' /\ Structure' /\ OpenLinks'
    BY <1>1 DEF Select, RecordsAgree, Structure, OpenLinks, clientVars, ReadableNow,
                Running, sock_fd, ClientFds
  <2>3. Snapshot'
    <3>1. \A s \in Spots :
            client_list[s] \in ReadableNow => Readable(open[client_list[s]])
      BY DEF ReadableNow, ServerTypeOK, ClientFds, sock_fd
    <3>. QED
      BY <1>1, <3>1 DEF Select, Snapshot, SnapshotStaysTrue, ReadySpots, Readable,
                        Over, AtEnd,
                        clientVars
  <2>. QED
    BY <2>1, <2>2, <2>3
<1>2. CASE AcceptFails
  BY <1>2 DEF AcceptFails, ServerTypeOK, RecordsAgree, Structure, OpenLinks, Snapshot,
              SnapshotStaysTrue, ReadySpots, Readable, Over, AtEnd,
              clientVars, loopVars, Running
<1>3. CASE NoAccept
  BY <1>3 DEF NoAccept, ServerTypeOK, RecordsAgree, Structure, OpenLinks, Snapshot,
              SnapshotStaysTrue, ReadySpots, Readable, Over, AtEnd, clientVars, Running
<1>4. CASE Visit
  <2>1. PICK s \in Spots : s = Min(ReadySpots) /\ s >= index /\ client_list[s] \in listenfds
    <3>1. ReadySpots \in SUBSET Nat
      BY DEF ReadySpots, Spots
    <3>. QED
      BY <1>4, <3>1, MinBelongs DEF Visit, ReadySpots
  <2>2. /\ pc = "scan" /\ pc' = "serve" /\ index' = s
        /\ UNCHANGED <<link, inbox, sent, open, client_list, allfds, listenfds, maxfd,
                       buffer, output, handled>>
    BY <1>4, <2>1 DEF Visit, clientVars
  <2>. HIDE <1>4
  <2>3. ServerTypeOK'
    BY <2>2 DEF ServerTypeOK, Spots
  <2>4. client_list[s] # NULL
    BY <2>1 DEF ServerTypeOK
  <2>5. RecordsAgree' /\ Structure' /\ OpenLinks'
    BY <2>2, <2>4 DEF RecordsAgree, Structure, OpenLinks, Running
  <2>6. ASSUME NEW t \in Spots, t > s, client_list[t] \in listenfds
        PROVE  Readable(open[client_list[t]])'
    <3>1. t >= index
      BY <2>1, <2>6 DEF Spots, ServerTypeOK
    <3>2. Readable(open[client_list[t]])
      BY <2>2, <2>6, <3>1 DEF Snapshot, SnapshotStaysTrue, ReadySpots
    <3>. QED
      BY <2>2, <3>2 DEF Readable, Over, AtEnd
  <2>7. Snapshot'
    BY <2>2, <2>6 DEF Snapshot, SnapshotStaysTrue
  <2>. QED
    BY <2>3, <2>5, <2>7
<1>5. CASE EndScan
  BY <1>5 DEF EndScan, ServerTypeOK, RecordsAgree, Structure, OpenLinks, Snapshot,
              SnapshotStaysTrue, Readable, Over, AtEnd, clientVars, Running
<1>. QED
  BY <1>1, <1>2, <1>3, <1>4, <1>5

(* The slots after the one being served hold other descriptors, open on other
   connections. *)
LEMMA OthersAreOthers ==
  ASSUME Core, pc = "serve", NEW s \in Spots, s # index, client_list[s] # NULL
  PROVE  /\ client_list[s] \in ClientFds /\ client_list[s] # client_list[index]
         /\ open[client_list[s]] \in Clients \ {Served}
<1>1. client_list[s] \in ClientFds /\ client_list[s] # client_list[index]
  BY ServedIsOpen DEF Core, RecordsAgree, ServerTypeOK
<1>2. open[client_list[s]] \in Clients
  BY <1>1 DEF Core, RecordsAgree, ServerTypeOK
<1>3. open[client_list[s]] # Served
  BY <1>1, <1>2, ServedIsOpen, ServerAssumption DEF Core, OpenLinks
<1>. QED
  BY <1>1, <1>2, <1>3

(* The three outcomes of a read. *)
LEMMA ReadPreserves ==
  ASSUME Core, Snapshot, ReadData \/ ReadEOF \/ ReadError
  PROVE  Core' /\ Snapshot'
<1>. USE ServerAssumption, DescriptorAssumption DEF Core, AtRead
<1>0. /\ pc = "serve"
      /\ index \in Spots /\ client_list[index] \in ClientFds
      /\ Served \in Clients /\ open[client_list[index]] = Served
      /\ link[Served] \in {"up", "fin", "rst_due", "aborted", "broken"}
  BY ServedIsOpen DEF ReadData, ReadEOF, ReadError, AtEnd
<1>1. \A s \in Spots : s > index /\ client_list[s] \in listenfds =>
        /\ client_list[s] \in ClientFds /\ client_list[s] # client_list[index]
        /\ open[client_list[s]] \in Clients \ {Served}
        /\ Readable(open[client_list[s]])
  BY <1>0, OthersAreOthers DEF Snapshot, ServerTypeOK, Spots
<1>2. CASE ReadData
  <2>1. PICK n \in 1 .. Len(inbox[Served]) :
          /\ buffer' = SubSeq(inbox[Served], 1, n)
          /\ inbox' = [inbox EXCEPT ![Served] = SubSeq(@, n + 1, Len(@))]
    BY <1>2 DEF ReadData
  <2>2. /\ inbox[Served] \in Seq(ClientCommands)
        /\ buffer' \in Seq(ClientCommands)
        /\ SubSeq(inbox[Served], n + 1, Len(inbox[Served])) \in Seq(ClientCommands)
    BY <1>0, <2>1, CutInTwo DEF ServerTypeOK
  <2>3. UNCHANGED <<link, sent, open, client_list, allfds, listenfds, maxfd, index, pc,
                   output, handled>>
    BY <1>2 DEF ReadData, loopVars
  <2>. HIDE <1>2
  <2>4. ServerTypeOK'
    BY <1>0, <2>1, <2>2, <2>3 DEF ServerTypeOK
  <2>5. RecordsAgree' /\ Structure' /\ OpenLinks'
    BY <1>0, <2>3 DEF RecordsAgree, Structure, OpenLinks
  <2>6. Snapshot'
    BY <1>0, <1>1, <2>1, <2>3 DEF Snapshot, SnapshotStaysTrue, Readable, Over, AtEnd, ServerTypeOK
  <2>. QED
    BY <2>4, <2>5, <2>6
<1>3. CASE ReadEOF
  <2>1. /\ link' = [link EXCEPT ![Served] = "closed"]
        /\ open' = [open EXCEPT ![client_list[index]] = NULL]
        /\ client_list' = [client_list EXCEPT ![index] = NULL]
        /\ allfds' = allfds \ {client_list[index]}
        /\ index' = index + 1
        /\ pc' = "scan"
        /\ buffer = <<>>
        /\ UNCHANGED <<inbox, sent, listenfds, maxfd, buffer, output, handled>>
    BY <1>3 DEF ReadEOF, AtEnd
  <2>. HIDE <1>3
  <2>2. ServerTypeOK'
    BY <1>0, <2>1 DEF ServerTypeOK, LinkStates, Spots
  <2>3. RecordsAgree'
    BY <1>0, <2>1 DEF RecordsAgree, ServerTypeOK
  <2>4. Structure' /\ OpenLinks'
    BY <1>0, <2>1 DEF Structure, OpenLinks, ServerTypeOK
  <2>5. ASSUME NEW s \in Spots, s >= index + 1, client_list'[s] \in listenfds
        PROVE  Readable(open[client_list[s]])'
    <3>1. s > index /\ s # index
      BY <1>0, <2>5 DEF Spots
    <3>2. client_list'[s] = client_list[s] /\ client_list[s] \in listenfds
      BY <2>1, <2>5, <3>1 DEF ServerTypeOK
    <3>3. open'[client_list[s]] = open[client_list[s]]
      BY <1>1, <2>1, <3>1, <3>2 DEF ServerTypeOK
    <3>. QED
      BY <1>1, <2>1, <3>1, <3>2, <3>3 DEF Readable, Over, AtEnd, ServerTypeOK
  <2>6. Snapshot'
    BY <2>1, <2>5 DEF Snapshot, SnapshotStaysTrue, ReadySpots
  <2>. QED
    BY <2>2, <2>3, <2>4, <2>6
<1>4. CASE ReadError
  <2>1. /\ link' = [link EXCEPT ![Served] = "broken"]
        /\ index' = index + 1
        /\ pc' = "scan"
        /\ buffer = <<>>
        /\ UNCHANGED <<inbox, sent, open, client_list, allfds, listenfds, maxfd, buffer,
                       output, handled>>
    BY <1>4 DEF ReadError
  <2>. HIDE <1>4
  <2>2. ServerTypeOK'
    BY <1>0, <2>1 DEF ServerTypeOK, LinkStates, Spots
  <2>3. RecordsAgree' /\ Structure' /\ OpenLinks'
    BY <1>0, <2>1 DEF RecordsAgree, Structure, OpenLinks, ServerTypeOK
  <2>4. ASSUME NEW s \in Spots, s >= index + 1, client_list[s] \in listenfds
        PROVE  Readable(open[client_list[s]])'
    <3>1. s > index
      BY <1>0, <2>4 DEF Spots
    <3>. QED
      BY <1>1, <2>1, <2>4, <3>1 DEF Readable, Over, AtEnd, ServerTypeOK
  <2>5. Snapshot'
    BY <2>1, <2>4 DEF Snapshot, SnapshotStaysTrue, ReadySpots
  <2>. QED
    BY <2>2, <2>3, <2>5
<1>. QED
  BY <1>2, <1>3, <1>4

--------------------------------------------------------------------------------
(* The handling of commands, and the world. *)

LEMMA HandlePreserves ==
  ASSUME Core, Snapshot,
         \/ BeginCommand \/ HandleQuietly \/ HandleAndReply \/ HandleForkFails
         \/ \E p \in Pids : HandleRun(p)
  PROVE  Core' /\ Snapshot'
<1>. USE DEF loopVars, clientVars
<1>0. /\ pc = "serve" /\ Served \in Clients
      /\ ServerTypeOK
  BY ServedIsOpen
  DEF BeginCommand, HandleQuietly, HandleAndReply, HandleForkFails, HandleRun, Core
<1>1. CASE BeginCommand
  <2>1. Head(buffer) \in ClientCommands /\ Tail(buffer) \in Seq(ClientCommands)
    BY <1>0, <1>1 DEF BeginCommand, ServerTypeOK
  <2>2. handled' \in [Clients -> Seq(ClientCommands)]
    BY <1>0, <1>1, <2>1 DEF BeginCommand, ServerTypeOK
  <2>. QED
    BY <1>0, <1>1, <2>1, <2>2, GentleStep DEF BeginCommand, ServerTypeOK, Readable, Over, AtEnd
<1>2. CASE HandleQuietly
  BY <1>0, <1>2, GentleStep DEF HandleQuietly, ServerTypeOK, Readable, Over, AtEnd
<1>3. CASE HandleAndReply
  <2>1. /\ link' = link \/ link' = Written(Served)
        /\ pc' = pc \/ pc' = "sigpipe"
        /\ UNCHANGED <<inbox, sent, loopVars, buffer, output, handled>>
    BY <1>3 DEF HandleAndReply
  <2>2. /\ link' \in [Clients -> LinkStates]
        /\ \A d \in Clients : link[d] \in OpenStates => link'[d] \in OpenStates
        /\ \A d \in Clients : Readable(d) => Readable(d)'
    BY <1>0, <2>1, WrittenLinks DEF ServerTypeOK, OpenStates, Readable, Over, AtEnd
  <2>. QED
    BY <1>0, <2>1, <2>2, GentleStep DEF ServerTypeOK
<1>4. CASE HandleForkFails
  BY <1>0, <1>4, GentleStep DEF HandleForkFails, ServerTypeOK, Readable, Over, AtEnd
<1>5. ASSUME NEW p \in Pids, HandleRun(p)
      PROVE  Core' /\ Snapshot'
  BY <1>0, <1>5, GentleStep DEF HandleRun, ServerTypeOK, Readable, Over, AtEnd
<1>. QED
  BY <1>1, <1>2, <1>3, <1>4, <1>5

LEMMA WorldPreserves ==
  ASSUME Core, Snapshot, World
  PROVE  Core' /\ Snapshot'
<1>. USE DEF loopVars, clientVars
<1>0. ServerTypeOK
  BY DEF Core
<1>1. ASSUME NEW c \in Clients,
             \/ Connect(c) \/ PeerCloses(c) \/ PeerAborts(c) \/ ResetArrives(c)
      PROVE  Core' /\ Snapshot'
  <2>1. PICK l \in LinkStates :
          /\ link' = [link EXCEPT ![c] = l]
          /\ link[c] = "off" \/ l \in {"fin", "aborted", "broken"}
          /\ UNCHANGED <<inbox, sent, loopVars, pc, buffer, output, handled>>
    BY <1>1 DEF Connect, PeerCloses, PeerAborts, ResetArrives, LinkStates
  <2>. HIDE <1>1
  <2>2. /\ link' \in [Clients -> LinkStates]
        /\ \A d \in Clients : link[d] \in OpenStates => link'[d] \in OpenStates
        /\ \A d \in Clients : Readable(d) => Readable(d)'
    BY <1>0, <2>1 DEF ServerTypeOK, OpenStates, Readable, Over, AtEnd
  <2>. QED
    BY <1>0, <2>1, <2>2, GentleStep DEF ServerTypeOK
<1>2. ASSUME NEW c \in Clients, NEW command \in ClientCommands, Send(c, command)
      PROVE  Core' /\ Snapshot'
  <2>1. /\ sent' = [sent EXCEPT ![c] = Append(@, command)]
        /\ inbox' = [inbox EXCEPT ![c] = Append(@, command)]
        /\ UNCHANGED <<link, loopVars, pc, buffer, output, handled>>
    BY <1>2 DEF Send
  <2>. HIDE <1>2
  <2>2. /\ Append(sent[c], command) \in Seq(ClientCommands)
        /\ Append(inbox[c], command) \in Seq(ClientCommands)
        /\ Append(inbox[c], command) # <<>>
    <3>1. sent[c] \in Seq(ClientCommands) /\ inbox[c] \in Seq(ClientCommands)
      BY <1>0 DEF ServerTypeOK
    <3>. QED
      BY <3>1, AppendProperties
  <2>3. /\ sent' \in [Clients -> Seq(ClientCommands)]
        /\ inbox' \in [Clients -> Seq(ClientCommands)]
        /\ \A d \in Clients : Readable(d) => Readable(d)'
    BY <1>0, <2>1, <2>2 DEF ServerTypeOK, Readable, Over, AtEnd
  <2>. QED
    BY <1>0, <2>1, <2>3, GentleStep DEF ServerTypeOK
<1>3. ASSUME NEW p \in Pids, JobWrites(p)
      PROVE  Core' /\ Snapshot'
  <2>1. /\ output[p] \in Clients
        /\ link' = Written(output[p])
        /\ UNCHANGED <<inbox, sent, loopVars, pc, buffer, output, handled>>
    BY <1>0, <1>3 DEF JobWrites, ServerTypeOK
  <2>. HIDE <1>3
  <2>2. /\ link' \in [Clients -> LinkStates]
        /\ \A d \in Clients : link[d] \in OpenStates => link'[d] \in OpenStates
        /\ \A d \in Clients : Readable(d) => Readable(d)'
    BY <1>0, <2>1, WrittenLinks DEF ServerTypeOK, OpenStates, Readable, Over, AtEnd
  <2>. QED
    BY <1>0, <2>1, <2>2, GentleStep DEF ServerTypeOK
<1>4. CASE ProcessEvent
  <2>1. /\ output' \in [Pids -> Clients \cup {NULL}]
        /\ UNCHANGED <<link, inbox, sent, loopVars, pc, buffer, handled>>
    BY <1>0, <1>4 DEF ProcessEvent, ServerTypeOK
  <2>. QED
    BY <1>0, <2>1, GentleStep DEF ServerTypeOK, Readable, Over, AtEnd
<1>5. CASE Interrupt
  BY <1>0, <1>5, GentleStep DEF Interrupt, ServerTypeOK, Readable, Over, AtEnd
<1>. QED
  BY <1>1, <1>2, <1>3, <1>4, <1>5 DEF World

LEMMA ServerNextPreserves ==
  Core /\ Snapshot /\ [Next]_vars => Core' /\ Snapshot'
<1>. SUFFICES ASSUME Core, Snapshot, [Next]_vars PROVE Core' /\ Snapshot'
  OBVIOUS
<1>1. ASSUME NEW c \in Clients, Accept(c)
      PROVE  Core' /\ Snapshot'
  BY <1>1, AcceptPreservesCore DEF Snapshot, Accept
<1>2. CASE UNCHANGED vars
  BY <1>2 DEF vars, clientVars, loopVars, Core, Snapshot, ServerTypeOK, RecordsAgree,
              Structure, OpenLinks, SnapshotStaysTrue, ReadySpots, Readable, Over, AtEnd, Running
<1>. QED
  BY <1>1, <1>2, PassPreserves, ReadPreserves, HandlePreserves, WorldPreserves
  DEF Next, ServerStep

--------------------------------------------------------------------------------
(* The order of commands. *)

(* Equations between sequences, named so that the provers instantiate them where
   they are asked for and nowhere else. *)
Associate(s, t, u) == (s \o t) \o u = s \o (t \o u)

HeadMoves(h, b, i) == Append(h, Head(b)) \o (Tail(b) \o i) = h \o (b \o i)

EndMoves(h, u, i, e) == (h \o (u \o i)) \o e = h \o (u \o (i \o e))

LEMMA ConcatAssociates ==
  ASSUME NEW S, NEW s \in Seq(S), NEW t \in Seq(S), NEW u \in Seq(S)
  PROVE  Associate(s, t, u)
BY ConcatAssociative DEF Associate

(* Moving the head of b to the end of h changes nothing in h, b, i in a row. *)
LEMMA MoveHead ==
  ASSUME NEW S, NEW h \in Seq(S), NEW b \in Seq(S), NEW i \in Seq(S), b # <<>>
  PROVE  HeadMoves(h, b, i)
<1>. DEFINE y == <<Head(b)>>  t == Tail(b)
<1>1. Head(b) \in S /\ t \in Seq(S)
  BY HeadTailProperties
<1>2. b = y \o t
  OBVIOUS
<1>3. Append(h, Head(b)) = h \o y
  BY <1>1, AppendIsConcat
<1>4. y \in Seq(S)
  BY <1>1
<1>. HIDE DEF y, t
<1>5. t \o i \in Seq(S)
  BY <1>1, ConcatProperties
<1>6. Associate(y, t, i) /\ Associate(h, y, t \o i)
  BY <1>1, <1>4, <1>5, ConcatAssociates
<1>7. Append(h, Head(b)) \o (t \o i) = h \o (b \o i)
  BY <1>2, <1>3, <1>6, Zenon DEF Associate
<1>. QED
  BY <1>7, Zenon DEF t, HeadMoves

(* What is put at the end of h, u, i in a row is put at the end of i. *)
LEMMA PutLast ==
  ASSUME NEW S, NEW h \in Seq(S), NEW u \in Seq(S), NEW i \in Seq(S), NEW e \in Seq(S)
  PROVE  EndMoves(h, u, i, e)
<1>1. u \o i \in Seq(S)
  BY ConcatProperties
<1>2. Associate(u, i, e) /\ Associate(h, u \o i, e)
  BY <1>1, ConcatAssociates
<1>. QED
  BY <1>2, Zenon DEF Associate, EndMoves

(* A step that moves no command. *)
LEMMA OrderFrame ==
  ASSUME CommandsInOrder, ServerTypeOK,
         UNCHANGED <<inbox, sent, handled>>,
         Running' => Running,
         \A c \in Clients : Running' => Underway(c)' = Underway(c),
         \A c \in Clients : link'[c] = "closed" => link[c] = "closed"
  PROVE  CommandsInOrder'
  BY DEF CommandsInOrder

(* Outside the inner loop the server holds no command. *)
LEMMA NothingUnderway ==
  ASSUME Core, Running, pc # "serve" \/ AtRead, NEW c \in Clients
  PROVE  Underway(c) = <<>>
  BY DEF Core, Structure, Underway, AtRead

LEMMA ReadDataInOrder ==
  ASSUME Core, CommandsInOrder, ReadData
  PROVE  CommandsInOrder'
<1>. USE DEF Core
<1>0. pc = "serve" /\ Served \in Clients /\ buffer = <<>> /\ Running
  BY ServedIsOpen DEF ReadData, AtRead, Running
<1>1. PICK n \in 1 .. Len(inbox[Served]) :
        /\ buffer' = SubSeq(inbox[Served], 1, n)
        /\ inbox' = [inbox EXCEPT ![Served] = SubSeq(@, n + 1, Len(@))]
  BY DEF ReadData
<1>2. UNCHANGED <<link, sent, open, client_list, index, pc, handled>>
  BY DEF ReadData, loopVars
<1>3. Served' = Served
  BY <1>2 DEF Served
<1>4. ASSUME NEW c \in Clients
      PROVE  Underway(c)' \o inbox'[c] = Underway(c) \o inbox[c]
  <2>1. CASE c = Served
    <3>1. inbox[c] \in Seq(ClientCommands)
      BY DEF ServerTypeOK
    <3>2. buffer' \o inbox'[c] = inbox[c]
      BY <1>0, <1>1, <2>1, <3>1, CutInTwo DEF ServerTypeOK
    <3>3. Underway(c)' = buffer' /\ Underway(c) = <<>>
      BY <1>0, <1>2, <1>3, <2>1 DEF Underway
    <3>4. <<>> \o inbox[c] = inbox[c]
      BY <3>1, ConcatEmptySeq
    <3>. QED
      BY <3>2, <3>3, <3>4
  <2>2. CASE c # Served
    BY <1>0, <1>1, <1>2, <1>3, <2>2 DEF Underway, ServerTypeOK
  <2>. QED
    BY <2>1, <2>2
<1>. QED
  BY <1>0, <1>2, <1>4 DEF CommandsInOrder, Running

LEMMA BeginInOrder ==
  ASSUME Core, CommandsInOrder, BeginCommand
  PROVE  CommandsInOrder'
<1>. USE DEF Core
<1>0. /\ pc = "serve" /\ Served \in Clients /\ buffer # <<>> /\ Running
      /\ link[Served] # "closed"
  BY ServedIsOpen DEF BeginCommand, Running
<1>1. /\ handled' = [handled EXCEPT ![Served] = Append(@, Head(buffer))]
      /\ buffer' = Tail(buffer)
      /\ UNCHANGED <<link, inbox, sent, open, client_list, index, pc>>
  BY DEF BeginCommand, clientVars, loopVars
<1>2. Served' = Served
  BY <1>1 DEF Served
<1>3. ASSUME NEW c \in Clients
      PROVE  handled'[c] \o (Underway(c)' \o inbox'[c]) =
               handled[c] \o (Underway(c) \o inbox[c])
  <2>1. CASE c = Served
    <3>1. /\ handled[c] \in Seq(ClientCommands) /\ inbox[c] \in Seq(ClientCommands)
          /\ buffer \in Seq(ClientCommands)
      BY DEF ServerTypeOK
    <3>2. /\ handled'[c] = Append(handled[c], Head(buffer))
          /\ Underway(c)' = Tail(buffer) /\ Underway(c) = buffer
          /\ inbox'[c] = inbox[c]
      BY <1>0, <1>1, <1>2, <2>1 DEF Underway, ServerTypeOK
    <3>3. HeadMoves(handled[c], buffer, inbox[c])
      BY <1>0, <3>1, MoveHead
    <3>. QED
      BY <3>2, <3>3, Zenon DEF HeadMoves
  <2>2. CASE c # Served
    BY <1>0, <1>1, <1>2, <2>2 DEF Underway, ServerTypeOK
  <2>. QED
    BY <2>1, <2>2
<1>. QED
  BY <1>0, <1>1, <1>3 DEF CommandsInOrder, Running, ServerTypeOK

LEMMA SendInOrder ==
  ASSUME Core, CommandsInOrder, NEW d \in Clients, NEW command \in ClientCommands,
         Send(d, command)
  PROVE  CommandsInOrder'
<1>. USE DEF Core
<1>1. /\ Running /\ link[d] = "up"
      /\ sent' = [sent EXCEPT ![d] = Append(@, command)]
      /\ inbox' = [inbox EXCEPT ![d] = Append(@, command)]
      /\ UNCHANGED <<link, open, client_list, index, pc, buffer, handled>>
  BY DEF Send, loopVars
<1>2. ASSUME NEW c \in Clients
      PROVE  sent'[c] = handled'[c] \o (Underway(c)' \o inbox'[c])
  <2>. DEFINE h == handled[c]  u == Underway(c)  i == inbox[c]
  <2>1. /\ h \in Seq(ClientCommands) /\ u \in Seq(ClientCommands)
        /\ i \in Seq(ClientCommands) /\ <<command>> \in Seq(ClientCommands)
    BY DEF ServerTypeOK, Underway
  <2>2. handled'[c] = h /\ Underway(c)' = u
    BY <1>1 DEF Underway, Served
  <2>3. sent[c] = h \o (u \o i)
    BY <1>1 DEF CommandsInOrder
  <2>4. CASE c = d
    <3>1. sent'[c] = sent[c] \o <<command>> /\ inbox'[c] = i \o <<command>>
      BY <1>1, <2>4, AppendIsConcat DEF ServerTypeOK
    <3>. HIDE DEF h, u, i
    <3>2. EndMoves(h, u, i, <<command>>)
      BY <2>1, PutLast
    <3>. QED
      BY <2>2, <2>3, <3>1, <3>2, Zenon DEF EndMoves
  <2>5. CASE c # d
    BY <1>1, <2>2, <2>3, <2>5 DEF ServerTypeOK
  <2>. QED
    BY <2>4, <2>5
<1>. QED
  BY <1>1, <1>2 DEF CommandsInOrder, ServerTypeOK

LEMMA OrderPreserves ==
  Core /\ CommandsInOrder /\ [Next]_vars => CommandsInOrder'
<1>. SUFFICES ASSUME Core, CommandsInOrder, [Next]_vars PROVE CommandsInOrder'
  OBVIOUS
<1>. USE DEF Core
<1>1. ASSUME \/ Select \/ AcceptFails \/ NoAccept \/ Visit \/ EndScan \/ ReadError
             \/ \E c \in Clients : Accept(c)
      PROVE  CommandsInOrder'
  <2>1. /\ Running
        /\ pc # "serve" \/ AtRead
        /\ UNCHANGED <<inbox, sent, handled, buffer>>
        /\ \A c \in Clients : link'[c] = "closed" => link[c] = "closed"
    BY <1>1 DEF Select, AcceptFails, NoAccept, Visit, EndScan, ReadError, Accept, AtRead,
                Running, clientVars, ServerTypeOK
  <2>2. \A c \in Clients : Underway(c) = <<>> /\ Underway(c)' = <<>>
    BY <2>1, NothingUnderway DEF Underway, Structure, AtRead
  <2>3. \A c \in Clients : Running' => Underway(c)' = Underway(c)
    BY <2>2
  <2>4. (Running' => Running) /\ UNCHANGED <<inbox, sent, handled>>
    BY <2>1
  <2>. QED
    BY <2>1, <2>3, <2>4, OrderFrame
<1>2. CASE ReadEOF
  <2>1. /\ pc = "serve" /\ AtRead /\ Running /\ Served \in Clients
        /\ inbox[Served] = <<>>
        /\ link' = [link EXCEPT ![Served] = "closed"]
        /\ UNCHANGED <<inbox, sent, handled, buffer>>
    BY <1>2, ServedIsOpen DEF ReadEOF, AtRead, AtEnd, Running
  <2>2. \A c \in Clients : Underway(c) = <<>> /\ Underway(c)' = <<>>
    BY <2>1, NothingUnderway DEF Underway, AtRead
  <2>3. handled[Served] = sent[Served]
    <3>1. handled[Served] \in Seq(ClientCommands)
      BY <2>1 DEF ServerTypeOK
    <3>2. <<>> \o <<>> = <<>> /\ handled[Served] \o <<>> = handled[Served]
      BY <3>1
    <3>. QED
      BY <2>1, <2>2, <3>2 DEF CommandsInOrder
  <2>4. ASSUME NEW c \in Clients
        PROVE  /\ sent'[c] = handled'[c] \o (Underway(c)' \o inbox'[c])
               /\ link'[c] = "closed" => handled'[c] = sent'[c]
    <3>1. link'[c] = "closed" => c = Served \/ link[c] = "closed"
      BY <2>1 DEF ServerTypeOK
    <3>2. /\ sent[c] = handled[c] \o (Underway(c) \o inbox[c])
          /\ link[c] = "closed" => handled[c] = sent[c]
      BY <2>1 DEF CommandsInOrder
    <3>3. Underway(c)' = Underway(c)
      BY <2>2
    <3>. QED
      BY <2>1, <2>3, <3>1, <3>2, <3>3
  <2>. QED
    BY <2>4 DEF CommandsInOrder
<1>3. ASSUME \/ HandleQuietly \/ HandleAndReply \/ HandleForkFails
             \/ \E p \in Pids : HandleRun(p)
      PROVE  CommandsInOrder'
  <2>1. /\ pc = "serve" /\ Running /\ Served \in Clients
        /\ pc' = pc \/ ~ Running'
        /\ UNCHANGED <<inbox, sent, handled, buffer, open, client_list, index>>
        /\ link' = link \/ link' = Written(Served)
    BY <1>3, ServedIsOpen DEF HandleQuietly, HandleAndReply, HandleForkFails, HandleRun,
                              Running, clientVars, loopVars
  <2>2. \A c \in Clients : Running' => Underway(c)' = Underway(c)
    BY <2>1 DEF Underway, Served
  <2>3. \A c \in Clients : link'[c] = "closed" => link[c] = "closed"
    BY <2>1, WrittenLinks
  <2>. QED
    BY <2>1, <2>2, <2>3, OrderFrame
<1>4. ASSUME NEW d \in Clients,
             \/ Connect(d) \/ PeerCloses(d) \/ PeerAborts(d) \/ ResetArrives(d)
      PROVE  CommandsInOrder'
  <2>1. /\ UNCHANGED <<inbox, sent, handled, buffer, open, client_list, index, pc>>
        /\ \A c \in Clients : link'[c] = "closed" => link[c] = "closed"
    BY <1>4 DEF Connect, PeerCloses, PeerAborts, ResetArrives, loopVars, ServerTypeOK
  <2>. QED
    BY <2>1, OrderFrame DEF Underway, Served, Running
<1>5. ASSUME NEW p \in Pids, JobWrites(p)
      PROVE  CommandsInOrder'
  <2>1. /\ UNCHANGED <<inbox, sent, handled, buffer, open, client_list, index, pc>>
        /\ output[p] \in Clients /\ link' = Written(output[p])
    BY <1>5 DEF JobWrites, loopVars, ServerTypeOK
  <2>2. \A c \in Clients : link'[c] = "closed" => link[c] = "closed"
    BY <2>1, WrittenLinks
  <2>. QED
    BY <2>1, <2>2, OrderFrame DEF Underway, Served, Running
<1>6. CASE ProcessEvent \/ Interrupt
  BY <1>6, OrderFrame DEF ProcessEvent, Interrupt, Underway, Served, Running, loopVars,
                          clientVars
<1>7. CASE UNCHANGED vars
  BY <1>7, OrderFrame DEF vars, Underway, Served, Running, loopVars, clientVars
<1>. QED
  BY <1>1, <1>2, <1>3, <1>4, <1>5, <1>6, <1>7, ReadDataInOrder, BeginInOrder, SendInOrder
  DEF Next, ServerStep, World

--------------------------------------------------------------------------------
(* The loop keeps the job table as JobTable has it. *)

LEMMA StepIsTableStep == Core /\ [Next]_vars => [TableNext]_tableVars
<1>. SUFFICES ASSUME Core, Next PROVE [TableNext]_tableVars
  BY DEF vars
<1>1. CASE \/ Select \/ \E c \in Clients : Accept(c)
           \/ AcceptFails \/ NoAccept \/ Visit \/ EndScan
           \/ ReadData \/ ReadEOF \/ ReadError
  BY <1>1 DEF Select, Accept, AcceptFails, NoAccept, Visit, EndScan, ReadData, ReadEOF,
              ReadError
<1>2. CASE BeginCommand
  <2>1. buffer \in Seq(ClientCommands) /\ buffer # <<>>
    BY <1>2 DEF BeginCommand, Core, ServerTypeOK
  <2>2. Head(buffer) \in Commands
    BY <2>1, HeadTailProperties, ServerAssumption
  <2>. QED
    BY <1>2, <2>2 DEF BeginCommand, TableNext
<1>3. CASE HandleQuietly
  BY <1>3 DEF HandleQuietly, TableNext, HandleCommand
<1>4. CASE HandleAndReply
  BY <1>4 DEF HandleAndReply, TableNext, HandleCommand
<1>5. CASE HandleForkFails \/ \E p \in Pids : HandleRun(p)
  BY <1>5 DEF HandleForkFails, HandleRun, TableNext, HandleCommand
<1>6. CASE World
  <2>1. CASE ProcessEvent
    BY <2>1 DEF ProcessEvent, TableNext, Environment
  <2>. QED
    BY <1>6, <2>1 DEF World, Connect, Send, PeerCloses, PeerAborts, ResetArrives,
                      JobWrites, Interrupt
<1>. QED
  BY <1>1, <1>2, <1>3, <1>4, <1>5, <1>6 DEF Next, ServerStep

--------------------------------------------------------------------------------
(* The inductive invariant of the server holds for ever. *)
THEOREM ServerInductive == Spec => [](Core /\ Snapshot /\ CommandsInOrder)
<1>1. Core /\ Snapshot /\ CommandsInOrder /\ [Next]_vars =>
        (Core /\ Snapshot /\ CommandsInOrder)'
  BY ServerNextPreserves, OrderPreserves
<1>. QED
  BY <1>1, ServerInit, PTL DEF Spec

(* Every variable of the loop keeps its type; in particular the slot and the
   descriptor of a new client always exist. *)
THEOREM ServerTypeCorrect == Spec => []ServerTypeOK
<1>. QED
  BY ServerInductive, PTL DEF Core

(* The client list, the descriptors and the sets given to select agree. *)
THEOREM RecordsAlwaysAgree == Spec => []RecordsAgree
<1>. QED
  BY ServerInductive, PTL DEF Core

(* What select reported stays true until the scan has used it. *)
THEOREM SnapshotIsSafe == Spec => []SnapshotStaysTrue
<1>. QED
  BY ServerInductive, PTL DEF Snapshot

(* No command is lost, repeated or overtaken, and none is dropped with its
   client. *)
THEOREM CommandsStayInOrder == Spec => []CommandsInOrder
<1>. QED
  BY ServerInductive, PTL

(* Every step of the server is a step of the job table or leaves it alone, so
   that what is proved of the table alone holds of the table in the server. *)
LEMMA TableInServer == Spec => TableSpec
<1>1. Init => TableInit
  BY DEF Init
<1>. QED
  BY <1>1, ServerInductive, StepIsTableStep, PTL DEF Spec, TableSpec

(* So the promises of the table are the server's: no running job is lost, and
   none is killed unless a client asked for it. *)
THEOREM ServerKeepsJobs == Spec => [](NoLostJob /\ KilledOnRequestOnly)
<1>. QED
  BY TableInServer, JobsAreNotLost, JobsAreKilledOnRequest, PTL

(* And the server implements the job pool. *)
THEOREM ServerImplementsPool == Spec => ImplementsPool
<1>. QED
  BY TableInServer, TableImplementsPool, PTL

================================================================================
