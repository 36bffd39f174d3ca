------------------------------- MODULE ChatServer ------------------------------
(***************************************************************************)
(* t11/chat_server.c: the first thing that a client sends is its name, and *)
(* what it sends later goes to every other slot of the table of users.     *)
(* The peers and the network move between any two system calls of the      *)
(* server, also between the writes of one message to its readers.          *)
(*                                                                         *)
(* What a client sends is a sequence of chunks, one for each of its        *)
(* writes, which TCP may merge: one read takes any number of those that    *)
(* have arrived.  A chunk is its number; the texts are left out.           *)
(***************************************************************************)
EXTENDS Integers, Sequences, FiniteSets, FiniteSetsExt, Connection

CONSTANTS
  Clients,           (* peers, each with one connection that is accepted   *)
  MAX_CONNECTIONS,   (* slots of the table of users (4 in chat_server.c)   *)
  NULL,              (* no connection, no name                             *)
  GARBAGE,           (* the name that a failed read leaves in a user's slot *)
  MaxSent            (* bound: chunks sent by all clients together         *)

ASSUME ChatAssumption ==
  /\ MAX_CONNECTIONS \in Nat \ {0}
  /\ MaxSent \in Nat
  /\ NULL \notin Clients \cup {GARBAGE}
  /\ GARBAGE \notin Clients

VARIABLES
  link,         (* the state of each connection                            *)
  sent,         (* the number of chunks that each client has sent           *)
  taken,        (* the number of them that the server has read              *)
  open,         (* the connection behind each descriptor, or NULL           *)
  sock_fd,      (* the descriptor in each slot of usernames, or -1          *)
  username,     (* the name in each slot: whose it is, GARBAGE or NULL      *)
  all_fds,      (* the clients' descriptors that select watches             *)
  listen_fds,   (* what the last select found readable                      *)
  max_fd,       (* select looks at descriptors up to this one               *)
  pc,           (* where main is, or how it ended                           *)
  index,        (* the slot that the scan has reached                       *)
  i,            (* the slot that the broadcast has reached                  *)
  said,         (* history: the messages broadcast, in order                *)
  heard,        (* history: by connection, the messages written to it       *)
  joined,       (* history: how many messages had been said when it came    *)
  named         (* history: the chunks that the read of the name took       *)

world == <<link, sent>>
table == <<open, sock_fd, username, all_fds, max_fd>>
history == <<said, heard, joined, named>>
vars == <<world, taken, table, listen_fds, pc, index, i, history>>

Slots == 0 .. MAX_CONNECTIONS - 1

(* The listening socket is descriptor 3, the clients' follow.  A descriptor is
   wanted for the client that is accepted only to be turned away. *)
listen_fd == 3
ClientFds == 4 .. 4 + MAX_CONNECTIONS

Running == pc \in {"select", "accept", "scan", "broadcast"}

Readable(c) == taken[c] < sent[c] \/ link[c] \in Over

Init ==
  /\ link = [c \in Clients |-> "off"]
  /\ sent = [c \in Clients |-> 0]
  /\ taken = [c \in Clients |-> 0]
  /\ open = [fd \in ClientFds |-> NULL]
  /\ sock_fd = [s \in Slots |-> -1]
  /\ username = [s \in Slots |-> NULL]
  /\ all_fds = {}
  /\ listen_fds = {}
  /\ max_fd = listen_fd
  /\ pc = "select"
  /\ index = 0
  /\ i = 0
  /\ said = <<>>
  /\ heard = [c \in Clients |-> <<>>]
  /\ joined = [c \in Clients |-> 0]
  /\ named = [c \in Clients |-> 0]

--------------------------------------------------------------------------------
(* One pass of the loop of main. *)

ReadableNow ==
  {fd \in all_fds : open[fd] # NULL /\ Readable(open[fd]) /\ fd <= max_fd}
    \cup {fd \in {listen_fd} : \E c \in Clients : link[c] = "backlog"}

(* select also waits for descriptors to write to, and a client's is always one:
   with a client it returns at once. *)
Select ==
  /\ pc = "select"
  /\ ReadableNow # {} \/ all_fds # {}
  /\ listen_fds' = ReadableNow
  /\ index' = 0
  /\ pc' = IF listen_fd \in ReadableNow THEN "accept" ELSE "scan"
  /\ UNCHANGED <<world, taken, table, i, history>>

FreeSlots == {s \in Slots : sock_fd[s] = -1}
FreeFds == {fd \in ClientFds : open[fd] = NULL}

(* Faulty variant of Accept: a slot without a name is taken for a free one. *)
AcceptUnnamedSlot(c) ==
  /\ pc = "accept"
  /\ link[c] = "backlog"
  /\ \E s \in Slots : username[s] = NULL
  /\ LET s == Min({t \in Slots : username[t] = NULL})
         fd == Min(FreeFds) IN
       /\ open' = [open EXCEPT ![fd] = c]
       /\ sock_fd' = [sock_fd EXCEPT ![s] = fd]
       /\ username' = [username EXCEPT ![s] = NULL]
       /\ all_fds' = all_fds \cup {fd}
       /\ max_fd' = IF fd > max_fd THEN fd ELSE max_fd
  /\ link' = [link EXCEPT ![c] = "up"]
  /\ joined' = [joined EXCEPT ![c] = Len(said)]
  /\ pc' = "scan"
  /\ UNCHANGED <<sent, taken, listen_fds, index, i, said, heard, named>>

(* Faulty variant of Accept: whether there is a free slot is not checked. *)
AcceptUnchecked(c) ==
  /\ pc = "accept"
  /\ link[c] = "backlog"
  /\ LET s == IF FreeSlots = {} THEN MAX_CONNECTIONS ELSE Min(FreeSlots)
         fd == Min(FreeFds) IN
       /\ open' = [open EXCEPT ![fd] = c]
       /\ sock_fd' = [t \in Slots \cup {s} |-> IF t = s THEN fd ELSE sock_fd[t]]
       /\ username' = [t \in Slots \cup {s} |-> IF t = s THEN NULL ELSE username[t]]
       /\ all_fds' = all_fds \cup {fd}
       /\ max_fd' = IF fd > max_fd THEN fd ELSE max_fd
  /\ link' = [link EXCEPT ![c] = "up"]
  /\ joined' = [joined EXCEPT ![c] = Len(said)]
  /\ pc' = "scan"
  /\ UNCHANGED <<sent, taken, listen_fds, index, i, said, heard, named>>

(* Faulty variant of Accept: the new client is taken to be readable. *)
AcceptAsReady(c) ==
  /\ pc = "accept"
  /\ FreeSlots # {}
  /\ link[c] = "backlog"
  /\ LET s == Min(FreeSlots)
         fd == Min(FreeFds) IN
       /\ open' = [open EXCEPT ![fd] = c]
       /\ sock_fd' = [sock_fd EXCEPT ![s] = fd]
       /\ username' = [username EXCEPT ![s] = NULL]
       /\ all_fds' = all_fds \cup {fd}
       /\ listen_fds' = listen_fds \cup {fd}
       /\ max_fd' = IF fd > max_fd THEN fd ELSE max_fd
  /\ link' = [link EXCEPT ![c] = "up"]
  /\ joined' = [joined EXCEPT ![c] = Len(said)]
  /\ pc' = "scan"
  /\ UNCHANGED <<sent, taken, index, i, said, heard, named>>

(* setup_new_client: the first free slot, without a name yet. *)
Accept(c) ==
  /\ pc = "accept"
  /\ FreeSlots # {}
  /\ link[c] = "backlog"
  /\ LET s == Min(FreeSlots)
         fd == Min(FreeFds) IN
       /\ open' = [open EXCEPT ![fd] = c]
       /\ sock_fd' = [sock_fd EXCEPT ![s] = fd]
       /\ username' = [username EXCEPT ![s] = NULL]
       /\ all_fds' = all_fds \cup {fd}
       /\ max_fd' = IF fd > max_fd THEN fd ELSE max_fd
  /\ link' = [link EXCEPT ![c] = "up"]
  /\ joined' = [joined EXCEPT ![c] = Len(said)]
  /\ pc' = "scan"
  /\ UNCHANGED <<sent, taken, listen_fds, index, i, said, heard, named>>

(* There is no free slot, and the connection is closed again: main starts the
   next pass, and nobody is read in this one.  Its peer may come again. *)
Refuse(c) ==
  /\ pc = "accept"
  /\ FreeSlots = {}
  /\ link[c] = "backlog"
  /\ link' = [link EXCEPT ![c] = "off"]
  /\ pc' = "select"
  /\ UNCHANGED <<sent, taken, table, listen_fds, index, i, history>>

(* accept fails, and here too nobody is read in this pass.  It may have taken the
   connection from the queue (ECONNABORTED), or left it there (EMFILE). *)
AcceptFails(c) ==
  /\ pc = "accept"
  /\ link[c] = "backlog"
  /\ link' \in {link, [link EXCEPT ![c] = "off"]}
  /\ pc' = "select"
  /\ UNCHANGED <<sent, taken, table, listen_fds, index, i, history>>

--------------------------------------------------------------------------------
(* The scan over the slots.  A ready user is read once. *)

(* Faulty variant of ReadySlots: the scan starts one slot too far. *)
ReadySlotsAfter == {s \in Slots : s > index /\ sock_fd[s] \in listen_fds}

(* The slots, from index on, of the users that the snapshot holds. *)
ReadySlots == {s \in Slots : s >= index /\ sock_fd[s] \in listen_fds}

Here == Min(ReadySlots)
User == open[sock_fd[Here]]

ReadyUser(isNamed) ==
  /\ pc = "scan"
  /\ ReadySlots # {}
  /\ (username[Here] # NULL) = isNamed

(* What read finds on the connection. *)
Data == taken[User] < sent[User]
EndOfFile == ~ Data /\ link[User] \in AtEnd
Failure == ~ Data /\ link[User] = "aborted"

(* read_user: what the read brings is the name, up to its first newline. *)
ReadName ==
  /\ ReadyUser(FALSE)
  /\ Data
  /\ \E n \in 1 .. sent[User] - taken[User] :
       /\ taken' = [taken EXCEPT ![User] = @ + n]
       /\ named' = [named EXCEPT ![User] = n]
  /\ username' = [username EXCEPT ![Here] = User]
  /\ index' = Here + 1
  /\ UNCHANGED <<world, open, sock_fd, all_fds, max_fd, listen_fds, pc, i, said, heard,
                 joined>>

(* read_user returns without a name, and main goes on to remove the newline
   from it: strlen(NULL). *)
NoName ==
  /\ ReadyUser(FALSE)
  /\ EndOfFile
  /\ pc' = "segv"
  /\ UNCHANGED <<world, taken, table, listen_fds, index, i, history>>

(* read_user does not tell -1 from a length: the name is whatever the new buffer
   held. *)
NameFails ==
  /\ ReadyUser(FALSE)
  /\ Failure
  /\ link' = [link EXCEPT ![User] = "broken"]
  /\ username' = [username EXCEPT ![Here] = GARBAGE]
  /\ index' = Here + 1
  /\ UNCHANGED <<sent, taken, open, sock_fd, all_fds, max_fd, listen_fds, pc, i, history>>

(* Faulty variant of StartBroadcast: the loop starts at the sender. *)
StartBroadcastHere(first, last) ==
  /\ said' = Append(said, [by |-> User, first |-> first, last |-> last])
  /\ index' = Here
  /\ i' = Here
  /\ pc' = "broadcast"

(* read_from has composed a message and starts its loop over the users. *)
StartBroadcast(first, last) ==
  /\ said' = Append(said, [by |-> User, first |-> first, last |-> last])
  /\ index' = Here
  /\ i' = 0
  /\ pc' = "broadcast"

(* Faulty variant of ReadMessage: the buffer still holds the earlier messages. *)
ReadMessageUncleared ==
  /\ ReadyUser(TRUE)
  /\ Data
  /\ \E n \in 1 .. sent[User] - taken[User] :
       /\ taken' = [taken EXCEPT ![User] = @ + n]
       /\ StartBroadcast(named[User] + 1, taken[User] + n)
  /\ UNCHANGED <<world, table, listen_fds, heard, joined, named>>

ReadMessage ==
  /\ ReadyUser(TRUE)
  /\ Data
  /\ \E n \in 1 .. sent[User] - taken[User] :
       /\ taken' = [taken EXCEPT ![User] = @ + n]
       /\ StartBroadcast(taken[User] + 1, taken[User] + n)
  /\ UNCHANGED <<world, table, listen_fds, heard, joined, named>>

(* read_from does not tell -1 from a length either: the user is heard to say
   nothing, and leaves in the next pass. *)
ReadFails ==
  /\ ReadyUser(TRUE)
  /\ Failure
  /\ link' = [link EXCEPT ![User] = "broken"]
  /\ StartBroadcast(taken[User] + 1, taken[User])
  /\ UNCHANGED <<sent, taken, table, listen_fds, heard, joined, named>>

(* read_from returns the descriptor, and main forgets the user. *)
Leave ==
  /\ ReadyUser(TRUE)
  /\ EndOfFile
  /\ link' = [link EXCEPT ![User] = "closed"]
  /\ sock_fd' = [sock_fd EXCEPT ![Here] = -1]
  /\ username' = [username EXCEPT ![Here] = NULL]
  /\ all_fds' = all_fds \ {sock_fd[Here]}
  /\ open' = [open EXCEPT ![sock_fd[Here]] = NULL]
  /\ index' = Here + 1
  /\ UNCHANGED <<sent, taken, max_fd, listen_fds, pc, i, history>>

EndScan ==
  /\ pc = "scan"
  /\ ReadySlots = {}
  /\ pc' = "select"
  /\ UNCHANGED <<world, taken, table, listen_fds, index, i, history>>

--------------------------------------------------------------------------------
(* The loop of read_from: one write for each slot but the sender's. *)

Reader == open[sock_fd[i]]

AtReader ==
  /\ pc = "broadcast"
  /\ i \in Slots
  /\ i # index
  /\ sock_fd[i] # -1

(* The sender's own slot, and an empty one: write(-1, ...) fails. *)
SkipSlot ==
  /\ pc = "broadcast"
  /\ i \in Slots
  /\ i = index \/ sock_fd[i] = -1
  /\ i' = i + 1
  /\ UNCHANGED <<world, taken, table, listen_fds, pc, index, history>>

(* The write waits for a user who is connected to read, if so much is unread that
   the message does not fit: whether and when it returns is up to that user. *)
WriteMayBlock == AtReader /\ link[Reader] = "up"

(* Also users who have not given a name are written to. *)
WriteMessage ==
  /\ AtReader
  /\ link[Reader] # "broken"
  /\ link' = [link EXCEPT ![Reader] = AfterWrite(@)]
  /\ heard' = IF link[Reader] = "aborted" THEN heard
              ELSE [heard EXCEPT ![Reader] = Append(@, Len(said))]
  /\ i' = i + 1
  /\ UNCHANGED <<sent, taken, table, listen_fds, pc, index, said, joined, named>>

(* SIGPIPE, at its default, ends the server. *)
WriteToBroken ==
  /\ AtReader
  /\ link[Reader] = "broken"
  /\ pc' = "sigpipe"
  /\ UNCHANGED <<world, taken, table, listen_fds, index, i, history>>

EndBroadcast ==
  /\ pc = "broadcast"
  /\ i = MAX_CONNECTIONS
  /\ index' = index + 1
  /\ pc' = "scan"
  /\ UNCHANGED <<world, taken, table, listen_fds, i, history>>

--------------------------------------------------------------------------------
(* The clients and the network. *)

Connect(c) ==
  /\ Running
  /\ link[c] = "off"
  /\ link' = [link EXCEPT ![c] = "backlog"]
  /\ UNCHANGED <<sent, taken, table, listen_fds, pc, index, i, history>>

Send(c) ==
  /\ Running
  /\ link[c] = "up"
  /\ MapThenSumSet(LAMBDA d : sent[d], Clients) < MaxSent
  /\ sent' = [sent EXCEPT ![c] = @ + 1]
  /\ UNCHANGED <<link, taken, table, listen_fds, pc, index, i, history>>

(* A client closes, with everything read; or it resets the connection, by closing
   with messages unread or with its machine; or its RST arrives. *)
PeerEvent(c) ==
  /\ Running
  /\ \/ link[c] = "up" /\ link' = [link EXCEPT ![c] = "fin"]
     \/ link[c] = "up" /\ link' = [link EXCEPT ![c] = "aborted"]
     \/ link[c] = "rst_due" /\ link' = [link EXCEPT ![c] = "broken"]
  /\ UNCHANGED <<sent, taken, table, listen_fds, pc, index, i, history>>

--------------------------------------------------------------------------------
ServerStep ==
  \/ Select
  \/ \E c \in Clients : Accept(c) \/ Refuse(c) \/ AcceptFails(c)
  \/ ReadName
  \/ NoName
  \/ NameFails
  \/ ReadMessage
  \/ ReadFails
  \/ Leave
  \/ EndScan
  \/ SkipSlot
  \/ WriteMessage
  \/ WriteToBroken
  \/ EndBroadcast

World == \E c \in Clients : Connect(c) \/ Send(c) \/ PeerEvent(c)

Next == ServerStep \/ World

Spec == Init /\ [][Next]_vars

(* The server is one running process, and nothing is asked of the clients: also
   not that they read, so that a write which may block need never return. *)
FairSpec == Spec /\ WF_vars(ServerStep /\ ~ WriteMayBlock)

--------------------------------------------------------------------------------
(***************************************************************************)
(* Properties                                                              *)
(***************************************************************************)

ChatTypeOK ==
  /\ link \in [Clients -> LinkStates]
  /\ sent \in [Clients -> Nat] /\ taken \in [Clients -> Nat]
  /\ open \in [ClientFds -> Clients \cup {NULL}]
  /\ sock_fd \in [Slots -> ClientFds \cup {-1}]
  /\ username \in [Slots -> Clients \cup {GARBAGE, NULL}]
  /\ all_fds \in SUBSET ClientFds
  /\ listen_fds \in SUBSET (ClientFds \cup {listen_fd})
  /\ max_fd \in ClientFds \cup {listen_fd}
  /\ pc \in {"select", "accept", "scan", "broadcast", "segv", "sigpipe"}
  /\ index \in 0 .. MAX_CONNECTIONS /\ i \in 0 .. MAX_CONNECTIONS
  /\ said \in Seq([by : Clients, first : Nat, last : Nat])
  /\ heard \in [Clients -> Seq(Nat)]
  /\ joined \in [Clients -> Nat] /\ named \in [Clients -> Nat]

(* Every open descriptor is watched and stands in exactly one slot, select looks
   that far, and a slot holds no name but that of the user it is open to: slots
   and descriptors are reused, and a name must not be inherited. *)
TableAgrees ==
  /\ \A fd \in ClientFds :
       /\ open[fd] # NULL <=> fd \in all_fds
       /\ open[fd] # NULL <=> \E s \in Slots : sock_fd[s] = fd
       /\ fd \in all_fds => fd <= max_fd
  /\ \A s, t \in Slots : sock_fd[s] = sock_fd[t] /\ sock_fd[s] # -1 => s = t
  /\ \A s \in Slots :
       IF sock_fd[s] = -1 THEN username[s] = NULL
       ELSE username[s] \in {open[sock_fd[s]], GARBAGE, NULL}

(* The one thread of the server never blocks in read: every user that the scan
   has yet to read can be read. *)
ReadsDoNotBlock ==
  pc \in {"accept", "scan", "broadcast"} =>
    \A s \in ReadySlots : s # index \/ pc # "broadcast" => Readable(open[sock_fd[s]])

(* The broadcast under way has not come to client c yet. *)
Pending(c) ==
  pc = "broadcast" /\ \E s \in i .. MAX_CONNECTIONS - 1 :
                        sock_fd[s] # -1 /\ open[sock_fd[s]] = c

(* Whoever is connected has been sent every message that others have said since
   it came, once and in the order in which they were said: all users see the
   same conversation. *)
HeardByAll ==
  Running =>
    \A c \in Clients : link[c] = "up" =>
      /\ \A k, l \in DOMAIN heard[c] : k < l => heard[c][k] < heard[c][l]
      /\ {heard[c][k] : k \in DOMAIN heard[c]} =
           {m \in joined[c] + 1 .. Len(said) :
              said[m].by # c /\ ~ (m = Len(said) /\ Pending(c))}

(* What client c was heard to say before message m ends with its chunk x. *)
SaidUpTo(c, m, x) ==
  LET own == {k \in DOMAIN said : k < m /\ said[k].by = c} IN
    IF own = {} THEN x = named[c]
    ELSE \E k \in own : x = said[k].last /\ \A l \in own : l <= k

(* What a user is heard to say is what it sent after its name, from the first
   chunk to the last one read, without gap or repetition. *)
OwnWords ==
  \A c \in Clients :
    /\ \A m \in DOMAIN said :
         said[m].by = c => SaidUpTo(c, m, said[m].first - 1)
    /\ SaidUpTo(c, Len(said) + 1, taken[c])

(* Time and again the server has read all that a user has sent (MaxSent bounds
   what is sent), whatever the others say, or it has ended.  Two things can keep
   everybody waiting for ever: connections that are refused or fail without end,
   each of which costs the users a pass, and one user who does not read. *)
EveryUserIsRead ==
  \/ \A c \in Clients : []<>(taken[c] = sent[c] \/ ~ Running)
  \/ []<><<\E c \in Clients : Refuse(c) \/ AcceptFails(c)>>_vars
  \/ <>[]WriteMayBlock

(* chat_server.c:65 on read_user: "Read a message from client_index and echo it
   back to them. Return the fd if it has been closed or 0 otherwise."  main does
   not look at what read_user returns, and a user who leaves without a name ends
   the server. *)
SurvivesNamelessLeaver == pc # "segv"

(* chat_server.c:65 on read_user: "Read a message from client_index and echo it
   back to them.", and chat_client.c:28: "... send it to the server, and then accept
   the echo that returns."  Between two broadcasts, a user who is connected has
   been sent also what it said itself. *)
EchoedToSender ==
  pc = "select" =>
    \A m \in DOMAIN said : link[said[m].by] = "up" =>
      m \in {heard[said[m].by][k] : k \in DOMAIN heard[said[m].by]}
================================================================================
