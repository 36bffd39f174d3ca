------------------------------- MODULE JobServer -------------------------------
(***************************************************************************)
(* a4/jobserver.c: the loop of main over select, accept and the clients,   *)
(* around the job table of JobTable.  A client is one TCP connection; what *)
(* travels on it is a sequence of whole commands (the cutting of bytes     *)
(* into lines is LineBuffer's subject).  The server, the peers, the        *)
(* network and the jobs interleave: select takes a snapshot, and the rest  *)
(* of the pass works from it while the world moves on.                     *)
(***************************************************************************)
EXTENDS JobTable, Connection, Sequences

CONSTANTS
  Clients,         (* connections, each made at most once                  *)
  MAX_CLIENTS,     (* slots of client_list (20 in jobprotocol.h)           *)
  ClientCommands,  (* the commands that peers send                         *)
  MaxSent          (* bound: commands sent on all connections together     *)

ASSUME ServerAssumption ==
  /\ NULL \notin Clients
  /\ MAX_CLIENTS \in Nat \ {0}
  /\ ClientCommands \subseteq Commands
  /\ MaxSent \in Nat

VARIABLES
  link,         (* the state of each connection, as the server's kernel sees it *)
  inbox,        (* what has arrived on a connection and was not read            *)
  open,         (* the connection behind each descriptor of the server, or NULL *)
  client_list,  (* the descriptor of the client in each slot, or NULL           *)
  allfds,       (* the descriptors that select watches                          *)
  listenfds,    (* those that the last select found readable                    *)
  maxfd,        (* select looks at descriptors up to this one                   *)
  pc,           (* where main is, or how it ended                               *)
  index,        (* the slot of client_list that the scan has reached            *)
  buffer,       (* commands read from the client being served, not handled yet  *)
  output,       (* the connection each job has as its standard output           *)
  sent,         (* history: the commands sent on each connection                *)
  handled       (* history: the commands of each connection that were begun     *)

clientVars == <<link, inbox, sent>>
loopVars == <<open, client_list, allfds, listenfds, maxfd, index>>
vars == <<tableVars, clientVars, loopVars, pc, buffer, output, handled>>

(* Descriptors: the listening socket, the two ends of the pipe that main
   opens and adds to allfds, and then the clients'. *)
sock_fd == 3
pipe_fds == {4, 5}
ClientFds == 6 .. 5 + MAX_CLIENTS

ASSUME DescriptorAssumption == NULL \notin {sock_fd} \cup ClientFds

Spots == 0 .. MAX_CLIENTS - 1

Running == pc \in {"select", "accept", "scan", "serve"}

Served == open[client_list[index]]

(* A read of the connection would not block. *)
Readable(c) ==
  inbox[c] # <<>> \/ link[c] \in Over

(* The connection after a write that does not raise SIGPIPE. *)
Written(c) == [link EXCEPT ![c] = AfterWrite(@)]

--------------------------------------------------------------------------------
Init ==
  /\ TableInit
  /\ link = [c \in Clients |-> "off"]
  /\ inbox = [c \in Clients |-> <<>>]
  /\ open = [fd \in ClientFds |-> NULL]
  /\ client_list = [s \in Spots |-> NULL]
  /\ allfds = {sock_fd} \cup pipe_fds
  /\ listenfds = {}
  /\ maxfd = sock_fd
  /\ pc = "select"
  /\ index = 0
  /\ buffer = <<>>
  /\ output = [p \in Pids |-> NULL]
  /\ sent = [c \in Clients |-> <<>>]
  /\ handled = [c \in Clients |-> <<>>]

--------------------------------------------------------------------------------
(* One pass of the loop of main. *)

ReadableNow ==
  {fd \in allfds \cap ClientFds : open[fd] # NULL /\ Readable(open[fd]) /\ fd <= maxfd}
    \cup {fd \in {sock_fd} : \E c \in Clients : link[c] = "backlog"}

(* Nothing is ever written to the pipe, so its read end is never readable;
   but its write end is always writable, and select returns at once when
   maxfd reaches it. *)
Select ==
  /\ pc = "select"
  /\ ReadableNow # {} \/ \E fd \in pipe_fds : fd <= maxfd
  /\ listenfds' = ReadableNow
  /\ pc' = "accept"
  /\ UNCHANGED <<tableVars, clientVars, open, client_list, allfds, maxfd, index,
                 buffer, output, handled>>

(* find_spot and the descriptor that accept returns, the lowest unused. *)
FreeSpots == {s \in Spots : client_list[s] = NULL}
FreeFds == {fd \in ClientFds : open[fd] = NULL}

(* Faulty variant of Accept: maxfd follows the newest descriptor. *)
AcceptNewestIsMax(c) ==
  /\ pc = "accept"
  /\ sock_fd \in listenfds
  /\ FreeSpots # {}
  /\ link[c] = "backlog"
  /\ LET fd == Min(FreeFds) IN
       /\ open' = [open EXCEPT ![fd] = c]
       /\ client_list' = [client_list EXCEPT ![Min(FreeSpots)] = fd]
       /\ allfds' = allfds \cup {fd}
       /\ maxfd' = fd
  /\ link' = [link EXCEPT ![c] = "up"]
  /\ index' = 0
  /\ pc' = "scan"
  /\ UNCHANGED <<tableVars, inbox, sent, listenfds, buffer, output, handled>>

(* Faulty variant of Accept: maxfd is not raised. *)
AcceptBeyondMax(c) ==
  /\ pc = "accept"
  /\ sock_fd \in listenfds
  /\ FreeSpots # {}
  /\ link[c] = "backlog"
  /\ LET fd == Min(FreeFds) IN
       /\ open' = [open EXCEPT ![fd] = c]
       /\ client_list' = [client_list EXCEPT ![Min(FreeSpots)] = fd]
       /\ allfds' = allfds \cup {fd}
  /\ link' = [link EXCEPT ![c] = "up"]
  /\ index' = 0
  /\ pc' = "scan"
  /\ UNCHANGED <<tableVars, inbox, sent, listenfds, maxfd, buffer, output, handled>>

(* Faulty variant of Accept: the new client is taken to be readable. *)
AcceptAsReady(c) ==
  /\ pc = "accept"
  /\ sock_fd \in listenfds
  /\ FreeSpots # {}
  /\ link[c] = "backlog"
  /\ LET fd == Min(FreeFds) IN
       /\ open' = [open EXCEPT ![fd] = c]
       /\ client_list' = [client_list EXCEPT ![Min(FreeSpots)] = fd]
       /\ allfds' = allfds \cup {fd}
       /\ listenfds' = listenfds \cup {fd}
       /\ maxfd' = IF maxfd > fd THEN maxfd ELSE fd
  /\ link' = [link EXCEPT ![c] = "up"]
  /\ index' = 0
  /\ pc' = "scan"
  /\ UNCHANGED <<tableVars, inbox, sent, buffer, output, handled>>

(* Faulty variant of Accept: whether there is a free slot is not checked. *)
AcceptUnchecked(c) ==
  /\ pc = "accept"
  /\ sock_fd \in listenfds
  /\ link[c] = "backlog"
  /\ LET fd == IF FreeFds = {} THEN 6 + MAX_CLIENTS ELSE Min(FreeFds)
         spot == IF FreeSpots = {} THEN MAX_CLIENTS ELSE Min(FreeSpots) IN
       /\ open' = [f \in ClientFds \cup {fd} |-> IF f = fd THEN c ELSE open[f]]
       /\ client_list' = [s \in Spots \cup {spot} |->
                            IF s = spot THEN fd ELSE client_list[s]]
       /\ allfds' = allfds \cup {fd}
       /\ maxfd' = IF maxfd > fd THEN maxfd ELSE fd
  /\ link' = [link EXCEPT ![c] = "up"]
  /\ index' = 0
  /\ pc' = "scan"
  /\ UNCHANGED <<tableVars, inbox, sent, listenfds, buffer, output, handled>>

Accept(c) ==
  /\ pc = "accept"
  /\ sock_fd \in listenfds
  /\ FreeSpots # {}
  /\ link[c] = "backlog"
  /\ LET fd == Min(FreeFds) IN
       /\ open' = [open EXCEPT ![fd] = c]
       /\ client_list' = [client_list EXCEPT ![Min(FreeSpots)] = fd]
       /\ allfds' = allfds \cup {fd}
       /\ maxfd' = IF maxfd > fd THEN maxfd ELSE fd
  /\ link' = [link EXCEPT ![c] = "up"]
  /\ index' = 0
  /\ pc' = "scan"
  /\ UNCHANGED <<tableVars, inbox, sent, listenfds, buffer, output, handled>>

(* setup_new_client returns NULL, because every slot is taken or because
   accept failed, and main dereferences what it returned. *)
AcceptFails ==
  /\ pc = "accept"
  /\ sock_fd \in listenfds
  /\ pc' = "nullderef"
  /\ UNCHANGED <<tableVars, clientVars, loopVars, buffer, output, handled>>

NoAccept ==
  /\ pc = "accept"
  /\ sock_fd \notin listenfds
  /\ index' = 0
  /\ pc' = "scan"
  /\ UNCHANGED <<tableVars, clientVars, open, client_list, allfds, listenfds, maxfd,
                 buffer, output, handled>>

(* The slots, from index on, of the clients that the snapshot holds. *)
ReadySpots == {s \in Spots : s >= index /\ client_list[s] \in listenfds}

(* The scan reaches a ready client and enters its inner loop. *)
Visit ==
  /\ pc = "scan"
  /\ ReadySpots # {}
  /\ index' = Min(ReadySpots)
  /\ pc' = "serve"
  /\ UNCHANGED <<tableVars, clientVars, open, client_list, allfds, listenfds, maxfd,
                 buffer, output, handled>>

EndScan ==
  /\ pc = "scan"
  /\ ReadySpots = {}
  /\ index' = 0
  /\ pc' = "select"
  /\ UNCHANGED <<tableVars, clientVars, open, client_list, allfds, listenfds, maxfd,
                 buffer, output, handled>>

--------------------------------------------------------------------------------
(* The inner loop: read until end of file or an error, and handle the complete
   commands after every read.  A read of an open connection with nothing on it
   blocks the whole server. *)

AtRead ==
  /\ pc = "serve"
  /\ step = "idle"
  /\ buffer = <<>>

(* A read returns any part of what has arrived. *)
ReadData ==
  /\ AtRead
  /\ \E n \in 1 .. Len(inbox[Served]) :
       /\ buffer' = SubSeq(inbox[Served], 1, n)
       /\ inbox' = [inbox EXCEPT ![Served] = SubSeq(@, n + 1, Len(@))]
  /\ UNCHANGED <<tableVars, link, sent, loopVars, pc, output, handled>>

(* Faulty variant of ReadEOF: a client that has closed is dropped at once, with
   what it sent still unread. *)
ReadEOFAtOnce ==
  /\ AtRead
  /\ link[Served] \in AtEnd
  /\ link' = [link EXCEPT ![Served] = "closed"]
  /\ open' = [open EXCEPT ![client_list[index]] = NULL]
  /\ client_list' = [client_list EXCEPT ![index] = NULL]
  /\ allfds' = allfds \ {client_list[index]}
  /\ index' = index + 1
  /\ pc' = "scan"
  /\ UNCHANGED <<tableVars, inbox, sent, listenfds, maxfd, buffer, output, handled>>

(* read returns 0: FD_CLR, free, and close. *)
ReadEOF ==
  /\ AtRead
  /\ inbox[Served] = <<>>
  /\ link[Served] \in AtEnd
  /\ link' = [link EXCEPT ![Served] = "closed"]
  /\ open' = [open EXCEPT ![client_list[index]] = NULL]
  /\ client_list' = [client_list EXCEPT ![index] = NULL]
  /\ allfds' = allfds \ {client_list[index]}
  /\ index' = index + 1
  /\ pc' = "scan"
  /\ UNCHANGED <<tableVars, inbox, sent, listenfds, maxfd, buffer, output, handled>>

(* read returns -1: the inner loop ends, and the client stays until the next
   pass reads 0. *)
ReadError ==
  /\ AtRead
  /\ inbox[Served] = <<>>
  /\ link[Served] = "aborted"
  /\ link' = [link EXCEPT ![Served] = "broken"]
  /\ index' = index + 1
  /\ pc' = "scan"
  /\ UNCHANGED <<tableVars, inbox, sent, open, client_list, allfds, listenfds, maxfd,
                 buffer, output, handled>>

BeginCommand ==
  /\ pc = "serve"
  /\ buffer # <<>>
  /\ Begin(Head(buffer))
  /\ handled' = [handled EXCEPT ![Served] = Append(@, Head(buffer))]
  /\ buffer' = Tail(buffer)
  /\ UNCHANGED <<clientVars, loopVars, pc, output>>

(* The parts of a handler that write nothing to the client. *)
HandleQuietly ==
  /\ pc = "serve"
  /\ \/ SkipSlot \/ WaitFirst \/ WaitSecondRunning \/ WaitSecondEnded \/ kill_pid
     \/ Ignore \/ KillListed
  /\ UNCHANGED <<clientVars, loopVars, pc, buffer, output, handled>>

(* The three replies: the list of jobs, "MAXJOBS exceeded", "not found". *)
HandleAndReply ==
  /\ pc = "serve"
  /\ print_active_jobs \/ RunRefused \/ KillUnknown
  /\ \/ /\ link[Served] # "broken"
        /\ link' = Written(Served)
        /\ UNCHANGED pc
     \/ /\ link[Served] = "broken"
        /\ pc' = "sigpipe"
        /\ UNCHANGED link
  /\ UNCHANGED <<inbox, sent, loopVars, buffer, output, handled>>

(* The child gets the client's connection as its standard output. *)
HandleRun(p) ==
  /\ pc = "serve"
  /\ start_job(p)
  /\ output' = [output EXCEPT ![p] = Served]
  /\ UNCHANGED <<clientVars, loopVars, pc, buffer, handled>>

HandleForkFails ==
  /\ pc = "serve"
  /\ ForkFails
  /\ pc' = "exited"
  /\ UNCHANGED <<clientVars, loopVars, buffer, output, handled>>

--------------------------------------------------------------------------------
(* The world around the server. *)

Connect(c) ==
  /\ Running
  /\ link[c] = "off"
  /\ link' = [link EXCEPT ![c] = "backlog"]
  /\ UNCHANGED <<tableVars, inbox, sent, loopVars, pc, buffer, output, handled>>

(* What a peer sends, or its closing, before it is accepted cannot be told
   from the same done just after: the snapshot of the pass that accepts it does
   not hold its descriptor. *)
Send(c, command) ==
  /\ Running
  /\ link[c] = "up"
  /\ MapThenSumSet(LAMBDA d : Len(sent[d]), Clients) < MaxSent
  /\ sent' = [sent EXCEPT ![c] = Append(@, command)]
  /\ inbox' = [inbox EXCEPT ![c] = Append(@, command)]
  /\ UNCHANGED <<tableVars, link, loopVars, pc, buffer, output, handled>>

PeerCloses(c) ==
  /\ Running
  /\ link[c] = "up"
  /\ link' = [link EXCEPT ![c] = "fin"]
  /\ UNCHANGED <<tableVars, inbox, sent, loopVars, pc, buffer, output, handled>>

(* The peer closes with replies unread, or dies with its machine: a reset. *)
PeerAborts(c) ==
  /\ Running
  /\ link[c] = "up"
  /\ link' = [link EXCEPT ![c] = "aborted"]
  /\ UNCHANGED <<tableVars, inbox, sent, loopVars, pc, buffer, output, handled>>

ResetArrives(c) ==
  /\ Running
  /\ link[c] = "rst_due"
  /\ link' = [link EXCEPT ![c] = "broken"]
  /\ UNCHANGED <<tableVars, inbox, sent, loopVars, pc, buffer, output, handled>>

(* A job writes to the connection it was started from.  One that is "broken"
   raises SIGPIPE in the job, which ends as any job may. *)
JobWrites(p) ==
  /\ Running
  /\ proc[p] = "running"
  /\ output[p] # NULL
  /\ link' = Written(output[p])
  /\ UNCHANGED <<tableVars, inbox, sent, loopVars, pc, buffer, output, handled>>

ProcessEvent ==
  /\ \E p \in Pids :
       \/ /\ JobEnds(p)
          /\ output' = [output EXCEPT ![p] = NULL]
       \/ /\ StrangerStarts(p) \/ StrangerEnds(p)
          /\ UNCHANGED output
  /\ UNCHANGED <<clientVars, loopVars, pc, buffer, handled>>

(* SIGINT.  main fills in killact but installs stopact, whose handler was
   never assigned: the signal is ignored or ends the process, according to
   what the stack held.  shutdown_server cannot run, and neither can the
   code that follows the loop. *)
Interrupt ==
  /\ Running
  /\ pc' = "killed"
  /\ UNCHANGED <<tableVars, clientVars, loopVars, buffer, output, handled>>

--------------------------------------------------------------------------------
ServerStep ==
  \/ Select
  \/ \E c \in Clients : Accept(c)
  \/ AcceptFails
  \/ NoAccept
  \/ Visit
  \/ EndScan
  \/ ReadData
  \/ ReadEOF
  \/ ReadError
  \/ BeginCommand
  \/ HandleQuietly
  \/ HandleAndReply
  \/ \E p \in Pids : HandleRun(p)
  \/ HandleForkFails

World ==
  \/ \E c \in Clients :
       \/ Connect(c)
       \/ \E command \in ClientCommands : Send(c, command)
       \/ PeerCloses(c)
       \/ PeerAborts(c)
       \/ ResetArrives(c)
  \/ \E p \in Pids : JobWrites(p)
  \/ ProcessEvent
  \/ Interrupt

Next == ServerStep \/ World

Spec == Init /\ [][Next]_vars

(* The server is one running process: it takes its next step unless it is
   blocked in read or select.  Nothing is asked of the peers, the jobs or the
   network. *)
FairSpec == Spec /\ WF_vars(ServerStep)

--------------------------------------------------------------------------------
(***************************************************************************)
(* Properties                                                              *)
(***************************************************************************)

ServerTypeOK ==
  /\ link \in [Clients -> LinkStates]
  /\ inbox \in [Clients -> Seq(ClientCommands)]
  /\ open \in [ClientFds -> Clients \cup {NULL}]
  /\ client_list \in [Spots -> ClientFds \cup {NULL}]
  /\ allfds \in SUBSET ({sock_fd} \cup pipe_fds \cup ClientFds)
  /\ listenfds \in SUBSET ({sock_fd} \cup ClientFds)
  /\ maxfd \in {sock_fd} \cup ClientFds
  /\ pc \in {"select", "accept", "scan", "serve",
             "nullderef", "sigpipe", "exited", "killed"}
  /\ index \in 0 .. MAX_CLIENTS
  /\ buffer \in Seq(ClientCommands)
  /\ output \in [Pids -> Clients \cup {NULL}]
  /\ sent \in [Clients -> Seq(ClientCommands)]
  /\ handled \in [Clients -> Seq(ClientCommands)]

(* The four records that main keeps of its clients agree: a descriptor is open
   exactly if one slot of client_list holds it, exactly if it is in allfds, and
   then select looks that far.  Descriptors are reused, and the slots and the
   set are updated in different places. *)
RecordsAgree ==
  /\ \A fd \in ClientFds :
       /\ open[fd] # NULL <=> fd \in allfds
       /\ open[fd] # NULL <=> \E s \in Spots : client_list[s] = fd
       /\ fd \in allfds => fd <= maxfd
  /\ \A s, t \in Spots :
       client_list[s] = client_list[t] /\ client_list[s] # NULL => s = t

(* The snapshot that select took is still true when the scan uses it: every
   client it has yet to visit can be read without blocking, although other
   clients were served, accepted and dropped since. *)
SnapshotStaysTrue ==
  pc \in {"accept", "scan"} =>
    \A s \in ReadySpots : Readable(open[client_list[s]])

(* The commands of c that the server has read and not begun. *)
Underway(c) == IF pc = "serve" /\ Served = c THEN buffer ELSE <<>>

(* Commands are neither lost, repeated nor reordered on their way through the
   socket and the server's buffer, and a client is dropped only when every
   command it ever sent has been begun. *)
CommandsInOrder ==
  \A c \in Clients :
    /\ Running => sent[c] = handled[c] \o (Underway(c) \o inbox[c])
    /\ link[c] = "closed" => handled[c] = sent[c]

(* If every client leaves in the end, every command is begun in the end, unless
   the server ends first: the one condition under which a client that waits for
   another is sure of its turn. *)
PatientClientsAreServed ==
  (\A c \in Clients : link[c] = "up" ~> link[c] # "up") =>
    \A c \in Clients :
      \A n \in 1 .. MaxSent :
        Len(sent[c]) >= n ~> (Len(handled[c]) >= n \/ ~ Running)

(* jobserver.c:60: "start accepting connections. Listen for messages from both
   clients and jobs. Execute client commands if properly formatted."  A command
   that has arrived is read, or the server has ended.  The code reads one client
   until it leaves, and meanwhile nobody else is listened to. *)
EveryClientIsHeard ==
  \A c \in Clients : inbox[c] # <<>> ~> (inbox[c] = <<>> \/ ~ Running)
================================================================================
