--------------------------------- MODULE PidList -------------------------------
(***************************************************************************)
(* print_active_jobs of a4/jobprotocol.c: the pids of the jobs are strung  *)
(* together in an array of ListSize bytes, as long as they fit, and then    *)
(* the network newline is appended.  A pid is the number of its digits.    *)
(***************************************************************************)
EXTENDS Integers

CONSTANTS
  ListSize,    (* BUFSIZE in jobprotocol.h: 256                              *)
  MAX_JOBS,    (* 32 in jobprotocol.h                                       *)
  Widths       (* bound: how many digits the longest pid of a machine has    *)

ASSUME PidListAssumption ==
  /\ ListSize \in Nat /\ MAX_JOBS \in Nat /\ Widths \subseteq Nat
  /\ 8 < ListSize

VARIABLES
  widest,    (* the number of digits of the longest pid of the machine      *)
  next,      (* the slot of the job list that comes next                    *)
  active,    (* active_jobs                                                 *)
  listed,    (* history: how many of the pids were appended                 *)
  length,    (* strlen(pid_list)                                            *)
  reply      (* "packing", "sent", or "aborted" by the sanitizer            *)

pidListVars == <<widest, next, active, listed, length, reply>>

(* "[SERVER]" stands in the array. *)
PidListInit ==
  /\ widest \in Widths
  /\ next = 0 /\ active = 0 /\ listed = 0
  /\ length = 8
  /\ reply = "packing"

NoJob ==
  /\ reply = "packing"
  /\ next < MAX_JOBS
  /\ next' = next + 1
  /\ UNCHANGED <<widest, active, listed, length, reply>>

(* Faulty variant of Room: whether the pid fits is asked before it is counted. *)
RoomBefore(current) == current - widest - 1 < ListSize

Room(current) == current < ListSize

(* A space and the digits, if they leave room for the terminator. *)
AppendPid ==
  /\ reply = "packing"
  /\ next < MAX_JOBS
  /\ \E digits \in 1 .. widest :
       LET current == length + 1 + digits IN
         IF Room(current) THEN length' = current /\ listed' = listed + 1
         ELSE UNCHANGED <<length, listed>>
  /\ next' = next + 1
  /\ active' = active + 1
  /\ UNCHANGED <<widest, reply>>

(* The array holds the newline as well, with its terminator; if it does not,
   AddressSanitizer, with which the server is built, ends it.  Without a job the
   reply is a fixed text. *)
SendReply ==
  /\ reply = "packing"
  /\ next = MAX_JOBS
  /\ IF active = 0 \/ length + 3 <= ListSize THEN reply' = "sent" ELSE reply' = "aborted"
  /\ length' = IF active = 0 THEN length ELSE length + 2
  /\ UNCHANGED <<widest, next, active, listed>>

PidListNext == NoJob \/ AppendPid \/ SendReply

PidListSpec == PidListInit /\ [][PidListNext]_pidListVars

--------------------------------------------------------------------------------
(***************************************************************************)
(* Properties                                                              *)
(***************************************************************************)

PidListTypeOK ==
  /\ widest \in Widths
  /\ next \in 0 .. MAX_JOBS /\ active \in 0 .. next /\ listed \in 0 .. active
  /\ length \in Nat
  /\ reply \in {"packing", "sent", "aborted"}

(* However many jobs there are and however long their pids, the loop stays in the
   array, and a pid is left out only if the list is long: of all the lists that have
   room for MAX_JOBS pids and the newline none is cut, and sending it does not end the
   server. *)
PidsFit ==
  /\ reply = "packing" => length < ListSize
  /\ 8 + MAX_JOBS * (widest + 1) + 2 < ListSize =>
       listed = active /\ reply # "aborted"
================================================================================
