------------------------------- MODULE Connection ------------------------------
(***************************************************************************)
(* A TCP connection as the kernel of a server has it, for the servers that *)
(* leave SIGPIPE at its default.                                           *)
(*                                                                         *)
(*   "off"      not made yet                                               *)
(*   "backlog"  made, not accepted                                         *)
(*   "up"       both ends are open                                         *)
(*   "fin"      the peer has closed                                        *)
(*   "rst_due"  ... and was written to since: its RST is on the way        *)
(*   "aborted"  the peer reset an open connection, which the next read or  *)
(*              write reports by failing                                   *)
(*   "broken"   a reset connection after that, or after the RST            *)
(*   "closed"   closed by the server                                       *)
(***************************************************************************)

LinkStates ==
  {"off", "backlog", "up", "fin", "rst_due", "aborted", "broken", "closed"}

(* Once the data is read, a read returns 0. *)
AtEnd == {"fin", "rst_due", "broken"}

(* A read does not block although there is no data. *)
Over == AtEnd \cup {"aborted"}

(* What a write leaves behind; a write to a "broken" connection raises SIGPIPE. *)
AfterWrite(l) == CASE l = "fin"     -> "rst_due"
                   [] l = "aborted" -> "broken"
                   [] OTHER         -> l
================================================================================
