------------------------------- MODULE ChatClient ------------------------------
(***************************************************************************)
(* t11/chat_client.c.  The client asks its user for a name and then waits  *)
(* in select for the user and for the server, which sends every message as *)
(* a frame of 2 * (BUF_SIZE + 1) bytes: some text, and NULs up to the end  *)
(* (chat_server.c:88-111).  The client reads up to BUF_SIZE bytes at a     *)
(* time and prints what it has read up to the first NUL.                   *)
(*                                                                         *)
(* A byte is its position in the stream of the frames; the texts are left  *)
(* out, but for their lengths.                                             *)
(***************************************************************************)
EXTENDS Integers, Sequences, FiniteSetsExt, Connection

CONSTANTS
  BUF_SIZE,      (* 128 in chat_client.c                                    *)
  TextLengths,   (* the lengths of the texts that the server sends          *)
  MaxFrames,     (* bound: frames sent by the server                        *)
  MaxTyped       (* bound: chunks typed by the user, the name being the first *)

FRAME == 2 * (BUF_SIZE + 1)

ASSUME ClientAssumption ==
  /\ BUF_SIZE \in Nat \ {0}
  /\ TextLengths \subseteq 0 .. FRAME - 1
  /\ MaxFrames \in Nat /\ MaxTyped \in Nat

VARIABLES
  frames,     (* the lengths of the texts of the frames sent so far         *)
  sock,       (* the state of the connection to the server                  *)
  typed,      (* the number of chunks that the user has typed               *)
  eof,        (* whether the user has closed stdin                          *)
  received,   (* the number of bytes read from the server                   *)
  written,    (* the number of chunks read from the user and written on     *)
  ready,      (* what the last select found readable                        *)
  at,         (* where main is, or how it ended                             *)
  text,       (* what a printf of the buffer prints; 0 is none of the server's *)
  shown,      (* history: the bytes printed                                 *)
  paced,      (* history: every frame came when the ones before were read   *)
  failed      (* history: a read from the server has failed                 *)

user == <<typed, eof>>
server == <<frames, paced>>
clientVars == <<server, sock, user, received, written, ready, at, text, shown, failed>>

Ended == {"ended", "failed", "sigpipe"}

ClientInit ==
  /\ frames = <<>>
  /\ sock = "up"
  /\ typed = 0
  /\ eof = FALSE
  /\ received = 0
  /\ written = 0
  /\ ready = {}
  /\ at = "name"
  /\ text = <<0>>
  /\ shown = <<>>
  /\ paced = TRUE
  /\ failed = FALSE

Sent == FRAME * Len(frames)

IsText(x) == (x - 1) % FRAME < frames[(x - 1) \div FRAME + 1]

--------------------------------------------------------------------------------
(* The user's side: each chunk that is read is written to the server. *)

ReadStdin(then) ==
  /\ written < typed
  /\ written' = written + 1
  /\ at' = CASE sock = "aborted" -> "failed"
             [] sock = "broken"  -> "sigpipe"
             [] OTHER            -> then
  /\ sock' = AfterWrite(sock)

(* Faulty variant of StdinEnds: the end of the input is not told from a chunk. *)
StdinEndIgnored ==
  /\ at \in {"name", "stdin"}
  /\ written = typed
  /\ eof
  /\ at' = "select"
  /\ UNCHANGED <<server, sock, user, received, written, ready, text, shown, failed>>

StdinEnds ==
  /\ at \in {"name", "stdin"}
  /\ written = typed
  /\ eof
  /\ at' = "ended"
  /\ UNCHANGED <<server, sock, user, received, written, ready, text, shown, failed>>

(* The name is read before anything that the server sends. *)
ReadName ==
  /\ at = "name"
  /\ ReadStdin("select")
  /\ UNCHANGED <<server, user, received, ready, text, shown, failed>>

(* The user's chunk is read into the buffer that the server's bytes are in. *)
ReadChunk ==
  /\ at = "stdin"
  /\ ReadStdin("select")
  /\ text' = <<0>>
  /\ UNCHANGED <<server, user, received, ready, shown, failed>>

--------------------------------------------------------------------------------
(* The server's side. *)

Select ==
  /\ at = "select"
  /\ ready' = {s \in {"socket"} : received < Sent \/ sock \in Over}
                \cup {s \in {"stdin"} : written < typed \/ eof}
  /\ ready' # {}
  /\ at' = IF "socket" \in ready' THEN "socket" ELSE "stdin"
  /\ UNCHANGED <<server, sock, user, received, written, text, shown, failed>>

AfterSocket == IF "stdin" \in ready THEN "stdin" ELSE "select"

(* Faulty variant of Printed: NULs are printed as well. *)
WithPadding(first, last) == [k \in 1 .. last - first + 1 |-> first + k - 1]

(* What printf prints of the bytes first .. last. *)
Printed(first, last) ==
  LET nuls == {x \in first .. last : ~ IsText(x)}
      end == IF nuls = {} THEN last ELSE Min(nuls) - 1 IN
    [k \in 1 .. end - first + 1 |-> first + k - 1]

(* TCP may bring any part of what the server has sent. *)
ReadSocket ==
  /\ at = "socket"
  /\ received < Sent
  /\ \E n \in 1 .. Min({BUF_SIZE, Sent - received}) :
       /\ received' = received + n
       /\ text' = Printed(received + 1, received + n)
       /\ shown' = shown \o Printed(received + 1, received + n)
  /\ at' = AfterSocket
  /\ UNCHANGED <<server, sock, user, written, ready, failed>>

SocketEnds ==
  /\ at = "socket"
  /\ received = Sent
  /\ sock \in AtEnd
  /\ at' = "ended"
  /\ UNCHANGED <<server, sock, user, received, written, ready, text, shown, failed>>

(* -1 is not told from a length: what is in the buffer is printed once more. *)
SocketFails ==
  /\ at = "socket"
  /\ received = Sent
  /\ sock = "aborted"
  /\ sock' = "broken"
  /\ failed' = TRUE
  /\ shown' = shown \o text
  /\ at' = AfterSocket
  /\ UNCHANGED <<server, user, received, written, ready, text>>

ClientStep ==
  \/ ReadName \/ StdinEnds \/ ReadChunk
  \/ Select \/ ReadSocket \/ SocketEnds \/ SocketFails

--------------------------------------------------------------------------------
(* The user, the server and the network. *)

UserActs ==
  /\ ~ eof
  /\ \/ /\ typed < MaxTyped
        /\ typed' = typed + 1
        /\ UNCHANGED eof
     \/ /\ eof' = TRUE
        /\ UNCHANGED typed
  /\ UNCHANGED <<server, sock, received, written, ready, at, text, shown, failed>>

ServerWrites ==
  /\ sock = "up"
  /\ Len(frames) < MaxFrames
  /\ \E length \in TextLengths : frames' = Append(frames, length)
  /\ paced' = (paced /\ received = Sent)
  /\ UNCHANGED <<sock, user, received, written, ready, at, text, shown, failed>>

(* The server ends, or dies with the client's chunks unread; the RST that
   answers a write to a server that has ended arrives. *)
ConnectionFails ==
  /\ \/ sock = "up" /\ sock' \in {"fin", "aborted"}
     \/ sock = "rst_due" /\ sock' = "broken"
  /\ UNCHANGED <<server, user, received, written, ready, at, text, shown, failed>>

ClientNext ==
  \/ ClientStep
  \/ at \notin Ended /\ (UserActs \/ ServerWrites \/ ConnectionFails)

ClientFairness == WF_clientVars(ClientStep)

ClientSpec == ClientInit /\ [][ClientNext]_clientVars /\ ClientFairness

--------------------------------------------------------------------------------
(***************************************************************************)
(* Properties                                                              *)
(***************************************************************************)

ClientTypeOK ==
  /\ frames \in Seq(TextLengths)
  /\ sock \in LinkStates
  /\ typed \in Nat /\ eof \in BOOLEAN
  /\ received \in 0 .. Sent
  /\ written \in 0 .. typed
  /\ ready \subseteq {"socket", "stdin"}
  /\ at \in {"name", "select", "socket", "stdin"} \cup Ended
  /\ text \in Seq(Nat) /\ shown \in Seq(Nat)
  /\ paced \in BOOLEAN /\ failed \in BOOLEAN

(* Until a read fails, what is on the screen is text of the server's, in the order
   in which it was sent, no byte twice and no padding, wherever the reads cut it.
   When every message comes after the client has read the one before, all of it is
   shown; otherwise a read may bring the end of one frame and the beginning of the
   next, of which nothing is printed. *)
MessagesAreShown ==
  /\ ~ failed =>
       /\ \A k \in DOMAIN shown : shown[k] <= received /\ IsText(shown[k])
       /\ \A k, l \in DOMAIN shown : k < l => shown[k] < shown[l]
  /\ paced =>
       \A x \in 1 .. received : IsText(x) => \E k \in DOMAIN shown : shown[k] = x

(* The client ends when its user does, whatever the server still sends, and when
   the server has ended, once the name has been given: the read of the name does not
   look at the connection. *)
ClientEnds ==
  (eof \/ (sock \in Over /\ at # "name")) ~> at \in Ended
================================================================================
