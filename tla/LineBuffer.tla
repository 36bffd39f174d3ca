------------------------------- MODULE LineBuffer ------------------------------
(***************************************************************************)
(* How t10/bufserver.c, and a4/jobserver.c after it, cut the bytes of a    *)
(* connection into lines that end in the network newline CR LF: a buffer   *)
(* of BUFSIZE bytes, of which the first inbuf came from the connection and *)
(* are not consumed, and the rest is whatever earlier lines left there.    *)
(***************************************************************************)
EXTENDS Integers, Sequences, FiniteSets, SequencesExt

CONSTANTS
  BUFSIZE,    (* bytes in the buffer (30 in bufserver, 256 in jobserver)    *)
  Text,       (* the bytes that are neither CR nor LF                      *)
  Streams     (* all that a peer may send on a connection                   *)

Bytes == Text \cup {"CR", "LF"}

(* The bytes of a peer that keeps to the protocol: CR and LF are sent together. *)
Paired(s) ==
  \A i \in 0 .. Len(s) :
    i > 0 /\ s[i] = "CR" <=> i < Len(s) /\ s[i + 1] = "LF"

ASSUME BufferAssumption ==
  /\ BUFSIZE \in Nat \ {0}
  /\ Text \cap {"CR", "LF", "NUL", "SP"} = {}
  /\ \A s \in Streams : s \in Seq(Bytes) /\ Paired(s)

VARIABLES
  stream,     (* all that the peer sends                                    *)
  got,        (* the number of bytes of stream read so far                  *)
  buf,
  inbuf,
  lines,      (* the lines handed on, without their newlines                *)
  state       (* "read", "search", "closed", or "aborted" by the sanitizer  *)

vars == <<stream, got, buf, inbuf, lines, state>>

room == BUFSIZE - inbuf

Init ==
  /\ stream \in Streams
  /\ got = 0
  /\ buf = [i \in 0 .. BUFSIZE - 1 |-> "NUL"]
  /\ inbuf = 0
  /\ lines = <<>>
  /\ state = "read"

(* Faulty variant of Read: room is not brought up to date after the first read. *)
ReadPastRoom ==
  /\ state = "read"
  /\ \E n \in 1 .. BUFSIZE :
       /\ got + n <= Len(stream)
       /\ buf' = [i \in DOMAIN buf |->
                   IF i \in inbuf .. inbuf + n - 1 THEN stream[got + i - inbuf + 1] ELSE buf[i]]
       /\ inbuf' = inbuf + n
       /\ got' = got + n
  /\ state' = "search"
  /\ UNCHANGED <<stream, lines>>

(* read returns any number of the bytes at hand that fit. *)
Read ==
  /\ state = "read"
  /\ \E n \in 1 .. room :
       /\ got + n <= Len(stream)
       /\ buf' = [i \in DOMAIN buf |->
                   IF i \in inbuf .. inbuf + n - 1 THEN stream[got + i - inbuf + 1] ELSE buf[i]]
       /\ inbuf' = inbuf + n
       /\ got' = got + n
  /\ state' = "search"
  /\ UNCHANGED <<stream, lines>>

(* read returns 0: at the end of the stream, and when there is no room left,
   which the servers cannot tell apart. *)
ReadZero ==
  /\ state = "read"
  /\ room = 0 \/ got = Len(stream)
  /\ state' = "closed"
  /\ UNCHANGED <<stream, got, buf, inbuf, lines>>

(* The places where find_network_newline finds a newline: it looks for "CR"
   among the first inbuf bytes, and at the byte after each of them. *)
Newlines == {i \in 0 .. inbuf - 1 : i + 1 < BUFSIZE /\ buf[i] = "CR" /\ buf[i + 1] = "LF"}

First == CHOOSE i \in Newlines : \A j \in Newlines : i <= j

find_network_newline == IF Newlines = {} THEN -1 ELSE First + 2

(* The byte after the last one of a full buffer is outside it. *)
ReadsOutside ==
  Newlines = {} /\ inbuf = BUFSIZE /\ buf[BUFSIZE - 1] = "CR"

(* The buffer once the line that ends before where is cut off in place. *)
Marked(where) == [buf EXCEPT ![where - 2] = "NUL", ![where - 1] = "SP"]

HandOn(where) == lines' = Append(lines, [i \in 1 .. where - 2 |-> buf[i - 1]])

(* Faulty variant of TakeLine: what follows the line is dropped (inbuf = 0). *)
TakeLineEmpties ==
  /\ state = "search"
  /\ find_network_newline > 0
  /\ HandOn(find_network_newline)
  /\ inbuf' = 0
  /\ buf' = Marked(find_network_newline)
  /\ UNCHANGED <<stream, got, state>>

(* One line is handed on, and what follows it moves to the front.  When the
   line ends after the input, the number of bytes to move is negative and
   AddressSanitizer, with which both servers are built, aborts memmove. *)
TakeLine ==
  /\ state = "search"
  /\ find_network_newline > 0
  /\ LET where == find_network_newline IN
       /\ HandOn(where)
       /\ inbuf' = inbuf - where
       /\ \/ /\ where <= inbuf
             /\ buf' = [i \in DOMAIN buf |->
                         IF i < inbuf - where THEN buf[i + where] ELSE Marked(where)[i]]
             /\ UNCHANGED state
          \/ /\ where > inbuf
             /\ buf' = Marked(where)
             /\ state' = "aborted"
  /\ UNCHANGED <<stream, got>>

(* No complete line: back to read, unless the search ran off the buffer. *)
NoLine ==
  /\ state = "search"
  /\ Newlines = {}
  /\ state' = IF ReadsOutside THEN "aborted" ELSE "read"
  /\ UNCHANGED <<stream, got, buf, inbuf, lines>>

Next == Read \/ ReadZero \/ TakeLine \/ NoLine

Spec == Init /\ [][Next]_vars

--------------------------------------------------------------------------------
(***************************************************************************)
(* Properties                                                              *)
(***************************************************************************)

LineTypeOK ==
  /\ stream \in Seq(Bytes)
  /\ got \in 0 .. Len(stream)
  /\ buf \in [0 .. BUFSIZE - 1 -> Bytes \cup {"NUL", "SP"}]
  /\ inbuf \in -1 .. BUFSIZE
  /\ lines \in Seq(Seq(Bytes))
  /\ state \in {"read", "search", "closed", "aborted"}

(* The newlines of a sequence of bytes, and the k-th of them. *)
NewlinesIn(s) == {i \in 1 .. Len(s) - 1 : s[i] = "CR" /\ s[i + 1] = "LF"}

NewlinesUpTo(s, n) == {i \in NewlinesIn(s) : i <= n}

Newline(s, k) == CHOOSE i \in NewlinesIn(s) : Cardinality(NewlinesUpTo(s, i)) = k

(* What a line-by-line reader must see of a sequence of bytes: what stands
   between its newlines. *)
Split(s) ==
  [k \in 1 .. Cardinality(NewlinesIn(s)) |->
    SubSeq(s, IF k = 1 THEN 1 ELSE Newline(s, k - 1) + 2, Newline(s, k) - 1)]

(* From every start of a line, its newline or the end of the stream comes before
   the buffer is full: jobprotocol.h:11, "No paths or lines may be larger than
   the BUFSIZE below". *)
LinesFit ==
  \A i \in 1 .. Len(stream) :
    i = 1 \/ stream[i - 1] = "LF" =>
      \/ Len(stream) - i + 1 < BUFSIZE
      \/ \E k \in i + 1 .. i + BUFSIZE - 1 : stream[k] = "LF"

(* The lines handed on are the first lines of the stream, in order, whatever the
   sizes of the reads: nothing that an earlier line left in the buffer is ever taken
   for input, and nothing is lost behind a line.  When the lines fit, a connection
   that is closed has handed on all of them: the end of the stream is never mistaken
   for a full buffer, nor the last read's lines forgotten. *)
LinesAreTheStreams ==
  /\ IsPrefix(lines, Split(stream))
  /\ state = "closed" /\ LinesFit => lines = Split(stream)

(* bufserver.c:91 on find_network_newline: "Search the first n characters of buf
   for a network newline (\r\n). Return one plus the index of the '\n' of the
   first network newline, or -1 if no network newline is found."  The code
   looks one byte further, at what an earlier line left there. *)
SearchesInputOnly ==
  state = "search" /\ LinesFit => find_network_newline <= inbuf
================================================================================
