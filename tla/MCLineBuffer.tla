------------------------------ MODULE MCLineBuffer -----------------------------
(***************************************************************************)
(* The streams of LineBuffer for TLC: lines of text, each ended by a       *)
(* newline, and perhaps the beginning of another.                          *)
(***************************************************************************)
EXTENDS LineBuffer

CONSTANTS
  MaxLine,    (* bound: bytes of text in a line                             *)
  MaxLines    (* bound: lines that the peer sends before it closes          *)

Terminated(l) == l \o <<"CR", "LF">>

LinesOfText ==
  LET Line == UNION {[1 .. n -> Text] : n \in 0 .. MaxLine} IN
  {FlattenSeq([k \in DOMAIN ls |-> Terminated(ls[k])]) \o tail :
     ls \in UNION {[1 .. m -> Line] : m \in 0 .. MaxLines}, tail \in Line}
================================================================================
