-------------------------------- MODULE Validate -------------------------------
(***************************************************************************)
(* t08/validate.c: a user id and a password come in two chunks through a   *)
(* pipe, and the exit status says what the password file holds of them.    *)
(* A read takes up to MAX_PASSWORD of the bytes that are there, wherever   *)
(* the chunks meet: the rest of a chunk, or the first bytes of a longer    *)
(* one, are then taken for a user id or a password like any other.         *)
(***************************************************************************)
EXTENDS Integers, Sequences, SequencesExt

CONSTANTS
  MAX_PASSWORD,    (* 10 in validate.c                                      *)
  Characters,      (* the bytes that there are, "LF" for the newline, but   *)
                   (* for ":", which ends the user in a line of the file    *)
  Files,           (* password files that there may be                      *)
  Ids, Passwords   (* chunks that may be sent                               *)

ASSUME ValidateAssumption ==
  /\ MAX_PASSWORD \in Nat \ {0}
  /\ \A c \in Ids \cup Passwords : c \in Seq(Characters) /\ c # <<>>
  /\ \A f \in Files : f \in Seq([user : Seq(Characters), password : Seq(Characters)])

VARIABLES
  file,       (* the password file                                          *)
  id, pw,     (* the chunks that the writer writes                          *)
  sent,       (* how many of them it has written                            *)
  closed,     (* whether it has closed its end                              *)
  stage,      (* "userid", "password", "lookup", "exited" or "fileless"      *)
  taken,      (* the number of bytes that the read of the user id took      *)
  userid, password,
  status      (* the exit status, or -1 while it runs                       *)

validateVars == <<file, id, pw, sent, closed, stage, taken, userid, password, status>>

ValidateInit ==
  /\ file \in Files /\ id \in Ids /\ pw \in Passwords
  /\ sent = 0 /\ closed = FALSE
  /\ stage = "userid"
  /\ taken = 0
  /\ userid = <<>> /\ password = <<>>
  /\ status = -1

(* The bytes that the writer has written. *)
Written == <<<<>>, id, id \o pw>>[sent + 1]

Least(m, n) == IF m < n THEN m ELSE n

(* What a read brings after so many bytes. *)
Chunk(from) == SubSeq(Written, from + 1, Least(from + MAX_PASSWORD, Len(Written)))

LineEnds(bytes) == {k \in DOMAIN bytes : bytes[k] = "LF"}

(* The text in what a read brought: up to the first newline. *)
TextOf(bytes) ==
  IF LineEnds(bytes) = {} THEN bytes ELSE SubSeq(bytes, 1, Min(LineEnds(bytes)) - 1)

(* Behind the newline, what the read took of the second chunk is lost. *)
ReadUserid ==
  /\ stage = "userid"
  /\ Written # <<>>
  /\ taken' = Len(Chunk(0))
  /\ userid' = TextOf(Chunk(0))
  /\ stage' = "password"
  /\ UNCHANGED <<file, id, pw, sent, closed, password, status>>

ReadPassword ==
  /\ stage = "password"
  /\ Len(Written) > taken
  /\ password' = TextOf(Chunk(taken))
  /\ stage' = "lookup"
  /\ UNCHANGED <<file, id, pw, sent, closed, taken, userid, status>>

(* read returns 0. *)
ReadNothing ==
  /\ stage \in {"userid", "password"}
  /\ closed
  /\ Len(Written) = taken
  /\ stage' = "exited"
  /\ status' = 1
  /\ UNCHANGED <<file, id, pw, sent, closed, taken, userid, password>>

(* Faulty variant of Lookup: the whole file is searched for the pair. *)
LookupAnywhere ==
  /\ stage = "lookup"
  /\ status' = IF \E k \in DOMAIN file : file[k].password = password THEN 0
               ELSE IF \E k \in DOMAIN file : file[k].user = userid THEN 2 ELSE 3
  /\ stage' = "exited"
  /\ UNCHANGED <<file, id, pw, sent, closed, taken, userid, password>>

(* The first line that begins with the user id decides. *)
Lookup ==
  /\ stage = "lookup"
  /\ LET k == SelectInSeq(file, LAMBDA line : line.user = userid) IN
       status' = IF k = 0 THEN 3 ELSE IF file[k].password = password THEN 0 ELSE 2
  /\ stage' = "exited"
  /\ UNCHANGED <<file, id, pw, sent, closed, taken, userid, password>>

(* The password file cannot be opened. *)
NoFile ==
  /\ stage = "lookup"
  /\ stage' = "fileless"
  /\ status' = 1
  /\ UNCHANGED <<file, id, pw, sent, closed, taken, userid, password>>

(* The writer: two writes, at any time, and the end. *)
Writer ==
  /\ ~ closed
  /\ \/ sent < 2 /\ sent' = sent + 1 /\ UNCHANGED closed
     \/ closed' = TRUE /\ UNCHANGED sent
  /\ UNCHANGED <<file, id, pw, stage, taken, userid, password, status>>

ValidateNext == ReadUserid \/ ReadPassword \/ ReadNothing \/ Lookup \/ NoFile \/ Writer

ValidateSpec == ValidateInit /\ [][ValidateNext]_validateVars

--------------------------------------------------------------------------------
(***************************************************************************)
(* Properties                                                              *)
(***************************************************************************)

ValidateTypeOK ==
  /\ file \in Files /\ id \in Ids /\ pw \in Passwords
  /\ sent \in 0 .. 2 /\ closed \in BOOLEAN
  /\ stage \in {"userid", "password", "lookup", "exited", "fileless"}
  /\ taken \in 0 .. Len(Written)
  /\ userid \in Seq(Characters) /\ password \in Seq(Characters)
  /\ status \in -1 .. 3

(* The status that validate.c:15-21 gives to what the writer wrote. *)
Documented ==
  LET lines == {file[k] : k \in DOMAIN file} IN
    IF [user |-> TextOf(id), password |-> TextOf(pw)] \in lines THEN 0
    ELSE IF \E line \in lines : line.user = TextOf(id) THEN 2 ELSE 3

(* In a file that has each user once, the status is the documented one for chunks that
   fit into a read, if the first read takes the user id's and no more, as it does when
   that one fills its read or the password is written later.  If both are written
   before the first read, a user id that fits and ends in a newline is still looked up
   as it was sent, and whether the user is known is reported rightly; the password may
   be any rest of the one that was sent.  An error is reported only if the writer has
   stopped writing, or for want of a file. *)
StatusIsRight ==
  LET once == \A k, l \in DOMAIN file : file[k].user = file[l].user => k = l
      alone == Len(id) <= MAX_PASSWORD /\ taken = Len(id)
      whole == Len(id) <= MAX_PASSWORD /\ (taken = Len(id) \/ LineEnds(id) # {}) IN
    /\ once /\ alone /\ Len(pw) <= MAX_PASSWORD /\ status \in {0, 2, 3} =>
         status = Documented
    /\ whole /\ status \in {0, 2, 3} =>
         (status = 3 <=> \A k \in DOMAIN file : file[k].user # TextOf(id))
    /\ status = 1 => stage = "fileless" \/ (closed /\ (sent < 2 \/ ~ alone))
================================================================================
