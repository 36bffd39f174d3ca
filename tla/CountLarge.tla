------------------------------- MODULE CountLarge ------------------------------
(***************************************************************************)
(* a1/part1/count_large.c: how many of the files in a listing of ls -l are *)
(* larger than the first argument and have the permissions of the second?  *)
(* Each scanf is to take the nine words of one line; but it takes words    *)
(* wherever lines end, it stops at a word that is not the number asked     *)
(* for, and then the variables it did not reach keep their values.         *)
(*                                                                         *)
(* A mode is a sequence of characters, and so is the argument.  A name has *)
(* one word, and perhaps others, none of them a number.                    *)
(***************************************************************************)
EXTENDS Integers, Sequences, FiniteSets

CONSTANTS
  PERMS,      (* 9, the characters of a mode without the file's type        *)
  Bits,       (* the characters that a permission may be, "-" among them    *)
  Limit,      (* the first argument                                         *)
  Listings    (* sequences of [type, bits, marks, size, words]              *)

Permissions == [1 .. PERMS -> Bits]

(* A line of ls -l, a file's or a directory's. *)
ListedFiles ==
  [type : {"-", "d"}, bits : Permissions, marks : Seq(STRING), size : Int,
   words : Seq(Seq(STRING))]

ASSUME CountAssumption ==
  /\ PERMS \in Nat \ {0} /\ Limit \in Int
  /\ "-" \in Bits /\ "d" \notin Bits /\ "NUL" \notin Bits
  /\ \A ls \in Listings : ls \in Seq(ListedFiles)

VARIABLES
  listing,
  modifier,             (* the second argument; <<>> if it was not given    *)
  line,                 (* how many lines have been begun                   *)
  word,                 (* how many of the line's further words were taken  *)
  dash,                 (* whether the next line's first character is lost  *)
  given_permissions,    (* the array, from 0, and the byte that follows it  *)
  size_file,
  size_counter,
  printed

countVars == <<listing, modifier, line, word, dash,
               given_permissions, size_file, size_counter, printed>>

CountInit ==
  /\ listing \in Listings
  /\ modifier \in {<<>>} \cup Permissions
  /\ line = 0 /\ word = 0
  /\ dash = FALSE
  /\ given_permissions = [i \in 0 .. PERMS + 1 |-> "NUL"]
  /\ size_file = 0
  /\ size_counter = 0
  /\ printed = FALSE

(* The array when scanf has put a word there. *)
Stored(text) ==
  [i \in DOMAIN given_permissions |->
     IF i < Len(text) THEN text[i + 1]
     ELSE IF i = Len(text) THEN "NUL" ELSE given_permissions[i]]

(* The last round compares the terminators. *)
check_permissions(given) ==
  /\ given[0] # "d"
  /\ \A i \in 0 .. PERMS :
       LET required == IF i < PERMS THEN modifier[i + 1] ELSE "NUL" IN
         required = "-" \/ required = given[i + 1]

(* Faulty variant of Counts: directories are files. *)
CountsDirectories(given, size) ==
  Limit < size /\ (modifier = <<>> \/ check_permissions(given))

Counts(given, size) ==
  Limit < size /\ given[0] # "d" /\ (modifier = <<>> \/ check_permissions(given))

Count == size_counter' = size_counter + IF Counts(given_permissions', size_file') THEN 1 ELSE 0

AtLineEnd == IF line = 0 THEN TRUE ELSE word = Len(listing[line].words)

Mode(f) == (IF dash THEN <<>> ELSE <<f.type>>) \o f.bits \o f.marks

(* The nine words of a line, of a name only the first. *)
ScanLine ==
  /\ AtLineEnd
  /\ line < Len(listing)
  /\ line' = line + 1
  /\ word' = 0
  /\ dash' = FALSE
  /\ given_permissions' = Stored(Mode(listing[line + 1]))
  /\ size_file' = listing[line + 1].size
  /\ Count
  /\ UNCHANGED <<listing, modifier, printed>>

(* A further word of a name is taken for a mode.  Then the number asked for is not
   found in what follows; but if that is the mode of a file, its "-" is taken, for a
   sign.  The counter goes by the size of the line before. *)
ScanWord ==
  /\ ~ AtLineEnd
  /\ word' = word + 1
  /\ given_permissions' = Stored(listing[line].words[word + 1])
  /\ dash' = (word' = Len(listing[line].words) /\ line < Len(listing)
                /\ listing[line + 1].type = "-")
  /\ UNCHANGED <<listing, modifier, line, size_file, printed>>
  /\ Count

ScanEnds ==
  /\ AtLineEnd
  /\ line = Len(listing)
  /\ ~ printed
  /\ printed' = TRUE
  /\ UNCHANGED <<listing, modifier, line, word, dash, given_permissions, size_file, size_counter>>

CountNext == ScanLine \/ ScanWord \/ ScanEnds

CountSpec == CountInit /\ [][CountNext]_countVars

--------------------------------------------------------------------------------
(***************************************************************************)
(* Properties                                                              *)
(***************************************************************************)

CountTypeOK ==
  /\ modifier \in {<<>>} \cup Permissions
  /\ line \in 0 .. Len(listing) /\ word \in Nat
  /\ {dash, printed} \subseteq BOOLEAN
  /\ DOMAIN given_permissions = 0 .. PERMS + 1
  /\ size_file \in Int /\ size_counter \in Nat

(* A file that is to be counted. *)
Large(f) ==
  /\ f.type = "-" /\ Limit < f.size
  /\ \A k \in DOMAIN modifier : modifier[k] \in {"-", f.bits[k]}

(* A listing in which scanf takes each line for itself, and every mode as it is. *)
Plain ==
  \A k \in DOMAIN listing :
    listing[k].words = <<>> /\ (modifier = <<>> \/ listing[k].marks = <<>>)

(* What is printed is the number of files that are larger than the limit and have
   every permission that is asked for, when each name is one word and, if permissions
   are asked for, no mode has a mark after them (one that has is never counted).
   Other names can add to the number, but if no permissions are asked for they never
   hide a large file. *)
CountsLargeFiles ==
  LET large == Cardinality({k \in DOMAIN listing : Large(listing[k])}) IN
    printed =>
      /\ Plain => size_counter = large
      /\ modifier = <<>> => size_counter >= large
================================================================================
