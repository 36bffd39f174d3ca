------------------------------- MODULE MCPrograms ------------------------------
(***************************************************************************)
(* The small programs, for TLC: a behaviour runs one of them, from any of  *)
(* its initial states, while the others stay in a fixed one.               *)
(***************************************************************************)
EXTENDS MCLineBuffer, ChatClient, Validate, PidList, Sin, CountLarge, Forks

VARIABLE program    (* the one that runs *)

programVars ==
  <<program, vars, clientVars, validateVars, pidListVars, sinVars, countVars, forksVars>>

(* Instances. *)

(* With reads of three bytes: chunks that fit with and without their newline, that
   fill a read, and that are too long; and what is left of each may be in the file. *)
PasswordFiles ==
  UNION {[1 .. n -> [user : {<<"u">>, <<"u", "p", "u">>}, password : {<<"p">>, <<"u", "p">>}]]
           : n \in 0 .. 2}
SomeChunks ==
  {<<"u", "LF">>, <<"p", "LF">>, <<"u", "p", "LF">>, <<"u", "p", "u">>,
   <<"u", "p", "u", "p", "LF">>}

Numbers == -20 .. 1100

LsListings ==
  LET File == [type : {"-", "d"}, bits : Permissions, marks : {<<>>, <<"@">>}, size : {1, 2},
               words : {<<>>, <<<<"w">>>>, <<<<"d">>, <<"w">>>>}] IN
    UNION {[1 .. n -> File] : n \in 0 .. 2}

Exercises ==
  [program : {"simplefork"}, iterations : {0}]
    \cup [program : {"forkloop"}, iterations : 0 .. 2]
    \cup [program : {"parentcreates", "childcreates"}, iterations : 0 .. 4]

--------------------------------------------------------------------------------

AnyChunks == CHOOSE t \in Ids \X Passwords : TRUE

ProgramsInit ==
  /\ program \in {"lines", "client", "validate", "pids", "sin", "count", "forks"}
  /\ IF program = "lines" THEN TRUE ELSE stream = <<>>
  /\ IF program = "validate" THEN TRUE ELSE file = <<>> /\ id = AnyChunks[1] /\ pw = AnyChunks[2]
  /\ IF program = "pids" THEN TRUE ELSE widest = Max(Widths)
  /\ IF program = "sin" THEN TRUE ELSE arg = 0
  /\ IF program = "count" THEN TRUE ELSE listing = <<>> /\ modifier = <<>>
  /\ IF program = "forks" THEN TRUE
     ELSE run = [program |-> "simplefork", iterations |-> 0] /\ tty = TRUE
  /\ Init /\ ClientInit /\ ValidateInit /\ PidListInit /\ SinInit /\ CountInit /\ ForksInit

Idle(p, v) == IF program = p THEN TRUE ELSE UNCHANGED v

(* The variables of the programs that do not run, and program itself. *)
Rest ==
  /\ UNCHANGED program
  /\ Idle("lines", vars) /\ Idle("client", clientVars) /\ Idle("validate", validateVars)
  /\ Idle("pids", pidListVars) /\ Idle("sin", sinVars) /\ Idle("count", countVars)
  /\ Idle("forks", forksVars)

ProgramsNext ==
  \/ program = "lines" /\ Next /\ Rest
  \/ program = "client" /\ ClientNext /\ Rest
  \/ program = "validate" /\ ValidateNext /\ Rest
  \/ program = "pids" /\ PidListNext /\ Rest
  \/ program = "sin" /\ SinNext /\ Rest
  \/ program = "count" /\ CountNext /\ Rest
  \/ program = "forks" /\ ForksNext /\ Rest

(* The client is the one program that is fair; the others need not be. *)
ProgramsSpec ==
  ProgramsInit /\ [][ProgramsNext]_programVars
    /\ WF_clientVars(program = "client" /\ ClientStep /\ Rest)

ProgramsTypeOK ==
  /\ LineTypeOK /\ ClientTypeOK /\ ValidateTypeOK /\ PidListTypeOK
  /\ SinTypeOK /\ CountTypeOK /\ ForksTypeOK
================================================================================
