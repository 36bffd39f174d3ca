----------------------------------- MODULE Sin ---------------------------------
(***************************************************************************)
(* a1/part2: validate_sin.c and sin_helpers.c.  Is the argument a Social   *)
(* Insurance Number, that is, has it nine digits, and do they, each second *)
(* one doubled and the digits of the results added, sum up to a multiple   *)
(* of ten?  Each step is one round of a loop.                              *)
(***************************************************************************)
EXTENDS Integers, Sequences

CONSTANTS
  DIGITS,    (* 9 in sin_helpers.c                                          *)
  INT_MAX,   (* 2^31 - 1; large enough for DIGITS digits, not for any more  *)
  Args       (* the numbers given on the command line                       *)

(* The powers of ten, as a recursive function, so that they can be reasoned about. *)
power[k \in Nat] == IF k = 0 THEN 1 ELSE 10 * power[k - 1]

ASSUME SinAssumption ==
  /\ DIGITS \in Nat \ {0}
  /\ INT_MAX \in Nat /\ power[DIGITS] <= INT_MAX /\ INT_MAX < power[DIGITS + 1]
  /\ Args \subseteq Int

VARIABLES
  arg,            (* the argument                                           *)
  sin,            (* what populate_array has left of it                     *)
  reversed_sin,
  sin_array,      (* the digits, as far as they are entered                 *)
  sum,            (* of the digits that check_sin has gone through          *)
  checked,        (* how many they are                                      *)
  verdict         (* the loop being run, or what is printed                  *)

sinVars == <<arg, sin, reversed_sin, sin_array, sum, checked, verdict>>

(* A machine int: two's complement, at -std=c99 without optimisation. *)
ToInt(n) == ((n + INT_MAX + 1) % (2 * (INT_MAX + 1))) - (INT_MAX + 1)

SinInit ==
  /\ arg \in Args
  /\ sin = ToInt(arg)
  /\ reversed_sin = 0
  /\ sin_array = <<>>
  /\ sum = 0 /\ checked = 0
  /\ verdict = "reverse"

ReverseDigit ==
  /\ verdict = "reverse"
  /\ reversed_sin' = IF sin > 0 THEN ToInt(10 * reversed_sin + (sin % 10)) ELSE reversed_sin
  /\ sin' = IF sin > 0 THEN sin \div 10 ELSE sin
  /\ verdict' = IF sin > 0 THEN "reverse" ELSE "split"
  /\ UNCHANGED <<arg, sin_array, sum, checked>>

(* The last digit of the reversed number is the next digit of the number. *)
SplitDigit ==
  /\ verdict = "split"
  /\ reversed_sin > 0
  /\ sin_array' = Append(sin_array, reversed_sin % 10)
  /\ reversed_sin' = reversed_sin \div 10
  /\ UNCHANGED <<arg, sin, sum, checked, verdict>>

SplitEnds ==
  /\ verdict = "split"
  /\ reversed_sin <= 0
  /\ verdict' = IF Len(sin_array) = DIGITS THEN "check" ELSE "Invalid SIN"
  /\ UNCHANGED <<arg, sin, reversed_sin, sin_array, sum, checked>>

(* Faulty variant of validation: the odd digits are doubled. *)
validation_odd(i) == IF i % 2 = 0 THEN 2 ELSE 1

(* The weights 1, 2, 1, 2, ... of digits 0, 1, 2, 3, ... *)
validation(i) == IF i % 2 = 0 THEN 1 ELSE 2

(* The sum of the digits of a number of at most two. *)
disect_greater_than(i) == IF i >= 10 THEN (i % 10) + (i \div 10) ELSE i

CheckDigit ==
  /\ verdict = "check"
  /\ checked < DIGITS
  /\ sum' = sum + disect_greater_than(validation(checked) * sin_array[checked + 1])
  /\ checked' = checked + 1
  /\ UNCHANGED <<arg, sin, reversed_sin, sin_array, verdict>>

CheckEnds ==
  /\ verdict = "check"
  /\ checked = DIGITS
  /\ verdict' = IF sum % 10 = 0 THEN "Valid SIN" ELSE "Invalid SIN"
  /\ UNCHANGED <<arg, sin, reversed_sin, sin_array, sum, checked>>

SinNext == ReverseDigit \/ SplitDigit \/ SplitEnds \/ CheckDigit \/ CheckEnds

SinSpec == SinInit /\ [][SinNext]_sinVars

--------------------------------------------------------------------------------
(***************************************************************************)
(* Properties                                                              *)
(***************************************************************************)

SinTypeOK ==
  /\ arg \in Args
  /\ {sin, reversed_sin} \subseteq -INT_MAX - 1 .. INT_MAX
  /\ sin_array \in Seq(0 .. 9)
  /\ sum \in Nat /\ checked \in 0 .. DIGITS
  /\ verdict \in {"reverse", "split", "check", "Valid SIN", "Invalid SIN"}

(* The k-th digit of n from the left, what it counts, and what the first k digits do. *)
Digit(n, k) == (n \div power[DIGITS - k]) % 10

Weighed(n, k) ==
  IF k % 2 = 1 THEN Digit(n, k)
  ELSE IF Digit(n, k) < 5 THEN 2 * Digit(n, k) ELSE 2 * Digit(n, k) - 9

CheckSum(n) ==
  LET total[k \in 0 .. DIGITS] == IF k = 0 THEN 0 ELSE total[k - 1] + Weighed(n, k) IN
    total[DIGITS]

(* A number of DIGITS digits whose check sum is a multiple of ten. *)
IsSin(n) ==
  /\ n \in power[DIGITS - 1] .. power[DIGITS] - 1
  /\ CheckSum(n) % 10 = 0

Decided == verdict \in {"Valid SIN", "Invalid SIN"}

(* The verdict is right for every number of at most DIGITS digits, and for every
   negative one, that does not end in 0: the reversal goes through an int that the
   digits just fit. *)
VerdictIsRight ==
  Decided /\ arg < power[DIGITS] /\ -INT_MAX <= arg /\ arg % 10 # 0 =>
    (verdict = "Valid SIN" <=> IsSin(arg))
================================================================================
