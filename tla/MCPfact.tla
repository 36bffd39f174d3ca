--------------------------------- MODULE MCPfact -------------------------------
(* The sieve for small numbers, for TLC. *)
EXTENDS Pfact

SmallTargets == 0 .. 10

(* Memory without a list, and with part of one. *)
Leftovers == {2 .. 10, {2, 3, 4}}
================================================================================
