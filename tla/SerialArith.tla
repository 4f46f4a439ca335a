----------------------------- MODULE SerialArith -----------------------------
(***************************************************************************)
(* Zone serials are unsigned integers that wrap (uint32 in the code).      *)
(* slave_client.go compares them with the arithmetic of RFC 1982.          *)
(***************************************************************************)
EXTENDS Integers

CONSTANT Modulus  \* 2^32 in the code

ASSUME ModulusAssumption == Modulus \in Nat \ {0}

Serials == 0 .. Modulus - 1

\* a - b in uint32
Minus(a, b) == IF a >= b THEN a - b ELSE a - b + Modulus

\* A plausible slip: comparing serials as plain integers.
MutPlainGreater(a, b) == a > b

\* diff != 0 && diff < 1<<31
serialGreater(a, b) == Minus(a, b) # 0 /\ 2 * Minus(a, b) < Modulus
=============================================================================
