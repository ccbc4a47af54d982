--------------------------- MODULE MCAccumulator ----------------------------
(***************************************************************************)
(* Switches whose sums reach the carry out of bit 15.                      *)
(***************************************************************************)
EXTENDS Accumulator

Vector(n) == [i \in 0..9 |-> (n \div 2 ^ i) % 2]

MCSettings == {Vector(1023), Vector(594)}
=============================================================================
