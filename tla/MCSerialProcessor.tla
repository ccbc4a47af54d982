------------------------- MODULE MCSerialProcessor --------------------------
(***************************************************************************)
(* The words of testbench_8, and one with neither end alike.               *)
(***************************************************************************)
EXTENDS SerialProcessor

Vector(n) == [i \in 0..7 |-> (n \div 2 ^ i) % 2]

MCInputs == {Vector(51), Vector(85), Vector(178)}
=============================================================================
