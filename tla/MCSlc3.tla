------------------------------- MODULE MCSlc3 -------------------------------
(***************************************************************************)
(* Programs for a RAM of eight words, made with the functions of           *)
(* SLC3_2.sv.  Each ends in a branch to its start.                         *)
(***************************************************************************)
EXTENDS Slc3, Sequences

Low(x, size) == x % size  \* the low bits of an integer

opADD(dr, a, b)  == 4096 + dr * 512 + a * 64 + b
opADDi(dr, a, i) == 4096 + dr * 512 + a * 64 + 32 + Low(i, 32)
opAND(dr, a, b)  == 20480 + dr * 512 + a * 64 + b
opANDi(dr, a, i) == 20480 + dr * 512 + a * 64 + 32 + Low(i, 32)
opNOT(dr, a)     == 36864 + dr * 512 + a * 64 + 1
opBR(cond, off)  == cond * 512 + Low(off, 512)
opJMP(base)      == 49152 + base * 64
opJSR(off)       == 16384 + 2048 + Low(off, 2048)
opLDR(dr, b, o)  == 24576 + dr * 512 + b * 64 + Low(o, 64)
opSTR(sr, b, o)  == 28672 + sr * 512 + b * 64 + Low(o, 64)
opPSE(led)       == 53248 + led
unused           == 40960

Arithmetic == <<opADDi(1, 0, -1), opANDi(2, 1, 9), opADD(3, 2, 1), opNOT(4, 3),
                opAND(5, 4, 2), opBR(7, -6)>>
\* The switches to the display and to a word of the RAM, which is read back
\* under another address.
Memory     == <<opLDR(1, 0, -1), opSTR(1, 0, -1), opSTR(1, 0, 6), opLDR(2, 0, -2),
                opBR(2, -5), opBR(7, -6)>>
Calls      == <<opJSR(2), opPSE(1), opJSR(-3), opADDi(6, 7, 0), opJMP(7), unused>>
\* A branch on every condition falls through while no condition code is set.
Pauses     == <<opBR(7, 1), opANDi(0, 0, 0), opPSE(2049), opPSE(3074), unused,
                opBR(7, -6)>>
\* An instruction is read from the switches, at the last address.
FromIo     == <<opADDi(1, 0, -1), opJMP(1), unused, unused, unused, unused>>

Stored(p) == [w \in 0..5 |-> p[w + 1]]

MCPrograms == {Stored(p) : p \in {Arithmetic, Memory, Calls, Pauses, FromIo}}
\* A call over more than 511 words.
MCFarCall == {Stored(<<opJSR(600), unused, unused, unused, unused, unused>>)}
=============================================================================
