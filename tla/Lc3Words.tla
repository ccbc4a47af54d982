------------------------------ MODULE Lc3Words ------------------------------
(***************************************************************************)
(* The 16-bit words of the SLC-3 and the fields of an instruction.         *)
(***************************************************************************)
EXTENDS Integers

Word == 0..65535
Regs == 0..7

\* Condition codes: the one of n, z and p that is set, none after a reset.
CondCodes == {"none", "n", "z", "p"}

\* An instruction's operation, its registers, and single bits of it.
Opcode(ir) == ir \div 4096
DR(ir)     == (ir \div 512) % 8
SR1(ir)    == (ir \div 64) % 8
SR2(ir)    == ir % 8
Bit4(ir)   == (ir \div 16) % 2
Bit5(ir)   == (ir \div 32) % 2
Bit8(ir)   == (ir \div 256) % 2
Bit9(ir)   == (ir \div 512) % 2
Bit10(ir)  == (ir \div 1024) % 2
Bit11(ir)  == (ir \div 2048) % 2

Plus(a, b) == (a + b) % 65536
Not16(a)   == 65535 - a

\* Bitwise AND, of halves that double in width.
And2(a, b)  == 2 * ((a \div 2) * (b \div 2)) + (a % 2) * (b % 2)
And4(a, b)  == 4 * And2(a \div 4, b \div 4) + And2(a % 4, b % 4)
And8(a, b)  == 16 * And4(a \div 16, b \div 16) + And4(a % 16, b % 16)
And16(a, b) == 256 * And8(a \div 256, b \div 256) + And8(a % 256, b % 256)

\* branch_logic: the condition codes of a word.
CodeOf(w) == IF w >= 32768 THEN "n" ELSE IF w = 0 THEN "z" ELSE "p"

\* instr_branch: the codes an instruction branches on, against those that hold.
Taken(cc, ir) ==
  \/ cc = "n" /\ Bit11(ir) = 1
  \/ cc = "z" /\ Bit10(ir) = 1
  \/ cc = "p" /\ Bit9(ir) = 1
=============================================================================
