-------------------------------- MODULE Lc3 ---------------------------------
(***************************************************************************)
(* The instruction set the SLC-3 promises: what the comments of SLC3_2.sv  *)
(* say of the instructions its functions make.  A step is an instruction,  *)
(* or a reset.                                                             *)
(***************************************************************************)
EXTENDS Lc3Words

CONSTANTS
  RamWords,   \* words of the RAM; higher address bits are dropped
  FillWords,  \* words of the program loaded at a reset
  Switches    \* settings of the switches

VARIABLES
  program,    \* what a reset loads
  arch        \* the registers, condition codes, memory and display

IoAddress == 65535  \* inSW and outHEX

Arch == [PC : Word, reg : [Regs -> Word], nzp : CondCodes,
         mem : [0..RamWords - 1 -> Word], hex : Word]

\* Two's complement: a field of an instruction as a word.
Sext(x, size) == IF 2 * x >= size THEN x + (65536 - size) ELSE x

Loaded(mem) == [w \in 0..RamWords - 1 |-> IF w < FillWords THEN program[w] ELSE mem[w]]

\* After a reset.
Boot(mem) == [PC |-> 0, reg |-> [r \in Regs |-> 0], nzp |-> "none",
              mem |-> Loaded(mem), hex |-> 0]

-----------------------------------------------------------------------------
Read(a, addr, sw) == IF addr = IoAddress THEN sw ELSE a.mem[addr % RamWords]

\* The display is beside the RAM, whose last word is written with it.
Write(a, addr, w) ==
  [a EXCEPT !.mem[addr % RamWords] = w, !.hex = IF addr = IoAddress THEN w ELSE @]

SetReg(a, r, w) == [a EXCEPT !.reg[r] = w, !.nzp = CodeOf(w)]

Operand2(a, ir) == IF Bit5(ir) = 1 THEN Sext(ir % 32, 32) ELSE a.reg[SR2(ir)]

Base6(a, ir) == Plus(a.reg[SR1(ir)], Sext(ir % 64, 64))

\* What instruction ir makes of a, whose PC has been incremented.
Exec(a, ir, sw) ==
  CASE Opcode(ir) = 1  -> SetReg(a, DR(ir), Plus(a.reg[SR1(ir)], Operand2(a, ir)))
    [] Opcode(ir) = 5  -> SetReg(a, DR(ir), And16(a.reg[SR1(ir)], Operand2(a, ir)))
    [] Opcode(ir) = 9  -> SetReg(a, DR(ir), Not16(a.reg[SR1(ir)]))
    [] Opcode(ir) = 0  -> IF Taken(a.nzp, ir)
                          THEN [a EXCEPT !.PC = Plus(@, Sext(ir % 512, 512))] ELSE a
    [] Opcode(ir) = 12 -> [a EXCEPT !.PC = a.reg[SR1(ir)]]
    [] Opcode(ir) = 4  -> [a EXCEPT !.reg[7] = a.PC, !.PC = Plus(@, Sext(ir % 2048, 2048))]
    [] Opcode(ir) = 6  -> SetReg(a, DR(ir), Read(a, Base6(a, ir), sw))
    [] Opcode(ir) = 7  -> Write(a, Base6(a, ir), a.reg[DR(ir)])
    [] OTHER           -> a  \* opPSE, and opcodes that are not used

\* The instructions SLC3_2.sv makes: opJMP leaves the low six bits 0 and opJSR
\* sets bit 11.  An offset of opJSR beyond nine bits and a sign is left out too.
WellFormed(ir) ==
  /\ Opcode(ir) = 12 => ir % 64 = 0
  /\ Opcode(ir) = 4 => Bit11(ir) = 1 /\ Bit10(ir) = Bit9(ir)

\* sw and sw2 are the switches when the instruction and when its data is read.
Step(sw, sw2) ==
  LET ir == Read(arch, arch.PC, sw)
      a  == [arch EXCEPT !.PC = Plus(@, 1)]
  IN  IF WellFormed(ir) THEN arch' = Exec(a, ir, sw2)
      ELSE \* PC and one register may become anything.
           \E r \in Regs : /\ arch' \in Arch
                           /\ arch' = [arch EXCEPT !.PC = arch'.PC, !.reg[r] = arch'.reg[r]]

\* A reset finds the store of the instruction that runs done, or not.
Reset ==
  \/ arch' = Boot(arch.mem)
  \/ \E sw \in Switches :
       arch' = Boot(Exec([arch EXCEPT !.PC = Plus(@, 1)], Read(arch, arch.PC, sw), 0).mem)

Init == arch = Boot([w \in 0..RamWords - 1 |-> 0])

Next ==
  /\ \/ Reset
     \/ \E sw, sw2 \in Switches : Step(sw, sw2)
  /\ UNCHANGED program

Spec == Init /\ [][Next]_<<program, arch>>
=============================================================================
