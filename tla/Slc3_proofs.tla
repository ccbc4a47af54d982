---------------------------- MODULE Slc3_proofs -----------------------------
(***************************************************************************)
(* Proofs about the SLC-3, for every program, every size of the RAM and    *)
(* every setting of the switches: the registers keep their widths, and the *)
(* states of ISDU implement the instruction set Lc3.                       *)
(***************************************************************************)
EXTENDS Slc3, TLAPS

-----------------------------------------------------------------------------
(* Words.                                                                  *)

\* The numbers of sixteen bits, with bounds apart from the set.
LEMMA InWord ==
  ASSUME NEW n \in Int, 0 <= n, n < 65536
  PROVE  n \in Word
<1> DEFINE top == 65535
<1>1. Word = 0..top
  BY DEF Word
<1>2. top \in Int /\ n <= top
  OBVIOUS
<1> HIDE DEF top
<1> QED
  BY <1>1, <1>2

\* And back.
LEMMA WordBounds ==
  ASSUME NEW w \in Word
  PROVE  w \in Int /\ 0 <= w /\ w < 65536
BY DEF Word

\* The fields of an instruction.
LEMMA Fields ==
  ASSUME NEW ir \in Word
  PROVE  DR(ir) \in Regs /\ SR1(ir) \in Regs /\ SR2(ir) \in Regs
<1>1. ir \in Int /\ 0 <= ir /\ ir < 65536
  BY WordBounds
<1>2. DR(ir) \in Int /\ 0 <= DR(ir) /\ DR(ir) < 8
  BY <1>1 DEF DR
<1>3. SR1(ir) \in Int /\ 0 <= SR1(ir) /\ SR1(ir) < 8
  BY <1>1 DEF SR1
<1>4. SR2(ir) \in Int /\ 0 <= SR2(ir) /\ SR2(ir) < 8
  BY <1>1 DEF SR2
<1> QED
  BY <1>2, <1>3, <1>4 DEF Regs

\* A sum is cut to a word.
LEMMA PlusWord ==
  ASSUME NEW a \in Int, NEW b \in Int
  PROVE  Plus(a, b) \in Word
<1>1. (a + b) % 65536 \in Int /\ 0 <= (a + b) % 65536 /\ (a + b) % 65536 < 65536
  OBVIOUS
<1> QED
  BY <1>1, InWord DEF Plus

\* The complement of a word is one.
LEMMA NotWord ==
  ASSUME NEW w \in Word
  PROVE  Not16(w) \in Word
<1>1. w \in Int /\ 0 <= w /\ w < 65536
  BY WordBounds
<1>2. 65535 - w \in Int /\ 0 <= 65535 - w /\ 65535 - w < 65536
  BY <1>1
<1> QED
  BY <1>2, InWord DEF Not16

\* The AND of halves is no wider than they are, from one bit up.
LEMMA And2Width ==
  ASSUME NEW a \in 0..3, NEW b \in 0..3
  PROVE  And2(a, b) \in 0..3
<1>1. a \div 2 \in 0..1 /\ b \div 2 \in 0..1 /\ a % 2 \in 0..1 /\ b % 2 \in 0..1
  OBVIOUS
<1>2. \A x, y \in 0..1 : x * y \in 0..1
  OBVIOUS
<1>3. (a \div 2) * (b \div 2) \in 0..1 /\ (a % 2) * (b % 2) \in 0..1
  BY <1>1, <1>2
<1> QED
  BY <1>3 DEF And2

\* Of four bits.
LEMMA And4Width ==
  ASSUME NEW a \in 0..15, NEW b \in 0..15
  PROVE  And4(a, b) \in 0..15
<1>1. a \div 4 \in 0..3 /\ b \div 4 \in 0..3 /\ a % 4 \in 0..3 /\ b % 4 \in 0..3
  OBVIOUS
<1>2. And2(a \div 4, b \div 4) \in 0..3 /\ And2(a % 4, b % 4) \in 0..3
  BY <1>1, And2Width
<1> QED
  BY <1>2 DEF And4

\* Of eight.
LEMMA And8Width ==
  ASSUME NEW a \in 0..255, NEW b \in 0..255
  PROVE  And8(a, b) \in 0..255
<1>1. a \div 16 \in 0..15 /\ b \div 16 \in 0..15 /\ a % 16 \in 0..15 /\ b % 16 \in 0..15
  OBVIOUS
<1>2. And4(a \div 16, b \div 16) \in 0..15 /\ And4(a % 16, b % 16) \in 0..15
  BY <1>1, And4Width
<1> QED
  BY <1>2 DEF And8

\* The AND of two words is one.
LEMMA AndWord ==
  ASSUME NEW a \in Word, NEW b \in Word
  PROVE  And16(a, b) \in Word
<1>1. a \in Int /\ 0 <= a /\ a < 65536 /\ b \in Int /\ 0 <= b /\ b < 65536
  BY WordBounds
<1>2. a \div 256 \in 0..255 /\ b \div 256 \in 0..255 /\ a % 256 \in 0..255 /\ b % 256 \in 0..255
  BY <1>1
<1>3. And8(a \div 256, b \div 256) \in 0..255 /\ And8(a % 256, b % 256) \in 0..255
  BY <1>2, And8Width
<1>4. PICK h \in 0..255, l \in 0..255 :
        h = And8(a \div 256, b \div 256) /\ l = And8(a % 256, b % 256)
  BY <1>3
<1>5. 256 * h + l \in Int /\ 0 <= 256 * h + l /\ 256 * h + l < 65536
  OBVIOUS
<1>6. And16(a, b) = 256 * h + l
  BY <1>4 DEF And16
<1> QED
  BY <1>5, <1>6, InWord

-----------------------------------------------------------------------------
(* The instruction set, beside the circuit.                                *)

\* Its copies of the operators on words are those of the circuit.
LEMMA SameWords ==
  /\ LC3!Word = Word /\ LC3!Regs = Regs /\ LC3!CondCodes = CondCodes
  /\ \A a, b : LC3!Plus(a, b) = Plus(a, b)
  /\ \A a : LC3!Not16(a) = Not16(a)
  /\ \A w : LC3!CodeOf(w) = CodeOf(w)
  /\ \A c, ir : LC3!Taken(c, ir) = Taken(c, ir)
  /\ \A ir : /\ LC3!Opcode(ir) = Opcode(ir) /\ LC3!DR(ir) = DR(ir)
             /\ LC3!SR1(ir) = SR1(ir) /\ LC3!SR2(ir) = SR2(ir)
             /\ LC3!Bit5(ir) = Bit5(ir) /\ LC3!Bit9(ir) = Bit9(ir)
             /\ LC3!Bit10(ir) = Bit10(ir) /\ LC3!Bit11(ir) = Bit11(ir)
<1>1. LC3!Word = Word /\ LC3!Regs = Regs /\ LC3!CondCodes = CondCodes
  BY DEF LC3!Word, Word, LC3!Regs, Regs, LC3!CondCodes, CondCodes
<1>2. /\ \A a, b : LC3!Plus(a, b) = Plus(a, b)
      /\ \A a : LC3!Not16(a) = Not16(a)
      /\ \A w : LC3!CodeOf(w) = CodeOf(w)
  BY DEF LC3!Plus, Plus, LC3!Not16, Not16, LC3!CodeOf, CodeOf
<1>3. \A ir : /\ LC3!Opcode(ir) = Opcode(ir) /\ LC3!DR(ir) = DR(ir)
              /\ LC3!SR1(ir) = SR1(ir) /\ LC3!SR2(ir) = SR2(ir)
  BY DEF LC3!Opcode, Opcode, LC3!DR, DR, LC3!SR1, SR1, LC3!SR2, SR2
<1>4. \A ir : /\ LC3!Bit5(ir) = Bit5(ir) /\ LC3!Bit9(ir) = Bit9(ir)
              /\ LC3!Bit10(ir) = Bit10(ir) /\ LC3!Bit11(ir) = Bit11(ir)
  BY DEF LC3!Bit5, Bit5, LC3!Bit9, Bit9, LC3!Bit10, Bit10, LC3!Bit11, Bit11
<1>5. \A c, ir : LC3!Taken(c, ir) = Taken(c, ir)
  BY <1>4 DEF LC3!Taken, Taken
<1> QED
  BY <1>1, <1>2, <1>3, <1>4, <1>5, Zenon

\* The AND too.
LEMMA SameAnd == \A a, b : LC3!And16(a, b) = And16(a, b)
<1>1. \A a, b : LC3!And2(a, b) = And2(a, b)
  BY DEF LC3!And2, And2
<1>2. \A a, b : LC3!And4(a, b) = And4(a, b)
  BY <1>1 DEF LC3!And4, And4
<1>3. \A a, b : LC3!And8(a, b) = And8(a, b)
  BY <1>2 DEF LC3!And8, And8
<1> QED
  BY <1>3 DEF LC3!And16, And16

\* The circuit's extension of a field is that of two's complement, when the bit it
\* takes for the sign is the field's highest.
LEMMA Extension ==
  ASSUME NEW ir \in Word
  PROVE  /\ SEXT(ir % 32, 32, Bit4(ir)) = LC3!Sext(ir % 32, 32)
         /\ SEXT(ir % 64, 64, Bit5(ir)) = LC3!Sext(ir % 64, 64)
         /\ SEXT(ir % 512, 512, Bit8(ir)) = LC3!Sext(ir % 512, 512)
         /\ Bit10(ir) = Bit9(ir) =>
              SEXT(ir % 2048, 2048, Bit9(ir)) = LC3!Sext(ir % 2048, 2048)
<1>1. ir \in Int /\ 0 <= ir
  BY WordBounds
<1>2. /\ 2 * (ir % 32) >= 32 <=> Bit4(ir) = 1
      /\ Bit4(ir) \in 0..1 /\ ir % 32 \in Int
  BY <1>1 DEF Bit4
<1>3. /\ 2 * (ir % 64) >= 64 <=> Bit5(ir) = 1
      /\ Bit5(ir) \in 0..1 /\ ir % 64 \in Int
  BY <1>1 DEF Bit5
<1>4. /\ 2 * (ir % 512) >= 512 <=> Bit8(ir) = 1
      /\ Bit8(ir) \in 0..1 /\ ir % 512 \in Int
  BY <1>1 DEF Bit8
<1>5. /\ 2 * (ir % 2048) >= 2048 <=> Bit10(ir) = 1
      /\ Bit10(ir) \in 0..1 /\ ir % 2048 \in Int
  BY <1>1 DEF Bit10
<1>6. \A x, n \in Int, b \in 0..1 : (2 * x >= n <=> b = 1) => SEXT(x, n, b) = LC3!Sext(x, n)
  BY DEF SEXT, LC3!Sext
<1> QED
  BY <1>2, <1>3, <1>4, <1>5, <1>6
-----------------------------------------------------------------------------
(* The instruction set on a machine given by its five parts.               *)

\* A machine of the instruction set.
M(p, r, c, m, h) == [PC |-> p, reg |-> r, nzp |-> c, mem |-> m, hex |-> h]

\* The address of a load or a store, and the second operand of the ALU.
Address(r, ir) == Plus(r[SR1(ir)], SEXT(ir % 64, 64, Bit5(ir)))
Operand(r, ir) == IF Bit5(ir) = 1 THEN SEXT(ir % 32, 32, Bit4(ir)) ELSE r[SR2(ir)]

\* Changes of one part.
Upd(f, x, v) == [f EXCEPT ![x] = v]
WithPC(a, p) == [a EXCEPT !.PC = p]

\* The parts, and the machine with another PC.
LEMMA OneField ==
  ASSUME NEW p, NEW r, NEW c, NEW m, NEW h, NEW x
  PROVE  /\ M(p, r, c, m, h).PC = p /\ M(p, r, c, m, h).reg = r /\ M(p, r, c, m, h).nzp = c
         /\ M(p, r, c, m, h).mem = m /\ M(p, r, c, m, h).hex = h
         /\ WithPC(M(p, r, c, m, h), x) = M(x, r, c, m, h)
BY DEF M, WithPC

\* The changes of two parts that instructions make.
RegAndCode(a, d, w, v) == [a EXCEPT !.reg[d] = w, !.nzp = v]
RegAndPC(a, d, w, v)   == [a EXCEPT !.reg[d] = w, !.PC = v]
PCAndReg(a, v, d, w)   == [a EXCEPT !.PC = v, !.reg[d] = w]
MemAndHex(a, d, w, v)  == [a EXCEPT !.mem[d] = w, !.hex = v]

\* What they make of the parts.
LEMMA TwoFields ==
  ASSUME NEW p, NEW r, NEW c, NEW m, NEW h, NEW d, NEW w, NEW v
  PROVE  /\ RegAndCode(M(p, r, c, m, h), d, w, v) = M(p, Upd(r, d, w), v, m, h)
         /\ RegAndPC(M(p, r, c, m, h), d, w, v) = M(v, Upd(r, d, w), c, m, h)
         /\ PCAndReg(M(p, r, c, m, h), v, d, w) = M(v, Upd(r, d, w), c, m, h)
         /\ MemAndHex(M(p, r, c, m, h), d, w, v) = M(p, r, c, Upd(m, d, w), v)
<1>1. PICK a : a = M(p, r, c, m, h)
  OBVIOUS
<1>2. a.reg = r /\ a.mem = m
  BY <1>1 DEF M
<1>3. PICK x : x = Upd(r, d, w) /\ x = [r EXCEPT ![d] = w]
  BY DEF Upd
<1>4. PICK y : y = Upd(m, d, w) /\ y = [m EXCEPT ![d] = w]
  BY DEF Upd
<1>5. PICK b : b = [a EXCEPT !.reg = x]
  OBVIOUS
<1>6. b = M(p, x, c, m, h)
  BY <1>1, <1>5 DEF M
<1>7. [b EXCEPT !.nzp = v] = M(p, x, v, m, h) /\ [b EXCEPT !.PC = v] = M(v, x, c, m, h)
  BY <1>6 DEF M
<1>8. RegAndCode(a, d, w, v) = [b EXCEPT !.nzp = v]
  BY <1>2, <1>3, <1>5 DEF RegAndCode
<1>9. RegAndPC(a, d, w, v) = [b EXCEPT !.PC = v]
  BY <1>2, <1>3, <1>5 DEF RegAndPC
<1>10. PCAndReg(a, v, d, w) = [b EXCEPT !.PC = v]
  BY <1>2, <1>3, <1>5 DEF PCAndReg
<1>11. PICK e : e = [a EXCEPT !.mem = y]
  OBVIOUS
<1>12. e = M(p, r, c, y, h)
  BY <1>1, <1>11 DEF M
<1>13. [e EXCEPT !.hex = v] = M(p, r, c, y, v)
  BY <1>12 DEF M
<1>14. MemAndHex(a, d, w, v) = [e EXCEPT !.hex = v]
  BY <1>2, <1>4, <1>11 DEF MemAndHex
<1> QED
  BY <1>1, <1>3, <1>4, <1>7, <1>8, <1>9, <1>10, <1>13, <1>14

\* A register is written with its condition codes, a word with the display.
LEMMA Writes ==
  ASSUME NEW p, NEW r, NEW c, NEW m, NEW h, NEW d, NEW w
  PROVE  /\ LC3!SetReg(M(p, r, c, m, h), d, w) = M(p, Upd(r, d, w), CodeOf(w), m, h)
         /\ LC3!Write(M(p, r, c, m, h), d, w)
              = M(p, r, c, Upd(m, d % RamWords, w), IF d = 65535 THEN w ELSE h)
<1>1. PICK a : a = M(p, r, c, m, h)
  OBVIOUS
<1>2. a.hex = h
  BY <1>1, OneField
<1>3. LC3!SetReg(a, d, w) = RegAndCode(a, d, w, CodeOf(w))
  BY SameWords DEF LC3!SetReg, RegAndCode
<1>4. LC3!Write(a, d, w) = MemAndHex(a, d % RamWords, w, IF d = 65535 THEN w ELSE h)
  BY <1>2 DEF LC3!Write, LC3!IoAddress, MemAndHex
<1> QED
  BY <1>1, <1>3, <1>4, TwoFields

\* The operands of the instruction set are those of the circuit.
LEMMA Operands ==
  ASSUME NEW p, NEW r, NEW c, NEW m, NEW h, NEW ir \in Word
  PROVE  /\ LC3!Operand2(M(p, r, c, m, h), ir) = Operand(r, ir)
         /\ LC3!Base6(M(p, r, c, m, h), ir) = Address(r, ir)
<1>1. M(p, r, c, m, h).reg = r
  BY DEF M
<1>2. LC3!Operand2(M(p, r, c, m, h), ir)
        = IF Bit5(ir) = 1 THEN LC3!Sext(ir % 32, 32) ELSE r[SR2(ir)]
  BY <1>1, SameWords DEF LC3!Operand2
<1>3. LC3!Base6(M(p, r, c, m, h), ir) = Plus(r[SR1(ir)], LC3!Sext(ir % 64, 64))
  BY <1>1, SameWords DEF LC3!Base6
<1> QED
  BY <1>2, <1>3, Extension DEF Operand, Address

\* What every kind of instruction makes of a machine.
Executed(p, r, c, m, h, ir, sw) ==
  LET a    == M(p, r, c, m, h)
      next == LC3!Exec(a, ir, sw)
      load(w) == M(p, Upd(r, DR(ir), w), CodeOf(w), m, h)
      addr == Address(r, ir)
  IN  /\ Opcode(ir) = 1 => next = load(Plus(r[SR1(ir)], Operand(r, ir)))
      /\ Opcode(ir) = 5 => next = load(And16(r[SR1(ir)], Operand(r, ir)))
      /\ Opcode(ir) = 9 => next = load(Not16(r[SR1(ir)]))
      /\ Opcode(ir) = 0 =>
           next = IF Taken(c, ir)
                  THEN M(Plus(p, SEXT(ir % 512, 512, Bit8(ir))), r, c, m, h) ELSE a
      /\ Opcode(ir) = 12 => next = M(r[SR1(ir)], r, c, m, h)
      /\ Opcode(ir) = 4 =>
           next = M(Plus(p, LC3!Sext(ir % 2048, 2048)), Upd(r, 7, p), c, m, h)
      /\ Opcode(ir) = 6 =>
           next = load(IF addr = 65535 THEN sw ELSE m[addr % RamWords])
      /\ Opcode(ir) = 7 =>
           next = M(p, r, c, Upd(m, addr % RamWords, r[DR(ir)]),
                    IF addr = 65535 THEN r[DR(ir)] ELSE h)
      /\ Opcode(ir) \notin {0, 1, 4, 5, 6, 7, 9, 12} => next = a

\* And it does.
LEMMA Executes ==
  ASSUME NEW p, NEW r, NEW c, NEW m, NEW h, NEW ir \in Word, NEW sw
  PROVE  Executed(p, r, c, m, h, ir, sw)
<1> DEFINE a    == M(p, r, c, m, h)
           next == LC3!Exec(a, ir, sw)
           addr == Address(r, ir)
<1>1. a.PC = p /\ a.reg = r /\ a.nzp = c /\ a.mem = m /\ a.hex = h
  BY DEF M
<1>2. LC3!Operand2(a, ir) = Operand(r, ir) /\ LC3!Base6(a, ir) = addr
  BY Operands
<1>3. \A d, w : LC3!SetReg(a, d, w) = M(p, Upd(r, d, w), CodeOf(w), m, h)
  BY Writes
<1>4. \A q1 : WithPC(a, q1) = M(q1, r, c, m, h)
  BY OneField
<1>5. \A q1, q2 : RegAndPC(a, 7, q1, q2) = M(q2, Upd(r, 7, q1), c, m, h)
  BY TwoFields
<1>6. LC3!Read(a, addr, sw) = IF addr = 65535 THEN sw ELSE m[addr % RamWords]
  BY <1>1 DEF LC3!Read, LC3!IoAddress
<1>7. \A w : LC3!Write(a, addr, w) = M(p, r, c, Upd(m, addr % RamWords, w),
                                       IF addr = 65535 THEN w ELSE h)
  BY Writes
<1>8. next =
        CASE Opcode(ir) = 1 -> LC3!SetReg(a, DR(ir), Plus(a.reg[SR1(ir)], LC3!Operand2(a, ir)))
          [] Opcode(ir) = 5 -> LC3!SetReg(a, DR(ir), And16(a.reg[SR1(ir)], LC3!Operand2(a, ir)))
          [] Opcode(ir) = 9 -> LC3!SetReg(a, DR(ir), Not16(a.reg[SR1(ir)]))
          [] Opcode(ir) = 0 -> IF Taken(a.nzp, ir)
                               THEN WithPC(a, Plus(a.PC, LC3!Sext(ir % 512, 512))) ELSE a
          [] Opcode(ir) = 12 -> WithPC(a, a.reg[SR1(ir)])
          [] Opcode(ir) = 4 -> RegAndPC(a, 7, a.PC, Plus(a.PC, LC3!Sext(ir % 2048, 2048)))
          [] Opcode(ir) = 6 -> LC3!SetReg(a, DR(ir), LC3!Read(a, LC3!Base6(a, ir), sw))
          [] Opcode(ir) = 7 -> LC3!Write(a, LC3!Base6(a, ir), a.reg[DR(ir)])
          [] OTHER -> a
  <2> HIDE DEF a
  <2> QED
    BY SameWords, SameAnd DEF LC3!Exec, RegAndPC, WithPC
<1>9. LC3!Sext(ir % 512, 512) = SEXT(ir % 512, 512, Bit8(ir))
  BY Extension
<1> HIDE DEF a, next, addr
<1>10. /\ Opcode(ir) = 1 => next = M(p, Upd(r, DR(ir), Plus(r[SR1(ir)], Operand(r, ir))),
                                     CodeOf(Plus(r[SR1(ir)], Operand(r, ir))), m, h)
       /\ Opcode(ir) = 5 => next = M(p, Upd(r, DR(ir), And16(r[SR1(ir)], Operand(r, ir))),
                                     CodeOf(And16(r[SR1(ir)], Operand(r, ir))), m, h)
       /\ Opcode(ir) = 9 => next = M(p, Upd(r, DR(ir), Not16(r[SR1(ir)])),
                                     CodeOf(Not16(r[SR1(ir)])), m, h)
  <2>1. /\ Opcode(ir) = 1 => next = LC3!SetReg(a, DR(ir), Plus(r[SR1(ir)], Operand(r, ir)))
        /\ Opcode(ir) = 5 => next = LC3!SetReg(a, DR(ir), And16(r[SR1(ir)], Operand(r, ir)))
        /\ Opcode(ir) = 9 => next = LC3!SetReg(a, DR(ir), Not16(r[SR1(ir)]))
    BY <1>1, <1>2, <1>8
  <2> QED
    BY <1>3, <2>1
<1>11. /\ Opcode(ir) = 0 =>
            next = IF Taken(c, ir)
                   THEN M(Plus(p, SEXT(ir % 512, 512, Bit8(ir))), r, c, m, h) ELSE a
       /\ Opcode(ir) = 12 => next = M(r[SR1(ir)], r, c, m, h)
       /\ Opcode(ir) = 4 =>
            next = M(Plus(p, LC3!Sext(ir % 2048, 2048)), Upd(r, 7, p), c, m, h)
  <2>1. /\ Opcode(ir) = 0 => next = IF Taken(c, ir)
                                    THEN WithPC(a, Plus(p, LC3!Sext(ir % 512, 512))) ELSE a
        /\ Opcode(ir) = 12 => next = WithPC(a, r[SR1(ir)])
        /\ Opcode(ir) = 4 => next = RegAndPC(a, 7, p, Plus(p, LC3!Sext(ir % 2048, 2048)))
    BY <1>1, <1>8
  <2> QED
    BY <1>4, <1>5, <1>9, <2>1
<1>12. Opcode(ir) = 6 =>
         next = M(p, Upd(r, DR(ir), IF addr = 65535 THEN sw ELSE m[addr % RamWords]),
                  CodeOf(IF addr = 65535 THEN sw ELSE m[addr % RamWords]), m, h)
  <2> DEFINE w == IF addr = 65535 THEN sw ELSE m[addr % RamWords]
  <2>1. LC3!Read(a, LC3!Base6(a, ir), sw) = w
    BY <1>2, <1>6
  <2> HIDE DEF w
  <2>2. Opcode(ir) = 6 => next = LC3!SetReg(a, DR(ir), w)
    BY <1>8, <2>1
  <2>3. Opcode(ir) = 6 => next = M(p, Upd(r, DR(ir), w), CodeOf(w), m, h)
    BY <1>3, <2>2
  <2> QED
    BY <2>3 DEF w
<1>13. Opcode(ir) = 7 =>
         next = M(p, r, c, Upd(m, addr % RamWords, r[DR(ir)]),
                  IF addr = 65535 THEN r[DR(ir)] ELSE h)
  <2>1. Opcode(ir) = 7 => next = LC3!Write(a, addr, r[DR(ir)])
    BY <1>1, <1>2, <1>8
  <2> QED
    BY <1>7, <2>1
<1>14. Opcode(ir) \notin {0, 1, 4, 5, 6, 7, 9, 12} => next = a
  BY <1>8
<1> QED
  BY <1>10, <1>11, <1>12, <1>13, <1>14 DEF a, next, addr, Executed
-----------------------------------------------------------------------------
(* The inductive invariant.                                                *)

Machine == M(PC, reg, nzp, mem, hex_data)

\* While the RAM is filled, and until Run starts the processor.
Startup ==
  /\ Reset => fill = "mem_write" /\ address = 0
  /\ fill = "mem_write" =>
       /\ address < FillWords
       /\ run => cont
       /\ Reset \/ State = "Halted"
       /\ \A w \in 0..address - 1 : mem[w] = program[w]
       /\ arch = LC3!Boot(mem)
  /\ Reset \/ State = "Halted" => PC = 0 /\ reg = [r \in Regs |-> 0] /\ nzp = "none"
  /\ ~Reset /\ State = "Halted" => hex_data = 0
  /\ State = "Halted" /\ fill # "mem_write" => arch = Machine

\* The word of an instruction or a datum, as the instruction set reads it.
Fetched(ir) == \E sw \in Switches : ir = LC3!Read(arch, arch.PC, sw)
Loads(w) == \E sw \in Switches :
              w = IF Address(reg, IR) = 65535 THEN sw ELSE mem[Address(reg, IR) % RamWords]

Fetching  == {"S_33_1", "S_33_1p2", "S_33_1p3", "S_33_2"}
Executing == States \ (Fetching \cup {"Halted", "S_18", "S_35"})
Loading   == {"MYREAD1", "MYREAD2", "MYREAD3_ANDLOAD"}
Storing   == {"Storing2", "Storing3"}

\* What the registers hold that the machine does not.
Registers ==
  /\ PC = Plus(arch.PC, 1) /\ nzp = arch.nzp
  /\ State = "JSR2" =>
       reg = [arch.reg EXCEPT ![IF Bit11(IR) = 1 THEN 7 ELSE DR(IR)] = PC]
  /\ State # "JSR2" => reg = arch.reg

Memory ==
  /\ State \in Storing => /\ mem = [arch.mem EXCEPT ![MAR % RamWords] = MDR]
                          /\ hex_data = IF MAR = 65535 THEN MDR ELSE arch.hex
  /\ State \notin Storing => mem = arch.mem /\ hex_data = arch.hex

\* What the RAM answers, two clocks late.
Answers ==
  /\ State \in {"S_33_1p2", "S_33_1p3", "S_33_2", "MYREAD2", "MYREAD3_ANDLOAD"} =>
       latch = mem[MAR % RamWords]
  /\ State \in {"S_33_1p3", "S_33_2", "MYREAD3_ANDLOAD"} => q = mem[MAR % RamWords]

\* The instruction of a state.
Decoded ==
  /\ State = "S_01" => Opcode(IR) = 1
  /\ State = "S_02" => Opcode(IR) = 5
  /\ State = "S_03" => Opcode(IR) = 9
  /\ State \in {"S_04", "BRANCHOUT"} => Opcode(IR) = 0
  /\ State = "S_05" => Opcode(IR) = 12
  /\ State \in {"S_06", "JSR2"} => Opcode(IR) = 4
  /\ State \in Loading \cup {"S_07", "MDR_DR"} => Opcode(IR) = 6
  /\ State \in Storing \cup {"S_08", "STR2", "STR3"} => Opcode(IR) = 7
  /\ State \in {"Pause_IR1", "Pause_IR2"} => Opcode(IR) = 13

\* What has been decided, addressed and read.
Data ==
  /\ State \in Fetching => MAR = arch.PC
  /\ State = "S_35" => Fetched(MDR)
  /\ State \in Executing => Fetched(IR)
  /\ State = "S_04" => BEN = Taken(nzp, IR)
  /\ State = "BRANCHOUT" => Taken(nzp, IR)
  /\ State \in Loading \cup Storing \cup {"STR2", "STR3"} => MAR = Address(reg, IR)
  /\ State = "MDR_DR" => Loads(MDR)
  /\ State \in Storing \cup {"STR3"} => MDR = reg[DR(IR)]

Progress ==
  /\ State = "S_18" => arch = Machine
  /\ State # "S_18" => Registers /\ Memory /\ Answers /\ Decoded /\ Data

IInv == TypeOK /\ Startup /\ (~Reset /\ State # "Halted" => Progress)
-----------------------------------------------------------------------------
(* Type correctness.                                                       *)

\* Extended fields are words.
LEMMA ExtensionWord ==
  ASSUME NEW ir \in Word
  PROVE  /\ SEXT(ir % 32, 32, Bit4(ir)) \in Word
         /\ SEXT(ir % 64, 64, Bit5(ir)) \in Int
         /\ SEXT(ir % 512, 512, Bit8(ir)) \in Int
         /\ SEXT(ir % 2048, 2048, Bit9(ir)) \in Int
<1>1. ir \in Int /\ 0 <= ir
  BY WordBounds
<1>2. Bit4(ir) \in 0..1 /\ Bit5(ir) \in 0..1 /\ Bit8(ir) \in 0..1 /\ Bit9(ir) \in 0..1
  BY <1>1 DEF Bit4, Bit5, Bit8, Bit9
<1>3. ir % 32 \in 0..31 /\ ir % 64 \in Int /\ ir % 512 \in Int /\ ir % 2048 \in Int
  BY <1>1
<1>4. PICK f \in 0..31, b \in 0..1 : f = ir % 32 /\ b = Bit4(ir)
  BY <1>2, <1>3
<1>5. f + b * (65536 - 32) \in Int /\ 0 <= f + b * (65536 - 32) /\ f + b * (65536 - 32) < 65536
  OBVIOUS
<1>6. SEXT(ir % 32, 32, Bit4(ir)) \in Word
  BY <1>4, <1>5, InWord DEF SEXT
<1>7. SEXT(ir % 64, 64, Bit5(ir)) \in Int
  BY <1>2, <1>3 DEF SEXT
<1>8. SEXT(ir % 512, 512, Bit8(ir)) \in Int
  BY <1>2, <1>3 DEF SEXT
<1>9. SEXT(ir % 2048, 2048, Bit9(ir)) \in Int
  BY <1>2, <1>3 DEF SEXT
<1> QED
  BY <1>6, <1>7, <1>8, <1>9

\* The bounds of the RAM.
LEMMA Sizes == RamWords \in Int /\ 1 <= RamWords /\ FillWords \in Int /\ 1 <= FillWords /\ FillWords <= RamWords
BY SizeAssumption

\* A word addresses the RAM by its low bits.
LEMMA InRam ==
  ASSUME NEW w \in Word
  PROVE  w % RamWords \in 0..RamWords - 1
BY WordBounds, Sizes

\* What the datapath computes from words.
LEMMA Computed ==
  ASSUME NEW r \in [Regs -> Word], NEW ir \in Word
  PROVE  /\ Address(r, ir) \in Word /\ Operand(r, ir) \in Word
         /\ r[SR1(ir)] \in Word /\ r[DR(ir)] \in Word
         /\ Plus(r[SR1(ir)], Operand(r, ir)) \in Word
         /\ And16(r[SR1(ir)], Operand(r, ir)) \in Word
         /\ Not16(r[SR1(ir)]) \in Word
<1>1. r[SR1(ir)] \in Word /\ r[SR2(ir)] \in Word /\ r[DR(ir)] \in Word
  BY Fields
<1>2. Operand(r, ir) \in Word
  BY <1>1, ExtensionWord DEF Operand
<1>3. Address(r, ir) \in Word
  <2>1. r[SR1(ir)] \in Int /\ SEXT(ir % 64, 64, Bit5(ir)) \in Int
    BY <1>1, ExtensionWord, WordBounds
  <2> QED
    BY <2>1, PlusWord DEF Address
<1>4. Plus(r[SR1(ir)], Operand(r, ir)) \in Word
  <2>1. r[SR1(ir)] \in Int /\ Operand(r, ir) \in Int
    BY <1>1, <1>2, WordBounds
  <2> QED
    BY <2>1, PlusWord
<1>5. And16(r[SR1(ir)], Operand(r, ir)) \in Word
  BY <1>1, <1>2, AndWord
<1>6. Not16(r[SR1(ir)]) \in Word
  BY <1>1, NotWord
<1> QED
  BY <1>1, <1>2, <1>3, <1>4, <1>5, <1>6

\* The parts of the circuit, named as the instruction set names them.
LEMMA Datapath ==
  /\ addrblock_out = Address(reg, IR)
  /\ State = "S_01" => ALU_Out = Plus(reg[SR1(IR)], Operand(reg, IR))
  /\ State = "S_02" => ALU_Out = And16(reg[SR1(IR)], Operand(reg, IR))
  /\ State = "S_03" => ALU_Out = Not16(reg[SR1(IR)])
BY DEF addrblock_out, ext6_16, Address, ALU_Out, ALUB_in, ext5_16, Operand

\* The codes of a word.
LEMMA Codes == \A w : CodeOf(w) \in CondCodes
BY DEF CodeOf, CondCodes

\* What the CPU reads is a word.
LEMMA ReadWord ==
  ASSUME TypeOK, NEW sw \in Switches
  PROVE  Data_to_CPU(sw) \in Word
<1>1. sw \in Int /\ 0 <= sw /\ sw < 65536
  BY SwitchAssumption
<1>2. sw \in Word
  BY <1>1, InWord
<1> QED
  BY <1>2 DEF Data_to_CPU, TypeOK

\* The machine is a machine of the instruction set.
LEMMA MachineOK ==
  ASSUME NEW p \in Word, NEW r \in [Regs -> Word], NEW c \in CondCodes,
         NEW m \in [0..RamWords - 1 -> Word], NEW h \in Word
  PROVE  M(p, r, c, m, h) \in LC3!Arch
BY SameWords DEF M, LC3!Arch

\* And so is a machine after a reset.
LEMMA BootOK ==
  ASSUME program \in Programs, NEW m \in [0..RamWords - 1 -> Word]
  PROVE  /\ LC3!Loaded(m) \in [0..RamWords - 1 -> Word]
         /\ LC3!Boot(m) = M(0, [r \in Regs |-> 0], "none", LC3!Loaded(m), 0)
         /\ LC3!Boot(m) \in LC3!Arch
<1>1. program \in [0..FillWords - 1 -> Word]
  BY ProgramAssumption
<1>2. LC3!Loaded(m) \in [0..RamWords - 1 -> Word]
  BY <1>1, Sizes DEF LC3!Loaded
<1>3. LC3!Boot(m) = M(0, [r \in Regs |-> 0], "none", LC3!Loaded(m), 0)
  BY SameWords DEF LC3!Boot, M
<1>4. 0 \in Word
  BY InWord
<1>5. [r \in Regs |-> 0] \in [Regs -> Word] /\ "none" \in CondCodes
  BY <1>4 DEF CondCodes
<1> QED
  BY <1>2, <1>3, <1>4, <1>5, MachineOK
\* Every edge keeps the widths of what is beside ISDU.
LEMMA EdgeTyped ==
  ASSUME TypeOK, Startup, Edge
  PROVE  /\ IR' \in Word /\ MAR' \in Word /\ hex_data' \in Word
         /\ mem' \in [0..RamWords - 1 -> Word] /\ latch' \in Word /\ q' \in Word
         /\ fill' \in {"idle", "mem_write", "done"} /\ address' \in 0..FillWords
         /\ run' \in BOOLEAN /\ cont' \in BOOLEAN /\ program' \in Programs
         /\ spent' \in BOOLEAN
<1> USE DEF TypeOK
<1>1. IR' \in Word
  BY DEF Edge, LoadedIR
<1>2. MAR' \in Word
  <2>1. addrblock_out \in Word
    BY Datapath, Computed
  <2> QED
    BY <2>1 DEF Edge, LoadedMAR
<1>3. hex_data' \in Word
  <2>1. 0 \in Word
    BY InWord
  <2> QED
    BY <2>1 DEF Edge, HexEdge
<1>4. fill = "mem_write" => program[address] \in Word /\ mem[address] \in Word
  <2>1. fill = "mem_write" => address \in 0..FillWords - 1 /\ address \in 0..RamWords - 1
    BY Sizes DEF Startup
  <2>2. program \in [0..FillWords - 1 -> Word]
    BY ProgramAssumption
  <2> QED
    BY <2>1, <2>2
<1>5. MAR % RamWords \in 0..RamWords - 1 /\ mem[MAR % RamWords] \in Word
  BY InRam
<1>6. mem' \in [0..RamWords - 1 -> Word]
  <2>1. \A x, w : w \in Word => [mem EXCEPT ![x] = w] \in [0..RamWords - 1 -> Word]
    OBVIOUS
  <2>2. \/ fill = "mem_write" /\ mem' = [mem EXCEPT ![address] = program[address]]
        \/ mem' = [mem EXCEPT ![MAR % RamWords] = MDR]
        \/ mem' = mem
    BY DEF Edge, RamEdge
  <2> QED
    BY <1>4, <2>1, <2>2
<1>7. latch' \in Word /\ q' \in Word
  BY <1>4, <1>5 DEF Edge, RamEdge
<1>8. fill' \in {"idle", "mem_write", "done"} /\ address' \in 0..FillWords
  <2>1. fill = "mem_write" => address < FillWords
    BY DEF Startup
  <2> QED
    BY <2>1, Sizes DEF Edge, FillEdge
<1>9. run' \in BOOLEAN /\ cont' \in BOOLEAN /\ program' \in Programs /\ spent' \in BOOLEAN
  BY DEF Edge, Buttons
<1> QED
  BY <1>1, <1>2, <1>3, <1>6, <1>7, <1>8, <1>9

\* ISDU keeps the widths of the registers.
LEMMA IsduTyped ==
  ASSUME TypeOK, ISDU
  PROVE  /\ State' \in States
         /\ PC' \in Word /\ MDR' \in Word /\ reg' \in [Regs -> Word]
         /\ nzp' \in CondCodes /\ BEN' \in BOOLEAN
<1> USE DEF TypeOK
<1>0. PC \in Int
  BY WordBounds
<1>1. CASE WaitRun
  BY <1>1 DEF WaitRun, Go, registers, States
<1>2. CASE FetchAddress
  BY <1>0, <1>2, PlusWord DEF FetchAddress, Go, States, Mem_OE
<1>3. CASE WaitForRam
  BY <1>3 DEF WaitForRam, Go, registers, States, Mem_OE
<1>4. CASE LoadMDR
  BY <1>4, ReadWord DEF LoadMDR, Go, States
<1>5. CASE LoadInstruction
  BY <1>5 DEF LoadInstruction, Go, registers, States
<1>6. CASE Decode
  <2>1. Taken(nzp, IR) \in BOOLEAN
    BY DEF Taken
  <2>2. State' \in States
    BY <1>6 DEF Decode, Go, States
  <2> QED
    BY <1>6, <2>1, <2>2 DEF Decode
<1>7. CASE Alu
  <2>1. ALU_Out \in Word
    BY <1>7, Datapath, Computed DEF Alu
  <2> QED
    BY <1>7, <2>1, Codes DEF Alu, Go, States
<1>8. CASE Branch
  <2>1. ext9_16 \in Int
    BY ExtensionWord DEF ext9_16
  <2>2. Plus(PC, ext9_16) \in Word
    BY <1>0, <2>1, PlusWord
  <2> QED
    BY <1>8, <2>2 DEF Branch, Go, States
<1>9. CASE Jmp
  <2>1. addrblock_out \in Word
    BY Datapath, Computed
  <2> QED
    BY <1>9, <2>1 DEF Jmp, Go, States
<1>10. CASE JsrLink
  BY <1>10 DEF JsrLink, Go, States
<1>11. CASE JsrJump
  <2>1. ext11_16 \in Int
    BY ExtensionWord DEF ext11_16
  <2>2. Plus(PC, ext11_16) \in Word
    BY <1>0, <2>1, PlusWord
  <2> QED
    BY <1>11, <2>2 DEF JsrJump, Go, States
<1>12. CASE DataAddress
  BY <1>12 DEF DataAddress, Go, registers, States, Mem_OE
<1>13. CASE LoadRegister
  BY <1>13, Codes DEF LoadRegister, Go, States
<1>14. CASE StoreData
  <2>1. reg[DR(IR)] \in Word
    BY Computed
  <2> QED
    BY <1>14, <2>1 DEF StoreData, Go, States, Mem_WE
<1>15. CASE Store
  BY <1>15 DEF Store, Go, registers, States, Mem_WE
<1>16. CASE Pause
  BY <1>16 DEF Pause, Go, registers, States
<1> QED
  BY <1>1, <1>2, <1>3, <1>4, <1>5, <1>6, <1>7, <1>8, <1>9, <1>10, <1>11, <1>12, <1>13,
     <1>14, <1>15, <1>16 DEF ISDU

\* The machine at the end of an instruction is one of the instruction set.
LEMMA ArchTyped ==
  ASSUME TypeOK, Startup, Clock
  PROVE  arch' \in LC3!Arch
<1>1. Edge /\ ISDU
  BY DEF Clock
<1>2. M(PC', reg', nzp', mem', hex_data') \in LC3!Arch
  BY <1>1, EdgeTyped, IsduTyped, MachineOK
<1>3. arch' = arch \/ arch' = M(PC', reg', nzp', mem', hex_data')
  BY DEF Clock, M
<1> QED
  BY <1>2, <1>3 DEF TypeOK

\* No step takes a register out of its width.
LEMMA NextTyped ==
  ASSUME TypeOK, Startup, Next
  PROVE  TypeOK'
<1>1. CASE Clock
  <2>1. Edge /\ ISDU
    BY <1>1 DEF Clock
  <2> QED
    BY <1>1, <2>1, EdgeTyped, IsduTyped, ArchTyped DEF TypeOK
<1>2. CASE ClockInReset
  <2>1. Edge /\ State' = "Halted" /\ UNCHANGED registers /\ UNCHANGED arch
    BY <1>2 DEF ClockInReset, Go
  <2>2. "Halted" \in States
    BY DEF States
  <2> QED
    BY <2>1, <2>2, EdgeTyped DEF TypeOK, registers
<1>3. CASE PressBoth
  <2>1. 0 \in Word
    BY InWord
  <2>2. LC3!Boot(mem) \in LC3!Arch
    BY BootOK DEF TypeOK
  <2>3. 0 \in 0..FillWords /\ "none" \in CondCodes
    BY Sizes DEF CondCodes
  <2> QED
    BY <1>3, <2>1, <2>2, <2>3 DEF PressBoth, TypeOK, ram
<1> QED
  BY <1>1, <1>2, <1>3 DEF Next
-----------------------------------------------------------------------------
(* Start-up.                                                               *)

\* What a reset loads: the same over a memory that is being filled, itself when
\* loaded again, and the memory once it is filled.
LEMMA Reloaded ==
  ASSUME NEW m \in [0..RamWords - 1 -> Word]
  PROVE  /\ \A x \in 0..FillWords - 1 : \A v : LC3!Loaded([m EXCEPT ![x] = v]) = LC3!Loaded(m)
         /\ LC3!Loaded(LC3!Loaded(m)) = LC3!Loaded(m)
         /\ (\A w \in 0..FillWords - 1 : m[w] = program[w]) => LC3!Loaded(m) = m
<1>1. \A x \in 0..FillWords - 1 : \A v : LC3!Loaded([m EXCEPT ![x] = v]) = LC3!Loaded(m)
  BY Sizes DEF LC3!Loaded
<1>2. LC3!Loaded(LC3!Loaded(m)) = LC3!Loaded(m)
  BY Sizes DEF LC3!Loaded
<1>3. (\A w \in 0..FillWords - 1 : m[w] = program[w]) => LC3!Loaded(m) = m
  BY Sizes DEF LC3!Loaded
<1> QED
  BY <1>1, <1>2, <1>3

\* One edge of the filling.
LEMMA FillStep ==
  ASSUME TypeOK, Startup, Edge, fill = "mem_write"
  PROVE  /\ mem' = [mem EXCEPT ![address] = program[address]]
         /\ \A w \in 0..address : mem'[w] = program[w]
         /\ LC3!Loaded(mem') = LC3!Loaded(mem)
<1>1. mem' = [mem EXCEPT ![address] = program[address]]
  BY DEF Edge, RamEdge
<1>2. address \in 0..FillWords - 1 /\ \A w \in 0..address - 1 : mem[w] = program[w]
  BY Sizes DEF TypeOK, Startup
<1>3. mem \in [0..RamWords - 1 -> Word]
  BY DEF TypeOK
<1>4. \A w \in 0..address : mem'[w] = program[w]
  BY <1>1, <1>2, <1>3, Sizes
<1>5. LC3!Loaded(mem') = LC3!Loaded(mem)
  BY <1>1, <1>2, <1>3, Reloaded
<1> QED
  BY <1>1, <1>4, <1>5

\* The state ISDU leaves Halted for, and that it never returns to it.
LEMMA FromHalted ==
  ASSUME ISDU
  PROVE  /\ State = "Halted" => UNCHANGED registers /\ State' = IF run THEN "S_18" ELSE "Halted"
         /\ State # "Halted" => State' # "Halted"
<1>1. State = "Halted" => WaitRun
  BY DEF ISDU, FetchAddress, WaitForRam, LoadMDR, LoadInstruction, Decode, Alu, Branch, Jmp,
         JsrLink, JsrJump, DataAddress, LoadRegister, StoreData, Store, Pause
<1>2. State # "Halted" => State' # "Halted"
  BY DEF ISDU, WaitRun, FetchAddress, WaitForRam, LoadMDR, LoadInstruction, Decode, Alu, Branch, Jmp,
         JsrLink, JsrJump, DataAddress, LoadRegister, StoreData, Store, Pause, Go
<1> QED
  BY <1>1, <1>2 DEF WaitRun, Go

\* The start-up is kept by every step.
LEMMA StartupNext ==
  ASSUME TypeOK, Startup, Next
  PROVE  Startup'
<1>1. CASE ClockInReset
  <2>1. /\ Reset /\ Edge /\ State' = "Halted" /\ UNCHANGED registers /\ arch' = arch
        /\ UNCHANGED program
    BY <1>1 DEF ClockInReset, Go, Edge
  <2>2. fill = "mem_write" /\ address = 0 /\ arch = LC3!Boot(mem)
    BY <2>1 DEF Startup
  <2>3. fill' = "mem_write" /\ address' = 0
    BY <2>1, <2>2 DEF Edge, FillEdge
  <2>4. run' => cont'
    BY <2>1, <2>3 DEF Edge, Buttons
  <2>5. LC3!Boot(mem)' = arch'
    <3>1. LC3!Loaded(mem') = LC3!Loaded(mem)
      BY <2>1, <2>2, FillStep
    <3>2. LC3!Loaded(mem)' = LC3!Loaded(mem)
      BY <2>1, <3>1 DEF LC3!Loaded
    <3> QED
      BY <2>1, <2>2, <3>2 DEF LC3!Boot
  <2>6. PC' = 0 /\ reg' = [r \in Regs |-> 0] /\ nzp' = "none"
    BY <2>1 DEF Startup, registers
  <2>7. hex_data' = 0
    BY <2>1 DEF Edge, HexEdge
  <2> QED
    BY <2>1, <2>3, <2>4, <2>5, <2>6, <2>7, Sizes DEF Startup
<1>2. CASE Clock
  <2>1. ~Reset /\ ISDU /\ Edge /\ UNCHANGED program
    BY <1>2 DEF Clock, Edge
  <2>2. ~Reset'
    BY <2>1 DEF Edge, Buttons, Reset
  <2>3. CASE State # "Halted"
    <3>1. fill # "mem_write" /\ State' # "Halted"
      BY <2>1, <2>3, FromHalted DEF Startup
    <3>2. fill' # "mem_write"
      BY <2>1, <3>1 DEF Edge, FillEdge
    <3> QED
      BY <2>2, <3>1, <3>2 DEF Startup
  <2>4. CASE State = "Halted" /\ fill = "mem_write"
    <3>1. ~run /\ address < FillWords /\ arch = LC3!Boot(mem) /\ hex_data = 0
          /\ PC = 0 /\ reg = [r \in Regs |-> 0] /\ nzp = "none"
      BY <2>1, <2>4 DEF Startup, Reset
    <3>2. State' = "Halted" /\ UNCHANGED registers
      BY <2>1, <2>4, <3>1, FromHalted
    <3>3. arch' = arch
      BY <1>2, <3>2 DEF Clock
    <3>4. hex_data' = 0
      BY <2>1, <2>4, <3>1 DEF Edge, HexEdge, Mem_WE
    <3>5. /\ address' = address + 1
          /\ fill' = IF address = FillWords - 1 THEN "done" ELSE "mem_write"
      BY <2>1, <2>4 DEF Edge, FillEdge
    <3>6. \A w \in 0..address : mem'[w] = program[w]
      BY <2>1, <2>4, FillStep
    <3>7. LC3!Loaded(mem') = LC3!Loaded(mem)
      BY <2>1, <2>4, FillStep
    <3>8. LC3!Loaded(mem)' = LC3!Loaded(mem)
      BY <2>1, <3>7 DEF LC3!Loaded
    <3>9. LC3!Boot(mem)' = arch'
      BY <3>1, <3>3, <3>8 DEF LC3!Boot
    <3>10. fill' = "mem_write" => (run' => cont')
      BY <2>1 DEF Edge, Buttons
    <3>11. CASE address = FillWords - 1
      <4>1. mem' \in [0..RamWords - 1 -> Word] /\ program' \in Programs
        BY <2>1, EdgeTyped
      <4>2. LC3!Loaded(mem') = mem'
        BY <3>6, <3>11, <4>1, Reloaded
      <4>3. arch' = M(0, [r \in Regs |-> 0], "none", mem', 0)
        BY <3>1, <3>3, <3>7, <4>2, BootOK DEF TypeOK
      <4>4. arch' = Machine'
        BY <3>1, <3>2, <3>4, <4>3 DEF Machine, registers
      <4> QED
        BY <2>2, <3>1, <3>2, <3>4, <3>5, <3>11, <4>4 DEF Startup, registers
    <3>12. CASE address # FillWords - 1
      <4>1. address' < FillWords /\ \A w \in 0..address' - 1 : mem'[w] = program'[w]
        BY <2>1, <3>1, <3>5, <3>6, <3>12, Sizes DEF TypeOK
      <4>2. fill' = "mem_write"
        BY <3>5, <3>12
      <4> QED
        BY <2>2, <3>1, <3>2, <3>4, <3>9, <3>10, <4>1, <4>2 DEF Startup, registers
    <3> QED
      BY <3>11, <3>12
  <2>5. CASE State = "Halted" /\ fill # "mem_write"
    <3>1. arch = Machine /\ hex_data = 0 /\ PC = 0 /\ reg = [r \in Regs |-> 0] /\ nzp = "none"
      BY <2>1, <2>5 DEF Startup
    <3>2. UNCHANGED registers /\ mem' = mem /\ hex_data' = hex_data /\ fill' # "mem_write"
      BY <2>1, <2>5, FromHalted DEF Edge, RamEdge, HexEdge, FillEdge, Mem_WE
    <3>3. State' = "Halted" => arch' = arch
      BY <1>2 DEF Clock
    <3> QED
      BY <2>2, <3>1, <3>2, <3>3 DEF Startup, Machine, registers
  <2> QED
    BY <2>3, <2>4, <2>5
<1>3. CASE PressBoth
  <2>1. /\ fill' = "mem_write" /\ address' = 0 /\ mem' = mem /\ program' = program
        /\ run' = TRUE /\ cont' = TRUE /\ arch' = LC3!Boot(mem)
        /\ PC' = 0 /\ reg' = [r \in Regs |-> 0] /\ nzp' = "none"
    BY <1>3 DEF PressBoth, ram
  <2>2. LC3!Boot(mem)' = arch'
    BY <2>1 DEF LC3!Boot, LC3!Loaded
  <2>3. Reset'
    BY <2>1 DEF Reset
  <2> QED
    BY <2>1, <2>2, <2>3, Sizes DEF Startup
<1> QED
  BY <1>1, <1>2, <1>3 DEF Next
-----------------------------------------------------------------------------
(* From one instruction to the next.                                       *)

\* What an edge does beside ISDU once the processor runs.
LEMMA RunningEdge ==
  ASSUME TypeOK, Startup, Edge, ~Reset, State # "Halted"
  PROVE  /\ IR' = (IF State = "S_35" THEN MDR ELSE IR)
         /\ State \in {"S_18", "BRANCHOUT"} => MAR' = PC
         /\ State \in {"S_07", "S_08"} => MAR' = Address(reg, IR)
         /\ State \notin {"S_18", "BRANCHOUT", "S_07", "S_08"} => MAR' = MAR
         /\ State \in Mem_WE =>
              /\ mem' = [mem EXCEPT ![MAR % RamWords] = MDR]
              /\ hex_data' = IF MAR = 65535 THEN MDR ELSE hex_data
         /\ State \notin Mem_WE => mem' = mem /\ hex_data' = hex_data
         /\ State \in Mem_OE => latch' = mem[MAR % RamWords]
         /\ q' = latch
         /\ program' = program
<1>1. fill # "mem_write"
  BY DEF Startup
<1>2. IR' = (IF State = "S_35" THEN MDR ELSE IR)
  BY DEF Edge, LoadedIR
<1>3. /\ State \in {"S_18", "BRANCHOUT"} => MAR' = PC
      /\ State \in {"S_07", "S_08"} => MAR' = Address(reg, IR)
      /\ State \notin {"S_18", "BRANCHOUT", "S_07", "S_08"} => MAR' = MAR
  BY Datapath DEF Edge, LoadedMAR
<1>4. /\ State \in Mem_WE => mem' = [mem EXCEPT ![MAR % RamWords] = MDR]
      /\ State \notin Mem_WE => mem' = mem
      /\ State \in Mem_OE => latch' = mem[MAR % RamWords]
      /\ q' = latch
  BY <1>1 DEF Edge, RamEdge
<1>5. /\ State \in Mem_WE => hex_data' = IF MAR = 65535 THEN MDR ELSE hex_data
      /\ State \notin Mem_WE => hex_data' = hex_data
  BY DEF Edge, HexEdge
<1>6. program' = program
  BY DEF Edge
<1> QED
  BY <1>2, <1>3, <1>4, <1>5, <1>6

\* What the states of an instruction hold is kept up to its end.
LEMMA ProgressNext ==
  ASSUME TypeOK, Startup, Progress, Clock, State # "Halted", State' # "S_18"
  PROVE  Progress'
<1>1. ~Reset /\ ISDU /\ Edge /\ arch' = arch
  BY DEF Clock
<1>2. /\ IR' = (IF State = "S_35" THEN MDR ELSE IR)
      /\ State \in {"S_18", "BRANCHOUT"} => MAR' = PC
      /\ State \in {"S_07", "S_08"} => MAR' = Address(reg, IR)
      /\ State \notin {"S_18", "BRANCHOUT", "S_07", "S_08"} => MAR' = MAR
  BY <1>1, RunningEdge
<1>3. /\ State \in Mem_WE =>
           /\ mem' = [mem EXCEPT ![MAR % RamWords] = MDR]
           /\ hex_data' = IF MAR = 65535 THEN MDR ELSE hex_data
      /\ State \notin Mem_WE => mem' = mem /\ hex_data' = hex_data
      /\ State \in Mem_OE => latch' = mem[MAR % RamWords]
      /\ q' = latch
  BY <1>1, RunningEdge
<1>4. State \in States
  BY DEF TypeOK
<1>5. State = "S_18" => /\ arch.PC = PC /\ arch.reg = reg /\ arch.nzp = nzp
                       /\ arch.mem = mem /\ arch.hex = hex_data
  BY OneField DEF Progress, Machine
<1>6. State # "S_18" => Registers /\ Memory /\ Answers /\ Decoded /\ Data
  BY DEF Progress
<1>7. CASE FetchAddress
  <2>1. Registers'
    BY <1>1, <1>5, <1>7 DEF FetchAddress, Go, Registers
  <2>2. Memory'
    BY <1>1, <1>3, <1>5, <1>7 DEF FetchAddress, Go, Memory, Storing, Mem_WE, Mem_OE
  <2>3. Answers'
    BY <1>7 DEF FetchAddress, Go, Answers, Memory, Storing, Mem_OE, Mem_WE
  <2>4. Decoded'
    BY <1>7 DEF FetchAddress, Go, Decoded, Loading, Storing
  <2>5. Data'
    BY <1>1, <1>2, <1>5, <1>7
    DEF FetchAddress, Go, Data, Registers, Memory, Storing, Loading, Fetching, Executing, Fetched,
        Loads
  <2> QED
    BY <2>1, <2>2, <2>3, <2>4, <2>5 DEF Progress
<1>8. CASE WaitForRam
  <2>1. Registers'
    BY <1>1, <1>6, <1>8 DEF WaitForRam, Go, registers, Registers
  <2>2. Memory'
    BY <1>1, <1>3, <1>6, <1>8 DEF WaitForRam, Go, registers, Memory, Storing, Mem_WE, Mem_OE
  <2>3. Answers'
    BY <1>2, <1>3, <1>6, <1>8
    DEF WaitForRam, Go, registers, Answers, Memory, Storing, Mem_OE, Mem_WE
  <2>4. Decoded'
    BY <1>2, <1>6, <1>8 DEF WaitForRam, Go, registers, Decoded, Loading, Storing
  <2>5. Data'
    BY <1>1, <1>2, <1>3, <1>4, <1>6, <1>8
    DEF WaitForRam, Go, registers, Data, Registers, Memory, Storing, Loading, Fetching, Executing,
        Fetched, Loads
  <2> QED
    BY <2>1, <2>2, <2>3, <2>4, <2>5 DEF Progress
<1>9. CASE LoadMDR
  <2>1. Registers'
    BY <1>1, <1>6, <1>9 DEF LoadMDR, Go, Registers
  <2>2. Memory'
    BY <1>1, <1>3, <1>6, <1>9 DEF LoadMDR, Go, Memory, Storing, Mem_WE, Mem_OE
  <2>3. Answers'
    BY <1>2, <1>3, <1>6, <1>9 DEF LoadMDR, Go, Answers, Memory, Storing, Mem_OE, Mem_WE
  <2>4. Decoded'
    BY <1>2, <1>6, <1>9 DEF LoadMDR, Go, Decoded, Loading, Storing
  <2>5. Data'
    <3>1. PICK sw \in Switches : MDR' = Data_to_CPU(sw)
      BY <1>9 DEF LoadMDR
    <3>2. /\ State = "S_33_2" => /\ MAR = arch.PC /\ q = mem[MAR % RamWords]
                                /\ mem = arch.mem
          /\ State = "MYREAD3_ANDLOAD" => /\ MAR = Address(reg, IR) /\ q = mem[MAR % RamWords]
                                         /\ Fetched(IR)
      BY <1>6 DEF Data, Answers, Memory, Fetching, Loading, Storing, Executing, States, Mem_OE
    <3>3. /\ State = "S_33_2" => Fetched(MDR)'
          /\ State = "MYREAD3_ANDLOAD" => Loads(MDR)' /\ Fetched(IR)'
      <4>1. UNCHANGED <<IR, reg, arch>> /\ mem' = mem
        BY <1>1, <1>2, <1>3, <1>9 DEF LoadMDR, Mem_WE
      <4>2. State = "S_33_2" => MDR' = LC3!Read(arch, arch.PC, sw)
        BY <3>1, <3>2 DEF Data_to_CPU, LC3!Read, LC3!IoAddress
      <4>3. State = "MYREAD3_ANDLOAD" =>
              MDR' = IF Address(reg, IR) = 65535 THEN sw ELSE mem[Address(reg, IR) % RamWords]
        BY <3>1, <3>2 DEF Data_to_CPU
      <4> QED
        BY <3>2, <4>1, <4>2, <4>3 DEF Fetched, Loads
    <3> QED
      BY <1>9, <3>3 DEF LoadMDR, Go, Data, Fetching, Loading, Storing, Executing
  <2> QED
    BY <2>1, <2>2, <2>3, <2>4, <2>5 DEF Progress
<1>10. CASE LoadInstruction
  <2>1. Registers'
    BY <1>1, <1>6, <1>10 DEF LoadInstruction, Go, registers, Registers
  <2>2. Memory'
    BY <1>1, <1>3, <1>6, <1>10 DEF LoadInstruction, Go, registers, Memory, Storing, Mem_WE, Mem_OE
  <2>3. Answers'
    BY <1>2, <1>3, <1>6, <1>10
    DEF LoadInstruction, Go, registers, Answers, Memory, Storing, Mem_OE, Mem_WE
  <2>4. Decoded'
    BY <1>2, <1>6, <1>10 DEF LoadInstruction, Go, registers, Decoded, Loading, Storing
  <2>5. Data'
    BY <1>1, <1>2, <1>3, <1>6, <1>10
    DEF LoadInstruction, Go, registers, Data, Registers, Memory, Storing, Loading, Fetching,
        Executing, Fetched, Loads
  <2> QED
    BY <2>1, <2>2, <2>3, <2>4, <2>5 DEF Progress
<1>11. CASE Decode
  <2>1. Registers'
    BY <1>1, <1>6, <1>11 DEF Decode, Go, Registers
  <2>2. Memory'
    BY <1>1, <1>3, <1>6, <1>11 DEF Decode, Go, Memory, Storing, Mem_WE, Mem_OE
  <2>3. Answers'
    BY <1>2, <1>3, <1>6, <1>11 DEF Decode, Go, Answers, Memory, Storing, Mem_OE, Mem_WE
  <2>4. Decoded'
    BY <1>2, <1>6, <1>11 DEF Decode, Go, Decoded, Loading, Storing
  <2>5. Data'
    BY <1>1, <1>2, <1>3, <1>4, <1>6, <1>11
    DEF Decode, Go, Data, Registers, Memory, Storing, Loading, Fetching, Executing, Fetched, Loads
  <2> QED
    BY <2>1, <2>2, <2>3, <2>4, <2>5 DEF Progress
<1>12. CASE Alu
  BY <1>12 DEF Alu, Go
<1>13. CASE Branch
  <2>1. Registers'
    BY <1>1, <1>6, <1>13 DEF Branch, Go, Registers
  <2>2. Memory'
    BY <1>1, <1>3, <1>6, <1>13 DEF Branch, Go, Memory, Storing, Mem_WE, Mem_OE
  <2>3. Answers'
    BY <1>2, <1>3, <1>6, <1>13 DEF Branch, Go, Answers, Memory, Storing, Mem_OE, Mem_WE
  <2>4. Decoded'
    BY <1>2, <1>6, <1>13 DEF Branch, Go, Decoded, Loading, Storing
  <2>5. Data'
    BY <1>1, <1>2, <1>3, <1>4, <1>6, <1>13
    DEF Branch, Go, Data, Registers, Memory, Storing, Loading, Fetching, Executing, Fetched, Loads
  <2> QED
    BY <2>1, <2>2, <2>3, <2>4, <2>5 DEF Progress
<1>14. CASE Jmp
  BY <1>14 DEF Jmp, Go
<1>15. CASE JsrLink
  <2>1. Registers'
    <3>1. PC = Plus(arch.PC, 1) /\ nzp = arch.nzp /\ reg = arch.reg
      BY <1>6, <1>15 DEF JsrLink, Registers
    <3>2. /\ UNCHANGED <<PC, IR, nzp, arch>> /\ State' = "JSR2"
          /\ reg' = [reg EXCEPT ![IF Bit11(IR) = 1 THEN 7 ELSE DR(IR)] = PC]
      BY <1>1, <1>2, <1>15 DEF JsrLink, Go
    <3> QED
      BY <3>1, <3>2 DEF Registers
  <2>2. Memory'
    BY <1>1, <1>3, <1>6, <1>15 DEF JsrLink, Go, Memory, Storing, Mem_WE, Mem_OE
  <2>3. Answers'
    BY <1>2, <1>3, <1>6, <1>15 DEF JsrLink, Go, Answers, Memory, Storing, Mem_OE, Mem_WE
  <2>4. Decoded'
    BY <1>2, <1>6, <1>15 DEF JsrLink, Go, Decoded, Loading, Storing
  <2>5. Data'
    BY <1>1, <1>2, <1>3, <1>4, <1>6, <1>15
    DEF JsrLink, Go, Data, Registers, Memory, Storing, Loading, Fetching, Executing, Fetched,
        Loads
  <2> QED
    BY <2>1, <2>2, <2>3, <2>4, <2>5 DEF Progress
<1>16. CASE JsrJump
  BY <1>16 DEF JsrJump, Go
<1>17. CASE DataAddress
  <2>1. Registers'
    BY <1>1, <1>6, <1>17 DEF DataAddress, Go, registers, Registers
  <2>2. Memory'
    BY <1>1, <1>3, <1>6, <1>17 DEF DataAddress, Go, registers, Memory, Storing, Mem_WE, Mem_OE
  <2>3. Answers'
    BY <1>2, <1>3, <1>6, <1>17
    DEF DataAddress, Go, registers, Answers, Memory, Storing, Mem_OE, Mem_WE
  <2>4. Decoded'
    BY <1>2, <1>6, <1>17 DEF DataAddress, Go, registers, Decoded, Loading, Storing
  <2>5. Data'
    BY <1>1, <1>2, <1>3, <1>4, <1>6, <1>17
    DEF DataAddress, Go, registers, Data, Registers, Memory, Storing, Loading, Fetching,
        Executing, Fetched, Loads
  <2> QED
    BY <2>1, <2>2, <2>3, <2>4, <2>5 DEF Progress
<1>18. CASE LoadRegister
  BY <1>18 DEF LoadRegister, Go
<1>19. CASE StoreData
  <2>1. Registers'
    BY <1>1, <1>6, <1>19 DEF StoreData, Go, Registers
  <2>2. Memory'
    BY <1>1, <1>3, <1>6, <1>19 DEF StoreData, Go, Memory, Storing, Mem_WE, Mem_OE
  <2>3. Answers'
    BY <1>2, <1>3, <1>6, <1>19 DEF StoreData, Go, Answers, Memory, Storing, Mem_OE, Mem_WE
  <2>4. Decoded'
    BY <1>2, <1>6, <1>19 DEF StoreData, Go, Decoded, Loading, Storing
  <2>5. Data'
    BY <1>1, <1>2, <1>3, <1>4, <1>6, <1>19
    DEF StoreData, Go, Data, Registers, Memory, Storing, Loading, Fetching, Executing, Fetched,
        Loads
  <2> QED
    BY <2>1, <2>2, <2>3, <2>4, <2>5 DEF Progress
<1>20. CASE Store
  <2>1. Registers'
    BY <1>1, <1>6, <1>20 DEF Store, Go, registers, Registers
  <2>2. Memory'
    BY <1>1, <1>2, <1>3, <1>6, <1>20 DEF Store, Go, registers, Memory, Storing, Mem_WE, Mem_OE
  <2>3. Answers'
    BY <1>2, <1>3, <1>6, <1>20 DEF Store, Go, registers, Answers, Memory, Storing, Mem_OE, Mem_WE
  <2>4. Decoded'
    BY <1>2, <1>6, <1>20 DEF Store, Go, registers, Decoded, Loading, Storing
  <2>5. Data'
    BY <1>1, <1>2, <1>3, <1>4, <1>6, <1>20
    DEF Store, Go, registers, Data, Registers, Memory, Storing, Loading, Fetching, Executing,
        Fetched, Loads
  <2> QED
    BY <2>1, <2>2, <2>3, <2>4, <2>5 DEF Progress
<1>21. CASE Pause
  <2>1. Registers'
    BY <1>1, <1>6, <1>21 DEF Pause, Go, registers, Registers
  <2>2. Memory'
    BY <1>1, <1>3, <1>6, <1>21 DEF Pause, Go, registers, Memory, Storing, Mem_WE, Mem_OE
  <2>3. Answers'
    BY <1>2, <1>3, <1>6, <1>21 DEF Pause, Go, registers, Answers, Memory, Storing, Mem_OE, Mem_WE
  <2>4. Decoded'
    BY <1>2, <1>6, <1>21 DEF Pause, Go, registers, Decoded, Loading, Storing
  <2>5. Data'
    BY <1>1, <1>2, <1>3, <1>4, <1>6, <1>21
    DEF Pause, Go, registers, Data, Registers, Memory, Storing, Loading, Fetching, Executing,
        Fetched, Loads
  <2> QED
    BY <2>1, <2>2, <2>3, <2>4, <2>5 DEF Progress
<1> QED
  BY <1>1, <1>7, <1>8, <1>9, <1>10, <1>11, <1>12, <1>13, <1>14, <1>15, <1>16, <1>17, <1>18,
     <1>19, <1>20, <1>21 DEF ISDU, WaitRun
-----------------------------------------------------------------------------
(* The refinement.                                                         *)

\* A machine of the instruction set is given by its parts.
LEMMA Parts ==
  ASSUME arch \in LC3!Arch
  PROVE  arch = M(arch.PC, arch.reg, arch.nzp, arch.mem, arch.hex)
BY DEF LC3!Arch, M

\* The machine whose PC has been incremented.
Advanced == M(PC, arch.reg, arch.nzp, arch.mem, arch.hex)

\* A step of the instruction set, by what the instruction makes of that machine.
LEMMA Steps ==
  ASSUME arch \in LC3!Arch, PC = Plus(arch.PC, 1),
         NEW sw \in Switches, NEW sw2 \in Switches, IR = LC3!Read(arch, arch.PC, sw)
  PROVE  /\ [arch EXCEPT !.PC = LC3!Plus(@, 1)] = Advanced
         /\ LC3!WellFormed(IR) /\ arch' = LC3!Exec(Advanced, IR, sw2) => LC3!Step(sw, sw2)
         /\ /\ ~LC3!WellFormed(IR) /\ arch' \in LC3!Arch
            /\ \E d \in Regs : arch' = PCAndReg(arch, arch'.PC, d, arch'.reg[d])
            => LC3!Step(sw, sw2)
<1>1. [arch EXCEPT !.PC = LC3!Plus(@, 1)] = WithPC(arch, PC)
  BY SameWords DEF WithPC
<1>2. WithPC(arch, PC) = Advanced
  BY Parts, OneField DEF Advanced
<1>3. LC3!WellFormed(IR) /\ arch' = LC3!Exec(Advanced, IR, sw2) => LC3!Step(sw, sw2)
  BY <1>1, <1>2 DEF LC3!Step
<1>4. /\ ~LC3!WellFormed(IR) /\ arch' \in LC3!Arch
      /\ \E d \in Regs : arch' = PCAndReg(arch, arch'.PC, d, arch'.reg[d])
      => LC3!Step(sw, sw2)
  BY SameWords DEF LC3!Step, PCAndReg
<1> QED
  BY <1>1, <1>2, <1>3, <1>4

\* An offset of six zeros.
LEMMA NoOffset ==
  ASSUME NEW ir \in Word, NEW r \in [Regs -> Word], ir % 64 = 0
  PROVE  Address(r, ir) = r[SR1(ir)]
<1>1. ir \in Int /\ 0 <= ir
  BY WordBounds
<1>2. Bit5(ir) = 0
  BY <1>1 DEF Bit5
<1>3. SEXT(ir % 64, 64, Bit5(ir)) = 0
  BY <1>2 DEF SEXT
<1>4. r[SR1(ir)] \in Int /\ 0 <= r[SR1(ir)] /\ r[SR1(ir)] < 65536
  BY Fields, WordBounds
<1>5. \A x \in Int : 0 <= x /\ x < 65536 => (x + 0) % 65536 = x
  OBVIOUS
<1> QED
  BY <1>3, <1>4, <1>5 DEF Address, Plus

\* The end of an instruction is a step of the instruction set.
LEMMA InstructionStep ==
  ASSUME TypeOK, Startup, Progress, Clock, State # "Halted", State' = "S_18"
  PROVE  \E sw, sw2 \in Switches : LC3!Step(sw, sw2)
<1>1. ~Reset /\ ISDU /\ Edge
  BY DEF Clock
<1>2. arch' = M(PC', reg', nzp', mem', hex_data')
  BY DEF Clock, M
<1>3. State \in Executing
  <2>1. State \in States
    BY DEF TypeOK
  <2>2. State \notin {"S_18", "S_33_1", "S_33_1p2", "S_33_1p3", "S_33_2", "S_35"}
    BY <1>1 DEF ISDU, WaitRun, FetchAddress, WaitForRam, LoadMDR, LoadInstruction, Decode, Alu, Branch,
                Jmp, JsrLink, JsrJump, DataAddress, LoadRegister, StoreData, Store, Pause, Go
  <2> QED
    BY <2>1, <2>2 DEF Executing, Fetching
<1>4. Registers /\ Memory /\ Decoded /\ Data /\ State # "S_18"
  BY <1>3 DEF Progress, Executing
<1>5. PICK sw \in Switches : IR = LC3!Read(arch, arch.PC, sw)
  BY <1>3, <1>4 DEF Data, Fetched
<1>6. arch \in LC3!Arch /\ PC = Plus(arch.PC, 1) /\ nzp = arch.nzp
  BY <1>4 DEF TypeOK, Registers
<1>7. /\ State # "JSR2" => reg = arch.reg
      /\ State \notin Storing => mem = arch.mem /\ hex_data = arch.hex
      /\ State \notin Mem_WE => mem' = mem /\ hex_data' = hex_data
  BY <1>1, <1>4, RunningEdge DEF Registers, Memory
<1>8. IR \in Word /\ PC \in Word /\ reg \in [Regs -> Word] /\ arch.reg \in [Regs -> Word]
  BY <1>6, SameWords DEF TypeOK, LC3!Arch
<1>9. Opcode(IR) \notin {4, 12} => LC3!WellFormed(IR)
  BY SameWords DEF LC3!WellFormed
\* It is enough to execute the instruction.
<1>10. \A sw2 \in Switches :
          LC3!WellFormed(IR) /\ arch' = LC3!Exec(Advanced, IR, sw2) => LC3!Step(sw, sw2)
  BY <1>5, <1>6, Steps
<1>11. Switches # {}
  BY SwitchAssumption
<1>12. \A sw2 : Executed(PC, arch.reg, arch.nzp, arch.mem, arch.hex, IR, sw2)
  BY <1>8, Executes
<1>13. CASE Decode
  <2>1. Opcode(IR) \notin {0, 1, 4, 5, 6, 7, 9, 12} /\ UNCHANGED <<PC, reg, nzp>> /\ State = "S_32"
    BY <1>13 DEF Decode, Go
  <2>2. \A sw2 : LC3!Exec(Advanced, IR, sw2) = Advanced
    BY <1>12, <2>1 DEF Advanced, Executed
  <2>3. arch' = Advanced
    BY <1>2, <1>6, <1>7, <2>1 DEF Advanced, Storing, Mem_WE
  <2> QED
    BY <1>5, <1>9, <1>10, <2>1, <2>2, <2>3
<1>14. CASE Alu
  <2> DEFINE x == ALU_Out
  <2>1. /\ State \in {"S_01", "S_02", "S_03"} /\ UNCHANGED PC
        /\ reg' = Upd(reg, DR(IR), x) /\ nzp' = CodeOf(x)
    BY <1>14 DEF Alu, Upd
  <2>2. /\ State = "S_01" => Opcode(IR) = 1 /\ x = Plus(reg[SR1(IR)], Operand(reg, IR))
        /\ State = "S_02" => Opcode(IR) = 5 /\ x = And16(reg[SR1(IR)], Operand(reg, IR))
        /\ State = "S_03" => Opcode(IR) = 9 /\ x = Not16(reg[SR1(IR)])
    BY <1>4, Datapath DEF Decoded
  <2> HIDE DEF x
  <2>3. reg = arch.reg /\ mem' = arch.mem /\ hex_data' = arch.hex
    BY <1>7, <2>1 DEF Storing, Mem_WE
  <2>4. \A sw2 : LC3!Exec(Advanced, IR, sw2) = M(PC, Upd(arch.reg, DR(IR), x), CodeOf(x), arch.mem, arch.hex)
    BY <1>12, <2>1, <2>2, <2>3 DEF Advanced, Executed
  <2>5. \A sw2 : arch' = LC3!Exec(Advanced, IR, sw2)
    BY <1>2, <2>1, <2>3, <2>4
  <2>6. Opcode(IR) \notin {4, 12}
    BY <2>1, <2>2
  <2> QED
    BY <1>5, <1>9, <1>10, <2>5, <2>6
<1>15. CASE Branch
  <2>1. /\ State \in {"S_04", "BRANCHOUT"} /\ UNCHANGED <<reg, nzp>>
        /\ PC' = IF Taken(nzp, IR) THEN Plus(PC, SEXT(IR % 512, 512, Bit8(IR))) ELSE PC
        /\ Opcode(IR) = 0
    BY <1>4, <1>15 DEF Branch, Go, Decoded, Data, ext9_16
  <2>2. reg = arch.reg /\ mem' = arch.mem /\ hex_data' = arch.hex
    BY <1>7, <2>1 DEF Storing, Mem_WE
  <2>3. \A sw2 : LC3!Exec(Advanced, IR, sw2)
                  = IF Taken(arch.nzp, IR)
                    THEN M(Plus(PC, SEXT(IR % 512, 512, Bit8(IR))), arch.reg, arch.nzp, arch.mem, arch.hex)
                    ELSE M(PC, arch.reg, arch.nzp, arch.mem, arch.hex)
    BY <1>12, <2>1 DEF Advanced, Executed
  <2>4. \A sw2 : arch' = LC3!Exec(Advanced, IR, sw2)
    BY <1>2, <1>6, <2>1, <2>2, <2>3
  <2> QED
    BY <1>5, <1>9, <1>10, <2>1, <2>4
<1>16. CASE Jmp
  <2>1. State = "S_05" /\ UNCHANGED <<reg, nzp>> /\ PC' = Address(reg, IR) /\ Opcode(IR) = 12
    BY <1>4, <1>16, Datapath DEF Jmp, Decoded
  <2>2. reg = arch.reg /\ mem' = arch.mem /\ hex_data' = arch.hex
    BY <1>7, <2>1 DEF Storing, Mem_WE
  <2>3. CASE LC3!WellFormed(IR)
    <3>1. IR % 64 = 0
      BY <2>1, <2>3, SameWords DEF LC3!WellFormed
    <3>2. PC' = arch.reg[SR1(IR)]
      BY <1>8, <2>1, <2>2, <3>1, NoOffset
    <3>3. \A sw2 : LC3!Exec(Advanced, IR, sw2)
                    = M(arch.reg[SR1(IR)], arch.reg, arch.nzp, arch.mem, arch.hex)
      BY <1>12, <2>1 DEF Advanced, Executed
    <3>4. \A sw2 : arch' = LC3!Exec(Advanced, IR, sw2)
      BY <1>2, <1>6, <2>1, <2>2, <3>2, <3>3
    <3> QED
      BY <1>5, <1>10, <2>3, <3>4
  <2>4. CASE ~LC3!WellFormed(IR)
    <3>1. arch' = M(PC', arch.reg, arch.nzp, arch.mem, arch.hex)
      BY <1>2, <1>6, <2>1, <2>2
    <3>2. arch'.PC = PC' /\ arch'.reg = arch.reg
      BY <3>1, OneField
    <3>3. 0 \in Regs /\ arch.reg = Upd(arch.reg, 0, arch.reg[0])
      BY <1>8 DEF Upd, Regs
    <3>4. PCAndReg(arch, PC', 0, arch.reg[0])
            = M(PC', Upd(arch.reg, 0, arch.reg[0]), arch.nzp, arch.mem, arch.hex)
      BY <1>6, Parts, TwoFields
    <3>5. arch' = PCAndReg(arch, arch'.PC, 0, arch'.reg[0])
      BY <3>1, <3>2, <3>3, <3>4
    <3> QED
      BY <1>5, <1>6, <2>4, <3>3, <3>5, ArchTyped, Steps
  <2> QED
    BY <2>3, <2>4
<1>17. CASE JsrJump
  <2> DEFINE link == IF Bit11(IR) = 1 THEN 7 ELSE DR(IR)
  <2>1. /\ State = "JSR2" /\ UNCHANGED <<reg, nzp>> /\ Opcode(IR) = 4
        /\ PC' = Plus(PC, SEXT(IR % 2048, 2048, Bit9(IR)))
        /\ reg = Upd(arch.reg, link, PC)
    BY <1>4, <1>17 DEF JsrJump, Decoded, ext11_16, Registers, Upd
  <2>2. mem' = arch.mem /\ hex_data' = arch.hex
    BY <1>7, <2>1 DEF Storing, Mem_WE
  <2>3. arch' = M(PC', Upd(arch.reg, link, PC), arch.nzp, arch.mem, arch.hex)
    BY <1>2, <1>6, <2>1, <2>2
  <2>4. CASE LC3!WellFormed(IR)
    <3>1. Bit11(IR) = 1 /\ Bit10(IR) = Bit9(IR)
      BY <2>1, <2>4, SameWords DEF LC3!WellFormed
    <3>2. PC' = Plus(PC, LC3!Sext(IR % 2048, 2048)) /\ link = 7
      BY <1>8, <2>1, <3>1, Extension
    <3>3. \A sw2 : LC3!Exec(Advanced, IR, sw2)
                    = M(Plus(PC, LC3!Sext(IR % 2048, 2048)), Upd(arch.reg, 7, PC), arch.nzp, arch.mem, arch.hex)
      BY <1>12, <2>1 DEF Advanced, Executed
    <3>4. \A sw2 : arch' = LC3!Exec(Advanced, IR, sw2)
      BY <2>3, <3>2, <3>3
    <3> QED
      BY <1>5, <1>10, <2>4, <3>4
  <2>5. CASE ~LC3!WellFormed(IR)
    <3>1. link \in Regs
      BY <1>8, Fields DEF Regs
    <3> HIDE DEF link
    <3>2. arch'.PC = PC' /\ arch'.reg = Upd(arch.reg, link, PC)
      BY <2>3, OneField
    <3>3. arch'.reg[link] = PC
      BY <1>8, <3>1, <3>2 DEF Upd
    <3>4. PCAndReg(arch, PC', link, PC) = M(PC', Upd(arch.reg, link, PC), arch.nzp, arch.mem, arch.hex)
      BY <1>6, Parts, TwoFields
    <3>5. arch' = PCAndReg(arch, arch'.PC, link, arch'.reg[link])
      BY <2>3, <3>2, <3>3, <3>4
    <3> QED
      BY <1>5, <1>6, <2>5, <3>1, <3>5, ArchTyped, Steps
  <2> QED
    BY <2>4, <2>5
<1>18. CASE LoadRegister
  <2>1. /\ State = "MDR_DR" /\ UNCHANGED PC /\ Opcode(IR) = 6
        /\ reg' = Upd(reg, DR(IR), MDR) /\ nzp' = CodeOf(MDR)
    BY <1>4, <1>18 DEF LoadRegister, Decoded, Upd
  <2>2. reg = arch.reg /\ mem' = arch.mem /\ hex_data' = arch.hex /\ mem = arch.mem
    BY <1>7, <2>1 DEF Storing, Mem_WE
  <2>3. PICK sw2 \in Switches :
          MDR = IF Address(reg, IR) = 65535 THEN sw2 ELSE mem[Address(reg, IR) % RamWords]
    BY <1>4, <2>1 DEF Data, Loads
  <2>4. LC3!Exec(Advanced, IR, sw2)
          = M(PC, Upd(arch.reg, DR(IR), MDR), CodeOf(MDR), arch.mem, arch.hex)
    BY <1>12, <2>1, <2>2, <2>3 DEF Advanced, Executed
  <2>5. arch' = LC3!Exec(Advanced, IR, sw2)
    BY <1>2, <2>1, <2>2, <2>4
  <2> QED
    BY <1>5, <1>9, <1>10, <2>1, <2>3, <2>5
<1>19. CASE Store
  <2>1. State = "Storing3" /\ UNCHANGED <<PC, reg, nzp>> /\ Opcode(IR) = 7
    BY <1>4, <1>19 DEF Store, Go, registers, Decoded, Storing
  <2>2. /\ reg = arch.reg /\ MAR = Address(reg, IR) /\ MDR = reg[DR(IR)]
        /\ mem = Upd(arch.mem, MAR % RamWords, MDR)
        /\ hex_data = IF MAR = 65535 THEN MDR ELSE arch.hex
    BY <1>4, <1>7, <2>1 DEF Memory, Data, Storing, Upd
  <2>3. /\ mem' = Upd(mem, MAR % RamWords, MDR)
        /\ hex_data' = IF MAR = 65535 THEN MDR ELSE hex_data
    BY <1>1, <2>1, RunningEdge DEF Mem_WE, Upd
  <2>4. mem' = mem /\ hex_data' = hex_data
    BY <2>2, <2>3 DEF Upd
  <2>5. \A sw2 : LC3!Exec(Advanced, IR, sw2)
                  = M(PC, arch.reg, arch.nzp, Upd(arch.mem, MAR % RamWords, MDR),
                      IF MAR = 65535 THEN MDR ELSE arch.hex)
    BY <1>12, <2>1, <2>2 DEF Advanced, Executed
  <2>6. \A sw2 : arch' = LC3!Exec(Advanced, IR, sw2)
    BY <1>2, <1>6, <2>1, <2>2, <2>4, <2>5
  <2> QED
    BY <1>5, <1>9, <1>10, <2>1, <2>6
<1>20. CASE Pause
  <2>1. Opcode(IR) = 13 /\ UNCHANGED <<PC, reg, nzp>> /\ State \in {"Pause_IR1", "Pause_IR2"}
    BY <1>4, <1>20 DEF Pause, Go, registers, Decoded
  <2>2. \A sw2 : LC3!Exec(Advanced, IR, sw2) = Advanced
    BY <1>12, <2>1 DEF Advanced, Executed
  <2>3. arch' = Advanced
    BY <1>2, <1>6, <1>7, <2>1 DEF Advanced, Storing, Mem_WE
  <2> QED
    BY <1>5, <1>9, <1>10, <2>1, <2>2, <2>3
<1> QED
  BY <1>1, <1>13, <1>14, <1>15, <1>16, <1>17, <1>18, <1>19, <1>20
  DEF ISDU, WaitRun, FetchAddress, WaitForRam, LoadMDR, LoadInstruction, JsrLink, DataAddress, StoreData, Go
\* What is left after a reset depends on no more than what it loads.
LEMMA BootByLoaded ==
  ASSUME NEW m, NEW n, LC3!Loaded(m) = LC3!Loaded(n)
  PROVE  LC3!Boot(m) = LC3!Boot(n)
BY DEF LC3!Boot

\* Both buttons reset the machine of the instruction set, in the middle of a store too.
LEMMA ResetStep ==
  ASSUME TypeOK, Startup, ~Reset /\ State # "Halted" => Progress, PressBoth
  PROVE  LC3!Reset
<1>1. ~Reset /\ arch' = LC3!Boot(mem)
  BY DEF PressBoth
<1>2. mem \in [0..RamWords - 1 -> Word] /\ program \in Programs /\ State \in States
      /\ arch \in LC3!Arch /\ IR \in Word
  BY DEF TypeOK
<1>3. CASE State = "Halted" /\ fill = "mem_write"
  <2>1. arch = LC3!Boot(mem)
    BY <1>3 DEF Startup
  <2>2. arch.mem = LC3!Loaded(mem)
    BY <1>2, <2>1, BootOK, OneField
  <2>3. LC3!Loaded(arch.mem) = LC3!Loaded(mem)
    BY <1>2, <2>2, Reloaded
  <2>4. LC3!Boot(arch.mem) = LC3!Boot(mem)
    BY <2>3, BootByLoaded
  <2> QED
    BY <1>1, <2>4 DEF LC3!Reset
<1>4. CASE State = "S_18" \/ (State = "Halted" /\ fill # "mem_write")
  <2>1. arch = Machine
    BY <1>1, <1>4 DEF Startup, Progress
  <2>2. arch.mem = mem
    BY <2>1, OneField DEF Machine
  <2> QED
    BY <1>1, <2>2 DEF LC3!Reset
<1>5. CASE State \notin Storing \cup {"S_18", "Halted"}
  <2>1. mem = arch.mem
    BY <1>1, <1>5 DEF Progress, Memory
  <2> QED
    BY <1>1, <2>1 DEF LC3!Reset
<1>6. CASE State \in Storing
  <2>1. Registers /\ Memory /\ Decoded /\ Data
    BY <1>1, <1>6 DEF Progress, Storing
  <2>2. PICK sw \in Switches : IR = LC3!Read(arch, arch.PC, sw)
    BY <1>2, <1>6, <2>1 DEF Data, Fetched, Executing, Storing, Fetching, States
  <2>3. PC = Plus(arch.PC, 1) /\ reg = arch.reg
    BY <1>6, <2>1 DEF Registers, Storing
  <2>4. [arch EXCEPT !.PC = LC3!Plus(@, 1)] = Advanced
    BY <1>2, <2>2, <2>3, Steps
  <2>5. /\ Opcode(IR) = 7 /\ MAR = Address(arch.reg, IR) /\ MDR = arch.reg[DR(IR)]
        /\ mem = Upd(arch.mem, MAR % RamWords, MDR)
    BY <1>6, <2>1, <2>3 DEF Decoded, Data, Memory, Upd
  <2>6. Executed(PC, arch.reg, arch.nzp, arch.mem, arch.hex, IR, 0)
    BY <1>2, Executes
  <2>7. LC3!Exec(Advanced, IR, 0).mem = mem
    <3>1. LC3!Exec(Advanced, IR, 0) = M(PC, arch.reg, arch.nzp, mem, IF MAR = 65535 THEN MDR ELSE arch.hex)
      BY <2>5, <2>6 DEF Executed, Advanced
    <3> QED
      BY <3>1, OneField
  <2> QED
    BY <1>1, <2>2, <2>4, <2>7 DEF LC3!Reset
<1> QED
  BY <1>3, <1>4, <1>5, <1>6

\* Every step is one of the instruction set or leaves its machine alone.
LEMMA StepRefines ==
  ASSUME IInv, [Next]_vars
  PROVE  [LC3!Next]_<<program, arch>>
<1>1. TypeOK /\ Startup /\ (~Reset /\ State # "Halted" => Progress)
  BY DEF IInv
<1>2. CASE Clock
  <2>1. program' = program /\ ~Reset /\ ISDU /\ Edge
    BY <1>2 DEF Clock, Edge
  <2>2. CASE State' # "S_18"
    BY <1>2, <2>1, <2>2 DEF Clock
  <2>3. CASE State' = "S_18" /\ State # "Halted"
    BY <1>1, <1>2, <2>1, <2>3, InstructionStep DEF LC3!Next
  <2>4. CASE State' = "S_18" /\ State = "Halted"
    <3>1. run /\ UNCHANGED registers
      BY <2>1, <2>4, FromHalted
    <3>2. fill # "mem_write"
      BY <1>1, <2>1, <3>1 DEF Startup, Reset
    <3>3. arch = Machine
      BY <1>1, <2>4, <3>2 DEF Startup
    <3>4. mem' = mem /\ hex_data' = hex_data
      BY <2>1, <2>4, <3>2 DEF Edge, RamEdge, HexEdge, Mem_WE
    <3>5. arch' = M(PC', reg', nzp', mem', hex_data')
      BY <1>2, <2>4 DEF Clock, M
    <3>6. arch' = arch
      BY <3>1, <3>3, <3>4, <3>5 DEF Machine, registers
    <3> QED
      BY <2>1, <3>6
  <2> QED
    BY <2>2, <2>3, <2>4
<1>3. CASE ClockInReset
  BY <1>3 DEF ClockInReset, Edge
<1>4. CASE PressBoth
  <2>1. LC3!Reset
    BY <1>1, <1>4, ResetStep
  <2> QED
    BY <1>4, <2>1 DEF LC3!Next, PressBoth
<1>5. CASE UNCHANGED vars
  BY <1>5 DEF vars
<1> QED
  BY <1>2, <1>3, <1>4, <1>5 DEF Next

-----------------------------------------------------------------------------
(* The theorems.                                                           *)

\* The board starts in the invariant.
LEMMA InitInv ==
  ASSUME Init
  PROVE  IInv
<1>1. 0 \in Word
  BY InWord
<1>2. mem \in [0..RamWords - 1 -> Word] /\ program \in Programs /\ arch = LC3!Boot(mem)
  BY <1>1 DEF Init
<1>3. TypeOK
  <2>1. "none" \in CondCodes /\ "Halted" \in States /\ 0 \in 0..FillWords
    BY Sizes DEF CondCodes, States
  <2>2. arch \in LC3!Arch
    BY <1>2, BootOK
  <2> QED
    BY <1>1, <1>2, <2>1, <2>2 DEF Init, TypeOK
<1>4. Startup
  BY <1>2, Sizes DEF Init, Startup, Reset
<1>5. Reset
  BY DEF Init, Reset
<1> QED
  BY <1>3, <1>4, <1>5 DEF IInv

\* And no step leaves it.
LEMMA NextInv ==
  ASSUME IInv, [Next]_vars
  PROVE  IInv'
<1>1. TypeOK /\ Startup /\ (~Reset /\ State # "Halted" => Progress)
  BY DEF IInv
<1>2. CASE Next
  <2>1. TypeOK' /\ Startup'
    BY <1>1, <1>2, NextTyped, StartupNext
  <2>2. CASE Clock /\ State # "Halted" /\ State' # "S_18"
    <3>1. ~Reset
      BY <2>2 DEF Clock
    <3> QED
      BY <1>1, <2>1, <2>2, <3>1, ProgressNext DEF IInv
  <2>3. CASE Clock /\ State' = "S_18"
    <3>1. arch' = Machine'
      BY <2>3 DEF Clock, Machine, M
    <3> QED
      BY <2>1, <2>3, <3>1 DEF IInv, Progress
  <2>4. CASE Clock /\ State = "Halted" /\ State' # "S_18"
    <3>1. State' = "Halted"
      BY <2>4, FromHalted DEF Clock
    <3> QED
      BY <2>1, <3>1 DEF IInv
  <2>5. CASE ClockInReset
    BY <2>1, <2>5 DEF IInv, ClockInReset, Go
  <2>6. CASE PressBoth
    BY <2>1, <2>6 DEF IInv, PressBoth, Reset
  <2> QED
    BY <1>2, <2>2, <2>3, <2>4, <2>5, <2>6 DEF Next
<1>3. CASE UNCHANGED vars
  <2>1. UNCHANGED <<State, PC, MDR, reg, nzp, BEN, IR, MAR, hex_data, mem, latch, q, fill, address,
                    run, cont, program, arch, spent>>
    BY <1>3 DEF vars, registers, ram
  <2>2. TypeOK'
    BY <1>1, <2>1 DEF TypeOK
  <2>3. Startup'
    BY <1>1, <2>1 DEF Startup, Reset, Machine, LC3!Boot, LC3!Loaded
  <2>4. Progress => Progress'
    BY <2>1 DEF Progress, Machine, Registers, Memory, Answers, Decoded, Data, Fetched, Loads
  <2> QED
    BY <1>1, <2>1, <2>2, <2>3, <2>4 DEF IInv, Reset
<1> QED
  BY <1>2, <1>3

\* The invariant: what every state of ISDU owes to the instruction it is in.
THEOREM Invariant == Spec => []IInv
<1>1. Init => IInv
  BY InitInv
<1>2. IInv /\ [Next]_vars => IInv'
  BY NextInv
<1> QED
  BY <1>1, <1>2, PTL DEF Spec

\* Every register keeps its width.
THEOREM TypeCorrect == Spec => []TypeOK
<1>1. IInv => TypeOK
  BY DEF IInv
<1> QED
  BY <1>1, Invariant, PTL

\* The SLC-3 implements its instruction set: whatever the program, the size of the RAM,
\* the switches, the clocks between and the resets, the machine at the end of every
\* instruction is what the instruction makes of the one before.
THEOREM Refinement == Spec => ImplementsLc3
<1>1. Init => LC3!Init
  <2>1. ASSUME Init PROVE LC3!Init
    BY <2>1 DEF Init, LC3!Init
  <2> QED
    BY <2>1
<1>2. IInv /\ [Next]_vars => [LC3!Next]_<<program, arch>>
  BY StepRefines
<1> QED
  BY <1>1, <1>2, Invariant, PTL DEF Spec, ImplementsLc3, LC3!Spec

\* A press that has ended a pause is held since, in the state that waits for its end
\* or through a reset.
Held == spent => cont /\ State \in {"Pause_IR2", "Halted"}

\* One press of Continue ends one pause.
THEOREM OnePause == Spec => OnePressOnePause
<1>1. Init => Held
  BY DEF Init, Held
<1>2. Held /\ [Next]_vars => Held'
  <2> SUFFICES ASSUME Held, [Next]_vars PROVE Held'
    OBVIOUS
  <2>1. CASE Clock
    <3>1. ~Reset /\ ISDU /\ spent' = (cont' /\ (spent \/ (State = "Pause_IR1" /\ cont)))
      BY <2>1 DEF Clock, Edge
    <3>2. State = "Pause_IR1" /\ cont => State' = "Pause_IR2"
      BY <3>1 DEF ISDU, WaitRun, FetchAddress, WaitForRam, LoadMDR, LoadInstruction, Decode, Alu, Branch,
                  Jmp, JsrLink, JsrJump, DataAddress, LoadRegister, StoreData, Store, Pause, Go
    <3>3. State = "Pause_IR2" /\ cont => State' = "Pause_IR2"
      BY <3>1 DEF ISDU, WaitRun, FetchAddress, WaitForRam, LoadMDR, LoadInstruction, Decode, Alu, Branch,
                  Jmp, JsrLink, JsrJump, DataAddress, LoadRegister, StoreData, Store, Pause, Go
    <3>4. State = "Halted" /\ cont => State' = "Halted"
      BY <3>1, FromHalted DEF Reset
    <3> QED
      BY <3>1, <3>2, <3>3, <3>4 DEF Held
  <2>2. CASE ClockInReset
    BY <2>2 DEF ClockInReset, Edge, Go, Held
  <2>3. CASE PressBoth
    BY <2>3 DEF PressBoth, Held
  <2>4. CASE UNCHANGED vars
    BY <2>4 DEF vars, Held
  <2> QED
    BY <2>1, <2>2, <2>3, <2>4 DEF Next
<1>3. Held => (State = "Pause_IR1" /\ State' = "Pause_IR2" => ~spent)
  BY DEF Held
<1> QED
  BY <1>1, <1>2, <1>3, PTL DEF Spec, OnePressOnePause-----------------------------------------------------------------------------
(* How long an instruction takes: the half of InstructionEnds that needs   *)
(* no fairness.                                                            *)

\* The clocks before the next fetch, at most; none are counted where ISDU waits for
\* a button.
ClocksLeft ==
  CASE State \in {"Halted", "Pause_IR1", "Pause_IR2"} -> 0
    [] State \in {"S_01", "S_02", "S_03", "S_05", "BRANCHOUT", "JSR2", "MDR_DR", "Storing3"} -> 1
    [] State \in {"S_04", "S_06", "MYREAD3_ANDLOAD", "Storing2"} -> 2
    [] State \in {"MYREAD2", "STR3"} -> 3
    [] State \in {"MYREAD1", "STR2"} -> 4
    [] State \in {"S_07", "S_08"} -> 5
    [] State = "S_32"     -> 6
    [] State = "S_35"     -> 7
    [] State = "S_33_2"   -> 8
    [] State = "S_33_1p3" -> 9
    [] State = "S_33_1p2" -> 10
    [] State = "S_33_1"   -> 11
    [] State = "S_18"     -> 12

\* Every state has its number.
LEMMA ClocksRange == TypeOK => ClocksLeft \in 0..12
BY DEF TypeOK, States, Mem_OE, Mem_WE, ClocksLeft

\* A clock of an instruction leaves fewer, or fetches the next.
LEMMA ClockShortens ==
  ASSUME ISDU, State \notin {"Halted", "Pause_IR1", "Pause_IR2"}
  PROVE  State' = "S_18" \/ ClocksLeft' < ClocksLeft
<1>1. CASE FetchAddress \/ WaitForRam
  BY <1>1 DEF FetchAddress, WaitForRam, Go, ClocksLeft
<1>2. CASE LoadMDR \/ LoadInstruction
  BY <1>2 DEF LoadMDR, LoadInstruction, Go, ClocksLeft
<1>3. CASE Decode
  <2>1. State = "S_32" /\ State' \in {"S_01", "S_02", "S_03", "S_04", "S_05", "S_06", "S_07", "S_08",
                                     "Pause_IR1", "S_18"}
    BY <1>3 DEF Decode, Go
  <2> QED
    BY <2>1 DEF ClocksLeft
<1>4. CASE Alu \/ Branch \/ Jmp \/ JsrLink \/ JsrJump
  BY <1>4 DEF Alu, Branch, Jmp, JsrLink, JsrJump, Go, ClocksLeft
<1>5. CASE DataAddress \/ LoadRegister \/ StoreData \/ Store
  BY <1>5 DEF DataAddress, LoadRegister, StoreData, Store, Go, ClocksLeft
<1>6. CASE WaitRun \/ Pause
  BY <1>6 DEF WaitRun, Pause
<1> QED
  BY <1>1, <1>2, <1>3, <1>4, <1>5, <1>6 DEF ISDU

\* From one fetch to the next an instruction takes twelve clocks at most, unless it is
\* a pause or a reset cuts it short: in no state does ISDU wait for anything else than
\* a button.
THEOREM TwelveClocks ==
  Spec => /\ [](ClocksLeft \in 0..12)
          /\ [][Clock /\ State \notin {"Halted", "Pause_IR1", "Pause_IR2"} =>
                  State' = "S_18" \/ ClocksLeft' < ClocksLeft]_vars
<1>1. Next => (Clock /\ State \notin {"Halted", "Pause_IR1", "Pause_IR2"} =>
                 State' = "S_18" \/ ClocksLeft' < ClocksLeft)
  BY ClockShortens DEF Clock
<1> QED
  BY <1>1, ClocksRange, TypeCorrect, PTL DEF Spec
=============================================================================
