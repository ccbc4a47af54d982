-------------------------------- MODULE Slc3 --------------------------------
(***************************************************************************)
(* The SLC-3 of lab 5: the controller ISDU steps the datapath through the  *)
(* states of an instruction, against a RAM that answers two clocks late    *)
(* and that Instantiateram fills after a reset.  A step is an edge of Clk, *)
(* or the moment both buttons are down, which clears the registers with an *)
(* asynchronous reset before the next edge.                                *)
(***************************************************************************)
EXTENDS Lc3Words

CONSTANTS
  RamWords,   \* words of the RAM (1024)
  FillWords,  \* words Instantiateram writes (256)
  Programs,   \* programs it may hold
  Switches    \* settings of SW the user chooses from

ASSUME SizeAssumption == RamWords \in Nat /\ FillWords \in 1..RamWords
ASSUME ProgramAssumption == \A p \in Programs : p \in [0..FillWords - 1 -> Word]
ASSUME SwitchAssumption == Switches # {} /\ Switches \subseteq 0..1023

VARIABLES
  State,            \* of ISDU
  PC, IR, MAR, MDR, reg, nzp, BEN,
  hex_data,         \* of Mem2IO
  mem, latch, q,    \* the RAM: its words, the word last read, its output register
  fill, address,    \* state and address of Instantiateram
  run, cont,        \* the synchronized buttons (TRUE: pressed)
  program,          \* the words Instantiateram writes
  arch,             \* history: the machine at the end of the last instruction
  spent             \* history: this press of Continue has ended a pause

registers == <<PC, MDR, reg, nzp, BEN>>
ram  == <<mem, latch, q>>
vars == <<State, registers, IR, MAR, hex_data, ram, fill, address, run, cont,
          program, arch, spent>>

LC3 == INSTANCE Lc3

\* The states of ISDU that read the memory, and those that write it.
Mem_OE == {"S_33_1", "S_33_1p2", "S_33_1p3", "S_33_2", "MYREAD1", "MYREAD2",
           "MYREAD3_ANDLOAD"}
Mem_WE == {"STR3", "Storing2", "Storing3"}
States == Mem_OE \cup Mem_WE \cup
  {"Halted", "S_18", "S_35", "S_32", "S_01", "S_02", "S_03", "S_04", "S_05",
   "S_06", "S_07", "S_08", "BRANCHOUT", "JSR2", "MDR_DR", "STR2",
   "Pause_IR1", "Pause_IR2"}

Reset == run /\ cont

\* The synchronizers start with both buttons down, so the board starts in reset.
Init ==
  /\ State = "Halted"
  /\ PC = 0 /\ IR = 0 /\ MAR = 0 /\ MDR = 0 /\ reg = [r \in Regs |-> 0]
  /\ nzp = "none" /\ BEN = FALSE /\ hex_data = 0
  /\ mem = [w \in 0..RamWords - 1 |-> 0] /\ latch = 0 /\ q = 0
  /\ fill = "mem_write" /\ address = 0
  /\ run = TRUE /\ cont = TRUE
  /\ program \in Programs
  /\ arch = LC3!Boot(mem) /\ spent = FALSE

-----------------------------------------------------------------------------
(* The combinational parts of the datapath.                                *)

\* SEXT repeats the bit it takes for the sign to the left of the field.
SEXT(field, size, msb) == field + msb * (65536 - size)

ext5_16  == SEXT(IR % 32, 32, Bit4(IR))
ext6_16  == SEXT(IR % 64, 64, Bit5(IR))
ext9_16  == SEXT(IR % 512, 512, Bit8(IR))
ext11_16 == SEXT(IR % 2048, 2048, Bit9(IR))  \* slice9p2[0] is IR[9]

ALUB_in == IF Bit5(IR) = 1 THEN ext5_16 ELSE reg[SR2(IR)]

\* MARMUX_Out with the base register and the 6-bit offset selected.
addrblock_out == Plus(reg[SR1(IR)], ext6_16)

ALU_Out ==
  CASE State = "S_01" -> Plus(reg[SR1(IR)], ALUB_in)
    [] State = "S_02" -> And16(reg[SR1(IR)], ALUB_in)
    [] OTHER          -> Not16(reg[SR1(IR)])

\* Mem2IO while Mem_OE is set, with the switches at sw.
Data_to_CPU(sw) == IF MAR = 65535 THEN sw ELSE q

\* The registers that no reset clears, by what ISDU loads in each state.
LoadedIR == IF State = "S_35" THEN MDR ELSE IR
LoadedMAR ==
  CASE State \in {"S_18", "BRANCHOUT"} -> PC
    [] State \in {"S_07", "S_08"}      -> addrblock_out
    [] OTHER                           -> MAR

-----------------------------------------------------------------------------
(* The memory at an edge.                                                  *)

\* Instantiateram owns the RAM while it fills it, and a read meets its write.
\* A word that is read is in the output register at the second edge.
RamEdge ==
  /\ mem' = IF fill = "mem_write" THEN [mem EXCEPT ![address] = program[address]]
            ELSE IF State \in Mem_WE THEN [mem EXCEPT ![MAR % RamWords] = MDR]
            ELSE mem
  /\ latch' \in IF State \notin Mem_OE THEN {latch}
               ELSE IF fill = "mem_write" THEN {mem[address], program[address]}
               ELSE {mem[MAR % RamWords]}
  /\ q' = latch

HexEdge ==
  hex_data' = IF Reset THEN 0
              ELSE IF State \in Mem_WE /\ MAR = 65535 THEN MDR ELSE hex_data

FillEdge ==
  IF Reset THEN UNCHANGED <<fill, address>>
  ELSE /\ fill' = CASE fill = "mem_write" ->
                         IF address = FillWords - 1 THEN "done" ELSE "mem_write"
                    [] OTHER -> "idle"
       /\ address' = IF fill = "mem_write" THEN address + 1 ELSE address

\* The user.  Run is let go before Continue, so that the processor is not
\* started while the RAM is being filled.
Buttons ==
  /\ run' \in BOOLEAN /\ cont' \in BOOLEAN
  /\ run' /\ cont' => Reset
  /\ fill' = "mem_write" => (run' => cont')

Go(s) == State' = s

-----------------------------------------------------------------------------
(* ISDU, a state or a few of one kind each.                                *)

WaitRun ==
  /\ State = "Halted" /\ Go(IF run THEN "S_18" ELSE "Halted")
  /\ UNCHANGED registers

\* mutant: the PC is not cut to 16 bits.
FetchAddressWide ==
  /\ State = "S_18" /\ Go("S_33_1")
  /\ PC' = PC + 1
  /\ UNCHANGED <<MDR, reg, nzp, BEN>>

FetchAddress ==
  /\ State = "S_18" /\ Go("S_33_1")
  /\ PC' = Plus(PC, 1)
  /\ UNCHANGED <<MDR, reg, nzp, BEN>>

\* mutant: a load waits one clock less.
WaitForRamShort ==
  /\ \/ State = "S_33_1" /\ Go("S_33_1p2")
     \/ State = "S_33_1p2" /\ Go("S_33_1p3")
     \/ State = "S_33_1p3" /\ Go("S_33_2")
     \/ State = "MYREAD1" /\ Go("MYREAD3_ANDLOAD")
  /\ UNCHANGED registers

WaitForRam ==
  /\ \/ State = "S_33_1" /\ Go("S_33_1p2")
     \/ State = "S_33_1p2" /\ Go("S_33_1p3")
     \/ State = "S_33_1p3" /\ Go("S_33_2")
     \/ State = "MYREAD1" /\ Go("MYREAD2")
     \/ State = "MYREAD2" /\ Go("MYREAD3_ANDLOAD")
  /\ UNCHANGED registers

LoadMDR ==
  /\ \/ State = "S_33_2" /\ Go("S_35")
     \/ State = "MYREAD3_ANDLOAD" /\ Go("MDR_DR")
  /\ \E sw \in Switches : MDR' = Data_to_CPU(sw)
  /\ UNCHANGED <<PC, reg, nzp, BEN>>

LoadInstruction ==
  /\ State = "S_35" /\ Go("S_32")
  /\ UNCHANGED registers

\* The branch is decided here, with the codes of the instruction before.
Decode ==
  /\ State = "S_32"
  /\ Go(CASE Opcode(IR) = 1 -> "S_01" [] Opcode(IR) = 5 -> "S_02"
          [] Opcode(IR) = 9 -> "S_03" [] Opcode(IR) = 0 -> "S_04"
          [] Opcode(IR) = 12 -> "S_05" [] Opcode(IR) = 4 -> "S_06"
          [] Opcode(IR) = 6 -> "S_07" [] Opcode(IR) = 7 -> "S_08"
          [] Opcode(IR) = 13 -> "Pause_IR1" [] OTHER -> "S_18")
  /\ BEN' = Taken(nzp, IR)
  /\ UNCHANGED <<PC, MDR, reg, nzp>>

Alu ==
  /\ State \in {"S_01", "S_02", "S_03"} /\ Go("S_18")
  /\ reg' = [reg EXCEPT ![DR(IR)] = ALU_Out]
  /\ nzp' = CodeOf(ALU_Out)
  /\ UNCHANGED <<PC, MDR, BEN>>

Branch ==
  /\ \/ State = "S_04" /\ Go(IF BEN THEN "BRANCHOUT" ELSE "S_18") /\ UNCHANGED PC
     \/ State = "BRANCHOUT" /\ Go("S_18") /\ PC' = Plus(PC, ext9_16)
  /\ UNCHANGED <<MDR, reg, nzp, BEN>>

Jmp ==
  /\ State = "S_05" /\ Go("S_18")
  /\ PC' = addrblock_out
  /\ UNCHANGED <<MDR, reg, nzp, BEN>>

JsrLink ==
  /\ State = "S_06" /\ Go("JSR2")
  /\ reg' = [reg EXCEPT ![IF Bit11(IR) = 1 THEN 7 ELSE DR(IR)] = PC]
  /\ UNCHANGED <<PC, MDR, nzp, BEN>>

JsrJump ==
  /\ State = "JSR2" /\ Go("S_18")
  /\ PC' = Plus(PC, ext11_16)
  /\ UNCHANGED <<MDR, reg, nzp, BEN>>

DataAddress ==
  /\ \/ State = "S_07" /\ Go("MYREAD1")
     \/ State = "S_08" /\ Go("STR2")
  /\ UNCHANGED registers

LoadRegister ==
  /\ State = "MDR_DR" /\ Go("S_18")
  /\ reg' = [reg EXCEPT ![DR(IR)] = MDR]
  /\ nzp' = CodeOf(MDR)
  /\ UNCHANGED <<PC, MDR, BEN>>

StoreData ==
  /\ State = "STR2" /\ Go("STR3")
  /\ MDR' = reg[DR(IR)]
  /\ UNCHANGED <<PC, reg, nzp, BEN>>

Store ==
  /\ \/ State = "STR3" /\ Go("Storing2")
     \/ State = "Storing2" /\ Go("Storing3")
     \/ State = "Storing3" /\ Go("S_18")
  /\ UNCHANGED registers

\* mutant: the end of the press is not waited for.
PauseIgnoresRelease ==
  /\ \/ State = "Pause_IR1" /\ Go(IF cont THEN "Pause_IR2" ELSE "Pause_IR1")
     \/ State = "Pause_IR2" /\ Go("S_18")
  /\ UNCHANGED registers

\* mutant: the button is looked at the wrong way round.
PauseNeverReleased ==
  /\ \/ State = "Pause_IR1" /\ Go(IF cont THEN "Pause_IR2" ELSE "Pause_IR1")
     \/ State = "Pause_IR2" /\ Go("Pause_IR2")
  /\ UNCHANGED registers

Pause ==
  /\ \/ State = "Pause_IR1" /\ Go(IF cont THEN "Pause_IR2" ELSE "Pause_IR1")
     \/ State = "Pause_IR2" /\ Go(IF cont THEN "Pause_IR2" ELSE "S_18")
  /\ UNCHANGED registers

ISDU ==
  \/ WaitRun \/ FetchAddress \/ WaitForRam \/ LoadMDR \/ LoadInstruction \/ Decode
  \/ Alu \/ Branch \/ Jmp \/ JsrLink \/ JsrJump \/ DataAddress \/ LoadRegister
  \/ StoreData \/ Store \/ Pause

-----------------------------------------------------------------------------
\* What every edge does beside ISDU.
Edge ==
  /\ IR' = LoadedIR /\ MAR' = LoadedMAR
  /\ RamEdge /\ HexEdge /\ FillEdge /\ Buttons
  /\ spent' = (cont' /\ (spent \/ (State = "Pause_IR1" /\ cont)))
  /\ UNCHANGED program

Clock ==
  /\ ~Reset /\ ISDU /\ Edge
  /\ arch' = IF State' # "S_18" THEN arch
             ELSE [PC |-> PC', reg |-> reg', nzp |-> nzp', mem |-> mem', hex |-> hex_data']

ClockInReset ==
  /\ Reset /\ Go("Halted") /\ UNCHANGED registers /\ Edge
  /\ UNCHANGED arch

PressBoth ==
  /\ ~Reset /\ run' = TRUE /\ cont' = TRUE
  /\ PC' = 0 /\ MDR' = 0 /\ reg' = [r \in Regs |-> 0] /\ nzp' = "none" /\ BEN' = FALSE
  /\ fill' = "mem_write" /\ address' = 0
  /\ arch' = LC3!Boot(mem)
  /\ spent' = FALSE
  /\ UNCHANGED <<State, IR, MAR, hex_data, ram, program>>

Next == Clock \/ ClockInReset \/ PressBoth

Spec == Init /\ [][Next]_vars

\* The clock does not stop.
FairSpec == Spec /\ WF_vars(Clock \/ ClockInReset)

-----------------------------------------------------------------------------
(* Properties.                                                             *)

TypeOK ==
  /\ State \in States
  /\ PC \in Word /\ IR \in Word /\ MAR \in Word /\ MDR \in Word
  /\ reg \in [Regs -> Word] /\ nzp \in CondCodes /\ BEN \in BOOLEAN
  /\ hex_data \in Word
  /\ mem \in [0..RamWords - 1 -> Word] /\ latch \in Word /\ q \in Word
  /\ fill \in {"idle", "mem_write", "done"} /\ address \in 0..FillWords
  /\ run \in BOOLEAN /\ cont \in BOOLEAN
  /\ program \in Programs
  /\ arch \in LC3!Arch /\ spent \in BOOLEAN

\* Whatever the clocks between, the RAM's delay and the resets, the machine at
\* the end of each instruction is what the instruction set says it is.
ImplementsLc3 == LC3!Spec

\* One press of Continue ends one pause: the next needs another press.
OnePressOnePause ==
  [][State = "Pause_IR1" /\ State' = "Pause_IR2" => ~spent]_vars

\* An instruction ends, unless the machine is reset or a pause waits for the
\* button; and the pause ends when the button, once pressed, is released for good.
InstructionEnds ==
  /\ State = "S_33_1" ~> State \in {"S_18", "Halted", "Pause_IR1"}
  /\ <>[](State = "Pause_IR2") => []<>cont

\* opJSR: "PC <- PC + SEXT(PCoffset11)", for every offset of eleven bits.
JsrLandsAtOffset ==
  [][State = "JSR2" /\ State' = "S_18" =>
       PC' = Plus(PC, LC3!Sext(IR % 2048, 2048))]_vars
=============================================================================
