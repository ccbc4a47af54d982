-------------------------- MODULE SerialProcessor ---------------------------
(***************************************************************************)
(* Processor.sv of lab 2.2: two registers of eight bits, shifted through a *)
(* unit that works on one bit at a time.  A step is an edge of Clk; what   *)
(* the synchronizers sample at the edge is chosen freely.                  *)
(***************************************************************************)
EXTENDS Integers

CONSTANTS
  F,      \* the function select, 2 (Xor) in the code
  R,      \* the routing select, 2 (the result into A) in the code
  Inputs  \* the vectors the switches are set to

Bit    == 0..1
Word   == [0..7 -> Bit]
States == 0..9          \* the states A to J in the order of the enum
A0 == 0                 \* the state A, named apart from the register
J  == 9

ASSUME SelectAssumption == F \in 0..7 /\ R \in 0..3
ASSUME InputAssumption == Inputs # {} /\ Inputs \subseteq Word

VARIABLES
  curr_state,           \* of control
  A, B,                 \* the registers
  Reset_SH, LoadA_SH, LoadB_SH, Execute_SH, Din_S,  \* the synchronizers
  fresh,                \* history: Execute was up at an edge since the last start, or Reset
  startA, startB        \* history: the registers as the last operation found them

buttons == <<Reset_SH, LoadA_SH, LoadB_SH, Execute_SH>>
vars == <<curr_state, A, B, buttons, Din_S, fresh, startA, startB>>

Not(a) == 1 - a
One(b) == IF b THEN 1 ELSE 0

compute(a, b) ==
  CASE F = 0 -> One(a = 1 /\ b = 1)  [] F = 4 -> Not(One(a = 1 /\ b = 1))
    [] F = 1 -> One(a = 1 \/ b = 1)  [] F = 5 -> Not(One(a = 1 \/ b = 1))
    [] F = 2 -> One(a # b)           [] F = 6 -> Not(One(a # b))
    [] F = 3 -> 1                    [] F = 7 -> 0

\* router.
newA(a, b) == CASE R \in {0, 1} -> a [] R = 2 -> compute(a, b) [] R = 3 -> b
newB(a, b) == CASE R \in {0, 2} -> b [] R = 1 -> compute(a, b) [] R = 3 -> a

Shift_En == curr_state \notin {A0, J}
Ld_A == curr_state = A0 /\ LoadA_SH
Ld_B == curr_state = A0 /\ LoadB_SH

Zero == [i \in 0..7 |-> 0]

Shifted(r, in) == [i \in 0..7 |-> IF i = 7 THEN in ELSE r[i + 1]]

reg_4(r, load, in) ==
  IF Reset_SH THEN Zero ELSE IF load THEN Din_S ELSE IF Shift_En THEN Shifted(r, in) ELSE r

Init ==
  /\ curr_state = A0 /\ A = Zero /\ B = Zero
  /\ Reset_SH = FALSE /\ LoadA_SH = FALSE /\ LoadB_SH = FALSE /\ Execute_SH = FALSE
  /\ Din_S \in Inputs
  /\ fresh = TRUE /\ startA = Zero /\ startB = Zero

-----------------------------------------------------------------------------
\* mutant: seven shifts.
controlShort ==
  curr_state' = IF Reset_SH \/ (curr_state = J /\ ~Execute_SH) THEN A0
                ELSE IF curr_state = 7 THEN J
                ELSE IF curr_state = J \/ (curr_state = A0 /\ ~Execute_SH) THEN curr_state
                ELSE curr_state + 1

\* mutant: the release of Execute is not waited for.
controlRepeats ==
  curr_state' = IF Reset_SH \/ curr_state = J THEN A0
                ELSE IF curr_state = A0 /\ ~Execute_SH THEN A0
                ELSE curr_state + 1

\* mutant: the release is taken for the press.
controlStays ==
  curr_state' = IF Reset_SH \/ (curr_state = J /\ Execute_SH) THEN A0
                ELSE IF curr_state = J \/ (curr_state = A0 /\ ~Execute_SH) THEN curr_state
                ELSE curr_state + 1

control ==
  curr_state' = IF Reset_SH \/ (curr_state = J /\ ~Execute_SH) THEN A0
                ELSE IF curr_state = J \/ (curr_state = A0 /\ ~Execute_SH) THEN curr_state
                ELSE curr_state + 1

\* An operation starts: B is entered, and the registers may be loaded with it.
Start == curr_state = A0 /\ curr_state' # A0

History ==
  /\ fresh' = (Reset_SH \/ ~Execute_SH \/ (fresh /\ ~Start))
  /\ startA' = (IF Start THEN A' ELSE startA) /\ startB' = (IF Start THEN B' ELSE startB)

synchronizers ==
  /\ Reset_SH' \in BOOLEAN /\ LoadA_SH' \in BOOLEAN /\ LoadB_SH' \in BOOLEAN
  /\ Execute_SH' \in BOOLEAN /\ Din_S' \in Inputs

Clock ==
  /\ control
  /\ A' = reg_4(A, Ld_A, newA(A[0], B[0])) /\ B' = reg_4(B, Ld_B, newB(A[0], B[0]))
  /\ synchronizers /\ History

\* The clock does not stop.
Spec == Init /\ [][Clock]_vars /\ WF_vars(Clock)

-----------------------------------------------------------------------------
(* Properties.                                                             *)

\* The state is one of the ten and the registers are words of eight bits.
TypeOK ==
  /\ curr_state \in States /\ A \in Word /\ B \in Word
  /\ buttons \in BOOLEAN \X BOOLEAN \X BOOLEAN \X BOOLEAN /\ Din_S \in Inputs
  /\ fresh \in BOOLEAN /\ startA \in Word /\ startB \in Word

\* The shifts through the one-bit unit give, for every bit of the words that the
\* operation found, what the function and the routing say; buttons and switches
\* that move meanwhile change nothing, and no shift is missing when it is done.
Computes ==
  curr_state = J => /\ A = [i \in 0..7 |-> newA(startA[i], startB[i])]
                    /\ B = [i \in 0..7 |-> newB(startA[i], startB[i])]

\* One press of Execute, however long, starts one operation, unless there is a reset.
OncePerPress == [][Start => fresh]_vars

\* An operation comes to its end, and with Execute let go of for good the controller
\* waits for the next press.
ReadyAgain == <>[]~Execute_SH => <>[](curr_state = A0)
=============================================================================
