----------------------------- MODULE Multiplier -----------------------------
(***************************************************************************)
(* The 8-bit multiplier of lab 4: control_unit.sv sends the register unit  *)
(* through eight rounds of "add the switches if the low bit of B is set,   *)
(* then shift XAB right", the last of which subtracts.  A step is an edge  *)
(* of Clk.  Run, CALB and SW are the outputs of the synchronizers, so they *)
(* take any value the user gives them at each edge; only the switches are  *)
(* left alone while a multiplication runs.                                 *)
(***************************************************************************)
EXTENDS Integers

CONSTANT Switches  \* the settings of SW the user chooses from

ASSUME SwitchesAssumption == Switches \subseteq 0..255 /\ 0 \in Switches

\* The enumeration curr_state, by its numbers: Start, Pressed_Run, then Add1,
\* Shift1, ..., Add8, Shift8, then RESULT.
Start       == 0
Pressed_Run == 1
AddStates   == {2, 4, 6, 8, 10, 12, 14}
SubState    == 16
ShiftStates == {3, 5, 7, 9, 11, 13, 15, 17}
RESULT      == 18

VARIABLES
  curr_state,
  dummy,          \* the flip-flop X of register_unit
  LoadedA, LoadedB,
  Run, CALB, SW,  \* the synchronized buttons (1: pressed) and switches
  S0, B0          \* history: the operands of the multiplication that runs

datapath == <<dummy, LoadedA, LoadedB>>
vars     == <<curr_state, datapath, Run, CALB, SW, S0, B0>>

Init ==
  /\ curr_state = Start
  /\ dummy = 0 /\ LoadedA = 0 /\ LoadedB = 0
  /\ Run = 0 /\ CALB = 0 /\ SW = 0
  /\ S0 = 0 /\ B0 = 0

-----------------------------------------------------------------------------
(* ninebit_AddSub.                                                         *)

\* Nine bits from eight: bit 7 is doubled.
Ext(x) == IF x >= 128 THEN x + 256 ELSE x

sum_9bit(a, b) == (Ext(a) + Ext(b)) % 512
sub_9bit(a, b) == (Ext(a) + (511 - Ext(b)) + 1) % 512

\* A + S in an add state, A - S in the subtract state, A when the low bit of B
\* is clear and in every other state.
AdderSum ==
  IF LoadedB % 2 = 1 /\ curr_state \in AddStates THEN sum_9bit(LoadedA, SW)
  ELSE IF LoadedB % 2 = 1 /\ curr_state = SubState THEN sub_9bit(LoadedA, SW)
  ELSE Ext(LoadedA)

-----------------------------------------------------------------------------
(* The edges of Clk, by the state of the controller.                       *)

\* The X flip-flop is loaded at every edge that does not clear it.
LoadX == dummy' = AdderSum \div 256

\* What a shift makes of A, with X at its left, and of B, with A's low bit.
ShiftedA(x, a) == x * 128 + (a \div 2)
ShiftedB(a, b) == (a % 2) * 128 + (b \div 2)

\* CALB goes before everything else, except that a B that is shifting shifts.
ResetCALB ==
  /\ CALB = 1
  /\ curr_state' = Start
  /\ dummy' = 0 /\ LoadedA' = 0
  /\ LoadedB' = IF curr_state \in ShiftStates THEN ShiftedB(LoadedA, LoadedB) ELSE SW
  /\ UNCHANGED <<S0, B0>>

WaitForRun ==
  /\ CALB = 0 /\ curr_state = Start
  /\ curr_state' = IF Run = 1 THEN Pressed_Run ELSE Start
  /\ LoadX
  /\ UNCHANGED <<LoadedA, LoadedB, S0, B0>>

\* Clr_Ld clears X and A; B is the low half of the last product.
ClearXA ==
  /\ CALB = 0 /\ curr_state = Pressed_Run
  /\ curr_state' = curr_state + 1
  /\ dummy' = 0 /\ LoadedA' = 0
  /\ S0' = SW /\ B0' = LoadedB
  /\ UNCHANGED LoadedB

\* mutant: the ninth bit is kept in A.
AddOrSubWide ==
  /\ CALB = 0 /\ curr_state \in AddStates \cup {SubState}
  /\ curr_state' = curr_state + 1
  /\ LoadX
  /\ LoadedA' = AdderSum
  /\ UNCHANGED <<LoadedB, S0, B0>>

AddOrSub ==
  /\ CALB = 0 /\ curr_state \in AddStates \cup {SubState}
  /\ curr_state' = curr_state + 1
  /\ LoadX
  /\ LoadedA' = AdderSum % 256
  /\ UNCHANGED <<LoadedB, S0, B0>>

\* mutant: the sign of A goes in at the left, not X.
ShiftXABSign ==
  /\ CALB = 0 /\ curr_state \in ShiftStates
  /\ curr_state' = curr_state + 1
  /\ LoadX
  /\ LoadedA' = (LoadedA \div 128) * 128 + LoadedA \div 2
  /\ LoadedB' = ShiftedB(LoadedA, LoadedB)
  /\ UNCHANGED <<S0, B0>>

\* mutant: the last round is repeated.
ShiftXABLoops ==
  /\ CALB = 0 /\ curr_state \in ShiftStates
  /\ curr_state' = IF curr_state = 17 THEN SubState ELSE curr_state + 1
  /\ LoadX
  /\ LoadedA' = ShiftedA(dummy, LoadedA)
  /\ LoadedB' = ShiftedB(LoadedA, LoadedB)
  /\ UNCHANGED <<S0, B0>>

ShiftXAB ==
  /\ CALB = 0 /\ curr_state \in ShiftStates
  /\ curr_state' = curr_state + 1
  /\ LoadX
  /\ LoadedA' = ShiftedA(dummy, LoadedA)
  /\ LoadedB' = ShiftedB(LoadedA, LoadedB)
  /\ UNCHANGED <<S0, B0>>

HoldResult ==
  /\ CALB = 0 /\ curr_state = RESULT
  /\ curr_state' = IF Run = 0 THEN Start ELSE RESULT
  /\ LoadX
  /\ UNCHANGED <<LoadedA, LoadedB, S0, B0>>

\* The user.  The switches are not moved from the clearing of A to the end.
Inputs ==
  /\ Run' \in {0, 1} /\ CALB' \in {0, 1}
  /\ SW' \in IF curr_state' \in {Start, Pressed_Run, RESULT} THEN Switches ELSE {SW}

Clock ==
  \/ ResetCALB \/ WaitForRun \/ ClearXA \/ AddOrSub \/ ShiftXAB \/ HoldResult

Next == Clock /\ Inputs

Spec == Init /\ [][Next]_vars

\* The clock does not stop.
FairSpec == Spec /\ WF_vars(Next)

-----------------------------------------------------------------------------
(* Properties.                                                             *)

TypeOK ==
  /\ curr_state \in 0..18
  /\ dummy \in {0, 1}
  /\ LoadedA \in 0..255 /\ LoadedB \in 0..255
  /\ Run \in {0, 1} /\ CALB \in {0, 1}
  /\ SW \in Switches
  /\ S0 \in Switches /\ B0 \in 0..255

\* Two's complement.
Signed(x, bits) == IF 2 * x >= bits THEN x - bits ELSE x

\* When the controller rests in RESULT, AB is the 16-bit product of the
\* switches and of what B was, whatever was pressed before and meanwhile.
Product ==
  curr_state = RESULT =>
    Signed(LoadedA * 256 + LoadedB, 65536) = Signed(S0, 256) * Signed(B0, 256)

\* Once cleared, a multiplication ends in RESULT, unless CALB is pressed.
MultiplyEnds == curr_state = Pressed_Run ~> (curr_state = RESULT \/ CALB = 1)
=============================================================================
