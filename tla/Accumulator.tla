---------------------------- MODULE Accumulator -----------------------------
(***************************************************************************)
(* adder2.sv of lab 3: each press of Run_Accumulate adds the ten switches  *)
(* to a register of 17 bits, through the lookahead adder.  A step is an    *)
(* edge of Clk, or something the user does.                                *)
(***************************************************************************)
EXTENDS Adders

CONSTANTS
  Settings,    \* of the switches, as vectors of ten bits
  MaxAdditions \* bound: additions since the last reset, for the user's presses

ASSUME SettingAssumption == Settings # {} /\ \A s \in Settings : s \in [0..9 -> Bit]
ASSUME BoundAssumption == MaxAdditions \in Nat

VARIABLES
  curr_state,  \* of control
  Out,         \* of reg_17
  Run, SW,     \* the button (TRUE: pressed) and the switches
  fresh,       \* history: Run has been up since the register was loaded
  sum,         \* history: what the additions should have given
  additions    \* bound

vars == <<curr_state, Out, Run, SW, fresh, sum, additions>>

extended_SW == [i \in 0..15 |-> IF i < 10 THEN SW[i] ELSE 0]

Load == curr_state = "B"

Adder == lookahead_adder(extended_SW, Part(Out, 0, 16), 0)

\* router: the sum while Load is set, which is when the register takes it.
In == [i \in 0..16 |-> IF i = 16 THEN Adder.cout ELSE Adder.S[i]]

Zero == [i \in 0..16 |-> 0]

Init ==
  /\ curr_state = "A" /\ Out = Zero
  /\ Run \in BOOLEAN /\ SW \in Settings
  /\ fresh = TRUE /\ sum = 0 /\ additions = 0

-----------------------------------------------------------------------------
\* mutant: the button's release is not waited for.
controlRepeats ==
  curr_state' = CASE curr_state = "A" -> IF Run THEN "B" ELSE "A"
                  [] curr_state = "B" -> "C"
                  [] curr_state = "C" -> "A"

control ==
  curr_state' = CASE curr_state = "A" -> IF Run THEN "B" ELSE "A"
                  [] curr_state = "B" -> "C"
                  [] curr_state = "C" -> IF Run THEN "C" ELSE "A"

reg_17 ==
  IF Load THEN /\ Out' = In
               /\ sum' = (sum % 65536) + Value16(extended_SW)
               /\ additions' = additions + 1
  ELSE UNCHANGED <<Out, sum, additions>>

Clock ==
  /\ control /\ reg_17
  /\ fresh' = (IF Load THEN ~Run ELSE fresh \/ ~Run)
  /\ UNCHANGED <<Run, SW>>

\* The reset is asynchronous.
Reset ==
  /\ curr_state' = "A" /\ Out' = Zero
  /\ fresh' = TRUE /\ sum' = 0 /\ additions' = 0
  /\ UNCHANGED <<Run, SW>>

Press   == ~Run /\ additions < MaxAdditions /\ Run' = TRUE
           /\ UNCHANGED <<curr_state, Out, SW, fresh, sum, additions>>
Release == Run /\ Run' = FALSE /\ UNCHANGED <<curr_state, Out, SW, fresh, sum, additions>>
Switch  == SW' \in Settings /\ UNCHANGED <<curr_state, Out, Run, fresh, sum, additions>>

Next == Clock \/ Reset \/ Press \/ Release \/ Switch

Spec == Init /\ [][Next]_vars

-----------------------------------------------------------------------------
(* Properties.                                                             *)

\* The register has seventeen bits and the sum is less than that of the largest operands.
TypeOK ==
  /\ curr_state \in {"A", "B", "C"} /\ Out \in [0..16 -> Bit]
  /\ Run \in BOOLEAN /\ SW \in Settings /\ fresh \in BOOLEAN
  /\ sum \in Nat /\ sum < 65535 + 1024 /\ additions \in Nat

\* The register is the sum, and its highest bit the carry of the last addition,
\* although the carry out of the adder lacks the one its highest bit generates; and
\* the adder in use, the ripple adder and, on nine bits, the select adder agree.
HoldsTheSum ==
  LET low(v) == Part(v, 0, 9)
      sel == select_adder(low(extended_SW), low(Out), 0)
  IN  /\ Value17(Out) = sum
      /\ ripple_adder(extended_SW, Part(Out, 0, 16), 0) = Adder
      /\ sel.S = low(Adder.S)
      /\ Value9(sel.S) + 512 * sel.cout = Value9(extended_SW) + Value9(Out)

\* A press adds once, however long the button is held, and the additions have a
\* release seen by the clock between them.
OncePerPress == [][Load /\ curr_state' = "C" => fresh]_vars
=============================================================================
