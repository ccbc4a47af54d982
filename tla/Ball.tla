-------------------------------- MODULE Ball --------------------------------
(***************************************************************************)
(* The ball of lab 6, ball.sv: a step is a frame (an edge of the vertical  *)
(* sync), a change of the key code the USB program stores, or a reset.     *)
(* All numbers are unsigned and of one width.                              *)
(***************************************************************************)
EXTENDS Integers

CONSTANTS
  Modulus,                 \* 2 to the width of a coordinate (1024)
  Ball_X_Max, Ball_Y_Max,  \* the last pixel and the last line (639, 479)
  Ball_Size                \* radius (4)

ASSUME SizeAssumption ==
  /\ Modulus \in Nat /\ Ball_X_Max \in Nat /\ Ball_Y_Max \in Nat /\ Ball_Size \in Nat
  /\ Ball_Size >= 4
  /\ Ball_X_Max > 4 * Ball_Size /\ Ball_X_Max + 2 * Ball_Size < Modulus
  /\ Ball_Y_Max > 4 * Ball_Size /\ Ball_Y_Max + 2 * Ball_Size < Modulus

VARIABLES
  Ball_X_Pos, Ball_Y_Pos, Ball_X_Motion, Ball_Y_Motion,
  keycode,
  escaped                  \* history: the ball has gone over the top or the left edge

position == <<Ball_X_Pos, Ball_Y_Pos>>
motion   == <<Ball_X_Motion, Ball_Y_Motion>>
ballVars     == <<position, motion, keycode, escaped>>

Plus(a, b)  == IF a + b >= Modulus THEN a + b - Modulus ELSE a + b
Minus(a, b) == IF a >= b THEN a - b ELSE a - b + Modulus

Forward  == 1
Backward == Modulus - 1  \* -1
Motions  == {0, Forward, Backward}

Keys == {"none", "A", "D", "S", "W"}

Ball_X_Center == (Ball_X_Max + 1) \div 2
Ball_Y_Center == (Ball_Y_Max + 1) \div 2

flag_bot   == Plus(Ball_Y_Pos, Ball_Size) >= Ball_Y_Max
flag_top   == Minus(Ball_Y_Pos, Ball_Size) <= 0
flag_right == Plus(Ball_X_Pos, Ball_Size) >= Ball_X_Max
flag_left  == Minus(Ball_X_Pos, Ball_Size) <= 0

AtCenter == Ball_X_Pos = Ball_X_Center /\ Ball_Y_Pos = Ball_Y_Center
AtRest   == Ball_X_Motion = 0 /\ Ball_Y_Motion = 0

BallInit == AtCenter /\ AtRest /\ keycode = "none" /\ escaped = FALSE

-----------------------------------------------------------------------------
\* mutant: no edge is looked at.
HeededAlways == keycode # "none"

\* A key that is heeded turns the ball; its edge must not be near.
Heeded == CASE keycode = "A" -> ~flag_left
            [] keycode = "D" -> ~flag_right
            [] keycode = "S" -> ~flag_bot
            [] keycode = "W" -> ~flag_top
            [] OTHER         -> FALSE

\* mutant: up is taken for down.
TurnMirrored ==
  /\ Heeded
  /\ Ball_X_Motion' = CASE keycode = "A" -> Backward [] keycode = "D" -> Forward [] OTHER -> 0
  /\ Ball_Y_Motion' = CASE keycode = "W" -> Forward [] keycode = "S" -> Backward [] OTHER -> 0

Turn ==
  /\ Heeded
  /\ Ball_X_Motion' = CASE keycode = "A" -> Backward [] keycode = "D" -> Forward [] OTHER -> 0
  /\ Ball_Y_Motion' = CASE keycode = "W" -> Backward [] keycode = "S" -> Forward [] OTHER -> 0

\* The first edge the ball is at, in this order, sends it back.
Bounce ==
  /\ ~Heeded
  /\ Ball_Y_Motion' = IF flag_bot THEN Backward ELSE IF flag_top THEN Forward ELSE Ball_Y_Motion
  /\ Ball_X_Motion' = IF flag_bot \/ flag_top THEN Ball_X_Motion
                      ELSE IF flag_right THEN Backward ELSE IF flag_left THEN Forward
                      ELSE Ball_X_Motion

\* mutant: the sum is not cut to the width.
MoveWide ==
  /\ Ball_X_Pos' = Ball_X_Pos + Ball_X_Motion
  /\ Ball_Y_Pos' = Ball_Y_Pos + Ball_Y_Motion

\* The ball moves with the motion of the frame before.
Move ==
  /\ Ball_X_Pos' = Plus(Ball_X_Pos, Ball_X_Motion)
  /\ Ball_Y_Pos' = Plus(Ball_Y_Pos, Ball_Y_Motion)

Wraps(pos, mot) == pos = 0 /\ mot = Backward

Frame ==
  /\ Turn \/ Bounce
  /\ Move
  /\ escaped' = (escaped \/ Wraps(Ball_X_Pos, Ball_X_Motion) \/ Wraps(Ball_Y_Pos, Ball_Y_Motion))
  /\ UNCHANGED keycode

PressKey == keycode' \in Keys /\ UNCHANGED <<position, motion, escaped>>

Reset ==
  /\ Ball_X_Pos' = Ball_X_Center /\ Ball_Y_Pos' = Ball_Y_Center
  /\ Ball_X_Motion' = 0 /\ Ball_Y_Motion' = 0
  /\ escaped' = FALSE
  /\ UNCHANGED keycode

BallNext == Frame \/ PressKey \/ Reset

BallSpec == BallInit /\ [][BallNext]_ballVars

\* The frames go on.
BallFairSpec == BallSpec /\ WF_ballVars(Frame)

-----------------------------------------------------------------------------
(* Properties.                                                             *)

\* The center of the ball is on the screen.
OnScreen == Ball_X_Pos <= Ball_X_Max /\ Ball_Y_Pos <= Ball_Y_Max

\* Types: a motion is one step or none.
BallTypeOK ==
  /\ Ball_X_Pos \in 0..Modulus - 1 /\ Ball_Y_Pos \in 0..Modulus - 1
  /\ Ball_X_Motion \in Motions /\ Ball_Y_Motion \in Motions
  /\ keycode \in Keys /\ escaped \in BOOLEAN

\* The edges hold at the bottom and at the right, in the corners too, whatever keys
\* are pressed when: a ball that leaves has gone over the top or the left edge.
StaysInside == ~escaped => OnScreen

\* A ball that is out of sight may stay there; but holding W, or A, brings it back
\* between the horizontal, or the vertical, edges, and keeps it there.
Recalled ==
  /\ <>[](keycode = "W") => <>[](Ball_Y_Pos <= Ball_Y_Max)
  /\ <>[](keycode = "A") => <>[](Ball_X_Pos <= Ball_X_Max)
=============================================================================
