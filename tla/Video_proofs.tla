---------------------------- MODULE Video_proofs -----------------------------
(***************************************************************************)
(* The two circuits that draw: the ball of lab 6 (Ball) and the text       *)
(* screen of lab 7 (VgaText), each for every size of its screen.  They     *)
(* have nothing in common but arithmetic; the ball comes first.            *)
(***************************************************************************)
EXTENDS Ball, VgaText, TLAPS

(* The ball.                                                               *)


\* Before the ball has escaped: the bottom is passed by a step at most.
YInside ==
  /\ Ball_Y_Pos <= Ball_Y_Max - Ball_Size + 1
  /\ Ball_Y_Pos = Ball_Y_Max - Ball_Size + 1 => Ball_Y_Motion # Forward

\* The right edge is passed by four steps at most.
XInside ==
  /\ Ball_X_Pos <= Ball_X_Max - Ball_Size + 4
  /\ Ball_X_Pos = Ball_X_Max - Ball_Size + 4 => Ball_X_Motion # Forward

\* Beyond the right edge the ball goes on to the right only while it leaves the
\* bottom, or the top, which takes fewer frames the further it is.
Corner ==
  Ball_X_Motion = Forward /\ Ball_X_Pos > Ball_X_Max - Ball_Size =>
    \/ /\ Ball_Y_Motion = Backward
       /\ Ball_Y_Pos >= Ball_Y_Max - Ball_Size - 1
       /\ Ball_Y_Pos - (Ball_Y_Max - Ball_Size) <= 2 - (Ball_X_Pos - (Ball_X_Max - Ball_Size))
    \/ /\ Ball_Y_Motion = Forward
       /\ Ball_Y_Pos \in Ball_Size - 1..Ball_Size + 1
       /\ Ball_X_Pos - (Ball_X_Max - Ball_Size) <= 2
       /\ Ball_X_Pos - (Ball_X_Max - Ball_Size) = 2 => Ball_Y_Pos # Ball_Size

Inside == YInside /\ XInside /\ Corner

BallIInv == BallTypeOK /\ (~escaped => Inside)

-----------------------------------------------------------------------------
\* Adding a motion: one step, around the end of the range or not.
LEMMA Moved ==
  ASSUME NEW p \in 0..Modulus - 1, NEW m \in Motions
  PROVE  /\ Plus(p, m) \in 0..Modulus - 1
         /\ m = 0 => Plus(p, m) = p
         /\ m = Backward /\ p > 0 => Plus(p, m) = p - 1
         /\ m = Forward /\ p < Modulus - 1 => Plus(p, m) = p + 1
BY SizeAssumption DEF Plus, Motions, Forward, Backward

\* The edges, of a ball that has not escaped: a distance to the bottom and to the
\* right edge, but a single line and column at the top and at the left edge.
LEMMA Edges ==
  ASSUME BallTypeOK, Inside
  PROVE  /\ flag_bot <=> Ball_Y_Pos >= Ball_Y_Max - Ball_Size
         /\ flag_right <=> Ball_X_Pos >= Ball_X_Max - Ball_Size
         /\ flag_top <=> Ball_Y_Pos = Ball_Size
         /\ flag_left <=> Ball_X_Pos = Ball_Size
BY SizeAssumption DEF BallTypeOK, Inside, YInside, XInside, flag_bot, flag_right, flag_top, flag_left, Plus, Minus

\* The center is far from every edge.
LEMMA Centers ==
  /\ Ball_X_Center \in Nat /\ Ball_X_Center < Ball_X_Max - Ball_Size
  /\ Ball_Y_Center \in Nat /\ Ball_Y_Center < Ball_Y_Max - Ball_Size
BY SizeAssumption, SMTT(30) DEF Ball_X_Center, Ball_Y_Center

\* The motions after a frame.
LEMMA TypedMotion ==
  ASSUME BallTypeOK, Turn \/ Bounce
  PROVE  Ball_X_Motion' \in Motions /\ Ball_Y_Motion' \in Motions
BY DEF BallTypeOK, Turn, Bounce, Motions

\* The types hold at the start and after every step.
LEMMA BallTypeInit == BallInit => BallTypeOK
<1> SUFFICES ASSUME BallInit PROVE BallTypeOK
  OBVIOUS
<1>1. Ball_X_Pos \in 0..Modulus - 1 /\ Ball_Y_Pos \in 0..Modulus - 1
  BY Centers, SizeAssumption DEF BallInit, AtCenter
<1>2. Ball_X_Motion \in Motions /\ Ball_Y_Motion \in Motions
  BY DEF BallInit, AtRest, Motions
<1> QED
  BY <1>1, <1>2, Zenon DEF BallInit, BallTypeOK, Keys

\* Every step keeps the types of the ball.
LEMMA BallTypeStep == BallTypeOK /\ [BallNext]_ballVars => BallTypeOK'
<1> SUFFICES ASSUME BallTypeOK, [BallNext]_ballVars PROVE BallTypeOK'
  OBVIOUS
<1>1. CASE Frame
  <2>1. Ball_X_Pos' \in 0..Modulus - 1 /\ Ball_Y_Pos' \in 0..Modulus - 1
    BY <1>1, Moved DEF Frame, Move, BallTypeOK
  <2> QED
    BY <1>1, <2>1, TypedMotion DEF Frame, BallTypeOK
<1>2. CASE PressKey
  BY <1>2 DEF PressKey, BallTypeOK, position, motion
<1>3. CASE Reset
  <2>1. /\ Ball_X_Pos' \in 0..Modulus - 1 /\ Ball_Y_Pos' \in 0..Modulus - 1
    BY <1>3, Centers, SizeAssumption DEF Reset
  <2>2. Ball_X_Motion' \in Motions /\ Ball_Y_Motion' \in Motions
    BY <1>3 DEF Reset, Motions
  <2> QED
    BY <1>3, <2>1, <2>2, Zenon DEF Reset, BallTypeOK
<1>4. CASE UNCHANGED ballVars
  BY <1>4 DEF ballVars, position, motion, BallTypeOK
<1> QED
  BY <1>1, <1>2, <1>3, <1>4 DEF BallNext

\* A ball at rest in the center is inside.
LEMMA CenterInside ==
  ASSUME AtCenter, AtRest
  PROVE  Inside
BY Centers, SizeAssumption DEF AtCenter, AtRest, Inside, YInside, XInside, Corner, Forward

\* A frame that does not take the ball over the top or the left edge.
LEMMA FrameInside ==
  ASSUME BallTypeOK, Inside, Frame, ~escaped'
  PROVE  Inside'
<1> DEFINE b == Ball_Y_Max - Ball_Size
           r == Ball_X_Max - Ball_Size
<1>1. /\ b \in Int /\ r \in Int /\ b > 3 * Ball_Size /\ r > 3 * Ball_Size
      /\ Ball_Size \in Int /\ Ball_Size >= 4
      /\ r + 4 < Modulus - 1 /\ b + 4 < Modulus - 1 /\ Modulus \in Int
  BY SizeAssumption
<1>2. /\ Ball_X_Pos \in Int /\ Ball_Y_Pos \in Int /\ Ball_X_Pos >= 0 /\ Ball_Y_Pos >= 0
      /\ Ball_X_Pos <= r + 4 /\ Ball_Y_Pos <= b + 1
  BY DEF Inside, XInside, YInside, BallTypeOK
<1>3. /\ \/ Ball_X_Motion = 0 /\ Ball_X_Pos' = Ball_X_Pos
         \/ Ball_X_Motion = Forward /\ Ball_X_Pos' = Ball_X_Pos + 1
         \/ Ball_X_Motion = Backward /\ Ball_X_Pos > 0 /\ Ball_X_Pos' = Ball_X_Pos - 1
      /\ \/ Ball_Y_Motion = 0 /\ Ball_Y_Pos' = Ball_Y_Pos
         \/ Ball_Y_Motion = Forward /\ Ball_Y_Pos' = Ball_Y_Pos + 1
         \/ Ball_Y_Motion = Backward /\ Ball_Y_Pos > 0 /\ Ball_Y_Pos' = Ball_Y_Pos - 1
  <2>1. ~Wraps(Ball_X_Pos, Ball_X_Motion) /\ ~Wraps(Ball_Y_Pos, Ball_Y_Motion)
    BY DEF Frame
  <2>2. Ball_X_Pos' = Plus(Ball_X_Pos, Ball_X_Motion) /\ Ball_Y_Pos' = Plus(Ball_Y_Pos, Ball_Y_Motion)
    BY DEF Frame, Move
  <2>3. /\ Ball_X_Pos \in 0..Modulus - 1 /\ Ball_Y_Pos \in 0..Modulus - 1
        /\ Ball_X_Motion \in Motions /\ Ball_Y_Motion \in Motions
    BY DEF BallTypeOK
  <2>4. /\ Ball_X_Motion \in {0, Forward, Backward} /\ Ball_Y_Motion \in {0, Forward, Backward}
    BY <2>3 DEF Motions
  <2>5. /\ Ball_X_Motion = 0 => Ball_X_Pos' = Ball_X_Pos
        /\ Ball_X_Motion = Forward => Ball_X_Pos' = Ball_X_Pos + 1
        /\ Ball_X_Motion = Backward => Ball_X_Pos > 0 /\ Ball_X_Pos' = Ball_X_Pos - 1
    BY <1>1, <1>2, <2>1, <2>2, <2>3, Moved DEF Wraps
  <2>6. /\ Ball_Y_Motion = 0 => Ball_Y_Pos' = Ball_Y_Pos
        /\ Ball_Y_Motion = Forward => Ball_Y_Pos' = Ball_Y_Pos + 1
        /\ Ball_Y_Motion = Backward => Ball_Y_Pos > 0 /\ Ball_Y_Pos' = Ball_Y_Pos - 1
    BY <1>1, <1>2, <2>1, <2>2, <2>3, Moved DEF Wraps
  <2> QED
    BY <2>4, <2>5, <2>6
<1>4. /\ flag_bot <=> Ball_Y_Pos >= b
      /\ flag_right <=> Ball_X_Pos >= r
      /\ flag_top <=> Ball_Y_Pos = Ball_Size
      /\ flag_left <=> Ball_X_Pos = Ball_Size
  BY Edges
<1>5. 0 # Forward /\ 0 # Backward /\ Forward # Backward
  BY <1>1 DEF Forward, Backward
<1>6. CASE Turn
  <2>1. /\ Ball_X_Motion' = Forward => Ball_X_Pos < r
        /\ Ball_Y_Motion' = Forward => Ball_Y_Pos < b
    <3>1. CASE keycode = "A"
      BY <1>5, <1>6, <3>1 DEF Turn
    <3>2. CASE keycode = "D"
      BY <1>1, <1>2, <1>4, <1>5, <1>6, <3>2 DEF Turn, Heeded
    <3>3. CASE keycode = "S"
      BY <1>1, <1>2, <1>4, <1>5, <1>6, <3>3 DEF Turn, Heeded
    <3>4. CASE keycode = "W"
      BY <1>5, <1>6, <3>4 DEF Turn
    <3> QED
      BY <1>6, <3>1, <3>2, <3>3, <3>4 DEF Turn, Heeded
  <2>2. YInside'
    BY <1>1, <1>2, <1>3, <1>5, <2>1 DEF YInside, Inside
  <2>3. XInside' /\ Corner'
    BY <1>1, <1>2, <1>3, <1>5, <2>1 DEF XInside, Corner, Inside
  <2> QED
    BY <2>2, <2>3 DEF Inside
<1>7. CASE Bounce
  <2>1. CASE Ball_Y_Pos >= b
    <3>1. Ball_Y_Motion' = Backward /\ Ball_X_Motion' = Ball_X_Motion
      BY <1>4, <1>7, <2>1 DEF Bounce
    <3>2. YInside' 
      BY <1>1, <1>2, <1>3, <1>5, <2>1, <3>1 DEF YInside, Inside
    <3>3. XInside' /\ Corner'
      BY <1>1, <1>2, <1>3, <1>5, <2>1, <3>1 DEF XInside, YInside, Corner, Inside
    <3> QED
      BY <3>2, <3>3 DEF Inside
  <2>2. CASE Ball_Y_Pos = Ball_Size
    <3>1. Ball_Y_Motion' = Forward /\ Ball_X_Motion' = Ball_X_Motion
      BY <1>1, <1>4, <1>7, <2>2 DEF Bounce
    <3>2. YInside' 
      BY <1>1, <1>2, <1>3, <1>5, <2>2, <3>1 DEF YInside, Inside
    <3>3. XInside' /\ Corner'
      BY <1>1, <1>2, <1>3, <1>5, <2>2, <3>1 DEF XInside, YInside, Corner, Inside
    <3> QED
      BY <3>2, <3>3 DEF Inside
  <2>3. CASE Ball_Y_Pos < b /\ Ball_Y_Pos # Ball_Size
    <3>1. /\ Ball_Y_Motion' = Ball_Y_Motion
          /\ Ball_X_Motion' = Forward => Ball_X_Pos < r
      BY <1>1, <1>2, <1>4, <1>5, <1>7, <2>3 DEF Bounce
    <3>2. YInside' 
      BY <1>1, <1>2, <1>3, <1>5, <2>3, <3>1 DEF YInside, Inside
    <3>3. XInside' /\ Corner'
      BY <1>1, <1>2, <1>3, <1>5, <2>3, <3>1 DEF XInside, YInside, Corner, Inside
    <3> QED
      BY <3>2, <3>3 DEF Inside
  <2> QED
    BY <1>1, <1>2, <2>1, <2>2, <2>3
<1> QED
  BY <1>6, <1>7 DEF Frame

\* BallIInv is inductive.
THEOREM BallInvariant == BallSpec => []BallIInv
<1>1. BallInit => BallIInv
  BY BallTypeInit, CenterInside DEF BallInit, BallIInv
<1>2. BallIInv /\ [BallNext]_ballVars => BallIInv'
  <2> SUFFICES ASSUME BallIInv, [BallNext]_ballVars, ~escaped' PROVE Inside'
    BY BallTypeStep DEF BallIInv
  <2>1. CASE Frame
    BY <2>1, FrameInside DEF BallIInv, Frame
  <2>2. CASE PressKey \/ UNCHANGED ballVars
    BY <2>2 DEF BallIInv, PressKey, ballVars, position, motion, Inside, YInside, XInside, Corner
  <2>3. CASE Reset
    <3>1. AtCenter' /\ AtRest'
      BY <2>3 DEF Reset, AtCenter, AtRest, Ball_X_Center, Ball_Y_Center
    <3> QED
      BY <3>1, Centers, SizeAssumption DEF AtCenter, AtRest, Inside, YInside, XInside, Corner, Forward, Ball_X_Center, Ball_Y_Center
  <2> QED
    BY <2>1, <2>2, <2>3 DEF BallNext
<1> QED
  BY <1>1, <1>2, PTL DEF BallSpec

\* Positions, motions and the key keep to their types.
THEOREM BallTypes == BallSpec => []BallTypeOK
<1>1. BallIInv => BallTypeOK
  BY DEF BallIInv
<1> QED
  BY <1>1, BallInvariant, PTL

\* A ball that has not gone over the top or the left edge is on the screen.
THEOREM BallEdges == BallSpec => []StaysInside
<1>1. BallIInv => StaysInside
  BY SizeAssumption DEF BallIInv, BallTypeOK, StaysInside, OnScreen, Inside, YInside, XInside
<1> QED
  BY <1>1, BallInvariant, PTL

-----------------------------------------------------------------------------
(* The text screen.                                                        *)

\* What the memory holds of the test's characters.
Blank(n)  == \A cell \in Cells : cell < n => VRAM(cell) = 0
Filled(n) == \A cell \in Cells : cell < n => VRAM(cell) = (cell \div COLUMNS) + (cell % COLUMNS)

\* A copy has written the characters up to its next one, and no others are left.
Copied(step) ==
  \A cell \in Cells :
    VRAM(cell) = IF \/ cell \div COLUMNS < j
                    \/ cell \div COLUMNS = j /\ cell % COLUMNS < step.column[j] + i
                 THEN Picture(step, cell) ELSE 0

\* Twice the sum of the first n bytes of row r.
TwiceSum(r, n) == n * (2 * r + n - 1)

\* What each step of the program finds done.
Contents ==
  /\ Doing("clear") => Blank(i)
  /\ Doing("fill")  => Filled(j * COLUMNS + i)
  /\ Doing("check") => Filled(ROWS * COLUMNS)
  /\ Doing("copy")  => Copied(textVGATest[at])
  /\ Doing("color") /\ at > 1 /\ textVGATest[at - 1].op = "clear" => Blank(ROWS * COLUMNS)
  /\ PictureAtPause

Sums ==
  /\ checksum \in [Rows -> Nat] /\ readsum \in Nat
  /\ Doing("fill") =>
       /\ \A r \in Rows : r < j => 2 * checksum[r] = TwiceSum(r, COLUMNS)
       /\ i > 0 => 2 * checksum[j] = TwiceSum(j, i)
  /\ Doing("check") =>
       /\ \A r \in Rows : 2 * checksum[r] = TwiceSum(r, COLUMNS)
       /\ i > 0 => 2 * readsum = TwiceSum(j, i)

\* The loops' variables.
Loops ==
  /\ at # Mismatch
  /\ Doing("color") \/ Doing("pause") => i = 0 /\ j = 0
  /\ Doing("clear") => i < ROWS * COLUMNS /\ j = 0
  /\ Doing("fill") \/ Doing("check") => i < COLUMNS
  /\ Doing("copy") => j < textVGATest[at].rows /\ i < Len(textVGATest[at].text[j])

\* The register of the memory's second port is ahead of the beam.
Ahead ==
  /\ RESET => clkdiv = 0
  /\ ~RESET /\ clkdiv = 0 /\ written # IndexOf(hc, vc) => VGA_READDATA = ocm[IndexOf(hc, vc)]

\* The inductive invariant.
IInv == TypeOK /\ Loops /\ Contents /\ Sums /\ Ahead

-----------------------------------------------------------------------------
\* The quotient and the remainder of a sum of a multiple and less than one more.
LEMMA Split ==
  ASSUME NEW q \in Nat, NEW d \in Nat \ {0}, NEW r \in 0..d - 1
  PROVE  (q * d + r) \div d = q /\ (q * d + r) % d = r
OBVIOUS

\* A quotient with its remainder.
LEMMA Division ==
  ASSUME NEW n \in Nat, NEW d \in Nat \ {0}
  PROVE  n \div d \in Nat /\ n % d \in 0..d - 1 /\ n = (n \div d) * d + (n % d)
OBVIOUS

\* A quotient grows with its dividend.
LEMMA DivisionMonotone ==
  ASSUME NEW m \in Nat, NEW n \in Nat, NEW d \in Nat \ {0}, m <= n
  PROVE  m \div d <= n \div d
OBVIOUS

\* A product grows with its left operand.
LEMMA ProductMonotone ==
  ASSUME NEW m \in Nat, NEW n \in Nat, NEW d \in Nat, m <= n
  PROVE  m * d <= n * d
OBVIOUS

\* The pairs of columns are the columns, halved.
LEMMA Halves ==
  ASSUME NEW n \in Nat, NEW d \in Nat \ {0}
  PROVE  n \div (2 * d) = (n \div d) \div 2
OBVIOUS

\* The sizes are numbers; a row has whole registers, and the screen whole words.
LEMMA Sizes ==
  /\ ROWS \in Nat \ {0} /\ COLUMNS \in Nat \ {0} /\ CharWidth \in Nat \ {0} /\ CharHeight \in Nat \ {0}
  /\ HBlank \in Nat /\ VBlank \in Nat /\ MaxResets \in Nat
  /\ REG_PER_ROW \in Nat \ {0} /\ COLUMNS = 2 * REG_PER_ROW
  /\ ROWS * COLUMNS \in Nat \ {0} /\ CTRL \in Nat \ {0} /\ ROWS * COLUMNS = 4 * CTRL
  /\ Lines \in Nat \ {0} /\ Pixels \in Nat \ {0}
<1>1. /\ ROWS \in Nat \ {0} /\ COLUMNS \in Nat \ {0} /\ CharWidth \in Nat \ {0} /\ CharHeight \in Nat \ {0}
      /\ HBlank \in Nat /\ VBlank \in Nat /\ MaxResets \in Nat
      /\ COLUMNS % 2 = 0 /\ (ROWS * COLUMNS) % 4 = 0
  BY ScreenAssumption
<1>2. ROWS * COLUMNS \in Nat \ {0} /\ COLUMNS * CharWidth \in Nat \ {0} /\ ROWS * CharHeight \in Nat \ {0}
  BY <1>1
<1>3. REG_PER_ROW \in Nat \ {0} /\ COLUMNS = 2 * REG_PER_ROW
  BY <1>1 DEF REG_PER_ROW
<1>4. CTRL \in Nat \ {0} /\ ROWS * COLUMNS = 4 * CTRL
  <2> DEFINE n == ROWS * COLUMNS
  <2>1. n \in Nat \ {0} /\ n % 4 = 0
    BY <1>1, <1>2
  <2> HIDE DEF n
  <2>2. n \div 4 \in Nat \ {0} /\ n = 4 * (n \div 4)
    BY <2>1
  <2> QED
    BY <2>2 DEF n, CTRL
<1> QED
  BY <1>1, <1>2, <1>3, <1>4 DEF Lines, Pixels

\* A row and a column make a character, and a character a row and a column.
LEMMA CellOf ==
  ASSUME NEW r \in Rows, NEW c \in 0..COLUMNS - 1
  PROVE  /\ r * COLUMNS + c \in Cells
         /\ (r * COLUMNS + c) \div COLUMNS = r /\ (r * COLUMNS + c) % COLUMNS = c
<1>1. r \in Nat /\ r + 1 \in Nat /\ r + 1 <= ROWS /\ COLUMNS \in Nat \ {0} /\ c \in Nat /\ c < COLUMNS
  BY Sizes DEF Rows
<1>2. (r + 1) * COLUMNS <= ROWS * COLUMNS
  BY <1>1, Sizes, ProductMonotone
<1>3. r * COLUMNS \in Nat /\ (r + 1) * COLUMNS = r * COLUMNS + COLUMNS /\ ROWS * COLUMNS \in Nat
  BY <1>1, Sizes
<1>4. r * COLUMNS + c \in Cells
  BY <1>1, <1>2, <1>3 DEF Cells
<1> QED
  BY <1>1, <1>4, Split

\* A character is in one row and one column.
LEMMA RowAndColumn ==
  ASSUME NEW cell \in Cells
  PROVE  /\ cell \in Nat /\ cell < ROWS * COLUMNS
         /\ cell \div COLUMNS \in Rows /\ cell % COLUMNS \in 0..COLUMNS - 1
         /\ cell = (cell \div COLUMNS) * COLUMNS + (cell % COLUMNS)
<1>1. cell \in Nat /\ cell < ROWS * COLUMNS
  BY Sizes DEF Cells
<1>2. /\ cell \div COLUMNS \in Nat /\ cell % COLUMNS \in 0..COLUMNS - 1
      /\ cell = (cell \div COLUMNS) * COLUMNS + (cell % COLUMNS)
  BY <1>1, Sizes, Division
<1>3. cell \div COLUMNS < ROWS
  <2>1. SUFFICES ASSUME ROWS <= cell \div COLUMNS PROVE FALSE
    BY <1>2, Sizes
  <2>2. ROWS * COLUMNS <= (cell \div COLUMNS) * COLUMNS
    BY <1>2, <2>1, Sizes, ProductMonotone
  <2> QED
    BY <1>1, <1>2, <2>2, Sizes
<1> QED
  BY <1>1, <1>2, <1>3, Sizes DEF Rows

\* Four characters to a word of the memory, below the word of CTRL.
LEMMA WordOf ==
  ASSUME NEW cell \in Cells
  PROVE  /\ cell \div 4 \in 0..CTRL - 1 /\ cell % 4 \in Lanes /\ cell = 4 * (cell \div 4) + (cell % 4)
<1>1. cell \in Nat /\ cell < 4 * CTRL /\ CTRL \in Nat
  BY RowAndColumn, Sizes
<1> QED
  BY <1>1 DEF Lanes

\* The beam and the bus stay within the memory.
LEMMA IndexInside ==
  ASSUME NEW x \in 0..Pixels - 1, NEW y \in 0..Lines - 1
  PROVE  IndexOf(x, y) \in Words
<1> DEFINE xm == Pixels - 1  ym == Lines - 1  w == 2 * CharWidth
<1>1. /\ x \in Nat /\ y \in Nat /\ xm \in Nat /\ ym \in Nat /\ w \in Nat \ {0} /\ CharHeight \in Nat \ {0}
      /\ x <= xm /\ y <= ym
  BY Sizes
<1>2. x \div w \in Nat /\ xm \div w \in Nat /\ y \div CharHeight \in Nat /\ ym \div CharHeight \in Nat
  BY <1>1, Division
<1>3. x \div w <= xm \div w /\ y \div CharHeight <= ym \div CharHeight
  BY <1>1, DivisionMonotone
<1>4. (y \div CharHeight) * REG_PER_ROW <= (ym \div CharHeight) * REG_PER_ROW
  BY <1>2, <1>3, Sizes, ProductMonotone
<1>5. (y \div CharHeight) * REG_PER_ROW \in Nat /\ (ym \div CharHeight) * REG_PER_ROW \in Nat
  BY <1>2, Sizes
<1> QED
  BY <1>2, <1>3, <1>4, <1>5 DEF IndexOf, Words

\* CTRL, and all words before it, are in the memory: what the beam reaches is more
\* than what the program writes.
LEMMA ControlInside == CTRL \in Words /\ 0 \in Words /\ 0..CTRL \subseteq Words
<1> DEFINE xm == Pixels - 1  ym == Lines - 1  w == 2 * CharWidth
<1>1. /\ xm \in Nat /\ ym \in Nat /\ w \in Nat \ {0}
  BY Sizes
<1>2. ROWS - 1 <= ym \div CharHeight
  <2>1. (ROWS - 1) * CharHeight + (CharHeight - 1) <= ym
    BY Sizes DEF Lines
  <2>2. (ROWS - 1) * CharHeight + (CharHeight - 1) \in Nat
    BY Sizes
  <2>3. ((ROWS - 1) * CharHeight + (CharHeight - 1)) \div CharHeight = ROWS - 1
    BY Sizes, Split
  <2> QED
    BY <1>1, <2>1, <2>2, <2>3, Sizes, DivisionMonotone
<1>3. REG_PER_ROW - 1 <= xm \div w
  <2>1. (REG_PER_ROW - 1) * w + (w - 1) <= xm
    <3>1. COLUMNS * CharWidth = REG_PER_ROW * w
      BY Sizes
    <3> QED
      BY <3>1, Sizes DEF Pixels
  <2>2. (REG_PER_ROW - 1) * w + (w - 1) \in Nat
    BY <1>1, Sizes
  <2>3. ((REG_PER_ROW - 1) * w + (w - 1)) \div w = REG_PER_ROW - 1
    BY <1>1, Sizes, Split
  <2> QED
    BY <1>1, <2>1, <2>2, <2>3, DivisionMonotone
<1>4. ym \div CharHeight \in Nat /\ xm \div w \in Nat
  BY <1>1, Sizes, Division
<1>5. (ROWS - 1) * REG_PER_ROW <= (ym \div CharHeight) * REG_PER_ROW
  BY <1>2, <1>4, Sizes, ProductMonotone
<1>6. (ROWS - 1) * REG_PER_ROW + REG_PER_ROW = 2 * CTRL
  <2>1. ROWS * (2 * REG_PER_ROW) = 4 * CTRL
    BY Sizes
  <2> QED
    BY <2>1, Sizes
<1>7. (ROWS - 1) * REG_PER_ROW \in Nat /\ (ym \div CharHeight) * REG_PER_ROW \in Nat
  BY <1>4, Sizes
<1>8. CTRL <= IndexOf(xm, ym) /\ IndexOf(xm, ym) \in Nat
  BY <1>3, <1>4, <1>5, <1>6, <1>7, Sizes DEF IndexOf
<1> QED
  BY <1>8, Sizes DEF Words

\* What the program and the texts store are bytes.
LEMMA Bytes ==
  ASSUME NEW n \in Nat
  PROVE  n % 256 \in Byte /\ (n % 128) + 128 \in Byte
BY DEF Byte

\* A byte is a number below 256.
LEMMA BytesAreNumbers == \A b \in Byte : b \in Nat /\ b < 256
BY DEF Byte

\* A cell's byte, by the word and the lane it is in.
LEMMA OtherCell ==
  ASSUME NEW k \in Cells, NEW cell \in Cells, k \div 4 = cell \div 4, k % 4 = cell % 4
  PROVE  k = cell
BY WordOf, Sizes

\* A store changes the byte it is made to.
LEMMA StoreEffect ==
  ASSUME ocm \in [Words -> [Lanes -> Byte]], NEW k \in Cells, NEW b \in Byte, Store(k, b)
  PROVE  /\ ocm' \in [Words -> [Lanes -> Byte]] /\ written' \in 0..CTRL - 1
         /\ \A w \in Words : w # written' => ocm'[w] = ocm[w]
         /\ \A cell \in Cells : VRAM(cell)' = IF cell = k THEN b ELSE VRAM(cell)
<1> DEFINE w == k \div 4  l == k % 4
<1>1. w \in 0..CTRL - 1 /\ w \in Words /\ l \in Lanes /\ CTRL \in Nat
  BY WordOf, ControlInside, Sizes
<1>2. /\ written' = w
      /\ ocm' = [ocm EXCEPT ![w] = [m \in Lanes |-> IF m \in {l} THEN b ELSE ocm[w][m]]]
  BY DEF Store, AvalonWrite
<1>3. ocm' \in [Words -> [Lanes -> Byte]]
  BY <1>1, <1>2
<1>4. ASSUME NEW cell \in Cells PROVE VRAM(cell)' = IF cell = k THEN b ELSE VRAM(cell)
  <2>1. /\ cell \div 4 \in Words /\ cell % 4 \in Lanes
    BY WordOf, ControlInside, Sizes
  <2>2. CASE cell = k
    BY <1>1, <1>2, <2>1, <2>2 DEF VRAM
  <2>3. CASE cell \div 4 # w
    BY <1>1, <1>2, <2>1, <2>3 DEF VRAM
  <2>4. CASE cell \div 4 = w /\ cell % 4 # l
    BY <1>1, <1>2, <2>1, <2>4 DEF VRAM
  <2> QED
    BY <2>2, <2>3, <2>4, OtherCell
<1> QED
  BY <1>1, <1>2, <1>3, <1>4

\* CTRL is behind the characters: to set the color leaves them alone.
LEMMA ColorEffect ==
  ASSUME ocm \in [Words -> [Lanes -> Byte]], textVGASetColor, at \in DOMAIN textVGATest,
         textVGATest[at].value \in Nat
  PROVE  /\ ocm' \in [Words -> [Lanes -> Byte]] /\ written' = CTRL
         /\ \A w \in Words : w # written' => ocm'[w] = ocm[w]
         /\ \A cell \in Cells : VRAM(cell)' = VRAM(cell)
<1> DEFINE data == [l \in Lanes |-> (textVGATest[at].value \div 256 ^ l) % 256]
<1>1. data \in [Lanes -> Byte]
  <2>1. ASSUME NEW l \in Lanes PROVE 256 ^ l \in Nat \ {0}
    <3>1. 256 ^ 0 \in Nat \ {0} /\ 256 ^ 1 \in Nat \ {0} /\ 256 ^ 2 \in Nat \ {0} /\ 256 ^ 3 \in Nat \ {0}
      OBVIOUS
    <3>2. l = 0 \/ l = 1 \/ l = 2 \/ l = 3
      BY DEF Lanes
    <3> QED
      BY <3>1, <3>2, Zenon
  <2>2. ASSUME NEW l \in Lanes PROVE (textVGATest[at].value \div 256 ^ l) % 256 \in Byte
    <3>1. textVGATest[at].value \div 256 ^ l \in Nat
      BY <2>1, Division
    <3> QED
      BY <3>1, Bytes
  <2> QED
    BY <2>2
<1> HIDE DEF data
<1>2. /\ written' = CTRL
      /\ ocm' = [ocm EXCEPT ![CTRL] = [l \in Lanes |-> IF l \in DOMAIN data THEN data[l] ELSE ocm[CTRL][l]]]
  BY DEF textVGASetColor, AvalonWrite, data
<1>3. ocm' \in [Words -> [Lanes -> Byte]]
  BY <1>1, <1>2, ControlInside
<1>4. ASSUME NEW cell \in Cells PROVE VRAM(cell)' = VRAM(cell)
  <2>1. cell \div 4 \in Words /\ cell \div 4 # CTRL
    BY WordOf, ControlInside, Sizes
  <2> QED
    BY <1>2, <2>1, ControlInside DEF VRAM
<1> QED
  BY <1>2, <1>3, <1>4, ControlInside

-----------------------------------------------------------------------------
\* A text that is not empty.
Text(t) == t \in Seq(Byte) /\ Len(t) > 0

\* Each text of the script is a text, the inverted one too.
LEMMA Texts == \A t \in {Green, Red, Blue, Inverted, Completed, inverted} : Text(t)
<1>1. \A t \in {Green, Red, Blue, Inverted, Completed} : Text(t)
  BY TextAssumption DEF Text
<1>2. Text(inverted)
  <2>1. Inverted \in Seq(Byte) /\ Len(Inverted) \in Nat \ {0} /\ DOMAIN Inverted = 1..Len(Inverted)
    BY <1>1 DEF Text
  <2>2. ASSUME NEW c \in 1..Len(Inverted) PROVE (Inverted[c] % 128) + 128 \in Byte
    <3>1. Inverted[c] \in Byte
      BY <2>1
    <3>2. Inverted[c] \in Nat
      BY <3>1, BytesAreNumbers
    <3> QED
      BY <3>2, Bytes
  <2> QED
    BY <2>1, <2>2 DEF inverted, Text
<1> QED
  BY <1>1, <1>2

\* A copy of one of those steps.
IsCopy(step) ==
  /\ step.rows \in 1..ROWS
  /\ DOMAIN step.text = 0..step.rows - 1
  /\ \A r \in 0..step.rows - 1 :
       Text(step.text[r]) /\ step.column[r] \in Nat /\ step.column[r] + Len(step.text[r]) <= COLUMNS

\* Each copy of the script stays in its rows.
LEMMA Copies ==
  ASSUME NEW s \in DOMAIN textVGATest, textVGATest[s].op = "copy"
  PROVE  IsCopy(textVGATest[s])
<1>1. \A r \in DOMAIN textVGATest[s].text :
        textVGATest[s].column[r] + Len(textVGATest[s].text[r]) <= COLUMNS
  BY TextAssumption
<1>2. s \in {8, 12, 16, 20, 24}
  BY DEF textVGATest, color, clear, pause, copy
<1>3. Rows = 0..ROWS - 1 /\ ROWS \in Nat \ {0}
  BY Sizes DEF Rows
<1>4. /\ textVGATest[s].rows \in 1..ROWS
      /\ DOMAIN textVGATest[s].text = 0..textVGATest[s].rows - 1
      /\ \A r \in 0..textVGATest[s].rows - 1 : Text(textVGATest[s].text[r]) /\ textVGATest[s].column[r] \in Nat
  <2>1. CASE s = 8
    <3>1. textVGATest[s] = copy(ROWS, [r \in Rows |-> Green], [r \in Rows |-> r])
      BY <2>1 DEF textVGATest
    <3> QED
      BY <1>3, <3>1, Texts DEF copy
  <2>2. CASE s = 12
    <3>1. textVGATest[s] = copy(ROWS, [r \in Rows |-> Red], [r \in Rows |-> ROWS - r])
      BY <2>2 DEF textVGATest
    <3> QED
      BY <1>3, <3>1, Texts DEF copy
  <2>3. CASE s = 16
    <3>1. textVGATest[s] = copy(ROWS, [r \in Rows |-> Blue], [r \in Rows |-> 0])
      BY <2>3 DEF textVGATest
    <3> QED
      BY <1>3, <3>1, Texts DEF copy
  <2>4. CASE s = 20
    <3>1. textVGATest[s] = copy(ROWS, [r \in Rows |-> IF r % 2 = 0 THEN Green ELSE inverted], [r \in Rows |-> r])
      BY <2>4 DEF textVGATest
    <3> QED
      BY <1>3, <3>1, Texts DEF copy
  <2>5. CASE s = 24
    <3>1. textVGATest[s] = copy(1, [r \in {0} |-> Completed], [r \in {0} |-> 0])
      BY <2>5 DEF textVGATest
    <3> QED
      BY <1>3, <3>1, Texts DEF copy
  <2> QED
    BY <1>2, <2>1, <2>2, <2>3, <2>4, <2>5
<1> QED
  BY <1>1, <1>4 DEF IsCopy

\* What each step of the script is, and what may follow it.
LEMMA Script ==
  /\ DOMAIN textVGATest = 1..25 /\ Ended = 26
  /\ \A s \in 1..25 :
       LET op == textVGATest[s].op
           next == textVGATest[s + 1].op
       IN  /\ op \in {"color", "clear", "fill", "check", "copy", "pause"}
           /\ op = "color" => /\ textVGATest[s].value \in Nat
                              /\ s < 25 /\ next \in {"clear", "copy"}
                              /\ next = "copy" => s > 1 /\ textVGATest[s - 1].op = "clear"
           /\ op = "clear" => s < 25 /\ next \in {"fill", "copy", "color"}
           /\ op = "fill" => s < 25 /\ next = "check"
           /\ op \in {"check", "copy"} => s < 25 /\ next = "pause"
           /\ op = "pause" /\ s < 25 => next \in {"color", "clear"}
<1>1. DOMAIN textVGATest = 1..25 /\ Ended = 26
  BY DEF textVGATest, Ended
<1>2. ASSUME NEW s \in {1, 6, 10, 14, 19, 22}
      PROVE  textVGATest[s].op = "color" /\ textVGATest[s].value \in Nat
  BY DEF textVGATest, color, BLACK, WHITE
<1>3. \A s \in {2, 7, 11, 15, 18, 23} : textVGATest[s].op = "clear"
  BY DEF textVGATest, clear
<1>4. textVGATest[3].op = "fill" /\ textVGATest[4].op = "check"
  BY DEF textVGATest
<1>5. \A s \in {8, 12, 16, 20, 24} : textVGATest[s].op = "copy"
  BY DEF textVGATest, copy
<1>6. \A s \in {5, 9, 13, 17, 21, 25} : textVGATest[s].op = "pause"
  BY DEF textVGATest, pause
<1> QED
  BY <1>1, <1>2, <1>3, <1>4, <1>5, <1>6
-----------------------------------------------------------------------------
\* A step of the program begins with its loops' variables at zero.
LEMMA EnterLoops ==
  ASSUME at' \in 1..Ended, i' = 0, j' = 0
  PROVE  /\ at' \in Mismatch..Ended /\ i' \in 0..ROWS * COLUMNS /\ j' \in Rows
         /\ Loops'
<1>1. at' \in Mismatch..Ended /\ at' # Mismatch
  BY Script DEF Mismatch
<1>2. i' \in 0..ROWS * COLUMNS /\ j' \in Rows
  BY Sizes DEF Rows
<1>3. Doing("clear")' => i' < ROWS * COLUMNS /\ j' = 0
  BY Sizes
<1>4. Doing("fill")' \/ Doing("check")' => i' < COLUMNS
  BY Sizes
<1>5. Doing("copy")' => j' < textVGATest[at'].rows /\ i' < Len(textVGATest[at'].text[j'])
  <2> SUFFICES ASSUME Doing("copy")' PROVE j' < textVGATest[at'].rows /\ i' < Len(textVGATest[at'].text[j'])
    OBVIOUS
  <2>1. IsCopy(textVGATest[at'])
    BY Copies DEF Doing
  <2>2. textVGATest[at'].rows \in 1..ROWS /\ 0 \in 0..textVGATest[at'].rows - 1
    BY <2>1, Sizes DEF IsCopy
  <2>3. Len(textVGATest[at'].text[0]) > 0
    BY <2>1, <2>2 DEF IsCopy, Text
  <2> QED
    BY <2>2, <2>3, Sizes
<1> QED
  BY <1>1, <1>2, <1>3, <1>4, <1>5 DEF Loops

\* A character before its text's column, or behind its text, is blank.
LEMMA Margins ==
  ASSUME NEW s \in DOMAIN textVGATest, textVGATest[s].op = "copy", NEW cell \in Cells
  PROVE  LET step == textVGATest[s]
             r == cell \div COLUMNS
             c == cell % COLUMNS
         IN  /\ r \in 0..step.rows - 1 =>
                  /\ c < step.column[r] => Picture(step, cell) = 0
                  /\ c >= step.column[r] + Len(step.text[r]) => Picture(step, cell) = 0
                  /\ c >= step.column[r] /\ c < step.column[r] + Len(step.text[r]) =>
                       Picture(step, cell) = step.text[r][c - step.column[r] + 1]
             /\ r >= step.rows => Picture(step, cell) = 0
<1> DEFINE step == textVGATest[s]
           r == cell \div COLUMNS
           c == cell % COLUMNS
<1>1. IsCopy(step) /\ step.op = "copy"
  BY Copies
<1>2. r \in Nat /\ c \in Nat /\ step.rows \in Nat
  <2>1. r \in Nat /\ c \in Nat
    BY RowAndColumn, Sizes DEF Rows
  <2>2. step.rows \in Nat
    BY <1>1, Sizes DEF IsCopy
  <2> QED
    BY <2>1, <2>2
<1>3. Picture(step, cell) = IF r \in DOMAIN step.text /\ c - step.column[r] + 1 \in DOMAIN step.text[r]
                            THEN step.text[r][c - step.column[r] + 1] ELSE 0
  BY <1>1 DEF Picture
<1>4. r \in 0..step.rows - 1 =>
        /\ step.column[r] \in Nat /\ Len(step.text[r]) \in Nat
        /\ DOMAIN step.text[r] = 1..Len(step.text[r])
  BY <1>1 DEF IsCopy, Text
<1>5. DOMAIN step.text = 0..step.rows - 1
  BY <1>1 DEF IsCopy
<1> HIDE DEF step, r, c
<1>6. r \in 0..step.rows - 1 =>
        /\ c < step.column[r] => Picture(step, cell) = 0
        /\ c >= step.column[r] + Len(step.text[r]) => Picture(step, cell) = 0
        /\ c >= step.column[r] /\ c < step.column[r] + Len(step.text[r]) =>
             Picture(step, cell) = step.text[r][c - step.column[r] + 1]
  <2> SUFFICES ASSUME r \in 0..step.rows - 1
               PROVE  /\ c < step.column[r] => Picture(step, cell) = 0
                      /\ c >= step.column[r] + Len(step.text[r]) => Picture(step, cell) = 0
                      /\ c >= step.column[r] /\ c < step.column[r] + Len(step.text[r]) =>
                           Picture(step, cell) = step.text[r][c - step.column[r] + 1]
    OBVIOUS
  <2> DEFINE col == step.column[r]  n == Len(step.text[r])
  <2>1. col \in Nat /\ n \in Nat
    BY <1>4
  <2>2. Picture(step, cell) = IF c - col + 1 \in 1..n THEN step.text[r][c - col + 1] ELSE 0
    BY <1>3, <1>4, <1>5
  <2>3. c - col + 1 \in 1..n <=> c >= col /\ c < col + n
    <3> HIDE DEF col, n
    <3> QED
      BY <1>2, <2>1
  <2>4. /\ c < col => ~(c >= col)
        /\ c >= col + n => ~(c < col + n)
    <3> HIDE DEF col, n
    <3> QED
      BY <1>2, <2>1
  <2> QED
    BY <2>2, <2>3, <2>4, Zenon
<1>7. r >= step.rows => Picture(step, cell) = 0
  BY <1>2, <1>3, <1>5
<1> QED
  BY <1>6, <1>7 DEF step, r, c

\* What a step of the program must find when it begins.
LEMMA EnterContents ==
  ASSUME at' \in 1..Ended, i' = 0, j' = 0,
         Doing("check")' => Filled(ROWS * COLUMNS)',
         Doing("copy")' => Blank(ROWS * COLUMNS)',
         Doing("color")' /\ at' > 1 /\ textVGATest[at' - 1].op = "clear" => Blank(ROWS * COLUMNS)',
         PictureAtPause'
  PROVE  Contents'
<1>1. Doing("clear")' => Blank(i)'
  BY Sizes DEF Blank, Cells
<1>2. Doing("fill")' => Filled(j * COLUMNS + i)'
  BY Sizes DEF Filled, Cells
<1>3. Doing("copy")' => Copied(textVGATest[at])'
  <2> SUFFICES ASSUME Doing("copy")', NEW cell \in Cells
               PROVE  VRAM(cell)' = IF \/ cell \div COLUMNS < j'
                                       \/ cell \div COLUMNS = j' /\ cell % COLUMNS < textVGATest[at'].column[j'] + i'
                                    THEN Picture(textVGATest[at'], cell) ELSE 0
    BY DEF Copied
  <2>1. VRAM(cell)' = 0
    BY RowAndColumn DEF Blank
  <2>2. IsCopy(textVGATest[at']) /\ at' \in DOMAIN textVGATest /\ textVGATest[at'].op = "copy"
    BY Copies DEF Doing
  <2>3. textVGATest[at'].rows \in 1..ROWS /\ 0 \in 0..textVGATest[at'].rows - 1 /\ textVGATest[at'].column[0] \in Nat
    BY <2>2, Sizes DEF IsCopy
  <2>4. cell \div COLUMNS \in Nat /\ cell % COLUMNS \in Nat
    BY RowAndColumn, Sizes DEF Rows
  <2>5. cell \div COLUMNS = 0 /\ cell % COLUMNS < textVGATest[at'].column[0] => Picture(textVGATest[at'], cell) = 0
    BY <2>2, <2>3, Margins
  <2> QED
    BY <2>1, <2>3, <2>4, <2>5
<1> QED
  BY <1>1, <1>2, <1>3 DEF Contents

-----------------------------------------------------------------------------
\* The invariant's part that is about the program: each of its steps keeps it.
ProgramInv ==
  /\ at \in Mismatch..Ended /\ i \in 0..ROWS * COLUMNS /\ j \in Rows
  /\ Loops /\ Contents /\ Sums

\* The type of the memory.
Memory == ocm \in [Words -> [Lanes -> Byte]]

\* The program is at a step of the script.
LEMMA Step ==
  ASSUME ProgramInv, NEW op, Doing(op)
  PROVE  /\ at \in 1..25 /\ at \in DOMAIN textVGATest /\ textVGATest[at].op = op
         /\ at + 1 \in 1..Ended
         /\ i \in Nat /\ j \in Nat /\ j < ROWS /\ ROWS \in Nat /\ COLUMNS \in Nat \ {0}
BY Script, Sizes DEF Doing, ProgramInv, Rows

\* To set the color leaves the characters as they are.
LEMMA ColorStep ==
  ASSUME ProgramInv, Memory, textVGASetColor
  PROVE  ProgramInv'
<1>1. /\ at \in 1..25 /\ at \in DOMAIN textVGATest /\ textVGATest[at].op = "color" /\ at + 1 \in 1..Ended
  BY Step DEF textVGASetColor
<1>2. at' = at + 1 /\ i' = 0 /\ j' = 0 /\ checksum' = checksum /\ readsum' = readsum
  BY DEF textVGASetColor, GoOn
<1>3. at' \in DOMAIN textVGATest /\ textVGATest[at'].op \in {"clear", "copy"}
  BY <1>1, <1>2, Script
<1>4. \A cell \in Cells : VRAM(cell)' = VRAM(cell)
  BY <1>1, Script, ColorEffect DEF Memory
<1>5. Doing("copy")' => Blank(ROWS * COLUMNS)'
  <2>1. Doing("copy")' => Blank(ROWS * COLUMNS)
    BY <1>1, <1>2, Script DEF Doing, ProgramInv, Contents
  <2> QED
    BY <1>4, <2>1 DEF Blank
<1>6. Contents'
  BY <1>1, <1>2, <1>3, <1>5, EnterContents DEF Doing, PictureAtPause
<1>7. Sums'
  BY <1>2, <1>3 DEF ProgramInv, Sums, Doing
<1> QED
  BY <1>1, <1>2, <1>6, <1>7, EnterLoops DEF ProgramInv

\* One more character is cleared.
LEMMA ClearStep ==
  ASSUME ProgramInv, Memory, textVGAClr
  PROVE  ProgramInv'
<1>1. /\ at \in 1..25 /\ at \in DOMAIN textVGATest /\ textVGATest[at].op = "clear" /\ at + 1 \in 1..Ended
      /\ i \in Nat /\ j \in Nat
  BY Step DEF textVGAClr
<1>2. Doing("clear") /\ checksum' = checksum /\ readsum' = readsum /\ Store(i, 0)
  BY DEF textVGAClr
<1>3. i < ROWS * COLUMNS /\ j = 0 /\ Blank(i)
  BY <1>2 DEF ProgramInv, Loops, Contents
<1>4. i \in Cells /\ 0 \in Byte
  BY <1>1, <1>3, Sizes DEF Cells, Byte
<1>5. \A cell \in Cells : VRAM(cell)' = IF cell = i THEN 0 ELSE VRAM(cell)
  BY <1>2, <1>4, StoreEffect DEF Memory
<1>6. \A cell \in Cells : cell < i + 1 => VRAM(cell)' = 0
  <2> SUFFICES ASSUME NEW cell \in Cells, cell < i + 1 PROVE VRAM(cell)' = 0
    OBVIOUS
  <2>1. cell = i \/ cell < i
    BY <1>1, RowAndColumn
  <2> QED
    BY <1>3, <1>5, <2>1 DEF Blank
<1>7. CASE i = ROWS * COLUMNS - 1
  <2>1. at' = at + 1 /\ i' = 0 /\ j' = 0
    BY <1>7 DEF textVGAClr, GoOn
  <2>2. textVGATest[at'].op \in {"fill", "copy", "color"} /\ at' \in DOMAIN textVGATest
    BY <1>1, <2>1, Script
  <2>3. Blank(ROWS * COLUMNS)'
    BY <1>6, <1>7, Sizes DEF Blank
  <2>4. Contents'
    BY <1>1, <2>1, <2>2, <2>3, EnterContents DEF Doing, PictureAtPause
  <2>5. Sums'
    BY <1>2, <2>1, <2>2 DEF ProgramInv, Sums, Doing, Rows
  <2> QED
    BY <1>1, <2>1, <2>4, <2>5, EnterLoops DEF ProgramInv
<1>8. CASE i # ROWS * COLUMNS - 1
  <2>1. at' = at /\ i' = i + 1 /\ j' = j
    BY <1>8 DEF textVGAClr
  <2>2. i' \in 0..ROWS * COLUMNS /\ i' < ROWS * COLUMNS
    BY <1>1, <1>3, <1>8, <2>1, Sizes
  <2>3. Contents'
    BY <1>1, <1>6, <2>1 DEF Contents, Blank, PictureAtPause, Doing
  <2>4. Sums'
    BY <1>1, <1>2, <2>1 DEF ProgramInv, Sums, Doing
  <2>5. Loops'
    BY <1>1, <1>3, <2>1, <2>2 DEF ProgramInv, Loops, Doing
  <2> QED
    BY <2>1, <2>2, <2>3, <2>4, <2>5 DEF ProgramInv
<1> QED
  BY <1>7, <1>8

\* The turns of a double loop of n by m characters, at character (j, i).
LEMMA Turns ==
  ASSUME NEW n \in Nat, NEW m \in Nat, i \in Nat, j \in Nat, i < n, j < m, NextTurn(n, m)
  PROVE  \/ i < n - 1 /\ i' = i + 1 /\ j' = j /\ at' = at
         \/ i = n - 1 /\ j < m - 1 /\ i' = 0 /\ j' = j + 1 /\ at' = at
         \/ i = n - 1 /\ j = m - 1 /\ i' = 0 /\ j' = 0 /\ at' = at + 1
BY DEF NextTurn, GoOn

\* One more character in the sum of a row.
LEMMA OneMore ==
  ASSUME NEW n \in Nat, NEW r \in Nat, NEW s \in Nat, NEW t \in Nat,
         n > 0 => 2 * s = TwiceSum(r, n), t = (IF n = 0 THEN 0 ELSE s) + n + r
  PROVE  2 * t = TwiceSum(r, n + 1)
<1>1. TwiceSum(r, n + 1) = TwiceSum(r, n) + 2 * (n + r)
  BY DEF TwiceSum
<1>2. TwiceSum(r, n) \in Int /\ (n = 0 => TwiceSum(r, n) = 0)
  BY DEF TwiceSum
<1> HIDE DEF TwiceSum
<1> QED
  BY <1>1, <1>2

\* One more character of the test is written, and counted in its row's sum.
LEMMA FillStep ==
  ASSUME ProgramInv, Memory, Fill
  PROVE  ProgramInv'
<1> DEFINE k == j * COLUMNS + i
<1>1. /\ at \in 1..25 /\ at \in DOMAIN textVGATest /\ textVGATest[at].op = "fill" /\ at + 1 \in 1..Ended
      /\ i \in Nat /\ j \in Nat /\ j < ROWS /\ ROWS \in Nat /\ COLUMNS \in Nat \ {0}
  BY Step DEF Fill
<1>2. /\ Doing("fill") /\ readsum' = readsum /\ Store(k, (i + j) % 256) /\ NextTurn(COLUMNS, ROWS)
      /\ checksum' = [checksum EXCEPT ![j] = (IF i = 0 THEN 0 ELSE checksum[j]) + i + j]
  BY DEF Fill
<1>3. i < COLUMNS /\ Filled(k) /\ j \in Rows /\ checksum \in [Rows -> Nat] /\ readsum \in Nat
  BY <1>2 DEF ProgramInv, Loops, Contents, Sums
<1>4. /\ k \in Cells /\ k \div COLUMNS = j /\ k % COLUMNS = i
  <2>1. i \in 0..COLUMNS - 1
    BY <1>1, <1>3
  <2> QED
    BY <1>3, <2>1, CellOf
<1>5. (i + j) % 256 = j + i /\ (i + j) % 256 \in Byte
  <2>1. i + j \in Nat /\ i + j < 256
    BY <1>1, <1>3, ScreenAssumption
  <2>2. (i + j) % 256 = i + j
    BY <2>1
  <2> QED
    BY <1>1, <2>1, <2>2, Bytes
<1> HIDE DEF k
<1>6. \A cell \in Cells : VRAM(cell)' = IF cell = k THEN j + i ELSE VRAM(cell)
  BY <1>2, <1>4, <1>5, StoreEffect DEF Memory
<1>7. \A cell \in Cells : cell < k + 1 => VRAM(cell)' = (cell \div COLUMNS) + (cell % COLUMNS)
  <2> SUFFICES ASSUME NEW cell \in Cells, cell < k + 1
               PROVE  VRAM(cell)' = (cell \div COLUMNS) + (cell % COLUMNS)
    OBVIOUS
  <2>1. cell = k \/ cell < k
    BY <1>4, RowAndColumn
  <2>2. CASE cell = k
    BY <1>4, <1>6, <2>2
  <2>3. CASE cell < k
    <3>1. cell # k
      BY <1>4, <2>3, RowAndColumn
    <3> QED
      BY <1>3, <1>6, <2>3, <3>1 DEF Filled
  <2> QED
    BY <2>1, <2>2, <2>3
<1>8. /\ checksum' \in [Rows -> Nat]
      /\ 2 * checksum'[j] = TwiceSum(j, i + 1)
      /\ \A r \in Rows : r # j => checksum'[r] = checksum[r]
      /\ \A r \in Rows : r < j => 2 * checksum[r] = TwiceSum(r, COLUMNS)
  <2>1. checksum[j] \in Nat /\ (IF i = 0 THEN 0 ELSE checksum[j]) + i + j \in Nat
    BY <1>1, <1>3
  <2>2. checksum'[j] = (IF i = 0 THEN 0 ELSE checksum[j]) + i + j
    BY <1>2, <1>3
  <2>3. i > 0 => 2 * checksum[j] = TwiceSum(j, i)
    BY <1>2 DEF ProgramInv, Sums
  <2>4. 2 * checksum'[j] = TwiceSum(j, i + 1)
    <3> DEFINE s == checksum[j]  t == checksum'[j]
    <3>1. s \in Nat /\ t \in Nat /\ t = (IF i = 0 THEN 0 ELSE s) + i + j /\ (i > 0 => 2 * s = TwiceSum(j, i))
      BY <2>1, <2>2, <2>3
    <3> HIDE DEF s, t
    <3>2. 2 * t = TwiceSum(j, i + 1)
      BY <1>1, <3>1, OneMore
    <3> QED
      BY <3>2 DEF t
  <2>5. \A r \in Rows : r < j => 2 * checksum[r] = TwiceSum(r, COLUMNS)
    BY <1>2 DEF ProgramInv, Sums
  <2> QED
    BY <1>2, <1>3, <2>1, <2>4, <2>5
<1>9. \A r \in Rows : r \in Nat /\ r < ROWS
  BY <1>1 DEF Rows
<1>10. CASE i < COLUMNS - 1 /\ i' = i + 1 /\ j' = j /\ at' = at
  <2>1. j' * COLUMNS + i' = k + 1
    BY <1>1, <1>10 DEF k
  <2>2. Filled(j * COLUMNS + i)'
    BY <1>7, <2>1 DEF Filled
  <2>3. Contents'
    BY <1>1, <1>10, <2>2 DEF Contents, PictureAtPause, Doing
  <2>4. Sums'
    BY <1>1, <1>2, <1>3, <1>8, <1>9, <1>10 DEF Sums, Doing
  <2>5. Loops' /\ i' \in 0..ROWS * COLUMNS
    <3>1. i' \in Nat /\ i' < COLUMNS /\ COLUMNS <= ROWS * COLUMNS
      BY <1>1, <1>10
    <3>2. i' \in 0..ROWS * COLUMNS
      BY <3>1, Sizes
    <3> QED
      BY <1>1, <1>10, <3>1, <3>2 DEF ProgramInv, Loops, Doing
  <2> QED
    BY <1>3, <1>10, <2>3, <2>4, <2>5 DEF ProgramInv
<1>11. CASE i = COLUMNS - 1 /\ j < ROWS - 1 /\ i' = 0 /\ j' = j + 1 /\ at' = at
  <2>1. j' * COLUMNS + i' = k + 1
    BY <1>1, <1>11 DEF k
  <2>2. Filled(j * COLUMNS + i)'
    BY <1>7, <2>1 DEF Filled
  <2>3. Contents'
    BY <1>1, <1>11, <2>2 DEF Contents, PictureAtPause, Doing
  <2>4. Sums'
    <3>1. \A r \in Rows : r < j + 1 => 2 * checksum'[r] = TwiceSum(r, COLUMNS)
      <4> SUFFICES ASSUME NEW r \in Rows, r < j + 1 PROVE 2 * checksum'[r] = TwiceSum(r, COLUMNS)
        OBVIOUS
      <4>1. CASE r = j
        BY <1>1, <1>8, <1>11, <4>1
      <4>2. CASE r # j
        BY <1>1, <1>8, <1>9, <4>2
      <4> QED
        BY <4>1, <4>2
    <3> QED
      BY <1>1, <1>2, <1>3, <1>8, <1>11, <3>1 DEF Sums, Doing
  <2>5. Loops' /\ i' \in 0..ROWS * COLUMNS /\ j' \in Rows
    <3>1. i' \in 0..ROWS * COLUMNS /\ j' \in Rows
      BY <1>1, <1>11, Sizes DEF Rows
    <3> QED
      BY <1>1, <1>11, <3>1 DEF ProgramInv, Loops, Doing
  <2> QED
    BY <1>1, <1>11, <2>3, <2>4, <2>5 DEF ProgramInv
<1>12. CASE i = COLUMNS - 1 /\ j = ROWS - 1 /\ i' = 0 /\ j' = 0 /\ at' = at + 1
  <2>1. textVGATest[at'].op = "check" /\ at' \in DOMAIN textVGATest
    BY <1>1, <1>12, Script
  <2>2. k + 1 = ROWS * COLUMNS
    BY <1>1, <1>12 DEF k
  <2>3. Filled(ROWS * COLUMNS)'
    BY <1>7, <2>2 DEF Filled
  <2>4. Contents'
    BY <1>1, <1>12, <2>1, <2>3, EnterContents DEF Doing, PictureAtPause
  <2>5. Sums'
    <3>1. \A r \in Rows : 2 * checksum'[r] = TwiceSum(r, COLUMNS)
      <4> SUFFICES ASSUME NEW r \in Rows PROVE 2 * checksum'[r] = TwiceSum(r, COLUMNS)
        OBVIOUS
      <4>1. CASE r = j
        BY <1>1, <1>8, <1>12, <4>1
      <4>2. CASE r # j
        BY <1>1, <1>8, <1>9, <1>12, <4>2
      <4> QED
        BY <4>1, <4>2
    <3> QED
      BY <1>2, <1>3, <1>8, <1>12, <2>1, <3>1 DEF Sums, Doing
  <2> QED
    BY <1>1, <1>12, <2>4, <2>5, EnterLoops DEF ProgramInv
<1> QED
  BY <1>1, <1>2, <1>3, <1>10, <1>11, <1>12, Turns

\* The bus is read, or idle: the memory stays.
LEMMA NoWriteEffect ==
  ASSUME NoWrite
  PROVE  ocm' = ocm /\ written' = -1 /\ \A cell \in Cells : VRAM(cell)' = VRAM(cell)
BY DEF NoWrite, VRAM

\* One more character is read back; the sum of a row is the one it was written with.
LEMMA CheckStep ==
  ASSUME ProgramInv, Memory, Check
  PROVE  ProgramInv'
<1>1. /\ at \in 1..25 /\ at \in DOMAIN textVGATest /\ textVGATest[at].op = "check" /\ at + 1 \in 1..Ended
      /\ i \in Nat /\ j \in Nat /\ j < ROWS /\ ROWS \in Nat /\ COLUMNS \in Nat \ {0}
  BY Step DEF Check
<1>2. /\ Doing("check") /\ checksum' = checksum /\ NoWrite
      /\ readsum' = (IF i = 0 THEN 0 ELSE readsum) + VRAM(j * COLUMNS + i)
  BY DEF Check
<1>3. /\ i < COLUMNS /\ Filled(ROWS * COLUMNS) /\ j \in Rows
      /\ checksum \in [Rows -> Nat] /\ readsum \in Nat
      /\ \A r \in Rows : 2 * checksum[r] = TwiceSum(r, COLUMNS)
      /\ i > 0 => 2 * readsum = TwiceSum(j, i)
  BY <1>2 DEF ProgramInv, Loops, Contents, Sums
<1>4. VRAM(j * COLUMNS + i) = j + i
  <2>1. i \in 0..COLUMNS - 1
    BY <1>1, <1>3
  <2>2. /\ j * COLUMNS + i \in Cells
        /\ (j * COLUMNS + i) \div COLUMNS = j /\ (j * COLUMNS + i) % COLUMNS = i
    BY <1>3, <2>1, CellOf
  <2> QED
    BY <1>3, <2>2, RowAndColumn DEF Filled
<1>5. readsum' \in Nat /\ 2 * readsum' = TwiceSum(j, i + 1)
  <2> DEFINE t == readsum'
  <2>1. /\ readsum \in Nat /\ t \in Nat /\ t = (IF i = 0 THEN 0 ELSE readsum) + i + j
        /\ i > 0 => 2 * readsum = TwiceSum(j, i)
    BY <1>1, <1>2, <1>3, <1>4
  <2> HIDE DEF t
  <2>2. 2 * t = TwiceSum(j, i + 1)
    BY <1>1, <2>1, OneMore
  <2> QED
    BY <2>1, <2>2 DEF t
<1>6. i = COLUMNS - 1 => readsum' = checksum[j]
  <2> SUFFICES ASSUME i = COLUMNS - 1 PROVE readsum' = checksum[j]
    OBVIOUS
  <2>1. 2 * readsum' = 2 * checksum[j] /\ checksum[j] \in Nat
    BY <1>1, <1>3, <1>5
  <2> QED
    BY <1>5, <2>1
<1>7. NextTurn(COLUMNS, ROWS)
  BY <1>6 DEF Check
<1>8. \A cell \in Cells : VRAM(cell)' = VRAM(cell)
  BY <1>2, NoWriteEffect
<1>9. Filled(ROWS * COLUMNS)'
  BY <1>3, <1>8 DEF Filled
<1>10. ASSUME at' = at, i' \in Nat, i' < COLUMNS, j' \in Rows, i' > 0 => i' = i + 1 /\ j' = j
       PROVE  ProgramInv'
  <2>1. i' \in 0..ROWS * COLUMNS
    <3>1. COLUMNS <= ROWS * COLUMNS
      BY <1>1
    <3> QED
      BY <1>1, <1>10, <3>1, Sizes
  <2>2. Loops'
    BY <1>1, <1>10 DEF ProgramInv, Loops, Doing
  <2>3. Contents'
    BY <1>1, <1>9, <1>10 DEF Contents, PictureAtPause, Doing
  <2>4. Sums'
    BY <1>1, <1>2, <1>3, <1>5, <1>10 DEF Sums, Doing
  <2> QED
    BY <1>10, <2>1, <2>2, <2>3, <2>4 DEF ProgramInv
<1>11. CASE i < COLUMNS - 1 /\ i' = i + 1 /\ j' = j /\ at' = at
  BY <1>1, <1>3, <1>10, <1>11
<1>12. CASE i = COLUMNS - 1 /\ j < ROWS - 1 /\ i' = 0 /\ j' = j + 1 /\ at' = at
  <2>1. j' \in Rows /\ i' \in Nat /\ i' < COLUMNS
    BY <1>1, <1>12 DEF Rows
  <2> QED
    BY <1>10, <1>12, <2>1
<1>13. CASE i = COLUMNS - 1 /\ j = ROWS - 1 /\ i' = 0 /\ j' = 0 /\ at' = at + 1
  <2>1. textVGATest[at'].op = "pause" /\ at' \in DOMAIN textVGATest /\ at' - 1 = at
    BY <1>1, <1>13, Script
  <2>2. PictureAtPause'
    BY <1>1, <1>9, <2>1, RowAndColumn DEF PictureAtPause, Picture, Filled
  <2>3. Contents'
    BY <1>1, <1>13, <2>1, <2>2, EnterContents DEF Doing
  <2>4. Sums'
    BY <1>2, <1>3, <1>5, <2>1 DEF Sums, Doing
  <2> QED
    BY <1>1, <1>13, <2>3, <2>4, EnterLoops DEF ProgramInv
<1> QED
  BY <1>1, <1>3, <1>7, <1>11, <1>12, <1>13, Turns

\* A character of a text is copied to its place.
LEMMA CopyStep ==
  ASSUME ProgramInv, Memory, memcpy
  PROVE  ProgramInv'
<1> DEFINE step == textVGATest[at]
           col == step.column[j]
           n == Len(step.text[j])
           k == j * COLUMNS + (col + i)
<1>1. /\ at \in 1..25 /\ at \in DOMAIN textVGATest /\ step.op = "copy" /\ at + 1 \in 1..Ended
      /\ i \in Nat /\ j \in Nat /\ j < ROWS /\ ROWS \in Nat /\ COLUMNS \in Nat \ {0}
  BY Step DEF memcpy
<1>2. /\ Doing("copy") /\ checksum' = checksum /\ readsum' = readsum
      /\ Store(j * COLUMNS + col + i, step.text[j][i + 1]) /\ NextTurn(n, step.rows)
  BY DEF memcpy
<1>3. IsCopy(step)
  BY <1>1, Copies
<1>4. j < step.rows /\ i < n /\ Copied(step) /\ j \in Rows
  BY <1>2 DEF ProgramInv, Loops, Contents
<1>5. step.rows \in Nat /\ step.rows <= ROWS /\ j \in 0..step.rows - 1
  BY <1>1, <1>3, <1>4 DEF IsCopy
<1>6. col \in Nat /\ n \in Nat /\ col + n <= COLUMNS /\ Text(step.text[j])
  BY <1>3, <1>5 DEF IsCopy, Text
<1>7. step.text[j][i + 1] \in Byte
  <2>1. i + 1 \in 1..n /\ step.text[j] \in Seq(Byte)
    BY <1>1, <1>4, <1>6 DEF Text
  <2> QED
    BY <2>1
<1> HIDE DEF col, n
<1>8. /\ k \in Cells /\ k \div COLUMNS = j /\ k % COLUMNS = col + i
      /\ j * COLUMNS + col + i = k
  <2>1. col + i \in 0..COLUMNS - 1
    BY <1>1, <1>4, <1>6
  <2>2. /\ j * COLUMNS + (col + i) \in Cells
        /\ (j * COLUMNS + (col + i)) \div COLUMNS = j /\ (j * COLUMNS + (col + i)) % COLUMNS = col + i
    BY <1>4, <2>1, CellOf
  <2>3. j * COLUMNS + col + i = j * COLUMNS + (col + i)
    <3>1. j * COLUMNS \in Nat
      BY <1>1
    <3> QED
      BY <1>1, <1>6, <3>1
  <2> QED
    BY <2>2, <2>3, Zenon
<1> HIDE DEF k
<1>9. \A cell \in Cells : VRAM(cell)' = IF cell = k THEN step.text[j][i + 1] ELSE VRAM(cell)
  BY <1>2, <1>7, <1>8, StoreEffect DEF Memory
\* The characters up to this one are written, and no others.
<1>10. ASSUME NEW cell \in Cells
       PROVE  VRAM(cell)' = IF \/ cell \div COLUMNS < j
                               \/ cell \div COLUMNS = j /\ cell % COLUMNS < col + i + 1
                            THEN Picture(step, cell) ELSE 0
  <2> DEFINE r == cell \div COLUMNS  c == cell % COLUMNS
  <2>1. /\ r \in Nat /\ c \in Nat
    BY RowAndColumn, Sizes DEF Rows
  <2>2. VRAM(cell) = IF r < j \/ (r = j /\ c < col + i) THEN Picture(step, cell) ELSE 0
    BY <1>4 DEF Copied, col
  <2>3. CASE cell = k
    <3>1. r = j /\ c = col + i
      BY <1>8, <2>3
    <3>2. Picture(step, cell) = step.text[j][c - col + 1]
      <4>1. r \in 0..step.rows - 1 /\ c >= col /\ c < col + n
        BY <1>1, <1>4, <1>5, <1>6, <3>1
      <4> QED
        BY <1>1, <3>1, <4>1, Margins DEF col, n
    <3>3. c - col + 1 = i + 1 /\ c < col + i + 1
      BY <1>1, <1>6, <3>1
    <3> QED
      BY <1>9, <2>3, <3>1, <3>2, <3>3
  <2>4. CASE cell # k
    <3>1. ~(r = j /\ c = col + i)
      BY <1>8, <2>4, RowAndColumn
    <3>2. (r = j /\ c < col + i) <=> (r = j /\ c < col + i + 1)
      <4> HIDE DEF r, c
      <4> QED
        BY <1>1, <1>6, <2>1, <3>1
    <3> QED
      BY <1>9, <2>2, <2>4, <3>2
  <2> QED
    BY <2>3, <2>4
<1>11. CASE i < n - 1 /\ i' = i + 1 /\ j' = j /\ at' = at
  <2>1. Copied(textVGATest[at])'
    <3>1. col + i' = col + i + 1
      BY <1>1, <1>6, <1>11
    <3> QED
      BY <1>10, <1>11, <3>1 DEF Copied, col
  <2>2. Contents'
    BY <1>1, <1>11, <2>1 DEF Contents, PictureAtPause, Doing
  <2>3. Sums'
    BY <1>1, <1>2, <1>11 DEF ProgramInv, Sums, Doing
  <2>4. i' \in 0..ROWS * COLUMNS /\ i' < n
    <3>1. COLUMNS <= ROWS * COLUMNS
      BY <1>1
    <3> QED
      BY <1>1, <1>6, <1>11, <3>1, Sizes
  <2>5. Loops'
    BY <1>1, <1>4, <1>11, <2>4 DEF ProgramInv, Loops, Doing, n
  <2> QED
    BY <1>4, <1>11, <2>2, <2>3, <2>4, <2>5 DEF ProgramInv
<1>12. ASSUME i = n - 1, NEW cell \in Cells
       PROVE  /\ cell \div COLUMNS <= j => VRAM(cell)' = Picture(step, cell)
              /\ cell \div COLUMNS > j => VRAM(cell)' = 0
  <2> DEFINE r == cell \div COLUMNS  c == cell % COLUMNS
  <2>1. r \in Nat /\ c \in Nat
    BY RowAndColumn, Sizes DEF Rows
  <2>2. r = j /\ ~(c < col + i + 1) => Picture(step, cell) = 0
    <3> SUFFICES ASSUME r = j, ~(c < col + i + 1) PROVE Picture(step, cell) = 0
      OBVIOUS
    <3>1. c >= col + n /\ r \in 0..step.rows - 1
      BY <1>5, <1>6, <1>12, <2>1
    <3> QED
      BY <1>1, <3>1, Margins DEF col, n
  <2>3. VRAM(cell)' = IF r < j \/ (r = j /\ c < col + i + 1) THEN Picture(step, cell) ELSE 0
    BY <1>10
  <2> HIDE DEF r, c
  <2>4. /\ r <= j => VRAM(cell)' = Picture(step, cell)
        /\ r > j => VRAM(cell)' = 0
    BY <1>1, <2>1, <2>2, <2>3
  <2> QED
    BY <2>4 DEF r
<1>13. CASE i = n - 1 /\ j < step.rows - 1 /\ i' = 0 /\ j' = j + 1 /\ at' = at
  <2>1. j' \in Rows /\ j' \in 0..step.rows - 1 /\ j' < step.rows
    BY <1>1, <1>5, <1>13 DEF Rows
  <2>2. step.column[j'] \in Nat /\ Len(step.text[j']) > 0
    BY <1>3, <2>1 DEF IsCopy, Text
  <2>3. Copied(textVGATest[at])'
    <3> SUFFICES ASSUME NEW cell \in Cells
                 PROVE  VRAM(cell)' = IF \/ cell \div COLUMNS < j'
                                         \/ cell \div COLUMNS = j' /\ cell % COLUMNS < step.column[j'] + i'
                                      THEN Picture(step, cell) ELSE 0
      BY <1>13 DEF Copied
    <3> DEFINE r == cell \div COLUMNS  c == cell % COLUMNS
    <3>1. r \in Nat /\ c \in Nat
      BY RowAndColumn, Sizes DEF Rows
    <3>2. r = j' /\ c < step.column[j'] => Picture(step, cell) = 0
      BY <1>1, <2>1, Margins
    <3>3. /\ r <= j => VRAM(cell)' = Picture(step, cell)
          /\ r > j => VRAM(cell)' = 0
      BY <1>12, <1>13
    <3>4. step.column[j'] + i' = step.column[j']
      BY <1>13, <2>2
    <3> HIDE DEF r, c
    <3>5. VRAM(cell)' = IF r < j' \/ (r = j' /\ c < step.column[j'] + i') THEN Picture(step, cell) ELSE 0
      BY <1>1, <1>13, <3>1, <3>2, <3>3, <3>4
    <3> QED
      BY <3>5 DEF r, c
  <2>4. Contents'
    BY <1>1, <1>13, <2>3 DEF Contents, PictureAtPause, Doing
  <2>5. Sums'
    BY <1>1, <1>2, <1>13 DEF ProgramInv, Sums, Doing
  <2>6. Loops' /\ i' \in 0..ROWS * COLUMNS
    BY <1>1, <1>13, <2>1, <2>2, Sizes DEF ProgramInv, Loops, Doing
  <2> QED
    BY <1>13, <2>1, <2>4, <2>5, <2>6 DEF ProgramInv
<1>14. CASE i = n - 1 /\ j = step.rows - 1 /\ i' = 0 /\ j' = 0 /\ at' = at + 1
  <2>1. textVGATest[at'].op = "pause" /\ at' \in DOMAIN textVGATest /\ at' - 1 = at
    BY <1>1, <1>14, Script
  <2>2. ASSUME NEW cell \in Cells PROVE VRAM(cell)' = Picture(step, cell)
    <3>1. cell \div COLUMNS \in Nat
      BY RowAndColumn DEF Rows
    <3>2. cell \div COLUMNS >= step.rows => Picture(step, cell) = 0
      BY <1>1, Margins
    <3>3. cell \div COLUMNS > j => cell \div COLUMNS >= step.rows
      BY <1>1, <1>5, <1>14, <3>1
    <3>4. cell \div COLUMNS <= j \/ cell \div COLUMNS > j
      BY <1>1, <3>1
    <3> QED
      BY <1>12, <1>14, <3>2, <3>3, <3>4
  <2>3. PictureAtPause'
    BY <2>1, <2>2 DEF PictureAtPause
  <2>4. Contents'
    BY <1>1, <1>14, <2>1, <2>3, EnterContents DEF Doing
  <2>5. Sums'
    BY <1>2, <2>1 DEF ProgramInv, Sums, Doing
  <2> QED
    BY <1>1, <1>14, <2>4, <2>5, EnterLoops DEF ProgramInv
<1> QED
  BY <1>1, <1>2, <1>4, <1>5, <1>6, <1>11, <1>13, <1>14, Turns

\* A pause changes nothing but the step.
LEMMA PauseStep ==
  ASSUME ProgramInv, Usleep
  PROVE  ProgramInv'
<1>1. /\ at \in 1..25 /\ at \in DOMAIN textVGATest /\ textVGATest[at].op = "pause" /\ at + 1 \in 1..Ended
  BY Step DEF Usleep
<1>2. at' = at + 1 /\ i' = 0 /\ j' = 0 /\ checksum' = checksum /\ readsum' = readsum
  BY DEF Usleep, GoOn
<1>3. at' \in DOMAIN textVGATest => textVGATest[at'].op \in {"color", "clear"}
  BY <1>1, <1>2, Script
<1>4. Contents'
  BY <1>1, <1>2, <1>3, EnterContents DEF Doing, PictureAtPause
<1>5. Sums'
  BY <1>2, <1>3 DEF ProgramInv, Sums, Doing
<1> QED
  BY <1>1, <1>2, <1>4, <1>5, EnterLoops DEF ProgramInv

\* A reset starts the program again and leaves the memory as it is.
LEMMA RestartStep ==
  ASSUME at' = 1, i' = 0, j' = 0, checksum' = NoSums, readsum' = 0
  PROVE  ProgramInv'
<1>1. at' \in 1..Ended /\ textVGATest[at'].op = "color"
  <2>1. textVGATest[1].op = "color"
    BY DEF textVGATest, color
  <2> QED
    BY <2>1, Script
<1>2. Contents'
  BY <1>1, EnterContents DEF Doing, PictureAtPause
<1>3. Sums'
  BY <1>1 DEF Sums, Doing, NoSums
<1> QED
  BY <1>1, <1>2, <1>3, EnterLoops DEF ProgramInv

\* A step that leaves the program and the memory alone.
LEMMA OtherStep ==
  ASSUME ProgramInv, UNCHANGED program, ocm' = ocm
  PROVE  ProgramInv'
<1>1. at' = at /\ i' = i /\ j' = j /\ checksum' = checksum /\ readsum' = readsum
  BY DEF program
<1>2. Loops'
  BY <1>1 DEF ProgramInv, Loops, Doing
<1>3. Contents'
  BY <1>1 DEF ProgramInv, Contents, PictureAtPause, Doing, Blank, Filled, Copied, VRAM
<1>4. Sums'
  BY <1>1 DEF ProgramInv, Sums, Doing
<1> QED
  BY <1>1, <1>2, <1>3, <1>4 DEF ProgramInv

-----------------------------------------------------------------------------
\* What a step of the bus does to the memory: at most the word it writes.
BusStep ==
  /\ Memory' /\ written' \in -1..CTRL
  /\ \A w \in Words : w # written' => ocm'[w] = ocm[w]

\* A step of the program, with the bus.
LEMMA RunStep ==
  ASSUME ProgramInv, Memory, Run
  PROVE  ProgramInv' /\ BusStep
<1>1. CTRL \in Nat /\ -1 \in -1..CTRL /\ 0..CTRL - 1 \subseteq -1..CTRL /\ CTRL \in -1..CTRL
  BY Sizes
<1>2. CASE textVGASetColor
  <2>1. /\ at \in DOMAIN textVGATest /\ textVGATest[at].value \in Nat
    BY <1>2, Step, Script DEF textVGASetColor
  <2> QED
    BY <1>1, <1>2, <2>1, ColorStep, ColorEffect DEF BusStep, Memory
<1>3. CASE textVGAClr
  <2>1. Doing("clear") /\ Store(i, 0)
    BY <1>3 DEF textVGAClr
  <2>2. i \in Cells /\ 0 \in Byte
    BY <2>1, Step, Sizes DEF ProgramInv, Loops, Cells, Byte
  <2> QED
    BY <1>1, <1>3, <2>1, <2>2, ClearStep, StoreEffect DEF BusStep, Memory
<1>4. CASE Fill
  <2>1. Doing("fill") /\ Store(j * COLUMNS + i, (i + j) % 256)
    BY <1>4 DEF Fill
  <2>2. i \in 0..COLUMNS - 1 /\ j \in Rows /\ i + j \in Nat
    BY <2>1, Step, Sizes DEF ProgramInv, Loops
  <2>3. j * COLUMNS + i \in Cells /\ (i + j) % 256 \in Byte
    BY <2>2, CellOf, Bytes
  <2> QED
    BY <1>1, <1>4, <2>1, <2>3, FillStep, StoreEffect DEF BusStep, Memory
<1>5. CASE Check
  BY <1>1, <1>5, CheckStep, NoWriteEffect DEF Check, BusStep, Memory
<1>6. CASE memcpy
  <2> DEFINE step == textVGATest[at]
             col == step.column[j]
             n == Len(step.text[j])
  <2>1. /\ Doing("copy") /\ Store(j * COLUMNS + col + i, step.text[j][i + 1])
        /\ at \in DOMAIN textVGATest /\ step.op = "copy" /\ i \in Nat /\ j \in Nat
    BY <1>6, Step DEF memcpy
  <2>2. IsCopy(step) /\ j \in Rows /\ j < step.rows /\ i < n
    BY <2>1, Copies DEF ProgramInv, Loops
  <2>3. step.rows \in Nat /\ j \in 0..step.rows - 1
    BY <2>1, <2>2, Sizes DEF IsCopy
  <2>4. col \in Nat /\ n \in Nat /\ col + n <= COLUMNS /\ step.text[j] \in Seq(Byte)
    BY <2>2, <2>3 DEF IsCopy, Text
  <2>5. step.text[j][i + 1] \in Byte
    BY <2>1, <2>2, <2>4
  <2> HIDE DEF col, n
  <2>6. col + i \in 0..COLUMNS - 1
    BY <2>1, <2>2, <2>4, Sizes
  <2>7. j * COLUMNS + (col + i) \in Cells
    BY <2>2, <2>6, CellOf
  <2>8. j * COLUMNS + (col + i) = j * COLUMNS + col + i
    <3>1. j * COLUMNS \in Nat
      BY <2>1, Sizes
    <3> QED
      BY <2>1, <2>4, <3>1
  <2> QED
    BY <1>1, <1>6, <2>1, <2>5, <2>7, <2>8, CopyStep, StoreEffect DEF BusStep, Memory
<1>7. CASE Usleep
  BY <1>1, <1>7, PauseStep, NoWriteEffect DEF Usleep, BusStep, Memory
<1> QED
  BY <1>2, <1>3, <1>4, <1>5, <1>6, <1>7 DEF Run

-----------------------------------------------------------------------------
\* The invariant's part that is about the beam.
BeamInv ==
  /\ RESET \in BOOLEAN /\ clkdiv \in 0..1 /\ hc \in 0..Pixels - 1 /\ vc \in 0..Lines - 1
  /\ VGA_READDATA \in [Lanes -> Byte] /\ written \in -1..CTRL /\ resets \in 0..MaxResets
  /\ Ahead

\* The types of the beam, of the memory and of the program.
LEMMA TypeParts == TypeOK <=>
  /\ RESET \in BOOLEAN /\ clkdiv \in 0..1 /\ hc \in 0..Pixels - 1 /\ vc \in 0..Lines - 1
  /\ VGA_READDATA \in [Lanes -> Byte] /\ written \in -1..CTRL /\ resets \in 0..MaxResets
  /\ Memory
  /\ at \in Mismatch..Ended /\ i \in 0..ROWS * COLUMNS /\ j \in Rows
BY DEF TypeOK, Memory

\* The second port gives the word of the beam's pixel, as it stands if the bus
\* leaves it alone.
LEMMA PortStep ==
  ASSUME Memory, BusStep, hc \in 0..Pixels - 1, vc \in 0..Lines - 1, ReadPort
  PROVE  /\ VGA_READDATA' \in [Lanes -> Byte]
         /\ written' # IndexOf(hc, vc) => VGA_READDATA' = ocm'[IndexOf(hc, vc)]
<1> DEFINE word == IndexOf(hc, vc)
<1>1. word \in Words
  BY IndexInside
<1> HIDE DEF word
<1>2. ocm[word] \in [Lanes -> Byte] /\ ocm'[word] \in [Lanes -> Byte]
  BY <1>1 DEF Memory, BusStep
<1>3. CASE written' # word
  <2>1. VGA_READDATA' = ocm[word]
    BY <1>3 DEF ReadPort, word
  <2> QED
    BY <1>1, <1>2, <2>1 DEF BusStep, word
<1>4. CASE written' = word
  <2>1. PICK new \in SUBSET Lanes :
          VGA_READDATA' = [l \in Lanes |-> IF l \in new THEN ocm'[word][l] ELSE ocm[word][l]]
    BY <1>4 DEF ReadPort, word
  <2> QED
    BY <1>2, <1>4, <2>1 DEF word
<1> QED
  BY <1>3, <1>4

\* The beam's part of the invariant, at an edge.
LEMMA ClockBeam ==
  ASSUME BeamInv, Memory, BusStep, ~RESET, ReadPort, PixelClock, UNCHANGED <<RESET, resets>>
  PROVE  BeamInv'
<1>1. hc \in 0..Pixels - 1 /\ vc \in 0..Lines - 1 /\ Pixels \in Nat \ {0} /\ Lines \in Nat \ {0}
  BY Sizes DEF BeamInv
<1>2. /\ VGA_READDATA' \in [Lanes -> Byte]
      /\ written' # IndexOf(hc, vc) => VGA_READDATA' = ocm'[IndexOf(hc, vc)]
  BY <1>1, PortStep
<1>3. CASE clkdiv = 1
  <2>1. clkdiv' = 0 /\ hc' = hc /\ vc' = vc
    BY <1>3 DEF PixelClock
  <2> QED
    BY <1>1, <1>2, <2>1 DEF BeamInv, BusStep, Ahead, IndexOf
<1>4. CASE clkdiv = 0
  <2>1. /\ clkdiv' = 1 /\ hc' = (hc + 1) % Pixels
        /\ vc' = IF hc = Pixels - 1 THEN (vc + 1) % Lines ELSE vc
    BY <1>4 DEF PixelClock
  <2>2. hc' \in 0..Pixels - 1 /\ vc' \in 0..Lines - 1
    <3>1. hc + 1 \in Nat /\ vc + 1 \in Nat
      BY <1>1
    <3>2. (hc + 1) % Pixels \in 0..Pixels - 1 /\ (vc + 1) % Lines \in 0..Lines - 1
      BY <1>1, <3>1, Division
    <3> QED
      BY <1>1, <2>1, <3>2
  <2> QED
    BY <1>2, <2>1, <2>2 DEF BeamInv, BusStep, Ahead
<1> QED
  BY <1>3, <1>4 DEF BeamInv

-----------------------------------------------------------------------------
\* The invariant is inductive.
LEMMA InitIInv == Init => IInv
<1> SUFFICES ASSUME Init PROVE IInv
  OBVIOUS
<1>1. /\ hc \in 0..Pixels - 1 /\ vc \in 0..Lines - 1 /\ written \in -1..CTRL /\ resets \in 0..MaxResets
      /\ RESET \in BOOLEAN /\ clkdiv \in 0..1
  BY Sizes DEF Init
<1>2. Memory /\ VGA_READDATA \in [Lanes -> Byte]
  <2>1. 0 \in Byte /\ 0 \in Words
    BY ControlInside DEF Byte
  <2> QED
    BY <2>1 DEF Init, Memory
<1>3. Ahead
  BY DEF Init, Ahead
<1>4. /\ at \in 1..Ended /\ textVGATest[at].op = "color" /\ i = 0 /\ j = 0 /\ at = 1
  <2>1. textVGATest[1].op = "color"
    BY DEF textVGATest, color
  <2> QED
    BY <2>1, Script DEF Init
<1>5. at \in Mismatch..Ended /\ i \in 0..ROWS * COLUMNS /\ j \in Rows
  BY <1>4, Sizes, Script DEF Rows, Mismatch
<1>6. Loops /\ Contents
  BY <1>4 DEF Loops, Contents, PictureAtPause, Doing, Mismatch
<1>7. Sums
  BY <1>4 DEF Init, Sums, Doing, NoSums
<1> QED
  BY <1>1, <1>2, <1>3, <1>5, <1>6, <1>7, TypeParts DEF IInv

\* Every step keeps the invariant.
LEMMA NextIInv == IInv /\ [Next]_vars => IInv'
<1> SUFFICES ASSUME IInv, [Next]_vars PROVE IInv'
  OBVIOUS
<1>1. ProgramInv /\ BeamInv /\ Memory
  BY TypeParts DEF IInv, ProgramInv, BeamInv
<1>2. ProgramInv' /\ BeamInv' /\ Memory' => IInv'
  BY TypeParts DEF IInv, ProgramInv, BeamInv, TypeOK, Memory
<1>3. ASSUME UNCHANGED program, NoWrite PROVE ProgramInv' /\ BusStep
  BY <1>1, <1>3, OtherStep, NoWriteEffect, Sizes DEF BusStep, Memory
<1>4. CASE Clock
  <2>1. ProgramInv' /\ BusStep
    <3>1. CASE Run
      BY <1>1, <3>1, RunStep
    <3>2. CASE Idle
      BY <1>3, <3>2 DEF Idle
    <3>3. CASE WritePalette
      BY <1>3, <3>3 DEF WritePalette
    <3> QED
      BY <1>4, <3>1, <3>2, <3>3 DEF Clock
  <2>2. BeamInv'
    BY <1>1, <1>4, <2>1, ClockBeam DEF Clock
  <2> QED
    BY <1>2, <2>1, <2>2 DEF BusStep
<1>5. CASE AssertReset
  <2>1. ProgramInv'
    BY <1>5, RestartStep DEF AssertReset
  <2>2. /\ RESET' = TRUE /\ resets' = resets + 1 /\ resets < MaxResets /\ clkdiv' = 0 /\ hc' = 0 /\ vc' = 0
        /\ ocm' = ocm /\ VGA_READDATA' = VGA_READDATA /\ written' = written
    BY <1>5 DEF AssertReset
  <2>3. resets' \in 0..MaxResets /\ hc' \in 0..Pixels - 1 /\ vc' \in 0..Lines - 1
    BY <1>1, <2>2, Sizes DEF BeamInv
  <2>4. BeamInv' /\ Memory'
    BY <1>1, <2>2, <2>3 DEF BeamInv, Memory, Ahead
  <2> QED
    BY <1>2, <2>1, <2>4
<1>6. CASE ClockInReset
  <2>1. ProgramInv' /\ BusStep
    BY <1>3, <1>6 DEF ClockInReset
  <2>2. /\ RESET' \in BOOLEAN /\ clkdiv' = clkdiv /\ hc' = hc /\ vc' = vc /\ resets' = resets /\ RESET
    BY <1>6 DEF ClockInReset
  <2>3. /\ VGA_READDATA' \in [Lanes -> Byte]
        /\ written' # IndexOf(hc, vc) => VGA_READDATA' = ocm'[IndexOf(hc, vc)]
    BY <1>1, <1>6, <2>1, PortStep DEF ClockInReset, BeamInv
  <2>4. BeamInv'
    BY <1>1, <2>1, <2>2, <2>3 DEF BeamInv, Ahead, BusStep, IndexOf
  <2> QED
    BY <1>2, <2>1, <2>4 DEF BusStep
<1>7. CASE UNCHANGED vars
  <2>1. UNCHANGED program /\ ocm' = ocm /\ UNCHANGED <<RESET, clkdiv, hc, vc, VGA_READDATA, written, resets>>
    BY <1>7 DEF vars, beam
  <2>2. ProgramInv'
    BY <1>1, <2>1, OtherStep
  <2>3. BeamInv' /\ Memory'
    BY <1>1, <2>1 DEF BeamInv, Memory, Ahead, IndexOf
  <2> QED
    BY <1>2, <2>2, <2>3
<1> QED
  BY <1>4, <1>5, <1>6, <1>7 DEF Next

\* The invariant, of textVGATest, the memory and the beam.
THEOREM TextInvariant == Spec => []IInv
BY InitIInv, NextIInv, PTL DEF Spec

\* Registers, memory and loop variables keep to their types; no word beyond CTRL is written.
THEOREM TextTypes == Spec => []TypeOK
<1>1. IInv => TypeOK
  BY DEF IInv
<1> QED
  BY <1>1, TextInvariant, PTL

\* The test's sums agree, whatever is left of an earlier run, for every size of screen.
THEOREM ReadBack == Spec => []ReadBackAgrees
<1>1. IInv => ReadBackAgrees
  BY DEF IInv, Loops, ReadBackAgrees
<1> QED
  BY <1>1, TextInvariant, PTL

\* At each pause the characters are those of the text written last.
THEOREM Pictures == Spec => []PictureAtPause
<1>1. IInv => PictureAtPause
  BY DEF IInv, Contents
<1> QED
  BY <1>1, TextInvariant, PTL

\* The pixel at x and y: the character its coordinates select in the word of the
\* beam is that of the cell they lie in.
LEMMA CellsOfWords ==
  ASSUME NEW x \in Nat, NEW y \in Nat
  PROVE  LET cell == (y \div CharHeight) * COLUMNS + (x \div CharWidth)
             half == (x \div CharWidth) % 2
         IN  /\ (2 * cell) \div 4 = IndexOf(x, y) /\ (2 * cell + 1) \div 4 = IndexOf(x, y)
             /\ (2 * cell) % 4 = 2 * half /\ (2 * cell + 1) % 4 = 2 * half + 1
             /\ half \in 0..1
<1> DEFINE row == y \div CharHeight  col == x \div CharWidth
           base == row * REG_PER_ROW  cell == row * COLUMNS + col
<1>1. row \in Nat /\ col \in Nat
  BY Sizes, Division
<1>2. x \div (2 * CharWidth) = col \div 2
  BY Sizes, Halves
<1>3. base \in Nat /\ cell = 2 * base + col
  BY <1>1, Sizes
<1>4. IndexOf(x, y) = base + (col \div 2)
  BY <1>2 DEF IndexOf
<1> HIDE DEF row, col, base, cell
<1>5. /\ (2 * cell) \div 4 = base + (col \div 2) /\ (2 * cell + 1) \div 4 = base + (col \div 2)
      /\ (2 * cell) % 4 = 2 * (col % 2) /\ (2 * cell + 1) % 4 = 2 * (col % 2) + 1
      /\ col % 2 \in 0..1
  BY <1>1, <1>3
<1> QED
  BY <1>4, <1>5 DEF row, col, cell

\* The colour the circuit draws from the word of a displayed pixel is the one of
\* the character the pixel lies in.
LEMMA DrawnIsShown ==
  ASSUME BeamInv, Memory, ~RESET, clkdiv = 0, display, written # IndexOf(hc, vc)
  PROVE  Drawn = Shown(hc, vc)
<1> DEFINE cell == (vc \div CharHeight) * COLUMNS + (hc \div CharWidth)
           half == (hc \div CharWidth) % 2
           word == IndexOf(hc, vc)
           a == VGA_READDATA[2 * half]
           b == VGA_READDATA[2 * half + 1]
<1>1. hc \in Nat /\ vc \in Nat /\ word \in Words /\ VGA_READDATA = ocm[word] /\ VGA_READDATA \in [Lanes -> Byte]
  BY Sizes, IndexInside DEF BeamInv, Ahead
<1>2. /\ (2 * cell) \div 4 = word /\ (2 * cell + 1) \div 4 = word
      /\ (2 * cell) % 4 = 2 * half /\ (2 * cell + 1) % 4 = 2 * half + 1
      /\ half \in 0..1
  BY <1>1, CellsOfWords
<1>3. /\ ocm[(2 * cell) \div 4][(2 * cell) % 4] = a
      /\ ocm[(2 * cell + 1) \div 4][(2 * cell + 1) % 4] = b
  BY <1>1, <1>2
<1>4. a \in Byte /\ b \in Byte
  <2>1. 2 * half \in Lanes /\ 2 * half + 1 \in Lanes
    BY <1>2 DEF Lanes
  <2> QED
    BY <1>1, <2>1
<1>5. /\ b % 128 \in 0..127 /\ b \div 128 \in {0, 1} /\ (b \div 128 = 1 <=> b >= 128)
      /\ a \div 16 \in Nat /\ a % 16 \in Nat
  <2>1. a \in Nat /\ b \in Nat /\ b < 256
    BY <1>4, BytesAreNumbers
  <2> QED
    BY <2>1
<1> DEFINE p == Font[b % 128][vc % CharHeight][hc % CharWidth]
<1>6. p \in {0, 1}
  <2>1. vc % CharHeight \in 0..CharHeight - 1 /\ hc % CharWidth \in 0..CharWidth - 1
    BY <1>1, Sizes, Division
  <2>2. Font[b % 128] \in [0..CharHeight - 1 -> [0..CharWidth - 1 -> {0, 1}]]
    BY <1>5, FontAssumption
  <2>3. Font[b % 128][vc % CharHeight] \in [0..CharWidth - 1 -> {0, 1}]
    BY <2>1, <2>2
  <2> QED
    BY <2>1, <2>3
<1>7. bitpx = p /\ flipcode = b \div 128 /\ attribute = a
  BY DEF bitpx, flipcode, attribute, vram_code, vram_codeN
<1> DEFINE index == IF (p = 1) # (b >= 128) THEN a \div 16 ELSE a % 16
<1>8. color_index = index
  <2>1. bitpx # flipcode <=> ((p = 1) # (b >= 128))
    BY <1>5, <1>6, <1>7
  <2> QED
    BY <1>7, <2>1 DEF color_index
<1>9. Shown(hc, vc) = palette_content[index \div 2][IF index % 2 = 0 THEN 1 ELSE 2]
  BY <1>3 DEF Shown
<1>10. index \in Nat
  BY <1>5
<1> HIDE DEF index
<1>11. 1 + (index % 2) = IF index % 2 = 0 THEN 1 ELSE 2
  BY <1>10
<1>12. Drawn = palette_content[index \div 2][1 + (index % 2)]
  BY <1>8 DEF Drawn
<1> QED
  BY <1>9, <1>11, <1>12

\* A pixel's colour is that of the character it lies in, for every font and palette.
THEOREM Pixel == Spec => PixelShowsItsCell
<1>1. IInv /\ [Next]_vars =>
        [~RESET' /\ clkdiv' > clkdiv /\ display /\ written # IndexOf(hc, vc) => rgb' = Shown(hc, vc)]_vars
  <2> SUFFICES ASSUME IInv, Next, ~RESET', clkdiv' > clkdiv, display, written # IndexOf(hc, vc)
               PROVE  rgb' = Shown(hc, vc)
    OBVIOUS
  <2>1. BeamInv /\ Memory /\ clkdiv \in 0..1
    BY TypeParts DEF IInv, BeamInv
  <2>2. Clock
    BY <2>1 DEF Next, AssertReset, ClockInReset
  <2>3. clkdiv = 0 /\ rgb' = Drawn /\ ~RESET
    BY <2>1, <2>2 DEF Clock, PixelClock
  <2> QED
    BY <2>1, <2>3, DrawnIsShown
<1> QED
  BY <1>1, TextInvariant, PTL DEF Spec, PixelShowsItsCell-----------------------------------------------------------------------------
(* How long the test takes.                                                *)

\* What is left of the test at its step a, after n characters of it: no step of the
\* script has more turns than the screen has characters.
TestLeft(a, n) == (Ended - a + 1) * (ROWS * COLUMNS) - n

StepsLeft == TestLeft(at, j * COLUMNS + i)

\* A further character, or the next step of the script, leaves less.
LEMMA LessLeft ==
  ASSUME NEW a \in 0..Ended, NEW n \in Cells, NEW b \in 0..Ended, NEW m \in Cells,
         b > a \/ (b = a /\ m > n)
  PROVE  TestLeft(b, m) < TestLeft(a, n)
<1> DEFINE c == ROWS * COLUMNS
<1>1. c \in Nat \ {0} /\ n \in 0..c - 1 /\ m \in 0..c - 1 /\ Ended \in Nat
  BY Sizes, Script DEF Cells
<1> HIDE DEF c
<1>2. PICK p \in Nat, q \in Nat : p = Ended - a + 1 /\ q = Ended - b + 1
  BY <1>1
<1>3. q < p \/ (q = p /\ m > n)
  BY <1>1, <1>2
<1>4. CASE q < p
  <2>1. p * c >= (q + 1) * c
    BY <1>1, <1>2, <1>4, ProductMonotone
  <2>2. (q + 1) * c = q * c + c /\ q * c \in Nat /\ p * c \in Nat
    BY <1>1, <1>2
  <2>3. q * c - m < p * c - n
    BY <1>1, <2>1, <2>2
  <2> QED
    BY <1>2, <2>3 DEF TestLeft, c
<1>5. CASE q = p /\ m > n
  <2>1. q * c = p * c /\ p * c \in Nat
    BY <1>1, <1>2, <1>5
  <2>2. q * c - m < p * c - n
    BY <1>1, <1>5, <2>1
  <2> QED
    BY <1>2, <2>2 DEF TestLeft, c
<1> QED
  BY <1>3, <1>4, <1>5

\* It is a number, of at most one turn per character and step.
LEMMA LeftRange ==
  ASSUME NEW a \in 1..Ended, NEW n \in Cells
  PROVE  TestLeft(a, n) \in 1..Ended * (ROWS * COLUMNS)
<1> DEFINE c == ROWS * COLUMNS
<1>1. c \in Nat \ {0} /\ n \in 0..c - 1 /\ Ended \in Nat
  BY Sizes, Script DEF Cells
<1> HIDE DEF c
<1>2. PICK p \in Nat : p = Ended - a + 1 /\ p >= 1 /\ p <= Ended
  BY <1>1
<1>3. p * c >= 1 * c /\ Ended * c >= p * c
  BY <1>1, <1>2, ProductMonotone
<1>4. p * c \in Nat /\ Ended * c \in Nat /\ 1 * c = c
  BY <1>1, <1>2
<1>5. p * c - n \in 1..Ended * c
  BY <1>1, <1>3, <1>4
<1> QED
  BY <1>2, <1>5 DEF TestLeft, c

\* The characters before row s are fewer than those before a later row.
LEMMA RowsBefore ==
  ASSUME NEW r \in Rows, NEW c \in 0..COLUMNS - 1, NEW s \in Rows, NEW d \in 0..COLUMNS - 1,
         r < s \/ (r = s /\ c < d)
  PROVE  r * COLUMNS + c < s * COLUMNS + d
<1>1. r \in Nat /\ s \in Nat /\ COLUMNS \in Nat /\ c \in Nat /\ d \in Nat /\ c < COLUMNS
  BY Sizes DEF Rows
<1>2. CASE r < s
  <2>1. r + 1 <= s /\ r + 1 \in Nat
    BY <1>1, <1>2
  <2>2. (r + 1) * COLUMNS <= s * COLUMNS
    BY <1>1, <2>1, ProductMonotone
  <2>3. (r + 1) * COLUMNS = r * COLUMNS + COLUMNS /\ r * COLUMNS \in Nat /\ s * COLUMNS \in Nat
    BY <1>1
  <2> QED
    BY <1>1, <2>2, <2>3
<1>3. CASE r = s /\ c < d
  <2>1. r * COLUMNS \in Nat /\ s * COLUMNS = r * COLUMNS
    BY <1>1, <1>3
  <2> QED
    BY <1>1, <1>3, <2>1
<1> QED
  BY <1>2, <1>3

\* The place in a step of the script is that of a character.
LEMMA PlaceOf ==
  ASSUME ProgramInv
  PROVE  /\ at \in 1..Ended
         /\ Doing("clear") => i \in Cells /\ j = 0
         /\ Doing("fill") \/ Doing("check") \/ Doing("copy") => i \in 0..COLUMNS - 1 /\ j \in Rows
         /\ Doing("color") \/ Doing("pause") => i = 0 /\ j = 0
<1>1. at \in Mismatch..Ended /\ at # Mismatch /\ i \in Nat /\ j \in Rows /\ Ended = 26
      /\ DOMAIN textVGATest = 1..25
  BY Script, Sizes DEF ProgramInv, Loops
<1>2. at \in 1..Ended
  BY <1>1 DEF Mismatch
<1>3. Doing("clear") => i \in Cells /\ j = 0
  BY <1>1, Sizes DEF ProgramInv, Loops, Cells
<1>4. Doing("fill") \/ Doing("check") => i \in 0..COLUMNS - 1
  BY <1>1, Sizes DEF ProgramInv, Loops
<1>5. ASSUME Doing("copy") PROVE i \in 0..COLUMNS - 1
  <2> DEFINE step == textVGATest[at]
             n == Len(step.text[j])
  <2>1. IsCopy(step) /\ j < step.rows /\ i < n
    BY <1>5, Copies DEF ProgramInv, Loops, Doing
  <2>2. j \in 0..step.rows - 1
    BY <1>1, <2>1, Sizes DEF IsCopy, Rows
  <2>3. step.column[j] \in Nat /\ n \in Nat /\ step.column[j] + n <= COLUMNS
    BY <2>1, <2>2 DEF IsCopy, Text
  <2> HIDE DEF n
  <2> QED
    BY <1>1, <2>1, <2>3, Sizes
<1> QED
  BY <1>1, <1>2, <1>3, <1>4, <1>5 DEF ProgramInv, Loops

\* Any place of the program is a character's.
LEMMA PlaceInside ==
  ASSUME ProgramInv, at = Ended => i = 0 /\ j = 0
  PROVE  j * COLUMNS + i \in Cells
<1>1. 0 * COLUMNS = 0 /\ 0 \in Cells /\ \A n \in Cells : 0 + n = n
  BY Sizes DEF Cells
<1>2. at = Ended \/ at \in 1..25
  BY PlaceOf, Script
<1>3. CASE at = Ended
  BY <1>1, <1>3
<1>4. CASE at \in 1..25
  <2>1. \E op \in {"color", "clear", "fill", "check", "copy", "pause"} : Doing(op)
    BY <1>4, Script DEF Doing
  <2>2. CASE i \in 0..COLUMNS - 1 /\ j \in Rows
    BY <2>2, CellOf
  <2>3. CASE i \in Cells /\ j = 0
    BY <1>1, <2>3
  <2>4. CASE i = 0 /\ j = 0
    BY <1>1, <2>4
  <2> QED
    BY <2>1, <2>2, <2>3, <2>4, PlaceOf
<1> QED
  BY <1>2, <1>3, <1>4

\* The invariant's new part: at its end the program is in no loop.
AtEnd == at = Ended => i = 0 /\ j = 0

\* The program is at a step of the script, and its place is a character's.
AtCharacter == at \in 1..Ended /\ j * COLUMNS + i \in Cells

\* Every state that satisfies the invariants is at one.
LEMMA Placed == ProgramInv /\ AtEnd => AtCharacter
BY PlaceOf, PlaceInside DEF AtEnd, AtCharacter

\* It holds of the next state, too.
LEMMA PlacedNext == ProgramInv' /\ AtEnd' => AtCharacter'
BY Placed, PTL

\* A turn of a loop over rows and their characters, or the last one.
LEMMA TurnOn ==
  ASSUME ProgramInv, NEW n \in Nat, NEW m \in Nat, i < n, j < m, NextTurn(n, m), n <= COLUMNS,
         i \in 0..COLUMNS - 1, j \in Rows, m <= ROWS
  PROVE  \/ at' = at + 1 /\ i' = 0 /\ j' = 0
         \/ at' = at /\ j' * COLUMNS + i' > j * COLUMNS + i
<1>1. i \in Nat /\ j \in Nat /\ COLUMNS \in Nat /\ ROWS \in Nat
  BY Sizes DEF Rows
<1>2. CASE i < n - 1 /\ i' = i + 1 /\ j' = j /\ at' = at
  <2>1. i' \in 0..COLUMNS - 1 /\ j' \in Rows /\ i < i'
    BY <1>1, <1>2
  <2> QED
    BY <1>1, <1>2, <2>1, RowsBefore
<1>3. CASE i = n - 1 /\ j < m - 1 /\ i' = 0 /\ j' = j + 1 /\ at' = at
  <2>1. i' \in 0..COLUMNS - 1 /\ j' \in Rows /\ j < j'
    BY <1>1, <1>3 DEF Rows
  <2>2. j * COLUMNS + i < j' * COLUMNS + i'
    BY <2>1, RowsBefore
  <2>3. j * COLUMNS + i \in Int /\ j' * COLUMNS + i' \in Int
    BY <1>1, <1>3
  <2> QED
    BY <1>3, <2>2, <2>3
<1>4. CASE i = n - 1 /\ j = m - 1 /\ i' = 0 /\ j' = 0 /\ at' = at + 1
  BY <1>4
<1> QED
  BY <1>1, <1>2, <1>3, <1>4, Turns

\* A step of the program goes on to the next character, or the next step of the script.
LEMMA RunGoesOn ==
  ASSUME ProgramInv, ProgramInv', Run
  PROVE  \/ at' = at + 1 /\ i' = 0 /\ j' = 0
         \/ at' = at /\ j' * COLUMNS + i' > j * COLUMNS + i
<1>1. CASE textVGASetColor \/ Usleep
  BY <1>1 DEF textVGASetColor, Usleep, GoOn
<1>2. CASE textVGAClr
  <2>1. i \in Nat /\ j = 0 /\ (GoOn \/ (i' = i + 1 /\ j' = j /\ at' = at))
    BY <1>2, PlaceOf DEF textVGAClr, Cells
  <2>2. 0 * COLUMNS = 0
    BY Sizes
  <2> QED
    BY <2>1, <2>2 DEF GoOn
<1>3. CASE Fill \/ Check
  <2>1. NextTurn(COLUMNS, ROWS)
    BY <1>3 DEF Fill, Check, ProgramInv, Loops
  <2>2. i \in 0..COLUMNS - 1 /\ j \in Rows
    BY <1>3, PlaceOf DEF Fill, Check
  <2>3. COLUMNS \in Nat /\ ROWS \in Nat /\ i < COLUMNS /\ j < ROWS
    BY <2>2, Sizes DEF Rows
  <2> QED
    BY <2>1, <2>2, <2>3, TurnOn
<1>4. CASE memcpy
  <2> DEFINE step == textVGATest[at]
             n == Len(step.text[j])
             m == step.rows
  <2>1. Doing("copy") /\ NextTurn(n, m)
    BY <1>4 DEF memcpy
  <2>2. i \in 0..COLUMNS - 1 /\ j \in Rows
    BY <2>1, PlaceOf
  <2>3. IsCopy(step) /\ j < m /\ i < n
    BY <2>1, Copies DEF ProgramInv, Loops, Doing
  <2>4. m \in 1..ROWS /\ ROWS \in Nat /\ j \in 0..m - 1
    <3>1. m \in 1..ROWS /\ ROWS \in Nat /\ j \in Nat
      BY <2>2, <2>3, Sizes DEF IsCopy, Rows
    <3> HIDE DEF m
    <3> QED
      BY <2>3, <3>1
  <2>5. step.column[j] \in Nat /\ n \in Nat /\ step.column[j] + n <= COLUMNS
    BY <2>3, <2>4 DEF IsCopy, Text
  <2> HIDE DEF n, m
  <2>6. n <= COLUMNS /\ m \in Nat /\ m <= ROWS
    BY <2>4, <2>5, Sizes
  <2> QED
    BY <2>1, <2>2, <2>3, <2>5, <2>6, TurnOn
<1> QED
  BY <1>1, <1>2, <1>3, <1>4 DEF Run

\* It leaves less of the test, and its place is a character's again.
LEMMA RunShortens ==
  ASSUME ProgramInv, ProgramInv', AtEnd, Run
  PROVE  AtEnd' /\ StepsLeft' < StepsLeft
<1> DEFINE n == j * COLUMNS + i
           m == j' * COLUMNS + i'
<1>1. at \in 1..Ended /\ n \in Cells
  BY Placed DEF AtCharacter
<1>2. \/ at' = at + 1 /\ i' = 0 /\ j' = 0
      \/ at' = at /\ m > n
  BY RunGoesOn
<1>3. at \in 1..25 /\ Ended = 26
  BY Script DEF Run, textVGASetColor, textVGAClr, Fill, Check, memcpy, Usleep, Doing
<1>4. AtEnd'
  <2>1. Ended' = Ended
    BY DEF Ended
  <2> QED
    BY <1>2, <1>3, <2>1 DEF AtEnd
<1>5. at' \in 1..Ended /\ m \in Cells
  <2>1. Ended' = Ended /\ Cells' = Cells /\ COLUMNS' = COLUMNS
    BY DEF Ended, Cells
  <2> QED
    BY <1>4, <2>1, PlacedNext DEF AtCharacter
<1>6. TestLeft(at', m) < TestLeft(at, n)
  <2> HIDE DEF n, m
  <2>1. at \in 0..Ended /\ at' \in 0..Ended
    BY <1>1, <1>5
  <2>2. at' > at \/ (at' = at /\ m > n)
    BY <1>2, <1>3
  <2> QED
    BY <1>1, <1>5, <2>1, <2>2, LessLeft
<1> QED
  BY <1>4, <1>6 DEF StepsLeft

\* Every step of the program brings the test closer to its end, and only a reset
\* takes it back: between two resets the test runs for at most as many steps as
\* its script has, times the characters of the screen.
THEOREM TestIsBounded ==
  Spec => /\ [](StepsLeft \in 1..Ended * (ROWS * COLUMNS))
          /\ [][(Run => StepsLeft' < StepsLeft) /\ (StepsLeft' = StepsLeft \/ Run \/ RESET')]_vars
<1>1. Init => AtEnd
  BY DEF Init, AtEnd
<1>2. ASSUME IInv, IInv', AtEnd, [Next]_vars
      PROVE  /\ AtEnd'
             /\ [(Run => StepsLeft' < StepsLeft) /\ (StepsLeft' = StepsLeft \/ Run \/ RESET')]_vars
  <2>1. ProgramInv /\ ProgramInv'
    BY <1>2, TypeParts DEF IInv, ProgramInv, TypeOK
  <2>2. ASSUME Run PROVE AtEnd' /\ StepsLeft' < StepsLeft
    BY <1>2, <2>1, <2>2, RunShortens
  <2>3. ASSUME UNCHANGED program PROVE AtEnd' /\ StepsLeft' = StepsLeft
    BY <1>2, <2>3 DEF program, AtEnd, StepsLeft, Ended
  <2>4. ASSUME AssertReset PROVE AtEnd' /\ RESET'
    BY <2>4 DEF AssertReset, AtEnd
  <2>5. ASSUME UNCHANGED vars PROVE UNCHANGED program
    BY <2>5 DEF vars
  <2> QED
    BY <1>2, <2>2, <2>3, <2>4, <2>5 DEF Next, Clock, Idle, WritePalette, ClockInReset
<1>3. IInv /\ AtEnd => StepsLeft \in 1..Ended * (ROWS * COLUMNS)
  <2> SUFFICES ASSUME IInv, AtEnd PROVE StepsLeft \in 1..Ended * (ROWS * COLUMNS)
    OBVIOUS
  <2>1. ProgramInv
    BY DEF IInv, ProgramInv, TypeOK
  <2> QED
    BY <2>1, PlaceOf, PlaceInside, LeftRange DEF AtEnd, StepsLeft
<1> QED
  BY <1>1, <1>2, <1>3, TextInvariant, PTL DEF Spec
=============================================================================
