------------------------- MODULE Multiplier_proofs -------------------------
(***************************************************************************)
(* The multiplier multiplies: for all switches and all contents of B, and  *)
(* whatever buttons are pressed, by the invariant of the partial products. *)
(***************************************************************************)
EXTENDS Multiplier, TLAPS

\* Names for the ranges, so that the lemmas apply to terms as they stand.
Byte   == 0..255
Bit    == {0, 1}
Number == Int
Powers == {1, 2, 4, 8, 16, 32, 64, 128}

\* Round k adds the switches times the k-th weight.
Weight == <<1, 2, 4, 8, 16, 32, 64, 128>>
Sw     == Signed(S0, 256)

\* AB as a number of 16 bits, and XAB as one of 17.
AB(a, b)     == Signed(a, 256) * 256 + b
XAB(x, a, b) == Signed(x * 256 + a, 512) * 256 + b
Value  == AB(LoadedA, LoadedB)
ValueX == XAB(dummy, LoadedA, LoadedB)

(* Before round k, AB holds the product of the switches with the k-1 low   *)
(* bits of B0, shifted right so far, and below it the other bits of B0.    *)
Before ==
  \A k \in 1..8 : curr_state = 2 * k =>
    Value * Weight[k] = Sw * (B0 % Weight[k]) * 256 + (B0 - (B0 % Weight[k]))

(* After its addition the k-th bit counts, too; the eighth counts negative. *)
After ==
  /\ \A k \in 1..7 : curr_state = 2 * k + 1 =>
       ValueX * Weight[k] = Sw * (B0 % (2 * Weight[k])) * 256 + (B0 - (B0 % Weight[k]))
  /\ curr_state = 17 =>
       ValueX * 128 = Sw * Signed(B0, 256) * 256 + (B0 - (B0 % 128))

Steady == curr_state \in 2..17 => SW = S0

IInv == TypeOK /\ Steady /\ Before /\ After /\ Product

-----------------------------------------------------------------------------
(* Arithmetic.                                                             *)

LEMMA Weights ==
  /\ \A k \in 1..8 : Weight[k] \in Powers
  /\ \A k \in 1..7 : Weight[k + 1] = 2 * Weight[k]
  /\ Weight[1] = 1 /\ Weight[8] = 128
<1>1. /\ Weight[1] = 1 /\ Weight[2] = 2 /\ Weight[3] = 4 /\ Weight[4] = 8
      /\ Weight[5] = 16 /\ Weight[6] = 32 /\ Weight[7] = 64 /\ Weight[8] = 128
  BY DEF Weight
<1>2. \A k \in 1..8 : k \in {1, 2, 3, 4, 5, 6, 7, 8}
  OBVIOUS
<1>3. ASSUME NEW k \in 1..8 PROVE Weight[k] \in Powers
  BY <1>1, <1>2 DEF Powers
<1>4. ASSUME NEW k \in 1..7 PROVE Weight[k + 1] = 2 * Weight[k]
  <2>1. k \in {1, 2, 3, 4, 5, 6, 7}
    OBVIOUS
  <2> QED
    BY <1>1, <2>1
<1> QED
  BY <1>1, <1>3, <1>4

\* Nine bits are enough for a sum and a difference of two signed bytes.
LEMMA NineBits ==
  ASSUME NEW a \in Byte, NEW b \in Byte
  PROVE  /\ sum_9bit(a, b) \in 0..511 /\ sub_9bit(a, b) \in 0..511 /\ Ext(a) \in 0..511
         /\ Signed(sum_9bit(a, b), 512) = Signed(a, 256) + Signed(b, 256)
         /\ Signed(sub_9bit(a, b), 512) = Signed(a, 256) - Signed(b, 256)
         /\ Signed(Ext(a), 512) = Signed(a, 256)
<1>a. ASSUME NEW s \in 0..1023
      PROVE  s % 512 = IF s < 512 THEN s ELSE s - 512
  OBVIOUS
<1>1. sum_9bit(a, b) \in 0..511 /\ Signed(sum_9bit(a, b), 512) = Signed(a, 256) + Signed(b, 256)
  <2>1. PICK s \in 0..1023 : s = Ext(a) + Ext(b)
    BY DEF Byte, Ext
  <2>2. sum_9bit(a, b) = IF s < 512 THEN s ELSE s - 512
    BY <1>a, <2>1 DEF sum_9bit
  <2> QED
    BY <2>1, <2>2 DEF Byte, Ext, Signed
<1>2. sub_9bit(a, b) \in 0..511 /\ Signed(sub_9bit(a, b), 512) = Signed(a, 256) - Signed(b, 256)
  <2>a. Ext(a) \in 0..511 /\ Ext(b) \in 0..511
    BY DEF Byte, Ext
  <2>b. PICK x \in 0..511, y \in 0..511 : x = Ext(a) /\ y = Ext(b)
    BY <2>a
  <2>1. PICK s \in 0..1023 : s = x + (511 - y) + 1
    <3>1. x + (511 - y) + 1 \in 0..1023
      OBVIOUS
    <3> QED
      BY <3>1
  <2>2. sub_9bit(a, b) = IF s < 512 THEN s ELSE s - 512
    <3>1. sub_9bit(a, b) = s % 512
      BY <2>b, <2>1 DEF sub_9bit
    <3> QED
      BY <1>a, <3>1
  <2>3. CASE a >= 128
    <3>1. Ext(a) = a + 256 /\ Signed(a, 256) = a - 256
      BY <2>3 DEF Byte, Ext, Signed
    <3> QED
      BY <2>b, <2>1, <2>2, <2>3, <3>1 DEF Byte, Ext, Signed
  <2>4. CASE ~(a >= 128)
    <3>1. Ext(a) = a /\ Signed(a, 256) = a
      BY <2>4 DEF Byte, Ext, Signed
    <3> QED
      BY <2>b, <2>1, <2>2, <2>4, <3>1 DEF Byte, Ext, Signed
  <2> QED
    BY <2>3, <2>4
<1>3. Ext(a) \in 0..511 /\ Signed(Ext(a), 512) = Signed(a, 256)
  BY DEF Byte, Signed, Ext
<1> QED
  BY <1>1, <1>2, <1>3

\* AB is a signed number of sixteen bits.
LEMMA SixteenBits ==
  ASSUME NEW a \in Byte, NEW b \in Byte
  PROVE  AB(a, b) = Signed(a * 256 + b, 65536) /\ AB(a, b) \in Int
BY DEF Byte, Signed, AB

\* The shift of XAB halves it and drops its low bit.
LEMMA Halved ==
  ASSUME NEW x \in Bit, NEW a \in Byte, NEW b \in Byte
  PROVE  /\ ShiftedA(x, a) \in 0..255 /\ ShiftedB(a, b) \in 0..255
         /\ 2 * AB(ShiftedA(x, a), ShiftedB(a, b)) + (b % 2) = XAB(x, a, b)
BY DEF Bit, Byte, Signed, AB, XAB, ShiftedA, ShiftedB

\* In a round of weight m, a is the upper part of XAB and p the product so far;
\* q is B0 and b is B, whose low bit is the bit of B0 whose turn it is.
InRound(m, a, b, p, q) == (a * 256 + b) * m = p * 256 + (q - (q % m))
BitsUsed(m, b, q)      == q % (2 * m) = (q % m) + m * (b % 2)

LEMMA Turn ==
  ASSUME NEW m \in Powers, NEW a \in Number, NEW p \in Number,
         NEW b \in Byte, NEW q \in Byte, InRound(m, a, b, p, q)
  PROVE  BitsUsed(m, b, q)
<1> USE DEF Byte, Number
<1>0. (a * 256 + b) * m = p * 256 + (q - (q % m))
  BY DEF InRound
<1>1. ASSUME NEW d \in Int, NEW t \in Int, b = d + 2 * t
      PROVE  b % 2 = d % 2
  BY <1>1
<1>2. CASE m = 1
  <2>1. q - (q % 1) = 1 * (q \div 1) /\ q \div 1 \in Int
    OBVIOUS
  <2>2. b = (q \div 1) + 2 * (128 * p - 128 * a)
    BY <1>0, <1>2, <2>1
  <2>3. b % 2 = (q \div 1) % 2
    BY <1>1, <2>1, <2>2
  <2>4. q % 2 = (q % 1) + 1 * ((q \div 1) % 2)
    OBVIOUS
  <2> QED
    BY <1>2, <2>3, <2>4 DEF BitsUsed
<1>3. CASE m = 2
  <2>1. q - (q % 2) = 2 * (q \div 2) /\ q \div 2 \in Int
    OBVIOUS
  <2>2. b = (q \div 2) + 2 * (64 * p - 128 * a)
    BY <1>0, <1>3, <2>1
  <2>3. b % 2 = (q \div 2) % 2
    BY <1>1, <2>1, <2>2
  <2>4. q % 4 = (q % 2) + 2 * ((q \div 2) % 2)
    OBVIOUS
  <2> QED
    BY <1>3, <2>3, <2>4 DEF BitsUsed
<1>4. CASE m = 4
  <2>1. q - (q % 4) = 4 * (q \div 4) /\ q \div 4 \in Int
    OBVIOUS
  <2>2. b = (q \div 4) + 2 * (32 * p - 128 * a)
    BY <1>0, <1>4, <2>1
  <2>3. b % 2 = (q \div 4) % 2
    BY <1>1, <2>1, <2>2
  <2>4. q % 8 = (q % 4) + 4 * ((q \div 4) % 2)
    OBVIOUS
  <2> QED
    BY <1>4, <2>3, <2>4 DEF BitsUsed
<1>5. CASE m = 8
  <2>1. q - (q % 8) = 8 * (q \div 8) /\ q \div 8 \in Int
    OBVIOUS
  <2>2. b = (q \div 8) + 2 * (16 * p - 128 * a)
    BY <1>0, <1>5, <2>1
  <2>3. b % 2 = (q \div 8) % 2
    BY <1>1, <2>1, <2>2
  <2>4. q % 16 = (q % 8) + 8 * ((q \div 8) % 2)
    OBVIOUS
  <2> QED
    BY <1>5, <2>3, <2>4 DEF BitsUsed
<1>6. CASE m = 16
  <2>1. q - (q % 16) = 16 * (q \div 16) /\ q \div 16 \in Int
    OBVIOUS
  <2>2. b = (q \div 16) + 2 * (8 * p - 128 * a)
    BY <1>0, <1>6, <2>1
  <2>3. b % 2 = (q \div 16) % 2
    BY <1>1, <2>1, <2>2
  <2>4. q % 32 = (q % 16) + 16 * ((q \div 16) % 2)
    OBVIOUS
  <2> QED
    BY <1>6, <2>3, <2>4 DEF BitsUsed
<1>7. CASE m = 32
  <2>1. q - (q % 32) = 32 * (q \div 32) /\ q \div 32 \in Int
    OBVIOUS
  <2>2. b = (q \div 32) + 2 * (4 * p - 128 * a)
    BY <1>0, <1>7, <2>1
  <2>3. b % 2 = (q \div 32) % 2
    BY <1>1, <2>1, <2>2
  <2>4. q % 64 = (q % 32) + 32 * ((q \div 32) % 2)
    OBVIOUS
  <2> QED
    BY <1>7, <2>3, <2>4 DEF BitsUsed
<1>8. CASE m = 64
  <2>1. q - (q % 64) = 64 * (q \div 64) /\ q \div 64 \in Int
    OBVIOUS
  <2>2. b = (q \div 64) + 2 * (2 * p - 128 * a)
    BY <1>0, <1>8, <2>1
  <2>3. b % 2 = (q \div 64) % 2
    BY <1>1, <2>1, <2>2
  <2>4. q % 128 = (q % 64) + 64 * ((q \div 64) % 2)
    OBVIOUS
  <2> QED
    BY <1>8, <2>3, <2>4 DEF BitsUsed
<1>9. CASE m = 128
  <2>1. q - (q % 128) = 128 * (q \div 128) /\ q \div 128 \in Int
    OBVIOUS
  <2>2. b = (q \div 128) + 2 * (1 * p - 128 * a)
    BY <1>0, <1>9, <2>1
  <2>3. b % 2 = (q \div 128) % 2
    BY <1>1, <2>1, <2>2
  <2>4. q % 256 = (q % 128) + 128 * ((q \div 128) % 2)
    OBVIOUS
  <2> QED
    BY <1>9, <2>3, <2>4 DEF BitsUsed
<1> QED
  BY <1>2, <1>3, <1>4, <1>5, <1>6, <1>7, <1>8, <1>9 DEF Powers, BitsUsed

\* A nine-bit number is its high bit and its low byte.
LEMMA HighAndLow ==
  \A x \in 0..511 : /\ x \div 256 \in {0, 1} /\ x % 256 \in 0..255
                    /\ (x \div 256) * 256 + (x % 256) = x
OBVIOUS

\* Halving with the low bit dropped, times a weight.
LEMMA PartialHalf ==
  ASSUME NEW v \in Int, NEW w \in Int, NEW m \in Int, NEW b \in Int, 2 * w + b = v
  PROVE  w * (2 * m) = v * m - b * m
<1>1. (2 * w + b) * m = w * (2 * m) + b * m
  OBVIOUS
<1> QED
  BY <1>1

\* v is the product of t and x so far, above the rest c of B, in a round of
\* weight m.
Round(v, t, x, m, c) == v * m = t * x * 256 + c

\* Adding or subtracting t in a round counts m for, or against, it.
LEMMA Partial ==
  ASSUME NEW v \in Number, NEW t \in Number, NEW x \in Number, NEW m \in Number,
         NEW c \in Number, Round(v, t, x, m, c)
  PROVE  /\ (v + 256 * t) * m = t * (x + m) * 256 + c
         /\ (v - 256 * t) * m = t * (x - m) * 256 + c
<1>1. /\ (v + 256 * t) * m = v * m + (t * m) * 256
      /\ (v - 256 * t) * m = v * m - (t * m) * 256
      /\ t * (x + m) * 256 = t * x * 256 + (t * m) * 256
      /\ t * (x - m) * 256 = t * x * 256 - (t * m) * 256
  BY DEF Number
<1> QED
  BY <1>1 DEF Round, Number

-----------------------------------------------------------------------------
(* Types.                                                                  *)

\* AdderSum has nine bits.
LEMMA SumType ==
  ASSUME TypeOK
  PROVE  /\ AdderSum \in 0..511
         /\ AdderSum \div 256 \in {0, 1} /\ AdderSum % 256 \in 0..255
         /\ (AdderSum \div 256) * 256 + (AdderSum % 256) = AdderSum
<1>1. LoadedA \in Byte /\ SW \in Byte
  BY SwitchesAssumption DEF TypeOK, Byte
<1>2. AdderSum \in 0..511
  BY <1>1, NineBits DEF AdderSum
<1> QED
  BY <1>2, HighAndLow

\* Each edge keeps the registers within their widths.
LEMMA TypeStep ==
  ASSUME TypeOK, [Next]_vars
  PROVE  TypeOK'
<1>1. CASE Next
  <2>1. Run' \in {0, 1} /\ CALB' \in {0, 1} /\ SW' \in Switches
    BY <1>1 DEF Next, Inputs, TypeOK
  <2>2. AdderSum \div 256 \in {0, 1} /\ AdderSum % 256 \in 0..255
    BY SumType
  <2>3. ShiftedA(dummy, LoadedA) \in 0..255 /\ ShiftedB(LoadedA, LoadedB) \in 0..255
    <3>1. dummy \in Bit /\ LoadedA \in Byte /\ LoadedB \in Byte
      BY DEF TypeOK, Bit, Byte
    <3> QED
      BY <3>1, Halved
  <2>4. CASE ResetCALB
    BY SwitchesAssumption, <2>1, <2>3, <2>4 DEF TypeOK, ResetCALB, Start, ShiftedB
  <2>5. CASE WaitForRun \/ HoldResult
    BY <2>1, <2>2, <2>5 DEF TypeOK, WaitForRun, HoldResult, LoadX, Start, Pressed_Run, RESULT
  <2>6. CASE ClearXA
    BY <2>1, <2>6 DEF TypeOK, ClearXA, Pressed_Run
  <2>7. CASE AddOrSub
    BY <2>1, <2>2, <2>7 DEF TypeOK, AddOrSub, LoadX, AddStates, SubState
  <2>8. CASE ShiftXAB
    BY <2>1, <2>2, <2>3, <2>8 DEF TypeOK, ShiftXAB, LoadX, ShiftStates, ShiftedA, ShiftedB
  <2> QED
    BY <1>1, <2>4, <2>5, <2>6, <2>7, <2>8 DEF Next, Clock
<1>2. CASE UNCHANGED vars
  BY <1>2 DEF TypeOK, vars, datapath
<1> QED
  BY <1>1, <1>2

-----------------------------------------------------------------------------
(* The rounds.                                                             *)

\* While it runs, the switches are the ones it started with.
LEMMA SteadyStep ==
  ASSUME TypeOK, Steady, Next
  PROVE  Steady'
<1>1. CASE ClearXA
  BY <1>1 DEF TypeOK, Steady, Next, Inputs, ClearXA, Start, Pressed_Run, RESULT
<1>2. CASE AddOrSub \/ ShiftXAB
  BY <1>2 DEF TypeOK, Steady, Next, Inputs, AddOrSub, ShiftXAB, AddStates, SubState, ShiftStates,
              Start, Pressed_Run, RESULT
<1>3. CASE ResetCALB \/ WaitForRun \/ HoldResult
  BY <1>3 DEF Steady, ResetCALB, WaitForRun, HoldResult, Start, Pressed_Run, RESULT
<1> QED
  BY <1>1, <1>2, <1>3 DEF Next, Clock

\* The first round starts from A = 0 and the whole of B0.
LEMMA ClearStep ==
  ASSUME IInv, ClearXA, TypeOK'
  PROVE  Before' /\ After' /\ Product'
<1>1. curr_state' = 2 /\ LoadedA' = 0 /\ LoadedB' = LoadedB /\ B0' = LoadedB /\ LoadedB \in 0..255
  BY DEF ClearXA, Pressed_Run, IInv, TypeOK
<1>2. After' /\ Product'
  BY <1>1 DEF After, Product, RESULT
<1>3. ASSUME NEW k \in 1..8, curr_state' = 2 * k
      PROVE  Value' * Weight[k] = Sw' * (B0' % Weight[k]) * 256 + (B0' - (B0' % Weight[k]))
  <2>1. k = 1 /\ Weight[k] = 1
    BY <1>1, <1>3, Weights
  <2>2. B0' % 1 = 0
    BY <1>1
  <2>3. Value' = LoadedB
    BY <1>1 DEF Value, AB, Signed
  <2>4. Sw' = Signed(SW, 256)
    BY DEF ClearXA, Sw
  <2>a. SW \in 0..255
    BY SwitchesAssumption DEF IInv, TypeOK
  <2>b. PICK t \in Int : t = Signed(SW, 256)
    BY <2>a DEF Signed
  <2>5. LoadedB * 1 = t * 0 * 256 + (LoadedB - 0)
    BY <1>1, <2>b
  <2> QED
    BY <1>1, <2>1, <2>2, <2>3, <2>4, <2>b, <2>5
<1> QED
  BY <1>2, <1>3 DEF Before

\* An addition takes a round from Before to After.
LEMMA AddStep ==
  ASSUME IInv, AddOrSub, TypeOK'
  PROVE  Before' /\ After' /\ Product'
<1> DEFINE bit == LoadedB % 2
<1>1. /\ curr_state' = curr_state + 1 /\ dummy' = AdderSum \div 256 /\ LoadedA' = AdderSum % 256
      /\ LoadedB' = LoadedB /\ S0' = S0 /\ B0' = B0
      /\ LoadedA \in 0..255 /\ LoadedB \in 0..255 /\ B0 \in 0..255 /\ S0 \in 0..255
      /\ curr_state \in 0..18 /\ bit \in {0, 1}
  BY SwitchesAssumption DEF AddOrSub, LoadX, IInv, TypeOK
<1>a. LoadedA \in Byte /\ LoadedB \in Byte /\ B0 \in Byte /\ S0 \in Byte
  BY <1>1 DEF Byte
<1>2. SW = S0
  BY DEF IInv, Steady, AddOrSub, AddStates, SubState
<1>3. PICK k \in 1..8 : curr_state = 2 * k
  <2>1. curr_state \in {2 * 1, 2 * 2, 2 * 3, 2 * 4, 2 * 5, 2 * 6, 2 * 7, 2 * 8}
    BY DEF AddOrSub, AddStates, SubState
  <2> QED
    BY <2>1
<1> DEFINE m == Weight[k]
<1>4. /\ Before' /\ Product'
      /\ curr_state \in AddStates <=> k # 8
  BY <1>1, <1>3 DEF Before, Product, RESULT, AddStates
<1>5. m \in Powers /\ m \in Int /\ Weight[8] = 128
  BY Weights DEF Powers
<1>6. Sw \in Int /\ Value \in Int /\ Signed(LoadedA, 256) \in Int /\ Sw' = Sw
  BY <1>1 DEF Sw, Value, AB, Signed
<1>7. Value * m = Sw * (B0 % m) * 256 + (B0 - (B0 % m))
  BY <1>3 DEF IInv, Before
<1>8. B0 % (2 * m) = (B0 % m) + m * bit
  <2>1. PICK p \in Number : p = Sw * (B0 % m)
    <3>1. B0 % m \in Int
      BY <1>1, <1>5 DEF Powers
    <3>2. Sw * (B0 % m) \in Int
      BY <1>6, <3>1
    <3> QED
      BY <3>2 DEF Number
  <2>2. PICK a \in Number : a = Signed(LoadedA, 256)
    BY <1>6 DEF Number
  <2>3. InRound(m, a, LoadedB, p, B0)
    BY <1>7, <2>1, <2>2 DEF InRound, Value, AB
  <2>4. BitsUsed(m, LoadedB, B0)
    BY <1>a, <1>5, <2>3, Turn
  <2> QED
    BY <2>4 DEF BitsUsed
<1>9. ValueX' = (IF bit = 0 THEN Value ELSE IF k = 8 THEN Value - 256 * Sw ELSE Value + 256 * Sw)
  <2>1. dummy' * 256 + LoadedA' = AdderSum
    <3>1. (AdderSum \div 256) * 256 + (AdderSum % 256) = AdderSum
      BY SumType DEF IInv
    <3> QED
      BY <1>1, <3>1
  <2>2. AdderSum = IF bit = 0 THEN Ext(LoadedA)
                   ELSE IF k = 8 THEN sub_9bit(LoadedA, S0) ELSE sum_9bit(LoadedA, S0)
    BY <1>1, <1>2, <1>3, <1>4 DEF AdderSum, AddStates, SubState
  <2>3. Signed(AdderSum, 512) = IF bit = 0 THEN Signed(LoadedA, 256)
                                ELSE IF k = 8 THEN Signed(LoadedA, 256) - Sw
                                ELSE Signed(LoadedA, 256) + Sw
    BY <1>1, <1>a, <2>2, NineBits DEF Sw
  <2>4. ValueX' = Signed(AdderSum, 512) * 256 + LoadedB
    BY <1>1, <2>1 DEF ValueX, XAB
  <2> QED
    BY <1>1, <1>6, <2>3, <2>4 DEF Value, AB
<1>10. B0 % m \in Int /\ B0 - (B0 % m) \in Int
  BY <1>1, <1>5 DEF Powers
<1>11. /\ (Value + 256 * Sw) * m = Sw * ((B0 % m) + m) * 256 + (B0 - (B0 % m))
       /\ (Value - 256 * Sw) * m = Sw * ((B0 % m) - m) * 256 + (B0 - (B0 % m))
  <2>1. PICK x \in Number : x = B0 % m
    BY <1>10 DEF Number
  <2>2. PICK c \in Number : c = B0 - x
    BY <1>10, <2>1 DEF Number
  <2>3. Round(Value, Sw, x, m, c)
    BY <1>7, <2>1, <2>2 DEF Round
  <2>4. Value \in Number /\ Sw \in Number /\ m \in Number
    BY <1>5, <1>6 DEF Number
  <2>5. /\ (Value + 256 * Sw) * m = Sw * (x + m) * 256 + c
        /\ (Value - 256 * Sw) * m = Sw * (x - m) * 256 + c
    BY <2>3, <2>4, Partial
  <2> QED
    BY <2>1, <2>2, <2>5
<1>12. CASE k # 8
  <2>1. ValueX' * m = Sw * (B0 % (2 * m)) * 256 + (B0 - (B0 % m))
    <3>1. CASE bit = 0
      BY <1>5, <1>7, <1>8, <1>9, <1>10, <3>1
    <3>2. CASE bit = 1
      <4>1. (Value + 256 * Sw) * m = Sw * ((B0 % m) + m) * 256 + (B0 - (B0 % m))
        BY <1>11
      <4>2. B0 % (2 * m) = (B0 % m) + m
        BY <1>5, <1>8, <1>10, <3>2
      <4> QED
        BY <1>9, <1>12, <3>2, <4>1, <4>2
    <3> QED
      BY <1>1, <3>1, <3>2
  <2>2. ASSUME NEW j \in 1..7, curr_state' = 2 * j + 1
        PROVE  j = k
    BY <1>1, <1>3, <2>2
  <2>3. curr_state' # 17
    BY <1>1, <1>3, <1>12
  <2> QED
    BY <1>1, <1>4, <1>6, <2>1, <2>2, <2>3 DEF After
<1>13. CASE k = 8
  <2>1. B0 = (B0 % 128) + 128 * bit
    BY <1>1, <1>5, <1>8, <1>13
  <2>2. ValueX' * 128 = Sw * Signed(B0, 256) * 256 + (B0 - (B0 % 128))
    <3>1. CASE bit = 0
      <4>1. Signed(B0, 256) = B0 % 128
        BY <1>1, <2>1, <3>1 DEF Signed
      <4> QED
        BY <1>5, <1>7, <1>9, <1>13, <3>1, <4>1
    <3>2. CASE bit = 1
      <4>1. Signed(B0, 256) = (B0 % 128) - 128
        BY <1>1, <2>1, <3>2 DEF Signed
      <4>2. (Value - 256 * Sw) * 128 = Sw * ((B0 % 128) - 128) * 256 + (B0 - (B0 % 128))
        BY <1>5, <1>13, <1>11
      <4> QED
        BY <1>9, <1>13, <3>2, <4>1, <4>2
    <3> QED
      BY <1>1, <3>1, <3>2
  <2>3. ~(\E j \in 1..7 : curr_state' = 2 * j + 1)
    BY <1>1, <1>3, <1>13
  <2> QED
    BY <1>1, <1>4, <1>6, <2>2, <2>3 DEF After
<1> QED
  BY <1>12, <1>13

\* A shift takes a round from After to Before of the next, and the last round
\* to the product.
LEMMA ShiftStep ==
  ASSUME IInv, ShiftXAB, TypeOK'
  PROVE  Before' /\ After' /\ Product'
<1> DEFINE bit == LoadedB % 2
<1>1. /\ curr_state' = curr_state + 1
      /\ LoadedA' = dummy * 128 + (LoadedA \div 2)
      /\ LoadedB' = (LoadedA % 2) * 128 + (LoadedB \div 2)
      /\ S0' = S0 /\ B0' = B0 /\ dummy \in {0, 1}
      /\ LoadedA \in 0..255 /\ LoadedB \in 0..255 /\ B0 \in 0..255 /\ S0 \in 0..255
      /\ LoadedA' \in 0..255 /\ LoadedB' \in 0..255
      /\ curr_state \in 0..18 /\ bit \in {0, 1}
  BY SwitchesAssumption DEF ShiftXAB, ShiftedA, ShiftedB, IInv, TypeOK
<1>a. /\ LoadedA \in Byte /\ LoadedB \in Byte /\ B0 \in Byte /\ dummy \in Bit
      /\ LoadedA' \in Byte /\ LoadedB' \in Byte
  BY <1>1 DEF Byte, Bit
<1>2. PICK k \in 1..8 : curr_state = 2 * k + 1
  <2>1. curr_state \in {2 * 1 + 1, 2 * 2 + 1, 2 * 3 + 1, 2 * 4 + 1, 2 * 5 + 1, 2 * 6 + 1,
                        2 * 7 + 1, 2 * 8 + 1}
    BY DEF ShiftXAB, ShiftStates
  <2> QED
    BY <2>1
<1> DEFINE m == Weight[k]
<1>3. After'
  BY <1>1, <1>2 DEF After
<1>4. m \in Powers /\ m \in Int /\ Weight[8] = 128
  BY Weights DEF Powers
<1>5. Sw \in Int /\ Value' \in Int /\ Signed(dummy * 256 + LoadedA, 512) \in Int /\ Sw' = Sw
  BY <1>1 DEF Sw, Value, AB, Signed
<1>6. 2 * Value' + bit = ValueX
  <2>1. LoadedA' = ShiftedA(dummy, LoadedA) /\ LoadedB' = ShiftedB(LoadedA, LoadedB)
    BY <1>1 DEF ShiftedA, ShiftedB
  <2> QED
    BY <1>a, <2>1, Halved DEF Value, ValueX
<1>7. B0 % m \in Int /\ B0 % (2 * m) \in Int /\ Signed(B0, 256) \in Int
  BY <1>1, <1>4 DEF Powers, Signed
<1>8. CASE k # 8
  <2>1. ValueX * m = Sw * (B0 % (2 * m)) * 256 + (B0 - (B0 % m))
    BY <1>2, <1>8 DEF IInv, After
  <2>2. B0 % (2 * m) = (B0 % m) + m * bit
    <3>1. PICK p \in Number : p = Sw * (B0 % (2 * m))
      BY <1>5, <1>7 DEF Number
    <3>2. PICK a \in Number : a = Signed(dummy * 256 + LoadedA, 512)
      BY <1>5 DEF Number
    <3>3. InRound(m, a, LoadedB, p, B0)
      BY <2>1, <3>1, <3>2 DEF InRound, ValueX, XAB
    <3>4. BitsUsed(m, LoadedB, B0)
      BY <1>a, <1>4, <3>3, Turn
    <3> QED
      BY <3>4 DEF BitsUsed
  <2>3. Value' * (2 * m) = Sw * (B0 % (2 * m)) * 256 + (B0 - (B0 % (2 * m)))
    <3>1. ValueX \in Int /\ bit \in Int
      BY <1>1, <1>5 DEF ValueX, XAB
    <3>2. Value' * (2 * m) = ValueX * m - bit * m
      BY <1>4, <1>5, <1>6, <3>1, PartialHalf
    <3>3. CASE bit = 0
      BY <1>1, <1>4, <1>5, <1>7, <2>1, <2>2, <3>2, <3>3
    <3>4. CASE bit = 1
      BY <1>1, <1>4, <1>5, <1>7, <2>1, <2>2, <3>2, <3>4
    <3> QED
      BY <1>1, <3>3, <3>4
  <2>4. Weight[k + 1] = 2 * m /\ curr_state' = 2 * (k + 1) /\ curr_state' # RESULT
    BY <1>1, <1>2, <1>8, Weights DEF RESULT
  <2>5. ASSUME NEW j \in 1..8, curr_state' = 2 * j
        PROVE  j = k + 1
    BY <2>4, <2>5
  <2> QED
    BY <1>1, <1>3, <1>5, <2>3, <2>4, <2>5 DEF Before, Product
<1>9. CASE k = 8
  <2>1. ValueX * 128 = Sw * Signed(B0, 256) * 256 + (B0 - (B0 % 128))
    BY <1>2, <1>9 DEF IInv, After
  <2>2. B0 = (B0 % 128) + 128 * bit
    <3>1. PICK p \in Number : p = Sw * Signed(B0, 256)
      BY <1>5, <1>7 DEF Number
    <3>2. PICK a \in Number : a = Signed(dummy * 256 + LoadedA, 512)
      BY <1>5 DEF Number
    <3>3. InRound(m, a, LoadedB, p, B0)
      BY <1>4, <1>9, <2>1, <3>1, <3>2 DEF InRound, ValueX, XAB
    <3>4. BitsUsed(m, LoadedB, B0)
      BY <1>a, <1>4, <3>3, Turn
    <3>5. m = 128
      BY <1>4, <1>9
    <3> QED
      BY <1>1, <3>4, <3>5 DEF BitsUsed
  <2>3. Value' = Sw * Signed(B0, 256)
    <3>1. Sw * Signed(B0, 256) \in Int
      BY <1>5, <1>7
    <3> QED
      BY <1>1, <1>5, <1>6, <2>1, <2>2, <3>1
  <2>4. Signed(LoadedA' * 256 + LoadedB', 65536) = Value'
    BY <1>a, SixteenBits DEF Value
  <2>5. Product'
    BY <1>1, <2>3, <2>4 DEF Product, Sw
  <2>6. Before'
    BY <1>1, <1>2, <1>9 DEF Before
  <2> QED
    BY <1>3, <2>5, <2>6
<1> QED
  BY <1>8, <1>9

\* The other edges start no round, and RESULT keeps AB.
LEMMA RestStep ==
  ASSUME IInv, ResetCALB \/ WaitForRun \/ HoldResult
  PROVE  Before' /\ After' /\ Product'
<1>1. curr_state' \in {Start, Pressed_Run, RESULT}
  BY DEF ResetCALB, WaitForRun, HoldResult
<1>2. Before' /\ After'
  BY <1>1 DEF Before, After, Start, Pressed_Run, RESULT
<1>3. Product'
  BY DEF Product, IInv, ResetCALB, WaitForRun, HoldResult, Start, Pressed_Run, RESULT
<1> QED
  BY <1>2, <1>3

\* The invariant of the partial products holds in every reachable state.
THEOREM Invariant == Spec => []IInv
<1>1. Init => IInv
  BY SwitchesAssumption DEF Init, IInv, TypeOK, Steady, Before, After, Product, Start, RESULT
<1>2. IInv /\ [Next]_vars => IInv'
  <2> SUFFICES ASSUME IInv, [Next]_vars PROVE IInv'
    OBVIOUS
  <2>1. TypeOK'
    BY TypeStep DEF IInv
  <2>2. CASE Next
    <3>1. Steady'
      BY <2>2, SteadyStep DEF IInv
    <3>2. Before' /\ After' /\ Product'
      BY <2>1, <2>2, ClearStep, AddStep, ShiftStep, RestStep DEF Next, Clock
    <3> QED
      BY <2>1, <3>1, <3>2 DEF IInv
  <2>3. CASE UNCHANGED vars
    BY <2>1, <2>3 DEF IInv, vars, datapath, Steady, Before, After, Product, Value, ValueX, AB, XAB, Sw
  <2> QED
    BY <2>2, <2>3
<1> QED
  BY <1>1, <1>2, PTL DEF Spec

\* The registers keep their widths.
THEOREM TypeCorrect == Spec => []TypeOK
BY Invariant, PTL DEF IInv

\* The multiplier multiplies: whenever it shows a result, that is the signed
\* product of the switches and of what B held.
THEOREM Multiplies == Spec => []Product
BY Invariant, PTL DEF IInv
=============================================================================
