------------------------- MODULE Accumulator_proofs -------------------------
(***************************************************************************)
(* Proofs about the adders of lab 3, for every two numbers, and about the  *)
(* register that accumulates, for every setting of the switches and any    *)
(* number of additions.                                                    *)
(***************************************************************************)
EXTENDS Accumulator, TLAPS

Vector4  == [Bits4 -> Bit]
Vector5  == [0..4 -> Bit]
Vector9  == [0..8 -> Bit]
Vector16 == [0..15 -> Bit]

-----------------------------------------------------------------------------
(* One bit.                                                                *)

\* A sum and a carry out that fit the bits that come in.
Fits(s, d, a, b, c) == s \in Bit /\ d \in Bit /\ s + 2 * d = a + b + c

\* single_rippleadder: sum and carry are the number of ones.
LEMMA FullAdder ==
  ASSUME NEW a \in Bit, NEW b \in Bit, NEW c \in Bit
  PROVE  Fits(Sum1(a, b, c), Carry1(a, b, c), a, b, c)
BY DEF Fits, Sum1, Carry1, Xor, And, Or, One, Bit

\* A carry is generated, or propagated: fourbit_CLA's view of the same carry.
LEMMA LookaheadCarry ==
  ASSUME NEW a \in Bit, NEW b \in Bit, NEW c \in Bit
  PROVE  /\ Carry1(a, b, c) \in Bit
         /\ Carry1(a, b, c) = 1 <=> (c = 1 /\ Xor(a, b) = 1) \/ And(a, b) = 1
BY DEF Carry1, Xor, And, Or, One, Bit

-----------------------------------------------------------------------------
(* Four and five bits.                                                     *)

\* fourbit_ripple adds.
LEMMA FourBits ==
  ASSUME NEW a, NEW b, \A i \in Bits4 : a[i] \in Bit /\ b[i] \in Bit, NEW cin \in Bit
  PROVE  /\ fourbit_ripple(a, b, cin).S \in Vector4
         /\ fourbit_ripple(a, b, cin).cout \in Bit
         /\ Value4(fourbit_ripple(a, b, cin).S) + 16 * fourbit_ripple(a, b, cin).cout
              = Value4(a) + Value4(b) + cin
<1> DEFINE c1 == Carry1(a[0], b[0], cin)
           c2 == Carry1(a[1], b[1], c1)
           c3 == Carry1(a[2], b[2], c2)
           c4 == Carry1(a[3], b[3], c3)
           S  == fourbit_ripple(a, b, cin).S
<1>2. /\ a[0] \in Bit /\ a[1] \in Bit /\ a[2] \in Bit /\ a[3] \in Bit
      /\ b[0] \in Bit /\ b[1] \in Bit /\ b[2] \in Bit /\ b[3] \in Bit
  BY DEF Bits4
<1>3. /\ S[0] = Sum1(a[0], b[0], cin) /\ S[1] = Sum1(a[1], b[1], c1)
      /\ S[2] = Sum1(a[2], b[2], c2) /\ S[3] = Sum1(a[3], b[3], c3)
  <2> DEFINE C == <<cin, c1, c2, c3>>
  <2>1. S = [i \in Bits4 |-> Sum1(a[i], b[i], C[i + 1])]
    BY DEF fourbit_ripple
  <2>2. C[1] = cin /\ C[2] = c1 /\ C[3] = c2 /\ C[4] = c3
    OBVIOUS
  <2> HIDE DEF C, S, c1, c2, c3
  <2>3. S[0] = Sum1(a[0], b[0], C[1]) /\ S[1] = Sum1(a[1], b[1], C[2])
    BY <2>1 DEF Bits4
  <2>4. S[2] = Sum1(a[2], b[2], C[3]) /\ S[3] = Sum1(a[3], b[3], C[4])
    BY <2>1 DEF Bits4
  <2> QED
    BY <2>2, <2>3, <2>4, Zenon
<1>4. fourbit_ripple(a, b, cin).cout = c4
  BY DEF fourbit_ripple
<1>5. S = [i \in Bits4 |-> S[i]]
  BY DEF fourbit_ripple
<1>6. c1 = Carry1(a[0], b[0], cin) /\ c2 = Carry1(a[1], b[1], c1)
  OBVIOUS
<1>7. c3 = Carry1(a[2], b[2], c2) /\ c4 = Carry1(a[3], b[3], c3)
  OBVIOUS
<1> HIDE DEF c1, c2, c3, c4, S
<1>8. Fits(S[0], c1, a[0], b[0], cin)
  BY <1>2, <1>3, <1>6, FullAdder, Zenon
<1>9. c1 \in Bit
  BY <1>8 DEF Fits
<1>10. Fits(S[1], c2, a[1], b[1], c1)
  BY <1>2, <1>3, <1>6, <1>9, FullAdder, Zenon
<1>11. c2 \in Bit
  BY <1>10 DEF Fits
<1>12. Fits(S[2], c3, a[2], b[2], c2)
  BY <1>2, <1>3, <1>7, <1>11, FullAdder, Zenon
<1>13. c3 \in Bit
  BY <1>12 DEF Fits
<1>14. Fits(S[3], c4, a[3], b[3], c3)
  BY <1>2, <1>3, <1>7, <1>13, FullAdder, Zenon
<1>15. S \in Vector4
  <2>1. \A i \in Bits4 : S[i] \in Bit
    BY <1>8, <1>10, <1>12, <1>14 DEF Bits4, Fits
  <2> QED
    BY <1>5, <2>1 DEF Vector4
<1>16. PICK n0 \in Int, n1 \in Int, n2 \in Int, n3 \in Int :
          n0 = S[0] /\ n1 = S[1] /\ n2 = S[2] /\ n3 = S[3]
  BY <1>8, <1>10, <1>12, <1>14 DEF Fits, Bit
<1>17. PICK x0 \in Int, x1 \in Int, x2 \in Int, x3 \in Int :
          x0 = a[0] /\ x1 = a[1] /\ x2 = a[2] /\ x3 = a[3]
  BY <1>2 DEF Bit
<1>18. PICK y0 \in Int, y1 \in Int, y2 \in Int, y3 \in Int :
          y0 = b[0] /\ y1 = b[1] /\ y2 = b[2] /\ y3 = b[3]
  BY <1>2 DEF Bit
<1>19. PICK d1 \in Int, d2 \in Int, d3 \in Int, d4 \in Int :
          d1 = c1 /\ d2 = c2 /\ d3 = c3 /\ d4 = c4
  BY <1>8, <1>10, <1>12, <1>14 DEF Fits, Bit
<1>20. /\ n0 + 2 * d1 = x0 + y0 + cin /\ n1 + 2 * d2 = x1 + y1 + d1
       /\ n2 + 2 * d3 = x2 + y2 + d2 /\ n3 + 2 * d4 = x3 + y3 + d3
  BY <1>8, <1>10, <1>12, <1>14, <1>16, <1>17, <1>18, <1>19, Zenon DEF Fits
<1>21. (n0 + 2 * n1 + 4 * n2 + 8 * n3) + 16 * d4
          = (x0 + 2 * x1 + 4 * x2 + 8 * x3) + (y0 + 2 * y1 + 4 * y2 + 8 * y3) + cin
  BY <1>20 DEF Bit
<1>22. Value4(S) + 16 * c4 = Value4(a) + Value4(b) + cin
  BY <1>16, <1>17, <1>18, <1>19, <1>21, Zenon DEF Value4
<1> QED
  BY <1>4, <1>14, <1>15, <1>22 DEF S, Fits

\* fivebit_ripple adds.
LEMMA FiveBits ==
  ASSUME NEW a \in Vector5, NEW b \in Vector5, NEW cin \in Bit
  PROVE  /\ fivebit_ripple(a, b, cin).S \in Vector5
         /\ fivebit_ripple(a, b, cin).cout \in Bit
         /\ Value5(fivebit_ripple(a, b, cin).S) + 32 * fivebit_ripple(a, b, cin).cout
              = Value5(a) + Value5(b) + cin
<1> DEFINE low == fourbit_ripple(a, b, cin)
           S   == fivebit_ripple(a, b, cin).S
           d   == Carry1(a[4], b[4], low.cout)
<1>1. \A i \in Bits4 : a[i] \in Bit /\ b[i] \in Bit
  BY DEF Vector5, Bits4
<1>2. a[4] \in Bit /\ b[4] \in Bit
  BY DEF Vector5
<1>3. /\ low.S \in Vector4 /\ low.cout \in Bit
      /\ Value4(low.S) + 16 * low.cout = Value4(a) + Value4(b) + cin
  BY <1>1, FourBits
<1>4. S = [i \in 0..4 |-> IF i = 4 THEN Sum1(a[4], b[4], low.cout) ELSE low.S[i]]
  BY DEF fivebit_ripple
<1>5. fivebit_ripple(a, b, cin).cout = d
  BY DEF fivebit_ripple
<1> HIDE DEF low, S
<1>6. S[4] = Sum1(a[4], b[4], low.cout) /\ \A i \in Bits4 : S[i] = low.S[i]
  BY <1>4 DEF Bits4
<1>7. Fits(S[4], d, a[4], b[4], low.cout)
  BY <1>2, <1>3, <1>6, FullAdder, Zenon
<1> HIDE DEF d
<1>8. S \in Vector5
  <2>1. \A i \in 0..4 : S[i] \in Bit
    BY <1>3, <1>6, <1>7 DEF Bits4, Fits, Vector4
  <2> QED
    BY <1>4, <2>1 DEF Vector5
<1>9. Value4(S) = Value4(low.S)
  BY <1>6 DEF Value4, Bits4
<1>10. PICK va \in Int, vb \in Int, vs \in Int :
         va = Value4(a) /\ vb = Value4(b) /\ vs = Value4(low.S)
  <2>1. \A v : (\A i \in Bits4 : v[i] \in Bit) => Value4(v) \in Int
    BY DEF Value4, Bits4, Bit
  <2> QED
    BY <1>1, <1>3, <2>1 DEF Vector4
<1>11. PICK x \in Int, y \in Int, z \in Int, e \in Int, c \in Int :
         x = a[4] /\ y = b[4] /\ z = S[4] /\ e = d /\ c = low.cout
  BY <1>2, <1>3, <1>7 DEF Fits, Bit
<1>12. vs + 16 * c = va + vb + cin /\ z + 2 * e = x + y + c
  BY <1>3, <1>7, <1>10, <1>11, Zenon DEF Fits
<1>13. (vs + 16 * z) + 32 * e = (va + 16 * x) + (vb + 16 * y) + cin
  BY <1>12 DEF Bit
<1>14. Value5(S) + 32 * d = Value5(a) + Value5(b) + cin
  BY <1>9, <1>10, <1>11, <1>13, Zenon DEF Value5
<1> QED
  BY <1>5, <1>7, <1>8, <1>14 DEF S, Fits

-----------------------------------------------------------------------------
(* Sixteen bits.                                                           *)

\* A group of a vector of sixteen bits is a vector of four.
LEMMA GroupBits ==
  ASSUME NEW v \in Vector16, NEW n \in Bits4
  PROVE  /\ Group(v, n) \in Vector4
         /\ \A i \in Bits4 : Group(v, n)[i] = v[4 * n + i]
BY DEF Group, Part, Vector4, Vector16, Bits4

\* Four groups joined are a vector of sixteen bits with those groups.
LEMMA JoinedGroups ==
  ASSUME NEW s \in [Bits4 -> Vector4]
  PROVE  /\ Joined(s) \in Vector16
         /\ \A n \in Bits4 : Group(Joined(s), n) = s[n]
<1>1. \A i \in 0..15 : i \div 4 \in Bits4 /\ i % 4 \in Bits4
  BY DEF Bits4
<1>2. \A i \in 0..15 : s[i \div 4][i % 4] \in Bit
  BY <1>1 DEF Vector4
<1>3. Joined(s) \in Vector16
  BY <1>2 DEF Joined, Vector16
<1>4. ASSUME NEW n \in Bits4
      PROVE  Group(Joined(s), n) = s[n]
  <2>1. \A i \in Bits4 : 4 * n + i \in 0..15 /\ (4 * n + i) \div 4 = n /\ (4 * n + i) % 4 = i
    BY DEF Bits4
  <2>2. \A i \in Bits4 : Joined(s)[4 * n + i] = s[n][i]
    BY <2>1 DEF Joined
  <2>3. Group(Joined(s), n) = [i \in Bits4 |-> Joined(s)[4 * n + i]]
    BY DEF Group, Part, Bits4
  <2>4. s[n] = [i \in Bits4 |-> s[n][i]]
    BY DEF Vector4
  <2> QED
    BY <2>2, <2>3, <2>4
<1> QED
  BY <1>3, <1>4

\* A group's number is a hexadecimal digit.
LEMMA GroupDigits ==
  ASSUME NEW v \in Vector16, NEW n \in Bits4
  PROVE  Value4(Group(v, n)) \in 0..15
<1>1. \A i \in Bits4 : Group(v, n)[i] \in Bit
  BY GroupBits DEF Vector4
<1>2. PICK w0 \in Bit, w1 \in Bit, w2 \in Bit, w3 \in Bit :
        /\ w0 = Group(v, n)[0] /\ w1 = Group(v, n)[1]
        /\ w2 = Group(v, n)[2] /\ w3 = Group(v, n)[3]
  BY <1>1 DEF Bits4
<1>3. w0 + 2 * w1 + 4 * w2 + 8 * w3 \in 0..15
  BY DEF Bit
<1>4. Value4(Group(v, n)) = w0 + 2 * w1 + 4 * w2 + 8 * w3
  BY <1>2, Zenon DEF Value4
<1> QED
  BY <1>3, <1>4

\* The carries of the ripple adder into the four groups, and out of the last.
Into(a, b, cin) ==
  LET c1 == fourbit_ripple(Group(a, 0), Group(b, 0), cin).cout
      c2 == fourbit_ripple(Group(a, 1), Group(b, 1), c1).cout
      c3 == fourbit_ripple(Group(a, 2), Group(b, 2), c2).cout
  IN  <<cin, c1, c2, c3, fourbit_ripple(Group(a, 3), Group(b, 3), c3).cout>>

\* The sum of group n with carry c into it.
GroupSum(a, b, n, c) == fourbit_ripple(Group(a, n), Group(b, n), c)

\* ripple_adder's carries are bits, each out of the group below.
LEMMA IntoBits ==
  ASSUME NEW a \in Vector16, NEW b \in Vector16, NEW cin \in Bit
  PROVE  /\ \A n \in Bits4 : GroupSum(a, b, n, Into(a, b, cin)[n + 1]).cout
                              = Into(a, b, cin)[n + 2]
         /\ \A n \in 0..4 : Into(a, b, cin)[n + 1] \in Bit
         /\ Into(a, b, cin)[1] = cin
<1> DEFINE I == Into(a, b, cin)
<1>1. /\ I[1] = cin
      /\ I[2] = GroupSum(a, b, 0, I[1]).cout /\ I[3] = GroupSum(a, b, 1, I[2]).cout
      /\ I[4] = GroupSum(a, b, 2, I[3]).cout /\ I[5] = GroupSum(a, b, 3, I[4]).cout
  BY DEF Into, GroupSum
<1> HIDE DEF I
<1>2. ASSUME NEW n \in Bits4, NEW c \in Bit
      PROVE  GroupSum(a, b, n, c).cout \in Bit
  <2>1. \A i \in Bits4 : Group(a, n)[i] \in Bit /\ Group(b, n)[i] \in Bit
    BY GroupBits DEF Vector4
  <2> QED
    BY <2>1, FourBits DEF GroupSum
<1>3. 0 \in Bits4 /\ 1 \in Bits4 /\ 2 \in Bits4 /\ 3 \in Bits4
  BY DEF Bits4
<1>4. I[1] \in Bit /\ I[2] \in Bit /\ I[3] \in Bit /\ I[4] \in Bit /\ I[5] \in Bit
  BY <1>1, <1>2, <1>3, Zenon
<1>5. \A n \in 0..4 : I[n + 1] \in Bit
  BY <1>4
<1>6. \A n \in Bits4 : GroupSum(a, b, n, I[n + 1]).cout = I[n + 2]
  BY <1>1 DEF Bits4
<1> QED
  BY <1>1, <1>5, <1>6 DEF I

\* ripple_adder, group by group.
LEMMA RippleGroups ==
  ASSUME NEW a \in Vector16, NEW b \in Vector16, NEW cin \in Bit
  PROVE  /\ ripple_adder(a, b, cin).cout = Into(a, b, cin)[5]
         /\ ripple_adder(a, b, cin).S
              = Joined([n \in Bits4 |-> GroupSum(a, b, n, Into(a, b, cin)[n + 1]).S])
<1> DEFINE c1 == fourbit_ripple(Group(a, 0), Group(b, 0), cin).cout
           c2 == fourbit_ripple(Group(a, 1), Group(b, 1), c1).cout
           c3 == fourbit_ripple(Group(a, 2), Group(b, 2), c2).cout
           c4 == fourbit_ripple(Group(a, 3), Group(b, 3), c3).cout
<1>1. Into(a, b, cin) = <<cin, c1, c2, c3, c4>>
  BY DEF Into
<1>2. ripple_adder(a, b, cin)
        = [S |-> Joined([n \in Bits4 |->
                   fourbit_ripple(Group(a, n), Group(b, n), <<cin, c1, c2, c3>>[n + 1]).S]),
           cout |-> c4]
  BY DEF ripple_adder
<1> HIDE DEF c1, c2, c3, c4
<1>3. \A n \in Bits4 : <<cin, c1, c2, c3>>[n + 1] = <<cin, c1, c2, c3, c4>>[n + 1]
  BY DEF Bits4
<1>4. [n \in Bits4 |-> fourbit_ripple(Group(a, n), Group(b, n), <<cin, c1, c2, c3>>[n + 1]).S]
        = [n \in Bits4 |-> GroupSum(a, b, n, Into(a, b, cin)[n + 1]).S]
  BY <1>1, <1>3 DEF GroupSum
<1> QED
  BY <1>1, <1>2, <1>4

\* ripple_adder adds.
LEMMA RippleAdds ==
  ASSUME NEW a \in Vector16, NEW b \in Vector16, NEW cin \in Bit
  PROVE  /\ ripple_adder(a, b, cin).S \in Vector16 /\ ripple_adder(a, b, cin).cout \in Bit
         /\ Value16(ripple_adder(a, b, cin).S) + 65536 * ripple_adder(a, b, cin).cout
              = Value16(a) + Value16(b) + cin
<1> DEFINE I == Into(a, b, cin)
           s == [n \in Bits4 |-> GroupSum(a, b, n, I[n + 1]).S]
           S == ripple_adder(a, b, cin).S
<1>1. \A n \in 0..4 : I[n + 1] \in Bit
  BY IntoBits
<1>2. ASSUME NEW n \in Bits4
      PROVE  /\ s[n] \in Vector4
             /\ Value4(s[n]) + 16 * I[n + 2] = Value4(Group(a, n)) + Value4(Group(b, n)) + I[n + 1]
  <2>1. I[n + 1] \in Bit
    BY <1>1 DEF Bits4
  <2>2. \A i \in Bits4 : Group(a, n)[i] \in Bit /\ Group(b, n)[i] \in Bit
    BY GroupBits DEF Vector4
  <2>3. GroupSum(a, b, n, I[n + 1]).cout = I[n + 2]
    BY IntoBits
  <2>4. s[n] = GroupSum(a, b, n, I[n + 1]).S
    OBVIOUS
  <2> HIDE DEF s, I
  <2> QED
    BY <2>1, <2>2, <2>3, <2>4, FourBits DEF GroupSum
<1>3. s = [n \in Bits4 |-> s[n]] /\ S = Joined(s)
  BY RippleGroups
<1> HIDE DEF s, I, S
<1>4. s \in [Bits4 -> Vector4]
  BY <1>2, <1>3
<1>5. S \in Vector16 /\ \A n \in Bits4 : Group(S, n) = s[n]
  BY <1>3, <1>4, JoinedGroups
<1>6. \A n \in Bits4 : Value4(Group(S, n)) + 16 * I[n + 2]
                         = Value4(Group(a, n)) + Value4(Group(b, n)) + I[n + 1]
  BY <1>2, <1>5
<1>7. I[1] = cin /\ ripple_adder(a, b, cin).cout = I[5]
  BY IntoBits, RippleGroups DEF I
<1>8. PICK i2 \in Int, i3 \in Int, i4 \in Int, i5 \in Int :
        i2 = I[2] /\ i3 = I[3] /\ i4 = I[4] /\ i5 = I[5]
  BY <1>1 DEF Bit
<1>9. PICK x0 \in Int, x1 \in Int, x2 \in Int, x3 \in Int :
        /\ x0 = Value4(Group(a, 0)) /\ x1 = Value4(Group(a, 1))
        /\ x2 = Value4(Group(a, 2)) /\ x3 = Value4(Group(a, 3))
  <2>1. \A n \in Bits4 : Value4(Group(a, n)) \in Int
    BY GroupDigits
  <2>2. /\ Value4(Group(a, 0)) \in Int /\ Value4(Group(a, 1)) \in Int
        /\ Value4(Group(a, 2)) \in Int /\ Value4(Group(a, 3)) \in Int
    BY <2>1 DEF Bits4
  <2> QED
    BY <2>2, Zenon
<1>10. PICK y0 \in Int, y1 \in Int, y2 \in Int, y3 \in Int :
        /\ y0 = Value4(Group(b, 0)) /\ y1 = Value4(Group(b, 1))
        /\ y2 = Value4(Group(b, 2)) /\ y3 = Value4(Group(b, 3))
  <2>1. \A n \in Bits4 : Value4(Group(b, n)) \in Int
    BY GroupDigits
  <2>2. /\ Value4(Group(b, 0)) \in Int /\ Value4(Group(b, 1)) \in Int
        /\ Value4(Group(b, 2)) \in Int /\ Value4(Group(b, 3)) \in Int
    BY <2>1 DEF Bits4
  <2> QED
    BY <2>2, Zenon
<1>11. PICK z0 \in Int, z1 \in Int, z2 \in Int, z3 \in Int :
        /\ z0 = Value4(Group(S, 0)) /\ z1 = Value4(Group(S, 1))
        /\ z2 = Value4(Group(S, 2)) /\ z3 = Value4(Group(S, 3))
  <2>1. \A n \in Bits4 : Value4(Group(S, n)) \in Int
    BY <1>5, GroupDigits
  <2>2. /\ Value4(Group(S, 0)) \in Int /\ Value4(Group(S, 1)) \in Int
        /\ Value4(Group(S, 2)) \in Int /\ Value4(Group(S, 3)) \in Int
    BY <2>1 DEF Bits4
  <2> QED
    BY <2>2, Zenon
<1>12. /\ z0 + 16 * i2 = x0 + y0 + cin /\ z1 + 16 * i3 = x1 + y1 + i2
       /\ z2 + 16 * i4 = x2 + y2 + i3 /\ z3 + 16 * i5 = x3 + y3 + i4
  BY <1>6, <1>7, <1>8, <1>9, <1>10, <1>11 DEF Bits4
<1>13. (z0 + 16 * z1 + 256 * z2 + 4096 * z3) + 65536 * i5
         = (x0 + 16 * x1 + 256 * x2 + 4096 * x3) + (y0 + 16 * y1 + 256 * y2 + 4096 * y3) + cin
  BY <1>12 DEF Bit
<1>14. Value16(S) + 65536 * I[5] = Value16(a) + Value16(b) + cin
  <2>1. Value16(S) = z0 + 16 * z1 + 256 * z2 + 4096 * z3
    BY <1>11 DEF Value16
  <2>2. Value16(a) = x0 + 16 * x1 + 256 * x2 + 4096 * x3
    BY <1>9 DEF Value16
  <2>3. Value16(b) = y0 + 16 * y1 + 256 * y2 + 4096 * y3
    BY <1>10 DEF Value16
  <2> QED
    BY <1>8, <1>13, <2>1, <2>2, <2>3
<1>15. I[5] \in Bit
  BY <1>1
<1> QED
  BY <1>5, <1>7, <1>14, <1>15 DEF S

-----------------------------------------------------------------------------
(* The lookahead adder.                                                    *)

\* fourbitCLA_carryunit: each carry from the one below, the last without what its
\* own bit generates.
LEMMA CarryChain ==
  ASSUME NEW p, NEW g, NEW c
  PROVE  /\ \A k \in Bits4 : CarryOut(p, g, c)[k] \in Bit
         /\ CarryOut(p, g, c)[0] = 1 <=> (c = 1 /\ p[0] = 1) \/ g[0] = 1
         /\ CarryOut(p, g, c)[1] = 1 <=> (CarryOut(p, g, c)[0] = 1 /\ p[1] = 1) \/ g[1] = 1
         /\ CarryOut(p, g, c)[2] = 1 <=> (CarryOut(p, g, c)[1] = 1 /\ p[2] = 1) \/ g[2] = 1
         /\ CarryOut(p, g, c)[3] = 1 <=> CarryOut(p, g, c)[2] = 1 /\ p[3] = 1
<1> DEFINE All(j, k)  == \A i \in j..k : p[i] = 1
           Term(k)    == \/ c = 1 /\ All(0, k)
                         \/ \E j \in 0..k : j # 3 /\ g[j] = 1 /\ All(j + 1, k)
<1>1. \A k \in Bits4 : CarryOut(p, g, c)[k] = One(Term(k))
  BY DEF CarryOut
<1>2. \A k \in Bits4 : (CarryOut(p, g, c)[k] = 1) <=> Term(k)
  BY <1>1 DEF One
<1>3. Term(0) <=> (c = 1 /\ p[0] = 1) \/ g[0] = 1
  OBVIOUS
<1>4. ASSUME NEW k \in 0..2
      PROVE  Term(k + 1) <=> (Term(k) /\ p[k + 1] = 1) \/ (k + 1 # 3 /\ g[k + 1] = 1)
  <2>1. \A j \in 0..k + 1 : All(j, k + 1) <=> All(j, k) /\ p[k + 1] = 1
    OBVIOUS
  <2>2. All(k + 2, k + 1)
    OBVIOUS
  <2>3. \A j \in 0..k : All(j + 1, k + 1) <=> All(j + 1, k) /\ p[k + 1] = 1
    BY <2>1
  <2>4. \A j : j \in 0..k + 1 <=> j \in 0..k \/ j = k + 1
    OBVIOUS
  <2>5. (k + 1) + 1 = k + 2 /\ 0 \in 0..k + 1
    OBVIOUS
  <2> HIDE DEF All
  <2> QED
    BY <2>1, <2>2, <2>3, <2>4, <2>5
<1> HIDE DEF Term
<1>5. /\ Term(1) <=> (Term(0) /\ p[1] = 1) \/ g[1] = 1
      /\ Term(2) <=> (Term(1) /\ p[2] = 1) \/ g[2] = 1
      /\ Term(3) <=> Term(2) /\ p[3] = 1
  BY <1>4
<1>6. /\ CarryOut(p, g, c)[0] = 1 <=> Term(0)
      /\ CarryOut(p, g, c)[1] = 1 <=> Term(1)
      /\ CarryOut(p, g, c)[2] = 1 <=> Term(2)
      /\ CarryOut(p, g, c)[3] = 1 <=> Term(3)
  BY <1>2 DEF Bits4
<1>7. ASSUME NEW k \in Bits4
      PROVE  CarryOut(p, g, c)[k] \in Bit
  <2>1. CASE Term(k)
    BY <1>1, <2>1 DEF One, Bit
  <2>2. CASE ~Term(k)
    BY <1>1, <2>2 DEF One, Bit
  <2> QED
    BY <2>1, <2>2
<1> QED
  BY <1>3, <1>5, <1>6, <1>7, Zenon

\* Within a group the lookahead carries are the ripple carries: so is the sum.
LEMMA GroupSumsAgree ==
  ASSUME NEW a \in Vector4, NEW b \in Vector4, NEW c \in Bit
  PROVE  /\ CLA_S(a, b, c) = fourbit_ripple(a, b, c).S
         /\ fourbit_ripple(a, b, c).cout
              = One(\/ CarryOut(Propagate(a, b), Generate(a, b), c)[3] = 1
                    \/ Generate(a, b)[3] = 1)
<1> DEFINE p  == Propagate(a, b)
           g  == Generate(a, b)
           co == CarryOut(p, g, c)
           c1 == Carry1(a[0], b[0], c)
           c2 == Carry1(a[1], b[1], c1)
           c3 == Carry1(a[2], b[2], c2)
           c4 == Carry1(a[3], b[3], c3)
<1>1. /\ a[0] \in Bit /\ a[1] \in Bit /\ a[2] \in Bit /\ a[3] \in Bit
      /\ b[0] \in Bit /\ b[1] \in Bit /\ b[2] \in Bit /\ b[3] \in Bit
  BY DEF Vector4, Bits4
<1>2. \A i \in Bits4 : p[i] = Xor(a[i], b[i]) /\ g[i] = And(a[i], b[i])
  BY DEF Propagate, Generate, Vector4
<1>3. /\ p[0] = Xor(a[0], b[0]) /\ g[0] = And(a[0], b[0])
      /\ p[1] = Xor(a[1], b[1]) /\ g[1] = And(a[1], b[1])
      /\ p[2] = Xor(a[2], b[2]) /\ g[2] = And(a[2], b[2])
      /\ p[3] = Xor(a[3], b[3]) /\ g[3] = And(a[3], b[3])
  BY <1>2 DEF Bits4
<1>4. /\ co[0] = 1 <=> (c = 1 /\ p[0] = 1) \/ g[0] = 1
      /\ co[1] = 1 <=> (co[0] = 1 /\ p[1] = 1) \/ g[1] = 1
      /\ co[2] = 1 <=> (co[1] = 1 /\ p[2] = 1) \/ g[2] = 1
      /\ co[3] = 1 <=> co[2] = 1 /\ p[3] = 1
      /\ \A k \in Bits4 : co[k] \in Bit
  <2> HIDE DEF p, g
  <2> QED
    BY CarryChain DEF co
<1>5. BitCarries(a, b, c) = [i \in Bits4 |-> IF i = 0 THEN c ELSE co[i - 1]]
  BY DEF BitCarries
<1>6. /\ c1 = Carry1(a[0], b[0], c) /\ c2 = Carry1(a[1], b[1], c1)
      /\ c3 = Carry1(a[2], b[2], c2) /\ c4 = Carry1(a[3], b[3], c3)
  OBVIOUS
<1>7. fourbit_ripple(a, b, c)
        = [S |-> [i \in Bits4 |-> Sum1(a[i], b[i], <<c, c1, c2, c3>>[i + 1])], cout |-> c4]
  BY DEF fourbit_ripple
<1>8. CLA_S(a, b, c) = [i \in Bits4 |-> Sum1(a[i], b[i], BitCarries(a, b, c)[i])]
  BY DEF CLA_S
<1> HIDE DEF p, g, co, c1, c2, c3, c4
<1>9. co[0] \in Bit /\ co[1] \in Bit /\ co[2] \in Bit
  BY <1>4 DEF Bits4
<1>10. c1 \in Bit /\ c1 = co[0]
  <2>1. c1 \in Bit /\ (c1 = 1 <=> (c = 1 /\ Xor(a[0], b[0]) = 1) \/ And(a[0], b[0]) = 1)
    BY <1>1, <1>6, LookaheadCarry
  <2>2. c1 = 1 <=> co[0] = 1
    BY <1>3, <1>4, <2>1
  <2> QED
    BY <1>9, <2>1, <2>2 DEF Bit
<1>11. c2 \in Bit /\ c2 = co[1]
  <2>1. c2 \in Bit /\ (c2 = 1 <=> (c1 = 1 /\ Xor(a[1], b[1]) = 1) \/ And(a[1], b[1]) = 1)
    BY <1>1, <1>6, <1>10, LookaheadCarry
  <2>2. c2 = 1 <=> co[1] = 1
    BY <1>3, <1>4, <1>10, <2>1
  <2> QED
    BY <1>9, <2>1, <2>2 DEF Bit
<1>12. c3 \in Bit /\ c3 = co[2]
  <2>1. c3 \in Bit /\ (c3 = 1 <=> (c2 = 1 /\ Xor(a[2], b[2]) = 1) \/ And(a[2], b[2]) = 1)
    BY <1>1, <1>6, <1>11, LookaheadCarry
  <2>2. c3 = 1 <=> co[2] = 1
    BY <1>3, <1>4, <1>11, <2>1
  <2> QED
    BY <1>9, <2>1, <2>2 DEF Bit
<1>13. c4 \in Bit /\ (c4 = 1 <=> co[3] = 1 \/ g[3] = 1)
  <2>1. c4 \in Bit /\ (c4 = 1 <=> (c3 = 1 /\ Xor(a[3], b[3]) = 1) \/ And(a[3], b[3]) = 1)
    BY <1>1, <1>6, <1>12, LookaheadCarry
  <2> QED
    BY <1>3, <1>4, <1>12, <2>1
<1>14. c4 = One(co[3] = 1 \/ g[3] = 1)
  BY <1>13 DEF One, Bit
<1>15. \A i \in Bits4 : BitCarries(a, b, c)[i] = <<c, c1, c2, c3>>[i + 1]
  BY <1>5, <1>10, <1>11, <1>12 DEF Bits4
<1>16. CLA_S(a, b, c) = fourbit_ripple(a, b, c).S
  BY <1>7, <1>8, <1>15
<1>17. fourbit_ripple(a, b, c).cout = c4
  BY <1>7
<1> QED
  BY <1>14, <1>16, <1>17 DEF co, p, g

\* GG and PG give the carry out of a group, from the carry into it.
LEMMA GroupCarry ==
  ASSUME NEW a \in Vector4, NEW b \in Vector4, NEW c \in Bit
  PROVE  LET p == Propagate(a, b)
             g == Generate(a, b)
         IN  fourbit_ripple(a, b, c).cout = One((c = 1 /\ PG(p) = 1) \/ GG(p, g) = 1)
<1> DEFINE p == Propagate(a, b)
           g == Generate(a, b)
<1>1. fourbit_ripple(a, b, c).cout = One(CarryOut(p, g, c)[3] = 1 \/ g[3] = 1)
  BY GroupSumsAgree
<1> HIDE DEF p, g
<1>2. CarryOut(p, g, c)[3] = 1 <=>
        \/ c = 1 /\ \A i \in 0..3 : p[i] = 1
        \/ \E j \in 0..3 : j # 3 /\ g[j] = 1 /\ \A i \in j + 1..3 : p[i] = 1
  BY DEF CarryOut, One, Bits4
<1>3. PG(p) = 1 <=> \A i \in 0..3 : p[i] = 1
  BY DEF PG, One, Bits4
<1>4. GG(p, g) = 1 <=> \E j \in 0..3 : g[j] = 1 /\ \A i \in j + 1..3 : p[i] = 1
  BY DEF GG, One, Bits4
<1>5. \A i \in 3 + 1..3 : p[i] = 1
  OBVIOUS
<1>6. CarryOut(p, g, c)[3] = 1 \/ g[3] = 1 <=> (c = 1 /\ PG(p) = 1) \/ GG(p, g) = 1
  BY <1>2, <1>3, <1>4, <1>5
<1> QED
  BY <1>1, <1>6 DEF p, g, One

\* The carries into the groups are those of the ripple adder; the carry out is too
\* when the last group generates none.
LEMMA GroupCarriesAgree ==
  ASSUME NEW a \in Vector16, NEW b \in Vector16, NEW cin \in Bit
  PROVE  LET cc == GroupCarries(a, b, cin)
             I  == Into(a, b, cin)
         IN  /\ cc[0] = I[2] /\ cc[1] = I[3] /\ cc[2] = I[4]
             /\ GG(Propagate(Group(a, 3), Group(b, 3)), Generate(Group(a, 3), Group(b, 3))) = 0
                  => cc[3] = I[5]
<1> DEFINE p(n) == Propagate(Group(a, n), Group(b, n))
           g(n) == Generate(Group(a, n), Group(b, n))
           P  == [n \in Bits4 |-> PG(p(n))]
           G  == [n \in Bits4 |-> GG(p(n), g(n))]
           cc == CarryOut(P, G, cin)
           I  == Into(a, b, cin)
<1>1. GroupCarries(a, b, cin) = cc
  BY DEF GroupCarries
<1>2. \A n \in Bits4 : P[n] = PG(p(n)) /\ G[n] = GG(p(n), g(n))
  OBVIOUS
<1>3. ASSUME NEW n \in Bits4
      PROVE  I[n + 2] = One((I[n + 1] = 1 /\ P[n] = 1) \/ G[n] = 1)
  <2>1. Group(a, n) \in Vector4 /\ Group(b, n) \in Vector4
    BY GroupBits
  <2>2. I[n + 1] \in Bit
    BY IntoBits DEF Bits4
  <2>3. I[n + 2] = fourbit_ripple(Group(a, n), Group(b, n), I[n + 1]).cout
    BY IntoBits DEF GroupSum
  <2>4. fourbit_ripple(Group(a, n), Group(b, n), I[n + 1]).cout
          = One((I[n + 1] = 1 /\ PG(p(n)) = 1) \/ GG(p(n), g(n)) = 1)
    <3> HIDE DEF I
    <3> QED
      BY <2>1, <2>2, GroupCarry
  <2> QED
    BY <1>2, <2>3, <2>4
<1>4. G[3] = GG(p(3), g(3))
  BY DEF Bits4
<1>5. I[1] = cin
  BY IntoBits
<1>6. \A n \in 1..5 : I[n] \in Bit
  <2>1. \A n \in 0..4 : I[n + 1] \in Bit
    BY IntoBits
  <2>2. ASSUME NEW n \in 1..5
        PROVE  I[n] \in Bit
    <3>1. n - 1 \in 0..4 /\ (n - 1) + 1 = n
      OBVIOUS
    <3> HIDE DEF I
    <3> QED
      BY <2>1, <3>1
  <2> QED
    BY <2>2
<1> HIDE DEF P, G, I
<1>7. /\ I[2] = 1 <=> (I[1] = 1 /\ P[0] = 1) \/ G[0] = 1
      /\ I[3] = 1 <=> (I[2] = 1 /\ P[1] = 1) \/ G[1] = 1
      /\ I[4] = 1 <=> (I[3] = 1 /\ P[2] = 1) \/ G[2] = 1
      /\ I[5] = 1 <=> (I[4] = 1 /\ P[3] = 1) \/ G[3] = 1
  BY <1>3 DEF Bits4, One
<1>8. /\ \A k \in Bits4 : cc[k] \in Bit
      /\ cc[0] = 1 <=> (cin = 1 /\ P[0] = 1) \/ G[0] = 1
      /\ cc[1] = 1 <=> (cc[0] = 1 /\ P[1] = 1) \/ G[1] = 1
      /\ cc[2] = 1 <=> (cc[1] = 1 /\ P[2] = 1) \/ G[2] = 1
      /\ cc[3] = 1 <=> cc[2] = 1 /\ P[3] = 1
  BY CarryChain
<1> HIDE DEF cc
<1>9. /\ cc[0] \in Bit /\ cc[1] \in Bit /\ cc[2] \in Bit /\ cc[3] \in Bit
      /\ I[2] \in Bit /\ I[3] \in Bit /\ I[4] \in Bit /\ I[5] \in Bit
  BY <1>6, <1>8 DEF Bits4
<1>10. cc[0] = I[2]
  BY <1>5, <1>7, <1>8, <1>9 DEF Bit
<1>11. cc[1] = I[3]
  BY <1>7, <1>8, <1>9, <1>10 DEF Bit
<1>12. cc[2] = I[4]
  BY <1>7, <1>8, <1>9, <1>11 DEF Bit
<1>13. G[3] = 0 => cc[3] = I[5]
  BY <1>7, <1>8, <1>9, <1>12 DEF Bit
<1> QED
  BY <1>1, <1>4, <1>10, <1>11, <1>12, <1>13 DEF I

\* The lookahead adder has the ripple adder's sum; and its carry out, when the first
\* operand has no bit in the last group.
LEMMA LookaheadIsRipple ==
  ASSUME NEW a \in Vector16, NEW b \in Vector16, NEW cin \in Bit
  PROVE  /\ lookahead_adder(a, b, cin).S = ripple_adder(a, b, cin).S
         /\ (\A i \in 12..15 : a[i] = 0) => lookahead_adder(a, b, cin) = ripple_adder(a, b, cin)
<1> DEFINE cc == GroupCarries(a, b, cin)
           I  == Into(a, b, cin)
           into(n) == IF n = 0 THEN cin ELSE cc[n - 1]
           sl == [n \in Bits4 |-> CLA_S(Group(a, n), Group(b, n), into(n))]
           sr == [n \in Bits4 |-> GroupSum(a, b, n, I[n + 1]).S]
<1>1. \A n \in Bits4 : into(n) = I[n + 1]
  <2>1. I[1] = cin
    BY IntoBits
  <2>2. cc[0] = I[2] /\ cc[1] = I[3] /\ cc[2] = I[4]
    BY GroupCarriesAgree
  <2> HIDE DEF cc, I
  <2> QED
    BY <2>1, <2>2 DEF Bits4
<1>2. ASSUME NEW n \in Bits4
      PROVE  CLA_S(Group(a, n), Group(b, n), into(n)) = GroupSum(a, b, n, I[n + 1]).S
  <2>1. Group(a, n) \in Vector4 /\ Group(b, n) \in Vector4
    BY GroupBits
  <2>2. I[n + 1] \in Bit
    BY IntoBits DEF Bits4
  <2>3. into(n) = I[n + 1]
    BY <1>1
  <2> HIDE DEF into, I
  <2>4. CLA_S(Group(a, n), Group(b, n), I[n + 1])
          = fourbit_ripple(Group(a, n), Group(b, n), I[n + 1]).S
    BY <2>1, <2>2, GroupSumsAgree
  <2> QED
    BY <2>3, <2>4 DEF GroupSum
<1>3. sl = sr
  BY <1>2
<1>4. lookahead_adder(a, b, cin) = [S |-> Joined(sl), cout |-> cc[3]]
  BY DEF lookahead_adder
<1>5. ripple_adder(a, b, cin).S = Joined(sr) /\ ripple_adder(a, b, cin).cout = I[5]
  BY RippleGroups
<1>6. ripple_adder(a, b, cin)
        = [S |-> ripple_adder(a, b, cin).S, cout |-> ripple_adder(a, b, cin).cout]
  BY DEF ripple_adder
<1>7. ASSUME \A i \in 12..15 : a[i] = 0
      PROVE  cc[3] = I[5]
  <2> DEFINE p == Propagate(Group(a, 3), Group(b, 3))
             g == Generate(Group(a, 3), Group(b, 3))
  <2>1. \A i \in Bits4 : Group(a, 3)[i] = 0
    BY <1>7, GroupBits DEF Bits4
  <2>2. \A i \in Bits4 : g[i] = 0
    BY <2>1, GroupBits DEF Generate, And, One, Bits4, Group, Part
  <2> HIDE DEF g, p
  <2>3. GG(p, g) = 0
    BY <2>2 DEF GG, One
  <2> QED
    BY <2>3, GroupCarriesAgree DEF g, p
<1> HIDE DEF cc, I, sl, sr
<1> QED
  BY <1>3, <1>4, <1>5, <1>6, <1>7

-----------------------------------------------------------------------------
(* The select adder.                                                       *)

\* fourbit_ripple looks at four bits.
LEMMA FourBitsOnly ==
  ASSUME NEW a, NEW b, NEW x, NEW y, NEW c, \A i \in Bits4 : a[i] = x[i] /\ b[i] = y[i]
  PROVE  fourbit_ripple(a, b, c) = fourbit_ripple(x, y, c)
<1>1. /\ a[0] = x[0] /\ a[1] = x[1] /\ a[2] = x[2] /\ a[3] = x[3]
      /\ b[0] = y[0] /\ b[1] = y[1] /\ b[2] = y[2] /\ b[3] = y[3]
  BY DEF Bits4
<1> QED
  BY <1>1 DEF fourbit_ripple

\* The number of five bits.
LEMMA FiveBitNumber ==
  ASSUME NEW v \in Vector5
  PROVE  Value5(v) \in 0..31
<1>1. v[0] \in Bit /\ v[1] \in Bit /\ v[2] \in Bit /\ v[3] \in Bit /\ v[4] \in Bit
  BY DEF Vector5
<1>2. PICK w0 \in Bit, w1 \in Bit, w2 \in Bit, w3 \in Bit, w4 \in Bit :
        w0 = v[0] /\ w1 = v[1] /\ w2 = v[2] /\ w3 = v[3] /\ w4 = v[4]
  BY <1>1, Zenon
<1>3. w0 + 2 * w1 + 4 * w2 + 8 * w3 + 16 * w4 \in 0..31
  BY DEF Bit
<1>4. Value5(v) = w0 + 2 * w1 + 4 * w2 + 8 * w3 + 16 * w4
  BY <1>2 DEF Value5, Value4
<1> QED
  BY <1>3, <1>4

\* Whichever of the two upper sums is taken, it is that for the carry from below.
LEMMA SelectTakesCarry ==
  ASSUME NEW a \in Vector9, NEW b \in Vector9, NEW cin \in Bit
  PROVE  LET low  == fourbit_ripple(Part(a, 0, 4), Part(b, 0, 4), cin)
             high == fivebit_ripple(Part(a, 4, 5), Part(b, 4, 5), low.cout)
         IN  select_adder(a, b, cin)
               = [S |-> [i \in 0..8 |-> IF i < 4 THEN low.S[i] ELSE high.S[i - 4]],
                  cout |-> high.cout]
<1> DEFINE low  == fourbit_ripple(Part(a, 0, 4), Part(b, 0, 4), cin)
           up(c) == fivebit_ripple(Part(a, 4, 5), Part(b, 4, 5), c)
<1>1. Part(a, 4, 5) \in Vector5 /\ Part(b, 4, 5) \in Vector5
  BY DEF Part, Vector5, Vector9
<1>2. \A i \in Bits4 : Part(a, 0, 4)[i] \in Bit /\ Part(b, 0, 4)[i] \in Bit
  BY DEF Part, Vector9, Bits4
<1>3. low.cout \in Bit
  BY <1>2, FourBits
<1>4. 0 \in Bit /\ 1 \in Bit
  BY DEF Bit
<1>5. select_adder(a, b, cin)
        = [S |-> [i \in 0..8 |-> IF i < 4 THEN low.S[i]
                                 ELSE (IF low.cout = 1 THEN up(1) ELSE up(0)).S[i - 4]],
           cout |-> Or(And(up(1).cout, low.cout), up(0).cout)]
  BY DEF select_adder
<1> HIDE DEF low
<1>6. /\ up(0).cout \in Bit /\ up(1).cout \in Bit
      /\ up(0).S \in Vector5 /\ up(1).S \in Vector5
      /\ Value5(up(0).S) + 32 * up(0).cout = Value5(Part(a, 4, 5)) + Value5(Part(b, 4, 5)) + 0
      /\ Value5(up(1).S) + 32 * up(1).cout = Value5(Part(a, 4, 5)) + Value5(Part(b, 4, 5)) + 1
  BY <1>1, <1>4, FiveBits
<1>7. up(0).cout = 1 => up(1).cout = 1
  <2>1. /\ Value5(Part(a, 4, 5)) \in 0..31 /\ Value5(Part(b, 4, 5)) \in 0..31
        /\ Value5(up(0).S) \in 0..31 /\ Value5(up(1).S) \in 0..31
    BY <1>1, <1>6, FiveBitNumber
  <2> HIDE DEF up
  <2> QED
    BY <1>6, <2>1 DEF Bit
<1>8. CASE low.cout = 1
  <2>1. Or(And(up(1).cout, low.cout), up(0).cout) = up(1).cout
    <3> HIDE DEF up
    <3> QED
      BY <1>6, <1>7, <1>8 DEF Or, And, One, Bit
  <2> QED
    BY <1>5, <1>8, <2>1 DEF low
<1>9. CASE low.cout = 0
  <2>1. Or(And(up(1).cout, low.cout), up(0).cout) = up(0).cout
    <3> HIDE DEF up
    <3> QED
      BY <1>6, <1>9 DEF Or, And, One, Bit
  <2> QED
    BY <1>5, <1>9, <2>1 DEF low
<1> QED
  BY <1>3, <1>8, <1>9 DEF Bit

\* select_adder adds.
LEMMA SelectAdds ==
  ASSUME NEW a \in Vector9, NEW b \in Vector9, NEW cin \in Bit
  PROVE  Value9(select_adder(a, b, cin).S) + 512 * select_adder(a, b, cin).cout
           = Value9(a) + Value9(b) + cin
<1> DEFINE low  == fourbit_ripple(Part(a, 0, 4), Part(b, 0, 4), cin)
           high == fivebit_ripple(Part(a, 4, 5), Part(b, 4, 5), low.cout)
           S    == [i \in 0..8 |-> IF i < 4 THEN low.S[i] ELSE high.S[i - 4]]
<1>1. select_adder(a, b, cin) = [S |-> S, cout |-> high.cout]
  BY SelectTakesCarry
<1>2. Part(a, 4, 5) \in Vector5 /\ Part(b, 4, 5) \in Vector5
  BY DEF Part, Vector5, Vector9
<1>3. \A i \in Bits4 : Part(a, 0, 4)[i] \in Bit /\ Part(b, 0, 4)[i] \in Bit
  BY DEF Part, Vector9, Bits4
<1>4. /\ low.S \in Vector4 /\ low.cout \in Bit
      /\ Value4(low.S) + 16 * low.cout = Value4(Part(a, 0, 4)) + Value4(Part(b, 0, 4)) + cin
  BY <1>3, FourBits
<1> HIDE DEF low
<1>5. /\ high.S \in Vector5 /\ high.cout \in Bit
      /\ Value5(high.S) + 32 * high.cout
           = Value5(Part(a, 4, 5)) + Value5(Part(b, 4, 5)) + low.cout
  BY <1>2, <1>4, FiveBits
<1> HIDE DEF high
<1>6. Part(S, 4, 5) = high.S
  BY <1>5 DEF Part, Vector5
<1>7. Value4(Part(S, 0, 4)) = Value4(low.S)
  BY DEF Part, Value4
<1> HIDE DEF S
<1>8. \A v : (\A i \in Bits4 : v[i] \in Bit) => Value4(v) \in Int
  BY DEF Value4, Bits4, Bit
<1>9. /\ Value4(Part(a, 0, 4)) \in Int /\ Value4(Part(b, 0, 4)) \in Int /\ Value4(low.S) \in Int
      /\ Value5(Part(a, 4, 5)) \in Int /\ Value5(Part(b, 4, 5)) \in Int /\ Value5(high.S) \in Int
  BY <1>2, <1>3, <1>4, <1>5, <1>8, FiveBitNumber DEF Vector4
<1>10. PICK al \in Int, bl \in Int, sl \in Int :
         /\ al = Value4(Part(a, 0, 4)) /\ bl = Value4(Part(b, 0, 4)) /\ sl = Value4(low.S)
  BY <1>9, Zenon
<1>11. PICK ah \in Int, bh \in Int, sh \in Int :
         /\ ah = Value5(Part(a, 4, 5)) /\ bh = Value5(Part(b, 4, 5)) /\ sh = Value5(high.S)
  BY <1>9, Zenon
<1>12. cin \in Int /\ low.cout \in Int /\ high.cout \in Int
  BY <1>4, <1>5 DEF Bit
<1>13. PICK c \in Int, lc \in Int, hc \in Int : c = cin /\ lc = low.cout /\ hc = high.cout
  BY <1>12, Zenon
<1>14. sl + 16 * lc = al + bl + c
  BY <1>4, <1>10, <1>13
<1>15. sh + 32 * hc = ah + bh + lc
  BY <1>5, <1>11, <1>13
<1>16. (sl + 16 * sh) + 512 * hc = (al + 16 * ah) + (bl + 16 * bh) + c
  BY <1>14, <1>15
<1>17. Value9(S) = sl + 16 * sh /\ Value9(a) = al + 16 * ah /\ Value9(b) = bl + 16 * bh
  BY <1>6, <1>7, <1>10, <1>11 DEF Value9
<1>18. Value9(S) + 512 * high.cout = Value9(a) + Value9(b) + cin
  BY <1>13, <1>16, <1>17
<1> QED
  BY <1>1, <1>18

\* select_adder's sum is the lower nine bits of ripple_adder's.
LEMMA SelectIsRipple ==
  ASSUME NEW a \in Vector16, NEW b \in Vector16
  PROVE  select_adder(Part(a, 0, 9), Part(b, 0, 9), 0).S = Part(ripple_adder(a, b, 0).S, 0, 9)
<1> DEFINE x == Part(a, 0, 9)
           y == Part(b, 0, 9)
           low  == fourbit_ripple(Part(x, 0, 4), Part(y, 0, 4), 0)
           high == fivebit_ripple(Part(x, 4, 5), Part(y, 4, 5), low.cout)
           I == Into(a, b, 0)
           s == [n \in Bits4 |-> GroupSum(a, b, n, I[n + 1]).S]
<1>1. x \in Vector9 /\ y \in Vector9
  BY DEF Part, Vector9, Vector16
<1>2. \A i \in 0..8 : x[i] = a[i] /\ y[i] = b[i]
  BY DEF Part
<1>3. 0 \in Bit
  BY DEF Bit
<1>4. select_adder(x, y, 0).S = [i \in 0..8 |-> IF i < 4 THEN low.S[i] ELSE high.S[i - 4]]
  <2> HIDE DEF x, y
  <2> QED
    BY <1>1, <1>3, SelectTakesCarry
<1>5. /\ \A i \in 0..3 : Part(x, 0, 4)[i] = a[i] /\ Part(y, 0, 4)[i] = b[i]
      /\ \A i \in 0..4 : Part(x, 4, 5)[i] = a[4 + i] /\ Part(y, 4, 5)[i] = b[4 + i]
  <2> HIDE DEF x, y
  <2> QED
    BY <1>2 DEF Part
<1>6. /\ \A i \in Bits4 : Group(a, 0)[i] = a[i] /\ Group(b, 0)[i] = b[i]
      /\ \A i \in Bits4 : Group(a, 1)[i] = a[4 + i] /\ Group(b, 1)[i] = b[4 + i]
      /\ Group(a, 2)[0] = a[8] /\ Group(b, 2)[0] = b[8]
  BY GroupBits DEF Bits4
<1>7. low = GroupSum(a, b, 0, 0)
  <2>1. \A i \in Bits4 : Part(x, 0, 4)[i] = Group(a, 0)[i] /\ Part(y, 0, 4)[i] = Group(b, 0)[i]
    <3> HIDE DEF x, y
    <3> QED
      BY <1>5, <1>6 DEF Bits4
  <2> HIDE DEF x, y
  <2> QED
    BY <2>1, FourBitsOnly DEF GroupSum
<1>8. \A i \in Bits4 : Part(x, 4, 5)[i] = Group(a, 1)[i] /\ Part(y, 4, 5)[i] = Group(b, 1)[i]
  <2> HIDE DEF x, y
  <2> QED
    BY <1>5, <1>6 DEF Bits4
<1>9. /\ Part(x, 4, 5)[4] = Group(a, 2)[0] /\ Part(y, 4, 5)[4] = Group(b, 2)[0]
  <2> HIDE DEF x, y
  <2> QED
    BY <1>5, <1>6
<1> HIDE DEF x, y
<1>10. /\ I[1] = 0 /\ I[2] = GroupSum(a, b, 0, I[1]).cout
       /\ I[3] = GroupSum(a, b, 1, I[2]).cout
  <2>1. 0 \in Bits4 /\ 1 \in Bits4
    BY DEF Bits4
  <2> QED
    BY <1>3, <2>1, IntoBits
<1> HIDE DEF I
<1>11. low.cout = I[2] /\ low = GroupSum(a, b, 0, I[1])
  BY <1>7, <1>10
<1>12. fourbit_ripple(Part(x, 4, 5), Part(y, 4, 5), I[2]) = GroupSum(a, b, 1, I[2])
  BY <1>8, FourBitsOnly DEF GroupSum
<1> HIDE DEF low
<1>13. high.S = [i \in 0..4 |-> IF i = 4 THEN Sum1(Group(a, 2)[0], Group(b, 2)[0], I[3])
                               ELSE GroupSum(a, b, 1, I[2]).S[i]]
  BY <1>9, <1>10, <1>11, <1>12 DEF fivebit_ripple
<1>14. GroupSum(a, b, 2, I[3]).S[0] = Sum1(Group(a, 2)[0], Group(b, 2)[0], I[3])
  BY DEF GroupSum, fourbit_ripple, Bits4
<1>15. ripple_adder(a, b, 0).S = Joined(s)
  BY <1>3, RippleGroups DEF I
<1>16. Part(Joined(s), 0, 9) = [i \in 0..8 |-> s[i \div 4][i % 4]]
  BY DEF Part, Joined
<1>17. ASSUME NEW i \in 0..8
       PROVE  (IF i < 4 THEN low.S[i] ELSE high.S[i - 4]) = s[i \div 4][i % 4]
  <2>1. s[0] = low.S /\ s[1] = GroupSum(a, b, 1, I[2]).S /\ s[2] = GroupSum(a, b, 2, I[3]).S
    BY <1>11 DEF Bits4
  <2>2. \A j \in 0..3 : high.S[j] = s[1][j]
    BY <1>13, <2>1
  <2>3. high.S[4] = s[2][0]
    BY <1>13, <1>14, <2>1
  <2> HIDE DEF s, high
  <2>4. CASE i < 4
    <3>1. i \div 4 = 0 /\ i % 4 = i
      BY <2>4
    <3> QED
      BY <2>1, <2>4, <3>1
  <2>5. CASE i \in 4..7
    <3>1. i \div 4 = 1 /\ i % 4 = i - 4 /\ i - 4 \in 0..3 /\ ~(i < 4)
      BY <2>5
    <3> QED
      BY <2>2, <3>1
  <2>6. CASE i = 8
    <3>1. i \div 4 = 2 /\ i % 4 = 0 /\ i - 4 = 4 /\ ~(i < 4)
      BY <2>6
    <3> QED
      BY <2>3, <3>1
  <2> QED
    BY <2>4, <2>5, <2>6
<1> HIDE DEF s, high
<1>18. [i \in 0..8 |-> IF i < 4 THEN low.S[i] ELSE high.S[i - 4]]
         = [i \in 0..8 |-> s[i \div 4][i % 4]]
  BY <1>17
<1> QED
  BY <1>4, <1>15, <1>16, <1>18 DEF x, y
-----------------------------------------------------------------------------
(* The register.                                                           *)

\* Sixteen bits are a number less than 65536.
LEMMA SixteenBits ==
  ASSUME NEW v \in Vector16
  PROVE  Value16(v) \in Nat /\ Value16(v) < 65536
<1>1. 0 \in Bits4 /\ 1 \in Bits4 /\ 2 \in Bits4 /\ 3 \in Bits4
  BY DEF Bits4
<1>2. /\ Value4(Group(v, 0)) \in 0..15 /\ Value4(Group(v, 1)) \in 0..15
      /\ Value4(Group(v, 2)) \in 0..15 /\ Value4(Group(v, 3)) \in 0..15
  BY <1>1, GroupDigits
<1>3. PICK d0 \in 0..15, d1 \in 0..15, d2 \in 0..15, d3 \in 0..15 :
        /\ d0 = Value4(Group(v, 0)) /\ d1 = Value4(Group(v, 1))
        /\ d2 = Value4(Group(v, 2)) /\ d3 = Value4(Group(v, 3))
  BY <1>2, Zenon
<1>4. /\ d0 + 16 * d1 + 256 * d2 + 4096 * d3 \in Nat
      /\ d0 + 16 * d1 + 256 * d2 + 4096 * d3 < 65536
  OBVIOUS
<1>5. Value16(v) = d0 + 16 * d1 + 256 * d2 + 4096 * d3
  BY <1>3 DEF Value16
<1> QED
  BY <1>4, <1>5

\* The lower sixteen bits of a vector have the groups of the vector.
LEMMA LowerSixteen ==
  ASSUME NEW v \in [0..16 -> Bit]
  PROVE  /\ Part(v, 0, 16) \in Vector16
         /\ Value16(v) = Value16(Part(v, 0, 16))
         /\ v[16] \in Bit
<1>1. Part(v, 0, 16) \in Vector16
  BY DEF Part, Vector16
<1>2. \A n \in Bits4 : Group(v, n) = Group(Part(v, 0, 16), n)
  BY DEF Group, Part, Bits4
<1>3. Value16(v) = Value16(Part(v, 0, 16))
  BY <1>2 DEF Value16, Bits4
<1> QED
  BY <1>1, <1>3

\* The switches are ten bits, and six that are zero.
LEMMA Switches ==
  ASSUME SW \in Settings
  PROVE  /\ extended_SW \in Vector16
         /\ \A i \in 10..15 : extended_SW[i] = 0
         /\ Value16(extended_SW) \in 0..1023
<1>1. SW \in [0..9 -> Bit]
  BY SettingAssumption
<1>2. extended_SW \in Vector16 /\ \A i \in 10..15 : extended_SW[i] = 0
  BY <1>1 DEF extended_SW, Vector16, Bit
<1> HIDE DEF extended_SW
<1> DEFINE x == extended_SW
<1>3. 0 \in Bits4 /\ 1 \in Bits4 /\ 2 \in Bits4 /\ 3 \in Bits4
  BY DEF Bits4
<1>4. /\ Group(x, 2)[0] = x[8] /\ Group(x, 2)[1] = x[9]
      /\ Group(x, 2)[2] = 0 /\ Group(x, 2)[3] = 0
      /\ \A i \in Bits4 : Group(x, 3)[i] = 0
  BY <1>2, <1>3, GroupBits DEF Bits4
<1>5. Value4(Group(x, 3)) = 0
  BY <1>4 DEF Value4, Bits4
<1>6. Value4(Group(x, 2)) \in 0..3
  BY <1>2, <1>4 DEF Value4, Vector16, Bit
<1>7. Value4(Group(x, 0)) \in 0..15 /\ Value4(Group(x, 1)) \in 0..15
  BY <1>2, <1>3, GroupDigits
<1>8. Value16(x) \in 0..1023
  BY <1>5, <1>6, <1>7 DEF Value16
<1> QED
  BY <1>2, <1>8

\* The inductive invariant: the register is the sum, and the controller asks for an
\* addition, or waits for a press, only after a release.
IInv ==
  /\ TypeOK
  /\ Value17(Out) = sum
  /\ curr_state \in {"A", "B"} => fresh

\* What the register takes is the sum of the switches and its lower sixteen bits.
LEMMA RouterAdds ==
  ASSUME SW \in Settings, Out \in [0..16 -> Bit]
  PROVE  /\ In \in [0..16 -> Bit]
         /\ Value17(In) = Value16(extended_SW) + Value16(Out)
         /\ Adder = ripple_adder(extended_SW, Part(Out, 0, 16), 0)
<1> DEFINE x == extended_SW
           y == Part(Out, 0, 16)
<1>1. x \in Vector16 /\ y \in Vector16 /\ Value16(Out) = Value16(y)
  BY Switches, LowerSixteen
<1>2. \A i \in 12..15 : x[i] = 0
  BY Switches
<1>3. 0 \in Bit
  BY DEF Bit
<1> HIDE DEF x, y
<1>4. lookahead_adder(x, y, 0) = ripple_adder(x, y, 0)
  BY <1>1, <1>2, <1>3, LookaheadIsRipple
<1>5. Adder = lookahead_adder(x, y, 0)
  BY DEF Adder, x, y
<1>6. /\ Adder.S \in Vector16 /\ Adder.cout \in Bit
      /\ Value16(Adder.S) + 65536 * Adder.cout = Value16(x) + Value16(y) + 0
  BY <1>1, <1>3, <1>4, <1>5, RippleAdds
<1> HIDE DEF Adder
<1>7. In \in [0..16 -> Bit] /\ In[16] = Adder.cout /\ Part(In, 0, 16) = Adder.S
  BY <1>6 DEF In, Part, Vector16
<1>8. Value16(In) = Value16(Adder.S)
  BY <1>7, LowerSixteen
<1>9. Value16(x) \in Nat /\ Value16(y) \in Nat
  BY <1>1, SixteenBits
<1>10. Value16(x) + Value16(y) + 0 = Value16(x) + Value16(y)
  <2>1. \A m, n \in Nat : m + n + 0 = m + n
    OBVIOUS
  <2> QED
    BY <1>9, <2>1, Zenon
<1>11. Value17(In) = Value16(x) + Value16(y)
  BY <1>6, <1>7, <1>8, <1>10 DEF Value17
<1> QED
  BY <1>1, <1>4, <1>5, <1>7, <1>11 DEF x, y
\* The number of nine bits looks at the lower nine.
LEMMA NinthOnly ==
  ASSUME NEW v
  PROVE  Value9(Part(v, 0, 9)) = Value9(v)
<1>1. \A i \in 0..8 : Part(v, 0, 9)[i] = v[i]
  BY DEF Part
<1> DEFINE u == Part(v, 0, 9)
<1> HIDE DEF u
<1>2. Part(u, 0, 4) = Part(v, 0, 4) /\ Part(u, 4, 5) = Part(v, 4, 5)
  <2>1. \A i \in 0..8 : u[i] = v[i]
    BY <1>1 DEF u
  <2> QED
    BY <2>1 DEF Part
<1> QED
  BY <1>2 DEF Value9, u

\* Nine bits are a number.
LEMMA NineBits ==
  ASSUME NEW v \in Vector9
  PROVE  Value9(v) \in Nat
<1>1. \A i \in Bits4 : Part(v, 0, 4)[i] \in Bit
  BY DEF Part, Vector9, Bits4
<1>2. Value4(Part(v, 0, 4)) \in Nat
  BY <1>1 DEF Value4, Bits4, Bit
<1>3. Part(v, 4, 5) \in Vector5
  BY DEF Part, Vector9, Vector5
<1>4. Value5(Part(v, 4, 5)) \in Nat
  BY <1>3, FiveBitNumber
<1> QED
  BY <1>2, <1>4 DEF Value9

\* The cleared register is the number zero.
LEMMA ZeroRegister == Zero \in [0..16 -> Bit] /\ Value17(Zero) = 0
<1>1. Zero \in [0..16 -> Bit] /\ \A i \in 0..16 : Zero[i] = 0
  BY DEF Zero, Bit
<1>2. \A n \in Bits4 : Value4(Group(Zero, n)) = 0
  BY <1>1 DEF Value4, Group, Part, Bits4
<1> QED
  BY <1>1, <1>2 DEF Value17, Value16, Bits4

\* The initial states satisfy it.
LEMMA InitIInv == Init => IInv
<1> SUFFICES ASSUME Init
             PROVE  IInv
  OBVIOUS
<1>1. Zero \in [0..16 -> Bit] /\ Value17(Zero) = 0
  BY ZeroRegister
<1>2. Out = Zero /\ sum = 0 /\ additions = 0 /\ fresh = TRUE
      /\ curr_state = "A" /\ Run \in BOOLEAN /\ SW \in Settings
  BY DEF Init
<1>3. TypeOK
  BY <1>1, <1>2 DEF TypeOK
<1> QED
  BY <1>1, <1>2, <1>3 DEF IInv

\* What the register holds in its lower sixteen bits is the sum without its overflow.
LEMMA LowerSum ==
  ASSUME IInv
  PROVE  /\ Value16(Out) = sum % 65536
         /\ Value16(Out) \in Nat /\ Value16(Out) < 65536
<1>1. Out \in [0..16 -> Bit] /\ sum = Value16(Out) + 65536 * Out[16]
  BY DEF IInv, TypeOK, Value17
<1>2. Value16(Out) \in Nat /\ Value16(Out) < 65536
  BY <1>1, LowerSixteen, SixteenBits
<1>3. PICK v \in Nat, h \in Bit : v = Value16(Out) /\ h = Out[16]
  BY <1>1, <1>2, LowerSixteen
<1>4. v < 65536 /\ sum = v + 65536 * h
  BY <1>1, <1>2, <1>3
<1>5. sum % 65536 = v
  <2>1. CASE h = 0
    BY <1>4, <2>1
  <2>2. CASE h = 1
    BY <1>4, <2>2
  <2> QED
    BY <2>1, <2>2 DEF Bit
<1> QED
  BY <1>2, <1>3, <1>5

\* A clock edge keeps it: the register takes the sum when the controller loads it.
LEMMA ClockIInv ==
  ASSUME IInv, Clock
  PROVE  IInv'
<1>1. /\ curr_state \in {"A", "B", "C"} /\ Out \in [0..16 -> Bit]
      /\ Run \in BOOLEAN /\ SW \in Settings /\ fresh \in BOOLEAN
      /\ additions \in Nat /\ Value17(Out) = sum
      /\ (curr_state \in {"A", "B"} => fresh)
  BY DEF IInv, TypeOK
<1>2. /\ control /\ reg_17
      /\ fresh' = (IF Load THEN ~Run ELSE fresh \/ ~Run)
      /\ Run' = Run /\ SW' = SW
  BY DEF Clock
<1>3. curr_state' \in {"A", "B", "C"}
  BY <1>1, <1>2 DEF control
<1>4. /\ Load => fresh' = ~Run
      /\ ~Load => fresh' = (fresh \/ ~Run)
  BY <1>2, Zenon
<1>5. /\ fresh' \in BOOLEAN
      /\ curr_state' \in {"A", "B"} => fresh'
  <2>1. fresh' \in BOOLEAN
    BY <1>1, <1>4, Zenon
  <2>2. /\ curr_state = "B" => curr_state' = "C"
        /\ curr_state = "C" /\ Run => curr_state' = "C"
    BY <1>2 DEF control
  <2>3. CASE curr_state = "A"
    <3>1. ~Load /\ fresh
      BY <1>1, <2>3 DEF Load
    <3> QED
      BY <1>4, <2>1, <3>1, Zenon
  <2>4. CASE curr_state = "B"
    BY <2>1, <2>2, <2>4
  <2>5. CASE curr_state = "C"
    <3>1. ~Load
      BY <2>5 DEF Load
    <3>2. CASE Run
      BY <2>1, <2>2, <2>5, <3>2
    <3>3. CASE ~Run
      BY <1>4, <2>1, <3>1, <3>3, Zenon
    <3> QED
      BY <3>2, <3>3, Zenon
  <2> QED
    BY <1>1, <2>1, <2>3, <2>4, <2>5
<1>6. /\ Out' \in [0..16 -> Bit] /\ sum' \in Nat /\ sum' < 65535 + 1024 /\ additions' \in Nat
      /\ Value17(Out') = sum'
  <2>1. CASE Load
    <3>1. /\ Out' = In /\ sum' = (sum % 65536) + Value16(extended_SW)
          /\ additions' = additions + 1
      BY <1>2, <2>1 DEF reg_17
    <3>2. In \in [0..16 -> Bit] /\ Value17(In) = Value16(extended_SW) + Value16(Out)
      BY <1>1, RouterAdds
    <3>3. Value16(extended_SW) \in 0..1023
      BY <1>1, Switches
    <3>4. Value16(Out) = sum % 65536 /\ Value16(Out) \in Nat /\ Value16(Out) < 65536
      BY LowerSum
    <3>5. Value16(extended_SW) \in Nat /\ Value16(Out) \in Nat
      BY <3>3, <3>4
    <3>6. PICK v \in Nat, w \in Nat : v = Value16(Out) /\ w = Value16(extended_SW)
      BY <3>5, Zenon
    <3>7. v < 65536 /\ w < 1024 /\ sum' = v + w /\ Value17(In) = w + v
      BY <3>1, <3>2, <3>3, <3>4, <3>6
    <3>8. sum' \in Nat /\ sum' < 65535 + 1024 /\ Value17(In) = sum'
      BY <3>7
    <3> QED
      BY <1>1, <3>1, <3>2, <3>8
  <2>2. CASE ~Load
    BY <1>1, <1>2, <2>2 DEF reg_17, IInv, TypeOK
  <2> QED
    BY <2>1, <2>2
<1>7. TypeOK'
  BY <1>1, <1>2, <1>3, <1>5, <1>6 DEF TypeOK
<1> QED
  BY <1>5, <1>6, <1>7 DEF IInv, Value17, Value16, Value4, Group, Part

\* Every step keeps it.
LEMMA NextIInv == IInv /\ [Next]_vars => IInv'
<1> SUFFICES ASSUME IInv, [Next]_vars
             PROVE  IInv'
  OBVIOUS
<1>1. CASE Clock
  BY <1>1, ClockIInv
<1>2. CASE Reset
  <2>1. Out' = Zero /\ Value17(Zero) = 0 /\ Zero \in [0..16 -> Bit]
    BY <1>2, ZeroRegister DEF Reset
  <2>2. TypeOK'
    BY <1>2, <2>1 DEF IInv, TypeOK, Reset
  <2>3. Value17(Out)' = sum'
    BY <1>2, <2>1 DEF Reset, Value17, Value16, Value4, Group, Part
  <2> QED
    BY <1>2, <2>2, <2>3 DEF IInv, Reset
<1>3. CASE Press \/ Release \/ Switch
  <2>1. UNCHANGED <<curr_state, Out, fresh, sum, additions>>
    BY <1>3, Zenon DEF Press, Release, Switch
  <2>2. TypeOK /\ Run \in BOOLEAN /\ SW \in Settings
    BY DEF IInv, TypeOK
  <2>3. Run' \in BOOLEAN
    BY <1>3, <2>2, Zenon DEF Press, Release, Switch
  <2>4. SW' \in Settings
    BY <1>3, <2>2, Zenon DEF Press, Release, Switch
  <2>5. Value17(Out)' = Value17(Out)
    BY <2>1 DEF Value17, Value16, Value4, Group, Part
  <2>6. TypeOK'
    BY <2>1, <2>2, <2>3, <2>4 DEF TypeOK
  <2> QED
    BY <2>1, <2>5, <2>6 DEF IInv
<1>4. CASE UNCHANGED vars
  <2>1. Value17(Out)' = Value17(Out)
    BY <1>4 DEF vars, Value17, Value16, Value4, Group, Part
  <2> QED
    BY <1>4, <2>1 DEF IInv, TypeOK, vars
<1> QED
  BY <1>1, <1>2, <1>3, <1>4 DEF Next

\* The inductive invariant holds of the accumulator, for every setting of the switches.
THEOREM Invariant == Spec => []IInv
<1>1. IInv /\ [Next]_vars => IInv'
  BY NextIInv
<1> QED
  BY InitIInv, <1>1, PTL DEF Spec

\* TypeOK: the register has seventeen bits, and the sum is less than that of the largest
\* operands.
THEOREM TypeCorrect == Spec => []TypeOK
<1>1. IInv => TypeOK
  BY DEF IInv
<1> QED
  BY <1>1, Invariant, PTL

\* HoldsTheSum, in the states of the invariant: the register is the sum, and the lookahead
\* adder, the ripple adder and the select adder agree on every operand.
LEMMA IInvSum == IInv => HoldsTheSum
<1> SUFFICES ASSUME IInv
             PROVE  HoldsTheSum
  OBVIOUS
<1> DEFINE x == extended_SW
           y == Part(Out, 0, 16)
           sel == select_adder(Part(x, 0, 9), Part(Out, 0, 9), 0)
<1>1. SW \in Settings /\ Out \in [0..16 -> Bit] /\ Value17(Out) = sum
  BY DEF IInv, TypeOK
<1>2. x \in Vector16 /\ y \in Vector16
  BY <1>1, Switches, LowerSixteen
<1>3. Adder = ripple_adder(x, y, 0)
  BY <1>1, RouterAdds
<1>4. Part(Out, 0, 9) = Part(y, 0, 9)
  BY DEF Part
<1>5. sel.S = Part(Adder.S, 0, 9)
  <2> HIDE DEF x, y
  <2> QED
    BY <1>2, <1>3, <1>4, SelectIsRipple
<1>6. Value9(sel.S) + 512 * sel.cout = Value9(x) + Value9(Out)
  <2>1. Part(x, 0, 9) \in Vector9 /\ Part(Out, 0, 9) \in Vector9
    BY <1>1, <1>2 DEF Part, Vector9, Vector16
  <2>2. 0 \in Bit
    BY DEF Bit
  <2> HIDE DEF x
  <2>3. Value9(sel.S) + 512 * sel.cout = Value9(Part(x, 0, 9)) + Value9(Part(Out, 0, 9)) + 0
    BY <2>1, <2>2, SelectAdds
  <2>4. Value9(Part(x, 0, 9)) = Value9(x) /\ Value9(Part(Out, 0, 9)) = Value9(Out)
    BY NinthOnly
  <2>5. Value9(x) \in Nat /\ Value9(Out) \in Nat
    BY <2>1, <2>4, NineBits
  <2> HIDE DEF sel
  <2> QED
    BY <2>3, <2>4, <2>5
<1> QED
  BY <1>1, <1>3, <1>5, <1>6 DEF HoldsTheSum

\* HoldsTheSum: the register is the sum of the switches at the presses, modulo 2^16, with
\* the carry of the last addition above, and the three adders agree.
THEOREM Sum == Spec => []HoldsTheSum
BY IInvSum, Invariant, PTL

\* OncePerPress: between two additions the button has been up.
THEOREM Once == Spec => OncePerPress
<1>1. IInv /\ [Next]_vars => [Load /\ curr_state' = "C" => fresh]_vars
  BY DEF IInv, Load
<1> QED
  BY <1>1, Invariant, PTL DEF Spec, OncePerPress
=============================================================================
