------------------------------- MODULE Adders -------------------------------
(***************************************************************************)
(* The three adders of lab 3, on vectors of bits (bit 0 is the lowest).    *)
(***************************************************************************)
EXTENDS Integers

Bit   == 0..1
Bits4 == 0..3

One(b) == IF b THEN 1 ELSE 0

And(a, b) == One(a = 1 /\ b = 1)
Or(a, b)  == One(a = 1 \/ b = 1)
Xor(a, b) == One(a # b)

\* single_rippleadder.
Sum1(a, b, cin)   == Xor(Xor(a, b), cin)
Carry1(a, b, cin) == Or(Or(And(a, b), And(b, cin)), And(a, cin))

\* A part of a vector: size bits from low on; and the four bits from 4 * n on.
Part(v, low, size) == [i \in 0..size - 1 |-> v[low + i]]
Group(v, n) == Part(v, 4 * n, 4)

\* The number of a vector of 4, 5, 9, 16 or 17 bits.
Value4(v)  == v[0] + 2 * v[1] + 4 * v[2] + 8 * v[3]
Value5(v)  == Value4(v) + 16 * v[4]
Value9(v)  == Value4(Part(v, 0, 4)) + 16 * Value5(Part(v, 4, 5))
Value16(v) == Value4(Group(v, 0)) + 16 * Value4(Group(v, 1))
                + 256 * Value4(Group(v, 2)) + 4096 * Value4(Group(v, 3))
Value17(v) == Value16(v) + 65536 * v[16]

-----------------------------------------------------------------------------
(* ripple_adder: each carry from the bit below.                            *)

fourbit_ripple(a, b, cin) ==
  LET c1 == Carry1(a[0], b[0], cin)
      c2 == Carry1(a[1], b[1], c1)
      c3 == Carry1(a[2], b[2], c2)
  IN  [S |-> [i \in Bits4 |-> Sum1(a[i], b[i], <<cin, c1, c2, c3>>[i + 1])],
       cout |-> Carry1(a[3], b[3], c3)]

fivebit_ripple(a, b, cin) ==
  LET low == fourbit_ripple(a, b, cin)
  IN  [S |-> [i \in 0..4 |-> IF i = 4 THEN Sum1(a[4], b[4], low.cout) ELSE low.S[i]],
       cout |-> Carry1(a[4], b[4], low.cout)]

\* The 16 bits of four groups.
Joined(s) == [i \in 0..15 |-> s[i \div 4][i % 4]]

ripple_adder(a, b, cin) ==
  LET fbr(n, c) == fourbit_ripple(Group(a, n), Group(b, n), c)
      c1 == fbr(0, cin).cout
      c2 == fbr(1, c1).cout
      c3 == fbr(2, c2).cout
  IN  [S |-> Joined([n \in Bits4 |-> fbr(n, <<cin, c1, c2, c3>>[n + 1]).S]),
       cout |-> fbr(3, c3).cout]

-----------------------------------------------------------------------------
(* select_adder: the upper five bits for both carries from the lower four. *)

select_adder(a, b, cin) ==
  LET low  == fourbit_ripple(Part(a, 0, 4), Part(b, 0, 4), cin)
      zero == fivebit_ripple(Part(a, 4, 5), Part(b, 4, 5), 0)
      one  == fivebit_ripple(Part(a, 4, 5), Part(b, 4, 5), 1)
      high == IF low.cout = 1 THEN one ELSE zero
  IN  [S |-> [i \in 0..8 |-> IF i < 4 THEN low.S[i] ELSE high.S[i - 4]],
       cout |-> Or(And(one.cout, low.cout), zero.cout)]

-----------------------------------------------------------------------------
(* lookahead_adder: every carry from the carry into its group.             *)

\* fourbit_CLA.
Propagate(a, b) == [i \in DOMAIN a |-> Xor(a[i], b[i])]
Generate(a, b)  == [i \in DOMAIN a |-> And(a[i], b[i])]
PG(p)           == One(\A i \in Bits4 : p[i] = 1)
GG(p, g)        == One(\E j \in Bits4 : g[j] = 1 /\ \A i \in j + 1..3 : p[i] = 1)

\* mutant: the carry that bit 2 generates is left out too.
CarryOutLess(p, g, cin) ==
  [k \in Bits4 |-> One(\/ cin = 1 /\ \A i \in 0..k : p[i] = 1
                       \/ \E j \in 0..k : j < 2 /\ g[j] = 1 /\ \A i \in j + 1..k : p[i] = 1)]

\* fourbitCLA_carryunit.  The carry that bit 3 generates is not in CarryOut[3].
CarryOut(p, g, cin) ==
  [k \in Bits4 |-> One(\/ cin = 1 /\ \A i \in 0..k : p[i] = 1
                       \/ \E j \in 0..k : j # 3 /\ g[j] = 1 /\ \A i \in j + 1..k : p[i] = 1)]

\* The carries out of the groups; and, from the carry into group n, those into its bits.
GroupCarries(a, b, cin) ==
  LET p(n) == Propagate(Group(a, n), Group(b, n))
      g(n) == Generate(Group(a, n), Group(b, n))
  IN  CarryOut([n \in Bits4 |-> PG(p(n))], [n \in Bits4 |-> GG(p(n), g(n))], cin)

BitCarries(a, b, into) ==
  LET c == CarryOut(Propagate(a, b), Generate(a, b), into)
  IN  [i \in Bits4 |-> IF i = 0 THEN into ELSE c[i - 1]]

\* single_CLA.
CLA_S(a, b, into) == [i \in Bits4 |-> Sum1(a[i], b[i], BitCarries(a, b, into)[i])]

lookahead_adder(a, b, cin) ==
  LET cc == GroupCarries(a, b, cin)
  IN  [S |-> Joined([n \in Bits4 |-> CLA_S(Group(a, n), Group(b, n),
                                           IF n = 0 THEN cin ELSE cc[n - 1])]),
       cout |-> cc[3]]
=============================================================================
