---------------------- MODULE SerialProcessor_proofs ------------------------
(***************************************************************************)
(* Proofs about SerialProcessor, for every function, routing and set of    *)
(* words on the switches.                                                  *)
(***************************************************************************)
EXTENDS SerialProcessor, TLAPS

\* After k shifts a register holds the bits that wait, below those that are done.
Mixed(start, done, k) == [i \in 0..7 |-> IF i < 8 - k THEN start[i + k] ELSE done[i + k - 8]]

\* The words an operation on start is to leave.
ResultA == [i \in 0..7 |-> newA(startA[i], startB[i])]
ResultB == [i \in 0..7 |-> newB(startA[i], startB[i])]

\* In the state after A, k - 1 of the shifts are done.
Shifting ==
  curr_state # A0 => /\ A = Mixed(startA, ResultA, curr_state - 1)
                     /\ B = Mixed(startB, ResultB, curr_state - 1)

\* A is entered only with a reset or with Execute up.
Armed == curr_state = A0 => fresh

IInv == TypeOK /\ Shifting /\ Armed

-----------------------------------------------------------------------------
\* The one-bit unit and the router give bits, so that the results are words.
LEMMA Bits ==
  ASSUME NEW a \in Bit, NEW b \in Bit
  PROVE  newA(a, b) \in Bit /\ newB(a, b) \in Bit
<1>1. compute(a, b) \in Bit
  <2>1. F \in 0..7
    BY SelectAssumption
  <2>2. CASE F \in {0, 1, 2, 3}
    BY <2>2 DEF compute, Bit, One
  <2>3. CASE F \in {4, 5, 6, 7}
    BY <2>3 DEF compute, Bit, One, Not
  <2> QED
    BY <2>1, <2>2, <2>3
<1> QED
  BY <1>1, SelectAssumption DEF newA, newB

\* A shift moves the next waiting bit's result in at the top.
LEMMA ShiftMixes ==
  ASSUME NEW start \in Word, NEW done \in Word, NEW k \in 0..7
  PROVE  Shifted(Mixed(start, done, k), done[k]) = Mixed(start, done, k + 1)
<1> SUFFICES ASSUME NEW i \in 0..7
             PROVE  (IF i = 7 THEN done[k] ELSE Mixed(start, done, k)[i + 1])
                      = (IF i < 8 - (k + 1) THEN start[i + (k + 1)] ELSE done[i + (k + 1) - 8])
  BY DEF Shifted, Mixed
<1>1. CASE i = 7
  BY <1>1 DEF Word
<1>2. CASE i # 7
  <2>1. i + 1 \in 0..7 /\ (i + 1) + k = i + (k + 1)
    BY <1>2
  <2>2. Mixed(start, done, k)[i + 1]
          = IF i + 1 < 8 - k THEN start[i + 1 + k] ELSE done[i + 1 + k - 8]
    BY <2>1 DEF Mixed
  <2>3. (i + 1 < 8 - k) <=> (i < 8 - (k + 1))
    OBVIOUS
  <2> QED
    BY <1>2, <2>1, <2>2, <2>3
<1> QED
  BY <1>1, <1>2

\* Before the first shift a register is as found, after the last it is the result,
\* and the bit that goes to the unit is the one whose turn it is.
LEMMA MixedEnds ==
  ASSUME NEW start \in Word, NEW done \in Word
  PROVE  /\ Mixed(start, done, 0) = start
         /\ Mixed(start, done, 8) = done
         /\ \A k \in 0..7 : Mixed(start, done, k)[0] = start[k]
<1>1. Mixed(start, done, 0) = [i \in 0..7 |-> start[i]]
  BY DEF Mixed
<1>2. Mixed(start, done, 8) = [i \in 0..7 |-> done[i]]
  BY DEF Mixed
<1>3. \A k \in 0..7 : Mixed(start, done, k)[0] = start[k]
  BY DEF Mixed
<1> QED
  BY <1>1, <1>2, <1>3 DEF Word

\* A register that a load, a shift, a reset or nothing is done to holds a word.
LEMMA RegisterIsWord ==
  ASSUME Din_S \in Word, NEW r \in Word, NEW load, NEW in \in Bit
  PROVE  reg_4(r, load, in) \in Word
BY DEF reg_4, Zero, Shifted, Word, Bit

-----------------------------------------------------------------------------
\* The machine starts in A, with both registers zero.
LEMMA InitIInv == Init => IInv
<1> SUFFICES ASSUME Init
             PROVE  IInv
  OBVIOUS
<1>1. Zero \in Word
  BY DEF Zero, Word, Bit
<1>2. curr_state = 0 /\ curr_state \in 0..9
  BY DEF Init, A0
<1>3. Shifting /\ Armed
  BY <1>2 DEF Shifting, Armed, Init, A0
<1>4. buttons \in BOOLEAN \X BOOLEAN \X BOOLEAN \X BOOLEAN
  BY DEF Init, buttons
<1> QED
  BY <1>1, <1>2, <1>3, <1>4 DEF IInv, TypeOK, Init, States

\* The types survive an edge.
LEMMA NextTypeOK ==
  ASSUME TypeOK, Clock
  PROVE  TypeOK'
<1> USE DEF TypeOK, Clock
<1>1. Din_S \in Word /\ A[0] \in Bit /\ B[0] \in Bit
  BY InputAssumption DEF Word
<1>2. A' \in Word /\ B' \in Word
  BY <1>1, Bits, RegisterIsWord
<1>3. curr_state' \in States
  BY DEF control, States, A0, J
<1>4. startA' \in Word /\ startB' \in Word
  BY <1>2 DEF History
<1>5. fresh' \in BOOLEAN
  BY DEF History, buttons
<1>6. buttons' \in BOOLEAN \X BOOLEAN \X BOOLEAN \X BOOLEAN /\ Din_S' \in Inputs
  BY DEF synchronizers, buttons
<1> QED
  BY <1>2, <1>3, <1>4, <1>5, <1>6

\* In every state but A and J a shift is done; J keeps the result.
LEMMA NextShifting ==
  ASSUME IInv, Clock
  PROVE  Shifting'
<1> USE DEF IInv, Clock
<1> SUFFICES ASSUME curr_state' # A0
             PROVE  /\ A' = Mixed(startA', ResultA', curr_state' - 1)
                    /\ B' = Mixed(startB', ResultB', curr_state' - 1)
  BY DEF Shifting
<1>1. ~Reset_SH /\ curr_state \in 0..9
  BY DEF control, TypeOK, States
<1>2. TypeOK'
  BY NextTypeOK
<1>3. startA' \in Word /\ startB' \in Word /\ ResultA' \in Word /\ ResultB' \in Word
  <2>1. \A i \in 0..7 : startA'[i] \in Bit /\ startB'[i] \in Bit
    BY <1>2 DEF TypeOK, Word
  <2>2. \A i \in 0..7 : newA(startA'[i], startB'[i]) \in Bit /\ newB(startA'[i], startB'[i]) \in Bit
    BY <2>1, Bits
  <2> QED
    BY <1>2, <2>2 DEF TypeOK, ResultA, ResultB, Word
<1>4. CASE curr_state = A0
  <2>1. curr_state' = 1 /\ Start
    BY <1>1, <1>4 DEF control, A0, J, Start
  <2>2. startA' = A' /\ startB' = B'
    BY <2>1 DEF History
  <2> QED
    BY <1>3, <2>1, <2>2, MixedEnds
<1>5. CASE curr_state # A0
  <2>1. startA' = startA /\ startB' = startB /\ ResultA' = ResultA /\ ResultB' = ResultB
    BY <1>5 DEF History, Start, ResultA, ResultB
  <2>2. /\ A = Mixed(startA, ResultA, curr_state - 1)
        /\ B = Mixed(startB, ResultB, curr_state - 1)
    BY <1>5 DEF Shifting
  <2>3. ~Ld_A /\ ~Ld_B
    BY <1>5 DEF Ld_A, Ld_B
  <2>4. CASE curr_state = J
    <3>1. curr_state' = J /\ A' = A /\ B' = B
      BY <1>1, <1>5, <2>3, <2>4 DEF control, reg_4, Shift_En, A0, J
    <3> QED
      BY <2>1, <2>2, <2>4, <3>1
  <2>5. CASE curr_state # J
    <3> DEFINE k == curr_state - 1
    <3>1. k \in 0..7 /\ curr_state' - 1 = k + 1
      BY <1>1, <1>5, <2>5 DEF control, A0, J
    <3>2. A[0] = startA[k] /\ B[0] = startB[k]
      BY <1>3, <2>1, <2>2, <3>1, MixedEnds
    <3>3. newA(A[0], B[0]) = ResultA[k] /\ newB(A[0], B[0]) = ResultB[k]
      BY <3>1, <3>2 DEF ResultA, ResultB
    <3>4. A' = Shifted(A, newA(A[0], B[0])) /\ B' = Shifted(B, newB(A[0], B[0]))
      BY <1>1, <1>5, <2>3, <2>5 DEF reg_4, Shift_En
    <3> HIDE DEF k
    <3>5. A' = Shifted(Mixed(startA, ResultA, k), ResultA[k])
      BY <2>2, <3>3, <3>4 DEF k
    <3>6. B' = Shifted(Mixed(startB, ResultB, k), ResultB[k])
      BY <2>2, <3>3, <3>4 DEF k
    <3> QED
      BY <1>3, <2>1, <3>1, <3>5, <3>6, ShiftMixes
  <2> QED
    BY <2>4, <2>5
<1> QED
  BY <1>4, <1>5

\* The types and what the shifts have done so far are an inductive invariant.
THEOREM Invariant == Spec => []IInv
<1>1. IInv /\ UNCHANGED vars => IInv'
  BY DEF IInv, TypeOK, Shifting, Armed, ResultA, ResultB, vars, buttons
<1>2. ASSUME IInv, Clock
      PROVE  Armed'
  <2>1. curr_state \in 0..9 /\ control /\ History
    BY <1>2 DEF IInv, TypeOK, States, Clock
  <2>2. curr_state' = A0 => Reset_SH \/ ~Execute_SH
    BY <2>1 DEF control, A0, J
  <2>3. Reset_SH \/ ~Execute_SH => fresh'
    BY <2>1, Zenon DEF History
  <2> QED
    BY <2>2, <2>3 DEF Armed
<1>3. IInv /\ [Clock]_vars => IInv'
  BY <1>1, <1>2, NextTypeOK, NextShifting DEF IInv
<1> QED
  BY InitIInv, <1>3, PTL DEF Spec

\* The registers are words of eight bits.
THEOREM TypeCorrect == Spec => []TypeOK
BY Invariant, PTL DEF IInv

\* When the shifts are done the registers are the function and the routing of the
\* words found, for each of the 32 settings and every two words.
THEOREM Computed == Spec => []Computes
<1>1. IInv => Computes
  <2> SUFFICES ASSUME IInv, curr_state = J
               PROVE  A = ResultA /\ B = ResultB
    BY DEF Computes, ResultA, ResultB
  <2>1. \A i \in 0..7 : startA[i] \in Bit /\ startB[i] \in Bit
    BY DEF IInv, TypeOK, Word
  <2>2. ResultA \in Word /\ ResultB \in Word
    BY <2>1, Bits DEF ResultA, ResultB, Word
  <2>3. A = Mixed(startA, ResultA, 8) /\ B = Mixed(startB, ResultB, 8)
    BY DEF IInv, Shifting, A0, J
  <2> QED
    BY <2>2, <2>3, MixedEnds DEF IInv, TypeOK
<1> QED
  BY Invariant, <1>1, PTL

\* However long Execute is held, it starts one operation.
THEOREM OneStart == Spec => OncePerPress
<1>1. IInv /\ [Clock]_vars => [Start => fresh]_vars
  BY DEF IInv, Armed, Start
<1> QED
  BY Invariant, <1>1, PTL DEF Spec, OncePerPress
=============================================================================
