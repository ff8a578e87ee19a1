--------------------------- MODULE JpegBitsProofs ---------------------------
(***************************************************************************)
(* Proofs about JpegBits, for bytes, codes, restart intervals and buffers  *)
(* of any size and each kind of destination: the bytes written are the     *)
(* bits of the MCUs, stuffed, with the markers between the intervals, and  *)
(* the bits that do not fill a byte wait in put_buffer.                    *)
(*                                                                         *)
(* What recursive functions and FlattenSeq compute is proved by induction  *)
(* over sets: the numbers, or the sequences, a fact holds of.  The         *)
(* invariant follows the stream through the operations of an MCU: after    *)
(* each, BitsAt are the bits of the interval so far, of which the last     *)
(* wait in put_buffer (BitsHeld) and the others are out (OutHeld), behind  *)
(* the bytes BeforeAt of the intervals before it.                          *)
(***************************************************************************)
EXTENDS JpegBits, WellFoundedInduction, SequenceTheorems, TLAPS

\* Induction over the numbers, as a fact about a set of them.
LEMMA NatSet ==
  ASSUME NEW S, 0 \in S, \A n \in Nat : n \in S => n + 1 \in S
  PROVE  \A n \in Nat : n \in S
<1> SUFFICES ASSUME NEW b \in Nat, b \notin S
    PROVE FALSE
  OBVIOUS
<1> DEFINE T == {n \in Nat : n \notin S}
<1>1. IsWellFoundedOn(OpToRel(<, Nat), Nat)
  BY NatLessThanWellFounded
<1>2. T \subseteq Nat /\ T # {}
  OBVIOUS
<1>3. PICK x \in T : \A y \in T : ~ (<<y, x>> \in OpToRel(<, Nat))
  BY <1>1, <1>2, WFMin
<1>4. x # 0 /\ x - 1 \in Nat
  OBVIOUS
<1>5. x - 1 \in S
  <2> SUFFICES ASSUME x - 1 \notin S PROVE FALSE
    OBVIOUS
  <2>1. x - 1 \in T
    BY <1>4
  <2>2. <<x - 1, x>> \in OpToRel(<, Nat)
    BY <1>4 DEF OpToRel
  <2> QED
    BY <2>1, <2>2, <1>3
<1> QED
  BY <1>4, <1>5

\* A division with its remainder.
LEMMA DivMod ==
  ASSUME NEW a \in Int, NEW b \in Nat \ {0}
  PROVE  /\ a \div b \in Int /\ a % b \in 0..(b - 1)
         /\ a = b * (a \div b) + (a % b)
<1>1. a \div b \in Int
  OBVIOUS
<1>2. a % b \in 0..(b - 1)
  OBVIOUS
<1>3. a = b * (a \div b) + (a % b)
  OBVIOUS
<1> QED
  BY <1>1, <1>2, <1>3

\* Quotient and remainder are the only ones.
LEMMA DivModUnique ==
  ASSUME NEW b \in Nat \ {0}, NEW q \in Int, NEW r \in 0..(b - 1)
  PROVE  (b * q + r) \div b = q /\ (b * q + r) % b = r
  OBVIOUS

\* Multiplying keeps the order, ...
LEMMA MulMono ==
  ASSUME NEW m \in Nat, NEW a \in Int, NEW b \in Int, a <= b
  PROVE  m * a <= m * b
  OBVIOUS
\* ... gives no zero, ...
LEMMA MulPos ==
  ASSUME NEW m \in Nat \ {0}, NEW a \in Nat \ {0}
  PROVE  m * a \in Nat \ {0}
  OBVIOUS

\* ... and can be undone.
LEMMA MulBelow ==
  ASSUME NEW m \in Nat \ {0}, NEW a \in Int, NEW b \in Int, m * a < m * b
  PROVE  a < b
  OBVIOUS

-----------------------------------------------------------------------------
(* Powers of two.                                                          *)

\* Pow2 by its definition.
LEMMA Pow2Unfold ==
  /\ Pow2[0] = 1
  /\ \A n \in Nat : Pow2[n + 1] = 2 * Pow2[n]
  /\ \A n \in Nat : Pow2[n] \in Nat \ {0}
<1> DEFINE Step(f, m) ==
      \A n \in 0..m : f[n] = IF n = 0 THEN 1 ELSE 2 * f[n - 1]
    S == {m \in Nat : \E f \in [0..m -> Nat \ {0}] : Step(f, m)}
<1>1. 0 \in S
  <2>1. [n \in 0..0 |-> 1] \in [0..0 -> Nat \ {0}]
    OBVIOUS
  <2>2. Step([n \in 0..0 |-> 1], 0)
    OBVIOUS
  <2> HIDE DEF Step
  <2> QED
    BY <2>1, <2>2
<1>2. ASSUME NEW m \in Nat, m \in S
      PROVE  m + 1 \in S
  <2>1. PICK f \in [0..m -> Nat \ {0}] : Step(f, m)
    BY <1>2
  <2> DEFINE g == [n \in 0..(m + 1) |-> IF n = m + 1 THEN 2 * f[m] ELSE f[n]]
  <2>2. g \in [0..(m + 1) -> Nat \ {0}]
    OBVIOUS
  <2>3. Step(g, m + 1)
    <3> SUFFICES ASSUME NEW n \in 0..(m + 1)
        PROVE  g[n] = IF n = 0 THEN 1 ELSE 2 * g[n - 1]
      OBVIOUS
    <3>1. CASE n = m + 1
      <4>1. g[n] = 2 * f[m] /\ g[n - 1] = f[m]
        BY <3>1
      <4> QED
        BY <3>1, <4>1
    <3>2. CASE n # m + 1
      <4>1. n \in 0..m /\ g[n] = f[n]
        BY <3>2
      <4>2. n # 0 => g[n - 1] = f[n - 1]
        BY <4>1
      <4> QED
        BY <2>1, <4>1, <4>2
    <3> QED
      BY <3>1, <3>2
  <2> HIDE DEF Step
  <2> QED
    BY <2>2, <2>3
<1>3. \A m \in Nat : m \in S
  <2> HIDE DEF S
  <2> QED
    BY <1>1, <1>2, NatSet
<1> DEFINE F(m) == CHOOSE f \in [0..m -> Nat \ {0}] : Step(f, m)
<1>4. ASSUME NEW m \in Nat
      PROVE  F(m) \in [0..m -> Nat \ {0}] /\ Step(F(m), m)
  <2> HIDE DEF Step
  <2>1. \E f \in [0..m -> Nat \ {0}] : Step(f, m)
    BY <1>3
  <2> QED
    BY <2>1
<1> HIDE DEF F
<1>5. ASSUME NEW m \in Nat
      PROVE  F(m + 1)[m] = F(m)[m]
  <2> DEFINE R == {n \in Nat : n <= m => F(m + 1)[n] = F(m)[n]}
  <2>1. 0 \in R
    BY <1>4
  <2>2. ASSUME NEW n \in Nat, n \in R
        PROVE  n + 1 \in R
    <3> SUFFICES ASSUME n + 1 <= m
        PROVE  F(m + 1)[n + 1] = F(m)[n + 1]
      OBVIOUS
    <3>1. F(m + 1)[n + 1] = 2 * F(m + 1)[n]
      BY <1>4
    <3>2. F(m)[n + 1] = 2 * F(m)[n]
      BY <1>4
    <3> QED
      BY <2>2, <3>1, <3>2
  <2>3. \A n \in Nat : n \in R
    <3> HIDE DEF R
    <3> QED
      BY <2>1, <2>2, NatSet
  <2> QED
    BY <2>3
<1> DEFINE P == [n \in Nat |-> F(n)[n]]
<1>6. ASSUME NEW n \in Nat, n # 0
      PROVE  P[n] = 2 * P[n - 1]
  <2>1. F(n)[n] = 2 * F(n)[n - 1]
    BY <1>4, <1>6
  <2>2. F(n)[n - 1] = F(n - 1)[n - 1]
    <3>1. n - 1 \in Nat /\ (n - 1) + 1 = n
      BY <1>6
    <3> QED
      BY <1>5, <3>1
  <2> QED
    BY <2>1, <2>2, <1>6
<1>7. P[0] = 1
  BY <1>4
<1>8. P = [n \in Nat |-> IF n = 0 THEN 1 ELSE 2 * P[n - 1]]
  BY <1>6, <1>7
<1>9. Pow2 = [n \in Nat |-> IF n = 0 THEN 1 ELSE 2 * Pow2[n - 1]]
  <2> HIDE DEF P
  <2> QED
    BY <1>8 DEF Pow2
<1>10. \A n \in Nat : Pow2[n + 1] = 2 * Pow2[n]
  BY <1>9
<1>11. Pow2[0] = 1
  BY <1>9
<1> DEFINE Q == {n \in Nat : Pow2[n] \in Nat \ {0}}
<1>12. \A n \in Nat : n \in Q
  <2>1. 0 \in Q
    BY <1>11
  <2>2. \A n \in Nat : n \in Q => n + 1 \in Q
    BY <1>10
  <2> HIDE DEF Q
  <2> QED
    BY <2>1, <2>2, NatSet
<1> QED
  BY <1>10, <1>11, <1>12

\* Shifts by a and by b are a shift by their sum.
LEMMA Pow2Sum ==
  ASSUME NEW a \in Nat, NEW b \in Nat
  PROVE  Pow2[a + b] = Pow2[a] * Pow2[b]
<1> DEFINE S == {n \in Nat : Pow2[a + n] = Pow2[a] * Pow2[n]}
<1>1. 0 \in S
  BY Pow2Unfold
<1>2. ASSUME NEW n \in Nat, n \in S
      PROVE  n + 1 \in S
  <2>1. Pow2[a + (n + 1)] = 2 * Pow2[a + n]
    BY Pow2Unfold, a + n \in Nat, a + (n + 1) = (a + n) + 1
  <2>2. Pow2[n + 1] = 2 * Pow2[n]
    BY Pow2Unfold
  <2>3. Pow2[a] \in Nat /\ Pow2[n] \in Nat
    BY Pow2Unfold
  <2> QED
    BY <1>2, <2>1, <2>2, <2>3
<1>3. \A n \in Nat : n \in S
  <2> HIDE DEF S
  <2> QED
    BY <1>1, <1>2, NatSet
<1> QED
  BY <1>3

-----------------------------------------------------------------------------
(* Values of sequences of bits.                                            *)

\* The bits of a stream.
Bits == Seq({0, 1})

\* A function can be defined by recursion up to a number.
Recursive(f, N, base, step) ==
  f[0] = base /\ \A n \in 1..N : f[n] = step[n][f[n - 1]]

\* A function that is defined from each number to the next exists.
LEMMA Recursion ==
  ASSUME NEW N \in Nat, NEW E, NEW base \in E,
         NEW step \in [1..N -> [E -> E]]
  PROVE  \E f \in [0..N -> E] : Recursive(f, N, base, step)
<1> DEFINE Rec(f, m) == /\ f[0] = base
                        /\ \A n \in 1..m : f[n] = step[n][f[n - 1]]
           S == {m \in Nat : m <= N => \E f \in [0..m -> E] : Rec(f, m)}
<1>1. 0 \in S
  <2>1. [n \in 0..0 |-> base] \in [0..0 -> E]
    OBVIOUS
  <2>2. Rec([n \in 0..0 |-> base], 0)
    OBVIOUS
  <2> HIDE DEF Rec
  <2> QED
    BY <2>1, <2>2
<1>2. ASSUME NEW m \in Nat, m \in S
      PROVE  m + 1 \in S
  <2> SUFFICES ASSUME m + 1 <= N
      PROVE  \E f \in [0..(m + 1) -> E] : Rec(f, m + 1)
    OBVIOUS
  <2>1. PICK f \in [0..m -> E] : Rec(f, m)
    <3> HIDE DEF Rec
    <3> QED
      BY <1>2
  <2> DEFINE last == step[m + 1][f[m]]
             g == [n \in 0..(m + 1) |-> IF n = m + 1 THEN last ELSE f[n]]
  <2>2. last \in E
    <3>1. f[m] \in E /\ m + 1 \in 1..N
      OBVIOUS
    <3> QED
      BY <3>1
  <2>3. g \in [0..(m + 1) -> E]
    <3> HIDE DEF last
    <3> QED
      BY <2>2
  <2>4. g[0] = base
    BY <2>1
  <2>5. ASSUME NEW n \in 1..(m + 1)
        PROVE  g[n] = step[n][g[n - 1]]
    <3>1. CASE n = m + 1
      BY <3>1
    <3>2. CASE n # m + 1
      <4>1. n \in 1..m /\ g[n] = f[n] /\ g[n - 1] = f[n - 1]
        BY <3>2
      <4> QED
        BY <2>1, <4>1
    <3> QED
      BY <3>1, <3>2
  <2>6. Rec(g, m + 1)
    BY <2>4, <2>5
  <2> HIDE DEF Rec, g
  <2> QED
    BY <2>3, <2>6
<1>3. \A m \in Nat : m \in S
  <2> HIDE DEF S
  <2> QED
    BY <1>1, <1>2, NatSet
<1>4. PICK f \in [0..N -> E] : Rec(f, N)
  <2> HIDE DEF Rec
  <2> QED
    BY <1>3
<1>5. Recursive(f, N, base, step)
  BY <1>4 DEF Recursive
<1> QED
  BY <1>5

\* Value by its definition.
LEMMA ValueRec ==
  ASSUME NEW s \in Bits
  PROVE  \E v \in [0..Len(s) -> Nat] :
           /\ v[0] = 0
           /\ \A i \in 1..Len(s) : v[i] = 2 * v[i - 1] + s[i]
           /\ Value(s) = v[Len(s)]
<1> DEFINE step == [n \in 1..Len(s) |-> [v \in Nat |-> 2 * v + s[n]]]
<1>1. Len(s) \in Nat /\ \A i \in 1..Len(s) : s[i] \in {0, 1}
  BY DEF Bits
<1>2. step \in [1..Len(s) -> [Nat -> Nat]]
  BY <1>1
<1>3. PICK f \in [0..Len(s) -> Nat] : Recursive(f, Len(s), 0, step)
  <2> HIDE DEF step
  <2> QED
    BY <1>1, <1>2, Recursion
<1>4. ASSUME NEW n \in 1..Len(s)
      PROVE  f[n] = 2 * f[n - 1] + s[n]
  <2>1. f[n] = step[n][f[n - 1]]
    BY <1>3 DEF Recursive
  <2>2. f[n - 1] \in Nat
    BY <1>1
  <2> QED
    BY <2>1, <2>2
<1>5. f = [i \in 0..Len(s) |-> IF i = 0 THEN 0 ELSE 2 * f[i - 1] + s[i]]
  BY <1>3, <1>4, <1>1 DEF Recursive
<1> DEFINE value[i \in 0..Len(s)] == IF i = 0 THEN 0 ELSE 2 * value[i - 1] + s[i]
<1>6. value = [i \in 0..Len(s) |-> IF i = 0 THEN 0 ELSE 2 * value[i - 1] + s[i]]
  BY <1>5
<1>7. Value(s) = value[Len(s)]
  BY DEF Value
<1> HIDE DEF value
<1>8. value[0] = 0 /\ \A i \in 1..Len(s) : value[i] = 2 * value[i - 1] + s[i]
  BY <1>1, <1>6
<1> DEFINE T == {n \in Nat : n <= Len(s) => value[n] \in Nat}
<1>9. \A n \in Nat : n \in T
  <2>1. 0 \in T
    BY <1>8
  <2>2. ASSUME NEW n \in Nat, n \in T
        PROVE  n + 1 \in T
    <3> SUFFICES ASSUME n + 1 <= Len(s)
        PROVE  value[n + 1] \in Nat
      OBVIOUS
    <3>1. value[n + 1] = 2 * value[n] + s[n + 1]
      BY <1>8, <1>1
    <3> QED
      BY <2>2, <3>1, <1>1
  <2> HIDE DEF T
  <2> QED
    BY <2>1, <2>2, NatSet
<1>10. value \in [0..Len(s) -> Nat]
  BY <1>6, <1>9
<1> WITNESS value \in [0..Len(s) -> Nat]
<1> QED
  BY <1>7, <1>8

\* One more bit doubles the number and is added.
LEMMA ValueAppend ==
  /\ Value(<<>>) = 0
  /\ \A s \in Bits, b \in {0, 1} : Value(Append(s, b)) = 2 * Value(s) + b
<1>1. Value(<<>>) = 0
  <2>1. <<>> \in Bits /\ Len(<<>>) = 0
    BY DEF Bits
  <2> QED
    BY <2>1, ValueRec
<1>2. ASSUME NEW s \in Bits, NEW b \in {0, 1}
      PROVE  Value(Append(s, b)) = 2 * Value(s) + b
  <2>1. PICK v \in [0..Len(s) -> Nat] :
           /\ v[0] = 0
           /\ \A i \in 1..Len(s) : v[i] = 2 * v[i - 1] + s[i]
           /\ Value(s) = v[Len(s)]
    BY ValueRec
  <2>2. Append(s, b) \in Bits
    BY DEF Bits
  <2>3. PICK w \in [0..Len(Append(s, b)) -> Nat] :
           /\ w[0] = 0
           /\ \A i \in 1..Len(Append(s, b)) : w[i] = 2 * w[i - 1] + Append(s, b)[i]
           /\ Value(Append(s, b)) = w[Len(Append(s, b))]
    BY <2>2, ValueRec
  <2>4. /\ Len(s) \in Nat /\ Len(Append(s, b)) = Len(s) + 1
        /\ \A i \in 1..Len(s) : Append(s, b)[i] = s[i]
        /\ Append(s, b)[Len(s) + 1] = b
    BY DEF Bits
  <2> DEFINE T == {n \in Nat : n <= Len(s) => w[n] = v[n]}
  <2>5. \A n \in Nat : n \in T
    <3>1. 0 \in T
      BY <2>1, <2>3
    <3>2. ASSUME NEW n \in Nat, n \in T
          PROVE  n + 1 \in T
      <4> SUFFICES ASSUME n + 1 <= Len(s)
          PROVE  w[n + 1] = v[n + 1]
        OBVIOUS
      <4>1. w[n + 1] = 2 * w[n] + s[n + 1]
        BY <2>3, <2>4
      <4>2. v[n + 1] = 2 * v[n] + s[n + 1]
        BY <2>1, <2>4
      <4> QED
        BY <3>2, <4>1, <4>2, <2>4
    <3> HIDE DEF T
    <3> QED
      BY <3>1, <3>2, NatSet
  <2>6. w[Len(s)] = v[Len(s)]
    BY <2>4, <2>5
  <2>7. w[Len(s) + 1] = 2 * w[Len(s)] + b
    <3> DEFINE k == Len(s) + 1
    <3>1. k \in 1..Len(Append(s, b)) /\ k - 1 = Len(s)
      BY <2>4
    <3>2. w[k] = 2 * w[k - 1] + Append(s, b)[k]
      BY <2>3, <3>1
    <3> QED
      BY <2>4, <3>1, <3>2
  <2> QED
    BY <2>1, <2>3, <2>4, <2>6, <2>7
<1> QED
  BY <1>1, <1>2

\* Sequences are built from the empty one by appending.
LEMMA SequenceSet ==
  ASSUME NEW E, NEW S, <<>> \in S,
         \A t \in Seq(E), e \in E : t \in S => Append(t, e) \in S
  PROVE  \A s \in Seq(E) : s \in S
<1> DEFINE T == {n \in Nat : \A s \in Seq(E) : Len(s) = n => s \in S}
<1>1. 0 \in T
  BY EmptySeq
<1>2. ASSUME NEW n \in Nat, n \in T
      PROVE  n + 1 \in T
  <2> SUFFICES ASSUME NEW s \in Seq(E), Len(s) = n + 1
      PROVE  s \in S
    OBVIOUS
  <2>1. s # <<>>
    OBVIOUS
  <2>2. PICK t \in Seq(E), e \in E : s = Append(t, e)
    BY <2>1, SequenceEmptyOrAppend
  <2>3. Len(t) = n
    BY <2>2, AppendProperties
  <2> QED
    BY <1>2, <2>2, <2>3
<1>3. \A n \in Nat : n \in T
  <2> HIDE DEF T
  <2> QED
    BY <1>1, <1>2, NatSet
<1> QED
  BY <1>3

\* The number of n bits has n bits.
LEMMA ValueRange ==
  \A s \in Bits : Value(s) \in 0..(Pow2[Len(s)] - 1)
<1> DEFINE S == {s \in Bits : Value(s) \in 0..(Pow2[Len(s)] - 1)}
<1>1. <<>> \in S
  BY ValueAppend, Pow2Unfold DEF Bits
<1>2. ASSUME NEW s \in Bits, NEW b \in {0, 1}, s \in S
      PROVE  Append(s, b) \in S
  <2>1. Append(s, b) \in Bits /\ Len(Append(s, b)) = Len(s) + 1 /\ Len(s) \in Nat
    BY DEF Bits
  <2>2. Pow2[Len(s) + 1] = 2 * Pow2[Len(s)] /\ Pow2[Len(s)] \in Nat
    BY <2>1, Pow2Unfold
  <2>3. Value(Append(s, b)) = 2 * Value(s) + b
    BY ValueAppend
  <2> QED
    BY <1>2, <2>1, <2>2, <2>3
<1> HIDE DEF S
<1>3. \A s \in Bits : s \in S
  BY <1>1, <1>2, SequenceSet DEF Bits
<1> QED
  BY <1>3 DEF S

\* The number of two sequences of bits, one behind the other.
LEMMA ValueConcat ==
  ASSUME NEW s \in Bits, NEW t \in Bits
  PROVE  Value(s \o t) = Value(s) * Pow2[Len(t)] + Value(t)
<1> DEFINE S == {u \in Bits : Value(s \o u) = Value(s) * Pow2[Len(u)] + Value(u)}
<1>1. <<>> \in S
  <2>1. s \o <<>> = s
    BY DEF Bits
  <2>2. Value(s) \in Nat
    BY ValueRange, Pow2Unfold DEF Bits
  <2>3. Pow2[Len(<<>>)] = 1 /\ <<>> \in Bits
    BY Pow2Unfold DEF Bits
  <2> QED
    BY <2>1, <2>2, <2>3, ValueAppend
<1>2. ASSUME NEW u \in Bits, NEW b \in {0, 1}, u \in S
      PROVE  Append(u, b) \in S
  <2>1. /\ Append(u, b) \in Bits /\ Len(Append(u, b)) = Len(u) + 1 /\ Len(u) \in Nat
        /\ s \o u \in Bits
        /\ s \o Append(u, b) = Append(s \o u, b)
    BY DEF Bits
  <2>2. Pow2[Len(u) + 1] = 2 * Pow2[Len(u)] /\ Pow2[Len(u)] \in Nat
    BY <2>1, Pow2Unfold
  <2>3. Value(Append(u, b)) = 2 * Value(u) + b
    BY ValueAppend
  <2>4. Value(Append(s \o u, b)) = 2 * Value(s \o u) + b
    BY <2>1, ValueAppend
  <2>5. Value(s) \in Int /\ Value(u) \in Int
    BY ValueRange, Pow2Unfold DEF Bits
  <2>6. Value(s \o u) = Value(s) * Pow2[Len(u)] + Value(u)
    BY <1>2
  <2>7. 2 * (Value(s) * Pow2[Len(u)] + Value(u)) + b
          = Value(s) * (2 * Pow2[Len(u)]) + (2 * Value(u) + b)
    BY <2>2, <2>5
  <2>8. Value(s \o Append(u, b))
          = Value(s) * Pow2[Len(Append(u, b))] + Value(Append(u, b))
    BY <2>1, <2>2, <2>3, <2>4, <2>6, <2>7
  <2> QED
    BY <2>1, <2>8
<1> HIDE DEF S
<1>3. \A u \in Bits : u \in S
  BY <1>1, <1>2, SequenceSet DEF Bits
<1> QED
  BY <1>3 DEF S

\* The sequences that are flattened.
Pieces(E) == Seq(E)

-----------------------------------------------------------------------------
(* FlattenSeq, which the stream is defined with.                           *)

\* FlattenSeq by its definition.
LEMMA FlattenRec ==
  ASSUME NEW E, NEW s \in Seq(Pieces(E)), s # <<>>
  PROVE  \E f \in [1..Len(s) -> Pieces(E)] :
           /\ f[1] = s[1]
           /\ \A i \in 2..Len(s) : f[i] = f[i - 1] \o s[i]
           /\ FlattenSeq(s) = f[Len(s)]
<1> DEFINE step == [n \in 1..Len(s) |-> [v \in Pieces(E) |-> v \o s[n]]]
<1>0. /\ <<>> \in Pieces(E)
      /\ \A v \in Pieces(E), w \in Pieces(E) : v \o w \in Pieces(E)
      /\ \A w \in Pieces(E) : <<>> \o w = w
  BY DEF Pieces
<1>1. Len(s) \in Nat /\ Len(s) >= 1 /\ \A i \in 1..Len(s) : s[i] \in Pieces(E)
  OBVIOUS
<1>2. step \in [1..Len(s) -> [Pieces(E) -> Pieces(E)]]
  BY <1>0, <1>1
<1>3. PICK f \in [0..Len(s) -> Pieces(E)] : Recursive(f, Len(s), <<>>, step)
  <2> HIDE DEF step
  <2> QED
    BY <1>0, <1>1, <1>2, Recursion
<1>4. ASSUME NEW n \in 1..Len(s)
      PROVE  f[n] = f[n - 1] \o s[n]
  <2>1. f[n] = step[n][f[n - 1]]
    BY <1>3 DEF Recursive
  <2>2. f[n - 1] \in Pieces(E)
    BY <1>1
  <2> QED
    BY <2>1, <2>2
<1>5. f[1] = s[1]
  <2>1. f[0] = <<>>
    BY <1>3 DEF Recursive
  <2>2. 1 \in 1..Len(s) /\ s[1] \in Pieces(E)
    BY <1>1
  <2>3. f[1] = f[1 - 1] \o s[1]
    BY <1>4, <2>2
  <2>4. f[1] = <<>> \o s[1]
    BY <2>1, <2>3, 1 - 1 = 0
  <2> QED
    BY <1>0, <2>2, <2>4
<1> DEFINE g == [i \in 1..Len(s) |-> f[i]]
<1>6. g = [i \in 1..Len(s) |-> IF i = 1 THEN s[i] ELSE g[i - 1] \o s[i]]
  <2>1. ASSUME NEW i \in 1..Len(s)
        PROVE  f[i] = IF i = 1 THEN s[i] ELSE g[i - 1] \o s[i]
    <3>1. CASE i = 1
      BY <1>5, <3>1
    <3>2. CASE i # 1
      <4>1. i - 1 \in 1..Len(s)
        BY <1>1, <3>2
      <4>2. g[i - 1] = f[i - 1]
        BY <4>1
      <4> HIDE DEF g
      <4> QED
        BY <1>4, <3>2, <4>2
    <3> QED
      BY <3>1, <3>2
  <2> QED
    BY <2>1
<1> HIDE DEF g
<1> DEFINE flatten[i \in 1..Len(s)] ==
             IF i = 1 THEN s[i] ELSE flatten[i - 1] \o s[i]
<1>7. flatten = [i \in 1..Len(s) |-> IF i = 1 THEN s[i] ELSE flatten[i - 1] \o s[i]]
  BY <1>6
<1>8. FlattenSeq(s) = flatten[Len(s)]
  BY <1>1 DEF FlattenSeq
<1> HIDE DEF flatten
<1>9. flatten[1] = s[1] /\ \A i \in 2..Len(s) : flatten[i] = flatten[i - 1] \o s[i]
  BY <1>1, <1>7
<1> DEFINE T == {n \in Nat : n + 1 <= Len(s) => flatten[n + 1] \in Pieces(E)}
<1>10. \A n \in Nat : n \in T
  <2>1. 0 \in T
    BY <1>1, <1>9
  <2>2. ASSUME NEW n \in Nat, n \in T
        PROVE  n + 1 \in T
    <3> SUFFICES ASSUME n + 2 <= Len(s)
        PROVE  flatten[n + 2] \in Pieces(E)
      OBVIOUS
    <3>0. n + 2 \in 2..Len(s) /\ (n + 2) - 1 = n + 1
      BY <1>1
    <3>1. flatten[n + 2] = flatten[n + 1] \o s[n + 2]
      BY <1>9, <3>0
    <3>2. flatten[n + 1] \in Pieces(E) /\ s[n + 2] \in Pieces(E)
      BY <2>2, <1>1
    <3> QED
      BY <1>0, <3>1, <3>2
  <2> HIDE DEF T
  <2> QED
    BY <2>1, <2>2, NatSet
<1>11. ASSUME NEW i \in 1..Len(s)
       PROVE  flatten[i] \in Pieces(E)
  <2>1. i - 1 \in Nat /\ (i - 1) + 1 = i
    BY <1>1
  <2> QED
    BY <2>1, <1>10
<1>12. flatten \in [1..Len(s) -> Pieces(E)]
  BY <1>7, <1>11
<1> WITNESS flatten \in [1..Len(s) -> Pieces(E)]
<1> QED
  BY <1>8, <1>9

\* FlattenSeq goes from left to right.
LEMMA FlattenAppend ==
  ASSUME NEW E
  PROVE  /\ FlattenSeq(<<>>) = <<>>
         /\ \A s \in Seq(Pieces(E)) : FlattenSeq(s) \in Pieces(E)
         /\ \A s \in Seq(Pieces(E)), x \in Pieces(E) :
              FlattenSeq(Append(s, x)) = FlattenSeq(s) \o x
<1>1. FlattenSeq(<<>>) = <<>>
  BY DEF FlattenSeq
<1>2. ASSUME NEW s \in Seq(Pieces(E))
      PROVE  FlattenSeq(s) \in Pieces(E)
  <2>1. CASE s = <<>>
    <3>1. <<>> \in Pieces(E)
      BY DEF Pieces
    <3> QED
      BY <1>1, <2>1, <3>1
  <2>2. CASE s # <<>>
    <3>1. Len(s) \in 1..Len(s)
      BY <2>2
    <3>2. PICK f \in [1..Len(s) -> Pieces(E)] : FlattenSeq(s) = f[Len(s)]
      BY <2>2, FlattenRec
    <3> QED
      BY <3>1, <3>2
  <2> QED
    BY <2>1, <2>2
<1>3. ASSUME NEW s \in Seq(Pieces(E)), NEW x \in Pieces(E)
      PROVE  FlattenSeq(Append(s, x)) = FlattenSeq(s) \o x
  <2> DEFINE a == Append(s, x)
  <2>1. /\ a \in Seq(Pieces(E)) /\ a # <<>>
        /\ Len(s) \in Nat /\ Len(a) = Len(s) + 1 /\ a[Len(s) + 1] = x
        /\ \A i \in 1..Len(s) : a[i] = s[i]
    OBVIOUS
  <2> HIDE DEF a
  <2>2. PICK w \in [1..Len(a) -> Pieces(E)] :
           /\ w[1] = a[1]
           /\ \A i \in 2..Len(a) : w[i] = w[i - 1] \o a[i]
           /\ FlattenSeq(a) = w[Len(a)]
    BY <2>1, FlattenRec
  <2>3. CASE s = <<>>
    <3>1. Len(a) = 1 /\ a[1] = x
      BY <2>1, <2>3
    <3>2. <<>> \o x = x
      OBVIOUS
    <3> QED
      BY <1>1, <2>2, <2>3, <3>1, <3>2 DEF a
  <2>4. CASE s # <<>>
    <3>1. PICK v \in [1..Len(s) -> Pieces(E)] :
             /\ v[1] = s[1]
             /\ \A i \in 2..Len(s) : v[i] = v[i - 1] \o s[i]
             /\ FlattenSeq(s) = v[Len(s)]
      BY <2>4, FlattenRec
    <3>2. Len(s) >= 1
      BY <2>4
    <3> DEFINE T == {n \in Nat : n + 1 <= Len(s) => w[n + 1] = v[n + 1]}
    <3>3. \A n \in Nat : n \in T
      <4>1. 0 \in T
        BY <2>1, <2>2, <3>1, <3>2
      <4>2. ASSUME NEW n \in Nat, n \in T
            PROVE  n + 1 \in T
        <5> SUFFICES ASSUME n + 2 <= Len(s)
            PROVE  w[n + 2] = v[n + 2]
          OBVIOUS
        <5>0. n + 2 \in 2..Len(s) /\ n + 2 \in 2..Len(a) /\ (n + 2) - 1 = n + 1
          BY <2>1
        <5>1. w[n + 2] = w[n + 1] \o a[n + 2]
          BY <2>2, <5>0
        <5>2. v[n + 2] = v[n + 1] \o s[n + 2]
          BY <3>1, <5>0
        <5>3. a[n + 2] = s[n + 2]
          BY <2>1, <5>0
        <5>4. w[n + 1] = v[n + 1]
          BY <4>2, <5>0, <2>1
        <5> QED
          BY <5>1, <5>2, <5>3, <5>4
      <4> HIDE DEF T
      <4> QED
        BY <4>1, <4>2, NatSet
    <3>4. w[Len(s)] = v[Len(s)]
      <4>1. Len(s) - 1 \in Nat /\ (Len(s) - 1) + 1 = Len(s)
        BY <2>1, <3>2
      <4>2. Len(s) - 1 \in T
        BY <3>3, <4>1
      <4> QED
        BY <4>1, <4>2
    <3>5. w[Len(s) + 1] = w[Len(s)] \o x
      <4>1. Len(s) + 1 \in 2..Len(a) /\ (Len(s) + 1) - 1 = Len(s)
        BY <2>1, <3>2
      <4>2. w[Len(s) + 1] = w[Len(s)] \o a[Len(s) + 1]
        BY <2>2, <4>1
      <4> QED
        BY <2>1, <4>2
    <3> QED
      BY <2>1, <2>2, <3>1, <3>4, <3>5 DEF a
  <2> QED
    BY <2>3, <2>4
<1> QED
  BY <1>1, <1>2, <1>3

-----------------------------------------------------------------------------
(* The bits of codes.                                                      *)

\* Dividing twice, ...
LEMMA DivDiv ==
  ASSUME NEW a \in Int, NEW b \in Nat \ {0}
  PROVE  a \div (2 * b) = (a \div b) \div 2
<1> DEFINE q == a \div b
           r == a % b
           h == q \div 2
           e == q % 2
<1>1. q \in Int /\ r \in 0..(b - 1) /\ a = b * q + r
  BY DivMod
<1>2. h \in Int /\ e \in 0..1 /\ q = 2 * h + e
  <2> HIDE DEF q
  <2> QED
    BY <1>1
<1> HIDE DEF q, r, h, e
<1>3. b * e + r \in 0..(2 * b - 1)
  <2>1. CASE e = 0
    BY <1>1, <2>1
  <2>2. CASE e = 1
    BY <1>1, <2>2
  <2> QED
    BY <1>2, <2>1, <2>2
<1>4. a = (2 * b) * h + (b * e + r)
  <2>1. b * q = b * (2 * h + e)
    BY <1>2
  <2>2. b * (2 * h + e) = 2 * (b * h) + b * e
    BY <1>2
  <2>3. (2 * b) * h = 2 * (b * h)
    BY <1>2
  <2>4. b * q = (2 * b) * h + b * e
    BY <2>1, <2>2, <2>3
  <2> DEFINE bq == b * q
             be == b * e
             bh == (2 * b) * h
  <2>5. bq = bh + be /\ bq \in Int /\ bh \in Int /\ be \in Int /\ a = bq + r
    BY <1>1, <1>2, <2>4
  <2> HIDE DEF bq, be, bh
  <2>6. a = bh + (be + r)
    BY <1>1, <2>5
  <2> QED
    BY <2>6 DEF bh, be
<1>5. a \div (2 * b) = h
  <2>1. 2 * b \in Nat \ {0}
    OBVIOUS
  <2> DEFINE m == 2 * b
             u == b * e + r
  <2>2. m \in Nat \ {0} /\ u \in 0..(m - 1) /\ a = m * h + u
    BY <2>1, <1>3, <1>4
  <2> HIDE DEF m, u
  <2>3. a \div m = h
    BY <1>2, <2>2, DivModUnique
  <2> QED
    BY <2>3 DEF m
<1> QED
  BY <1>5 DEF h, q

\* ... and the remainder of twice the divisor.
LEMMA ModDouble ==
  ASSUME NEW x \in Int, NEW m \in Nat \ {0}
  PROVE  x % (2 * m) = 2 * ((x \div 2) % m) + (x % 2)
<1> DEFINE y == x \div 2
           e == x % 2
           q == y \div m
           r == y % m
<1>1. y \in Int /\ e \in 0..1 /\ x = 2 * y + e
  OBVIOUS
<1>2. q \in Int /\ r \in 0..(m - 1) /\ y = m * q + r
  <2> HIDE DEF y
  <2> QED
    BY <1>1, DivMod
<1> HIDE DEF q, r, y, e
<1>3. 2 * r + e \in 0..(2 * m - 1)
  BY <1>1, <1>2
<1>4. x = (2 * m) * q + (2 * r + e)
  <2>1. m * q \in Int /\ (2 * m) * q = 2 * (m * q)
    BY <1>2
  <2> QED
    BY <1>1, <1>2, <2>1
<1> DEFINE w == 2 * m
           u == 2 * r + e
<1>5. w \in Nat \ {0} /\ u \in 0..(w - 1) /\ x = w * q + u
  BY <1>3, <1>4
<1> HIDE DEF w, u
<1>6. x % w = u
  BY <1>2, <1>5, DivModUnique
<1> QED
  BY <1>6 DEF w, u, q, r, y, e

\* What the assumptions say of the constants.
LEMMA Widths ==
  /\ ByteBits \in Nat /\ ByteBits >= 2
  /\ \A c \in Codes : c.size \in 1..(2 * ByteBits) /\ c.code \in Int
  /\ MaxCodes \in Nat
  /\ RstMarkers \in Nat \ {0} /\ Eoi \in Int
  /\ AllOnes \in Nat
  BY WidthsAssumption, Pow2Unfold DEF AllOnes

\* The bits of a code are as many as its size and make its low bits, whatever is above
\* them.
LEMMA CodeBitsRight ==
  ASSUME NEW size \in Nat, NEW c, c.code \in Int, c.size = size
  PROVE  /\ CodeBits(c) \in Bits
         /\ Len(CodeBits(c)) = size
         /\ Value(CodeBits(c)) = c.code % Pow2[size]
<1> DEFINE code == c.code
           Bit(i) == (code \div Pow2[size - i]) % 2
           First(n) == [i \in 1..n |-> Bit(i)]
           S == {n \in Nat : n <= size =>
                   Value(First(n)) = (code \div Pow2[size - n]) % Pow2[n]}
<1>1. \A i \in 0..size : Pow2[size - i] \in Nat \ {0}
  BY Pow2Unfold
<1>2. \A i \in 0..size : code \div Pow2[size - i] \in Int
  BY <1>1, DivMod
<1>3. \A i \in 1..size : Bit(i) \in {0, 1}
  BY <1>2
<1> HIDE DEF Bit
<1>4. \A n \in 0..size : First(n) \in Bits /\ Len(First(n)) = n
  BY <1>3 DEF Bits
<1>5. 0 \in S
  <2>1. First(0) = <<>>
    OBVIOUS
  <2>2. Pow2[0] = 1 /\ size - 0 = size /\ code \div Pow2[size] \in Int
    BY <1>2, Pow2Unfold
  <2>3. (code \div Pow2[size]) % 1 = 0
    BY <2>2
  <2> QED
    BY <2>1, <2>2, <2>3, ValueAppend
<1>6. ASSUME NEW n \in Nat, n \in S
      PROVE  n + 1 \in S
  <2> SUFFICES ASSUME n + 1 <= size
      PROVE  Value(First(n + 1)) = (code \div Pow2[size - (n + 1)]) % Pow2[n + 1]
    OBVIOUS
  <2> DEFINE x == code \div Pow2[size - (n + 1)]
  <2>1. First(n + 1) = Append(First(n), Bit(n + 1))
    OBVIOUS
  <2>2. Value(First(n + 1)) = 2 * Value(First(n)) + Bit(n + 1)
    <3> HIDE DEF First
    <3>1. First(n) \in Bits /\ Bit(n + 1) \in {0, 1}
      BY <1>3, <1>4
    <3> QED
      BY <2>1, <3>1, ValueAppend
  <2>3. Bit(n + 1) = x % 2
    BY DEF Bit
  <2>4. x \in Int
    BY <1>2
  <2>5. code \div Pow2[size - n] = x \div 2
    <3>1. size - n = (size - (n + 1)) + 1 /\ size - (n + 1) \in Nat
      OBVIOUS
    <3>2. Pow2[size - n] = 2 * Pow2[size - (n + 1)] /\ Pow2[size - (n + 1)] \in Nat \ {0}
      BY <3>1, Pow2Unfold
    <3> QED
      BY <3>2, DivDiv
  <2>6. Value(First(n)) = (x \div 2) % Pow2[n]
    BY <1>6, <2>5
  <2>7. Pow2[n + 1] = 2 * Pow2[n] /\ Pow2[n] \in Nat \ {0}
    BY Pow2Unfold
  <2> HIDE DEF x, First
  <2>8. x % Pow2[n + 1] = 2 * ((x \div 2) % Pow2[n]) + (x % 2)
    BY <2>4, <2>7, ModDouble
  <2>9. Value(First(n + 1)) = x % Pow2[n + 1]
    BY <2>2, <2>3, <2>6, <2>8
  <2> QED
    BY <2>9 DEF x
<1>7. \A n \in Nat : n \in S
  <2> HIDE DEF S
  <2> QED
    BY <1>5, <1>6, NatSet
<1>8. CodeBits(c) = First(size)
  BY DEF CodeBits, Bit
<1>9. Value(First(size)) = code % Pow2[size]
  <2>1. Value(First(size)) = (code \div Pow2[size - size]) % Pow2[size]
    BY <1>7
  <2>2. Pow2[size - size] = 1
    BY Pow2Unfold, size - size = 0
  <2>3. code \div 1 = code
    OBVIOUS
  <2> QED
    BY <2>1, <2>2, <2>3
<1> QED
  BY <1>4, <1>8, <1>9

\* The ones a flush writes.
Ones(n) == [i \in 1..n |-> 1]

\* The bits of a flush.
LEMMA OnesRight ==
  \A n \in Nat : /\ Ones(n) \in Bits /\ Len(Ones(n)) = n
                 /\ Value(Ones(n)) = Pow2[n] - 1
<1> DEFINE S == {n \in Nat : Value(Ones(n)) = Pow2[n] - 1}
<1>1. \A n \in Nat : Ones(n) \in Bits /\ Len(Ones(n)) = n
  BY DEF Ones, Bits
<1>2. 0 \in S
  BY Ones(0) = <<>>, ValueAppend, Pow2Unfold DEF Ones
<1>3. ASSUME NEW n \in Nat, n \in S
      PROVE  n + 1 \in S
  <2>1. Ones(n + 1) = Append(Ones(n), 1)
    BY DEF Ones
  <2>2. Value(Ones(n + 1)) = 2 * Value(Ones(n)) + 1
    BY <1>1, <2>1, ValueAppend
  <2>3. Pow2[n + 1] = 2 * Pow2[n] /\ Pow2[n] \in Nat
    BY Pow2Unfold
  <2> QED
    BY <1>3, <2>2, <2>3
<1>4. \A n \in Nat : n \in S
  <2> HIDE DEF S
  <2> QED
    BY <1>2, <1>3, NatSet
<1> QED
  BY <1>1, <1>4

\* The bits of codes can be flattened.
LEMMA PiecesBits == Pieces({0, 1}) = Bits
  BY DEF Pieces, Bits

-----------------------------------------------------------------------------
(* MCUs, restart intervals and stuffed bytes.                              *)

\* The bits of an MCU, code by code.
LEMMA McuBitsAppend ==
  /\ McuBits(<<>>) = <<>>
  /\ \A codes \in Seq(Codes) : McuBits(codes) \in Bits
  /\ \A codes \in Seq(Codes), c \in Codes :
       McuBits(Append(codes, c)) = McuBits(codes) \o CodeBits(c)
<1> DEFINE Mapped(codes) == [i \in DOMAIN codes |-> CodeBits(codes[i])]
<1>1. \A c \in Codes : CodeBits(c) \in Pieces({0, 1})
  BY CodeBitsRight, Widths, PiecesBits
<1> HIDE DEF Mapped
<1>2. \A codes \in Seq(Codes) : Mapped(codes) \in Seq(Pieces({0, 1}))
  BY <1>1 DEF Mapped
<1>3. \A codes \in Seq(Codes), c \in Codes :
        Mapped(Append(codes, c)) = Append(Mapped(codes), CodeBits(c))
  BY <1>1 DEF Mapped
<1>4. Mapped(<<>>) = <<>>
  BY DEF Mapped
<1>5. \A codes : McuBits(codes) = FlattenSeq(Mapped(codes))
  BY DEF McuBits, Mapped
<1>6. \A codes \in Seq(Codes) : McuBits(codes) \in Bits
  BY <1>2, <1>5, FlattenAppend, PiecesBits
<1>7. McuBits(<<>>) = <<>>
  BY <1>4, <1>5, FlattenAppend
<1>8. ASSUME NEW codes \in Seq(Codes), NEW c \in Codes
      PROVE  McuBits(Append(codes, c)) = McuBits(codes) \o CodeBits(c)
  <2>1. Mapped(codes) \in Seq(Pieces({0, 1})) /\ CodeBits(c) \in Pieces({0, 1})
    BY <1>1, <1>2
  <2>2. FlattenSeq(Append(Mapped(codes), CodeBits(c)))
          = FlattenSeq(Mapped(codes)) \o CodeBits(c)
    BY <2>1, FlattenAppend
  <2> QED
    BY <1>3, <1>5, <2>2
<1> QED
  BY <1>6, <1>7, <1>8

\* MCUs, and restart intervals, of any length.
Mcus == Seq(Codes)

\* The bits of a restart interval, MCU by MCU.
LEMMA IntervalBitsAppend ==
  /\ IntervalBits(<<>>) = <<>>
  /\ \A interval \in Seq(Mcus) : IntervalBits(interval) \in Bits
  /\ \A interval \in Seq(Mcus), codes \in Mcus :
       IntervalBits(Append(interval, codes)) = IntervalBits(interval) \o McuBits(codes)
<1> DEFINE Mapped(interval) == [m \in DOMAIN interval |-> McuBits(interval[m])]
<1>1. \A codes \in Mcus : McuBits(codes) \in Pieces({0, 1})
  BY McuBitsAppend, PiecesBits DEF Mcus
<1> HIDE DEF Mapped
<1>2. \A interval \in Seq(Mcus) : Mapped(interval) \in Seq(Pieces({0, 1}))
  BY <1>1 DEF Mapped
<1>3. \A interval \in Seq(Mcus), codes \in Mcus :
        Mapped(Append(interval, codes)) = Append(Mapped(interval), McuBits(codes))
  BY <1>1 DEF Mapped
<1>4. Mapped(<<>>) = <<>>
  BY DEF Mapped
<1>5. \A interval : IntervalBits(interval) = FlattenSeq(Mapped(interval))
  BY DEF IntervalBits, Mapped
<1>6. \A interval \in Seq(Mcus) : IntervalBits(interval) \in Bits
  BY <1>2, <1>5, FlattenAppend, PiecesBits
<1>7. IntervalBits(<<>>) = <<>>
  BY <1>4, <1>5, FlattenAppend
<1>8. ASSUME NEW interval \in Seq(Mcus), NEW codes \in Mcus
      PROVE  IntervalBits(Append(interval, codes))
               = IntervalBits(interval) \o McuBits(codes)
  <2>1. Mapped(interval) \in Seq(Pieces({0, 1})) /\ McuBits(codes) \in Pieces({0, 1})
    BY <1>1, <1>2
  <2>2. FlattenSeq(Append(Mapped(interval), McuBits(codes)))
          = FlattenSeq(Mapped(interval)) \o McuBits(codes)
    BY <2>1, FlattenAppend
  <2> QED
    BY <1>3, <1>5, <2>2
<1> QED
  BY <1>6, <1>7, <1>8

\* What the memory of a destination holds.
Memory == Int \cup {Blank}

\* A byte in the stream.
Stuffing(b) == IF b = AllOnes THEN <<AllOnes, 0>> ELSE <<b>>

\* The stuffed bytes, byte by byte.
LEMMA StuffedAppend ==
  /\ StuffedBytes(<<>>) = <<>>
  /\ \A bytes \in Seq(Int) : StuffedBytes(bytes) \in Seq(Memory)
  /\ \A bytes \in Seq(Int), b \in Int :
       StuffedBytes(Append(bytes, b)) = StuffedBytes(bytes) \o Stuffing(b)
<1> DEFINE Mapped(bytes) == [i \in DOMAIN bytes |-> Stuffing(bytes[i])]
<1>0. Pieces(Memory) = Seq(Memory)
  BY DEF Pieces
<1>1. \A b \in Int : Stuffing(b) \in Pieces(Memory)
  <2>1. AllOnes \in Memory /\ 0 \in Memory /\ \A b \in Int : b \in Memory
    BY Widths DEF Memory
  <2>2. \A x \in Memory, y \in Memory : <<x>> \in Seq(Memory) /\ <<x, y>> \in Seq(Memory)
    OBVIOUS
  <2> QED
    BY <1>0, <2>1, <2>2 DEF Stuffing
<1> HIDE DEF Mapped
<1>2. \A bytes \in Seq(Int) : Mapped(bytes) \in Seq(Pieces(Memory))
  BY <1>1 DEF Mapped
<1>3. \A bytes \in Seq(Int), b \in Int :
        Mapped(Append(bytes, b)) = Append(Mapped(bytes), Stuffing(b))
  BY <1>1 DEF Mapped
<1>4. Mapped(<<>>) = <<>>
  BY DEF Mapped
<1>5. \A bytes : StuffedBytes(bytes) = FlattenSeq(Mapped(bytes))
  BY DEF StuffedBytes, Stuffing, Mapped
<1>6. \A bytes \in Seq(Int) : StuffedBytes(bytes) \in Seq(Memory)
  BY <1>0, <1>2, <1>5, FlattenAppend
<1>7. StuffedBytes(<<>>) = <<>>
  BY <1>4, <1>5, FlattenAppend
<1>8. ASSUME NEW bytes \in Seq(Int), NEW b \in Int
      PROVE  StuffedBytes(Append(bytes, b)) = StuffedBytes(bytes) \o Stuffing(b)
  <2>1. Mapped(bytes) \in Seq(Pieces(Memory)) /\ Stuffing(b) \in Pieces(Memory)
    BY <1>1, <1>2
  <2>2. FlattenSeq(Append(Mapped(bytes), Stuffing(b)))
          = FlattenSeq(Mapped(bytes)) \o Stuffing(b)
    BY <2>1, FlattenAppend
  <2> QED
    BY <1>3, <1>5, <2>2
<1> QED
  BY <1>6, <1>7, <1>8

-----------------------------------------------------------------------------
(* Bytes of a sequence of bits.                                            *)

\* Pieces of the beginning of a sequence.
LEMMA SubSeqPrefix ==
  ASSUME NEW E, NEW s \in Seq(E), NEW n \in 0..Len(s),
         NEW a \in Nat \ {0}, NEW b \in 0..n
  PROVE  /\ SubSeq(s, 1, n) \in Seq(E) /\ Len(SubSeq(s, 1, n)) = n
         /\ SubSeq(SubSeq(s, 1, n), a, b) = SubSeq(s, a, b)
         /\ SubSeq(s, a, b) \in Seq(E)
         /\ Len(SubSeq(s, a, b)) = IF a <= b THEN b - a + 1 ELSE 0
<1>1. SubSeq(s, 1, n) \in Seq(E) /\ Len(SubSeq(s, 1, n)) = n
  OBVIOUS
<1>2. \A i \in 1..n : SubSeq(s, 1, n)[i] = s[i]
  OBVIOUS
<1>3. SubSeq(s, a, b) \in Seq(E) /\ Len(SubSeq(s, a, b)) = IF a <= b THEN b - a + 1 ELSE 0
  OBVIOUS
<1>4. SubSeq(SubSeq(s, 1, n), a, b) = SubSeq(s, a, b)
  BY <1>1, <1>2
<1> QED
  BY <1>1, <1>3, <1>4

\* There are as many bytes as the bits fill.
LEMMA BytesType ==
  ASSUME NEW s \in Bits
  PROVE  /\ BytesOf(s) \in Seq(Int)
         /\ Len(BytesOf(s)) = Len(s) \div ByteBits
         /\ Len(s) \div ByteBits \in Nat
<1>1. Len(s) \in Nat /\ ByteBits \in Nat \ {0}
  BY Widths DEF Bits
<1>2. Len(s) \div ByteBits \in Nat
  BY <1>1
<1>3. ASSUME NEW i \in 1..(Len(s) \div ByteBits)
      PROVE  Value(SubSeq(s, (i - 1) * ByteBits + 1, i * ByteBits)) \in Int
  <2>1. i * ByteBits <= Len(s) /\ (i - 1) * ByteBits >= 0
        /\ i * ByteBits \in Int /\ (i - 1) * ByteBits \in Int
    <3>1. ByteBits * i <= ByteBits * (Len(s) \div ByteBits)
      BY <1>1, <1>2, MulMono
    <3>2. ByteBits * (Len(s) \div ByteBits) <= Len(s)
      BY <1>1
    <3> QED
      BY <1>1, <1>2, <3>1, <3>2
  <2>2. SubSeq(s, (i - 1) * ByteBits + 1, i * ByteBits) \in Bits
    <3> DEFINE a == (i - 1) * ByteBits + 1
               b == i * ByteBits
    <3>1. a \in Int /\ b \in Int /\ a >= 1 /\ b <= Len(s)
      BY <2>1
    <3> HIDE DEF a, b
    <3>2. \A k \in a..b : s[k] \in {0, 1}
      BY <1>1, <3>1 DEF Bits
    <3>3. SubSeq(s, a, b) \in Seq({0, 1})
      BY <3>1, <3>2, SubSeqProperties
    <3> QED
      BY <3>3 DEF a, b, Bits
  <2>3. \A t \in Bits : Len(t) \in Nat
    BY DEF Bits
  <2> QED
    BY <2>2, <2>3, ValueRange, Pow2Unfold
<1>4. BytesOf(s) \in Seq(Int) /\ Len(BytesOf(s)) = Len(s) \div ByteBits
  <2> DEFINE V(i) == Value(SubSeq(s, (i - 1) * ByteBits + 1, i * ByteBits))
             n == Len(s) \div ByteBits
  <2>1. BytesOf(s) = [i \in 1..n |-> V(i)]
    BY DEF BytesOf
  <2>2. n \in Nat /\ \A i \in 1..n : V(i) \in Int
    BY <1>2, <1>3
  <2> HIDE DEF V, n
  <2>3. BytesOf(s) \in Seq(Int) /\ Len(BytesOf(s)) = n
    BY <2>1, <2>2
  <2> QED
    BY <2>3 DEF n
<1> QED
  BY <1>2, <1>4

\* A sequence behind another.
LEMMA ConcatType ==
  ASSUME NEW E, NEW s \in Seq(E), NEW t \in Seq(E), NEW n, NEW l, Len(s) = n, Len(t) = l
  PROVE  /\ s \o t \in Seq(E) /\ Len(s \o t) = n + l
         /\ \A i \in 1..(n + l) : (s \o t)[i] = IF i <= n THEN s[i] ELSE t[i - n]
OBVIOUS

\* Where a byte lies among the bits.
LEMMA ByteBounds ==
  ASSUME NEW k \in Nat, NEW i \in 1..k
  PROVE  /\ i * ByteBits \in Nat /\ (i - 1) * ByteBits \in Nat /\ ByteBits * k \in Nat
         /\ i * ByteBits <= ByteBits * k
         /\ (i - 1) * ByteBits + ByteBits = i * ByteBits
<1>1. ByteBits \in Nat
  BY Widths
<1>2. ByteBits * i <= ByteBits * k
  BY <1>1, MulMono
<1>3. /\ i * ByteBits \in Nat /\ (i - 1) * ByteBits \in Nat /\ ByteBits * k \in Nat
  BY <1>1
<1>4. (i - 1) * ByteBits + ByteBits = i * ByteBits /\ i * ByteBits = ByteBits * i
  BY <1>1
<1> QED
  BY <1>2, <1>3, <1>4

\* Bits that do not fill a byte make no byte.
LEMMA BytesPrefix ==
  ASSUME NEW s \in Bits, NEW n \in 0..(ByteBits - 1), n <= Len(s),
         (Len(s) - n) % ByteBits = 0
  PROVE  /\ BytesOf(s) = BytesOf(SubSeq(s, 1, Len(s) - n))
         /\ Len(s) % ByteBits = n
<1> DEFINE m == Len(s) - n
           k == m \div ByteBits
<1>1. Len(s) \in Nat /\ ByteBits \in Nat \ {0} /\ m \in 0..Len(s)
  BY Widths DEF Bits
<1>2. k \in Nat /\ m = ByteBits * k
  <2> HIDE DEF m
  <2>1. m % ByteBits = 0
    BY DEF m
  <2>2. m = ByteBits * k + (m % ByteBits) /\ k \in Int
    BY <1>1, DivMod
  <2>3. k \in Nat
    BY <1>1
  <2> QED
    BY <1>1, <2>1, <2>2, <2>3
<1> HIDE DEF k
<1>3. Len(s) = ByteBits * k + n
  BY <1>1, <1>2
<1>4. Len(s) \div ByteBits = k /\ Len(s) % ByteBits = n
  BY <1>1, <1>2, <1>3, DivModUnique
<1>5. m \div ByteBits = k
  <2> HIDE DEF m
  <2>1. m = ByteBits * k + 0 /\ 0 \in 0..(ByteBits - 1)
    BY <1>1, <1>2
  <2> QED
    BY <1>1, <1>2, <2>1, DivModUnique
<1> HIDE DEF m
<1>6. Len(SubSeq(s, 1, m)) = m
  BY <1>1, SubSeqPrefix DEF Bits
<1>7. ASSUME NEW i \in 1..k
      PROVE  SubSeq(SubSeq(s, 1, m), (i - 1) * ByteBits + 1, i * ByteBits)
               = SubSeq(s, (i - 1) * ByteBits + 1, i * ByteBits)
  <2>1. (i - 1) * ByteBits + 1 \in Nat \ {0} /\ i * ByteBits \in 0..m
    <3>1. /\ i * ByteBits \in Nat /\ (i - 1) * ByteBits \in Nat
          /\ i * ByteBits <= ByteBits * k /\ m = ByteBits * k
      BY <1>2, ByteBounds
    <3>2. m \in Nat
      BY <1>1
    <3> QED
      BY <3>1, <3>2
  <2>2. SubSeq(SubSeq(s, 1, m), (i - 1) * ByteBits + 1, i * ByteBits)
          = SubSeq(s, (i - 1) * ByteBits + 1, i * ByteBits)
    BY <1>1, <2>1, SubSeqPrefix DEF Bits
  <2> QED
    BY <2>2
<1>8. BytesOf(SubSeq(s, 1, m))
        = [i \in 1..k |-> Value(SubSeq(SubSeq(s, 1, m), (i - 1) * ByteBits + 1,
                                       i * ByteBits))]
  BY <1>5, <1>6 DEF BytesOf
<1>9. BytesOf(s) = [i \in 1..k |-> Value(SubSeq(s, (i - 1) * ByteBits + 1, i * ByteBits))]
  BY <1>4 DEF BytesOf
<1>10. BytesOf(SubSeq(s, 1, m)) = BytesOf(s)
  BY <1>7, <1>8, <1>9
<1> QED
  BY <1>4, <1>10 DEF m

\* As many bits as a byte has make one more byte.
LEMMA ByteNext ==
  ASSUME NEW s \in Bits, NEW m \in Nat, m % ByteBits = 0, m + ByteBits <= Len(s)
  PROVE  BytesOf(SubSeq(s, 1, m + ByteBits))
           = Append(BytesOf(SubSeq(s, 1, m)), Value(SubSeq(s, m + 1, m + ByteBits)))
<1> DEFINE k == m \div ByteBits
           o == m + ByteBits
           V(i) == Value(SubSeq(s, (i - 1) * ByteBits + 1, i * ByteBits))
<1>1. /\ Len(s) \in Nat /\ ByteBits \in Nat \ {0} /\ m \in 0..Len(s) /\ o \in 0..Len(s)
      /\ m \in Int
  BY Widths DEF Bits
<1>2. k \in Nat /\ m = ByteBits * k /\ o = ByteBits * (k + 1)
  <2>1. m = ByteBits * k + (m % ByteBits) /\ k \in Int
    BY <1>1, DivMod
  <2>2. k \in Nat
    BY <1>1
  <2> HIDE DEF k
  <2>3. ByteBits * (k + 1) = ByteBits * k + ByteBits
    BY <1>1, <2>2
  <2> QED
    BY <1>1, <2>1, <2>2, <2>3
<1> HIDE DEF k
<1>3. o \div ByteBits = k + 1
  <2> HIDE DEF o
  <2>1. o = ByteBits * (k + 1) + 0 /\ 0 \in 0..(ByteBits - 1) /\ k + 1 \in Int
    BY <1>1, <1>2
  <2> QED
    BY <1>1, <2>1, DivModUnique
<1>4. m \div ByteBits = k
  BY DEF k
<1> HIDE DEF o
<1>6. Len(SubSeq(s, 1, m)) = m /\ Len(SubSeq(s, 1, o)) = o
  BY <1>1, SubSeqPrefix DEF Bits
<1>7. ASSUME NEW i \in 1..k
      PROVE  Value(SubSeq(SubSeq(s, 1, m), (i - 1) * ByteBits + 1, i * ByteBits)) = V(i)
  <2>1. (i - 1) * ByteBits + 1 \in Nat \ {0} /\ i * ByteBits \in 0..m
    <3>1. /\ i * ByteBits \in Nat /\ (i - 1) * ByteBits \in Nat
          /\ i * ByteBits <= ByteBits * k /\ m = ByteBits * k
      BY <1>2, ByteBounds
    <3>2. m \in Nat
      BY <1>1
    <3> QED
      BY <3>1, <3>2
  <2>2. SubSeq(SubSeq(s, 1, m), (i - 1) * ByteBits + 1, i * ByteBits)
          = SubSeq(s, (i - 1) * ByteBits + 1, i * ByteBits)
    BY <1>1, <2>1, SubSeqPrefix DEF Bits
  <2> QED
    BY <2>2
<1>8. ASSUME NEW i \in 1..(k + 1)
      PROVE  Value(SubSeq(SubSeq(s, 1, o), (i - 1) * ByteBits + 1, i * ByteBits)) = V(i)
  <2>1. (i - 1) * ByteBits + 1 \in Nat \ {0} /\ i * ByteBits \in 0..o
    <3>1. k + 1 \in Nat /\ o \in Nat /\ o = ByteBits * (k + 1)
      BY <1>1, <1>2
    <3>2. /\ i * ByteBits \in Nat /\ (i - 1) * ByteBits \in Nat
          /\ i * ByteBits <= ByteBits * (k + 1)
      BY <3>1, ByteBounds
    <3> QED
      BY <3>1, <3>2
  <2>2. SubSeq(SubSeq(s, 1, o), (i - 1) * ByteBits + 1, i * ByteBits)
          = SubSeq(s, (i - 1) * ByteBits + 1, i * ByteBits)
    BY <1>1, <2>1, SubSeqPrefix DEF Bits
  <2> QED
    BY <2>2
<1> HIDE DEF V
<1>9. BytesOf(SubSeq(s, 1, m)) = [i \in 1..k |-> V(i)]
  BY <1>4, <1>6, <1>7 DEF BytesOf
<1>10. BytesOf(SubSeq(s, 1, o)) = [i \in 1..(k + 1) |-> V(i)]
  BY <1>3, <1>6, <1>8 DEF BytesOf
<1>11. BytesOf(SubSeq(s, 1, o)) = Append(BytesOf(SubSeq(s, 1, m)), V(k + 1))
  BY <1>2, <1>9, <1>10
<1>12. V(k + 1) = Value(SubSeq(s, m + 1, o))
  <2>1. \A i \in Nat : V(i) = Value(SubSeq(s, (i - 1) * ByteBits + 1, i * ByteBits))
    BY DEF V
  <2>2. PICK i \in Nat : i = k + 1
    BY <1>2
  <2>3. (i - 1) * ByteBits = m /\ i * ByteBits = o
    BY <1>1, <1>2, <2>2
  <2>4. V(i) = Value(SubSeq(s, m + 1, o))
    BY <2>1, <2>3
  <2> QED
    BY <2>2, <2>4
<1> QED
  BY <1>11, <1>12 DEF o

\* The ones of a flush, without those that fill no byte, are the padding.
LEMMA PaddedIsFlushed ==
  ASSUME NEW s \in Bits, NEW n \in 0..(ByteBits - 1),
         NEW o \in Int, o = Len(s) + (ByteBits - 1) - n, o % ByteBits = 0
  PROVE  SubSeq(s \o Ones(ByteBits - 1), 1, o) = PaddedBits(s)
<1> DEFINE k == o \div ByteBits
           p == ByteBits - 1 - n
<1>1. /\ Len(s) \in Nat /\ ByteBits \in Nat \ {0} /\ o \in Nat /\ p \in 0..(ByteBits - 1)
      /\ o = Len(s) + p
  BY Widths DEF Bits
<1>2. k \in Int /\ o = ByteBits * k
  <2>1. o % ByteBits = 0
    OBVIOUS
  <2>2. o = ByteBits * k + (o % ByteBits) /\ k \in Int
    BY <1>1, DivMod
  <2> QED
    BY <1>1, <2>1, <2>2
<1> HIDE DEF k, p
<1>3. (-Len(s)) % ByteBits = p
  <2>1. ByteBits * (-k) = -(ByteBits * k)
    BY <1>1, <1>2
  <2>2. -Len(s) = ByteBits * (-k) + p /\ -k \in Int
    BY <1>1, <1>2, <2>1
  <2>3. PICK z \in Int : z = -k
    BY <2>2
  <2>4. (ByteBits * z + p) % ByteBits = p
    BY <1>1, DivModUnique
  <2> QED
    BY <2>2, <2>3, <2>4
<1>4. Ones(ByteBits - 1) \in Bits /\ Len(Ones(ByteBits - 1)) = ByteBits - 1
  BY <1>1, OnesRight
<1>5. PaddedBits(s) = s \o Ones(p)
  BY <1>3 DEF PaddedBits, Ones
<1>6. Ones(p) \in Bits /\ Len(Ones(p)) = p
  BY <1>1, OnesRight
<1>7. SubSeq(s \o Ones(ByteBits - 1), 1, o) = s \o Ones(p)
  <2> DEFINE a == s \o Ones(ByteBits - 1)
             b == s \o Ones(p)
  <2>1. /\ a \in Seq({0, 1}) /\ Len(a) = Len(s) + (ByteBits - 1)
        /\ \A i \in 1..Len(a) : a[i] = IF i <= Len(s) THEN s[i]
                                       ELSE Ones(ByteBits - 1)[i - Len(s)]
    <3>1. s \in Seq({0, 1}) /\ Ones(ByteBits - 1) \in Seq({0, 1})
      BY <1>4 DEF Bits
    <3> QED
      BY <1>4, <3>1, ConcatType
  <2>2. /\ b \in Seq({0, 1}) /\ Len(b) = Len(s) + p
        /\ \A i \in 1..Len(b) : b[i] = IF i <= Len(s) THEN s[i] ELSE Ones(p)[i - Len(s)]
    <3>1. s \in Seq({0, 1}) /\ Ones(p) \in Seq({0, 1})
      BY <1>6 DEF Bits
    <3> QED
      BY <1>6, <3>1, ConcatType
  <2>3. \A i \in 1..o : a[i] = b[i]
    BY <1>1, <2>1, <2>2 DEF Ones
  <2> HIDE DEF a, b
  <2>4. SubSeq(a, 1, o) \in Seq({0, 1}) /\ Len(SubSeq(a, 1, o)) = o
        /\ \A i \in 1..o : SubSeq(a, 1, o)[i] = a[i]
    BY <1>1, <2>1
  <2>5. SubSeq(a, 1, o) = b
    BY <1>1, <2>2, <2>3, <2>4, SeqEqual
  <2> QED
    BY <2>5 DEF a, b
<1> QED
  BY <1>5, <1>7

\* The last n bits.
Waiting(bits, n) == SubSeq(bits, Len(bits) - n + 1, Len(bits))

\* The last bits of these wait at the left of put_buffer's three bytes, which
\* has zeros on their right.
BitsHeld(bits, b) ==
  /\ b.put_bits \in 0..(3 * ByteBits - 1)
  /\ b.put_bits <= Len(bits) /\ (Len(bits) - b.put_bits) % ByteBits = 0
  /\ b.put_buffer \in 0..(Pow2[4 * ByteBits] - 1)
  /\ b.put_buffer % Pow2[3 * ByteBits]
       = Value(Waiting(bits, b.put_bits)) * Pow2[3 * ByteBits - b.put_bits]

\* The others are in the stream.
OutHeld(bits, before, b, out) ==
  out = before \o StuffedBytes(BytesOf(SubSeq(bits, 1, Len(bits) - b.put_bits)))

\* Pow2 has numbers, none of them zero.
LEMMA Pow2Type == \A n \in Nat : Pow2[n] \in Nat \ {0} /\ Pow2[n] \in Int
  BY Pow2Unfold

\* Pow2 of a sum, for a sum with a name.
LEMMA Pow2Split ==
  ASSUME NEW a \in Nat, NEW b \in Nat, NEW c, c = a + b
  PROVE  Pow2[c] = Pow2[a] * Pow2[b]
  BY Pow2Sum

\* A shift moves a number of a bits below bit a + b.
LEMMA ScaleBelow ==
  ASSUME NEW a \in Nat, NEW b \in Nat, NEW v \in 0..(Pow2[a] - 1)
  PROVE  v * Pow2[b] \in 0..(Pow2[a + b] - 1)
<1>1. Pow2[a] \in Nat \ {0} /\ Pow2[b] \in Nat \ {0} /\ Pow2[a + b] = Pow2[a] * Pow2[b]
  BY Pow2Type, Pow2Sum
<1>2. Pow2[b] * (v + 1) <= Pow2[b] * Pow2[a]
  BY <1>1, MulMono
<1>3. Pow2[b] * (v + 1) = v * Pow2[b] + Pow2[b] /\ v * Pow2[b] \in Nat
  BY <1>1
<1>4. Pow2[b] * Pow2[a] = Pow2[a + b]
  BY <1>1
<1> QED
  BY <1>1, <1>2, <1>3, <1>4

\* The bits that wait and their number.
LEMMA WaitingType ==
  ASSUME NEW bits \in Bits, NEW n \in 0..Len(bits)
  PROVE  /\ Waiting(bits, n) \in Bits /\ Len(Waiting(bits, n)) = n
         /\ Value(Waiting(bits, n)) \in 0..(Pow2[n] - 1)
         /\ \A i \in 1..n : Waiting(bits, n)[i] = bits[Len(bits) - n + i]
<1>1. Waiting(bits, n) \in Bits /\ Len(Waiting(bits, n)) = n
  BY DEF Waiting, Bits
<1>2. \A i \in 1..n : Waiting(bits, n)[i] = bits[Len(bits) - n + i]
  BY DEF Waiting, Bits
<1> QED
  BY <1>1, <1>2, ValueRange

\* put_buffer is made of bits that are done with, those that wait, and zeros.
LEMMA HeldSplit ==
  ASSUME NEW bits \in Bits, NEW b, BitsHeld(bits, b)
  PROVE  /\ b.put_bits \in Nat /\ b.put_bits <= Len(bits)
         /\ 3 * ByteBits - b.put_bits \in Nat
         /\ \E q \in 0..(Pow2[ByteBits] - 1) :
              b.put_buffer = Pow2[3 * ByteBits] * q
                + Value(Waiting(bits, b.put_bits)) * Pow2[3 * ByteBits - b.put_bits]
<1> DEFINE n == b.put_bits
           d == Pow2[3 * ByteBits]
           q == b.put_buffer \div d
           x == Value(Waiting(bits, n)) * Pow2[3 * ByteBits - n]
<1>1. /\ ByteBits \in Nat /\ Len(bits) \in Nat
      /\ n \in 0..(3 * ByteBits - 1) /\ n <= Len(bits)
      /\ b.put_buffer \in 0..(Pow2[4 * ByteBits] - 1) /\ b.put_buffer % d = x
  BY Widths DEF BitsHeld, Bits
<1>2. d \in Nat \ {0} /\ Pow2[ByteBits] \in Nat \ {0}
  BY <1>1, Pow2Type
<1>3. Pow2[4 * ByteBits] = d * Pow2[ByteBits] /\ Pow2[4 * ByteBits] \in Nat
  <2>1. 4 * ByteBits = 3 * ByteBits + ByteBits
    BY <1>1
  <2>2. 3 * ByteBits \in Nat /\ 4 * ByteBits \in Nat
    BY <1>1
  <2> QED
    BY <1>1, <2>1, <2>2, Pow2Sum, Pow2Type
<1>4. /\ b.put_buffer = d * q + x /\ q \in Int /\ x \in 0..(d - 1)
  <2> HIDE DEF d, x, n
  <2>1. b.put_buffer \in Int
    BY <1>1, <1>3
  <2>2. b.put_buffer = d * q + (b.put_buffer % d) /\ q \in Int
        /\ b.put_buffer % d \in 0..(d - 1)
    BY <1>2, <2>1, DivMod
  <2> QED
    BY <1>1, <2>2
<1> HIDE DEF d, q, x
<1>5. q < Pow2[ByteBits]
  <2>1. d * q < d * Pow2[ByteBits]
    <3>1. PICK u \in Int : u = d * q
      BY <1>2, <1>4
    <3>2. b.put_buffer = u + x /\ x >= 0 /\ x \in Int
      BY <1>2, <1>4, <3>1
    <3>3. b.put_buffer < Pow2[4 * ByteBits] /\ b.put_buffer \in Int
      BY <1>1, <1>3
    <3>4. u < Pow2[4 * ByteBits]
      BY <1>3, <3>2, <3>3
    <3> QED
      BY <1>3, <3>1, <3>4
  <2> QED
    BY <1>2, <1>4, <2>1, MulBelow
<1>6. q >= 0
  <2> SUFFICES ASSUME q < 0 PROVE FALSE
    BY <1>4
  <2>1. d * (q + 1) <= d * 0
    BY <1>2, <1>4, MulMono
  <2>2. d * (q + 1) = d * q + d /\ d * 0 = 0 /\ d * q \in Int
    BY <1>2, <1>4
  <2> QED
    BY <1>1, <1>2, <1>3, <1>4, <2>1, <2>2
<1>7. q \in 0..(Pow2[ByteBits] - 1)
  BY <1>2, <1>4, <1>5, <1>6
<1>8. n \in Nat /\ n <= Len(bits) /\ 3 * ByteBits - n \in Nat
  BY <1>1
<1> QED
  BY <1>4, <1>7, <1>8 DEF d, x

\* ... so that the bits below those that wait are zeros, and these can be read.
LEMMA HeldBits ==
  ASSUME NEW bits \in Bits, NEW b, BitsHeld(bits, b)
  PROVE  /\ b.put_buffer % Pow2[3 * ByteBits - b.put_bits] = 0
         /\ (b.put_buffer \div Pow2[3 * ByteBits - b.put_bits]) % Pow2[b.put_bits]
              = Value(Waiting(bits, b.put_bits))
<1> DEFINE n == b.put_bits
           m == Pow2[3 * ByteBits - n]
           p == Pow2[n]
           v == Value(Waiting(bits, n))
<1>1. /\ n \in Nat /\ n <= Len(bits) /\ 3 * ByteBits - n \in Nat /\ ByteBits \in Nat
      /\ Len(bits) \in Nat
  BY HeldSplit, Widths DEF Bits
<1>2. PICK q \in 0..(Pow2[ByteBits] - 1) : b.put_buffer = Pow2[3 * ByteBits] * q + v * m
  BY HeldSplit
<1>3. /\ m \in Nat \ {0} /\ p \in Nat \ {0} /\ Pow2[3 * ByteBits] = p * m
      /\ q \in Int
  <2> DEFINE r == 3 * ByteBits - n
             w == 3 * ByteBits
  <2>1. n \in Nat /\ r \in Nat /\ w \in Nat /\ w = n + r
    BY <1>1
  <2> HIDE DEF n, r, w
  <2>2. Pow2[w] = Pow2[n] * Pow2[r] /\ Pow2[n] \in Nat \ {0} /\ Pow2[r] \in Nat \ {0}
    BY <2>1, Pow2Split, Pow2Type
  <2> QED
    BY <1>2, <2>2 DEF r, w
<1>4. v \in 0..(p - 1)
  BY <1>1, WaitingType
<1> HIDE DEF m, p, v
<1>5. b.put_buffer = m * (p * q + v) + 0 /\ p * q + v \in Int
  <2>1. m * (p * q + v) = (p * m) * q + v * m /\ p * q + v \in Int
    BY <1>3, <1>4
  <2>2. m * (p * q + v) \in Int
    BY <1>3, <2>1
  <2> QED
    BY <1>2, <1>3, <2>1, <2>2
<1>6. b.put_buffer \div m = p * q + v /\ b.put_buffer % m = 0
  <2>1. 0 \in 0..(m - 1)
    BY <1>3
  <2> QED
    BY <1>3, <1>5, <2>1, DivModUnique
<1>7. (p * q + v) % p = v
  BY <1>3, <1>4, DivModUnique
<1> QED
  BY <1>6, <1>7 DEF m, p, v

-----------------------------------------------------------------------------
(* emit_bits_s: the bits of a code are put behind those that wait.         *)

\* Bits that are added wait behind those that waited.
LEMMA WaitingConcat ==
  ASSUME NEW bits \in Bits, NEW cb \in Bits, NEW n \in 0..Len(bits)
  PROVE  /\ bits \o cb \in Bits /\ Len(bits \o cb) = Len(bits) + Len(cb)
         /\ Waiting(bits \o cb, Len(cb) + n) = Waiting(bits, n) \o cb
<1> DEFINE all == bits \o cb
           n2 == Len(cb) + n
           w == Waiting(bits, n) \o cb
<1>1. /\ all \in Bits /\ Len(all) = Len(bits) + Len(cb)
      /\ \A i \in 1..Len(all) : all[i] = IF i <= Len(bits) THEN bits[i] ELSE cb[i - Len(bits)]
      /\ Len(bits) \in Nat /\ Len(cb) \in Nat
  BY DEF Bits
<1>2. n2 \in 0..Len(all) /\ n2 \in Nat /\ n2 = Len(cb) + n
  BY <1>1
<1> HIDE DEF all, n2
<1>3. /\ Waiting(all, n2) \in Bits /\ Len(Waiting(all, n2)) = n2
      /\ \A i \in 1..n2 : Waiting(all, n2)[i] = all[Len(all) - n2 + i]
  BY <1>1, <1>2, WaitingType
<1>4. /\ Waiting(bits, n) \in Bits /\ Len(Waiting(bits, n)) = n
      /\ \A i \in 1..n : Waiting(bits, n)[i] = bits[Len(bits) - n + i]
  BY WaitingType
<1>5. /\ w \in Bits /\ Len(w) = n2
      /\ \A i \in 1..n2 : w[i] = IF i <= n THEN Waiting(bits, n)[i] ELSE cb[i - n]
  <2> DEFINE u == Waiting(bits, n)
  <2>1. u \in Seq({0, 1}) /\ cb \in Seq({0, 1}) /\ Len(u) = n
    BY <1>4 DEF Bits
  <2> HIDE DEF u
  <2>2. /\ u \o cb \in Seq({0, 1}) /\ Len(u \o cb) = n2
        /\ \A i \in 1..n2 : (u \o cb)[i] = IF i <= n THEN u[i] ELSE cb[i - n]
    BY <1>1, <1>2, <2>1
  <2> QED
    BY <2>2 DEF u, Bits
<1> HIDE DEF w
<1>6. ASSUME NEW i \in 1..n2
      PROVE  Waiting(all, n2)[i] = w[i]
  <2> DEFINE j == Len(bits) - n + i
  <2>1. Waiting(all, n2)[i] = all[j] /\ j \in 1..Len(all)
    <3>1. Len(all) - n2 + i = j
      BY <1>1, <1>2
    <3> QED
      BY <1>1, <1>2, <1>3, <3>1
  <2>2. CASE i <= n
    <3>1. j <= Len(bits) /\ i \in 1..n
      BY <1>1, <1>2, <2>2
    <3>2. all[j] = bits[j]
      BY <1>1, <2>1, <3>1
    <3> QED
      BY <1>4, <1>5, <2>1, <2>2, <3>1, <3>2
  <2>3. CASE i > n
    <3>1. ~(j <= Len(bits)) /\ j - Len(bits) = i - n /\ ~(i <= n)
      BY <1>1, <1>2, <2>3
    <3>2. all[j] = cb[i - n]
      BY <1>1, <2>1, <3>1
    <3> QED
      BY <1>5, <2>1, <3>1, <3>2
  <2> QED
    BY <1>2, <2>2, <2>3
<1>7. Waiting(all, n2) = w
  BY <1>3, <1>5, <1>6, SeqEqual DEF Bits
<1> QED
  BY <1>1, <1>7 DEF w, all, n2

\* emit_bits_s, jchuff.c:306, up to its loop: put_buffer holds the new bits behind those
\* that waited.
LEMMA PutBits ==
  ASSUME NEW bits \in Bits, NEW b, BitsHeld(bits, b), b.put_bits < ByteBits,
         NEW cb \in Bits, NEW size \in 0..(2 * ByteBits), Len(cb) = size,
         NEW b2,
         b2.put_bits = size + b.put_bits,
         b2.put_buffer = Value(cb) * Pow2[3 * ByteBits - b2.put_bits] + b.put_buffer
  PROVE  BitsHeld(bits \o cb, b2)
<1> DEFINE n == b.put_bits
           n2 == size + n
           m == Pow2[3 * ByteBits - n]
           m2 == Pow2[3 * ByteBits - n2]
           p == Pow2[size]
           d == Pow2[3 * ByteBits]
           v == Value(Waiting(bits, n))
           c == Value(cb)
           all == bits \o cb
<1>1. /\ n \in 0..(ByteBits - 1) /\ n <= Len(bits) /\ ByteBits \in Nat \ {0}
      /\ Len(bits) \in Nat /\ (Len(bits) - n) % ByteBits = 0
      /\ n2 \in 0..(3 * ByteBits - 1) /\ size \in Nat
      /\ 3 * ByteBits - n2 \in Nat
  <2>1. ByteBits \in Nat \ {0} /\ Len(bits) \in Nat /\ size \in Nat
    BY Widths DEF Bits
  <2>2. n \in 0..(3 * ByteBits - 1) /\ n <= Len(bits) /\ (Len(bits) - n) % ByteBits = 0
    BY DEF BitsHeld
  <2> HIDE DEF n
  <2>3. n < ByteBits /\ size <= 2 * ByteBits
    BY DEF n
  <2> QED
    BY <2>1, <2>2, <2>3
<1>2. PICK q \in 0..(Pow2[ByteBits] - 1) : b.put_buffer = d * q + v * m
  BY HeldSplit
<1>3. /\ m2 \in Nat \ {0} /\ p \in Nat \ {0} /\ d \in Nat \ {0} /\ m = p * m2
      /\ Pow2[ByteBits] \in Nat \ {0} /\ q \in Int
      /\ Pow2[4 * ByteBits] = d * Pow2[ByteBits]
  <2> DEFINE r == 3 * ByteBits - n
             r2 == 3 * ByteBits - n2
             w3 == 3 * ByteBits
             w4 == 4 * ByteBits
  <2>1. /\ r \in Nat /\ r2 \in Nat /\ w3 \in Nat /\ r = size + r2 /\ w4 = w3 + ByteBits
        /\ ByteBits \in Nat /\ size \in Nat
    <3>1. n \in Int /\ ByteBits \in Nat /\ size \in Nat /\ r2 \in Nat
      BY <1>1
    <3>2. r = size + r2
      BY <3>1
    <3>3. w4 = w3 + ByteBits /\ w3 \in Nat
      BY <3>1
    <3> QED
      BY <3>1, <3>2, <3>3
  <2> HIDE DEF n, n2, r, r2, w3, w4
  <2>2. Pow2[r] = Pow2[size] * Pow2[r2]
    BY <2>1, Pow2Split
  <2>3. Pow2[w4] = Pow2[w3] * Pow2[ByteBits]
    BY <2>1, Pow2Split
  <2>4. /\ Pow2[r2] \in Nat \ {0} /\ Pow2[size] \in Nat \ {0} /\ Pow2[w3] \in Nat \ {0}
        /\ Pow2[ByteBits] \in Nat \ {0}
    BY <2>1, Pow2Type
  <2> QED
    BY <1>2, <2>2, <2>3, <2>4 DEF r, r2, w3, w4
<1>4. /\ Waiting(bits, n) \in Bits /\ Len(Waiting(bits, n)) = n /\ v \in Nat
      /\ c \in 0..(p - 1) /\ n \in 0..Len(bits)
  <2>1. n \in 0..Len(bits)
    BY <1>1
  <2>2. Pow2[n] \in Nat
    <3>1. n \in Nat
      BY <1>1
    <3> QED
      BY <3>1, Pow2Type
  <2> QED
    BY <2>1, <2>2, WaitingType, ValueRange
<1>5. /\ all \in Bits /\ Len(all) = Len(bits) + size
      /\ Waiting(all, n2) = Waiting(bits, n) \o cb
  BY <1>4, WaitingConcat
<1> DEFINE x == Value(Waiting(all, n2))
<1>6. x = v * p + c /\ x \in 0..(Pow2[n2] - 1)
  <2>1. x = v * p + c
    BY <1>4, <1>5, ValueConcat
  <2>2. n2 \in 0..Len(all)
    BY <1>1, <1>5
  <2> QED
    BY <1>5, <2>1, <2>2, WaitingType
<1>7. x * m2 \in 0..(d - 1)
  <2>1. n2 + (3 * ByteBits - n2) = 3 * ByteBits /\ n2 \in Nat
    BY <1>1
  <2> QED
    BY <1>1, <1>6, <2>1, ScaleBelow
<1> HIDE DEF x, m, m2, p, d, v, c, all
<1>8. b2.put_buffer = d * q + x * m2
  <2>1. x * m2 = v * m + c * m2
    <3>1. (v * p + c) * m2 = v * (p * m2) + c * m2
      BY <1>3, <1>4
    <3> QED
      BY <1>3, <1>6, <3>1
  <2>2. b2.put_buffer = c * m2 + (d * q + v * m)
    BY <1>2 DEF m2, c
  <2>3. d * q \in Int /\ v * m \in Int /\ c * m2 \in Int
    BY <1>3, <1>4
  <2> QED
    BY <2>1, <2>2, <2>3
<1>9. b2.put_buffer % d = x * m2
  <2> DEFINE y == x * m2
  <2>1. y \in 0..(d - 1) /\ b2.put_buffer = d * q + y
    BY <1>7, <1>8
  <2> HIDE DEF y
  <2>2. b2.put_buffer % d = y
    BY <1>3, <2>1, DivModUnique
  <2> QED
    BY <2>2 DEF y
<1>10. b2.put_buffer \in 0..(Pow2[4 * ByteBits] - 1)
  <2>1. d * (q + 1) <= d * Pow2[ByteBits]
    <3>1. q + 1 <= Pow2[ByteBits] /\ q + 1 \in Int /\ Pow2[ByteBits] \in Int
      BY <1>2, <1>3
    <3>2. d \in Nat
      BY <1>3
    <3> HIDE DEF d
    <3> QED
      BY <3>1, <3>2, MulMono
  <2>2. d * (q + 1) = d * q + d /\ d * q \in Nat /\ d * Pow2[ByteBits] \in Nat
    BY <1>2, <1>3
  <2> DEFINE y == x * m2
             u == d * q
             t == d * Pow2[ByteBits]
  <2>3. /\ y \in 0..(d - 1) /\ u \in Nat /\ t \in Nat /\ b2.put_buffer = u + y
        /\ u + d <= t /\ Pow2[4 * ByteBits] = t
    BY <1>3, <1>7, <1>8, <2>1, <2>2
  <2> HIDE DEF y, u, t
  <2> QED
    BY <1>3, <2>3
<1>11. (Len(all) - n2) % ByteBits = 0 /\ n2 <= Len(all)
  <2>1. Len(all) - n2 = Len(bits) - n
    BY <1>1, <1>5
  <2> QED
    BY <1>1, <1>5, <2>1
<1> QED
  BY <1>1, <1>9, <1>10, <1>11 DEF BitsHeld, x, m2, d, all

\* A multiple has no remainder.
LEMMA Multiple ==
  ASSUME NEW b \in Nat \ {0}, NEW q \in Int
  PROVE  (b * q) % b = 0
  OBVIOUS

\* The first byte of the bits that wait, and the others.
LEMMA WaitingSplit ==
  ASSUME NEW bits \in Bits, NEW n \in ByteBits..Len(bits)
  PROVE  /\ SubSeq(bits, Len(bits) - n + 1, Len(bits) - n + ByteBits) \in Bits
         /\ Len(SubSeq(bits, Len(bits) - n + 1, Len(bits) - n + ByteBits)) = ByteBits
         /\ Waiting(bits, n)
              = SubSeq(bits, Len(bits) - n + 1, Len(bits) - n + ByteBits)
                  \o Waiting(bits, n - ByteBits)
<1> DEFINE a == SubSeq(bits, Len(bits) - n + 1, Len(bits) - n + ByteBits)
           o == Len(bits) - n
<1>1. ByteBits \in Nat \ {0} /\ Len(bits) \in Nat /\ n \in Nat /\ n >= ByteBits /\ n <= Len(bits)
  BY Widths DEF Bits
<1>2. /\ o + 1 \in 1..(Len(bits) + 1)
      /\ o + ByteBits \in ((o + 1) - 1)..Len(bits)
      /\ Len(bits) \in (o + ByteBits)..Len(bits)
  BY <1>1
<1>3. SubSeq(bits, o + 1, o + ByteBits) \o SubSeq(bits, (o + ByteBits) + 1, Len(bits))
        = SubSeq(bits, o + 1, Len(bits))
  <2> HIDE DEF o
  <2> QED
    BY <1>2, ConcatAdjacentSubSeq DEF Bits
<1>4. Waiting(bits, n - ByteBits) = SubSeq(bits, (o + ByteBits) + 1, Len(bits))
  <2>1. Len(bits) - (n - ByteBits) + 1 = (o + ByteBits) + 1
    BY <1>1
  <2> QED
    BY <2>1 DEF Waiting
<1>5. Waiting(bits, n) = SubSeq(bits, o + 1, Len(bits))
  BY DEF Waiting
<1>6. a \in Bits /\ Len(a) = ByteBits
  BY <1>1 DEF Bits
<1> QED
  BY <1>3, <1>4, <1>5, <1>6

\* The topmost byte of put_buffer is that of the first bits that wait, and the
\* others wait after the shift.
LEMMA TakeByte ==
  ASSUME NEW bits \in Bits, NEW b, BitsHeld(bits, b), b.put_bits >= ByteBits,
         NEW b2,
         b2.put_bits = b.put_bits - ByteBits,
         b2.put_buffer = (b.put_buffer * Pow2[ByteBits]) % Pow2[4 * ByteBits]
  PROVE  /\ (b.put_buffer \div Pow2[2 * ByteBits]) % Pow2[ByteBits]
              = Value(SubSeq(bits, Len(bits) - b.put_bits + 1,
                             Len(bits) - b.put_bits + ByteBits))
         /\ BitsHeld(bits, b2)
<1> DEFINE n == b.put_bits
           n2 == n - ByteBits
           first == SubSeq(bits, Len(bits) - n + 1, Len(bits) - n + ByteBits)
           v1 == Value(first)
           v2 == Value(Waiting(bits, n2))
           p1 == Pow2[ByteBits]
           p2 == Pow2[2 * ByteBits]
           p3 == Pow2[3 * ByteBits]
           p4 == Pow2[4 * ByteBits]
           m == Pow2[3 * ByteBits - n]
           m2 == Pow2[3 * ByteBits - n2]
           y == v2 * m
<1>1. /\ n \in ByteBits..Len(bits) /\ n \in 0..(3 * ByteBits - 1)
      /\ ByteBits \in Nat \ {0} /\ ByteBits \in Nat
      /\ Len(bits) \in Nat /\ (Len(bits) - n) % ByteBits = 0
      /\ n2 \in 0..(2 * ByteBits - 1) /\ n2 \in Nat /\ n2 \in 0..Len(bits)
  <2>1. ByteBits \in Nat \ {0} /\ ByteBits \in Nat /\ Len(bits) \in Nat
    BY Widths DEF Bits
  <2>2. n \in 0..(3 * ByteBits - 1) /\ n <= Len(bits) /\ (Len(bits) - n) % ByteBits = 0
    BY DEF BitsHeld
  <2>3. n >= ByteBits /\ n2 = n - ByteBits
    OBVIOUS
  <2> HIDE DEF n, n2
  <2> QED
    BY <2>1, <2>2, <2>3
<1>2. PICK q \in 0..(Pow2[ByteBits] - 1) :
         b.put_buffer = p3 * q + Value(Waiting(bits, n)) * m
  BY HeldSplit
<1>3. /\ p1 \in Nat \ {0} /\ p2 \in Nat \ {0} /\ p3 \in Nat \ {0} /\ p4 \in Nat \ {0}
      /\ m \in Nat \ {0} /\ m2 \in Nat \ {0} /\ Pow2[n2] \in Nat \ {0}
      /\ p3 = p1 * p2 /\ p4 = p1 * p3 /\ m2 = p1 * m /\ Pow2[n2] * m = p2
      /\ q \in Int
  <2> DEFINE r == 3 * ByteBits - n
             r2 == 3 * ByteBits - n2
             w2 == 2 * ByteBits
             w3 == 3 * ByteBits
             w4 == 4 * ByteBits
  <2>1. /\ r \in Nat /\ r2 \in Nat /\ w2 \in Nat /\ w3 \in Nat /\ w4 \in Nat
        /\ n2 \in Nat /\ ByteBits \in Nat
    BY <1>1, SMTT(30)
  <2>0. w3 = ByteBits + w2 /\ w4 = ByteBits + w3 /\ r2 = ByteBits + r /\ w2 = n2 + r
    BY <1>1, SMTT(30)
  <2> HIDE DEF n, n2, r, r2, w2, w3, w4
  <2>2. /\ Pow2[w3] = Pow2[ByteBits] * Pow2[w2]
        /\ Pow2[w4] = Pow2[ByteBits] * Pow2[w3]
        /\ Pow2[r2] = Pow2[ByteBits] * Pow2[r]
        /\ Pow2[w2] = Pow2[n2] * Pow2[r]
    <3>1. Pow2[w3] = Pow2[ByteBits] * Pow2[w2]
      BY <2>0, <2>1, Pow2Split
    <3>2. Pow2[w4] = Pow2[ByteBits] * Pow2[w3]
      BY <2>0, <2>1, Pow2Split
    <3>3. Pow2[r2] = Pow2[ByteBits] * Pow2[r]
      BY <2>0, <2>1, Pow2Split
    <3>4. Pow2[w2] = Pow2[n2] * Pow2[r]
      BY <2>0, <2>1, Pow2Split
    <3> QED
      BY <3>1, <3>2, <3>3, <3>4
  <2>3. /\ Pow2[r] \in Nat \ {0} /\ Pow2[r2] \in Nat \ {0} /\ Pow2[w3] \in Nat \ {0}
        /\ Pow2[w2] \in Nat \ {0} /\ Pow2[w4] \in Nat \ {0} /\ Pow2[ByteBits] \in Nat \ {0}
        /\ Pow2[n2] \in Nat \ {0}
    BY <2>1, Pow2Type
  <2> QED
    BY <1>2, <2>2, <2>3 DEF r, r2, w2, w3, w4
<1>4. /\ first \in Bits /\ Len(first) = ByteBits
      /\ Waiting(bits, n) = first \o Waiting(bits, n2)
  BY <1>1, WaitingSplit
<1>5. v1 \in 0..(p1 - 1) /\ v2 \in 0..(Pow2[n2] - 1)
  BY <1>1, <1>4, ValueRange, WaitingType
<1>6. Value(Waiting(bits, n)) = v1 * Pow2[n2] + v2
  <2>1. Waiting(bits, n2) \in Bits /\ Len(Waiting(bits, n2)) = n2
    BY <1>1, WaitingType
  <2> HIDE DEF first, n2, n
  <2> QED
    BY <1>4, <2>1, ValueConcat
<1>7. y \in 0..(p2 - 1)
  <2> DEFINE r == 3 * ByteBits - n
             w2 == 2 * ByteBits
  <2>1. n2 \in Nat /\ r \in Nat /\ n2 + r = w2
    BY <1>1
  <2> HIDE DEF r, w2, n2, v2
  <2>2. v2 * Pow2[r] \in 0..(Pow2[w2] - 1)
    BY <1>5, <2>1, ScaleBelow
  <2> QED
    BY <2>2 DEF r, w2
<1> HIDE DEF first, v1, v2, p1, p2, p3, p4, m, m2, n2, n
<1>8. b.put_buffer = p2 * (p1 * q + v1) + y /\ p1 * q + v1 \in Int
  <2>1. (v1 * Pow2[n2] + v2) * m = v1 * (Pow2[n2] * m) + v2 * m
    BY <1>3, <1>5
  <2>2. p2 * (p1 * q + v1) = (p1 * p2) * q + v1 * p2 /\ p1 * q + v1 \in Int
    BY <1>3, <1>5
  <2>3. b.put_buffer = p3 * q + (v1 * p2 + y)
    BY <1>2, <1>3, <1>6, <2>1
  <2>4. p3 * q \in Int /\ v1 * p2 \in Int /\ y \in Int
    BY <1>3, <1>5, <1>7
  <2> QED
    BY <1>3, <2>2, <2>3, <2>4
<1> HIDE DEF y
<1>9. (b.put_buffer \div p2) % p1 = v1
  <2> DEFINE z == p1 * q + v1
  <2>1. z \in Int /\ b.put_buffer = p2 * z + y
    BY <1>8
  <2> HIDE DEF z
  <2>2. (p2 * z + y) \div p2 = z
    BY <1>3, <1>7, <2>1, DivModUnique
  <2>3. z % p1 = v1
    BY <1>3, <1>5, DivModUnique DEF z
  <2> QED
    BY <2>1, <2>2, <2>3
<1> DEFINE x == p1 * y
           w == p3 * v1 + x
<1>10. x \in 0..(p3 - 1)
  <2>1. p1 * (y + 1) <= p1 * p2
    BY <1>3, <1>7, MulMono
  <2>2. p1 * (y + 1) = p1 * y + p1 /\ p1 * y \in Nat
    BY <1>3, <1>7
  <2> QED
    BY <1>3, <2>1, <2>2
<1> HIDE DEF x
<1>11. w \in 0..(p4 - 1)
  <2>1. p3 * (v1 + 1) <= p3 * p1
    BY <1>3, <1>5, MulMono
  <2>2. p3 * (v1 + 1) = p3 * v1 + p3 /\ p3 * v1 \in Nat /\ p3 * p1 = p4
    BY <1>3, <1>5
  <2> QED
    BY <1>3, <1>10, <2>1, <2>2
<1>12. b2.put_buffer = w
  <2>1. b.put_buffer * p1 = p4 * q + w
    <3>1. (p2 * (p1 * q + v1) + y) * p1 = (p1 * (p1 * p2)) * q + ((p1 * p2) * v1 + p1 * y)
      BY <1>3, <1>5, <1>7
    <3> QED
      BY <1>3, <1>8, <3>1 DEF x
  <2> HIDE DEF w
  <2>2. (p4 * q + w) % p4 = w
    BY <1>3, <1>11, DivModUnique
  <2>3. b2.put_buffer = (b.put_buffer * p1) % p4
    BY DEF p1, p4
  <2> QED
    BY <2>1, <2>2, <2>3
<1>13. b2.put_buffer % p3 = x
  <2>1. v1 \in Int /\ x \in 0..(p3 - 1) /\ p3 \in Nat \ {0}
    BY <1>3, <1>5, <1>10
  <2>2. (p3 * v1 + x) % p3 = x
    BY <2>1, DivModUnique
  <2> QED
    BY <1>12, <2>2
<1>14. x = v2 * m2
  <2>1. p1 * (v2 * m) = v2 * (p1 * m)
    BY <1>3, <1>5
  <2> QED
    BY <1>3, <2>1 DEF x, y
<1>15. (Len(bits) - n2) % ByteBits = 0
  <2> DEFINE o == Len(bits) - n
             k == o \div ByteBits
  <2>1. o \in Int /\ o % ByteBits = 0 /\ Len(bits) - n2 = o + ByteBits
    BY <1>1 DEF n2
  <2> HIDE DEF o
  <2>2. o = ByteBits * k + (o % ByteBits) /\ k \in Int
    BY <1>1, <2>1, DivMod
  <2> HIDE DEF k
  <2>3. ByteBits * (k + 1) = ByteBits * k + ByteBits /\ ByteBits * k \in Int
    BY <1>1, <2>2
  <2>4. PICK h \in Int : h = k + 1
    BY <2>2
  <2>5. o + ByteBits = ByteBits * h
    BY <1>1, <2>1, <2>2, <2>3, <2>4
  <2>6. (ByteBits * h) % ByteBits = 0
    BY <1>1, Multiple
  <2> QED
    BY <2>1, <2>5, <2>6
<1>16. b2.put_bits = n2 /\ n2 \in 0..(3 * ByteBits - 1) /\ n2 <= Len(bits)
  BY <1>1 DEF n2, n
<1>17. b2.put_buffer \in 0..(Pow2[4 * ByteBits] - 1)
  BY <1>11, <1>12 DEF p4
<1>18. b2.put_buffer % Pow2[3 * ByteBits]
         = Value(Waiting(bits, n2)) * Pow2[3 * ByteBits - n2]
  BY <1>13, <1>14 DEF v2, m2, p3
<1>19. BitsHeld(bits, b2)
  BY <1>15, <1>16, <1>17, <1>18 DEF BitsHeld
<1> QED
  BY <1>9, <1>19 DEF p1, p2, v1, first, n

\* What is out is bytes.
LEMMA OutType ==
  ASSUME NEW bits \in Bits
  PROVE  /\ StuffedBytes(BytesOf(bits)) \in Seq(Memory)
         /\ PaddedBits(bits) \in Bits
         /\ \A o \in 0..Len(bits) : SubSeq(bits, 1, o) \in Bits
<1>1. StuffedBytes(BytesOf(bits)) \in Seq(Memory)
  BY BytesType, StuffedAppend
<1>2. \A o \in 0..Len(bits) : SubSeq(bits, 1, o) \in Bits
  BY DEF Bits
<1>3. PaddedBits(bits) \in Bits
  <2> DEFINE p == (-Len(bits)) % ByteBits
  <2>1. p \in Nat
    <3>1. -Len(bits) \in Int /\ ByteBits \in Nat \ {0}
      BY Widths DEF Bits
    <3>2. p \in 0..(ByteBits - 1)
      BY <3>1, DivMod
    <3> QED
      BY <3>1, <3>2
  <2> HIDE DEF p
  <2>2. PaddedBits(bits) = bits \o Ones(p)
    BY DEF PaddedBits, Ones, p
  <2>3. Ones(p) \in Bits
    BY <2>1, OnesRight
  <2> QED
    BY <2>2, <2>3 DEF Bits
<1> QED
  BY <1>1, <1>2, <1>3

\* Bits that are put into put_buffer change nothing of what is out.
LEMMA OutPut ==
  ASSUME NEW bits \in Bits, NEW cb \in Bits, NEW before, NEW out,
         NEW b, BitsHeld(bits, b), OutHeld(bits, before, b, out),
         NEW b2, b2.put_bits = Len(cb) + b.put_bits
  PROVE  OutHeld(bits \o cb, before, b2, out)
<1> DEFINE o == Len(bits) - b.put_bits
           all == bits \o cb
<1>1. /\ all \in Bits /\ Len(all) = Len(bits) + Len(cb) /\ Len(cb) \in Nat
      /\ \A i \in 1..Len(bits) : all[i] = bits[i]
      /\ Len(bits) \in Nat
  BY DEF Bits
<1>2. o \in 0..Len(bits) /\ Len(all) - b2.put_bits = o
  BY <1>1, HeldSplit
<1> HIDE DEF o, all
<1>3. SubSeq(all, 1, o) = SubSeq(bits, 1, o)
  <2>1. o \in 0..Len(all) /\ all \in Seq({0, 1}) /\ bits \in Seq({0, 1})
    BY <1>1, <1>2 DEF Bits
  <2>2. /\ SubSeq(all, 1, o) \in Seq({0, 1}) /\ Len(SubSeq(all, 1, o)) = o
        /\ \A i \in 1..o : SubSeq(all, 1, o)[i] = all[i]
    BY <1>1, <2>1
  <2>3. /\ SubSeq(bits, 1, o) \in Seq({0, 1}) /\ Len(SubSeq(bits, 1, o)) = o
        /\ \A i \in 1..o : SubSeq(bits, 1, o)[i] = bits[i]
    BY <1>1, <1>2, <2>1
  <2>4. \A i \in 1..o : all[i] = bits[i]
    BY <1>1, <1>2
  <2> QED
    BY <2>2, <2>3, <2>4, SeqEqual
<1>4. OutHeld(all, before, b2, out)
  BY <1>2, <1>3 DEF OutHeld, o
<1> QED
  BY <1>4 DEF all

\* A byte that leaves put_buffer, with the zero stuffed behind it, is the next byte out.
LEMMA OutByte ==
  ASSUME NEW bits \in Bits, NEW before \in Seq(Memory), NEW out,
         NEW b, BitsHeld(bits, b), OutHeld(bits, before, b, out),
         b.put_bits >= ByteBits,
         NEW b2, b2.put_bits = b.put_bits - ByteBits,
         NEW byte, byte = Value(SubSeq(bits, Len(bits) - b.put_bits + 1,
                                       Len(bits) - b.put_bits + ByteBits))
  PROVE  OutHeld(bits, before, b2, out \o Stuffing(byte))
<1> DEFINE o == Len(bits) - b.put_bits
           now == BytesOf(SubSeq(bits, 1, o))
           then == BytesOf(SubSeq(bits, 1, o + ByteBits))
<1>1. /\ Len(bits) \in Nat /\ ByteBits \in Nat /\ b.put_bits \in Nat
      /\ o \in Nat /\ o \in 0..Len(bits) /\ o % ByteBits = 0 /\ o + ByteBits <= Len(bits)
      /\ Len(bits) - b2.put_bits = o + ByteBits
  <2>1. /\ Len(bits) \in Nat /\ ByteBits \in Nat /\ b.put_bits \in Nat
        /\ b.put_bits <= Len(bits) /\ o % ByteBits = 0
    BY HeldSplit, Widths DEF Bits, BitsHeld
  <2> QED
    BY <2>1
<1>2. then = Append(now, byte)
  <2> HIDE DEF o
  <2>1. byte = Value(SubSeq(bits, o + 1, o + ByteBits))
    BY DEF o
  <2> QED
    BY <1>1, <2>1, ByteNext
<1>3. now \in Seq(Int) /\ byte \in Int
  <2> HIDE DEF o
  <2>1. SubSeq(bits, 1, o) \in Bits /\ SubSeq(bits, 1, o + ByteBits) \in Bits
    <3>1. o + ByteBits \in 0..Len(bits)
      BY <1>1
    <3> QED
      BY <1>1, <3>1, OutType
  <2>2. now \in Seq(Int)
    BY <2>1, BytesType
  <2>3. byte \in Int
    <3>1. b.put_bits \in ByteBits..Len(bits)
      BY <1>1, HeldSplit
    <3> DEFINE s == SubSeq(bits, Len(bits) - b.put_bits + 1, Len(bits) - b.put_bits + ByteBits)
    <3>2. s \in Bits /\ Len(s) = ByteBits
      BY <3>1, WaitingSplit
    <3> HIDE DEF s
    <3>3. Value(s) \in 0..(Pow2[Len(s)] - 1)
      BY <3>2, ValueRange
    <3>4. Value(s) \in Int
      BY <1>1, <3>2, <3>3, Pow2Type
    <3> QED
      BY <3>4 DEF s
  <2> QED
    BY <2>2, <2>3
<1> HIDE DEF now, then
<1>4. StuffedBytes(then) = StuffedBytes(now) \o Stuffing(byte)
  BY <1>2, <1>3, StuffedAppend
<1>5. StuffedBytes(now) \in Seq(Memory) /\ Stuffing(byte) \in Seq(Memory)
  <2>1. byte \in Memory /\ AllOnes \in Memory /\ 0 \in Memory
    BY <1>3, Widths DEF Memory
  <2>2. \A x \in Memory, y \in Memory : <<x>> \in Seq(Memory) /\ <<x, y>> \in Seq(Memory)
    OBVIOUS
  <2> QED
    BY <1>3, <2>1, <2>2, StuffedAppend DEF Stuffing
<1>6. out = before \o StuffedBytes(now)
  BY DEF OutHeld, now
<1>7. out \o Stuffing(byte) = before \o StuffedBytes(then)
  BY <1>4, <1>5, <1>6, ConcatAssociative
<1> QED
  BY <1>1, <1>7 DEF OutHeld, then

\* After the flush all bits are out, padded with ones.
LEMMA FlushOut ==
  ASSUME NEW old \in Bits, NEW before, NEW out, NEW b,
         BitsHeld(old \o Ones(ByteBits - 1), b),
         OutHeld(old \o Ones(ByteBits - 1), before, b, out),
         b.put_bits < ByteBits
  PROVE  out = before \o StuffedBytes(BytesOf(PaddedBits(old)))
<1> DEFINE all == old \o Ones(ByteBits - 1)
           n == b.put_bits
<1>1. Ones(ByteBits - 1) \in Bits /\ Len(Ones(ByteBits - 1)) = ByteBits - 1
  BY OnesRight, Widths
<1>2. all \in Bits /\ Len(all) = Len(old) + (ByteBits - 1) /\ Len(old) \in Nat
  BY <1>1 DEF Bits
<1> HIDE DEF all
<1>3. n \in 0..(ByteBits - 1) /\ (Len(all) - n) % ByteBits = 0
  BY Widths DEF BitsHeld, all
<1>4. SubSeq(all, 1, Len(all) - n) = PaddedBits(old)
  <2> DEFINE l == Len(old) + (ByteBits - 1)
  <2>1. Len(all) = l
    BY <1>2
  <2> HIDE DEF n, l
  <2>2. (l - n) % ByteBits = 0
    BY <1>3, <2>1
  <2> DEFINE o == l - n
  <2>3. o \in Int /\ o = Len(old) + (ByteBits - 1) - n /\ o % ByteBits = 0
    BY <1>2, <1>3, <2>2, Widths DEF l
  <2> HIDE DEF o
  <2>4. SubSeq(old \o Ones(ByteBits - 1), 1, o) = PaddedBits(old)
    BY <1>3, <2>3, PaddedIsFlushed
  <2> QED
    BY <2>1, <2>4 DEF all, o
<1> QED
  BY <1>4 DEF OutHeld, all

\* What is out when less than a byte waits.
LEMMA StreamOf ==
  ASSUME NEW bits \in Bits, NEW before, NEW out, NEW b,
         BitsHeld(bits, b), OutHeld(bits, before, b, out), b.put_bits < ByteBits
  PROVE  /\ out = before \o StuffedBytes(BytesOf(bits))
         /\ Len(bits) % ByteBits = b.put_bits
<1> DEFINE n == b.put_bits
<1>1. n \in 0..(ByteBits - 1) /\ n <= Len(bits) /\ (Len(bits) - n) % ByteBits = 0
  BY Widths DEF BitsHeld
<1> HIDE DEF n
<1>2. BytesOf(bits) = BytesOf(SubSeq(bits, 1, Len(bits) - n)) /\ Len(bits) % ByteBits = n
  BY <1>1, BytesPrefix
<1> QED
  BY <1>2 DEF n, OutHeld

\* The empty put_buffer at the start of an interval.
LEMMA NothingHeld ==
  /\ BitsHeld(<<>>, NoBits)
  /\ <<>> \in Bits
  /\ \A before \in Seq(Memory) : OutHeld(<<>>, before, NoBits, before)
  /\ \A before \in Seq(Memory) : \A b, out :
       BitsHeld(<<>>, b) /\ OutHeld(<<>>, before, b, out) =>
         out = before /\ b.put_bits = 0
<1>1. <<>> \in Bits /\ Len(<<>>) = 0
  BY DEF Bits
<1>2. Waiting(<<>>, 0) = <<>>
  BY <1>1 DEF Waiting
<1>3. ByteBits \in Nat \ {0} /\ 0 % ByteBits = 0
  BY Widths
<1>4. Pow2[3 * ByteBits] \in Nat \ {0} /\ Pow2[4 * ByteBits] \in Nat \ {0}
  <2>1. 3 * ByteBits \in Nat /\ 4 * ByteBits \in Nat
    BY <1>3
  <2> QED
    BY <2>1, Pow2Type
<1>5. 0 % Pow2[3 * ByteBits] = 0 /\ 0 * Pow2[3 * ByteBits] = 0 /\ 3 * ByteBits - 0 = 3 * ByteBits
  BY <1>3, <1>4
<1>6. BitsHeld(<<>>, NoBits)
  <2>1. NoBits.put_bits = 0 /\ NoBits.put_buffer = 0
    BY DEF NoBits
  <2>2. 0 \in 0..(3 * ByteBits - 1) /\ 0 \in 0..(Pow2[4 * ByteBits] - 1) /\ 0 - 0 = 0
    BY <1>3, <1>4
  <2>3. Value(<<>>) = 0
    BY ValueAppend
  <2> QED
    BY <1>1, <1>2, <1>3, <1>5, <2>1, <2>2, <2>3 DEF BitsHeld
<1>7. StuffedBytes(BytesOf(SubSeq(<<>>, 1, 0 - 0))) = <<>>
  <2>1. SubSeq(<<>>, 1, 0 - 0) = <<>>
    OBVIOUS
  <2>2. 0 \div ByteBits = 0
    BY <1>3
  <2>3. BytesOf(<<>>) = <<>>
    BY <1>1, <2>2 DEF BytesOf
  <2> QED
    BY <2>1, <2>3, StuffedAppend
<1>8. ASSUME NEW before \in Seq(Memory), NEW b, NEW out,
             BitsHeld(<<>>, b)
      PROVE  b.put_bits = 0 /\ (OutHeld(<<>>, before, b, out) <=> out = before)
  <2>1. b.put_bits = 0
    BY <1>1, <1>8, Widths DEF BitsHeld
  <2> QED
    BY <1>1, <1>7, <2>1 DEF OutHeld
<1>9. \A before \in Seq(Memory) : OutHeld(<<>>, before, NoBits, before)
  BY <1>6, <1>8
<1> QED
  BY <1>1, <1>6, <1>8, <1>9

-----------------------------------------------------------------------------
(* The restart intervals that are complete.                                *)

\* The bytes of the interval that is the s-th, with the marker behind it.
IntervalBytes(s, interval) ==
  StuffedBytes(BytesOf(PaddedBits(IntervalBits(interval))))
    \o <<AllOnes, 1 + ((s - 1) % RstMarkers)>>

\* Those of the intervals that are complete.
Complete(segs) ==
  FlattenSeq([s \in 1..(Len(segs) - 1) |-> IntervalBytes(s, segs[s])])

Intervals == Seq(Mcus)

\* The bytes of the intervals that are complete.
LEMMA CompleteIs == CompleteIntervals = Complete(segments)
  BY DEF CompleteIntervals, Complete, IntervalBytes

\* An interval is bytes, ...
LEMMA IntervalBytesType ==
  \A s \in Nat \ {0}, interval \in Intervals : IntervalBytes(s, interval) \in Seq(Memory)
<1> TAKE s \in Nat \ {0}, interval \in Intervals
<1>1. StuffedBytes(BytesOf(PaddedBits(IntervalBits(interval)))) \in Seq(Memory)
  BY IntervalBitsAppend, OutType DEF Intervals
<1>2. AllOnes \in Memory /\ 1 + ((s - 1) % RstMarkers) \in Memory
  BY Widths DEF Memory
<1>3. \A x \in Memory, y \in Memory : <<x, y>> \in Seq(Memory)
  OBVIOUS
<1> QED
  BY <1>1, <1>2, <1>3 DEF IntervalBytes

\* ... and so are those that are complete, which grow by the last when one is begun.
LEMMA CompleteRight ==
  ASSUME NEW segs \in Seq(Intervals), Len(segs) >= 1
  PROVE  /\ Complete(segs) \in Seq(Memory)
         /\ \A interval \in Intervals :
              /\ Complete(Append(segs, interval))
                   = Complete(segs) \o IntervalBytes(Len(segs), segs[Len(segs)])
              /\ Complete([segs EXCEPT ![Len(segs)] = interval]) = Complete(segs)
         /\ Len(segs) = 1 => Complete(segs) = <<>>
<1> DEFINE n == Len(segs)
           Pieces_(ss) == [s \in 1..(Len(ss) - 1) |-> IntervalBytes(s, ss[s])]
<1>0. Pieces(Memory) = Seq(Memory)
  BY DEF Pieces
<1>1. n \in Nat /\ n >= 1 /\ \A s \in 1..n : segs[s] \in Intervals
  OBVIOUS
<1>2. \A s \in 1..n : IntervalBytes(s, segs[s]) \in Pieces(Memory)
  BY <1>0, <1>1, IntervalBytesType
<1>3. Pieces_(segs) \in Seq(Pieces(Memory)) /\ Complete(segs) = FlattenSeq(Pieces_(segs))
  BY <1>1, <1>2 DEF Complete
<1>4. ASSUME NEW interval \in Intervals
      PROVE  /\ Complete(Append(segs, interval))
                   = Complete(segs) \o IntervalBytes(n, segs[n])
             /\ Complete([segs EXCEPT ![n] = interval]) = Complete(segs)
  <2> DEFINE a == Append(segs, interval)
             x == [segs EXCEPT ![n] = interval]
  <2>1. Len(a) = n + 1 /\ \A s \in 1..n : a[s] = segs[s]
    BY <1>1
  <2>2. Len(x) = n /\ \A s \in 1..(n - 1) : x[s] = segs[s]
    BY <1>1
  <2> HIDE DEF a, x
  <2>3. Pieces_(a) = [s \in 1..n |-> IntervalBytes(s, segs[s])]
    BY <1>1, <2>1
  <2>4. Pieces_(x) = Pieces_(segs)
    BY <1>1, <2>2
  <2>5. Pieces_(a) = Append(Pieces_(segs), IntervalBytes(n, segs[n]))
    BY <1>1, <2>3
  <2> HIDE DEF Pieces_
  <2>6. FlattenSeq(Pieces_(a)) = FlattenSeq(Pieces_(segs)) \o IntervalBytes(n, segs[n])
    <3> DEFINE last == IntervalBytes(n, segs[n])
    <3>1. last \in Pieces(Memory)
      BY <1>1, <1>2
    <3> HIDE DEF last, n
    <3>2. FlattenSeq(Append(Pieces_(segs), last)) = FlattenSeq(Pieces_(segs)) \o last
      BY <1>3, <3>1, FlattenAppend
    <3> QED
      BY <2>5, <3>2 DEF last
  <2>7. Complete(a) = FlattenSeq(Pieces_(a)) /\ Complete(x) = FlattenSeq(Pieces_(x))
    BY DEF Complete, Pieces_
  <2> QED
    BY <1>3, <2>4, <2>6, <2>7 DEF a, x
<1>5. n = 1 => Complete(segs) = <<>>
  <2> SUFFICES ASSUME n = 1 PROVE Complete(segs) = <<>>
    OBVIOUS
  <2>1. Pieces_(segs) = <<>>
    OBVIOUS
  <2> QED
    BY <1>3, <2>1, FlattenAppend
<1>6. Complete(segs) \in Seq(Memory)
  BY <1>0, <1>3, FlattenAppend
<1> QED
  BY <1>4, <1>5, <1>6

-----------------------------------------------------------------------------
(* The stream while an MCU is written, when all of its operations but k are *)
(* done.                                                                   *)

\* What has left the buffer and the first n bytes in it.
OutOf(left, bytes, n) == left \o [i \in 1..n |-> bytes[i - 1]]

\* All of these bits are in put_buffer or out.
Holds(bits, before, b, out) == BitsHeld(bits, b) /\ OutHeld(bits, before, b, out)

\* The bytes when an interval has ended, without its marker.
Ended(complete, old) == complete \o StuffedBytes(BytesOf(PaddedBits(old)))

\* The last operation but k - 1.
OpLeft(k, codes, byte) ==
  IF k <= Len(codes)
  THEN Code(codes[Len(codes) - k + 1].code, codes[Len(codes) - k + 1].size)
  ELSE IF k = Len(codes) + 4 THEN Code(AllOnes \div 2, ByteBits - 1)
  ELSE IF k = Len(codes) + 3 THEN Reset
  ELSE IF k = Len(codes) + 2 THEN Byte(AllOnes)
  ELSE Byte(byte)

\* The bits since the last marker, ...
BitsAt(k, codes, marker, old) ==
  IF k <= Len(codes)
  THEN (IF marker THEN <<>> ELSE old) \o McuBits(SubSeq(codes, 1, Len(codes) - k))
  ELSE IF k = Len(codes) + 4 THEN old
  ELSE IF k = Len(codes) + 3 THEN old \o Ones(ByteBits - 1)
  ELSE <<>>

\* ... and the bytes up to it.
BeforeAt(k, codes, marker, byte, complete, old) ==
  IF k <= Len(codes)
  THEN IF marker THEN Ended(complete, old) \o <<AllOnes, byte>> ELSE complete
  ELSE IF k >= Len(codes) + 3 THEN complete
  ELSE IF k = Len(codes) + 2 THEN Ended(complete, old)
  ELSE Ended(complete, old) \o <<AllOnes>>

\* One or two more elements of a sequence.
LEMMA OneByte ==
  ASSUME NEW E, NEW s \in Seq(E), NEW x \in E, NEW y \in E
  PROVE  /\ s \o <<x>> \in Seq(E) /\ s \o <<x>> = Append(s, x)
         /\ s \o <<x, y>> = (s \o <<x>>) \o <<y>> /\ s \o <<x, y>> \in Seq(E)
<1>1. s \o <<x>> \in Seq(E) /\ s \o <<x>> = Append(s, x)
  OBVIOUS
<1>2. s \o <<x, y>> = (s \o <<x>>) \o <<y>>
  <2>1. <<x>> \in Seq(E) /\ <<y>> \in Seq(E)
    OBVIOUS
  <2>2. <<x, y>> = <<x>> \o <<y>>
    <3> DEFINE p == <<x, y>>
               q == <<x>> \o <<y>>
    <3>1. p \in Seq(E) /\ Len(p) = 2 /\ p[1] = x /\ p[2] = y
      OBVIOUS
    <3>2. q \in Seq(E) /\ Len(q) = 2 /\ q[1] = x /\ q[2] = y
      OBVIOUS
    <3> HIDE DEF p, q
    <3>3. \A i \in 1..Len(p) : p[i] = q[i]
      BY <3>1, <3>2
    <3>4. p = q
      BY <3>1, <3>2, <3>3, SeqEqual
    <3> QED
      BY <3>4 DEF p, q
  <2> QED
    BY <2>1, <2>2, ConcatAssociative
<1>3. s \o <<x, y>> \in Seq(E)
  OBVIOUS
<1> QED
  BY <1>1, <1>2, <1>3

\* The bits and bytes of the operations that are done.
LEMMA AtType ==
  ASSUME NEW codes \in Mcus, NEW marker \in BOOLEAN, NEW old \in Bits,
         NEW complete \in Seq(Memory), NEW byte \in Int, NEW k \in Nat
  PROVE  /\ BitsAt(k, codes, marker, old) \in Bits
         /\ BeforeAt(k, codes, marker, byte, complete, old) \in Seq(Memory)
         /\ Ended(complete, old) \in Seq(Memory)
<1>1. Ended(complete, old) \in Seq(Memory)
  BY OutType DEF Ended
<1>2. AllOnes \in Memory /\ byte \in Memory
  BY Widths DEF Memory
<1>3. BeforeAt(k, codes, marker, byte, complete, old) \in Seq(Memory)
  BY <1>1, <1>2, OneByte DEF BeforeAt
<1>4. <<>> \in Bits /\ \A s \in Bits, t \in Bits : s \o t \in Bits
  BY DEF Bits
<1>5. Ones(ByteBits - 1) \in Bits
  BY OnesRight, Widths
<1>6. k <= Len(codes) => McuBits(SubSeq(codes, 1, Len(codes) - k)) \in Bits
  <2> SUFFICES ASSUME k <= Len(codes)
      PROVE  McuBits(SubSeq(codes, 1, Len(codes) - k)) \in Bits
    OBVIOUS
  <2>1. SubSeq(codes, 1, Len(codes) - k) \in Seq(Codes)
    BY DEF Mcus
  <2> QED
    BY <2>1, McuBitsAppend
<1>7. BitsAt(k, codes, marker, old) \in Bits
  BY <1>4, <1>5, <1>6 DEF BitsAt
<1> QED
  BY <1>1, <1>3, <1>7

\* Bits one behind the other.
LEMMA BitsAssociative ==
  ASSUME NEW a \in Bits, NEW b \in Bits, NEW c \in Bits
  PROVE  a \o (b \o c) = (a \o b) \o c
<1> DEFINE bit == {0, 1}
<1>1. a \in Seq(bit) /\ b \in Seq(bit) /\ c \in Seq(bit)
  BY DEF Bits
<1> HIDE DEF bit
<1> QED
  BY <1>1, ConcatAssociative, SMTT(30)

\* A code of the MCU: its bits, ...
LEMMA AtCode ==
  ASSUME NEW codes \in Mcus, NEW m \in BOOLEAN, NEW old \in Bits,
         NEW k \in 1..Len(codes), NEW j \in Nat, j + 1 = k,
         NEW i \in 1..Len(codes), i + k = Len(codes) + 1
  PROVE  BitsAt(j, codes, m, old) = BitsAt(k, codes, m, old) \o CodeBits(codes[i])
<1> DEFINE n == Len(codes) - k
           c == codes[n + 1]
           start == IF m THEN <<>> ELSE old
<1>1. /\ Len(codes) \in Nat /\ n \in Nat /\ n + 1 \in 1..Len(codes) /\ c \in Codes
      /\ codes \in Seq(Codes)
  BY DEF Mcus
<1>2. Len(codes) - j = n + 1 /\ j <= Len(codes) /\ k <= Len(codes)
  BY <1>1
<1> HIDE DEF n
<1>3. SubSeq(codes, 1, n + 1) = Append(SubSeq(codes, 1, n), c)
      /\ SubSeq(codes, 1, n) \in Seq(Codes)
  BY <1>1
<1>4. McuBits(SubSeq(codes, 1, n + 1)) = McuBits(SubSeq(codes, 1, n)) \o CodeBits(c)
  BY <1>1, <1>3, McuBitsAppend
<1>5. start \in Bits
  BY DEF Bits
<1>6. McuBits(SubSeq(codes, 1, n)) \in Bits /\ CodeBits(c) \in Bits
  <2>1. McuBits(SubSeq(codes, 1, n)) \in Bits
    BY <1>3, McuBitsAppend
  <2>2. c.size \in Nat /\ c.code \in Int
    BY <1>1, Widths
  <2>3. CodeBits(c) \in Bits
    BY <2>2, CodeBitsRight
  <2> QED
    BY <2>1, <2>3
<1> HIDE DEF start, c
<1>7. start \o McuBits(SubSeq(codes, 1, n + 1))
        = (start \o McuBits(SubSeq(codes, 1, n))) \o CodeBits(c)
  <2> DEFINE u == McuBits(SubSeq(codes, 1, n))
             v == CodeBits(c)
  <2>1. u \in Bits /\ v \in Bits
    BY <1>6
  <2> HIDE DEF u, v
  <2>2. start \o (u \o v) = (start \o u) \o v
    BY <1>5, <2>1, BitsAssociative
  <2> QED
    BY <1>4, <2>2 DEF u, v
<1>8. BitsAt(j, codes, m, old) = start \o McuBits(SubSeq(codes, 1, n + 1))
  BY <1>2 DEF BitsAt, start
<1>9. BitsAt(k, codes, m, old) = start \o McuBits(SubSeq(codes, 1, n))
  BY <1>2 DEF BitsAt, start, n
<1>10. codes[i] = c
  <2>1. i = n + 1
    BY <1>1 DEF n
  <2> QED
    BY <2>1 DEF c
<1> QED
  BY <1>1, <1>7, <1>8, <1>9, <1>10

\* ... and no byte before it.
LEMMA BeforeCode ==
  ASSUME NEW codes \in Mcus, NEW m, NEW byte, NEW complete, NEW old,
         NEW k \in 1..Len(codes), NEW j \in Nat, j + 1 = k
  PROVE  BeforeAt(j, codes, m, byte, complete, old)
           = BeforeAt(k, codes, m, byte, complete, old)
<1>1. k <= Len(codes) /\ j <= Len(codes)
  BY DEF Mcus
<1> QED
  BY <1>1 DEF BeforeAt

\* The operations of a marker: the bits, ...
LEMMA AtMarker ==
  ASSUME NEW codes \in Mcus, NEW m \in BOOLEAN, NEW old \in Bits, NEW k \in Nat
  PROVE  /\ k = Len(codes) + 4 => BitsAt(k, codes, m, old) = old
         /\ k = Len(codes) + 3 => BitsAt(k, codes, m, old) = old \o Ones(ByteBits - 1)
         /\ k = Len(codes) + 2 => BitsAt(k, codes, m, old) = <<>>
         /\ k = Len(codes) + 1 => BitsAt(k, codes, m, old) = <<>>
         /\ k = Len(codes) => BitsAt(k, codes, m, old) = IF m THEN <<>> ELSE old
<1> DEFINE c == Len(codes)
<1>1. c \in Nat
  BY DEF Mcus
<1>2. CASE k > c
  <2>1. ~(k <= c) /\ k # c
    BY <1>1, <1>2
  <2>2. k = c + 4 => BitsAt(k, codes, m, old) = old
    BY <2>1 DEF BitsAt
  <2>3. k = c + 3 => BitsAt(k, codes, m, old) = old \o Ones(ByteBits - 1)
    <3>1. k = c + 3 => k # c + 4
      BY <1>1
    <3> QED
      BY <2>1, <3>1 DEF BitsAt
  <2>4. k = c + 2 \/ k = c + 1 => BitsAt(k, codes, m, old) = <<>>
    <3>1. k = c + 2 \/ k = c + 1 => k # c + 4 /\ k # c + 3
      BY <1>1
    <3> QED
      BY <2>1, <3>1 DEF BitsAt
  <2> HIDE DEF c
  <2> QED
    BY <2>1, <2>2, <2>3, <2>4 DEF c
<1>3. CASE k = c
  <2>1. /\ k <= c /\ k # c + 4 /\ k # c + 3 /\ k # c + 2 /\ k # c + 1
    BY <1>1, <1>3
  <2>2. McuBits(SubSeq(codes, 1, c - k)) = <<>>
    <3>1. c - k = 0
      BY <1>1, <1>3
    <3> HIDE DEF c
    <3>2. SubSeq(codes, 1, 0) = <<>>
      OBVIOUS
    <3> QED
      BY <3>1, <3>2, McuBitsAppend
  <2>3. <<>> \o <<>> = <<>> /\ old \o <<>> = old
    BY DEF Bits
  <2>4. BitsAt(k, codes, m, old) = (IF m THEN <<>> ELSE old) \o McuBits(SubSeq(codes, 1, c - k))
    BY <2>1 DEF BitsAt
  <2> HIDE DEF c
  <2> QED
    BY <2>1, <2>2, <2>3, <2>4 DEF c
<1>4. CASE k < c
  <2>1. /\ k # c /\ k # c + 4 /\ k # c + 3 /\ k # c + 2 /\ k # c + 1
    BY <1>1, <1>4
  <2> QED
    BY <2>1
<1> QED
  BY <1>1, <1>2, <1>3, <1>4

\* ... and the bytes.
LEMMA BeforeMarker ==
  ASSUME NEW codes \in Mcus, NEW m \in BOOLEAN, NEW old \in Bits,
         NEW complete \in Seq(Memory), NEW byte \in Int, NEW k \in Nat
  PROVE  /\ k = Len(codes) + 4 => BeforeAt(k, codes, m, byte, complete, old) = complete
         /\ k = Len(codes) + 3 => BeforeAt(k, codes, m, byte, complete, old) = complete
         /\ k = Len(codes) + 2 =>
              BeforeAt(k, codes, m, byte, complete, old) = Ended(complete, old)
         /\ k = Len(codes) + 1 =>
              BeforeAt(k, codes, m, byte, complete, old)
                = Append(Ended(complete, old), AllOnes)
         /\ k = Len(codes) =>
              BeforeAt(k, codes, m, byte, complete, old)
                = IF m THEN Append(Append(Ended(complete, old), AllOnes), byte)
                  ELSE complete
<1> DEFINE c == Len(codes)
           e == Ended(complete, old)
<1>1. c \in Nat
  BY DEF Mcus
<1>2. e \in Seq(Memory) /\ AllOnes \in Memory /\ byte \in Memory
  <2>1. e \in Seq(Memory)
    BY OutType DEF Ended
  <2> QED
    BY <2>1, Widths DEF Memory
<1>3. /\ e \o <<AllOnes>> = Append(e, AllOnes)
      /\ e \o <<AllOnes, byte>> = Append(Append(e, AllOnes), byte)
  <2> HIDE DEF e
  <2>1. e \o <<AllOnes>> \in Seq(Memory) /\ e \o <<AllOnes>> = Append(e, AllOnes)
    BY <1>2, OneByte
  <2>2. (e \o <<AllOnes>>) \o <<byte>> = Append(e \o <<AllOnes>>, byte)
    BY <1>2, <2>1, OneByte
  <2>3. e \o <<AllOnes, byte>> = (e \o <<AllOnes>>) \o <<byte>>
    BY <1>2, OneByte
  <2> QED
    BY <2>1, <2>2, <2>3
<1>4. CASE k > c
  <2>1. ~(k <= c) /\ k # c
    BY <1>1, <1>4
  <2>2. k = c + 4 \/ k = c + 3 => BeforeAt(k, codes, m, byte, complete, old) = complete
    <3>1. k = c + 4 \/ k = c + 3 => k >= c + 3
      BY <1>1
    <3> QED
      BY <2>1, <3>1 DEF BeforeAt
  <2>3. k = c + 2 => BeforeAt(k, codes, m, byte, complete, old) = e
    <3>1. k = c + 2 => ~(k >= c + 3)
      BY <1>1
    <3> QED
      BY <2>1, <3>1 DEF BeforeAt
  <2>4. k = c + 1 => BeforeAt(k, codes, m, byte, complete, old) = e \o <<AllOnes>>
    <3>1. k = c + 1 => ~(k >= c + 3) /\ k # c + 2
      BY <1>1
    <3> QED
      BY <2>1, <3>1 DEF BeforeAt
  <2> HIDE DEF c, e
  <2> QED
    BY <1>3, <2>1, <2>2, <2>3, <2>4 DEF c, e
<1>5. CASE k = c
  <2>1. /\ k <= c /\ k # c + 4 /\ k # c + 3 /\ k # c + 2 /\ k # c + 1
    BY <1>1, <1>5
  <2>2. BeforeAt(k, codes, m, byte, complete, old)
          = IF m THEN e \o <<AllOnes, byte>> ELSE complete
    BY <2>1 DEF BeforeAt
  <2> HIDE DEF c, e
  <2> QED
    BY <1>3, <2>1, <2>2 DEF c, e
<1>6. CASE k < c
  <2>1. /\ k # c /\ k # c + 4 /\ k # c + 3 /\ k # c + 2 /\ k # c + 1
    BY <1>1, <1>6
  <2> QED
    BY <2>1
<1> QED
  BY <1>1, <1>4, <1>5, <1>6

\* What is out and in the buffer grows by the byte stored behind it.
LEMMA OutOfRight ==
  ASSUME NEW left \in Seq(Memory), NEW n \in Nat, NEW bytes,
         \A i \in 0..(n - 1) : bytes[i] \in Memory
  PROVE  /\ OutOf(left, bytes, n) \in Seq(Memory)
         /\ \A other : (\A i \in 0..(n - 1) : other[i] = bytes[i]) =>
              OutOf(left, other, n) = OutOf(left, bytes, n)
         /\ \A other : (\A i \in 0..(n - 1) : other[i] = bytes[i]) =>
              (other[n] \in Memory =>
                 OutOf(left, other, n + 1) = Append(OutOf(left, bytes, n), other[n]))
<1> DEFINE s == [i \in 1..n |-> bytes[i - 1]]
<1>1. s \in Seq(Memory) /\ Len(s) = n
  OBVIOUS
<1>3. OutOf(left, bytes, n) = left \o s
  BY DEF OutOf
<1>4. ASSUME NEW other, \A i \in 0..(n - 1) : other[i] = bytes[i]
      PROVE  /\ OutOf(left, other, n) = OutOf(left, bytes, n)
             /\ other[n] \in Memory =>
                  OutOf(left, other, n + 1) = Append(OutOf(left, bytes, n), other[n])
  <2>1. [i \in 1..n |-> other[i - 1]] = s
    BY <1>4
  <2>2. ASSUME other[n] \in Memory
        PROVE  OutOf(left, other, n + 1) = Append(OutOf(left, bytes, n), other[n])
    <3>1. [i \in 1..(n + 1) |-> other[i - 1]] = Append(s, other[n])
      BY <1>1, <1>4
    <3> HIDE DEF s
    <3>2. left \o Append(s, other[n]) = Append(left \o s, other[n])
      BY <1>1, <2>2
    <3> QED
      BY <1>3, <3>1, <3>2 DEF OutOf
  <2> QED
    BY <1>3, <2>1, <2>2 DEF OutOf
<1>5. OutOf(left, bytes, n) \in Seq(Memory)
  <2> HIDE DEF s
  <2> QED
    BY <1>1, <1>3
<1> QED
  BY <1>4, <1>5

-----------------------------------------------------------------------------
(* The operations of an MCU.                                               *)

\* The last n operations.
TodoOf(n, codes, byte) == [i \in 1..n |-> OpLeft(n - i + 1, codes, byte)]

\* Done from the front.
LEMMA TodoRight ==
  ASSUME NEW codes, NEW byte, NEW n \in Nat
  PROVE  /\ Len(TodoOf(n, codes, byte)) = n
         /\ TodoOf(n, codes, byte) = <<>> <=> n = 0
         /\ n > 0 => /\ Head(TodoOf(n, codes, byte)) = OpLeft(n, codes, byte)
                     /\ Tail(TodoOf(n, codes, byte)) = TodoOf(n - 1, codes, byte)
<1> DEFINE E == {OpLeft(j, codes, byte) : j \in 1..n}
           s == TodoOf(n, codes, byte)
<1>1. s \in Seq(E) /\ Len(s) = n /\ \A i \in 1..n : s[i] = OpLeft(n - i + 1, codes, byte)
  <2>1. \A i \in 1..n : n - i + 1 \in 1..n
    OBVIOUS
  <2>2. \A i \in 1..n : OpLeft(n - i + 1, codes, byte) \in E
    BY <2>1
  <2> HIDE DEF E
  <2>3. s = [i \in 1..n |-> OpLeft(n - i + 1, codes, byte)]
    BY DEF TodoOf
  <2> HIDE DEF s
  <2> QED
    BY <2>2, <2>3
<1> HIDE DEF E, s
<1>2. s = <<>> <=> n = 0
  BY <1>1
<1>3. ASSUME n > 0
      PROVE  Head(s) = OpLeft(n, codes, byte) /\ Tail(s) = TodoOf(n - 1, codes, byte)
  <2>1. n \in Nat /\ 1 \in 1..n /\ n - 1 + 1 = n
    BY <1>3
  <2>2. Head(s) = OpLeft(n, codes, byte)
    BY <1>1, <2>1
  <2>3. /\ Tail(s) \in Seq(E) /\ Len(Tail(s)) = n - 1
        /\ \A i \in 1..(n - 1) : Tail(s)[i] = s[i + 1]
    BY <1>1, <1>3
  <2>4. \A i \in 1..(n - 1) : s[i + 1] = OpLeft((n - 1) - i + 1, codes, byte)
    <3> SUFFICES ASSUME NEW i \in 1..(n - 1)
        PROVE  s[i + 1] = OpLeft((n - 1) - i + 1, codes, byte)
      OBVIOUS
    <3>1. i + 1 \in 1..n /\ n - (i + 1) + 1 = (n - 1) - i + 1
      BY <2>1
    <3> QED
      BY <1>1, <3>1
  <2>5. TodoOf(n - 1, codes, byte) = [i \in 1..(n - 1) |-> OpLeft((n - 1) - i + 1, codes, byte)]
    BY DEF TodoOf
  <2>6. Tail(s) = TodoOf(n - 1, codes, byte)
    <3> DEFINE t == Tail(s)
               u == TodoOf(n - 1, codes, byte)
    <3>1. \A i \in 1..(n - 1) : t[i] = OpLeft((n - 1) - i + 1, codes, byte)
      BY <2>3, <2>4
    <3>2. t \in Seq(E) /\ Len(t) = n - 1
      BY <2>3
    <3>3. t = [i \in 1..(n - 1) |-> t[i]]
      <4> HIDE DEF t
      <4> QED
        BY <2>1, <3>2
    <3> HIDE DEF t, u
    <3>4. u = [i \in 1..(n - 1) |-> OpLeft((n - 1) - i + 1, codes, byte)]
      BY <2>5 DEF u
    <3>5. t = u
      BY <3>1, <3>3, <3>4
    <3> QED
      BY <3>5 DEF t, u
  <2> QED
    BY <2>2, <2>6
<1> QED
  BY <1>1, <1>2, <1>3 DEF s

\* Which operation is left when k are.
LEMMA OpKind ==
  ASSUME NEW codes \in Mcus, NEW byte, NEW k \in Nat, k # 0, k <= Len(codes) + 4
  PROVE  /\ OpLeft(k, codes, byte).op = "code"
              <=> k \in 1..Len(codes) \/ k = Len(codes) + 4
         /\ OpLeft(k, codes, byte).op = "reset" <=> k = Len(codes) + 3
         /\ OpLeft(k, codes, byte).op = "byte"
              <=> k = Len(codes) + 2 \/ k = Len(codes) + 1
         /\ k = Len(codes) + 2 => OpLeft(k, codes, byte).val = AllOnes
         /\ k = Len(codes) + 1 => OpLeft(k, codes, byte).val = byte
<1>1. Len(codes) \in Nat
  BY DEF Mcus
<1>2. CASE k <= Len(codes)
  BY <1>1, <1>2 DEF OpLeft, Code
<1>3. CASE k = Len(codes) + 4
  BY <1>1, <1>3 DEF OpLeft, Code
<1>4. CASE k = Len(codes) + 3
  BY <1>1, <1>4 DEF OpLeft, Reset
<1>5. CASE k = Len(codes) + 2
  BY <1>1, <1>5 DEF OpLeft, Byte
<1>6. CASE k = Len(codes) + 1
  BY <1>1, <1>6 DEF OpLeft, Byte
<1> QED
  BY <1>1, <1>2, <1>3, <1>4, <1>5, <1>6

\* What an MCU, one behind a marker and the end of the image write.
LEMMA TodoStarts ==
  ASSUME NEW codes \in Mcus, NEW byte
  PROVE  LET rest == [i \in DOMAIN codes |-> Code(codes[i].code, codes[i].size)]
             first == Flush \o <<Byte(AllOnes), Byte(byte)>>
         IN  /\ <<>> \o rest = TodoOf(Len(codes), codes, byte)
             /\ first \o rest = TodoOf(Len(codes) + 4, codes, byte)
             /\ codes = <<>> => first = TodoOf(4, codes, byte)
<1> DEFINE rest == [i \in DOMAIN codes |-> Code(codes[i].code, codes[i].size)]
           first == Flush \o <<Byte(AllOnes), Byte(byte)>>
           c == Len(codes)
           op == [k \in 1..(c + 4) |-> OpLeft(k, codes, byte)]
           E == {op[k] : k \in 1..(c + 4)}
<1>1. c \in Nat /\ DOMAIN codes = 1..c
  BY DEF Mcus
<1>2. \A k \in 1..c : op[k] = Code(codes[c - k + 1].code, codes[c - k + 1].size)
  BY <1>1 DEF OpLeft
<1>3. op[c + 4] = Code(AllOnes \div 2, ByteBits - 1)
  BY <1>1 DEF OpLeft
<1>4. op[c + 3] = Reset
  BY <1>1 DEF OpLeft
<1>5. op[c + 2] = Byte(AllOnes)
  BY <1>1 DEF OpLeft
<1>6. op[c + 1] = Byte(byte)
  BY <1>1 DEF OpLeft
<1>7. \A k \in 1..(c + 4) : op[k] \in E
  OBVIOUS
<1>8. \A n \in 0..(c + 4) : /\ TodoOf(n, codes, byte) \in Seq(E)
                            /\ Len(TodoOf(n, codes, byte)) = n
                            /\ \A i \in 1..n : TodoOf(n, codes, byte)[i] = op[n - i + 1]
  <2> SUFFICES ASSUME NEW n \in 0..(c + 4)
      PROVE  /\ TodoOf(n, codes, byte) \in Seq(E)
             /\ Len(TodoOf(n, codes, byte)) = n
             /\ \A i \in 1..n : TodoOf(n, codes, byte)[i] = op[n - i + 1]
    OBVIOUS
  <2>1. \A i \in 1..n : n - i + 1 \in 1..(c + 4)
    BY <1>1
  <2>2. \A i \in 1..n : OpLeft(n - i + 1, codes, byte) = op[n - i + 1]
    BY <2>1
  <2> HIDE DEF op
  <2>3. \A i \in 1..n : OpLeft(n - i + 1, codes, byte) \in E
    BY <1>7, <2>1, <2>2
  <2> HIDE DEF E
  <2> QED
    BY <1>1, <2>2, <2>3 DEF TodoOf
<1> HIDE DEF op
<1>9. rest \in Seq(E) /\ Len(rest) = c /\ \A i \in 1..c : rest[i] = op[c - i + 1]
  <2>1. \A i \in 1..c : rest[i] = op[c - i + 1]
    <3> SUFFICES ASSUME NEW i \in 1..c
        PROVE  rest[i] = op[c - i + 1]
      OBVIOUS
    <3>1. c - i + 1 \in 1..c /\ c - (c - i + 1) + 1 = i
      BY <1>1
    <3>2. rest[i] = Code(codes[i].code, codes[i].size)
      BY <1>1
    <3> HIDE DEF rest
    <3> QED
      BY <1>2, <3>1, <3>2
  <2>2. \A i \in 1..c : c - i + 1 \in 1..(c + 4)
    BY <1>1
  <2>3. \A i \in 1..c : rest[i] \in E
    <3> HIDE DEF rest, E
    <3> QED
      BY <1>7, <2>1, <2>2
  <2>4. rest \in [1..c -> E]
    <3> HIDE DEF E
    <3> QED
      BY <1>1, <2>3
  <2> HIDE DEF rest, E
  <2> QED
    BY <1>1, <2>1, <2>4
<1>10. first \in Seq(E) /\ Len(first) = 4 /\ \A i \in 1..4 : first[i] = op[c + 5 - i]
  <2>1. /\ c + 4 \in 1..(c + 4) /\ c + 3 \in 1..(c + 4)
        /\ c + 2 \in 1..(c + 4) /\ c + 1 \in 1..(c + 4)
    BY <1>1
  <2>2. op[c + 4] \in E /\ op[c + 3] \in E /\ op[c + 2] \in E /\ op[c + 1] \in E
    BY <1>7, <2>1
  <2>3. first = <<op[c + 4], op[c + 3]>> \o <<op[c + 2], op[c + 1]>>
    BY <1>3, <1>4, <1>5, <1>6 DEF Flush
  <2> HIDE DEF first, E
  <2>4. /\ first \in Seq(E) /\ Len(first) = 4
        /\ first[1] = op[c + 4] /\ first[2] = op[c + 3]
        /\ first[3] = op[c + 2] /\ first[4] = op[c + 1]
    BY <2>2, <2>3
  <2>5. /\ c + 4 = c + 5 - 1 /\ c + 3 = c + 5 - 2 /\ c + 2 = c + 5 - 3 /\ c + 1 = c + 5 - 4
        /\ \A i \in 1..4 : i = 1 \/ i = 2 \/ i = 3 \/ i = 4
    BY <1>1
  <2> QED
    BY <2>4, <2>5
<1> HIDE DEF rest, first, E, c
<1>11. <<>> \o rest = TodoOf(c, codes, byte)
  <2>1. <<>> \o rest = rest
    BY <1>9
  <2>2. c \in 0..(c + 4)
    BY <1>1
  <2>3. TodoOf(c, codes, byte) \in Seq(E) /\ Len(TodoOf(c, codes, byte)) = c
        /\ \A i \in 1..c : TodoOf(c, codes, byte)[i] = op[c - i + 1]
    BY <1>8, <2>2
  <2>4. \A i \in 1..Len(rest) : rest[i] = TodoOf(c, codes, byte)[i]
    BY <1>9, <2>3
  <2> QED
    BY <1>9, <2>1, <2>3, <2>4, SeqEqual
<1>12. first \o rest = TodoOf(c + 4, codes, byte)
  <2>1. first \o rest \in Seq(E) /\ Len(first \o rest) = c + 4
        /\ \A i \in 1..(c + 4) :
             (first \o rest)[i] = IF i <= 4 THEN first[i] ELSE rest[i - 4]
    <3>1. first \in Seq(E) /\ rest \in Seq(E) /\ Len(first) = 4 /\ Len(rest) = c
      BY <1>9, <1>10
    <3> DEFINE n == 4
    <3>2. Len(first) = n
      BY <3>1
    <3> HIDE DEF n
    <3>3. /\ first \o rest \in Seq(E) /\ Len(first \o rest) = n + c
          /\ \A i \in 1..(n + c) :
               (first \o rest)[i] = IF i <= n THEN first[i] ELSE rest[i - n]
      BY <3>1, <3>2, ConcatType
    <3>4. n = 4 /\ n + c = c + 4
      BY <1>1 DEF n
    <3> QED
      BY <3>3, <3>4
  <2>2. c + 4 \in 0..(c + 4)
    BY <1>1
  <2>3. /\ TodoOf(c + 4, codes, byte) \in Seq(E) /\ Len(TodoOf(c + 4, codes, byte)) = c + 4
        /\ \A i \in 1..(c + 4) : TodoOf(c + 4, codes, byte)[i] = op[(c + 4) - i + 1]
    BY <1>8, <2>2
  <2>4. \A i \in 1..(c + 4) : (first \o rest)[i] = op[(c + 4) - i + 1]
    <3> SUFFICES ASSUME NEW i \in 1..(c + 4)
        PROVE  (first \o rest)[i] = op[(c + 4) - i + 1]
      OBVIOUS
    <3>1. CASE i <= 4
      <4>1. i \in 1..4 /\ c + 5 - i = (c + 4) - i + 1
        BY <1>1, <3>1
      <4>2. first[i] = op[(c + 4) - i + 1]
        BY <1>10, <4>1
      <4> QED
        BY <2>1, <3>1, <4>2
    <3>2. CASE ~(i <= 4)
      <4>1. i - 4 \in 1..c /\ c - (i - 4) + 1 = (c + 4) - i + 1
        BY <1>1, <3>2
      <4>2. rest[i - 4] = op[(c + 4) - i + 1]
        BY <1>9, <4>1
      <4> QED
        BY <2>1, <3>2, <4>2
    <3> QED
      BY <3>1, <3>2
  <2>5. \A i \in 1..Len(first \o rest) : (first \o rest)[i] = TodoOf(c + 4, codes, byte)[i]
    BY <2>1, <2>3, <2>4
  <2> QED
    BY <2>1, <2>3, <2>5, SeqEqual
<1>13. ASSUME codes = <<>>
       PROVE  first = TodoOf(4, codes, byte)
  <2>1. c = 0
    BY <1>13 DEF c
  <2>2. rest = <<>>
    BY <1>9, <2>1
  <2>3. first \o rest = first
    BY <1>10, <2>2
  <2>4. c + 4 = 4
    BY <2>1
  <2> QED
    BY <1>12, <2>3, <2>4
<1> QED
  BY <1>11, <1>12, <1>13 DEF rest, first, c

\* An operation with bits does not change the bytes before the interval, ...
LEMMA BeforeStep ==
  ASSUME NEW codes \in Mcus, NEW marker \in BOOLEAN, NEW old \in Bits,
         NEW complete \in Seq(Memory), NEW byte \in Int, NEW k \in Nat, k # 0,
         k \in 1..Len(codes) \/ k = Len(codes) + 4, NEW j \in Nat, j + 1 = k
  PROVE  BeforeAt(j, codes, marker, byte, complete, old)
           = BeforeAt(k, codes, marker, byte, complete, old)
<1>1. CASE k \in 1..Len(codes)
  BY <1>1, BeforeCode
<1>2. CASE k = Len(codes) + 4
  <2>1. j = Len(codes) + 3
    BY <1>2 DEF Mcus
  <2>2. BeforeAt(j, codes, marker, byte, complete, old) = complete
    BY <2>1, BeforeMarker
  <2>3. BeforeAt(k, codes, marker, byte, complete, old) = complete
    BY <1>2, BeforeMarker
  <2> QED
    BY <2>2, <2>3
<1> QED
  BY <1>1, <1>2

\* The bits of the code that is the operation but k - 1 last.
OpBits(k, codes) ==
  IF k <= Len(codes) THEN CodeBits(codes[Len(codes) - k + 1]) ELSE Ones(ByteBits - 1)

\* ... its bits come behind those of the interval, ...
LEMMA BitsStep ==
  ASSUME NEW codes \in Mcus, NEW m \in BOOLEAN, NEW old \in Bits,
         NEW k \in Nat, k # 0, k \in 1..Len(codes) \/ k = Len(codes) + 4,
         NEW j \in Nat, j + 1 = k
  PROVE  BitsAt(j, codes, m, old) = BitsAt(k, codes, m, old) \o OpBits(k, codes)
<1>1. Len(codes) \in Nat
  BY DEF Mcus
<1>2. CASE k \in 1..Len(codes)
  <2>1. PICK i \in 1..Len(codes) : i + k = Len(codes) + 1
    <3>1. /\ Len(codes) - k + 1 \in 1..Len(codes)
          /\ (Len(codes) - k + 1) + k = Len(codes) + 1
      BY <1>1, <1>2
    <3> QED
      BY <3>1
  <2>2. BitsAt(j, codes, m, old) = BitsAt(k, codes, m, old) \o CodeBits(codes[i])
    BY <1>2, <2>1, AtCode, SMTT(30)
  <2>3. OpBits(k, codes) = CodeBits(codes[i])
    <3>1. k <= Len(codes) /\ Len(codes) - k + 1 = i
      BY <1>1, <1>2, <2>1
    <3> QED
      BY <3>1 DEF OpBits
  <2> QED
    BY <2>2, <2>3
<1>3. CASE k = Len(codes) + 4
  <2>1. ~(k <= Len(codes)) /\ j = Len(codes) + 3
    BY <1>1, <1>3
  <2>2. BitsAt(k, codes, m, old) = old
    BY <1>3, AtMarker
  <2>3. BitsAt(j, codes, m, old) = old \o Ones(ByteBits - 1)
    BY <2>1, AtMarker
  <2>4. OpBits(k, codes) = Ones(ByteBits - 1)
    BY <2>1 DEF OpBits
  <2> QED
    BY <2>2, <2>3, <2>4
<1> QED
  BY <1>2, <1>3

\* ... and are as many as its size.
LEMMA OpBitsRight ==
  ASSUME NEW codes \in Mcus, NEW byte,
         NEW k \in Nat, k # 0, k \in 1..Len(codes) \/ k = Len(codes) + 4,
         NEW c, c = OpLeft(k, codes, byte)
  PROVE  /\ c.size \in 0..(2 * ByteBits)
         /\ OpBits(k, codes) \in Bits
         /\ Len(OpBits(k, codes)) = c.size
         /\ Value(OpBits(k, codes)) = c.code % Pow2[c.size]
<1>1. Len(codes) \in Nat
  BY DEF Mcus
<1>2. CASE k \in 1..Len(codes)
  <2> DEFINE x == codes[Len(codes) - k + 1]
  <2>1. Len(codes) - k + 1 \in 1..Len(codes)
    BY <1>1, <1>2
  <2>2. x \in Codes
    BY <2>1 DEF Mcus
  <2>3. k <= Len(codes)
    BY <1>1, <1>2
  <2>4. c.code = x.code /\ c.size = x.size /\ OpBits(k, codes) = CodeBits(x)
    BY <2>3 DEF OpLeft, Code, OpBits
  <2> HIDE DEF x
  <2>5. x.size \in 1..(2 * ByteBits) /\ x.size \in Nat /\ x.code \in Int
        /\ x.size \in 0..(2 * ByteBits)
    BY <2>2, Widths
  <2>6. /\ CodeBits(x) \in Bits /\ Len(CodeBits(x)) = x.size
        /\ Value(CodeBits(x)) = x.code % Pow2[x.size]
    BY <2>5, CodeBitsRight
  <2> QED
    BY <2>4, <2>5, <2>6
<1>3. CASE k = Len(codes) + 4
  <2>1. ~(k <= Len(codes))
    BY <1>1, <1>3
  <2>2. c = Code(AllOnes \div 2, ByteBits - 1) /\ OpBits(k, codes) = Ones(ByteBits - 1)
    BY <1>3, <2>1 DEF OpLeft, OpBits
  <2>3. c.size = ByteBits - 1 /\ c.code = AllOnes \div 2
    BY <2>2 DEF Code
  <2>4. ByteBits - 1 \in Nat /\ ByteBits - 1 \in 0..(2 * ByteBits)
    BY Widths
  <2>5. Ones(ByteBits - 1) \in Bits /\ Len(Ones(ByteBits - 1)) = ByteBits - 1
        /\ Value(Ones(ByteBits - 1)) = Pow2[ByteBits - 1] - 1
    BY <2>4, OnesRight
  <2>6. Pow2[ByteBits - 1] - 1 = (AllOnes \div 2) % Pow2[ByteBits - 1]
    <3> DEFINE p == Pow2[ByteBits - 1]
    <3>1. p \in Nat \ {0}
      BY <2>4, Pow2Type
    <3>2. Pow2[ByteBits] = 2 * p
      <4>1. PICK b \in Nat : b = ByteBits - 1
        BY <2>4
      <4>2. Pow2[b + 1] = 2 * Pow2[b] /\ b + 1 = ByteBits
        BY <4>1, Pow2Unfold, Widths
      <4> QED
        BY <4>1, <4>2
    <3> HIDE DEF p
    <3>3. AllOnes = 2 * (p - 1) + 1 /\ p - 1 \in Nat
      BY <3>1, <3>2 DEF AllOnes
    <3>4. AllOnes \div 2 = p - 1
      BY <3>3
    <3>5. (p - 1) % p = p - 1
      <4>1. PICK r \in 0..(p - 1), q \in Int : r = p - 1 /\ q = 0
        BY <3>1
      <4>2. (p * q + r) % p = r
        BY <3>1, DivModUnique
      <4>3. p * q + r = p - 1
        BY <3>1, <4>1
      <4> QED
        BY <4>1, <4>2, <4>3
    <3> QED
      BY <3>4, <3>5 DEF p
  <2> QED
    BY <2>2, <2>3, <2>4, <2>5, <2>6
<1> QED
  BY <1>2, <1>3

-----------------------------------------------------------------------------
(* The inductive invariant.                                                *)

\* What waits in put_buffer; there are zeros below it.
Word(b) ==
  /\ b.put_bits \in 0..(3 * ByteBits - 1)
  /\ b.put_buffer \in 0..(Pow2[4 * ByteBits] - 1)
  /\ b.put_buffer % Pow2[3 * ByteBits - b.put_bits] = 0

\* The ranges of the variables.
Ranges ==
  /\ setup \in Setups
  /\ pc \in {"idle", "emit", "shift", "suspended", "done", "failed"}
  /\ Word(saved) /\ Word(cur) /\ Word(local)
  /\ saved.put_bits < ByteBits /\ cur.put_bits < ByteBits
  /\ stuffing \in BOOLEAN /\ mcu \in Mcus
  /\ restarts \in [to_go : Nat, next_num : Int]
  /\ file \in Seq(Memory)
  /\ segments \in Seq(Intervals) /\ Len(segments) >= 1
  /\ stuffing => pc = "shift"
  /\ pc = "suspended" => mcu # <<>>

\* There is always room for a byte.
Room ==
  /\ dest \in [next : Nat, free : Nat, size : Nat] /\ dest.free # 0
  /\ work \in [next : Nat, free : Nat] /\ work.free # 0
  /\ buffer \in [0..(dest.size - 1) -> Memory]
  /\ dest.next + dest.free = dest.size
  /\ work.next + work.free = dest.size
  /\ setup.manager # "memory" => dest.size = setup.size
  /\ pc \in {"emit", "shift"} => dest.next <= work.next

\* The counters of restart markers and what they count.
RestartsInv ==
  /\ restarts.next_num = (Len(segments) - 1) % RstMarkers
  /\ IF setup.interval = 0
     THEN restarts.to_go = 0 /\ Len(segments) = 1
     ELSE restarts.to_go + Len(segments[Len(segments)]) = setup.interval
  /\ \A s \in 1..(Len(segments) - 1) : Len(segments[s]) = setup.interval

\* The bytes that have left the buffer, and those in it that are taken, or all.
Taken == OutOf(file, buffer, dest.next)
Out == OutOf(file, buffer, work.next)

\* The bits of the restart interval under way, and the bytes of those before.
OldBits == IntervalBits(segments[Len(segments)])
OldBytes == Complete(segments)

\* That interval is over: its end, or the end of the image, is written first.
Marker == mcu = <<>> \/ RestartDue
MarkerByte == IF mcu = <<>> THEN Eoi ELSE 1 + restarts.next_num

\* All of the stream but the last k operations is in the bytes of out and in b.
Stream(k, b, out) ==
  Holds(BitsAt(k, mcu, Marker, OldBits),
        BeforeAt(k, mcu, Marker, MarkerByte, OldBytes, OldBits), b, out)

\* The operations left are the last ones of the MCU, or of the end of the image.
TodoInv ==
  pc \in {"emit", "shift"} =>
    /\ Len(todo) \in Nat /\ Len(todo) <= Len(mcu) + (IF Marker THEN 4 ELSE 0)
    /\ todo = TodoOf(Len(todo), mcu, MarkerByte)
    /\ pc = "shift" => Len(todo) \in 1..Len(mcu) \/ Len(todo) = Len(mcu) + 4

\* The MCU under way: a code counts as soon as it is in put_buffer, and a byte
\* of ones with its zero.
EmitInv ==
  /\ pc = "emit" => Stream(Len(todo), cur, Out)
  /\ pc = "shift" /\ ~stuffing => Stream(Len(todo) - 1, local, Out)
  /\ pc = "shift" /\ stuffing =>
       /\ BitsHeld(BitsAt(Len(todo) - 1, mcu, Marker, OldBits), local)
       /\ local.put_bits >= ByteBits
       /\ Stream(Len(todo) - 1, Shifted, Out \o <<0>>)

\* The MCUs that are taken, which are what is left of a suspended one.
TakenInv ==
  /\ pc \in {"idle", "suspended", "emit", "shift"} => BitsHeld(OldBits, saved)
  /\ pc \in {"idle", "suspended"}
       \/ (pc \in {"emit", "shift"} /\ setup.manager = "suspending") =>
       OutHeld(OldBits, OldBytes, saved, Taken)

\* The image is complete, with its end marker.
DoneInv ==
  pc = "done" => Taken = Ended(OldBytes, OldBits) \o <<AllOnes, Eoi>>

\* The inductive invariant.
IInv ==
  /\ Ranges /\ Room /\ RestartsInv
  /\ TodoInv /\ EmitInv /\ TakenInv /\ DoneInv

\* What holds bits is a put_buffer with zeros below them.
LEMMA HeldWord ==
  ASSUME NEW bits \in Bits, NEW b, BitsHeld(bits, b)
  PROVE  Word(b)
BY HeldBits DEF Word, BitsHeld

\* The types of what the invariant is about.
LEMMA StreamTypes ==
  ASSUME Ranges, RestartsInv
  PROVE  /\ OldBits \in Bits /\ OldBytes \in Seq(Memory)
         /\ MarkerByte \in Int /\ Marker \in BOOLEAN /\ RestartDue \in BOOLEAN
         /\ mcu \in Mcus /\ Len(mcu) \in Nat
         /\ segments[Len(segments)] \in Intervals
         /\ restarts.next_num \in 0..(RstMarkers - 1) /\ restarts.next_num \in Int
         /\ mcu = <<>> <=> Len(mcu) = 0
<1>1. mcu \in Mcus /\ Len(mcu) \in Nat /\ (mcu = <<>> <=> Len(mcu) = 0)
  BY DEF Ranges, Mcus
<1>2. segments[Len(segments)] \in Intervals
  BY DEF Ranges
<1>3. OldBits \in Bits
  BY <1>2, IntervalBitsAppend DEF OldBits, Intervals
<1>4. OldBytes \in Seq(Memory)
  BY CompleteRight DEF OldBytes, Ranges
<1>5. restarts.next_num \in 0..(RstMarkers - 1) /\ restarts.next_num \in Int
  <2>1. RstMarkers \in Nat \ {0} /\ Len(segments) - 1 \in Int
    BY Widths DEF Ranges
  <2>2. (Len(segments) - 1) % RstMarkers \in 0..(RstMarkers - 1)
    BY <2>1, DivMod
  <2>3. restarts.next_num = (Len(segments) - 1) % RstMarkers
    BY DEF RestartsInv
  <2>4. restarts.next_num \in 0..(RstMarkers - 1)
    BY <2>2, <2>3
  <2> QED
    BY <2>1, <2>4
<1>6. MarkerByte \in Int
  <2>1. Eoi \in Int
    BY Widths
  <2> QED
    BY <1>5, <2>1 DEF MarkerByte
<1>7. Marker \in BOOLEAN /\ RestartDue \in BOOLEAN
  BY DEF Marker, RestartDue
<1> QED
  BY <1>1, <1>2, <1>3, <1>4, <1>5, <1>6, <1>7

\* The types of what is out.
LEMMA OutTypes ==
  ASSUME Ranges, Room
  PROVE  /\ Taken \in Seq(Memory) /\ Out \in Seq(Memory)
         /\ dest.next \in Nat /\ dest.next < dest.size
         /\ work.next \in Nat /\ work.next < dest.size
         /\ work.next \in 0..(dest.size - 1)
         /\ dest.size - 1 \in Int
<1>1. /\ dest.next \in Nat /\ dest.next < dest.size
      /\ work.next \in Nat /\ work.next < dest.size
      /\ work.next \in 0..(dest.size - 1) /\ dest.size - 1 \in Int
  BY DEF Room
<1>2. ASSUME NEW n \in Nat, n < dest.size, NEW i \in 0..(n - 1)
      PROVE  buffer[i] \in Memory
  <2>1. buffer \in [0..(dest.size - 1) -> Memory] /\ dest.size \in Nat
    BY DEF Room
  <2>2. i \in 0..(dest.size - 1)
    BY <1>2, <2>1
  <2> QED
    BY <2>1, <2>2
<1>3. file \in Seq(Memory)
  BY DEF Ranges
<1> QED
  BY <1>1, <1>2, <1>3, OutOfRight DEF Taken, Out

\* Nothing is in the buffer before its first byte.
LEMMA NothingOut ==
  ASSUME NEW left \in Seq(Memory), NEW bytes
  PROVE  OutOf(left, bytes, 0) = left
<1>1. [i \in 1..0 |-> bytes[i - 1]] = <<>>
  OBVIOUS
<1>2. left \o <<>> = left
  OBVIOUS
<1> QED
  BY <1>1, <1>2 DEF OutOf

-----------------------------------------------------------------------------
(* The steps of the encoder, one by one.                                   *)

\* The inductive invariant holds when the pass is started, ...
LEMMA InitRight == Init => IInv
<1> SUFFICES ASSUME Init PROVE IInv
  OBVIOUS
<1>1. /\ setup \in Setups /\ setup.size \in Nat \ {0} /\ setup.interval \in Nat
  BY SetupsAssumption DEF Init
<1>2. <<>> \in Mcus /\ <<>> \in Intervals /\ <<>> \in Seq(Memory)
  BY DEF Mcus, Intervals
<1>3. /\ segments = <<<<>>>> /\ segments \in Seq(Intervals) /\ Len(segments) = 1
      /\ segments[Len(segments)] = <<>>
  BY <1>2 DEF Init
<1>4. OldBits = <<>> /\ <<>> \in Bits
  BY <1>3, IntervalBitsAppend, NothingHeld DEF OldBits
<1>5. OldBytes = <<>>
  <2>1. segments \in Seq(Intervals) /\ Len(segments) = 1 /\ Len(segments) >= 1
    BY <1>3
  <2>2. Complete(segments) = <<>>
    BY <2>1, CompleteRight
  <2> QED
    BY <2>2 DEF OldBytes
<1>6. BitsHeld(<<>>, NoBits)
  BY NothingHeld
<1>7. Word(NoBits) /\ NoBits.put_bits < ByteBits
  <2>1. Word(NoBits)
    BY <1>4, <1>6, HeldWord
  <2> QED
    BY <2>1, Widths DEF NoBits
<1>8. Ranges
  <2>1. saved = NoBits /\ cur = NoBits /\ local = NoBits
    BY DEF Init
  <2>2. Word(saved) /\ Word(cur) /\ Word(local)
        /\ saved.put_bits < ByteBits /\ cur.put_bits < ByteBits
    BY <1>7, <2>1
  <2>3. setup \in Setups /\ pc = "idle" /\ stuffing = FALSE /\ mcu \in Mcus
        /\ file \in Seq(Memory)
    BY <1>2 DEF Init
  <2>4. restarts \in [to_go : Nat, next_num : Int]
    BY <1>1 DEF Init
  <2>5. segments \in Seq(Intervals) /\ Len(segments) >= 1
    BY <1>3
  <2> QED
    BY <2>2, <2>3, <2>4, <2>5 DEF Ranges
<1>9. Room
  BY <1>1 DEF Init, Room, Memory
<1>10. RestartsInv
  <2>1. restarts.next_num = (Len(segments) - 1) % RstMarkers
    <3>1. RstMarkers \in Nat \ {0} /\ 0 \in 0..(RstMarkers - 1)
      BY Widths
    <3>2. RstMarkers * 0 + 0 = 0
      BY <3>1
    <3>3. (RstMarkers * 0 + 0) % RstMarkers = 0
      BY <3>1, DivModUnique
    <3>4. 0 % RstMarkers = 0
      BY <3>2, <3>3
    <3> QED
      BY <1>3, <3>4 DEF Init
  <2>2. restarts.to_go + Len(segments[Len(segments)]) = setup.interval
    BY <1>1, <1>3 DEF Init
  <2>3. restarts.to_go = setup.interval
    BY DEF Init
  <2> QED
    BY <1>1, <1>3, <2>1, <2>2, <2>3 DEF RestartsInv
<1>11. TodoInv /\ EmitInv /\ DoneInv
  BY DEF Init, TodoInv, EmitInv, DoneInv
<1>12. TakenInv
  <2>1. Taken = <<>>
    <3>1. file = <<>> /\ dest.next = 0 /\ file \in Seq(Memory)
      BY <1>2 DEF Init
    <3> QED
      BY <3>1, NothingOut DEF Taken
  <2>2. saved = NoBits
    BY DEF Init
  <2>3. OutHeld(<<>>, <<>>, NoBits, <<>>)
    BY <1>2, NothingHeld
  <2> QED
    BY <1>4, <1>5, <1>6, <2>1, <2>2, <2>3 DEF TakenInv
<1> QED
  BY <1>8, <1>9, <1>10, <1>11, <1>12 DEF IInv

\* ... and in steps that change nothing.
LEMMA StutterRight == IInv /\ UNCHANGED vars => IInv'
<1> SUFFICES ASSUME IInv, UNCHANGED vars PROVE IInv'
  OBVIOUS
<1>1. Ranges' /\ Room' /\ RestartsInv'
  BY DEF IInv, vars, mcuVars, Ranges, Word, Room, RestartsInv
<1>2. OldBits' = OldBits /\ OldBytes' = OldBytes /\ Taken' = Taken /\ Out' = Out
      /\ Marker' = Marker /\ MarkerByte' = MarkerByte /\ Shifted' = Shifted
  BY DEF vars, mcuVars, OldBits, OldBytes, Taken, Out, Marker, MarkerByte, RestartDue,
         Shifted
<1>3. TodoInv'
  BY <1>2 DEF IInv, vars, mcuVars, TodoInv
<1>4. EmitInv'
  BY <1>2 DEF IInv, vars, mcuVars, EmitInv, Stream
<1>5. TakenInv' /\ DoneInv'
  BY <1>2 DEF IInv, vars, mcuVars, TakenInv, DoneInv
<1> QED
  BY <1>1, <1>3, <1>4, <1>5 DEF IInv

\* The copy of the state is made with all operations still to be done.
LEMMA LoadRight ==
  ASSUME IInv, pc \in {"idle", "suspended"},
         NEW codes \in Mcus, NEW operations, Load(codes, operations),
         NEW n \in Nat,
         n = IF codes = <<>> \/ RestartDue THEN Len(codes) + 4 ELSE Len(codes),
         operations = TodoOf(n, codes, IF codes = <<>> THEN Eoi ELSE 1 + restarts.next_num)
  PROVE  IInv'
<1>1. /\ mcu' = codes /\ todo' = operations /\ cur' = saved /\ pc' = "emit"
      /\ work' = [next |-> dest.next, free |-> dest.free]
      /\ UNCHANGED <<setup, saved, local, stuffing, restarts, dest, buffer, file, segments>>
  BY DEF Load
<1>2. Ranges /\ Room /\ RestartsInv /\ TakenInv
  BY DEF IInv
<1>3. ~stuffing
  BY <1>2 DEF Ranges
<1>4. Ranges'
  BY <1>1, <1>2, <1>3 DEF Ranges, Word
<1>5. Room'
  BY <1>1, <1>2 DEF Room
<1>6. RestartsInv'
  BY <1>1, <1>2 DEF RestartsInv
<1>7. /\ OldBits' = OldBits /\ OldBytes' = OldBytes /\ Taken' = Taken /\ Out' = Taken
      /\ Marker' = (codes = <<>> \/ RestartDue)
      /\ MarkerByte' = IF codes = <<>> THEN Eoi ELSE 1 + restarts.next_num
  BY <1>1 DEF OldBits, OldBytes, Taken, Out, Marker, MarkerByte, RestartDue
<1>8. /\ OldBits \in Bits /\ OldBytes \in Seq(Memory) /\ MarkerByte' \in Int
      /\ Marker' \in BOOLEAN
  <2>1. OldBits \in Bits /\ OldBytes \in Seq(Memory) /\ restarts.next_num \in Int
    BY <1>2, StreamTypes
  <2>2. Eoi \in Int
    BY Widths
  <2> QED
    BY <1>7, <2>1, <2>2
<1>9. TodoInv'
  <2>1. Len(todo') = n
    BY <1>1, TodoRight
  <2>2. n <= Len(codes) + (IF Marker' THEN 4 ELSE 0)
    <3>1. Len(codes) \in Nat
      BY DEF Mcus
    <3>2. CASE codes = <<>> \/ RestartDue
      <4>1. Marker' /\ n = Len(codes) + 4
        BY <1>7, <3>2
      <4> QED
        BY <3>1, <4>1
    <3>3. CASE ~(codes = <<>> \/ RestartDue)
      <4>1. ~Marker' /\ n = Len(codes)
        BY <1>7, <3>3
      <4> QED
        BY <3>1, <4>1
    <3> QED
      BY <3>2, <3>3
  <2>3. todo' = TodoOf(n, codes, MarkerByte')
    BY <1>1, <1>7
  <2> QED
    BY <1>1, <2>1, <2>2, <2>3 DEF TodoInv
<1>10. BitsHeld(OldBits, saved) /\ OutHeld(OldBits, OldBytes, saved, Taken)
  BY <1>2 DEF TakenInv
<1>11. EmitInv'
  <2> DEFINE m == Marker'
             byte == MarkerByte'
  <2>1. n = IF m THEN Len(codes) + 4 ELSE Len(codes)
    BY <1>7
  <2>2. m \in BOOLEAN /\ byte \in Int
    BY <1>8
  <2> HIDE DEF m, byte
  <2>3. BitsAt(n, codes, m, OldBits) = OldBits
    BY <1>8, <2>1, <2>2, AtMarker
  <2>4. BeforeAt(n, codes, m, byte, OldBytes, OldBits) = OldBytes
    BY <1>8, <2>1, <2>2, BeforeMarker
  <2>5. Len(todo') = n
    BY <1>1, TodoRight
  <2>6. Stream(Len(todo), cur, Out)'
    BY <1>1, <1>7, <1>10, <2>3, <2>4, <2>5 DEF Stream, Holds, m, byte
  <2> QED
    BY <1>1, <2>6 DEF EmitInv
<1>12. TakenInv'
  BY <1>1, <1>7, <1>10 DEF TakenInv
<1>13. DoneInv'
  BY <1>1 DEF DoneInv
<1> QED
  BY <1>4, <1>5, <1>6, <1>9, <1>11, <1>12, <1>13 DEF IInv

\* encode_mcu_huff, jchuff.c:1012, loads the operations of an MCU, with the marker that is
\* due.
LEMMA OperationsRight ==
  ASSUME IInv, pc \in {"idle", "suspended"}, NEW codes \in Mcus, codes # <<>>,
         Load(codes, Operations(codes))
  PROVE  IInv'
<1> DEFINE n == IF RestartDue THEN Len(codes) + 4 ELSE Len(codes)
           byte == 1 + restarts.next_num
           rest == [i \in DOMAIN codes |-> Code(codes[i].code, codes[i].size)]
<1>1. /\ <<>> \o rest = TodoOf(Len(codes), codes, byte)
      /\ (Flush \o <<Byte(AllOnes), Byte(byte)>>) \o rest
           = TodoOf(Len(codes) + 4, codes, byte)
  BY TodoStarts
<1>2. n \in Nat
  BY DEF Mcus
<1>3. Operations(codes) = TodoOf(n, codes, byte)
  <2>1. Operations(codes) = (IF RestartDue THEN Restart ELSE <<>>) \o rest
    BY DEF Operations
  <2>2. Restart = Flush \o <<Byte(AllOnes), Byte(byte)>>
    BY DEF Restart
  <2> HIDE DEF rest, byte
  <2>3. CASE RestartDue
    BY <1>1, <2>1, <2>2, <2>3
  <2>4. CASE ~RestartDue
    BY <1>1, <2>1, <2>4
  <2> QED
    BY <2>3, <2>4
<1>4. n = IF codes = <<>> \/ RestartDue THEN Len(codes) + 4 ELSE Len(codes)
  OBVIOUS
<1>5. Operations(codes)
        = TodoOf(n, codes, IF codes = <<>> THEN Eoi ELSE 1 + restarts.next_num)
  BY <1>3
<1> HIDE DEF n
<1> QED
  BY <1>2, <1>4, <1>5, LoadRight

\* A call of encode_mcu for a new MCU keeps the invariant, ...
LEMMA StartMcuRight ==
  ASSUME IInv, NEW n \in 1..MaxCodes, NEW codes \in [1..n -> Codes], StartMcu(codes)
  PROVE  IInv'
<1>1. codes \in Mcus /\ codes # <<>>
  BY Widths DEF Mcus
<1> QED
  BY <1>1, OperationsRight DEF StartMcu

\* ... one for an MCU that was suspended too, ...
LEMMA RetryMcuRight ==
  ASSUME IInv, RetryMcu
  PROVE  IInv'
<1>1. mcu \in Mcus /\ mcu # <<>>
  BY DEF IInv, Ranges, RetryMcu
<1> QED
  BY <1>1, OperationsRight DEF RetryMcu

\* ... and finish_pass_huff.
LEMMA FinishPassRight ==
  ASSUME IInv, FinishPass
  PROVE  IInv'
<1> DEFINE codes == <<>>
           operations == Flush \o <<Byte(AllOnes), Byte(Eoi)>>
           n == 4
<1>1. codes \in Mcus /\ codes = <<>> /\ Len(codes) = 0
  BY DEF Mcus
<1>2. operations = TodoOf(4, codes, Eoi)
  BY <1>1, TodoStarts
<1>3. Load(codes, operations) /\ pc = "idle"
  BY DEF FinishPass
<1>4. n \in Nat /\ n = IF codes = <<>> \/ RestartDue THEN Len(codes) + 4 ELSE Len(codes)
  BY <1>1
<1>5. operations = TodoOf(n, codes, IF codes = <<>> THEN Eoi ELSE 1 + restarts.next_num)
  BY <1>1, <1>2
<1> HIDE DEF codes, operations, n
<1> QED
  BY <1>1, <1>3, <1>4, <1>5, LoadRight

-----------------------------------------------------------------------------
(* The operations with bits.                                               *)

\* What an MCU is about does not change while it is written.
LEMMA Still ==
  ASSUME UNCHANGED <<setup, mcu, restarts, segments>>
  PROVE  /\ OldBits' = OldBits /\ OldBytes' = OldBytes
         /\ Marker' = Marker /\ MarkerByte' = MarkerByte /\ RestartDue' = RestartDue
BY DEF OldBits, OldBytes, Marker, MarkerByte, RestartDue

\* The ranges, the counters, ...
LEMMA StillRanges ==
  ASSUME IInv, UNCHANGED <<setup, saved, mcu, restarts, segments, file>>,
         pc' \in {"emit", "shift"}, Word(cur'), cur'.put_bits < ByteBits, Word(local'),
         stuffing' \in BOOLEAN, stuffing' => pc' = "shift"
  PROVE  Ranges' /\ RestartsInv'
BY DEF IInv, Ranges, RestartsInv, Word

\* ... what was taken over ...
LEMMA StillTaken ==
  ASSUME IInv, UNCHANGED <<setup, saved, mcu, restarts, segments, dest, file, buffer>>,
         pc \in {"emit", "shift"}, pc' \in {"emit", "shift"}
  PROVE  TakenInv' /\ DoneInv'
<1>1. OldBits' = OldBits /\ OldBytes' = OldBytes /\ Taken' = Taken
  BY Still DEF Taken
<1>2. TakenInv
  BY DEF IInv
<1> QED
  BY <1>1, <1>2 DEF TakenInv, DoneInv

\* ... and the room in the buffer while an MCU is written.
LEMMA StillRoom ==
  ASSUME IInv, UNCHANGED <<setup, dest, work, buffer>>,
         pc \in {"emit", "shift"}, pc' \in {"emit", "shift"}
  PROVE  Room'
BY DEF IInv, Room

\* The operation that is next.
LEMMA NextOperation ==
  ASSUME IInv, pc \in {"emit", "shift"}, todo # <<>>,
         NEW n, n = Len(todo)
  PROVE  /\ n \in Nat /\ n # 0 /\ n - 1 \in Nat /\ n <= Len(mcu) + 4
         /\ n <= Len(mcu) \/ Marker
         /\ Head(todo) = OpLeft(n, mcu, MarkerByte)
         /\ Tail(todo) = TodoOf(n - 1, mcu, MarkerByte) /\ Len(Tail(todo)) = n - 1
<1>1. /\ n \in Nat /\ n <= Len(mcu) + (IF Marker THEN 4 ELSE 0)
      /\ todo = TodoOf(n, mcu, MarkerByte)
  BY DEF IInv, TodoInv
<1>2. Len(mcu) \in Nat
  BY DEF IInv, Ranges, Mcus
<1>3. n <= Len(mcu) + 4 /\ (n <= Len(mcu) \/ Marker)
  BY <1>1, <1>2
<1>4. n # 0
  BY <1>1, TodoRight
<1>5. n \in Nat /\ n # 0 /\ n > 0 /\ n - 1 \in Nat
  BY <1>1, <1>4
<1>6. /\ Head(todo) = OpLeft(n, mcu, MarkerByte)
      /\ Tail(todo) = TodoOf(n - 1, mcu, MarkerByte)
  BY <1>1, <1>5, TodoRight
<1>7. Len(Tail(todo)) = n - 1
  BY <1>5, <1>6, TodoRight
<1> QED
  BY <1>3, <1>5, <1>6, <1>7

\* emit_bits_s keeps the invariant, ...
LEMMA EmitBitsRight ==
  ASSUME IInv, EmitBits
  PROVE  IInv'
<1> DEFINE n == Len(todo)
           c == Head(todo)
           bits == BitsAt(n, mcu, Marker, OldBits)
           before == BeforeAt(n, mcu, Marker, MarkerByte, OldBytes, OldBits)
<1>1. /\ pc = "emit" /\ todo # <<>> /\ c.op = "code" /\ pc' = "shift"
      /\ local' = [put_buffer |-> (c.code % Pow2[c.size])
                                    * Pow2[3 * ByteBits - (c.size + cur.put_bits)]
                                    + cur.put_buffer,
                   put_bits |-> c.size + cur.put_bits]
      /\ UNCHANGED <<setup, saved, cur, todo, stuffing, mcu, restarts, dest, work, buffer,
                     file, segments>>
  BY DEF EmitBits
<1>2. Ranges /\ Room /\ RestartsInv /\ TodoInv /\ EmitInv
  BY DEF IInv
<1>3. /\ n \in Nat /\ n # 0 /\ n - 1 \in Nat /\ n <= Len(mcu) + 4
      /\ c = OpLeft(n, mcu, MarkerByte)
  <2>1. n = Len(todo)
    OBVIOUS
  <2> HIDE DEF n
  <2> QED
    BY <1>1, <2>1, NextOperation
<1>4. /\ OldBits \in Bits /\ OldBytes \in Seq(Memory) /\ MarkerByte \in Int
      /\ Marker \in BOOLEAN /\ mcu \in Mcus
  BY <1>2, StreamTypes
<1>5. ~stuffing
  BY <1>1, <1>2 DEF Ranges
<1>6. Stream(n, cur, Out)
  BY <1>1, <1>2 DEF EmitInv
<1> HIDE DEF n, c
<1>7. n \in 1..Len(mcu) \/ n = Len(mcu) + 4
  BY <1>1, <1>3, <1>4, OpKind
<1> DEFINE cb == OpBits(n, mcu)
<1>8. /\ c.size \in 0..(2 * ByteBits) /\ cb \in Bits /\ Len(cb) = c.size
      /\ Value(cb) = c.code % Pow2[c.size]
  BY <1>3, <1>4, <1>7, OpBitsRight
<1>9. /\ BitsAt(n - 1, mcu, Marker, OldBits) = bits \o cb
      /\ BeforeAt(n - 1, mcu, Marker, MarkerByte, OldBytes, OldBits) = before
  <2>1. PICK j \in Nat : j + 1 = n /\ j = n - 1
    BY <1>3
  <2>2. BitsAt(j, mcu, Marker, OldBits) = bits \o cb
    <3>1. /\ mcu \in Mcus /\ Marker \in BOOLEAN /\ OldBits \in Bits
          /\ n \in Nat /\ n # 0
      BY <1>3, <1>4
    <3>2. j + 1 = n
      BY <2>1
    <3> QED
      BY <1>7, <3>1, <3>2, BitsStep
  <2>3. BeforeAt(j, mcu, Marker, MarkerByte, OldBytes, OldBits) = before
    BY <1>3, <1>4, <1>7, <2>1, BeforeStep
  <2> QED
    BY <2>1, <2>2, <2>3
<1> HIDE DEF cb
<1>10. bits \in Bits
  BY <1>3, <1>4, AtType
<1>11. BitsHeld(bits, cur) /\ OutHeld(bits, before, cur, Out)
  BY <1>6 DEF Stream, Holds
<1> HIDE DEF bits, before
<1>12. /\ local'.put_bits = c.size + cur.put_bits
       /\ local'.put_buffer = Value(cb) * Pow2[3 * ByteBits - local'.put_bits]
                                + cur.put_buffer
  BY <1>1, <1>8
<1>13. cur.put_bits < ByteBits
  BY <1>2 DEF Ranges
<1>14. BitsHeld(bits \o cb, local')
  <2> DEFINE b == local'
             size == c.size
  <2>1. /\ b.put_bits = size + cur.put_bits
        /\ b.put_buffer = Value(cb) * Pow2[3 * ByteBits - b.put_bits] + cur.put_buffer
        /\ size \in 0..(2 * ByteBits) /\ Len(cb) = size
    BY <1>8, <1>12
  <2> HIDE DEF b, size
  <2>2. BitsHeld(bits \o cb, b)
    BY <1>8, <1>10, <1>11, <1>13, <2>1, PutBits
  <2> QED
    BY <2>2 DEF b
<1>15. OutHeld(bits \o cb, before, local', Out)
  <2> DEFINE b == local'
  <2>1. b.put_bits = Len(cb) + cur.put_bits
    BY <1>8, <1>12
  <2> HIDE DEF b
  <2>2. OutHeld(bits \o cb, before, b, Out)
    BY <1>8, <1>10, <1>11, <2>1, OutPut
  <2> QED
    BY <2>2 DEF b
<1>16. bits \o cb \in Bits
  BY <1>8, <1>10 DEF Bits
<1>17. /\ OldBits' = OldBits /\ OldBytes' = OldBytes
       /\ Marker' = Marker /\ MarkerByte' = MarkerByte
       /\ Out' = Out /\ Len(todo') = n
  BY <1>1, Still DEF Out, n
<1>18. Word(local')
  BY <1>14, <1>16, HeldWord
<1>19. Ranges' /\ RestartsInv'
  <2>1. Word(cur') /\ cur'.put_bits < ByteBits /\ stuffing' = FALSE
    BY <1>1, <1>2, <1>5, <1>13 DEF Ranges
  <2> QED
    BY <1>1, <1>18, <2>1, StillRanges
<1>20. Room' /\ TakenInv' /\ DoneInv'
  BY <1>1, StillRoom, StillTaken
<1>21. TodoInv'
  BY <1>1, <1>2, <1>7, <1>17 DEF TodoInv, n
<1>22. EmitInv'
  <2>1. Stream(Len(todo) - 1, local, Out)'
    BY <1>1, <1>9, <1>14, <1>15, <1>17 DEF Stream, Holds
  <2> QED
    BY <1>1, <1>5, <2>1 DEF EmitInv
<1> QED
  BY <1>19, <1>20, <1>21, <1>22 DEF IInv

\* ... and its end, when less than a byte waits.
LEMMA BitsEmittedRight ==
  ASSUME IInv, BitsEmitted
  PROVE  IInv'
<1> DEFINE n == Len(todo)
<1>1. /\ pc = "shift" /\ ~stuffing /\ ~ByteReady
      /\ cur' = local /\ todo' = Tail(todo) /\ pc' = "emit"
      /\ UNCHANGED <<setup, saved, local, stuffing, mcu, restarts, dest, work, buffer,
                     file, segments>>
  BY DEF BitsEmitted
<1>2. Ranges /\ Room /\ RestartsInv /\ TodoInv /\ EmitInv
  BY DEF IInv
<1>3. todo # <<>>
  <2>1. n \in Nat /\ (n \in 1..Len(mcu) \/ n = Len(mcu) + 4)
    BY <1>1, <1>2 DEF TodoInv
  <2>2. Len(mcu) \in Nat
    BY <1>2, StreamTypes
  <2>3. n # 0 /\ Len(<<>>) = 0
    BY <2>1, <2>2
  <2> QED
    BY <2>3
<1>4. /\ n \in Nat /\ n # 0 /\ n - 1 \in Nat
      /\ todo' = TodoOf(n - 1, mcu, MarkerByte) /\ Len(todo') = n - 1
      /\ n <= Len(mcu) + (IF Marker THEN 4 ELSE 0)
  <2>1. n = Len(todo) /\ n <= Len(mcu) + (IF Marker THEN 4 ELSE 0)
    BY <1>1, <1>2 DEF TodoInv
  <2> HIDE DEF n
  <2> QED
    BY <1>1, <1>3, <2>1, NextOperation
<1>5. Stream(n - 1, local, Out)
  BY <1>1, <1>2 DEF EmitInv
<1> HIDE DEF n
<1>6. /\ OldBits' = OldBits /\ OldBytes' = OldBytes
      /\ Marker' = Marker /\ MarkerByte' = MarkerByte /\ Out' = Out
  BY <1>1, Still DEF Out
<1>7. Word(local) /\ local.put_bits < ByteBits
  BY <1>1, <1>2, Widths DEF Ranges, Word, ByteReady
<1>8. Ranges' /\ RestartsInv'
  <2>1. Word(cur') /\ cur'.put_bits < ByteBits /\ stuffing' = FALSE /\ Word(local')
    BY <1>1, <1>2, <1>7 DEF Ranges
  <2> QED
    BY <1>1, <2>1, StillRanges
<1>9. Room' /\ TakenInv' /\ DoneInv'
  BY <1>1, StillRoom, StillTaken
<1>10. TodoInv'
  <2>1. Len(mcu) \in Nat
    BY <1>2, StreamTypes
  <2>2. n - 1 <= Len(mcu) + (IF Marker THEN 4 ELSE 0)
    BY <1>4, <2>1
  <2> QED
    BY <1>1, <1>4, <1>6, <2>2 DEF TodoInv
<1>11. EmitInv'
  <2>1. Stream(Len(todo), cur, Out)'
    BY <1>1, <1>4, <1>5, <1>6 DEF Stream
  <2> QED
    BY <1>1, <2>1 DEF EmitInv
<1> QED
  BY <1>8, <1>9, <1>10, <1>11 DEF IInv

\* emit_restart_s empties put_buffer after the flush.
LEMMA ResetBitsRight ==
  ASSUME IInv, ResetBits
  PROVE  IInv'
<1> DEFINE n == Len(todo)
           j == n - 1
           ended == Ended(OldBytes, OldBits)
<1>1. /\ pc = "emit" /\ pc' = "emit" /\ todo # <<>> /\ Head(todo).op = "reset"
      /\ cur' = NoBits /\ todo' = Tail(todo)
      /\ UNCHANGED <<setup, saved, local, stuffing, mcu, restarts, dest, work, buffer,
                     file, segments>>
  BY DEF ResetBits
<1>2. Ranges /\ Room /\ RestartsInv /\ TodoInv /\ EmitInv
  BY DEF IInv
<1>3. /\ n \in Nat /\ n # 0 /\ j \in Nat /\ n <= Len(mcu) + 4
      /\ n <= Len(mcu) \/ Marker
      /\ Head(todo) = OpLeft(n, mcu, MarkerByte)
      /\ todo' = TodoOf(j, mcu, MarkerByte) /\ Len(todo') = j
  <2>1. n = Len(todo)
    OBVIOUS
  <2> HIDE DEF n
  <2> QED
    BY <1>1, <2>1, NextOperation
<1>4. /\ OldBits \in Bits /\ OldBytes \in Seq(Memory) /\ MarkerByte \in Int
      /\ Marker \in BOOLEAN /\ mcu \in Mcus /\ Len(mcu) \in Nat
  BY <1>2, StreamTypes
<1>5. Stream(n, cur, Out)
  BY <1>1, <1>2 DEF EmitInv
<1>6. j = n - 1
  OBVIOUS
<1> HIDE DEF n, j
<1>7. n = Len(mcu) + 3
  BY <1>1, <1>3, <1>4, OpKind
<1>8. /\ BitsAt(n, mcu, Marker, OldBits) = OldBits \o Ones(ByteBits - 1)
      /\ BeforeAt(n, mcu, Marker, MarkerByte, OldBytes, OldBits) = OldBytes
  BY <1>3, <1>4, <1>7, AtMarker, BeforeMarker
<1>9. j = Len(mcu) + 2
  BY <1>4, <1>6, <1>7
<1>10. /\ BitsAt(j, mcu, Marker, OldBits) = <<>>
       /\ BeforeAt(j, mcu, Marker, MarkerByte, OldBytes, OldBits) = ended
  BY <1>3, <1>4, <1>9, AtMarker, BeforeMarker
<1>11. cur.put_bits < ByteBits
  BY <1>2 DEF Ranges
<1>12. Out = ended
  <2>1. /\ BitsHeld(OldBits \o Ones(ByteBits - 1), cur)
        /\ OutHeld(OldBits \o Ones(ByteBits - 1), OldBytes, cur, Out)
    BY <1>5, <1>8 DEF Stream, Holds
  <2> QED
    BY <1>4, <1>11, <2>1, FlushOut DEF Ended
<1>13. ended \in Seq(Memory)
  BY <1>2, <1>12, OutTypes
<1> HIDE DEF ended
<1>14. BitsHeld(<<>>, NoBits) /\ OutHeld(<<>>, ended, NoBits, ended) /\ <<>> \in Bits
  BY <1>13, NothingHeld
<1>15. /\ OldBits' = OldBits /\ OldBytes' = OldBytes
       /\ Marker' = Marker /\ MarkerByte' = MarkerByte /\ Out' = Out
  BY <1>1, Still DEF Out
<1>16. Word(NoBits) /\ NoBits.put_bits < ByteBits
  <2>1. Word(NoBits)
    BY <1>14, HeldWord
  <2> QED
    BY <2>1, Widths DEF NoBits
<1>17. Ranges' /\ RestartsInv'
  <2>1. Word(cur') /\ cur'.put_bits < ByteBits /\ stuffing' = FALSE /\ Word(local')
    BY <1>1, <1>2, <1>16 DEF Ranges
  <2> QED
    BY <1>1, <2>1, StillRanges
<1>18. Room' /\ TakenInv' /\ DoneInv'
  BY <1>1, StillRoom, StillTaken
<1>19. TodoInv'
  <2>1. Marker
    BY <1>3, <1>4, <1>7
  <2>2. j <= Len(mcu) + 4
    BY <1>4, <1>9
  <2> QED
    BY <1>1, <1>3, <1>15, <2>1, <2>2 DEF TodoInv
<1>20. EmitInv'
  <2>1. Stream(Len(todo), cur, Out)'
    BY <1>1, <1>3, <1>10, <1>12, <1>14, <1>15 DEF Stream, Holds
  <2> QED
    BY <1>1, <2>1 DEF EmitInv
<1> QED
  BY <1>17, <1>18, <1>19, <1>20 DEF IInv

\* Counting with a remainder at every step or at the end.
LEMMA ModNext ==
  ASSUME NEW a \in Int, NEW b \in Nat \ {0}
  PROVE  ((a % b) + 1) % b = (a + 1) % b
<1> DEFINE q == a \div b
           r == a % b
<1>1. q \in Int /\ r \in 0..(b - 1) /\ a = b * q + r
  BY DivMod
<1> HIDE DEF q, r
<1>2. CASE r + 1 < b
  <2>1. PICK t \in 0..(b - 1), z \in Int : t = r + 1 /\ z = 0
    BY <1>1, <1>2
  <2>2. (b * q + t) % b = t /\ (b * z + t) % b = t
    BY <1>1, DivModUnique
  <2>3. b * q + t = a + 1 /\ b * z + t = r + 1
    BY <1>1, <2>1
  <2> QED
    BY <2>2, <2>3 DEF r
<1>3. CASE ~(r + 1 < b)
  <2>1. PICK t \in 0..(b - 1), z \in Int, y \in Int : t = 0 /\ z = 1 /\ y = q + 1
    BY <1>1
  <2>2. (b * y + t) % b = t /\ (b * z + t) % b = t
    BY <1>1, DivModUnique
  <2>3. r + 1 = b
    BY <1>1, <1>3
  <2>4. b * z + t = r + 1
    BY <2>1, <2>3
  <2>5. b * y + t = a + 1
    <3>1. b * (q + 1) = b * q + b
      BY <1>1
    <3> QED
      BY <1>1, <2>1, <2>3, <3>1
  <2> QED
    BY <2>2, <2>4, <2>5 DEF r
<1> QED
  BY <1>1, <1>2, <1>3

\* All operations are done.
LEMMA NothingLeft ==
  ASSUME IInv, pc = "emit", todo = <<>>
  PROVE  /\ Holds(BitsAt(0, mcu, Marker, OldBits),
                  BeforeAt(0, mcu, Marker, MarkerByte, OldBytes, OldBits), cur, Out)
         /\ BitsAt(0, mcu, Marker, OldBits)
              = (IF Marker THEN <<>> ELSE OldBits) \o McuBits(mcu)
         /\ BeforeAt(0, mcu, Marker, MarkerByte, OldBytes, OldBits)
              = IF Marker THEN Ended(OldBytes, OldBits) \o <<AllOnes, MarkerByte>> ELSE OldBytes
<1>1. Len(todo) = 0
  OBVIOUS
<1>2. Stream(0, cur, Out)
  BY <1>1 DEF IInv, EmitInv
<1>3. mcu \in Mcus /\ Len(mcu) \in Nat
  BY DEF IInv, Ranges, Mcus
<1>4. Len(mcu) - 0 = Len(mcu) /\ 0 <= Len(mcu)
  BY <1>3
<1>5. SubSeq(mcu, 1, Len(mcu)) = mcu
  <2>1. mcu \in Seq(Codes)
    BY <1>3 DEF Mcus
  <2> DEFINE s == SubSeq(mcu, 1, Len(mcu))
  <2>2. s \in Seq(Codes) /\ Len(s) = Len(mcu) /\ \A i \in 1..Len(mcu) : s[i] = mcu[i]
    BY <2>1
  <2> HIDE DEF s
  <2>3. s = mcu
    BY <2>1, <2>2, SeqEqual
  <2> QED
    BY <2>3 DEF s
<1>6. BitsAt(0, mcu, Marker, OldBits)
        = (IF Marker THEN <<>> ELSE OldBits) \o McuBits(mcu)
  BY <1>4, <1>5 DEF BitsAt
<1>7. BeforeAt(0, mcu, Marker, MarkerByte, OldBytes, OldBits)
        = IF Marker THEN Ended(OldBytes, OldBits) \o <<AllOnes, MarkerByte>> ELSE OldBytes
  BY <1>4 DEF BeforeAt
<1> QED
  BY <1>2, <1>6, <1>7 DEF Stream

\* The state of the copy is taken over.
LEMMA TakeOverRight ==
  ASSUME IInv, TakeOver, UNCHANGED <<setup, mcuVars, work, buffer, file>>, pc = "emit",
         pc' \in {"idle", "done"}
  PROVE  Room' /\ Taken' = Out /\ dest'.next = work.next
<1>1. /\ dest \in [next : Nat, free : Nat, size : Nat]
      /\ work \in [next : Nat, free : Nat] /\ work.free # 0
      /\ work.next + work.free = dest.size
  BY DEF IInv, Room
<1>2. /\ dest' \in [next : Nat, free : Nat, size : Nat]
      /\ dest'.next = work.next /\ dest'.free = work.free /\ dest'.size = dest.size
  BY <1>1 DEF TakeOver
<1>3. Room'
  BY <1>1, <1>2 DEF IInv, Room
<1> QED
  BY <1>2, <1>3 DEF Taken, Out

\* The end of finish_pass_huff and the destination keep the invariant.
LEMMA TermDestinationRight ==
  ASSUME IInv, TermDestination
  PROVE  IInv'
<1>1. /\ pc = "emit" /\ todo = <<>> /\ mcu = <<>> /\ pc' = "done" /\ saved' = cur
      /\ TakeOver
      /\ UNCHANGED <<setup, mcuVars, restarts, work, buffer, file, segments>>
      /\ UNCHANGED <<setup, mcuVars, work, buffer, file>>
      /\ UNCHANGED <<setup, mcu, restarts, segments>>
  BY DEF TermDestination, TakeOver, mcuVars
<1>2. Ranges /\ RestartsInv /\ Room
  BY DEF IInv
<1>3. Room' /\ Taken' = Out
  BY <1>1, TakeOverRight
<1>4. ~stuffing
  BY <1>1, <1>2 DEF Ranges
<1>5. Ranges' /\ RestartsInv'
  BY <1>1, <1>2, <1>4 DEF Ranges, Word, RestartsInv, mcuVars
<1>6. OldBits' = OldBits /\ OldBytes' = OldBytes
  BY <1>1, Still
<1>7. TodoInv' /\ EmitInv' /\ TakenInv'
  BY <1>1 DEF TodoInv, EmitInv, TakenInv
<1>8. Marker /\ MarkerByte = Eoi
  BY <1>1 DEF Marker, MarkerByte
<1>9. McuBits(mcu) = <<>>
  BY <1>1, McuBitsAppend
<1>10. /\ BitsAt(0, mcu, Marker, OldBits) = <<>>
       /\ BeforeAt(0, mcu, Marker, MarkerByte, OldBytes, OldBits)
            = Ended(OldBytes, OldBits) \o <<AllOnes, Eoi>>
       /\ Holds(BitsAt(0, mcu, Marker, OldBits),
                BeforeAt(0, mcu, Marker, MarkerByte, OldBytes, OldBits), cur, Out)
  <2>1. <<>> \o <<>> = <<>>
    OBVIOUS
  <2> QED
    BY <1>1, <1>8, <1>9, <2>1, NothingLeft
<1>11. Out = Ended(OldBytes, OldBits) \o <<AllOnes, Eoi>>
  <2> DEFINE before == BeforeAt(0, mcu, Marker, MarkerByte, OldBytes, OldBits)
  <2>1. before \in Seq(Memory)
    <3>1. PICK k \in Nat : k = 0
      OBVIOUS
    <3>2. BeforeAt(k, mcu, Marker, MarkerByte, OldBytes, OldBits) \in Seq(Memory)
      BY <1>2, StreamTypes, AtType
    <3> QED
      BY <3>1, <3>2
  <2>2. BitsHeld(<<>>, cur) /\ OutHeld(<<>>, before, cur, Out)
    BY <1>10 DEF Holds
  <2>3. before = Ended(OldBytes, OldBits) \o <<AllOnes, Eoi>>
    BY <1>10
  <2> HIDE DEF before
  <2>4. Out = before
    BY <2>1, <2>2, NothingHeld
  <2> QED
    BY <2>3, <2>4
<1>12. DoneInv'
  BY <1>3, <1>6, <1>11 DEF DoneInv
<1> QED
  BY <1>3, <1>5, <1>7, <1>12 DEF IInv

\* So does an MCU that is done and leaves the buffer to be written.
LEMMA EmptyBufferRight ==
  ASSUME IInv, EmptyBuffer
  PROVE  IInv'
<1>1. /\ setup.manager = "suspending" /\ pc \in {"idle", "suspended"}
      /\ file' = file \o Written
      /\ dest' = [dest EXCEPT !.next = 0, !.free = setup.size]
      /\ UNCHANGED <<setup, pc, saved, mcuVars, restarts, work, buffer, segments>>
      /\ UNCHANGED <<setup, mcu, restarts, segments>>
  BY DEF EmptyBuffer, mcuVars
<1>2. Ranges /\ RestartsInv /\ Room /\ TakenInv
  BY DEF IInv
<1>3. file' = Taken /\ Taken \in Seq(Memory)
  <2>1. Taken \in Seq(Memory)
    BY <1>2, OutTypes
  <2> QED
    BY <1>1, <2>1 DEF Taken, OutOf, Written
<1>4. /\ dest' \in [next : Nat, free : Nat, size : Nat]
      /\ dest'.next = 0 /\ dest'.free = setup.size /\ dest'.size = dest.size
      /\ dest.size = setup.size /\ setup.size # 0
  <2>1. setup.size \in Nat \ {0}
    BY <1>2, SetupsAssumption DEF Ranges
  <2>2. dest \in [next : Nat, free : Nat, size : Nat] /\ dest.size = setup.size
    BY <1>1, <1>2 DEF Room
  <2> QED
    BY <1>1, <2>1, <2>2
<1>5. Room'
  BY <1>1, <1>2, <1>4 DEF Room
<1>6. Ranges' /\ RestartsInv'
  BY <1>1, <1>2, <1>3 DEF Ranges, Word, RestartsInv, mcuVars
<1>7. OldBits' = OldBits /\ OldBytes' = OldBytes
  BY <1>1, Still
<1>8. Taken' = Taken
  <2>1. Taken' = OutOf(file', buffer', 0)
    BY <1>4 DEF Taken
  <2>2. OutOf(Taken, buffer', 0) = Taken
    BY <1>3, NothingOut
  <2> QED
    BY <1>3, <2>1, <2>2
<1>9. TodoInv' /\ EmitInv' /\ DoneInv'
  BY <1>1 DEF TodoInv, EmitInv, DoneInv
<1>10. TakenInv'
  BY <1>1, <1>2, <1>7, <1>8 DEF TakenInv
<1> QED
  BY <1>5, <1>6, <1>9, <1>10 DEF IInv

-----------------------------------------------------------------------------
(* The end of an MCU.                                                      *)

\* What the restart intervals and their counters are after an MCU.
LEMMA SegmentsRight ==
  ASSUME IInv, mcu # <<>>, pc = "emit",
         restarts' = RestartsAfterMcu, segments' = SegmentsAfterMcu,
         UNCHANGED setup
  PROVE  /\ restarts' \in [to_go : Nat, next_num : Int]
         /\ segments' \in Seq(Intervals) /\ Len(segments') >= 1
         /\ RestartsInv'
         /\ OldBits' = (IF Marker THEN <<>> ELSE OldBits) \o McuBits(mcu)
         /\ OldBytes' = IF Marker THEN Ended(OldBytes, OldBits) \o <<AllOnes, MarkerByte>>
                        ELSE OldBytes
<1> DEFINE l == Len(segments)
           last == segments[l]
<1>1. /\ restarts \in [to_go : Nat, next_num : Int]
      /\ segments \in Seq(Intervals) /\ l \in Nat /\ l >= 1 /\ last \in Intervals
      /\ mcu \in Mcus /\ setup.interval \in Nat /\ RestartsInv
  BY SetupsAssumption DEF IInv, Ranges
<1>2. /\ OldBits \in Bits /\ OldBytes \in Seq(Memory) /\ restarts.next_num \in Int
      /\ McuBits(mcu) \in Bits
  <2>1. McuBits(mcu) \in Bits
    BY <1>1, McuBitsAppend DEF Mcus
  <2> QED
    BY <2>1, StreamTypes DEF IInv
<1>3. RstMarkers \in Nat \ {0}
  BY Widths
<1>4. Marker = RestartDue /\ MarkerByte = 1 + restarts.next_num
  BY DEF Marker, MarkerByte, RestartDue
<1>5. Len(last) \in Nat
  BY <1>1 DEF Intervals
<1>6. CASE RestartDue
  <2> DEFINE new == <<mcu>>
  <2>1. segments' = Append(segments, new) /\ new \in Intervals /\ Len(new) = 1
    BY <1>1, <1>6 DEF SegmentsAfterMcu, Intervals
  <2>2. new = Append(<<>>, mcu) /\ <<>> \in Intervals
    BY DEF Intervals
  <2> HIDE DEF new
  <2>3. /\ segments' \in Seq(Intervals) /\ Len(segments') = l + 1 /\ segments'[l + 1] = new
        /\ \A s \in 1..l : segments'[s] = segments[s]
    BY <1>1, <2>1
  <2> HIDE DEF l
  <2>4. setup.interval > 0 /\ restarts.to_go = 0 /\ setup.interval # 0
    BY <1>1, <1>6 DEF RestartDue
  <2>5. restarts' = [to_go |-> setup.interval - 1,
                     next_num |-> (restarts.next_num + 1) % RstMarkers]
    BY <1>6, <2>4 DEF RestartsAfterMcu
  <2>6. (restarts.next_num + 1) % RstMarkers = l % RstMarkers /\ l % RstMarkers \in Int
    <3>1. PICK a \in Int : a = l - 1 /\ a + 1 = l
      BY <1>1
    <3>2. ((a % RstMarkers) + 1) % RstMarkers = (a + 1) % RstMarkers
      BY <1>3, ModNext
    <3>3. restarts.next_num = a % RstMarkers
      BY <1>1, <3>1 DEF RestartsInv, l
    <3>4. l \in Int /\ RstMarkers - 1 \in Int
      BY <1>1, <1>3
    <3>5. l % RstMarkers \in 0..(RstMarkers - 1)
      BY <1>3, <3>4, DivMod
    <3>6. l % RstMarkers \in Int
      BY <3>4, <3>5
    <3> QED
      BY <3>1, <3>2, <3>3, <3>6
  <2>7. restarts' \in [to_go : Nat, next_num : Int]
    <3>1. setup.interval - 1 \in Nat
      BY <1>1, <2>4
    <3> QED
      BY <2>5, <2>6, <3>1
  <2>8. RestartsInv'
    <3>1. restarts'.next_num = (Len(segments') - 1) % RstMarkers
      <4>1. Len(segments') - 1 = l
        BY <1>1, <2>3
      <4> QED
        BY <2>5, <2>6, <4>1
    <3>2. restarts'.to_go + Len(segments'[Len(segments')]) = setup.interval
      <4>1. segments'[Len(segments')] = new /\ Len(new) = 1
        BY <2>1, <2>3
      <4>2. restarts'.to_go = setup.interval - 1
        BY <2>5
      <4> QED
        BY <1>1, <4>1, <4>2
    <3>3. \A s \in 1..(Len(segments') - 1) : Len(segments'[s]) = setup.interval
      <4> SUFFICES ASSUME NEW s \in 1..(Len(segments') - 1)
          PROVE  Len(segments'[s]) = setup.interval
        OBVIOUS
      <4>1. s \in 1..l /\ (s \in 1..(l - 1) \/ s = l)
        BY <1>1, <2>3
      <4>2. segments'[s] = segments[s]
        BY <2>3, <4>1
      <4>3. CASE s \in 1..(l - 1)
        BY <1>1, <4>2, <4>3 DEF RestartsInv, l
      <4>4. CASE s = l
        <5>1. restarts.to_go + Len(last) = setup.interval
          BY <1>1, <2>4 DEF RestartsInv, l
        <5> QED
          BY <1>5, <2>4, <4>2, <4>4, <5>1
      <4> QED
        BY <4>1, <4>3, <4>4
    <3> QED
      BY <2>4, <3>1, <3>2, <3>3 DEF RestartsInv
  <2>9. OldBits' = <<>> \o McuBits(mcu)
    <3>1. IntervalBits(new) = IntervalBits(<<>>) \o McuBits(mcu)
      BY <1>1, <2>2, IntervalBitsAppend DEF Intervals
    <3>2. IntervalBits(<<>>) = <<>>
      BY IntervalBitsAppend
    <3>3. segments'[Len(segments')] = new
      BY <2>3
    <3> QED
      BY <3>1, <3>2, <3>3 DEF OldBits
  <2>10. OldBytes' = Ended(OldBytes, OldBits) \o <<AllOnes, MarkerByte>>
    <3>1. Complete(Append(segments, new)) = OldBytes \o IntervalBytes(l, last)
      BY <1>1, <2>1, CompleteRight DEF OldBytes, l
    <3> DEFINE data == StuffedBytes(BytesOf(PaddedBits(OldBits)))
               end == <<AllOnes, MarkerByte>>
    <3>2. MarkerByte = 1 + ((l - 1) % RstMarkers)
      BY <1>1, <1>4 DEF RestartsInv, l
    <3>3. IntervalBytes(l, last) = data \o end
      BY <3>2 DEF IntervalBytes, OldBits, l
    <3>4. data \in Seq(Memory)
      BY <1>2, OutType
    <3>5. end \in Seq(Memory)
      BY <1>2, <1>4, Widths DEF Memory
    <3>6. Ended(OldBytes, OldBits) = OldBytes \o data
      BY DEF Ended
    <3> HIDE DEF data, end
    <3>7. OldBytes \o (data \o end) = (OldBytes \o data) \o end
      BY <1>2, <3>4, <3>5, ConcatAssociative, SMTT(30)
    <3>8. OldBytes' = Complete(segments')
      BY DEF OldBytes
    <3> QED
      BY <2>1, <3>1, <3>3, <3>6, <3>7, <3>8 DEF end
  <2>11. Len(segments') >= 1
    <3>1. l \in Nat
      BY <1>1
    <3> QED
      BY <2>3, <3>1
  <2>12. Marker
    BY <1>4, <1>6
  <2>13. OldBits' = (IF Marker THEN <<>> ELSE OldBits) \o McuBits(mcu)
    BY <2>9, <2>12
  <2> QED
    BY <2>3, <2>7, <2>8, <2>10, <2>11, <2>12, <2>13
<1>7. CASE ~RestartDue
  <2> DEFINE new == Append(last, mcu)
  <2>1. segments' = [segments EXCEPT ![l] = new]
    BY <1>7 DEF SegmentsAfterMcu
  <2>2. new \in Intervals /\ Len(new) = Len(last) + 1
    BY <1>1 DEF Intervals
  <2> HIDE DEF new
  <2>3. /\ segments' \in Seq(Intervals) /\ Len(segments') = l /\ segments'[l] = new
        /\ \A s \in 1..(l - 1) : segments'[s] = segments[s]
    BY <1>1, <2>1, <2>2
  <2>4. restarts' = IF setup.interval = 0 THEN restarts
                    ELSE [restarts EXCEPT !.to_go = @ - 1]
    BY <1>7 DEF RestartsAfterMcu
  <2>5. setup.interval # 0 => restarts.to_go - 1 \in Nat
    BY <1>1, <1>7 DEF RestartDue
  <2>6. /\ restarts' \in [to_go : Nat, next_num : Int]
        /\ restarts'.next_num = restarts.next_num
        /\ setup.interval = 0 => restarts'.to_go = restarts.to_go
        /\ setup.interval # 0 => restarts'.to_go = restarts.to_go - 1
    <3>1. restarts \in [to_go : Nat, next_num : Int]
      BY <1>1
    <3>2. CASE setup.interval = 0
      <4>1. restarts' = restarts
        BY <2>4, <3>2
      <4> QED
        BY <3>1, <3>2, <4>1
    <3>3. CASE setup.interval # 0
      <4>1. restarts' = [restarts EXCEPT !.to_go = @ - 1] /\ restarts.to_go - 1 \in Nat
        BY <2>4, <2>5, <3>3
      <4>2. /\ restarts' \in [to_go : Nat, next_num : Int]
            /\ restarts'.next_num = restarts.next_num
            /\ restarts'.to_go = restarts.to_go - 1
        BY <3>1, <4>1
      <4> QED
        BY <3>3, <4>2
    <3> QED
      BY <3>2, <3>3
  <2> HIDE DEF l
  <2>7. RestartsInv'
    <3>1. restarts'.next_num = (Len(segments') - 1) % RstMarkers
      BY <1>1, <2>3, <2>6 DEF RestartsInv, l
    <3>2. setup.interval = 0 => restarts'.to_go = 0 /\ Len(segments') = 1
      BY <1>1, <2>3, <2>6 DEF RestartsInv, l
    <3>3. setup.interval # 0 =>
            restarts'.to_go + Len(segments'[Len(segments')]) = setup.interval
      <4>1. setup.interval # 0 => restarts.to_go + Len(last) = setup.interval
        BY <1>1 DEF RestartsInv, l
      <4> QED
        <5> SUFFICES ASSUME setup.interval # 0
            PROVE  restarts'.to_go + Len(segments'[Len(segments')]) = setup.interval
          OBVIOUS
        <5>1. segments'[Len(segments')] = new /\ Len(new) = Len(last) + 1
          BY <2>2, <2>3
        <5>2. /\ restarts'.to_go = restarts.to_go - 1 /\ restarts.to_go \in Int
              /\ restarts.to_go + Len(last) = setup.interval /\ Len(last) \in Int
          BY <1>1, <1>5, <2>6, <4>1
        <5> QED
          BY <5>1, <5>2
    <3>4. \A s \in 1..(l - 1) : Len(segments'[s]) = setup.interval
      BY <1>1, <2>3 DEF RestartsInv, l
    <3> QED
      BY <2>3, <3>1, <3>2, <3>3, <3>4 DEF RestartsInv
  <2>8. OldBits' = OldBits \o McuBits(mcu)
    <3>1. IntervalBits(new) = IntervalBits(last) \o McuBits(mcu)
      BY <1>1, IntervalBitsAppend DEF Intervals, new
    <3> QED
      BY <2>3, <3>1 DEF OldBits, l
  <2>9. OldBytes' = OldBytes
    BY <1>1, <2>1, <2>2, CompleteRight DEF OldBytes, l
  <2> QED
    BY <1>1, <1>4, <1>7, <2>3, <2>6, <2>7, <2>8, <2>9
<1> QED
  BY <1>6, <1>7

\* An MCU that is done is taken over with its bits behind those of the interval.
LEMMA CompleteMcuRight ==
  ASSUME IInv, CompleteMcu
  PROVE  IInv'
<1>1. /\ pc = "emit" /\ todo = <<>> /\ mcu # <<>> /\ pc' = "idle" /\ saved' = cur
      /\ TakeOver /\ restarts' = RestartsAfterMcu /\ segments' = SegmentsAfterMcu
      /\ UNCHANGED <<setup, mcuVars, work, buffer, file>>
  BY DEF CompleteMcu, TakeOver
<1>2. Ranges /\ RestartsInv /\ Room
  BY DEF IInv
<1>3. Room' /\ Taken' = Out
  BY <1>1, TakeOverRight
<1>4. /\ restarts' \in [to_go : Nat, next_num : Int]
      /\ segments' \in Seq(Intervals) /\ Len(segments') >= 1
      /\ RestartsInv'
      /\ OldBits' = (IF Marker THEN <<>> ELSE OldBits) \o McuBits(mcu)
      /\ OldBytes' = IF Marker THEN Ended(OldBytes, OldBits) \o <<AllOnes, MarkerByte>>
                     ELSE OldBytes
  BY <1>1, SegmentsRight
<1>5. ~stuffing
  BY <1>1, <1>2 DEF Ranges
<1>6. Ranges'
  BY <1>1, <1>2, <1>4, <1>5 DEF Ranges, Word, mcuVars
<1>7. Holds(OldBits', OldBytes', cur, Out)
  BY <1>1, <1>4, NothingLeft
<1>8. TakenInv'
  BY <1>1, <1>3, <1>7 DEF TakenInv, Holds
<1>9. TodoInv' /\ EmitInv' /\ DoneInv'
  BY <1>1 DEF TodoInv, EmitInv, DoneInv
<1> QED
  BY <1>3, <1>4, <1>6, <1>8, <1>9 DEF IInv

-----------------------------------------------------------------------------
(* The bytes.                                                              *)

\* The byte that is written next is one.
LEMMA NextByteType ==
  ASSUME IInv, WantsByte
  PROVE  NextByte \in Memory /\ pc \in {"emit", "shift"}
<1>1. Ranges /\ RestartsInv
  BY DEF IInv
<1>2. CASE pc = "emit"
  <2> DEFINE n == Len(todo)
  <2>1. todo # <<>> /\ Head(todo).op = "byte"
    BY <1>2 DEF WantsByte
  <2>2. n \in Nat /\ n # 0 /\ n <= Len(mcu) + 4 /\ Head(todo) = OpLeft(n, mcu, MarkerByte)
    <3>1. n = Len(todo)
      OBVIOUS
    <3> HIDE DEF n
    <3> QED
      BY <1>2, <2>1, <3>1, NextOperation
  <2>3. mcu \in Mcus /\ MarkerByte \in Int /\ AllOnes \in Int
    BY <1>1, StreamTypes, Widths
  <2> HIDE DEF n
  <2>4. Head(todo).val = AllOnes \/ Head(todo).val = MarkerByte
    BY <2>1, <2>2, <2>3, OpKind
  <2> QED
    BY <1>2, <2>3, <2>4 DEF NextByte, Memory
<1>3. CASE pc = "shift"
  <2>1. TopByte \in Int
    <3> DEFINE v == local.put_buffer
               p == Pow2[2 * ByteBits]
               q == Pow2[ByteBits]
    <3>1. ByteBits \in Nat /\ 2 * ByteBits \in Nat /\ 4 * ByteBits \in Nat
      BY Widths
    <3>2. p \in Nat \ {0} /\ q \in Nat \ {0} /\ Pow2[4 * ByteBits] \in Int
      BY <3>1, Pow2Type
    <3>3. v \in Int
      BY <1>1, <3>2 DEF Ranges, Word
    <3> HIDE DEF v, p, q
    <3>4. v \div p \in Int
      BY <3>2, <3>3, DivMod
    <3>5. (v \div p) % q \in 0..(q - 1)
      BY <3>2, <3>4, DivMod
    <3>6. (v \div p) % q \in Int
      BY <3>2, <3>5
    <3> QED
      BY <3>6 DEF TopByte, v, p, q
  <2> QED
    BY <1>3, <2>1 DEF NextByte, Memory
<1> QED
  BY <1>2, <1>3 DEF WantsByte

\* A byte put into the buffer comes behind all of it, and nothing else changes.
LEMMA StoredRight ==
  ASSUME IInv, WantsByte
  PROVE  /\ Stored \in [0..(dest.size - 1) -> Memory]
         /\ OutOf(file, Stored, work.next + 1) = Append(Out, NextByte)
         /\ OutOf(file, Stored, dest.next) = Taken
         /\ Append(Out, NextByte) \in Seq(Memory)
         /\ Append(Out, NextByte) = Out \o <<NextByte>>
<1>1. NextByte \in Memory /\ pc \in {"emit", "shift"}
  BY NextByteType
<1>2. Ranges /\ Room
  BY DEF IInv
<1>3. /\ Taken \in Seq(Memory) /\ Out \in Seq(Memory)
      /\ dest.next \in Nat /\ work.next \in Nat /\ work.next \in 0..(dest.size - 1)
      /\ dest.size - 1 \in Int
  BY <1>2, OutTypes
<1>4. buffer \in [0..(dest.size - 1) -> Memory] /\ dest.next <= work.next
  BY <1>1, <1>2 DEF Room
<1>5. /\ Stored \in [0..(dest.size - 1) -> Memory] /\ Stored[work.next] = NextByte
      /\ \A i \in 0..(work.next - 1) : Stored[i] = buffer[i]
  BY <1>1, <1>3, <1>4 DEF Stored
<1>6. file \in Seq(Memory)
  BY <1>2 DEF Ranges
<1>7. \A i \in 0..(work.next - 1) : buffer[i] \in Memory
  BY <1>3, <1>4
<1>8. OutOf(file, Stored, work.next + 1) = Append(Out, NextByte)
  <2> DEFINE n == work.next
             s == Stored
  <2>1. /\ n \in Nat /\ (\A i \in 0..(n - 1) : buffer[i] \in Memory)
        /\ (\A i \in 0..(n - 1) : s[i] = buffer[i]) /\ s[n] \in Memory /\ s[n] = NextByte
    BY <1>1, <1>3, <1>5, <1>7
  <2> HIDE DEF n, s
  <2>2. OutOf(file, s, n + 1) = Append(OutOf(file, buffer, n), s[n])
    BY <1>6, <2>1, OutOfRight
  <2> QED
    BY <2>1, <2>2 DEF n, s, Out
<1>9. OutOf(file, Stored, dest.next) = Taken
  <2> DEFINE n == dest.next
             s == Stored
  <2>1. /\ n \in Nat /\ (\A i \in 0..(n - 1) : buffer[i] \in Memory)
        /\ (\A i \in 0..(n - 1) : s[i] = buffer[i])
    BY <1>3, <1>4, <1>5, <1>7
  <2> HIDE DEF n, s
  <2>2. OutOf(file, s, n) = OutOf(file, buffer, n)
    BY <1>6, <2>1, OutOfRight
  <2> QED
    BY <2>2 DEF n, s, Taken
<1>10. /\ Append(Out, NextByte) \in Seq(Memory)
       /\ Append(Out, NextByte) = Out \o <<NextByte>>
  BY <1>1, <1>3, OneByte
<1> QED
  BY <1>5, <1>8, <1>9, <1>10

\* An MCU that finds no room leaves what was taken over as it was.
LEMMA SuspendMcuRight ==
  ASSUME IInv, SuspendMcu
  PROVE  IInv'
<1>1. /\ WantsByte /\ setup.manager = "suspending" /\ buffer' = Stored
      /\ pc' = IF mcu = <<>> THEN "failed" ELSE "suspended"
      /\ todo' = <<>> /\ stuffing' = FALSE
      /\ UNCHANGED <<setup, saved, cur, local, mcu, restarts, dest, work, file, segments>>
      /\ UNCHANGED <<setup, mcu, restarts, segments>>
  BY DEF SuspendMcu
<1>2. Ranges /\ Room /\ RestartsInv /\ TakenInv
  BY DEF IInv
<1>3. pc \in {"emit", "shift"}
  BY <1>1, NextByteType
<1>4. /\ Stored \in [0..(dest.size - 1) -> Memory]
      /\ OutOf(file, Stored, dest.next) = Taken
  BY <1>1, StoredRight
<1>5. Ranges' /\ RestartsInv'
  BY <1>1, <1>2 DEF Ranges, Word, RestartsInv
<1>6. Room'
  BY <1>1, <1>2, <1>4 DEF Room
<1>7. OldBits' = OldBits /\ OldBytes' = OldBytes /\ Taken' = Taken
  BY <1>1, <1>4, Still DEF Taken
<1>8. TodoInv' /\ EmitInv' /\ DoneInv'
  BY <1>1 DEF TodoInv, EmitInv, DoneInv
<1>9. TakenInv'
  BY <1>1, <1>2, <1>3, <1>7 DEF TakenInv
<1> QED
  BY <1>5, <1>6, <1>8, <1>9 DEF IInv

\* What follows when one more byte is in the stream.
LEMMA ByteRight ==
  ASSUME IInv, WantsByte, ByteEmitted,
         UNCHANGED <<setup, pc, saved, cur, mcu, restarts, segments>>,
         file' \in Seq(Memory), Out' = Append(Out, NextByte)
  PROVE  Ranges' /\ RestartsInv' /\ TodoInv' /\ EmitInv' /\ DoneInv'
<1> DEFINE n == Len(todo)
<1>1. Ranges /\ Room /\ RestartsInv /\ TodoInv /\ EmitInv
  BY DEF IInv
<1>2. /\ OldBits \in Bits /\ OldBytes \in Seq(Memory) /\ MarkerByte \in Int
      /\ Marker \in BOOLEAN /\ mcu \in Mcus /\ Len(mcu) \in Nat
  BY <1>1, StreamTypes
<1>3. Out \in Seq(Memory)
  BY <1>1, OutTypes
<1>4. /\ Append(Out, NextByte) = Out \o <<NextByte>>
      /\ NextByte \in Memory /\ Out' \in Seq(Memory)
  BY StoredRight, NextByteType
<1>5. /\ OldBits' = OldBits /\ OldBytes' = OldBytes
      /\ Marker' = Marker /\ MarkerByte' = MarkerByte
  <2>1. UNCHANGED <<setup, mcu, restarts, segments>>
    OBVIOUS
  <2> QED
    BY <2>1, Still
<1>6. RestartsInv' /\ DoneInv'
  <2>1. pc' # "done"
    BY NextByteType
  <2> QED
    BY <1>1, <2>1 DEF RestartsInv, DoneInv
<1>7. ASSUME Word(local'), stuffing' \in BOOLEAN, stuffing' => pc = "shift"
      PROVE  Ranges'
  BY <1>1, <1>7 DEF Ranges, Word
<1>8. CASE pc = "emit"
  <2> DEFINE j == n - 1
             before == BeforeAt(n, mcu, Marker, MarkerByte, OldBytes, OldBits)
  <2>1. /\ todo # <<>> /\ Head(todo).op = "byte" /\ todo' = Tail(todo)
        /\ UNCHANGED <<local, stuffing>> /\ NextByte = Head(todo).val
    BY <1>8 DEF WantsByte, ByteEmitted, NextByte
  <2>2. /\ n \in Nat /\ n # 0 /\ j \in Nat /\ n <= Len(mcu) + 4
        /\ n <= Len(mcu) \/ Marker
        /\ Head(todo) = OpLeft(n, mcu, MarkerByte)
        /\ todo' = TodoOf(j, mcu, MarkerByte) /\ Len(todo') = j
    <3>1. n = Len(todo)
      OBVIOUS
    <3> HIDE DEF n
    <3> QED
      BY <1>8, <2>1, <3>1, NextOperation
  <2>3. Stream(n, cur, Out)
    BY <1>1, <1>8 DEF EmitInv
  <2>4. j = n - 1
    OBVIOUS
  <2> HIDE DEF n, j
  <2>5. n = Len(mcu) + 2 \/ n = Len(mcu) + 1
    BY <1>2, <2>1, <2>2, OpKind
  <2>6. Marker
    BY <1>2, <2>2, <2>5
  <2>7. BitsAt(n, mcu, Marker, OldBits) = <<>>
    BY <1>2, <2>2, <2>5, AtMarker
  <2>8. BitsHeld(<<>>, cur) /\ OutHeld(<<>>, before, cur, Out)
    BY <2>3, <2>7 DEF Stream, Holds
  <2>9. before \in Seq(Memory)
    BY <1>2, <2>2, AtType
  <2> HIDE DEF before
  <2>10. Out = before /\ cur.put_bits = 0
    BY <2>8, <2>9, NothingHeld
  <2>11. j = Len(mcu) + 1 \/ j = Len(mcu)
    BY <1>2, <2>4, <2>5
  <2>12. BitsAt(j, mcu, Marker, OldBits) = <<>>
    <3>1. CASE j = Len(mcu) + 1
      BY <1>2, <2>2, <3>1, AtMarker
    <3>2. CASE j = Len(mcu)
      <4>1. BitsAt(j, mcu, Marker, OldBits) = IF Marker THEN <<>> ELSE OldBits
        BY <1>2, <2>2, <3>2, AtMarker
      <4> QED
        BY <2>6, <4>1
    <3> QED
      BY <2>11, <3>1, <3>2
  <2>13. BeforeAt(j, mcu, Marker, MarkerByte, OldBytes, OldBits)
           = Append(before, NextByte)
    <3> DEFINE ended == Ended(OldBytes, OldBits)
    <3>1. CASE n = Len(mcu) + 2
      <4>1. j = Len(mcu) + 1
        BY <1>2, <2>4, <3>1
      <4>2. Head(todo).val = AllOnes
        BY <1>2, <2>2, <3>1, OpKind
      <4>3. before = ended
        BY <1>2, <2>2, <3>1, BeforeMarker DEF before
      <4>4. BeforeAt(j, mcu, Marker, MarkerByte, OldBytes, OldBits) = Append(ended, AllOnes)
        BY <1>2, <2>2, <4>1, BeforeMarker
      <4> QED
        BY <2>1, <4>2, <4>3, <4>4
    <3>2. CASE n = Len(mcu) + 1
      <4>1. j = Len(mcu)
        <5>1. Len(mcu) \in Nat
          BY <1>2
        <5> QED
          BY <2>4, <3>2, <5>1
      <4>2. Head(todo).val = MarkerByte
        BY <1>2, <2>2, <3>2, OpKind
      <4>3. before = Append(ended, AllOnes)
        BY <1>2, <2>2, <3>2, BeforeMarker DEF before
      <4>4. BeforeAt(j, mcu, Marker, MarkerByte, OldBytes, OldBits)
              = Append(Append(ended, AllOnes), MarkerByte)
        <5>1. BeforeAt(j, mcu, Marker, MarkerByte, OldBytes, OldBits)
                = IF Marker THEN Append(Append(ended, AllOnes), MarkerByte) ELSE OldBytes
          <6>1. j = Len(mcu) =>
                  BeforeAt(j, mcu, Marker, MarkerByte, OldBytes, OldBits)
                    = IF Marker THEN Append(Append(Ended(OldBytes, OldBits), AllOnes),
                                            MarkerByte)
                      ELSE OldBytes
            BY <1>2, <2>2, BeforeMarker, SMTT(30)
          <6> QED
            BY <4>1, <6>1
        <5> QED
          BY <2>6, <5>1
      <4> QED
        BY <2>1, <4>2, <4>3, <4>4
    <3> QED
      BY <2>5, <3>1, <3>2
  <2>14. OutHeld(<<>>, Out', cur, Out')
    <3>1. OutHeld(<<>>, Out', NoBits, Out')
      BY <1>4, NothingHeld
    <3>2. NoBits.put_bits = cur.put_bits
      BY <2>10 DEF NoBits
    <3> QED
      BY <3>1, <3>2 DEF OutHeld
  <2>15. Ranges'
    <3>1. Word(local') /\ stuffing' \in BOOLEAN /\ ~stuffing'
      BY <1>1, <1>8, <2>1 DEF Ranges
    <3> QED
      BY <1>7, <3>1
  <2>16. TodoInv'
    <3>1. j <= Len(mcu) + 4
      BY <1>2, <2>11
    <3> QED
      BY <1>5, <1>8, <2>2, <2>6, <3>1 DEF TodoInv
  <2>17. EmitInv'
    <3>1. Out' = Append(before, NextByte)
      BY <2>10
    <3>2. Stream(Len(todo), cur, Out)'
      BY <1>5, <2>2, <2>8, <2>12, <2>13, <2>14, <3>1 DEF Stream, Holds
    <3> QED
      BY <1>8, <3>2 DEF EmitInv
  <2> QED
    BY <1>6, <2>15, <2>16, <2>17
<1>9. CASE pc = "shift"
  <2> DEFINE k == n - 1
             bits == BitsAt(k, mcu, Marker, OldBits)
             before == BeforeAt(k, mcu, Marker, MarkerByte, OldBytes, OldBits)
  <2>1. n \in Nat /\ (n \in 1..Len(mcu) \/ n = Len(mcu) + 4) /\ k \in Nat
    <3>1. n \in Nat /\ (n \in 1..Len(mcu) \/ n = Len(mcu) + 4)
      BY <1>1, <1>9 DEF TodoInv
    <3>2. k \in Nat
      BY <1>2, <3>1
    <3> QED
      BY <3>1, <3>2
  <2>2. todo' = todo
    BY <1>9 DEF ByteEmitted
  <2>3. TodoInv'
    BY <1>1, <1>5, <1>9, <2>2 DEF TodoInv
  <2>4. k = Len(todo') - 1
    BY <2>2
  <2>5. \A b, out : Stream(k, b, out) <=> BitsHeld(bits, b) /\ OutHeld(bits, before, b, out)
    BY DEF Stream, Holds
  <2>6. \A b, out : Stream(k, b, out)' <=> BitsHeld(bits, b) /\ OutHeld(bits, before, b, out)
    BY <1>5, <2>2 DEF Stream, Holds
  <2>7. bits \in Bits /\ before \in Seq(Memory)
    <3> HIDE DEF k
    <3> QED
      BY <1>2, <2>1, AtType
  <2>8. Len(todo') - 1 = k /\ pc' = "shift"
    BY <1>9, <2>2
  <2>9. local.put_bits - ByteBits = Shifted.put_bits
        /\ Shifted.put_buffer = (local.put_buffer * Pow2[ByteBits]) % Pow2[4 * ByteBits]
    BY DEF Shifted
  <2>10. Word(local)
    BY <1>1 DEF Ranges
  <2>11. CASE stuffing
    <3>1. stuffing' = FALSE /\ local' = Shifted /\ NextByte = 0
      BY <1>9, <2>11 DEF ByteEmitted, NextByte
    <3>2. Stream(k, Shifted, Out \o <<0>>)
      BY <1>1, <1>9, <2>11 DEF EmitInv
    <3>3. Out' = Out \o <<0>>
      BY <1>4, <3>1
    <3> HIDE DEF k, bits, before
    <3>4. BitsHeld(bits, local') /\ OutHeld(bits, before, local', Out')
      BY <2>5, <3>1, <3>2, <3>3
    <3>5. Ranges'
      <4>1. Word(local')
        <5> DEFINE b == local'
        <5>1. BitsHeld(bits, b)
          BY <3>4
        <5> HIDE DEF b
        <5>2. Word(b)
          BY <2>7, <5>1, HeldWord
        <5> QED
          BY <5>2 DEF b
      <4> QED
        BY <1>7, <3>1, <4>1
    <3>6. EmitInv'
      <4>1. Stream(k, local, Out)'
        BY <2>6, <3>4 DEF k
      <4> QED
        BY <2>8, <3>1, <4>1 DEF EmitInv, k
    <3> QED
      BY <1>6, <2>3, <3>5, <3>6
  <2>12. CASE ~stuffing
    <3> DEFINE byte == Value(SubSeq(bits, Len(bits) - local.put_bits + 1,
                                    Len(bits) - local.put_bits + ByteBits))
    <3>1. local.put_bits >= ByteBits /\ NextByte = TopByte
      BY <1>9, <2>12 DEF WantsByte, ByteReady, NextByte
    <3>2. Stream(k, local, Out)
      BY <1>1, <1>9, <2>12 DEF EmitInv
    <3>3. BitsHeld(bits, local) /\ OutHeld(bits, before, local, Out)
      BY <2>5, <3>2
    <3> HIDE DEF k, bits, before
    <3>4. TopByte = byte /\ BitsHeld(bits, Shifted)
      <4> DEFINE b == Shifted
      <4>1. /\ b.put_bits = local.put_bits - ByteBits
            /\ b.put_buffer = (local.put_buffer * Pow2[ByteBits]) % Pow2[4 * ByteBits]
        BY <2>9
      <4> HIDE DEF b
      <4>2. /\ (local.put_buffer \div Pow2[2 * ByteBits]) % Pow2[ByteBits] = byte
            /\ BitsHeld(bits, b)
        BY <2>7, <3>1, <3>3, <4>1, TakeByte
      <4> QED
        BY <4>2 DEF TopByte, b
    <3> HIDE DEF byte
    <3>5. OutHeld(bits, before, Shifted, Out \o Stuffing(TopByte))
      <4> DEFINE b == Shifted
      <4>1. b.put_bits = local.put_bits - ByteBits
        BY <2>9
      <4> HIDE DEF b
      <4>2. OutHeld(bits, before, b, Out \o Stuffing(byte))
        BY <2>7, <3>1, <3>3, <4>1, OutByte DEF byte
      <4> QED
        BY <3>4, <4>2 DEF b
    <3>6. CASE TopByte = AllOnes
      <4>1. stuffing' = TRUE /\ local' = local
        BY <1>9, <2>12, <3>6 DEF ByteEmitted
      <4>2. Out \o Stuffing(TopByte) = Out' \o <<0>>
        <5>1. PICK a \in Memory, z \in Memory : a = AllOnes /\ z = 0
          BY Widths DEF Memory
        <5>2. Out \o <<a, z>> = (Out \o <<a>>) \o <<z>>
          <6>1. \A s \in Seq(Memory), x \in Memory, y \in Memory :
                  s \o <<x, y>> = (s \o <<x>>) \o <<y>>
            BY OneByte
          <6> QED
            BY <1>3, <6>1
        <5>3. Stuffing(TopByte) = <<AllOnes, 0>>
          BY <3>6 DEF Stuffing
        <5>4. Out' = Out \o <<AllOnes>>
          BY <1>4, <3>1, <3>6
        <5> QED
          BY <5>1, <5>2, <5>3, <5>4
      <4>3. Shifted' = Shifted
        BY <4>1 DEF Shifted
      <4>4. Ranges'
        BY <1>7, <1>9, <2>10, <4>1
      <4>5. EmitInv'
        <5>1. BitsHeld(BitsAt(Len(todo) - 1, mcu, Marker, OldBits), local)'
          BY <1>5, <2>8, <3>3, <4>1 DEF bits
        <5>2. local'.put_bits >= ByteBits
          BY <3>1, <4>1
        <5>3. Stream(k, Shifted, Out \o <<0>>)'
          <6>1. BitsHeld(bits, Shifted') /\ OutHeld(bits, before, Shifted', Out' \o <<0>>)
            BY <3>4, <3>5, <4>2, <4>3
          <6> QED
            BY <2>6, <6>1 DEF k
        <5> QED
          BY <2>8, <4>1, <5>1, <5>2, <5>3 DEF EmitInv, k
      <4> QED
        BY <1>6, <2>3, <4>4, <4>5
    <3>7. CASE TopByte # AllOnes
      <4>1. stuffing' = FALSE /\ local' = Shifted
        BY <1>9, <2>12, <3>7 DEF ByteEmitted
      <4>2. Out \o Stuffing(TopByte) = Out'
        <5>1. Stuffing(TopByte) = <<TopByte>>
          BY <3>7 DEF Stuffing
        <5> QED
          BY <1>4, <3>1, <5>1
      <4>3. BitsHeld(bits, local') /\ OutHeld(bits, before, local', Out')
        BY <3>4, <3>5, <4>1, <4>2
      <4>4. Ranges'
        <5>1. Word(Shifted)
          <6> DEFINE b == Shifted
          <6>1. BitsHeld(bits, b)
            BY <3>4
          <6> HIDE DEF b
          <6>2. Word(b)
            BY <2>7, <6>1, HeldWord
          <6> QED
            BY <6>2 DEF b
        <5> QED
          BY <1>7, <4>1, <5>1
      <4>5. EmitInv'
        <5>1. Stream(k, local, Out)'
          BY <2>6, <4>3 DEF k
        <5> QED
          BY <2>8, <4>1, <5>1 DEF EmitInv, k
      <4> QED
        BY <1>6, <2>3, <4>4, <4>5
    <3> QED
      BY <3>6, <3>7
  <2> QED
    BY <2>11, <2>12
<1> QED
  BY <1>8, <1>9, NextByteType

\* A byte is written with room behind it, ...
LEMMA EmitByteRight ==
  ASSUME IInv, EmitByte
  PROVE  IInv'
<1>1. /\ WantsByte /\ work.free > 1 /\ buffer' = Stored /\ ByteEmitted
      /\ work' = [next |-> work.next + 1, free |-> work.free - 1]
      /\ UNCHANGED <<setup, pc, saved, cur, mcu, restarts, dest, file, segments>>
      /\ UNCHANGED <<setup, pc, saved, cur, mcu, restarts, segments>>
      /\ UNCHANGED <<setup, mcu, restarts, segments>>
  BY DEF EmitByte
<1>2. Ranges /\ Room /\ TakenInv /\ pc \in {"emit", "shift"}
  BY <1>1, NextByteType DEF IInv
<1>3. /\ Stored \in [0..(dest.size - 1) -> Memory]
      /\ OutOf(file, Stored, work.next + 1) = Append(Out, NextByte)
      /\ OutOf(file, Stored, dest.next) = Taken
  BY <1>1, StoredRight
<1>4. Room'
  <2>1. /\ work \in [next : Nat, free : Nat] /\ work.next + work.free = dest.size
        /\ dest \in [next : Nat, free : Nat, size : Nat] /\ dest.next <= work.next
    BY <1>2 DEF Room
  <2>2. /\ work' \in [next : Nat, free : Nat] /\ work'.free # 0
        /\ work'.next + work'.free = dest.size /\ dest.next <= work'.next
    BY <1>1, <2>1
  <2> QED
    BY <1>1, <1>2, <1>3, <2>2 DEF Room
<1>5. Out' = Append(Out, NextByte) /\ Taken' = Taken
  BY <1>1, <1>3 DEF Out, Taken
<1>6. Ranges' /\ RestartsInv' /\ TodoInv' /\ EmitInv' /\ DoneInv'
  <2>1. file' \in Seq(Memory)
    BY <1>1, <1>2 DEF Ranges
  <2> QED
    BY <1>1, <1>5, <2>1, ByteRight
<1>7. TakenInv'
  <2>1. OldBits' = OldBits /\ OldBytes' = OldBytes
    BY <1>1, Still
  <2> QED
    BY <1>1, <1>2, <1>5, <2>1 DEF TakenInv
<1> QED
  BY <1>4, <1>6, <1>7 DEF IInv

\* ... as the last of a buffer in memory, which is doubled, ...
LEMMA GrowBufferRight ==
  ASSUME IInv, GrowBuffer
  PROVE  IInv'
<1>1. /\ WantsByte /\ work.free = 1 /\ setup.manager = "memory" /\ ByteEmitted
      /\ buffer' = [i \in 0..(2 * dest.size - 1) |->
                      IF i < dest.size THEN Stored[i] ELSE Blank]
      /\ dest' = [next |-> dest.size, free |-> dest.size, size |-> 2 * dest.size]
      /\ work' = [next |-> dest.size, free |-> dest.size]
      /\ UNCHANGED <<setup, pc, saved, cur, mcu, restarts, file, segments>>
      /\ UNCHANGED <<setup, pc, saved, cur, mcu, restarts, segments>>
      /\ UNCHANGED <<setup, mcu, restarts, segments>>
  BY DEF GrowBuffer
<1>2. Ranges /\ Room /\ TakenInv /\ pc \in {"emit", "shift"}
  BY <1>1, NextByteType DEF IInv
<1>3. /\ Stored \in [0..(dest.size - 1) -> Memory]
      /\ OutOf(file, Stored, work.next + 1) = Append(Out, NextByte)
  BY <1>1, StoredRight
<1>4. dest.size \in Nat /\ dest.size # 0 /\ work.next + 1 = dest.size
  BY <1>1, <1>2 DEF Room
<1>5. buffer' \in [0..(2 * dest.size - 1) -> Memory]
      /\ \A i \in 0..(dest.size - 1) : buffer'[i] = Stored[i]
  <2>1. Blank \in Memory
    BY DEF Memory
  <2> HIDE DEF Stored
  <2>2. \A i \in 0..(2 * dest.size - 1) :
          (IF i < dest.size THEN Stored[i] ELSE Blank) \in Memory
    BY <1>3, <1>4, <2>1
  <2>3. buffer' \in [0..(2 * dest.size - 1) -> Memory]
    BY <1>1, <2>2
  <2>4. \A i \in 0..(dest.size - 1) : buffer'[i] = Stored[i]
    BY <1>1, <1>4
  <2> QED
    BY <2>3, <2>4
<1>6. Room'
  <2>1. dest'.next = dest.size /\ dest'.free = dest.size /\ dest'.size = 2 * dest.size
    BY <1>1
  <2>2. work'.next = dest.size /\ work'.free = dest.size
    BY <1>1
  <2>3. 2 * dest.size \in Nat /\ dest.size + dest.size = 2 * dest.size
    BY <1>4
  <2>4. /\ dest' \in [next : Nat, free : Nat, size : Nat]
        /\ work' \in [next : Nat, free : Nat]
    BY <1>1, <1>4, <2>3
  <2>5. setup'.manager = "memory"
    BY <1>1
  <2>6. dest'.next <= work'.next
    BY <1>4, <2>1, <2>2
  <2> QED
    BY <1>4, <1>5, <2>1, <2>2, <2>3, <2>4, <2>5, <2>6 DEF Room
<1>7. Out' = Append(Out, NextByte)
  <2> DEFINE n == dest.size
             s == Stored
             t == buffer'
  <2>1. /\ n \in Nat /\ (\A i \in 0..(n - 1) : s[i] \in Memory)
        /\ (\A i \in 0..(n - 1) : t[i] = s[i])
    BY <1>3, <1>4, <1>5
  <2>2. Out' = OutOf(file, t, n)
    BY <1>1 DEF Out
  <2>3. OutOf(file, s, n) = Append(Out, NextByte)
    BY <1>3, <1>4
  <2>4. file \in Seq(Memory)
    BY <1>2 DEF Ranges
  <2> HIDE DEF n, s, t
  <2>5. OutOf(file, t, n) = OutOf(file, s, n)
    BY <2>1, <2>4, OutOfRight
  <2> QED
    BY <2>2, <2>3, <2>5
<1>8. Ranges' /\ RestartsInv' /\ TodoInv' /\ EmitInv' /\ DoneInv'
  <2>1. file' \in Seq(Memory)
    BY <1>1, <1>2 DEF Ranges
  <2> QED
    BY <1>1, <1>7, <2>1, ByteRight
<1>9. TakenInv'
  <2>1. OldBits' = OldBits /\ OldBytes' = OldBytes
    BY <1>1, Still
  <2> QED
    BY <1>1, <1>2, <2>1 DEF TakenInv
<1> QED
  BY <1>6, <1>8, <1>9 DEF IInv

\* ... or as the last of the buffer of a file, which is written.
LEMMA WriteBufferRight ==
  ASSUME IInv, WriteBuffer
  PROVE  IInv'
<1>1. /\ WantsByte /\ work.free = 1 /\ setup.manager = "file" /\ ByteEmitted
      /\ file' = file \o [i \in 1..setup.size |-> Stored[i - 1]]
      /\ buffer' = Stored
      /\ dest' = [dest EXCEPT !.next = 0, !.free = setup.size]
      /\ work' = [next |-> 0, free |-> setup.size]
      /\ UNCHANGED <<setup, pc, saved, cur, mcu, restarts, segments>>
      /\ UNCHANGED <<setup, mcu, restarts, segments>>
  BY DEF WriteBuffer
<1>2. Ranges /\ Room /\ TakenInv /\ pc \in {"emit", "shift"}
  BY <1>1, NextByteType DEF IInv
<1>3. /\ Stored \in [0..(dest.size - 1) -> Memory]
      /\ OutOf(file, Stored, work.next + 1) = Append(Out, NextByte)
      /\ Append(Out, NextByte) \in Seq(Memory)
  BY <1>1, StoredRight
<1>4. /\ dest.size \in Nat /\ dest.size # 0 /\ work.next + 1 = dest.size
      /\ dest.size = setup.size
  BY <1>1, <1>2 DEF Room
<1>5. /\ dest' \in [next : Nat, free : Nat, size : Nat]
      /\ dest'.next = 0 /\ dest'.free = setup.size /\ dest'.size = dest.size
  <2>1. dest \in [next : Nat, free : Nat, size : Nat]
    BY <1>2 DEF Room
  <2> QED
    BY <1>1, <1>4, <2>1
<1>6. Room'
  <2>1. work'.next = 0 /\ work'.free = setup.size /\ work' \in [next : Nat, free : Nat]
    BY <1>1, <1>4
  <2>2. buffer' \in [0..(dest'.size - 1) -> Memory]
    BY <1>1, <1>3, <1>5
  <2>3. setup' = setup /\ setup.size \in Nat /\ setup.size # 0
    BY <1>1, <1>4
  <2> QED
    BY <1>4, <1>5, <2>1, <2>2, <2>3 DEF Room
<1>7. file' = Append(Out, NextByte)
  BY <1>1, <1>3, <1>4 DEF OutOf
<1>8. Out' = file'
  <2>1. Out' = OutOf(file', buffer', 0)
    BY <1>1 DEF Out
  <2> DEFINE all == file'
             bytes == buffer'
  <2>2. all \in Seq(Memory)
    BY <1>3, <1>7
  <2>3. Out' = OutOf(all, bytes, 0)
    BY <2>1
  <2>4. all = file'
    OBVIOUS
  <2> HIDE DEF all, bytes
  <2> QED
    BY <2>2, <2>3, <2>4, NothingOut
<1>9. Ranges' /\ RestartsInv' /\ TodoInv' /\ EmitInv' /\ DoneInv'
  BY <1>1, <1>3, <1>7, <1>8, ByteRight
<1>10. TakenInv'
  <2>1. OldBits' = OldBits /\ OldBytes' = OldBytes
    BY <1>1, Still
  <2> QED
    BY <1>1, <1>2, <2>1 DEF TakenInv
<1> QED
  BY <1>6, <1>9, <1>10 DEF IInv

-----------------------------------------------------------------------------
(* The theorems.                                                           *)

\* The inductive invariant of the entropy coder holds of every reachable state,
\* for codes and bytes of any width, any restart interval, either destination
\* and a buffer of any size: put_buffer holds the bits that are not out yet
\* (jchuff.c:306-342), and the buffer, its copies and the file hold those that
\* are (jdatadst.c), also when the buffer is full in the middle of an MCU.
THEOREM StreamInvariant == Spec => []IInv
<1>1. Init => IInv
  BY InitRight
<1>2. IInv /\ [Next]_vars => IInv'
  <2> SUFFICES ASSUME IInv, [Next]_vars PROVE IInv'
    OBVIOUS
  <2>1. ASSUME NEW n \in 1..MaxCodes, NEW codes \in [1..n -> Codes], StartMcu(codes)
        PROVE  IInv'
    BY <2>1, StartMcuRight
  <2>2. CASE RetryMcu
    BY <2>2, RetryMcuRight
  <2>3. CASE EmitBits
    BY <2>3, EmitBitsRight
  <2>4. CASE EmitByte
    BY <2>4, EmitByteRight
  <2>5. CASE BitsEmitted
    BY <2>5, BitsEmittedRight
  <2>6. CASE ResetBits
    BY <2>6, ResetBitsRight
  <2>7. CASE GrowBuffer
    BY <2>7, GrowBufferRight
  <2>8. CASE WriteBuffer
    BY <2>8, WriteBufferRight
  <2>9. CASE SuspendMcu
    BY <2>9, SuspendMcuRight
  <2>10. CASE CompleteMcu
    BY <2>10, CompleteMcuRight
  <2>11. CASE FinishPass
    BY <2>11, FinishPassRight
  <2>12. CASE TermDestination
    BY <2>12, TermDestinationRight
  <2>13. CASE EmptyBuffer
    BY <2>13, EmptyBufferRight
  <2>14. CASE Over
    BY <2>14, StutterRight DEF Over
  <2>15. CASE UNCHANGED vars
    BY <2>15, StutterRight
  <2> QED
    BY <2>1, <2>2, <2>3, <2>4, <2>5, <2>6, <2>7, <2>8, <2>9, <2>10, <2>11, <2>12, <2>13,
       <2>14, <2>15 DEF Next
<1> QED
  BY <1>1, <1>2, PTL DEF Spec

\* put_buffer never needs more than its three bytes and is zero below the bits
\* that wait, fewer bits than a byte wait between codes, and there is always
\* room for a byte: emit_bits_s may shift and add (jchuff.c:318-326), and
\* emit_byte_s may store before it looks for room (jchuff.c:254-258).
THEOREM TypeCorrect == Spec => []TypeOK
<1>1. IInv => TypeOK
  <2> SUFFICES ASSUME IInv PROVE TypeOK
    OBVIOUS
  <2>1. Ranges /\ Room /\ RestartsInv
    BY DEF IInv
  <2>2. /\ saved.put_bits \in 0..(ByteBits - 1) /\ cur.put_bits \in 0..(ByteBits - 1)
        /\ local.put_bits \in 0..(3 * ByteBits - 1)
    <3>1. ByteBits \in Nat
      BY Widths
    <3>2. /\ saved.put_bits \in Nat /\ cur.put_bits \in Nat
          /\ saved.put_bits < ByteBits /\ cur.put_bits < ByteBits
          /\ local.put_bits \in 0..(3 * ByteBits - 1)
      BY <2>1, <3>1 DEF Ranges, Word
    <3> QED
      BY <3>1, <3>2
  <2>3. \A s \in {saved, cur, local} :
          /\ s.put_buffer \in 0..(Pow2[4 * ByteBits] - 1)
          /\ s.put_buffer % Pow2[3 * ByteBits - s.put_bits] = 0
    BY <2>1 DEF Ranges, Word
  <2>4. restarts.next_num \in 0..(RstMarkers - 1)
    BY <2>1, StreamTypes
  <2>5. restarts.to_go \in 0..setup.interval
    <3>1. setup.interval \in Nat /\ restarts.to_go \in Nat
      BY <2>1, SetupsAssumption DEF Ranges
    <3>2. segments[Len(segments)] \in Intervals
      BY <2>1, StreamTypes
    <3>3. Len(segments[Len(segments)]) \in Nat
      BY <3>2 DEF Intervals
    <3>4. restarts.to_go <= setup.interval
      BY <2>1, <3>1, <3>3 DEF RestartsInv
    <3> QED
      BY <3>1, <3>4
  <2>6. /\ DOMAIN buffer = 0..(dest.size - 1)
        /\ dest.free \in 1..dest.size /\ dest.next + dest.free = dest.size
        /\ work.free \in 1..dest.size /\ work.next + work.free = dest.size
    BY <2>1 DEF Room
  <2>7. pc \in {"idle", "emit", "shift", "suspended", "done", "failed"}
    BY <2>1 DEF Ranges
  <2> QED
    BY <2>2, <2>3, <2>4, <2>5, <2>6, <2>7 DEF TypeOK
<1> QED
  BY <1>1, StreamInvariant, PTL

\* The stream that was taken over is that of the MCUs that are done: no bit is
\* lost, repeated or moved by a suspension in the middle of an MCU
\* (jchuff.c:1028-1040), a restart marker between two intervals or a buffer that is
\* full, doubled or written, and 0 follows each byte of ones.
THEOREM StreamAlwaysRight == Spec => []StreamRight
<1>1. IInv => StreamRight
  <2> SUFFICES ASSUME IInv PROVE StreamRight
    OBVIOUS
  <2> DEFINE bits == IntervalBits(Last(segments))
             waiting == Len(bits) % ByteBits
  <2>1. Ranges /\ Room /\ RestartsInv /\ TakenInv /\ DoneInv
    BY DEF IInv
  <2>2. bits = OldBits /\ file \o Written = Taken
        /\ CompleteIntervals = OldBytes
    <3>1. CompleteIntervals = OldBytes
      BY CompleteIs DEF OldBytes
    <3> QED
      BY <3>1 DEF Last, OldBits, Taken, OutOf, Written
  <2>3. OldBits \in Bits /\ OldBytes \in Seq(Memory)
    BY <2>1, StreamTypes
  <2> HIDE DEF bits
  <2>4. ASSUME pc \in {"idle", "suspended"}
        PROVE  /\ file \o Written = CompleteIntervals \o StuffedBytes(BytesOf(bits))
               /\ saved.put_bits = waiting
               /\ (saved.put_buffer \div Pow2[3 * ByteBits - waiting]) % Pow2[waiting]
                    = Value(SubSeq(bits, Len(bits) - waiting + 1, Len(bits)))
    <3>1. BitsHeld(OldBits, saved) /\ OutHeld(OldBits, OldBytes, saved, Taken)
      BY <2>1, <2>4 DEF TakenInv
    <3>2. saved.put_bits < ByteBits
      BY <2>1 DEF Ranges
    <3>3. /\ Taken = OldBytes \o StuffedBytes(BytesOf(OldBits))
          /\ Len(OldBits) % ByteBits = saved.put_bits
      BY <2>3, <3>1, <3>2, StreamOf
    <3>4. (saved.put_buffer \div Pow2[3 * ByteBits - saved.put_bits]) % Pow2[saved.put_bits]
            = Value(Waiting(OldBits, saved.put_bits))
      BY <2>3, <3>1, HeldBits
    <3> QED
      BY <2>2, <3>3, <3>4 DEF Waiting
  <2>5. ASSUME NEW s \in DOMAIN segments, setup.interval > 0
        PROVE  Len(segments[s]) <= setup.interval
    <3>1. /\ segments \in Seq(Intervals) /\ setup.interval \in Nat
          /\ restarts.to_go \in Nat
      BY <2>1, SetupsAssumption DEF Ranges
    <3>2. segments[Len(segments)] \in Intervals
      BY <2>1, StreamTypes
    <3>3. Len(segments[Len(segments)]) \in Nat
      BY <3>2 DEF Intervals
    <3>4. s \in 1..(Len(segments) - 1) \/ s = Len(segments)
      BY <3>1
    <3>5. CASE s \in 1..(Len(segments) - 1)
      <4>1. Len(segments[s]) = setup.interval
        BY <2>1, <3>5 DEF RestartsInv
      <4> QED
        BY <3>1, <4>1
    <3>6. CASE s = Len(segments)
      <4>1. restarts.to_go + Len(segments[s]) = setup.interval
        BY <2>1, <2>5, <3>1, <3>6 DEF RestartsInv
      <4> QED
        BY <3>1, <3>3, <3>6, <4>1
    <3> QED
      BY <3>4, <3>5, <3>6
  <2>6. \A s \in 1..(Len(segments) - 1) : Len(segments[s]) = setup.interval
    BY <2>1 DEF RestartsInv
  <2>7. pc = "done" =>
          file \o Written = CompleteIntervals
            \o StuffedBytes(BytesOf(PaddedBits(bits))) \o <<AllOnes, Eoi>>
    BY <2>1, <2>2 DEF DoneInv, Ended
  <2> QED
    BY <2>4, <2>5, <2>6, <2>7 DEF StreamRight, bits
<1> QED
  BY <1>1, StreamInvariant, PTL

=============================================================================
