---------------------------- MODULE FramingProofs ----------------------------
(***************************************************************************)
(* Proofs about module Framing: the client's callback is given what was    *)
(* written, and only an empty message makes it give up a connection that   *)
(* works, for bytes of any number of values, headers of any size, any      *)
(* messages and any number of connections that break.                      *)
(*                                                                         *)
(* The functions the module is built from are recursive.  Induction over   *)
(* them is in the form of sets: a set of numbers that has zero, and the    *)
(* successor of each of its numbers, has them all.                         *)
(***************************************************************************)
EXTENDS Framing, SequenceTheorems, WellFoundedInduction, TLAPS

-----------------------------------------------------------------------------
(* Induction and recursion.                                                *)

LEMMA Induction ==
    ASSUME NEW S, 0 \in S, \A n \in Nat : n \in S => n + 1 \in S
    PROVE  Nat \subseteq S
<1> DEFINE R == OpToRel(<, Nat)
           T == Nat \ S
<1>1. \A x, y \in Nat : x < y => <<x, y>> \in R
    BY DEF OpToRel
<1>2. IsWellFoundedOn(R, Nat)
    BY NatLessThanWellFounded
<1> HIDE DEF R
<1>3. SUFFICES ASSUME T # {} PROVE FALSE
    OBVIOUS
<1>4. PICK x \in T : \A y \in T : ~(<<y, x>> \in R)
    <2>1. T \subseteq Nat
        OBVIOUS
    <2> HIDE DEF T
    <2> QED BY <1>2, <1>3, <2>1, WFMin
<1>5. x # 0 /\ x \in Nat
    OBVIOUS
<1>6. x - 1 \in Nat /\ x - 1 < x /\ (x - 1) + 1 = x
    BY <1>5
<1>7. x - 1 \in S
    BY <1>1, <1>4, <1>5, <1>6
<1> QED BY <1>4, <1>6, <1>7

(* A number of steps from a first value, each by a function of the number  *)
(* of the step and the value before it.                                    *)
Repeats(f, n, first, step) ==
    /\ f[0] = first
    /\ \A i \in 1..n : f[i] = step[<<i, f[i - 1]>>]

LEMMA Recursion ==
    ASSUME NEW V, NEW n \in Nat, NEW first \in V, NEW step \in [(1..n) \X V -> V]
    PROVE  \E f \in [0..n -> V] : Repeats(f, n, first, step)
<1> DEFINE Is(f, m) == Repeats(f, m, first, step)
           S == {m \in Nat : m <= n => \E f \in [0..m -> V] : Is(f, m)}
<1>1. 0 \in S
    <2> DEFINE f == [i \in 0..0 |-> first]
    <2>1. f \in [0..0 -> V] /\ Is(f, 0)
        BY DEF Repeats
    <2> QED BY <2>1
<1>2. ASSUME NEW m \in Nat, m \in S PROVE m + 1 \in S
    <2>1. SUFFICES ASSUME m + 1 <= n
                   PROVE  \E f \in [0..(m + 1) -> V] : Is(f, m + 1)
        OBVIOUS
    <2>2. PICK g \in [0..m -> V] : Is(g, m)
        BY <1>2, <2>1
    <2> DEFINE f == [i \in 0..(m + 1) |->
                        IF i <= m THEN g[i] ELSE step[<<m + 1, g[m]>>]]
    <2>3. step[<<m + 1, g[m]>>] \in V
        BY <2>1
    <2>4. f \in [0..(m + 1) -> V]
        BY <2>3
    <2>5. f[0] = first
        BY <2>2 DEF Repeats
    <2>6. ASSUME NEW i \in 1..(m + 1) PROVE f[i] = step[<<i, f[i - 1]>>]
        <3>1. CASE i \in 1..m
            <4>1. f[i] = g[i] /\ f[i - 1] = g[i - 1]
                BY <3>1
            <4>2. g[i] = step[<<i, g[i - 1]>>]
                BY <2>2, <3>1 DEF Repeats
            <4> QED BY <4>1, <4>2
        <3>2. CASE i = m + 1
            <4>1. f[m + 1] = step[<<m + 1, g[m]>>] /\ f[m] = g[m]
                OBVIOUS
            <4>2. (m + 1) - 1 = m
                OBVIOUS
            <4> HIDE DEF f
            <4> QED BY <3>2, <4>1, <4>2
        <3> QED BY <3>1, <3>2
    <2> HIDE DEF f
    <2> QED BY <2>4, <2>5, <2>6 DEF Repeats
<1>3. n \in S
    <2> HIDE DEF S
    <2> QED BY <1>1, <1>2, Induction
<1> QED BY <1>3

-----------------------------------------------------------------------------
(* Numbers in memory.                                                      *)

LEMMA Parameters == Base \in Nat /\ Base >= 2 /\ HeaderSize \in Nat /\ HeaderSize >= 1
BY ParametersAssumption

LEMMA WeightIs ==
    /\ Weight \in [0..HeaderSize -> Nat \ {0}]
    /\ Weight[0] = 1
    /\ \A i \in 1..HeaderSize : Weight[i] = Base * Weight[i - 1]
<1> DEFINE V == Nat \ {0}
           step == [p \in (1..HeaderSize) \X V |-> Base * p[2]]
           Is(f) == f = [i \in 0..HeaderSize |->
                            IF i = 0 THEN 1 ELSE Base * f[i - 1]]
<1>1. step \in [(1..HeaderSize) \X V -> V]
    <2>1. \A x \in V : Base * x \in V
        BY Parameters
    <2> QED BY <2>1
<1>2. \A i \in 1..HeaderSize : \A x \in V : step[<<i, x>>] = Base * x
    OBVIOUS
<1> HIDE DEF step
<1>3. PICK f \in [0..HeaderSize -> V] : Repeats(f, HeaderSize, 1, step)
    <2>1. 1 \in V /\ HeaderSize \in Nat
        BY Parameters
    <2> HIDE DEF V
    <2> QED BY <1>1, <2>1, Recursion
<1>4. Is(f)
    <2>1. \A i \in 0..HeaderSize : f[i] = IF i = 0 THEN 1 ELSE Base * f[i - 1]
        <3> SUFFICES ASSUME NEW i \in 1..HeaderSize PROVE f[i] = Base * f[i - 1]
            BY <1>3, Parameters DEF Repeats
        <3>1. f[i - 1] \in V
            BY Parameters
        <3> HIDE DEF V
        <3> QED BY <1>2, <1>3, <3>1 DEF Repeats
    <2> QED BY <2>1
<1>5. Weight = CHOOSE g : Is(g)
    BY DEF Weight
<1>6. Is(Weight)
    <2> HIDE DEF Is
    <2> QED BY <1>4, <1>5
<1>7. ASSUME NEW g, Is(g) PROVE g[0] = 1 /\ \A i \in 1..HeaderSize : g[i] = Base * g[i - 1]
    BY <1>7, Parameters
<1>8. Weight[0] = 1 /\ \A i \in 1..HeaderSize : Weight[i] = Base * Weight[i - 1]
    BY <1>6, <1>7
<1> DEFINE S == {i \in Nat : i <= HeaderSize => Weight[i] \in V}
<1>9. \A i \in Nat : i \in S => i + 1 \in S
    <2> SUFFICES ASSUME NEW i \in Nat, i \in S, i + 1 <= HeaderSize
                 PROVE  Weight[i + 1] \in V
        OBVIOUS
    <2>1. Weight[i] \in V /\ Weight[i + 1] = Base * Weight[i]
        BY <1>8, Parameters
    <2> QED BY <2>1, Parameters
<1>10. Nat \subseteq S
    <2>1. 0 \in S
        BY <1>8
    <2> HIDE DEF S
    <2> QED BY <1>9, <2>1, Induction
<1>11. Weight \in [0..HeaderSize -> V]
    <2>1. Weight = [i \in 0..HeaderSize |-> Weight[i]]
        BY <1>6
    <2>2. \A i \in 0..HeaderSize : Weight[i] \in V
        BY <1>10, Parameters
    <2> QED BY <2>1, <2>2
<1> QED BY <1>8, <1>11

LEMMA Division ==
    ASSUME NEW n \in Nat, NEW w \in Nat \ {0}
    PROVE  /\ n \div w \in Nat /\ n % w \in Nat
           /\ n = w * (n \div w) + (n % w)
           /\ n % w < w
<1>1. n % w \in Nat /\ n % w < w
    OBVIOUS
<1>2. n \div w \in Nat
    OBVIOUS
<1>3. n = w * (n \div w) + (n % w)
    OBVIOUS
<1> QED BY <1>1, <1>2, <1>3

LEMMA Remainder ==
    ASSUME NEW m \in Nat \ {0}, NEW p \in Nat, NEW t \in Nat, t < m
    PROVE  (m * p + t) % m = t
OBVIOUS

(* One more digit. *)
LEMMA Digit ==
    ASSUME NEW n \in Nat, NEW w \in Nat \ {0}, NEW b \in Nat \ {0}
    PROVE  n % (b * w) = (n % w) + ((n \div w) % b) * w
<1> DEFINE q == n \div w
           r == n % w
           p == q \div b
           d == q % b
           t == r + d * w
<1>1. /\ q \in Nat /\ r \in Nat /\ n = w * q + r /\ r < w
    BY Division
<1>2. /\ p \in Nat /\ d \in Nat /\ q = b * p + d /\ d < b
    BY <1>1, Division
<1> HIDE DEF q, r, p, d
<1>3. /\ b * w \in Nat \ {0} /\ d * w \in Nat /\ (b - 1) * w = b * w - w
    BY <1>2
<1>4. d * w <= (b - 1) * w
    <2>1. b - 1 - d \in Nat
        BY <1>2
    <2>2. (b - 1 - d) * w \in Nat
        BY <2>1
    <2>3. (b - 1 - d) * w = (b - 1) * w - d * w
        BY <1>2
    <2> QED BY <1>3, <2>2, <2>3
<1>5. t \in Nat /\ t < b * w
    BY <1>1, <1>3, <1>4
<1>6. n = (b * w) * p + t
    <2>1. w * (b * p + d) = (b * w) * p + d * w
        BY <1>2
    <2>2. (b * w) * p \in Nat
        BY <1>2, <1>3
    <2> QED BY <1>1, <1>2, <1>3, <2>1, <2>2
<1> HIDE DEF t
<1>7. n % (b * w) = t
    BY <1>2, <1>3, <1>5, <1>6, Remainder
<1> QED BY <1>7 DEF t, r, d, q

LEMMA SizeBytesType ==
    ASSUME NEW n \in Nat
    PROVE  SizeBytes(n) \in Seq(Byte) /\ Len(SizeBytes(n)) = HeaderSize
<1>1. \A i \in 1..HeaderSize : (n \div Weight[i - 1]) % Base \in Byte
    <2> SUFFICES ASSUME NEW i \in 1..HeaderSize
                 PROVE  (n \div Weight[i - 1]) % Base \in Byte
        OBVIOUS
    <2>1. Weight[i - 1] \in Nat \ {0}
        BY WeightIs, Parameters
    <2>2. n \div Weight[i - 1] \in Nat
        BY <2>1, Division
    <2> QED BY <2>2, Parameters DEF Byte
<1> QED BY <1>1, Parameters DEF SizeBytes

LEMMA DecodeIs ==
    ASSUME NEW header \in Seq(Byte), Len(header) = HeaderSize
    PROVE  \E value \in [0..HeaderSize -> Nat] :
               /\ Decode(header) = value[HeaderSize]
               /\ value[0] = 0
               /\ \A i \in 1..HeaderSize :
                      value[i] = value[i - 1] + header[i] * Weight[i - 1]
<1> DEFINE step == [p \in (1..HeaderSize) \X Nat |->
                        p[2] + header[p[1]] * Weight[p[1] - 1]]
           Is(f) == f = [i \in 0..HeaderSize |->
                            IF i = 0 THEN 0 ELSE f[i - 1] + header[i] * Weight[i - 1]]
<1>1. \A i \in 1..HeaderSize : header[i] * Weight[i - 1] \in Nat
    <2> SUFFICES ASSUME NEW i \in 1..HeaderSize
                 PROVE  header[i] * Weight[i - 1] \in Nat
        OBVIOUS
    <2>1. header[i] \in Nat
        BY Parameters DEF Byte
    <2>2. Weight[i - 1] \in Nat
        BY WeightIs, Parameters
    <2> QED BY <2>1, <2>2
<1>2. step \in [(1..HeaderSize) \X Nat -> Nat]
    BY <1>1
<1>3. \A i \in 1..HeaderSize : \A x \in Nat :
          step[<<i, x>>] = x + header[i] * Weight[i - 1]
    OBVIOUS
<1> HIDE DEF step
<1>4. PICK f \in [0..HeaderSize -> Nat] : Repeats(f, HeaderSize, 0, step)
    <2>1. 0 \in Nat /\ HeaderSize \in Nat
        BY Parameters
    <2> QED BY <1>2, <2>1, Recursion
<1>5. f[0] = 0 /\ \A i \in 1..HeaderSize : f[i] = f[i - 1] + header[i] * Weight[i - 1]
    <2>1. f[0] = 0
        BY <1>4 DEF Repeats
    <2>2. ASSUME NEW i \in 1..HeaderSize
          PROVE  f[i] = f[i - 1] + header[i] * Weight[i - 1]
        <3>1. f[i - 1] \in Nat
            BY Parameters
        <3>2. f[i] = step[<<i, f[i - 1]>>]
            BY <1>4 DEF Repeats
        <3> QED BY <1>3, <3>1, <3>2
    <2> QED BY <2>1, <2>2
<1>6. Is(f)
    BY <1>5, Parameters
<1> DEFINE value == CHOOSE g : Is(g)
<1>7. Decode(header) = value[HeaderSize]
    BY DEF Decode
<1>8. Is(value)
    <2> HIDE DEF Is
    <2> QED BY <1>6
<1>9. ASSUME NEW g, Is(g)
      PROVE  /\ g[0] = 0
             /\ \A i \in 1..HeaderSize : g[i] = g[i - 1] + header[i] * Weight[i - 1]
             /\ g = [i \in 0..HeaderSize |-> g[i]]
    <2>1. g = [i \in 0..HeaderSize |-> g[i]] /\ g[0] = 0
        BY <1>9, Parameters
    <2>2. ASSUME NEW i \in 1..HeaderSize
          PROVE  g[i] = g[i - 1] + header[i] * Weight[i - 1]
        BY <1>9, Parameters
    <2> QED BY <2>1, <2>2
<1> HIDE DEF value, Is
<1>10. /\ value[0] = 0
       /\ \A i \in 1..HeaderSize :
              value[i] = value[i - 1] + header[i] * Weight[i - 1]
       /\ value = [i \in 0..HeaderSize |-> value[i]]
    BY <1>8, <1>9
<1> DEFINE S == {i \in Nat : i <= HeaderSize => value[i] \in Nat}
<1>11. 0 \in S
    BY <1>10
<1>12. \A i \in Nat : i \in S => i + 1 \in S
    <2> SUFFICES ASSUME NEW i \in Nat, value[i] \in Nat, i + 1 <= HeaderSize
                 PROVE  value[i + 1] \in Nat
        OBVIOUS
    <2>1. i + 1 \in 1..HeaderSize /\ (i + 1) - 1 = i
        BY Parameters
    <2>2. header[i + 1] * Weight[i] \in Nat
        BY <1>1, <2>1
    <2>3. value[i + 1] = value[i] + header[i + 1] * Weight[i]
        BY <1>10, <2>1
    <2> QED BY <2>2, <2>3
<1>13. \A i \in 0..HeaderSize : value[i] \in Nat
    <2> HIDE DEF S
    <2>1. Nat \subseteq S
        BY <1>11, <1>12, Induction
    <2> QED BY <2>1, Parameters DEF S
<1>14. value \in [0..HeaderSize -> Nat]
    BY <1>10, <1>13
<1> QED BY <1>7, <1>10, <1>14

(* A size that fits is read as it was written. *)
LEMMA DecodesWhatItIs ==
    ASSUME NEW n \in Nat, n < SizeLimit
    PROVE  Decode(SizeBytes(n)) = n
<1>1. PICK value \in [0..HeaderSize -> Nat] :
          /\ Decode(SizeBytes(n)) = value[HeaderSize]
          /\ value[0] = 0
          /\ \A i \in 1..HeaderSize :
                 value[i] = value[i - 1] + SizeBytes(n)[i] * Weight[i - 1]
    BY SizeBytesType, DecodeIs
<1> DEFINE S == {i \in Nat : i <= HeaderSize => value[i] = n % Weight[i]}
<1>2. 0 \in S
    <2>1. n % 1 = 0
        <3>1. n % 1 \in Nat /\ n % 1 < 1
            OBVIOUS
        <3> QED BY <3>1
    <2> QED BY <1>1, <2>1, WeightIs
<1>3. \A i \in Nat : i \in S => i + 1 \in S
    <2> SUFFICES ASSUME NEW i \in Nat, i + 1 <= HeaderSize, value[i] = n % Weight[i]
                 PROVE  value[i + 1] = n % Weight[i + 1]
        BY Parameters
    <2>1. i + 1 \in 1..HeaderSize /\ (i + 1) - 1 = i
        BY Parameters
    <2>2. SizeBytes(n)[i + 1] = (n \div Weight[i]) % Base
        BY <2>1 DEF SizeBytes
    <2>3. value[i + 1] = (n % Weight[i]) + ((n \div Weight[i]) % Base) * Weight[i]
        BY <1>1, <2>1, <2>2
    <2>4. Weight[i] \in Nat \ {0} /\ Weight[i + 1] = Base * Weight[i]
        BY <2>1, WeightIs, Parameters
    <2>5. Base \in Nat \ {0}
        BY Parameters
    <2>6. n % (Base * Weight[i]) =
              (n % Weight[i]) + ((n \div Weight[i]) % Base) * Weight[i]
        BY <2>4, <2>5, Digit, Zenon
    <2> QED BY <2>3, <2>4, <2>6, Zenon
<1>4. value[HeaderSize] = n % SizeLimit
    <2> HIDE DEF S
    <2>1. Nat \subseteq S
        BY <1>2, <1>3, Induction
    <2> QED BY <2>1, Parameters DEF S, SizeLimit
<1>5. SizeLimit \in Nat \ {0}
    BY WeightIs, Parameters DEF SizeLimit
<1>6. n % SizeLimit = n
    BY <1>5
<1> QED BY <1>1, <1>4, <1>6

-----------------------------------------------------------------------------
(* Sequences of sequences.                                                 *)

Joins(f, seqs) ==
    /\ f[0] = <<>>
    /\ \A i \in 1..Len(seqs) : f[i] = f[i - 1] \o seqs[i]

LEMMA FlattenIs ==
    ASSUME NEW D, NEW seqs \in Seq(Seq(D))
    PROVE  \E f \in [0..Len(seqs) -> Seq(D)] :
               FlattenSeq(seqs) = f[Len(seqs)] /\ Joins(f, seqs)
<1> DEFINE n == Len(seqs)
           step == [p \in (1..n) \X Seq(D) |-> p[2] \o seqs[p[1]]]
           Is(g) == g = [i \in 1..n |->
                            IF i = 1 THEN seqs[1] ELSE g[i - 1] \o seqs[i]]
<1>1. n \in Nat /\ \A i \in 1..n : seqs[i] \in Seq(D)
    OBVIOUS
<1>0. n = Len(seqs)
    OBVIOUS
<1> HIDE DEF n
<1>2. step \in [(1..n) \X Seq(D) -> Seq(D)]
    <2>1. \A i \in 1..n : \A x \in Seq(D) : x \o seqs[i] \in Seq(D)
        BY <1>1, ConcatProperties
    <2> QED BY <2>1
<1>3. \A i \in 1..n : \A x \in Seq(D) : step[<<i, x>>] = x \o seqs[i]
    OBVIOUS
<1> HIDE DEF step
<1>4. PICK f \in [0..n -> Seq(D)] : Repeats(f, n, <<>>, step)
    <2>1. <<>> \in Seq(D)
        OBVIOUS
    <2> QED BY <1>1, <1>2, <2>1, Recursion
<1>5. f[0] = <<>> /\ \A i \in 1..n : f[i] = f[i - 1] \o seqs[i]
    <2>1. f[0] = <<>>
        BY <1>4 DEF Repeats
    <2>2. ASSUME NEW i \in 1..n PROVE f[i] = f[i - 1] \o seqs[i]
        <3>1. f[i - 1] \in Seq(D)
            BY <1>1
        <3>2. f[i] = step[<<i, f[i - 1]>>]
            BY <1>4 DEF Repeats
        <3> QED BY <1>3, <3>1, <3>2
    <2> QED BY <2>1, <2>2
<1>6. Joins(f, seqs)
    BY <1>0, <1>5 DEF Joins
<1>7. CASE n = 0
    <2>1. seqs = <<>> /\ FlattenSeq(seqs) = seqs
        <3>1. seqs = <<>>
            BY <1>0, <1>7, EmptySeq
        <3>2. Len(seqs) = 0
            BY <1>0, <1>7
        <3> QED BY <3>1, <3>2, Zenon DEF FlattenSeq
    <2> QED BY <1>0, <1>5, <1>6, <1>7, <2>1
<1>8. CASE n # 0
    <2> DEFINE e == [i \in 1..n |-> f[i]]
               g == CHOOSE g : Is(g)
    <2>1. f[1] = seqs[1]
        <3>1. 1 \in 1..n /\ 1 - 1 = 0
            BY <1>1, <1>8
        <3>2. f[1] = <<>> \o seqs[1] /\ seqs[1] \in Seq(D)
            BY <1>1, <1>5, <3>1
        <3> QED BY <3>2, ConcatEmptySeq
    <2>2. Is(e)
        <3> SUFFICES ASSUME NEW i \in 1..n
                     PROVE  f[i] = IF i = 1 THEN seqs[1] ELSE e[i - 1] \o seqs[i]
            OBVIOUS
        <3>1. i # 1 => e[i - 1] = f[i - 1]
            BY <1>1
        <3> HIDE DEF e
        <3> QED BY <1>5, <2>1, <3>1
    <2>3. FlattenSeq(seqs) = g[n]
        BY <1>0, <1>8 DEF FlattenSeq
    <2>4. Is(g)
        <3> HIDE DEF Is, e
        <3> QED BY <2>2
    <2>5. /\ g[1] = seqs[1]
          /\ \A i \in 2..n : g[i] = g[i - 1] \o seqs[i]
        <3> HIDE DEF g
        <3>1. g[1] = seqs[1]
            BY <1>1, <1>8, <2>4
        <3>2. ASSUME NEW i \in 2..n PROVE g[i] = g[i - 1] \o seqs[i]
            <4>1. i \in 1..n /\ i # 1
                BY <1>1
            <4> QED BY <2>4, <4>1
        <3> QED BY <3>1, <3>2
    <2> DEFINE S == {i \in Nat : i + 1 <= n => g[i + 1] = f[i + 1]}
    <2> HIDE DEF g
    <2>6. 0 \in S
        BY <2>1, <2>5
    <2>7. ASSUME NEW i \in Nat, i \in S PROVE i + 1 \in S
        <3> SUFFICES ASSUME (i + 1) + 1 <= n
                     PROVE  g[(i + 1) + 1] = f[(i + 1) + 1]
            OBVIOUS
        <3>1. (i + 1) + 1 \in 1..n /\ (i + 1) + 1 \in 2..n /\ ((i + 1) + 1) - 1 = i + 1 /\ i + 1 <= n
            BY <1>1
        <3>2. g[i + 1] = f[i + 1]
            BY <2>7, <3>1
        <3>3. g[(i + 1) + 1] = g[i + 1] \o seqs[(i + 1) + 1]
            BY <2>5, <3>1
        <3>4. f[(i + 1) + 1] = f[i + 1] \o seqs[(i + 1) + 1]
            BY <1>5, <3>1
        <3> QED BY <3>2, <3>3, <3>4
    <2>8. Nat \subseteq S
        <3> HIDE DEF S
        <3> QED BY <2>6, <2>7, Induction
    <2>9. n - 1 \in S /\ n - 1 \in Nat
        <3>1. n - 1 \in Nat
            BY <1>1, <1>8
        <3> HIDE DEF S
        <3> QED BY <2>8, <3>1
    <2>10. g[n] = f[n]
        BY <1>1, <2>9
    <2> QED BY <1>0, <1>6, <2>3, <2>10
<1> QED BY <1>7, <1>8

LEMMA FlattenType ==
    ASSUME NEW D, NEW seqs \in Seq(Seq(D))
    PROVE  FlattenSeq(seqs) \in Seq(D)
BY FlattenIs

LEMMA FlattenEmpty == FlattenSeq(<<>>) = <<>>
BY DEF FlattenSeq

LEMMA FlattenAppend ==
    ASSUME NEW D, NEW seqs \in Seq(Seq(D)), NEW x \in Seq(D)
    PROVE  FlattenSeq(Append(seqs, x)) = FlattenSeq(seqs) \o x
<1> DEFINE n == Len(seqs)
           longer == Append(seqs, x)
<1>1. /\ n \in Nat /\ Len(longer) = n + 1 /\ longer \in Seq(Seq(D))
      /\ longer[n + 1] = x /\ \A i \in 1..n : longer[i] = seqs[i]
    OBVIOUS
<1> HIDE DEF longer
<1>2. PICK f \in [0..n -> Seq(D)] : FlattenSeq(seqs) = f[n] /\ Joins(f, seqs)
    BY FlattenIs
<1>3. PICK g \in [0..(n + 1) -> Seq(D)] :
          FlattenSeq(longer) = g[n + 1] /\ Joins(g, longer)
    <2>1. PICK g \in [0..Len(longer) -> Seq(D)] :
              FlattenSeq(longer) = g[Len(longer)] /\ Joins(g, longer)
        BY <1>1, FlattenIs
    <2> HIDE DEF n
    <2> QED BY <1>1, <2>1
<1> DEFINE P(i) == g[i] = f[i]
           S == {i \in Nat : i <= n => P(i)}
<1>4. 0 \in S
    BY <1>2, <1>3 DEF Joins
<1>5. ASSUME NEW i \in Nat, i \in S PROVE i + 1 \in S
    <2> SUFFICES ASSUME i + 1 <= n PROVE g[i + 1] = f[i + 1]
        OBVIOUS
    <2>1. i + 1 \in 1..n /\ i + 1 \in 1..(n + 1) /\ (i + 1) - 1 = i
        BY <1>1
    <2>2. g[i] = f[i]
        BY <1>1, <1>5
    <2>3. g[i + 1] = g[i] \o longer[i + 1]
        BY <1>1, <1>3, <2>1 DEF Joins
    <2>4. f[i + 1] = f[i] \o seqs[i + 1]
        BY <1>2, <2>1 DEF Joins
    <2> QED BY <1>1, <2>1, <2>2, <2>3, <2>4
<1>6. P(n)
    <2> HIDE DEF S, P
    <2>1. Nat \subseteq S
        BY <1>4, <1>5, Induction
    <2> QED BY <1>1, <2>1 DEF S
<1>7. g[n + 1] = g[n] \o longer[n + 1]
    <2>1. n + 1 \in 1..Len(longer) /\ (n + 1) - 1 = n
        BY <1>1
    <2> QED BY <1>3, <2>1 DEF Joins
<1> QED BY <1>1, <1>2, <1>3, <1>6, <1>7 DEF longer

LEMMA FlattenHead ==
    ASSUME NEW D, NEW seqs \in Seq(Seq(D)), seqs # <<>>
    PROVE  FlattenSeq(seqs) = Head(seqs) \o FlattenSeq(Tail(seqs))
<1>0. \A s, t, u \in Seq(D) : (s \o t) \o u = s \o (t \o u)
    OBVIOUS
<1> DEFINE n == Len(seqs) - 1
           tail == Tail(seqs)
<1>1. /\ n \in Nat /\ Len(seqs) = n + 1 /\ Len(tail) = n /\ tail \in Seq(Seq(D))
      /\ Head(seqs) = seqs[1] /\ seqs[1] \in Seq(D)
      /\ \A i \in 1..n : tail[i] = seqs[i + 1] /\ tail[i] \in Seq(D)
    OBVIOUS
<1> HIDE DEF tail, n
<1>2. PICK f \in [0..(n + 1) -> Seq(D)] : FlattenSeq(seqs) = f[n + 1] /\ Joins(f, seqs)
    BY <1>1, FlattenIs
<1>3. PICK g \in [0..n -> Seq(D)] : FlattenSeq(tail) = g[n] /\ Joins(g, tail)
    BY <1>1, FlattenIs
<1> DEFINE P(i) == f[i + 1] = seqs[1] \o g[i]
           S == {i \in Nat : i <= n => P(i)}
<1>4. 0 \in S
    <2>1. f[1] = f[0] \o seqs[1]
        <3>1. 1 \in 1..Len(seqs) /\ 1 - 1 = 0
            BY <1>1
        <3> QED BY <1>2, <3>1 DEF Joins
    <2>2. f[0] = <<>> /\ g[0] = <<>>
        BY <1>2, <1>3 DEF Joins
    <2>3. f[1] = seqs[1] \o g[0]
        BY <1>1, <2>1, <2>2, ConcatEmptySeq
    <2>4. P(0)
        <3>1. 0 + 1 = 1
            OBVIOUS
        <3> QED BY <2>3, <3>1, Zenon
    <2> HIDE DEF P
    <2> QED BY <2>4
<1>5. ASSUME NEW i \in Nat, i \in S PROVE i + 1 \in S
    <2> SUFFICES ASSUME i + 1 <= n PROVE P(i + 1)
        <3> HIDE DEF P
        <3> QED OBVIOUS
    <2>1. /\ i + 1 \in 1..n /\ (i + 1) - 1 = i /\ i \in 0..n
          /\ (i + 1) + 1 \in 1..(n + 1) /\ ((i + 1) + 1) - 1 = i + 1
        BY <1>1
    <2>2. f[i + 1] = seqs[1] \o g[i]
        <3>1. P(i)
            <4> HIDE DEF P
            <4> QED BY <1>1, <1>5, <2>1
        <3> QED BY <3>1
    <2>3. f[(i + 1) + 1] = f[i + 1] \o seqs[(i + 1) + 1]
        BY <1>1, <1>2, <2>1 DEF Joins
    <2>4. g[i + 1] = g[i] \o tail[i + 1]
        BY <1>1, <1>3, <2>1 DEF Joins
    <2>5. g[i] \in Seq(D) /\ tail[i + 1] \in Seq(D) /\ tail[i + 1] = seqs[(i + 1) + 1]
        BY <1>1, <2>1
    <2>6. (seqs[1] \o g[i]) \o tail[i + 1] = seqs[1] \o (g[i] \o tail[i + 1])
        <3>1. seqs[1] \in Seq(D) /\ g[i] \in Seq(D) /\ tail[i + 1] \in Seq(D)
            BY <1>1, <2>5
        <3> QED BY <1>0, <3>1, Zenon
    <2> QED BY <2>2, <2>3, <2>4, <2>5, <2>6
<1>6. P(n)
    <2> HIDE DEF S, P
    <2>1. Nat \subseteq S
        BY <1>4, <1>5, Induction
    <2> QED BY <1>1, <2>1 DEF S
<1> QED BY <1>1, <1>2, <1>3, <1>6 DEF tail

LEMMA Cut ==
    ASSUME NEW a \in Seq(Byte), NEW b \in Seq(Byte),
           NEW c \in Seq(Byte), NEW d \in Seq(Byte),
           a \o b = c \o d, Len(c) <= Len(a)
    PROVE  /\ SubSeq(a, 1, Len(c)) = c
           /\ SubSeq(a, Len(c) + 1, Len(a)) \in Seq(Byte)
           /\ SubSeq(a, Len(c) + 1, Len(a)) \o b = d
<1> DEFINE front == SubSeq(a, 1, Len(c))
           back == SubSeq(a, Len(c) + 1, Len(a))
<1>1. /\ Len(a) \in Nat /\ Len(b) \in Nat /\ Len(c) \in Nat /\ Len(d) \in Nat
      /\ Len(a) + Len(b) = Len(c) + Len(d)
    BY ConcatProperties
<1>2. /\ front \in Seq(Byte) /\ Len(front) = Len(c)
      /\ \A i \in 1..Len(c) : front[i] = a[i]
    BY <1>1
<1>3. /\ back \in Seq(Byte) /\ Len(back) = Len(a) - Len(c)
      /\ \A i \in 1..Len(back) : back[i] = a[Len(c) + i]
    BY <1>1
<1> HIDE DEF front, back
<1>4. \A i \in 1..Len(c) : a[i] = c[i]
    <2> SUFFICES ASSUME NEW i \in 1..Len(c) PROVE a[i] = c[i]
        OBVIOUS
    <2>1. (a \o b)[i] = a[i] /\ (c \o d)[i] = c[i]
        BY <1>1
    <2> QED BY <2>1
<1>5. front = c
    BY <1>1, <1>2, <1>4, SeqEqual
<1>6. /\ back \o b \in Seq(Byte) /\ Len(back \o b) = Len(d)
      /\ \A i \in 1..Len(d) : (back \o b)[i] =
             IF i <= Len(back) THEN back[i] ELSE b[i - Len(back)]
    BY <1>1, <1>3
<1>7. ASSUME NEW i \in 1..Len(d) PROVE (back \o b)[i] = d[i]
    <2>1. /\ (c \o d)[Len(c) + i] = d[i]
          /\ (a \o b)[Len(c) + i] =
                IF Len(c) + i <= Len(a) THEN a[Len(c) + i] ELSE b[Len(c) + i - Len(a)]
        BY <1>1
    <2>2. CASE i <= Len(back)
        <3>1. Len(c) + i <= Len(a) /\ i \in 1..Len(back)
            BY <1>1, <1>3, <2>2
        <3> QED BY <1>3, <1>6, <2>1, <2>2, <3>1
    <2>3. CASE ~(i <= Len(back))
        <3>1. ~(Len(c) + i <= Len(a)) /\ i - Len(back) = Len(c) + i - Len(a)
            BY <1>1, <1>3, <2>3
        <3> QED BY <1>6, <2>1, <2>3, <3>1
    <2> QED BY <2>2, <2>3
<1>8. back \o b = d
    BY <1>6, <1>7, SeqEqual
<1> QED BY <1>3, <1>5, <1>8 DEF front, back

LEMMA PrefixIs ==
    ASSUME NEW D, NEW s \in Seq(D), NEW t \in Seq(D)
    PROVE  IsPrefix(s, t) <=> /\ Len(s) <= Len(t)
                              /\ \A i \in 1..Len(s) : s[i] = t[i]
<1> SUFFICES ASSUME Len(s) <= Len(t)
             PROVE  SubSeq(s, 1, Len(s)) = SubSeq(t, 1, Len(s))
                        <=> \A i \in 1..Len(s) : s[i] = t[i]
    BY DEF IsPrefix
<1> DEFINE u == SubSeq(t, 1, Len(s))
<1>1. u \in Seq(D) /\ Len(u) = Len(s) /\ \A i \in 1..Len(s) : u[i] = t[i]
    OBVIOUS
<1>2. SubSeq(s, 1, Len(s)) = s
    OBVIOUS
<1> HIDE DEF u
<1>3. s = u <=> \A i \in 1..Len(s) : s[i] = u[i]
    BY <1>1, SeqEqual
<1>4. s = u <=> \A i \in 1..Len(s) : s[i] = t[i]
    BY <1>1, <1>3
<1> QED BY <1>2, <1>4 DEF u

LEMMA PrefixOfLonger ==
    ASSUME NEW D, NEW s \in Seq(D), NEW t \in Seq(D), IsPrefix(s, t), NEW x \in D
    PROVE  IsPrefix(s, Append(t, x))
<1>1. Append(t, x) \in Seq(D) /\ Len(Append(t, x)) = Len(t) + 1
      /\ \A i \in 1..Len(t) : Append(t, x)[i] = t[i]
    OBVIOUS
<1>2. Len(s) <= Len(t) /\ \A i \in 1..Len(s) : s[i] = t[i]
    BY PrefixIs
<1> DEFINE u == Append(t, x)
<1>3. u \in Seq(D) /\ Len(s) <= Len(u) /\ \A i \in 1..Len(s) : s[i] = u[i]
    BY <1>1, <1>2
<1> HIDE DEF u
<1>4. IsPrefix(s, u)
    BY <1>3, PrefixIs
<1> QED BY <1>4 DEF u

LEMMA LongerPrefix ==
    ASSUME NEW D, NEW s \in Seq(D), NEW t \in Seq(D), IsPrefix(s, t), Len(s) < Len(t)
    PROVE  IsPrefix(Append(s, t[Len(s) + 1]), t)
<1> DEFINE u == Append(s, t[Len(s) + 1])
<1>1. u \in Seq(D) /\ Len(u) = Len(s) + 1 /\ u[Len(s) + 1] = t[Len(s) + 1]
      /\ \A i \in 1..Len(s) : u[i] = s[i]
    OBVIOUS
<1>2. \A i \in 1..Len(s) : s[i] = t[i]
    BY PrefixIs
<1> HIDE DEF u
<1>3. Len(u) <= Len(t) /\ \A i \in 1..Len(u) : u[i] = t[i]
    BY <1>1, <1>2
<1>4. IsPrefix(u, t)
    BY <1>1, <1>3, PrefixIs
<1> QED BY <1>4 DEF u

-----------------------------------------------------------------------------
(* What is on the wire.                                                    *)

Frame(data) == SizeBytes(Len(data)) \o data

(* The frames of the messages after the first n. *)
Ahead(messages, n) ==
    FlattenSeq([i \in 1..(Len(messages) - n) |-> Frame(messages[n + i])])

LEMMA FrameType ==
    ASSUME NEW data \in Seq(Byte)
    PROVE  Frame(data) \in Seq(Byte)
BY SizeBytesType, ConcatProperties DEF Frame

LEMMA AheadIs ==
    ASSUME NEW w \in Seq(Seq(Byte)), NEW n \in 0..Len(w)
    PROVE  /\ Ahead(w, n) \in Seq(Byte)
           /\ n = Len(w) => Ahead(w, n) = <<>>
           /\ n < Len(w) => Ahead(w, n) = Frame(w[n + 1]) \o Ahead(w, n + 1)
           /\ \A x \in Seq(Byte) : Ahead(Append(w, x), n) = Ahead(w, n) \o Frame(x)
<1> DEFINE frames == [i \in 1..(Len(w) - n) |-> Frame(w[n + i])]
<1>1. \A i \in 1..(Len(w) - n) : Frame(w[n + i]) \in Seq(Byte)
    <2> SUFFICES ASSUME NEW i \in 1..(Len(w) - n) PROVE Frame(w[n + i]) \in Seq(Byte)
        OBVIOUS
    <2>1. w[n + i] \in Seq(Byte)
        OBVIOUS
    <2> QED BY <2>1, FrameType
<1>2. /\ frames \in Seq(Seq(Byte)) /\ Len(frames) = Len(w) - n
      /\ \A i \in 1..(Len(w) - n) : frames[i] = Frame(w[n + i])
    BY <1>1
<1>3. Ahead(w, n) = FlattenSeq(frames)
    BY DEF Ahead
<1> HIDE DEF frames
<1>4. Ahead(w, n) \in Seq(Byte)
    BY <1>2, <1>3, FlattenType
<1>5. ASSUME n = Len(w) PROVE Ahead(w, n) = <<>>
    <2>1. frames = <<>>
        BY <1>2, <1>5, EmptySeq
    <2> QED BY <1>3, <2>1, FlattenEmpty
<1>6. ASSUME n < Len(w) PROVE Ahead(w, n) = Frame(w[n + 1]) \o Ahead(w, n + 1)
    <2>1. frames # <<>> /\ Head(frames) = Frame(w[n + 1])
        BY <1>2, <1>6
    <2>2. Tail(frames) = [i \in 1..(Len(w) - (n + 1)) |-> Frame(w[(n + 1) + i])]
        <3> DEFINE others == [i \in 1..(Len(w) - (n + 1)) |-> Frame(w[(n + 1) + i])]
        <3>1. /\ Tail(frames) \in Seq(Seq(Byte))
              /\ Len(Tail(frames)) = Len(w) - (n + 1)
              /\ \A i \in 1..(Len(w) - (n + 1)) : Tail(frames)[i] = frames[i + 1]
            BY <1>2, <1>6
        <3>2. \A i \in 1..(Len(w) - (n + 1)) :
                  /\ frames[i + 1] = Frame(w[n + (i + 1)])
                  /\ n + (i + 1) = (n + 1) + i
            BY <1>2, <1>6
        <3>3. \A i \in 1..(Len(w) - (n + 1)) : Tail(frames)[i] = others[i]
            BY <3>1, <3>2
        <3>4. Tail(frames) = [i \in 1..(Len(w) - (n + 1)) |-> Tail(frames)[i]]
            <4> DEFINE tail == Tail(frames)
            <4>1. tail \in [1..Len(tail) -> Seq(Byte)]
                BY <3>1, LenProperties
            <4> HIDE DEF tail
            <4>2. tail = [i \in 1..Len(tail) |-> tail[i]]
                BY <4>1
            <4> QED BY <3>1, <4>2 DEF tail
        <3> QED BY <3>3, <3>4
    <2>3. FlattenSeq(frames) = Head(frames) \o FlattenSeq(Tail(frames))
        BY <1>2, <2>1, FlattenHead
    <2> QED BY <1>3, <2>1, <2>2, <2>3 DEF Ahead
<1>7. ASSUME NEW x \in Seq(Byte)
      PROVE  Ahead(Append(w, x), n) = Ahead(w, n) \o Frame(x)
    <2> DEFINE more == [i \in 1..(Len(Append(w, x)) - n) |-> Frame(Append(w, x)[n + i])]
    <2>1. /\ Len(Append(w, x)) = Len(w) + 1 /\ Append(w, x)[Len(w) + 1] = x
          /\ \A i \in 1..Len(w) : Append(w, x)[i] = w[i]
        OBVIOUS
    <2>2. more = Append(frames, Frame(x))
        <3> DEFINE longer == Append(frames, Frame(x))
        <3>1. longer = [i \in 1..(Len(w) - n + 1) |->
                           IF i = Len(w) - n + 1 THEN Frame(x) ELSE frames[i]]
            <4>1. /\ longer \in Seq(Seq(Byte)) /\ Len(longer) = Len(w) - n + 1
                  /\ longer[Len(w) - n + 1] = Frame(x)
                  /\ \A i \in 1..(Len(w) - n) : longer[i] = frames[i]
                BY <1>2, FrameType
            <4> HIDE DEF longer
            <4>2. longer \in [1..Len(longer) -> Seq(Byte)]
                BY <4>1, LenProperties
            <4>3. longer = [i \in 1..Len(longer) |-> longer[i]]
                BY <4>2
            <4>4. \A i \in 1..Len(longer) : longer[i] =
                      IF i = Len(w) - n + 1 THEN Frame(x) ELSE frames[i]
                <5> SUFFICES ASSUME NEW i \in 1..Len(longer),
                                    i # Len(w) - n + 1
                             PROVE  longer[i] = frames[i]
                    BY <4>1
                <5>1. i \in 1..(Len(w) - n)
                    BY <4>1
                <5> QED BY <4>1, <5>1
            <4> QED BY <4>1, <4>3, <4>4
        <3>2. ASSUME NEW i \in 1..(Len(w) - n + 1)
              PROVE  Frame(Append(w, x)[n + i]) =
                         IF i = Len(w) - n + 1 THEN Frame(x) ELSE frames[i]
            <4>1. CASE i = Len(w) - n + 1
                <5>1. n + i = Len(w) + 1
                    BY <4>1
                <5> QED BY <2>1, <4>1, <5>1
            <4>2. CASE i # Len(w) - n + 1
                <5>1. n + i \in 1..Len(w) /\ i \in 1..(Len(w) - n)
                    BY <4>2
                <5>2. Append(w, x)[n + i] = w[n + i]
                    BY <2>1, <5>1
                <5> QED BY <1>2, <4>2, <5>1, <5>2
            <4> QED BY <4>1, <4>2
        <3>3. Len(Append(w, x)) - n = Len(w) - n + 1
            BY <2>1
        <3> QED BY <3>1, <3>2, <3>3
    <2>3. FlattenSeq(Append(frames, Frame(x))) = FlattenSeq(frames) \o Frame(x)
        BY <1>2, FrameType, FlattenAppend
    <2> QED BY <1>3, <2>2, <2>3 DEF Ahead
<1> QED BY <1>4, <1>5, <1>6, <1>7

-----------------------------------------------------------------------------
(* The inductive invariant.                                                *)

(* Only messages that fit are written.                                     *)
SizesInv ==
    \A c \in 1..Latest : \A i \in 1..Len(written[c]) : Len(written[c][i]) < SizeLimit

(* A size that was read is the size of the next message.                   *)
SizeInv ==
    size # -1 =>
        /\ Len(received[Latest]) < Len(written[Latest])
        /\ size = Len(written[Latest][Len(received[Latest]) + 1])

(* What is still to be read of the latest connection, would it not break.  *)
Expected ==
    LET w == written[Latest]
        r == Len(received[Latest]) IN
    IF size = -1 THEN Ahead(w, r) ELSE w[r + 1] \o Ahead(w, r + 1)

(* Some bytes are the beginning of others, all of them as long as the      *)
(* connection did not break.                                               *)
Begins(bytes, others) ==
    \E lost \in Seq(Byte) :
        bytes \o lost = others /\ (open => lost = <<>>)

WireInv == Begins(stream, Expected)

FramingInv ==
    /\ TypeOK
    /\ SizesInv
    /\ ReceivedAsWritten
    /\ SizeInv
    /\ WireInv

LEMMA LimitType == SizeLimit \in Nat \ {0}
BY WeightIs, Parameters DEF SizeLimit

LEMMA LatestType ==
    ASSUME TypeOK
    PROVE  /\ Latest \in Nat \ {0} /\ Len(received) = Latest
           /\ written[Latest] \in Seq(Seq(Byte)) /\ received[Latest] \in Seq(Seq(Byte))
           /\ \A c \in 1..Latest : written[c] \in Seq(Seq(Byte)) /\ received[c] \in Seq(Seq(Byte))
BY EmptySeq DEF TypeOK, Latest

(* Of what was written to a connection when it is new.                     *)
LEMMA Nothing ==
    /\ <<>> \in Seq(Byte) /\ <<>> \in Seq(Seq(Byte)) /\ Len(<<>>) = 0
    /\ Ahead(<<>>, 0) = <<>>
    /\ IsPrefix(<<>>, <<>>)
<1>1. <<>> \in Seq(Byte) /\ <<>> \in Seq(Seq(Byte)) /\ Len(<<>>) = 0
    OBVIOUS
<1>2. Ahead(<<>>, 0) = <<>>
    <2>1. ASSUME NEW w \in Seq(Seq(Byte)), Len(w) = 0 PROVE Ahead(w, 0) = <<>>
        <3>1. 0 \in 0..Len(w)
            BY <2>1
        <3> QED BY <2>1, <3>1, AheadIs
    <2> QED BY <1>1, <2>1
<1>3. IsPrefix(<<>>, <<>>)
    BY DEF IsPrefix
<1> QED BY <1>1, <1>2, <1>3

LEMMA InitInv == Init => FramingInv
<1> SUFFICES ASSUME Init PROVE FramingInv
    OBVIOUS
<1>1. /\ Latest = 1 /\ written[Latest] = <<>> /\ received[Latest] = <<>>
      /\ written \in Seq(Seq(Seq(Byte))) /\ Len(received) = 1
      /\ received \in Seq(Seq(Seq(Byte))) /\ <<>> \in Seq(Seq(Byte))
      /\ written # <<>>
    BY DEF Init, Latest
<1>2. TypeOK
    BY <1>1, LimitType DEF TypeOK, Init
<1>3. SizesInv /\ SizeInv
    BY <1>1 DEF SizesInv, SizeInv, Init
<1>4. ReceivedAsWritten
    <2>1. IsPrefix(received[1], written[1])
        BY <1>1, Nothing
    <2> QED BY <1>1, <2>1 DEF ReceivedAsWritten
<1>5. WireInv
    <2>1. Expected = <<>>
        BY <1>1, Nothing DEF Expected, Init
    <2>2. stream \o <<>> = <<>> /\ <<>> \in Seq(Byte)
        BY DEF Init
    <2> QED BY <2>1, <2>2 DEF WireInv, Begins
<1> QED BY <1>2, <1>3, <1>4, <1>5 DEF FramingInv

(* A new connection has nothing written and nothing on the wire.           *)
LEMMA StartOverInv ==
    ASSUME FramingInv, StartOver, received' = Append(received, <<>>)
    PROVE  FramingInv'
<1>0. <<>> \in Seq(Byte) /\ <<>> \in Seq(Seq(Byte)) /\ Len(<<>>) = 0
    BY Nothing
<1>1. /\ TypeOK /\ SizesInv /\ ReceivedAsWritten
      /\ written \in Seq(Seq(Seq(Byte))) /\ Latest \in Nat \ {0} /\ Latest = Len(written)
      /\ received \in Seq(Seq(Seq(Byte))) /\ Len(received) = Latest
    BY LatestType DEF FramingInv, TypeOK, Latest
<1>2. /\ written' \in Seq(Seq(Seq(Byte))) /\ written' # <<>> /\ Latest' = Latest + 1
      /\ written'[Latest + 1] = <<>>
      /\ \A c \in 1..Latest : written'[c] = written[c]
    <2>1. written' = Append(written, <<>>)
        BY DEF StartOver
    <2>2. /\ Append(written, <<>>) \in Seq(Seq(Seq(Byte)))
          /\ Len(Append(written, <<>>)) = Len(written) + 1
          /\ Append(written, <<>>)[Len(written) + 1] = <<>>
          /\ \A c \in 1..Len(written) : Append(written, <<>>)[c] = written[c]
        BY <1>0, <1>1
    <2>3. Latest' = Latest + 1
        BY <2>1, <2>2 DEF Latest
    <2>4. written' # <<>>
        BY <1>1, <2>1, <2>2, EmptySeq
    <2> QED BY <1>1, <2>1, <2>2, <2>3, <2>4
<1>3. /\ received' \in Seq(Seq(Seq(Byte))) /\ Len(received') = Latest + 1
      /\ received'[Latest + 1] = <<>>
      /\ \A c \in 1..Latest : received'[c] = received[c]
    BY <1>0, <1>1
<1>4. open' = TRUE /\ stream' = <<>> /\ size' = -1
    BY DEF StartOver
<1>5. TypeOK'
    BY <1>2, <1>3, <1>4, LimitType DEF TypeOK, Latest
<1>6. SizesInv' /\ SizeInv'
    <2>1. SizeInv'
        BY <1>4 DEF SizeInv
    <2>2. ASSUME NEW c \in 1..(Latest + 1)
          PROVE  \A i \in 1..Len(written'[c]) : Len(written'[c][i]) < SizeLimit
        <3>1. CASE c \in 1..Latest
            BY <1>1, <1>2, <3>1 DEF SizesInv
        <3>2. CASE c = Latest + 1
            BY <1>0, <1>2, <3>2
        <3> QED BY <1>1, <3>1, <3>2
    <2> QED BY <1>2, <2>1, <2>2 DEF SizesInv
<1>7. ReceivedAsWritten'
    <2>1. ASSUME NEW c \in 1..(Latest + 1) PROVE IsPrefix(received'[c], written'[c])
        <3>1. CASE c \in 1..Latest
            BY <1>1, <1>2, <1>3, <3>1 DEF ReceivedAsWritten
        <3>2. CASE c = Latest + 1
            BY <1>2, <1>3, <3>2, Nothing
        <3> QED BY <1>1, <3>1, <3>2
    <2> QED BY <1>2, <2>1 DEF ReceivedAsWritten
<1>8. WireInv'
    <2>1. Expected' = <<>>
        BY <1>2, <1>3, <1>4, Nothing DEF Expected
    <2>2. stream' \o <<>> = <<>>
        BY <1>4
    <2> QED BY <1>0, <2>1, <2>2 DEF WireInv, Begins
<1> QED BY <1>5, <1>6, <1>7, <1>8 DEF FramingInv

(* A header that came in whole is the size of the next message.            *)
LEMMA HeaderIs ==
    ASSUME FramingInv, size = -1, Len(stream) >= HeaderSize
    PROVE  LET w == written[Latest]
               r == Len(received[Latest])
               rest == SubSeq(stream, HeaderSize + 1, Len(stream)) IN
           /\ r \in Nat /\ r < Len(w)
           /\ w[r + 1] \in Seq(Byte) /\ Len(w[r + 1]) < SizeLimit
           /\ Decode(SubSeq(stream, 1, HeaderSize)) = Len(w[r + 1])
           /\ rest \in Seq(Byte)
           /\ Begins(rest, w[r + 1] \o Ahead(w, r + 1))
<1> DEFINE w == written[Latest]
           r == Len(received[Latest])
           rest == SubSeq(stream, HeaderSize + 1, Len(stream))
<1>1. /\ w \in Seq(Seq(Byte)) /\ r \in Nat /\ r <= Len(w) /\ Len(w) \in Nat
      /\ \A i \in 1..Len(w) : w[i] \in Seq(Byte) /\ Len(w[i]) < SizeLimit
      /\ stream \in Seq(Byte)
    <2>1. Latest \in 1..Latest /\ received[Latest] \in Seq(Seq(Byte)) /\ w \in Seq(Seq(Byte))
        BY LatestType DEF FramingInv
    <2>2. r \in Nat /\ Len(w) \in Nat /\ \A i \in 1..Len(w) : w[i] \in Seq(Byte)
        BY <2>1
    <2>3. r <= Len(w)
        BY <2>1 DEF FramingInv, ReceivedAsWritten, IsPrefix
    <2>4. \A i \in 1..Len(w) : Len(w[i]) < SizeLimit
        BY <2>1 DEF FramingInv, SizesInv
    <2> QED BY <2>1, <2>2, <2>3, <2>4 DEF FramingInv, TypeOK
<1>2. PICK lost \in Seq(Byte) : stream \o lost = Ahead(w, r) /\ (open => lost = <<>>)
    BY DEF FramingInv, WireInv, Begins, Expected
<1> HIDE DEF w, r
<1>3. r < Len(w)
    <2> SUFFICES ASSUME r = Len(w) PROVE FALSE
        BY <1>1
    <2>1. stream \o lost = <<>>
        BY <1>1, <1>2, AheadIs
    <2>2. Len(stream \o lost) = Len(stream) + Len(lost) /\ Len(lost) \in Nat
          /\ Len(stream) \in Nat
        BY <1>1
    <2> QED BY <2>1, <2>2, Parameters
<1> DEFINE body == w[r + 1]
           header == SizeBytes(Len(body))
<1>4. body \in Seq(Byte) /\ Len(body) \in Nat /\ Len(body) < SizeLimit
    BY <1>1, <1>3
<1>5. Ahead(w, r + 1) \in Seq(Byte)
    BY <1>1, <1>3, AheadIs
<1>6. header \in Seq(Byte) /\ Len(header) = HeaderSize
    BY <1>4, SizeBytesType
<1>7. Ahead(w, r) = (header \o body) \o Ahead(w, r + 1)
    <2>1. r \in 0..Len(w)
        BY <1>1
    <2>2. Ahead(w, r) = Frame(w[r + 1]) \o Ahead(w, r + 1)
        BY <1>1, <1>3, <2>1, AheadIs
    <2>3. Frame(w[r + 1]) = header \o body
        BY DEF Frame
    <2> QED BY <2>2, <2>3
<1> HIDE DEF body, header
<1>8. stream \o lost = header \o (body \o Ahead(w, r + 1))
    <2>1. (header \o body) \o Ahead(w, r + 1) = header \o (body \o Ahead(w, r + 1))
        BY <1>4, <1>5, <1>6
    <2> QED BY <1>2, <1>7, <2>1
<1>9. body \o Ahead(w, r + 1) \in Seq(Byte)
    BY <1>4, <1>5
<1>10. /\ SubSeq(stream, 1, Len(header)) = header
       /\ SubSeq(stream, Len(header) + 1, Len(stream)) \in Seq(Byte)
       /\ SubSeq(stream, Len(header) + 1, Len(stream)) \o lost = body \o Ahead(w, r + 1)
    <2> DEFINE more == body \o Ahead(w, r + 1)
    <2>1. stream \o lost = header \o more
        BY <1>8
    <2>2. /\ stream \in Seq(Byte) /\ lost \in Seq(Byte)
          /\ header \in Seq(Byte) /\ more \in Seq(Byte)
          /\ Len(header) <= Len(stream)
        BY <1>1, <1>6, <1>9
    <2> HIDE DEF more
    <2>3. /\ SubSeq(stream, 1, Len(header)) = header
          /\ SubSeq(stream, Len(header) + 1, Len(stream)) \in Seq(Byte)
          /\ SubSeq(stream, Len(header) + 1, Len(stream)) \o lost = more
        BY <2>1, <2>2, Cut
    <2> QED BY <2>3 DEF more
<1>11. Decode(SubSeq(stream, 1, HeaderSize)) = Len(body)
    BY <1>4, <1>6, <1>10, DecodesWhatItIs DEF header
<1>12. Begins(rest, body \o Ahead(w, r + 1))
    BY <1>2, <1>6, <1>10 DEF Begins
<1> QED BY <1>1, <1>3, <1>4, <1>6, <1>10, <1>11, <1>12 DEF body, w, r

LEMMA WriteInv ==
    ASSUME FramingInv, NEW source \in Sources, Write(source)
    PROVE  FramingInv'
<1> DEFINE data == FlattenSeq(source)
           w == written[Latest]
           r == Len(received[Latest])
<1>1. data \in Seq(Byte) /\ Len(data) \in Nat /\ Len(data) < SizeLimit
    <2>1. source \in Seq(Seq(Byte))
        BY ParametersAssumption
    <2>2. data \in Seq(Byte)
        BY <2>1, FlattenType
    <2> QED BY <2>2, LimitType DEF Write, Fits, buffer_size
<1>2. encode(Message(source)) = Frame(data)
    <2>1. Len(data) % SizeLimit = Len(data)
        BY <1>1, LimitType
    <2>2. SubSeq(data, 1, Len(data)) = data
        BY <1>1
    <2> QED BY <2>1, <2>2 DEF encode, Message, buffer_size, Frame
<1>3. /\ written \in Seq(Seq(Seq(Byte))) /\ Latest \in Nat \ {0} /\ Latest = Len(written)
      /\ Latest \in 1..Latest /\ Len(received) = Latest
      /\ w \in Seq(Seq(Byte)) /\ received[Latest] \in Seq(Seq(Byte)) /\ stream \in Seq(Byte)
      /\ \A c \in 1..Latest : written[c] \in Seq(Seq(Byte)) /\ received[c] \in Seq(Seq(Byte))
      /\ r \in Nat /\ Len(w) \in Nat /\ size \in -1..(SizeLimit - 1)
    BY LatestType DEF FramingInv, TypeOK, Latest
<1>4. /\ written' = [written EXCEPT ![Latest] = Append(w, data)]
      /\ stream' = IF open THEN stream \o Frame(data) ELSE stream
      /\ UNCHANGED <<received, open, size>>
    BY <1>2 DEF Write
<1> HIDE DEF data
<1>5. /\ Append(w, data) \in Seq(Seq(Byte)) /\ Len(Append(w, data)) = Len(w) + 1
      /\ Append(w, data)[Len(w) + 1] = data
      /\ \A i \in 1..Len(w) : Append(w, data)[i] = w[i]
    BY <1>1, <1>3
<1>6. /\ written' \in Seq(Seq(Seq(Byte))) /\ Latest' = Latest /\ written' # <<>>
      /\ written'[Latest] = Append(w, data)
      /\ \A c \in 1..Latest : c # Latest => written'[c] = written[c]
    BY <1>3, <1>4, <1>5, ExceptSeq, EmptySeq DEF Latest
<1> HIDE DEF w
<1>7. IsPrefix(received[Latest], w) /\ r <= Len(w)
    BY <1>3 DEF FramingInv, ReceivedAsWritten, IsPrefix, w
<1>8. Frame(data) \in Seq(Byte)
    BY <1>1, FrameType
<1>9. TypeOK'
    <2>1. stream' \in Seq(Byte)
        BY <1>3, <1>4, <1>8
    <2> QED BY <1>3, <1>4, <1>6, <2>1 DEF FramingInv, TypeOK, Latest
<1>10. SizesInv'
    <2>1. ASSUME NEW c \in 1..Latest, NEW i \in 1..Len(written'[c])
          PROVE  Len(written'[c][i]) < SizeLimit
        <3>1. CASE c # Latest
            BY <1>6, <3>1 DEF FramingInv, SizesInv
        <3>2. CASE c = Latest
            <4>1. \A j \in 1..Len(w) : Len(w[j]) < SizeLimit
                BY <1>3 DEF FramingInv, SizesInv, w
            <4>2. i \in 1..(Len(w) + 1) /\ written'[c] = Append(w, data)
                BY <1>5, <1>6, <3>2
            <4>3. CASE i = Len(w) + 1
                BY <1>1, <1>5, <4>2, <4>3
            <4>4. CASE i # Len(w) + 1
                <5>1. i \in 1..Len(w)
                    BY <4>2, <4>4, <1>3 DEF w
                <5> QED BY <1>5, <4>1, <4>2, <5>1
            <4> QED BY <4>3, <4>4
        <3> QED BY <3>1, <3>2
    <2> QED BY <1>6, <2>1 DEF SizesInv
<1>11. ReceivedAsWritten'
    <2>1. ASSUME NEW c \in 1..Latest PROVE IsPrefix(received[c], written'[c])
        <3>1. CASE c # Latest
            BY <1>6, <3>1 DEF FramingInv, ReceivedAsWritten
        <3>2. CASE c = Latest
            BY <1>1, <1>3, <1>6, <1>7, <3>2, PrefixOfLonger DEF w
        <3> QED BY <3>1, <3>2
    <2> QED BY <1>4, <1>6, <2>1 DEF ReceivedAsWritten
<1>12. SizeInv'
    <2> SUFFICES ASSUME size # -1
                 PROVE  r < Len(w) + 1 /\ size = Len(Append(w, data)[r + 1])
        BY <1>4, <1>5, <1>6 DEF SizeInv
    <2>1. r < Len(w) /\ size = Len(w[r + 1])
        BY DEF FramingInv, SizeInv, w
    <2> QED BY <1>3, <1>5, <2>1
<1>13. WireInv'
    <2>1. Expected' = Expected \o Frame(data) /\ Expected \in Seq(Byte)
        <3>1. CASE size = -1
            <4>1. Expected = Ahead(w, r) /\ Expected' = Ahead(Append(w, data), r)
                BY <1>4, <1>6, <3>1 DEF Expected, w
            <4>2. r \in 0..Len(w) /\ w \in Seq(Seq(Byte))
                BY <1>3, <1>7 DEF w
            <4>3. Ahead(Append(w, data), r) = Ahead(w, r) \o Frame(data) /\ Ahead(w, r) \in Seq(Byte)
                BY <1>1, <4>2, AheadIs
            <4> QED BY <4>1, <4>3
        <3>2. CASE size # -1
            <4>1. r < Len(w)
                BY <3>2 DEF FramingInv, SizeInv, w
            <4>2. Append(w, data)[r + 1] = w[r + 1] /\ w[r + 1] \in Seq(Byte)
                BY <1>3, <1>5, <4>1 DEF w
            <4>3. /\ Expected = w[r + 1] \o Ahead(w, r + 1)
                  /\ Expected' = w[r + 1] \o Ahead(Append(w, data), r + 1)
                BY <1>4, <1>6, <3>2, <4>2 DEF Expected, w
            <4>4. r + 1 \in 0..Len(w) /\ w \in Seq(Seq(Byte))
                BY <1>3, <4>1 DEF w
            <4>5. /\ Ahead(Append(w, data), r + 1) = Ahead(w, r + 1) \o Frame(data)
                  /\ Ahead(w, r + 1) \in Seq(Byte)
                BY <1>1, <4>4, AheadIs
            <4> DEFINE a == w[r + 1]
                       b == Ahead(w, r + 1)
                       f == Frame(data)
            <4>6. a \in Seq(Byte) /\ b \in Seq(Byte) /\ f \in Seq(Byte)
                BY <1>8, <4>2, <4>5
            <4> HIDE DEF a, b, f
            <4>7. a \o (b \o f) = (a \o b) \o f /\ a \o b \in Seq(Byte)
                BY <4>6
            <4> QED BY <4>3, <4>5, <4>7 DEF a, b, f
        <3> QED BY <3>1, <3>2
    <2>2. PICK lost \in Seq(Byte) : stream \o lost = Expected /\ (open => lost = <<>>)
        BY DEF FramingInv, WireInv, Begins
    <2> DEFINE f == Frame(data)
    <2>3. f \in Seq(Byte) /\ stream \in Seq(Byte)
        BY <1>3, <1>8
    <2>4. Expected' = Expected \o f /\ stream' = IF open THEN stream \o f ELSE stream
        BY <1>4, <2>1
    <2> HIDE DEF f
    <2>5. CASE open
        <3>1. lost = <<>> /\ stream \o <<>> = stream
            BY <2>2, <2>3, <2>5
        <3>2. stream' \o <<>> = Expected' /\ <<>> \in Seq(Byte)
            <4>1. stream \o f \in Seq(Byte)
                BY <2>3
            <4>2. (stream \o f) \o <<>> = stream \o f
                BY <4>1
            <4> QED BY <2>2, <2>4, <2>5, <3>1, <4>2
        <3> QED BY <3>2 DEF WireInv, Begins
    <2>6. CASE ~open
        <3>1. stream \o (lost \o f) = (stream \o lost) \o f /\ lost \o f \in Seq(Byte)
            BY <2>3
        <3>2. stream' \o (lost \o f) = Expected' /\ ~open'
            BY <1>4, <2>2, <2>4, <2>6, <3>1
        <3> QED BY <3>1, <3>2 DEF WireInv, Begins
    <2> QED BY <2>5, <2>6
<1> QED BY <1>9, <1>10, <1>11, <1>12, <1>13 DEF FramingInv

LEMMA BreakInv ==
    ASSUME FramingInv, Break
    PROVE  FramingInv'
<1>1. PICK n \in 0..Len(stream) : stream' = SubSeq(stream, 1, n)
    BY DEF Break
<1>2. /\ stream \in Seq(Byte) /\ stream' \in Seq(Byte) /\ ~open' /\ open
      /\ UNCHANGED <<written, received, size>>
    BY <1>1 DEF Break, FramingInv, TypeOK
<1>3. /\ SubSeq(stream, n + 1, Len(stream)) \in Seq(Byte)
      /\ SubSeq(stream, 1, n) \o SubSeq(stream, n + 1, Len(stream)) = stream
    <2>1. /\ 1 \in 1..(Len(stream) + 1) /\ n \in (1 - 1)..Len(stream)
          /\ Len(stream) \in n..Len(stream)
        BY <1>2
    <2>2. SubSeq(stream, 1, n) \o SubSeq(stream, n + 1, Len(stream))
              = SubSeq(stream, 1, Len(stream))
        BY <1>2, <2>1, ConcatAdjacentSubSeq
    <2>3. SubSeq(stream, 1, Len(stream)) = stream
        BY <1>2
    <2>4. SubSeq(stream, n + 1, Len(stream)) \in Seq(Byte)
        BY <1>2
    <2> QED BY <2>2, <2>3, <2>4
<1>4. stream = Expected
    BY <1>2 DEF FramingInv, WireInv, Begins
<1>5. Expected' = Expected
    BY <1>2 DEF Expected, Latest
<1>6. WireInv'
    BY <1>1, <1>2, <1>3, <1>4, <1>5 DEF WireInv, Begins
<1>7. TypeOK' /\ SizesInv' /\ ReceivedAsWritten' /\ SizeInv'
    <2>1. TypeOK'
        <3>1. /\ written' = written /\ received' = received /\ size' = size
              /\ open' = FALSE
            BY <1>2 DEF Break
        <3>2. TypeOK
            BY DEF FramingInv
        <3> QED BY <1>2, <3>1, <3>2, Zenon DEF TypeOK
    <2>2. SizesInv' /\ ReceivedAsWritten'
        BY <1>2 DEF FramingInv, SizesInv, ReceivedAsWritten, Latest
    <2>3. SizeInv'
        BY <1>2 DEF FramingInv, SizeInv, Latest
    <2> QED BY <2>1, <2>2, <2>3
<1> QED BY <1>6, <1>7 DEF FramingInv

LEMMA ReadHeaderInv ==
    ASSUME FramingInv, ReadHeader
    PROVE  FramingInv'
<1> DEFINE w == written[Latest]
           r == Len(received[Latest])
           rest == SubSeq(stream, HeaderSize + 1, Len(stream))
<1>1. /\ r \in Nat /\ r < Len(w) /\ w[r + 1] \in Seq(Byte) /\ Len(w[r + 1]) < SizeLimit
      /\ Decode(SubSeq(stream, 1, HeaderSize)) = Len(w[r + 1])
      /\ rest \in Seq(Byte) /\ Begins(rest, w[r + 1] \o Ahead(w, r + 1))
    BY HeaderIs DEF ReadHeader
<1>2. /\ size' = Len(w[r + 1]) /\ stream' = rest
      /\ UNCHANGED <<written, received, open>>
    BY <1>1 DEF ReadHeader
<1>3. size' # -1 /\ size' \in -1..(SizeLimit - 1)
    <2>1. Len(w[r + 1]) \in Nat
        BY <1>1
    <2> HIDE DEF w, r, rest
    <2> QED BY <1>1, <1>2, <2>1, LimitType
<1>4. w' = w /\ r' = r
    BY <1>2 DEF Latest
<1> HIDE DEF w, r, rest
<1>5. TypeOK'
    BY <1>1, <1>2, <1>3 DEF FramingInv, TypeOK
<1>6. SizesInv' /\ ReceivedAsWritten'
    BY <1>2 DEF FramingInv, SizesInv, ReceivedAsWritten, Latest
<1>7. SizeInv'
    BY <1>1, <1>2, <1>4 DEF SizeInv, w, r
<1>8. Expected' = w[r + 1] \o Ahead(w, r + 1)
    BY <1>3, <1>4 DEF Expected, w, r
<1>9. WireInv'
    <2>1. PICK lost \in Seq(Byte) : /\ rest \o lost = w[r + 1] \o Ahead(w, r + 1)
                                    /\ open => lost = <<>>
        BY <1>1 DEF Begins
    <2>2. stream' \o lost = Expected' /\ (open' => lost = <<>>)
        BY <1>2, <1>8, <2>1
    <2> QED BY <2>2 DEF WireInv, Begins
<1> QED BY <1>5, <1>6, <1>7, <1>9 DEF FramingInv

LEMMA ReadBodyInv ==
    ASSUME FramingInv, ReadBody
    PROVE  FramingInv'
<1> DEFINE w == written[Latest]
           r == Len(received[Latest])
           body == w[r + 1]
           rest == SubSeq(stream, size + 1, Len(stream))
<1>1. /\ written \in Seq(Seq(Seq(Byte))) /\ Latest \in Nat \ {0} /\ Latest = Len(written)
      /\ received \in Seq(Seq(Seq(Byte))) /\ Latest \in 1..Len(received)
      /\ Len(received) = Latest
      /\ w \in Seq(Seq(Byte)) /\ received[Latest] \in Seq(Seq(Byte)) /\ stream \in Seq(Byte)
      /\ \A c \in 1..Latest : written[c] \in Seq(Seq(Byte)) /\ received[c] \in Seq(Seq(Byte))
      /\ r \in Nat /\ Len(w) \in Nat
    BY LatestType DEF FramingInv, TypeOK, Latest
<1>2. r < Len(w) /\ size = Len(body) /\ size # -1 /\ Len(stream) >= size
    BY DEF FramingInv, SizeInv, ReadBody
<1>3. /\ received' = [received EXCEPT ![Latest] =
                           Append(received[Latest], SubSeq(stream, 1, size))]
      /\ stream' = rest /\ size' = -1
      /\ UNCHANGED <<written, open>>
    BY DEF ReadBody
<1>4. PICK lost \in Seq(Byte) : /\ stream \o lost = body \o Ahead(w, r + 1)
                                /\ open => lost = <<>>
    BY <1>2 DEF FramingInv, WireInv, Begins, Expected
<1>5. body \in Seq(Byte) /\ Ahead(w, r + 1) \in Seq(Byte)
    <2>1. r + 1 \in 0..Len(w) /\ r + 1 \in 1..Len(w)
        BY <1>1, <1>2
    <2>2. w \in Seq(Seq(Byte))
        BY <1>1
    <2> HIDE DEF w, r
    <2>3. w[r + 1] \in Seq(Byte)
        BY <2>1, <2>2
    <2>4. Ahead(w, r + 1) \in Seq(Byte)
        BY <2>1, <2>2, AheadIs
    <2> QED BY <2>3, <2>4
<1> HIDE DEF w, r, body, rest
<1>6. /\ SubSeq(stream, 1, size) = body /\ rest \in Seq(Byte)
      /\ rest \o lost = Ahead(w, r + 1)
    <2> DEFINE more == Ahead(w, r + 1)
    <2>1. /\ stream \in Seq(Byte) /\ body \in Seq(Byte) /\ more \in Seq(Byte)
          /\ stream \o lost = body \o more
          /\ Len(body) <= Len(stream)
        BY <1>1, <1>2, <1>4, <1>5
    <2> HIDE DEF more
    <2>2. /\ SubSeq(stream, 1, Len(body)) = body
          /\ SubSeq(stream, Len(body) + 1, Len(stream)) \in Seq(Byte)
          /\ SubSeq(stream, Len(body) + 1, Len(stream)) \o lost = more
        BY <2>1, Cut
    <2> QED BY <1>2, <2>2 DEF rest, more
<1> DEFINE more == Append(received[Latest], body)
<1>7. more \in Seq(Seq(Byte)) /\ Len(more) = r + 1
    BY <1>1, <1>5 DEF r
<1>8. /\ received' \in Seq(Seq(Seq(Byte))) /\ Len(received') = Latest
      /\ received'[Latest] = more
      /\ \A c \in 1..Latest : c # Latest => received'[c] = received[c]
    <2> HIDE DEF more
    <2>1. received' = [received EXCEPT ![Latest] = more]
        BY <1>3, <1>6 DEF more
    <2> QED BY <1>1, <1>7, <2>1, ExceptSeq
<1>9. Latest' = Latest /\ w' = w
    BY <1>3 DEF Latest, w
<1>10. IsPrefix(more, w)
    <2>1. IsPrefix(received[Latest], w)
        BY <1>1 DEF FramingInv, ReceivedAsWritten, w
    <2> QED BY <1>1, <1>2, <2>1, LongerPrefix DEF r, body
<1> HIDE DEF more
<1>11. TypeOK'
    BY <1>1, <1>3, <1>6, <1>8, LimitType DEF FramingInv, TypeOK, Latest
<1>12. SizesInv' /\ SizeInv'
    BY <1>3, <1>9 DEF FramingInv, SizesInv, SizeInv
<1>13. ReceivedAsWritten'
    <2>1. ASSUME NEW c \in 1..Latest PROVE IsPrefix(received'[c], written[c])
        <3>1. CASE c = Latest
            BY <1>8, <1>10, <3>1 DEF w
        <3>2. CASE c # Latest
            BY <1>8, <3>2 DEF FramingInv, ReceivedAsWritten
        <3> QED BY <3>1, <3>2
    <2> QED BY <1>3, <1>9, <2>1 DEF ReceivedAsWritten
<1>14. WireInv'
    <2>1. Expected' = Ahead(w, r + 1)
        BY <1>3, <1>7, <1>8, <1>9 DEF Expected, w
    <2>2. stream' \o lost = Expected' /\ (open' => lost = <<>>)
        BY <1>3, <1>4, <1>6, <2>1
    <2> QED BY <2>2 DEF WireInv, Begins
<1> QED BY <1>11, <1>12, <1>13, <1>14 DEF FramingInv

LEMMA NextInv ==
    ASSUME FramingInv, [Next]_vars
    PROVE  FramingInv'
<1>1. CASE \E source \in Sources : Write(source)
    BY <1>1, WriteInv
<1>2. CASE Break
    BY <1>2, BreakInv
<1>3. CASE ReadHeader
    BY <1>3, ReadHeaderInv
<1>4. CASE ReadZero
    BY <1>4, StartOverInv DEF ReadZero
<1>5. CASE ReadBody
    BY <1>5, ReadBodyInv
<1>6. CASE ReadFails
    BY <1>6, StartOverInv DEF ReadFails
<1>7. CASE UNCHANGED vars
    BY <1>7 DEF vars, FramingInv, TypeOK, SizesInv, ReceivedAsWritten, SizeInv,
                WireInv, Begins, Expected, Latest
<1> QED BY <1>1, <1>2, <1>3, <1>4, <1>5, <1>6, <1>7 DEF Next, Read

-----------------------------------------------------------------------------
(* The theorems.                                                           *)

(* What is on the wire and in the encoder of a client is always of its     *)
(* type, and the beginning of the frames of what was written and was not   *)
(* received.                                                               *)
THEOREM FramingInvariant == Spec => []FramingInv
<1>1. Init => FramingInv
    BY InitInv
<1>2. FramingInv /\ [Next]_vars => FramingInv'
    BY NextInv
<1> QED BY <1>1, <1>2, PTL DEF Spec

(* Wherever connections break, the callback is given the messages that     *)
(* were written to its connection, from the first one on and byte for byte *)
(* (Client.h:188-221).                                                     *)
THEOREM AlwaysReceivedAsWritten == Spec => []ReceivedAsWritten
<1>1. FramingInv => ReceivedAsWritten
    BY DEF FramingInv
<1> QED BY <1>1, FramingInvariant, PTL

(* A client gives up a connection that works only because the next message *)
(* to be received is empty (Client.h:207).                                 *)
THEOREM AlwaysBreaksOnEmpty == Spec => BreaksOnEmpty
<1> DEFINE OnEmpty ==
               open /\ StartOver =>
                   /\ Len(received[Latest]) < Len(written[Latest])
                   /\ written[Latest][Len(received[Latest]) + 1] = <<>>
<1>1. FramingInv /\ [Next]_vars => [OnEmpty]_vars
    <2> SUFFICES ASSUME FramingInv, Next, open, StartOver
                 PROVE  /\ Len(received[Latest]) < Len(written[Latest])
                        /\ written[Latest][Len(received[Latest]) + 1] = <<>>
        OBVIOUS
    <2>1. Len(written') = Len(written) + 1
        BY LatestType DEF FramingInv, TypeOK, StartOver
    <2>2. ReadZero
        <3>1. ASSUME Len(written') = Len(written) PROVE FALSE
            BY <2>1, <3>1 DEF FramingInv, TypeOK
        <3>2. ASSUME NEW source \in Sources, Write(source) PROVE FALSE
            <4>1. Len(written') = Len(written)
                BY <3>2 DEF Write, FramingInv, TypeOK
            <4> QED BY <3>1, <4>1
        <3>3. ~Break /\ ~ReadHeader /\ ~ReadBody
            BY <3>1 DEF Break, ReadHeader, ReadBody
        <3>4. ~ReadFails
            BY DEF ReadFails
        <3> QED BY <3>2, <3>3, <3>4 DEF Next, Read
    <2> DEFINE w == written[Latest]
               r == Len(received[Latest])
    <2>3. /\ r < Len(w) /\ w[r + 1] \in Seq(Byte)
          /\ Decode(SubSeq(stream, 1, HeaderSize)) = Len(w[r + 1])
        BY <2>2, HeaderIs DEF ReadZero
    <2>4. Len(w[r + 1]) = 0
        BY <2>2, <2>3 DEF ReadZero
    <2>5. w[r + 1] = <<>>
        BY <2>3, <2>4, EmptySeq
    <2> QED BY <2>3, <2>5
<1>2. Spec => [][OnEmpty]_vars
    BY <1>1, FramingInvariant, PTL DEF Spec
<1> QED BY <1>2 DEF BreaksOnEmpty
=============================================================================
