----------------------- MODULE GenerationPointerProofs -----------------------
(***************************************************************************)
(* Proofs about GenerationPointer, for every base and every largest        *)
(* generation.                                                             *)
(***************************************************************************)
EXTENDS GenerationPointer, NumberLemmas, SequenceTheorems

USE ConstantsAssumption

\* A digit goes behind a number by multiplication, and division gets it back.
LEMMA Multiplication ==
    ASSUME NEW v \in Nat, NEW d \in Digits
    PROVE  /\ (v * Base + d) \div Base = v /\ (v * Base + d) % Base = d
           /\ v * Base + d \in Nat /\ v <= v * Base + d
           /\ v # 0 => v * Base + d >= Base /\ v < v * Base + d
  BY DEF Digits

LEMMA Division ==
    ASSUME NEW n \in Nat
    PROVE  /\ n \div Base \in Nat /\ n % Base \in Digits
           /\ n = (n \div Base) * Base + (n % Base)
           /\ n >= Base => n \div Base < n /\ n \div Base # 0
  <1>1. n \div Base \in Nat /\ n % Base \in Digits
    BY DEF Digits
  <1>2. n >= Base => n \div Base < n /\ n \div Base # 0
    OBVIOUS
  <1>3. n = (n \div Base) * Base + (n % Base)
    BY <1>1 DEF Digits
  <1>. QED
    BY <1>1, <1>2, <1>3

LEMMA Quotients ==
    ASSUME NEW a \in Nat, NEW b \in Nat, NEW c \in Digits, NEW d \in Digits,
           a * Base + c <= b * Base + d
    PROVE  a <= b
  <1>. SUFFICES ASSUME b + 1 <= a PROVE FALSE
    OBVIOUS
  <1>1. (b + 1) * Base <= a * Base
    OBVIOUS
  <1>2. (b + 1) * Base = b * Base + Base
    OBVIOUS
  <1>. QED
    BY <1>1, <1>2 DEF Digits

\* One step of the recursion that Text is defined by.
Digit(text, n) == IF n < Base THEN <<n>> ELSE Append(text[n \div Base], n % Base)

LEMMA TextsExist ==
    ASSUME NEW n \in Nat
    PROVE  \E text : text = [m \in 0 .. n |-> Digit(text, m)]
  <1>. DEFINE S == {k \in Nat : \E text : text = [m \in 0 .. k |-> Digit(text, m)]}
  <1>1. 0 \in S
    <2>. DEFINE t == [m \in 0 .. 0 |-> <<m>>]
    <2>1. t = [m \in 0 .. 0 |-> Digit(t, m)]
      BY DEF Digit
    <2>. QED
      BY <2>1
  <1>2. ASSUME NEW k \in Nat, k \in S PROVE k + 1 \in S
    <2>1. PICK t : t = [m \in 0 .. k |-> Digit(t, m)]
      BY <1>2
    <2>. DEFINE u == [m \in 0 .. k + 1 |-> IF m = k + 1 THEN Digit(t, m) ELSE t[m]]
    <2>2. ASSUME NEW m \in 0 .. k + 1 PROVE u[m] = Digit(u, m)
      <3>1. u[m] = Digit(t, m)
        BY <2>1
      <3>2. m >= Base => t[m \div Base] = u[m \div Base]
        <4>1. m >= Base => m \div Base \in 0 .. k
          BY Division
        <4>. QED
          BY <4>1
      <3>. HIDE DEF u
      <3>3. m < Base \/ m >= Base
        OBVIOUS
      <3>. QED
        BY <3>1, <3>2, <3>3 DEF Digit
    <2>3. u = [m \in 0 .. k + 1 |-> Digit(u, m)]
      <3>. DEFINE w == [m \in 0 .. k + 1 |-> Digit(u, m)]
      <3>1. \A m \in 0 .. k + 1 : u[m] = w[m]
        BY <2>2
      <3>. QED
        BY <3>1
    <2>. HIDE DEF u
    <2>. QED
      BY <2>3
  <1>. HIDE DEF S
  <1>3. Nat \subseteq S
    BY <1>1, <1>2, Induction
  <1>. QED
    BY <1>3 DEF S

LEMMA TextIs == Text = [n \in 0 .. MaxGeneration |-> Digit(Text, n)]
  <1>1. \E text : text = [m \in 0 .. MaxGeneration |-> Digit(text, m)]
    BY TextsExist
  <1>2. Text = CHOOSE text : text = [m \in 0 .. MaxGeneration |-> Digit(text, m)]
    BY DEF Text, Digit
  <1>. QED
    BY <1>1, <1>2

\* What the definition says, one text after the other.
LEMMA TextOf ==
    ASSUME NEW n \in 0 .. MaxGeneration
    PROVE  /\ n < Base => Text[n] = <<n>>
           /\ n >= Base => /\ n \div Base \in 0 .. MaxGeneration /\ n \div Base < n
                           /\ Text[n] = Append(Text[n \div Base], n % Base)
  <1>1. Text[n] = Digit(Text, n)
    BY TextIs
  <1>2. n >= Base => n \div Base \in 0 .. MaxGeneration /\ n \div Base < n
    BY Division
  <1>. QED
    BY <1>1, <1>2 DEF Digit

Numerals == Seq(Digits) \ {<<>>}

LEMMA TextIsNumeral == \A n \in 0 .. MaxGeneration : Text[n] \in Numerals
  <1>. DEFINE Odd == {n \in 0 .. MaxGeneration : Text[n] \notin Numerals}
  <1>. SUFFICES ASSUME Odd # {} PROVE FALSE
    OBVIOUS
  <1>1. Odd \in SUBSET Nat
    OBVIOUS
  <1>. HIDE DEF Odd
  <1>2. PICK n \in Odd : \A m \in Odd : n <= m
    BY <1>1, Least
  <1>. USE DEF Odd
  <1>3. CASE n < Base
    <2>0. n \in 0 .. MaxGeneration
      OBVIOUS
    <2>1. Text[n] = <<n>> /\ n \in Digits
      <3>. HIDE DEF Odd
      <3>1. Text[n] = <<n>>
        BY <1>3, <2>0, TextOf
      <3>2. n \in Digits
        BY <1>3, <2>0 DEF Digits
      <3>. QED
        BY <3>1, <3>2
    <2>2. <<n>> \in Seq(Digits) /\ <<n>> # <<>>
      BY <2>1
    <2>. QED
      BY <1>2, <2>1, <2>2 DEF Numerals
  <1>4. CASE n >= Base
    <2>1. /\ n \div Base \in 0 .. MaxGeneration /\ n \div Base < n
          /\ Text[n] = Append(Text[n \div Base], n % Base)
      BY <1>4, TextOf
    <2>2. Text[n \div Base] \in Numerals
      BY <1>2, <2>1
    <2>3. n % Base \in Digits
      BY Division
    <2>4. ASSUME NEW t \in Seq(Digits), NEW d \in Digits
          PROVE  Append(t, d) \in Seq(Digits) /\ Append(t, d) # <<>>
      BY AppendProperties
    <2>. QED
      BY <1>2, <2>1, <2>2, <2>3, <2>4 DEF Numerals
  <1>. QED
    BY <1>3, <1>4

\* A larger number has no shorter text.
LEMMA LongerText ==
    ASSUME NEW m \in 0 .. MaxGeneration, NEW n \in 0 .. MaxGeneration, m <= n
    PROVE  Len(Text[m]) <= Len(Text[n])
  <1>. DEFINE Odd == {k \in 0 .. MaxGeneration :
                        \E l \in 0 .. k : Len(Text[l]) > Len(Text[k])}
  <1>. SUFFICES ASSUME Odd # {} PROVE FALSE
    BY TextIsNumeral DEF Numerals
  <1>1. Odd \in SUBSET Nat
    OBVIOUS
  <1>. HIDE DEF Odd
  <1>2. PICK k \in Odd : \A l \in Odd : k <= l
    BY <1>1, Least
  <1>. USE DEF Odd
  <1>3. PICK l \in 0 .. k : Len(Text[l]) > Len(Text[k])
    BY <1>2
  <1>4. /\ k \in 0 .. MaxGeneration /\ l \in 0 .. MaxGeneration
        /\ Text[l] \in Numerals /\ Text[k] \in Numerals
    BY TextIsNumeral
  <1>5. l >= Base
    <2>. SUFFICES ASSUME l < Base PROVE FALSE
      BY <1>4
    <2>1. Text[l] = <<l>>
      BY <1>4, TextOf
    <2>. QED
      BY <1>3, <1>4, <2>1 DEF Numerals
  <1>6. k >= Base
    BY <1>4, <1>5
  <1>7. /\ l \div Base \in 0 .. MaxGeneration /\ k \div Base \in 0 .. MaxGeneration
        /\ k \div Base < k
        /\ Text[l] = Append(Text[l \div Base], l % Base)
        /\ Text[k] = Append(Text[k \div Base], k % Base)
        /\ Text[l \div Base] \in Numerals /\ Text[k \div Base] \in Numerals
    BY <1>4, <1>5, <1>6, TextOf, TextIsNumeral
  <1>8. l \div Base <= k \div Base
    <2>. DEFINE a == l \div Base
                b == k \div Base
    <2>1. PICK c \in Digits : a \in Nat /\ l = a * Base + c
      <3>1. l \in Nat
        BY <1>4
      <3>2. a \in Nat /\ l % Base \in Digits /\ l = a * Base + (l % Base)
        BY <3>1, Division
      <3>. QED
        BY <3>2, Zenon
    <2>2. PICK d \in Digits : b \in Nat /\ k = b * Base + d
      <3>1. k \in Nat
        BY <1>4
      <3>2. b \in Nat /\ k % Base \in Digits /\ k = b * Base + (k % Base)
        BY <3>1, Division
      <3>. QED
        BY <3>2, Zenon
    <2>. HIDE DEF Odd, a, b
    <2>3. l <= k
      OBVIOUS
    <2>4. a * Base + c <= b * Base + d
      BY <2>1, <2>2, <2>3, Zenon
    <2>5. a <= b
      BY <2>1, <2>2, <2>4, Quotients, Zenon
    <2>. QED
      BY <2>5 DEF a, b
  <1>9. Len(Text[l \div Base]) <= Len(Text[k \div Base])
    <2>1. k \div Base \notin Odd
      <3>. HIDE DEF Odd
      <3>1. k \div Base \in Nat /\ k \in Nat /\ ~(k <= k \div Base)
        BY <1>4, <1>7
      <3>. QED
        BY <1>2, <3>1
    <2>2. l \div Base \in 0 .. k \div Base
      BY <1>7, <1>8
    <2>3. ~(Len(Text[l \div Base]) > Len(Text[k \div Base]))
      BY <1>7, <2>1, <2>2
    <2>. HIDE DEF Odd
    <2>4. Len(Text[l \div Base]) \in Nat /\ Len(Text[k \div Base]) \in Nat
      BY <1>7, LenProperties DEF Numerals
    <2>. QED
      BY <2>3, <2>4
  <1>. QED
    BY <1>3, <1>7, <1>9 DEF Numerals
-----------------------------------------------------------------------------
(* The value of a numeral. *)

Weigh(value, s, k) == IF k = 0 THEN 0 ELSE value[k - 1] * Base + s[k]

LEMMA ValuesExist ==
    ASSUME NEW s \in Seq(Digits)
    PROVE  \E value \in [0 .. Len(s) -> Nat] : value = [k \in 0 .. Len(s) |-> Weigh(value, s, k)]
  <1>. DEFINE S == {n \in Nat : n <= Len(s) =>
                       \E v \in [0 .. n -> Nat] : v = [k \in 0 .. n |-> Weigh(v, s, k)]}
  <1>1. 0 \in S
    <2>. DEFINE v == [k \in 0 .. 0 |-> 0]
    <2>1. v \in [0 .. 0 -> Nat] /\ v = [k \in 0 .. 0 |-> Weigh(v, s, k)]
      BY DEF Weigh
    <2>. QED
      BY <2>1
  <1>2. ASSUME NEW n \in Nat, n \in S PROVE n + 1 \in S
    <2>. SUFFICES ASSUME n + 1 <= Len(s)
                  PROVE  \E v \in [0 .. n + 1 -> Nat] : v = [k \in 0 .. n + 1 |-> Weigh(v, s, k)]
      OBVIOUS
    <2>1. PICK v \in [0 .. n -> Nat] : v = [k \in 0 .. n |-> Weigh(v, s, k)]
      BY <1>2
    <2>. DEFINE next == v[n] * Base + s[n + 1]
                w == [k \in 0 .. n + 1 |-> IF k = n + 1 THEN next ELSE v[k]]
    <2>2. next \in Nat
      <3>1. s[n + 1] \in Digits /\ v[n] \in Nat
        BY <2>1
      <3>. QED
        BY <3>1, Multiplication
    <2>3. w \in [0 .. n + 1 -> Nat]
      BY <2>1, <2>2
    <2>4. ASSUME NEW k \in 0 .. n + 1 PROVE w[k] = Weigh(w, s, k)
      <3>1. CASE k = n + 1
        BY <3>1 DEF Weigh
      <3>2. CASE k \in 0 .. n
        <4>1. w[k] = Weigh(v, s, k)
          BY <2>1, <3>2
        <4>2. k # 0 => w[k - 1] = v[k - 1]
          BY <3>2
        <4>. QED
          BY <4>1, <4>2 DEF Weigh
      <3>. QED
        BY <3>1, <3>2
    <2>. HIDE DEF w
    <2>5. w = [k \in 0 .. n + 1 |-> Weigh(w, s, k)]
      <3>. DEFINE x == [k \in 0 .. n + 1 |-> Weigh(w, s, k)]
      <3>1. \A k \in 0 .. n + 1 : w[k] = x[k]
        BY <2>4
      <3>. QED
        BY <2>3, <3>1
    <2>. QED
      BY <2>3, <2>5
  <1>. HIDE DEF S
  <1>3. Len(s) \in S
    BY <1>1, <1>2, Induction
  <1>. QED
    BY <1>3 DEF S

LEMMA ValueIs ==
    ASSUME NEW s \in Seq(Digits)
    PROVE  \E value \in [0 .. Len(s) -> Nat] :
              /\ value[0] = 0
              /\ \A k \in 1 .. Len(s) : value[k] = value[k - 1] * Base + s[k]
              /\ Value(s) = value[Len(s)]
  <1>. DEFINE v == CHOOSE value : value = [k \in 0 .. Len(s) |-> Weigh(value, s, k)]
  <1>1. Value(s) = v[Len(s)]
    BY DEF Value, Weigh
  <1>2. PICK value \in [0 .. Len(s) -> Nat] : value = [k \in 0 .. Len(s) |-> Weigh(value, s, k)]
    BY ValuesExist
  <1>3. v = [k \in 0 .. Len(s) |-> Weigh(v, s, k)]
    BY <1>2
  <1>. HIDE DEF v
  <1>4. \A k \in 0 .. Len(s) : v[k] = Weigh(v, s, k)
    BY <1>3
  <1>5. v[0] = 0
    BY <1>4 DEF Weigh
  <1>6. \A k \in 1 .. Len(s) : v[k] = v[k - 1] * Base + s[k]
    BY <1>4 DEF Weigh
  <1>7. v \in [0 .. Len(s) -> Nat]
    <2>. DEFINE S == {n \in Nat : n <= Len(s) => v[n] \in Nat}
    <2>1. 0 \in S
      BY <1>5
    <2>2. ASSUME NEW n \in Nat, n \in S PROVE n + 1 \in S
      <3>. SUFFICES ASSUME n + 1 <= Len(s) PROVE v[n + 1] \in Nat
        OBVIOUS
      <3>1. v[n] \in Nat /\ s[n + 1] \in Digits
        BY <2>2
      <3>2. v[n + 1] = v[n] * Base + s[n + 1]
        BY <1>6
      <3>3. v[n] * Base + s[n + 1] \in Nat
        <4>1. \A a \in Nat, d \in Digits : a * Base + d \in Nat
          BY Multiplication
        <4>. QED
          BY <3>1, <4>1, Zenon
      <3>. QED
        BY <3>2, <3>3
    <2>. HIDE DEF S
    <2>3. Nat \subseteq S
      BY <2>1, <2>2, Induction
    <2>4. \A k \in 0 .. Len(s) : v[k] \in Nat
      BY <2>3 DEF S
    <2>. QED
      BY <1>3, <2>4
  <1>. QED
    BY <1>1, <1>5, <1>6, <1>7

LEMMA ValueOfAppend ==
    ASSUME NEW s \in Seq(Digits), NEW d \in Digits
    PROVE  Value(Append(s, d)) = Value(s) * Base + d
  <1>. DEFINE t == Append(s, d)
  <1>1. /\ t \in Seq(Digits) /\ Len(t) = Len(s) + 1 /\ t[Len(s) + 1] = d
        /\ \A k \in 1 .. Len(s) : t[k] = s[k]
    BY AppendProperties
  <1>. HIDE DEF t
  <1>2. PICK v \in [0 .. Len(s) -> Nat] :
              /\ v[0] = 0
              /\ \A k \in 1 .. Len(s) : v[k] = v[k - 1] * Base + s[k]
              /\ Value(s) = v[Len(s)]
    BY ValueIs
  <1>3. PICK w \in [0 .. Len(t) -> Nat] :
              /\ w[0] = 0
              /\ \A k \in 1 .. Len(t) : w[k] = w[k - 1] * Base + t[k]
              /\ Value(t) = w[Len(t)]
    BY <1>1, ValueIs
  <1>. DEFINE S == {n \in Nat : n <= Len(s) => v[n] = w[n]}
  <1>4. 0 \in S
    BY <1>2, <1>3
  <1>5. ASSUME NEW n \in Nat, n \in S PROVE n + 1 \in S
    <2>. SUFFICES ASSUME n + 1 <= Len(s) PROVE v[n + 1] = w[n + 1]
      OBVIOUS
    <2>1. v[n] = w[n] /\ s[n + 1] = t[n + 1]
      BY <1>1, <1>5
    <2>2. v[n + 1] = v[n] * Base + s[n + 1]
      BY <1>2
    <2>3. w[n + 1] = w[n] * Base + t[n + 1]
      BY <1>1, <1>3
    <2>. QED
      BY <2>1, <2>2, <2>3
  <1>. HIDE DEF S
  <1>6. Nat \subseteq S
    BY <1>4, <1>5, Induction
  <1>7. v[Len(s)] = w[Len(s)]
    BY <1>6 DEF S
  <1>8. w[Len(s) + 1] = w[Len(s)] * Base + d
    BY <1>1, <1>3
  <1>9. Value(t) = Value(s) * Base + d
    BY <1>1, <1>2, <1>3, <1>7, <1>8
  <1>. QED
    BY <1>9 DEF t

LEMMA ValueType ==
    /\ \A s \in Seq(Digits) : Value(s) \in Nat
    /\ Value(<<>>) = 0
  <1>1. ASSUME NEW s \in Seq(Digits) PROVE Value(s) \in Nat
    BY ValueIs
  <1>2. Value(<<>>) = 0
    <2>1. <<>> \in Seq(Digits) /\ Len(<<>>) = 0
      OBVIOUS
    <2>. QED
      BY <2>1, ValueIs
  <1>. QED
    BY <1>1, <1>2

LEMMA ValueOfDigit == \A d \in Digits : Value(<<d>>) = d
  <1>. SUFFICES ASSUME NEW d \in Digits PROVE Value(<<d>>) = d
    OBVIOUS
  <1>1. <<>> \in Seq(Digits) /\ <<d>> = Append(<<>>, d)
    OBVIOUS
  <1>2. Value(<<d>>) = 0 * Base + d
    BY <1>1, ValueOfAppend, ValueType
  <1>. QED
    BY <1>2 DEF Digits

\* int(str(n)) = n
LEMMA ValueOfText == \A n \in 0 .. MaxGeneration : Value(Text[n]) = n
  <1>. DEFINE Odd == {n \in 0 .. MaxGeneration : Value(Text[n]) # n}
  <1>. SUFFICES ASSUME Odd # {} PROVE FALSE
    OBVIOUS
  <1>1. Odd \in SUBSET Nat
    OBVIOUS
  <1>. HIDE DEF Odd
  <1>2. PICK n \in Odd : \A m \in Odd : n <= m
    BY <1>1, Least
  <1>3. n \in 0 .. MaxGeneration /\ n \in Nat /\ Value(Text[n]) # n
    BY <1>2 DEF Odd
  <1>4. CASE n < Base
    <2>1. Text[n] = <<n>> /\ n \in Digits
      BY <1>3, <1>4, TextOf DEF Digits
    <2>. QED
      BY <1>3, <2>1, ValueOfDigit
  <1>5. CASE n >= Base
    <2>1. /\ n \div Base \in 0 .. MaxGeneration /\ n \div Base < n
          /\ Text[n] = Append(Text[n \div Base], n % Base)
      BY <1>3, <1>5, TextOf
    <2>2. n \div Base \notin Odd
      <3>1. ~(n <= n \div Base)
        BY <1>3, <2>1
      <3>. QED
        BY <1>2, <3>1
    <2>3. Value(Text[n \div Base]) = n \div Base
      BY <2>1, <2>2 DEF Odd
    <2>4. Text[n \div Base] \in Seq(Digits) /\ n % Base \in Digits
      BY <1>3, <2>1, TextIsNumeral, Division DEF Numerals
    <2>5. Value(Text[n]) = (n \div Base) * Base + (n % Base)
      BY <2>1, <2>3, <2>4, ValueOfAppend
    <2>. QED
      BY <1>3, <2>5, Division
  <1>. QED
    BY <1>3, <1>4, <1>5

Zeros(k) == [i \in 1 .. k |-> 0]

LEMMA ZerosAre ==
    ASSUME NEW k \in Nat
    PROVE  /\ Zeros(k) \in Seq(Digits) /\ Len(Zeros(k)) = k
           /\ Append(Zeros(k), 0) = Zeros(k + 1)
  <1>1. Zeros(k) \in Seq(Digits) /\ Len(Zeros(k)) = k
    BY DEF Zeros, Digits
  <1>2. Append(Zeros(k), 0) = Zeros(k + 1)
    <2>1. Zeros(k + 1) \in Seq(Digits) /\ Len(Zeros(k + 1)) = k + 1
      BY DEF Zeros, Digits
    <2>2. /\ Append(Zeros(k), 0) \in Seq(Digits) /\ Len(Append(Zeros(k), 0)) = k + 1
          /\ \A i \in 1 .. k : Append(Zeros(k), 0)[i] = Zeros(k)[i]
          /\ Append(Zeros(k), 0)[k + 1] = 0
      BY <1>1, AppendProperties DEF Digits
    <2>3. \A i \in 1 .. k + 1 : Append(Zeros(k), 0)[i] = Zeros(k + 1)[i]
      BY <2>2 DEF Zeros
    <2>. QED
      BY <2>1, <2>2, <2>3, SeqEqual
  <1>. QED
    BY <1>1, <1>2

\* A digit behind a number goes behind its text, unless that is 0.
LEMMA TextOfMore ==
    ASSUME NEW v \in Nat, NEW d \in Digits, v * Base + d <= MaxGeneration
    PROVE  /\ v \in 0 .. MaxGeneration /\ d \in 0 .. MaxGeneration
           /\ Text[d] = <<d>>
           /\ v # 0 => Text[v * Base + d] = Append(Text[v], d)
  <1>. DEFINE n == v * Base + d
  <1>1. n \in Nat /\ n \div Base = v /\ n % Base = d /\ v <= n /\ (v # 0 => n >= Base)
    BY Multiplication
  <1>2. n \in 0 .. MaxGeneration
    BY <1>1
  <1>. HIDE DEF n
  <1>3. v \in 0 .. MaxGeneration /\ d \in 0 .. MaxGeneration /\ d < Base
    BY <1>1, <1>2 DEF Digits
  <1>4. Text[d] = <<d>>
    BY <1>3, TextOf
  <1>5. v # 0 => Text[n] = Append(Text[v], d)
    BY <1>1, <1>2, TextOf
  <1>. QED
    BY <1>3, <1>4, <1>5 DEF n

LEMMA LastOf ==
    ASSUME NEW t \in Numerals
    PROVE  \E u \in Seq(Digits), d \in Digits : t = Append(u, d) /\ Len(t) = Len(u) + 1
  <1>. DEFINE n == Len(t) - 1
              u == SubSeq(t, 1, n)
              d == t[n + 1]
  <1>1. t \in Seq(Digits) /\ n \in Nat /\ Len(t) = n + 1
    BY EmptySeq DEF Numerals
  <1>. HIDE DEF n
  <1>2. d \in Digits
    BY <1>1
  <1>3. u \in Seq(Digits) /\ Len(u) = n /\ \A i \in 1 .. n : u[i] = t[i]
    BY <1>1, SubSeqProperties
  <1>. HIDE DEF u
  <1>4. /\ Append(u, d) \in Seq(Digits) /\ Len(Append(u, d)) = n + 1
        /\ \A i \in 1 .. n : Append(u, d)[i] = u[i]
        /\ Append(u, d)[n + 1] = d
    BY <1>2, <1>3, AppendProperties
  <1>5. \A i \in 1 .. n + 1 : Append(u, d)[i] = t[i]
    BY <1>3, <1>4
  <1>6. t = Append(u, d)
    BY <1>1, <1>4, <1>5, SeqEqual
  <1>. QED
    BY <1>1, <1>2, <1>3, <1>6

LEMMA AppendBehind ==
    ASSUME NEW s \in Seq(Digits), NEW t \in Seq(Digits), NEW d \in Digits
    PROVE  Append(s \o t, d) = s \o Append(t, d)
  <1>1. <<d>> \in Seq(Digits) /\ s \o t \in Seq(Digits)
    BY ConcatProperties
  <1>2. (s \o t) \o <<d>> = s \o (t \o <<d>>)
    BY <1>1, ConcatAssociative
  <1>. QED
    BY <1>1, <1>2, AppendIsConcat

\* Whether s is the text of its value behind zeros.
Padded(s) == \E k \in Nat : k < Len(s) /\ s = Zeros(k) \o Text[Value(s)]

LEMMA OneMoreDigit ==
    ASSUME NEW u \in Seq(Digits), NEW d \in Digits, Value(Append(u, d)) <= MaxGeneration,
           u # <<>> /\ Value(u) <= MaxGeneration => Padded(u)
    PROVE  Padded(Append(u, d))
  <1>. DEFINE v == Value(u)
              t == Append(u, d)
  <1>1. v \in Nat /\ Value(t) = v * Base + d
    BY ValueOfAppend, ValueType
  <1>2. v * Base + d <= MaxGeneration
    BY <1>1
  <1>3. /\ v \in 0 .. MaxGeneration /\ d \in 0 .. MaxGeneration
        /\ Text[d] = <<d>>
        /\ v # 0 => Text[v * Base + d] = Append(Text[v], d)
    BY <1>1, <1>2, TextOfMore
  <1>4. t \in Seq(Digits) /\ Len(t) = Len(u) + 1 /\ Len(u) \in Nat
    BY AppendProperties
  <1>5. v = 0 => Value(t) = d
    BY <1>1 DEF Digits
  <1>6. CASE u = <<>>
    <2>1. Text[Value(t)] = <<d>> /\ t = <<d>>
      BY <1>3, <1>5, <1>6, ValueType
    <2>2. Zeros(0) = <<>>
      BY ZerosAre, EmptySeq
    <2>3. t = Zeros(0) \o Text[Value(t)]
      BY <1>4, <2>1, <2>2, ConcatEmptySeq
    <2>4. 0 \in Nat /\ 0 < Len(t)
      BY <1>4
    <2>. QED
      BY <2>3, <2>4, Zenon DEF Padded
  <1>7. CASE u # <<>>
    <2>1. PICK k \in Nat : k < Len(u) /\ u = Zeros(k) \o Text[v]
      BY <1>3, <1>7 DEF Padded
    <2>2. Zeros(k) \in Seq(Digits) /\ Text[v] \in Seq(Digits)
      BY <1>3, ZerosAre, TextIsNumeral DEF Numerals
    <2>3. CASE v = 0
      <3>1. 0 \in Digits /\ Text[v] = <<0>>
        <4>1. 0 \in 0 .. MaxGeneration /\ 0 < Base /\ 0 \in Digits
          BY DEF Digits
        <4>. QED
          BY <2>3, <4>1, TextOf
      <3>2. u = Zeros(k + 1)
        BY <2>1, <2>2, <3>1, AppendIsConcat, ZerosAre
      <3>3. t = Zeros(k + 1) \o Text[Value(t)]
        <4>1. t = u \o <<d>>
          BY AppendIsConcat
        <4>. QED
          BY <1>3, <1>5, <2>3, <3>2, <4>1, Zenon
      <3>4. k + 1 \in Nat /\ k + 1 < Len(t)
        BY <1>4, <2>1
      <3>. QED
        BY <3>3, <3>4 DEF Padded
    <2>4. CASE v # 0
      <3>1. t = Zeros(k) \o Append(Text[v], d)
        <4>1. Append(Zeros(k) \o Text[v], d) = Zeros(k) \o Append(Text[v], d)
          BY <2>2, AppendBehind, Zenon
        <4>. QED
          BY <2>1, <4>1, Zenon
      <3>2. t = Zeros(k) \o Text[Value(t)]
        BY <1>1, <1>3, <2>4, <3>1
      <3>3. k < Len(t)
        BY <1>4, <2>1
      <3>. QED
        BY <3>2, <3>3 DEF Padded
    <2>. QED
      BY <2>3, <2>4
  <1>. QED
    BY <1>6, <1>7

LEMMA TextOfValue ==
    ASSUME NEW s \in Numerals, Value(s) <= MaxGeneration
    PROVE  Padded(s)
  <1>. DEFINE S == {n \in Nat : \A t \in Numerals :
                      Len(t) = n /\ Value(t) <= MaxGeneration => Padded(t)}
  <1>1. 0 \in S
    <2>1. \A t \in Numerals : Len(t) # 0
      BY EmptySeq DEF Numerals
    <2>. QED
      BY <2>1
  <1>2. ASSUME NEW n \in Nat, n \in S PROVE n + 1 \in S
    <2>. SUFFICES ASSUME NEW t \in Numerals, Len(t) = n + 1, Value(t) <= MaxGeneration
                  PROVE  Padded(t)
      OBVIOUS
    <2>1. PICK u \in Seq(Digits), d \in Digits : t = Append(u, d) /\ Len(t) = Len(u) + 1
      BY LastOf
    <2>2. Len(u) = n
      BY <2>1
    <2>3. u # <<>> /\ Value(u) <= MaxGeneration => Padded(u)
      BY <1>2, <2>2 DEF Numerals
    <2>. HIDE DEF S
    <2>. QED
      BY <2>1, <2>3, OneMoreDigit
  <1>. HIDE DEF S
  <1>3. Nat \subseteq S
    BY <1>1, <1>2, Induction
  <1>4. Len(s) \in S
    BY <1>3 DEF Numerals
  <1>. QED
    BY <1>4 DEF S
-----------------------------------------------------------------------------
(* What _generation makes of the pointer. *)

Symbols == Digits \cup {Minus, Undecodable}

LEMMA TextsAre == Texts = {s \in Seq(Symbols) : Len(s) <= MaxDigits + 2}
  <1>1. MaxDigits \in Nat
    BY TextIsNumeral DEF MaxDigits, Numerals
  <1>2. ASSUME NEW s \in Texts PROVE s \in Seq(Symbols) /\ Len(s) <= MaxDigits + 2
    <2>1. PICK m \in 0 .. MaxDigits + 2 : s \in [1 .. m -> Symbols]
      BY DEF Texts, SeqOf, Symbols
    <2>2. m \in Nat /\ m <= MaxDigits + 2
      BY <1>1
    <2>3. s \in Seq(Symbols) /\ Len(s) = m
      BY <2>1, <2>2
    <2>. QED
      BY <2>2, <2>3
  <1>3. ASSUME NEW s \in Seq(Symbols), Len(s) <= MaxDigits + 2 PROVE s \in Texts
    <2>1. s \in [1 .. Len(s) -> Symbols] /\ Len(s) \in 0 .. MaxDigits + 2
      BY <1>1, <1>3
    <2>. QED
      BY <2>1 DEF Texts, SeqOf, Symbols
  <1>. QED
    BY <1>2, <1>3

LEMMA CanonicalIsShort ==
    ASSUME NEW n \in 0 .. MaxGeneration
    PROVE  /\ MaxDigits \in Nat \ {0}
           /\ Text[n] \in Numerals /\ Len(Text[n]) <= MaxDigits
           /\ Text[n] \in Texts
  <1>1. MaxDigits \in Nat \ {0}
    BY TextIsNumeral, EmptySeq DEF MaxDigits, Numerals
  <1>2. Text[n] \in Numerals
    BY TextIsNumeral
  <1>3. Len(Text[n]) <= MaxDigits
    BY LongerText DEF MaxDigits
  <1>4. Text[n] \in Texts
    <2>1. Text[n] \in Seq(Symbols)
      BY <1>2, SeqMonotonic DEF Numerals, Symbols
    <2>2. Len(Text[n]) <= MaxDigits + 2
      BY <1>1, <1>2, <1>3 DEF Numerals
    <2>. QED
      BY <2>1, <2>2, TextsAre
  <1>. QED
    BY <1>1, <1>2, <1>3, <1>4

LEMMA NegativesAreTexts ==
    ASSUME NEW n \in 0 .. MaxGeneration
    PROVE  <<Minus>> \o Text[n] \in Texts
  <1>1. MaxDigits \in Nat /\ Text[n] \in Seq(Symbols) /\ Len(Text[n]) <= MaxDigits
    BY CanonicalIsShort, SeqMonotonic DEF Numerals, Symbols
  <1>2. <<Minus>> \in Seq(Symbols) /\ Len(<<Minus>>) = 1
    BY DEF Symbols
  <1>3. <<Minus>> \o Text[n] \in Seq(Symbols) /\ Len(<<Minus>> \o Text[n]) = 1 + Len(Text[n])
    BY <1>1, <1>2, ConcatProperties
  <1>4. Len(<<Minus>> \o Text[n]) <= MaxDigits + 2
    BY <1>1, <1>3
  <1>. QED
    BY <1>3, <1>4, TextsAre

\* What is read of a text no longer than a generation is all of it; and of a
\* longer one, more than a generation has.
LEMMA Uncut ==
    ASSUME NEW S, NEW s \in Seq(S)
    PROVE  /\ Len(s) <= MaxDigits + 1 => GetRange(s) = s
           /\ Len(s) > MaxDigits + 1 => Len(GetRange(s)) = MaxDigits + 1
  <1>1. MaxDigits \in Nat /\ Len(s) \in Nat
    BY CanonicalIsShort
  <1>2. CASE Len(s) <= MaxDigits + 1
    <2>1. GetRange(s) = SubSeq(s, 1, Len(s))
      BY <1>1, <1>2 DEF GetRange
    <2>. QED
      BY <1>1, <1>2, <2>1, SubSeqFull
  <1>3. CASE Len(s) > MaxDigits + 1
    <2>1. GetRange(s) = SubSeq(s, 1, MaxDigits + 1)
      BY <1>1, <1>3 DEF GetRange
    <2>. QED
      BY <1>1, <1>3, <2>1, SubSeqProperties
  <1>. QED
    BY <1>1, <1>2, <1>3

\* A pointer that parses is a numeral, taken as a whole.
LEMMA ParsedWhole ==
    ASSUME NEW s \in Texts, ParseGeneration(GetRange(s)) # None
    PROVE  /\ s \in Numerals /\ Len(s) <= MaxDigits /\ Value(s) \in 0 .. MaxGeneration
           /\ ParseGeneration(GetRange(s)) = Text[Value(s)]
  <1>1. s \in Seq(Symbols) /\ Len(s) \in Nat /\ MaxDigits \in Nat
    BY TextsAre, CanonicalIsShort
  <1>2. /\ IsNumeral(GetRange(s)) /\ Len(GetRange(s)) <= MaxDigits
        /\ Value(GetRange(s)) <= MaxGeneration
        /\ ParseGeneration(GetRange(s)) = Text[Value(GetRange(s))]
    BY DEF ParseGeneration
  <1>3. GetRange(s) = s
    BY <1>1, <1>2, Uncut
  <1>4. s \in Numerals
    <2>1. s # <<>> /\ \A k \in 1 .. Len(s) : s[k] \in Digits
      BY <1>2, <1>3 DEF IsNumeral
    <2>2. s \in [1 .. Len(s) -> Digits]
      BY <1>1, <2>1
    <2>. QED
      BY <1>1, <2>1, <2>2 DEF Numerals
  <1>5. Value(s) \in Nat
    BY <1>4, ValueType DEF Numerals
  <1>. QED
    BY <1>2, <1>3, <1>4, <1>5

\* A generation parses to itself.
LEMMA CanonicalParses ==
    ASSUME NEW n \in 0 .. MaxGeneration
    PROVE  ParseGeneration(GetRange(Text[n])) = Text[n]
  <1>1. /\ Text[n] \in Seq(Digits) /\ Text[n] # <<>> /\ Len(Text[n]) <= MaxDigits
        /\ MaxDigits \in Nat /\ Value(Text[n]) = n
    BY CanonicalIsShort, ValueOfText DEF Numerals
  <1>2. GetRange(Text[n]) = Text[n]
    BY <1>1, Uncut
  <1>3. IsNumeral(Text[n])
    BY <1>1 DEF IsNumeral
  <1>. QED
    BY <1>1, <1>2, <1>3 DEF ParseGeneration

LEMMA ParsedType == \A s \in Texts : ParseGeneration(GetRange(s)) \in Canonical \cup {None}
  BY ParsedWhole DEF Canonical
-----------------------------------------------------------------------------
(* Lookups and runs. *)

LEMMA SuccessorsAre ==
    ASSUME NEW s \in Texts, NEW t \in Successors(s)
    PROVE  /\ t \in Texts
           /\ \/ \E n \in 0 .. MaxGeneration - 1 : s \in {Text[n], <<>>} /\ t = Text[n + 1]
              \/ \E n \in 1 .. MaxGeneration : s = <<Minus>> \o Text[n]
  <1>1. CASE \E n \in 0 .. MaxGeneration - 1 : s \in {Text[n], <<>>} /\ t = Text[n + 1]
    <2>1. PICK n \in 0 .. MaxGeneration - 1 : s \in {Text[n], <<>>} /\ t = Text[n + 1]
      BY <1>1
    <2>2. n + 1 \in 0 .. MaxGeneration
      OBVIOUS
    <2>. QED
      BY <1>1, <2>1, <2>2, CanonicalIsShort
  <1>2. CASE \E n \in 1 .. MaxGeneration :
                /\ s = <<Minus>> \o Text[n]
                /\ t = IF n = 1 THEN Text[0] ELSE <<Minus>> \o Text[n - 1]
    <2>1. PICK n \in 1 .. MaxGeneration :
                /\ s = <<Minus>> \o Text[n]
                /\ t = IF n = 1 THEN Text[0] ELSE <<Minus>> \o Text[n - 1]
      BY <1>2
    <2>2. n - 1 \in 0 .. MaxGeneration /\ 0 \in 0 .. MaxGeneration
      OBVIOUS
    <2>. QED
      BY <2>1, <2>2, CanonicalIsShort, NegativesAreTexts
  <1>. QED
    BY <1>1, <1>2 DEF Successors

Tasks == Readers \cup Runs

\* What a call of _generation leaves when it returns.
LEMMA Returned ==
    ASSUME TypeOK, NEW p \in Tasks, NEW g \in Canonical \cup {None}, Return(p, g)
    PROVE  /\ pc' \in [Tasks -> InGeneration \cup {"idle", "answered", "incr", "ok", "failed"}]
           /\ result' \in [Tasks -> Canonical \cup {None}]
           /\ pc'[p] \in {"answered", "failed", "incr"} /\ result'[p] = g
           /\ \A q \in Tasks \ {p} : pc'[q] = pc[q] /\ result'[q] = result[q]
  BY DEF TypeOK, Return, Move, Tasks

LEMMA Moved ==
    ASSUME TypeOK, NEW p \in Tasks, NEW label, Move(p, label),
           label \in InGeneration \cup {"idle", "answered", "incr", "ok", "failed"}
    PROVE  /\ pc' \in [Tasks -> InGeneration \cup {"idle", "answered", "incr", "ok", "failed"}]
           /\ pc'[p] = label
           /\ \A q \in Tasks \ {p} : pc'[q] = pc[q]
  BY DEF TypeOK, Move, Tasks

\* What a task does when it takes a step, and what it leaves.
ReturnsPointer(p) ==
    /\ pc[p] \in {"getptr", "reread"} /\ UNCHANGED pointer
    /\ Return(p, ParseGeneration(GetRange(pointer)))

CreatesPointer(p) ==
    /\ pc[p] = "setnx"
    /\ \E n \in 0 .. MaxGeneration : pointer' = Text[n] /\ Return(p, Text[n])

MovesOn(p) ==
    /\ pc[p] \in InGeneration \cup {"idle"} /\ UNCHANGED <<pointer, result>>
    /\ \E label \in InGeneration : Move(p, label)

GivesUp(p) ==
    /\ \E label \in {"answered", "failed", "getptr", "idle"} : Move(p, label)
    /\ UNCHANGED pointer
    /\ result' \in {result, [result EXCEPT ![p] = None]}
    /\ result'[p] # None => pc[p] \notin InGeneration

Counts(p) ==
    /\ pc[p] = "incr" /\ Move(p, "ok") /\ UNCHANGED result
    /\ pointer' \in Successors(pointer)

LEMMA Steps ==
    ASSUME TypeOK, Next
    PROVE  /\ faults' \in 0 .. MaxFaults
           /\ \/ pointer' \in Texts /\ UNCHANGED <<pc, result>>
              \/ \E p \in Tasks :
                    \/ ReturnsPointer(p) \/ CreatesPointer(p) \/ MovesOn(p)
                    \/ GivesUp(p) \/ Counts(p)
  <1>. USE DEF Tasks
  <1>1. CASE ForeignWrite
    BY <1>1 DEF ForeignWrite, TypeOK
  <1>2. ASSUME NEW p \in Tasks, StartCall(p) PROVE MovesOn(p) /\ UNCHANGED faults
    BY <1>2 DEF StartCall, MovesOn, InGeneration
  <1>3. ASSUME NEW p \in Tasks, CallStep(p)
        PROVE  (ReturnsPointer(p) \/ CreatesPointer(p) \/ MovesOn(p)) /\ UNCHANGED faults
    <2>1. CASE GetPointer(p)
      BY <2>1 DEF GetPointer, ReturnsPointer, MovesOn, InGeneration
    <2>2. CASE InitPointer(p)
      BY <2>2 DEF InitPointer, CreatesPointer, MovesOn, InGeneration
    <2>3. CASE RereadPointer(p)
      BY <2>3 DEF RereadPointer, ReturnsPointer
    <2>. QED
      BY <1>3, <2>1, <2>2, <2>3 DEF CallStep
  <1>4. ASSUME NEW p \in Tasks, CallFails(p) PROVE GivesUp(p) /\ faults' \in 0 .. MaxFaults
    <2>1. Move(p, "answered") \/ Move(p, "failed")
      BY <1>4 DEF CallFails
    <2>2. result' = [result EXCEPT ![p] = None] /\ UNCHANGED pointer /\ result'[p] = None
      BY <1>4 DEF CallFails, TypeOK
    <2>3. faults' \in 0 .. MaxFaults
      BY <1>4 DEF CallFails, TypeOK
    <2>. QED
      BY <2>1, <2>2, <2>3 DEF GivesUp
  <1>5. ASSUME NEW p \in Tasks, EndLookup(p) \/ IncrementRefused(p) \/ Repeat(p)
        PROVE  GivesUp(p) /\ UNCHANGED faults
    BY <1>5 DEF EndLookup, IncrementRefused, Repeat, GivesUp, InGeneration, TypeOK
  <1>6. ASSUME NEW p \in Tasks, Increment(p) PROVE Counts(p) /\ UNCHANGED faults
    BY <1>6 DEF Increment, Counts
  <1>. QED
    BY <1>1, <1>2, <1>3, <1>4, <1>5, <1>6 DEF Next, TypeOK

LEMMA TypePreserved ==
    ASSUME TypeOK, [Next]_vars
    PROVE  TypeOK'
  <1>. USE DEF Tasks
  <1>1. CASE UNCHANGED vars
    BY <1>1 DEF vars, TypeOK
  <1>2. CASE Next
    <2>1. faults' \in 0 .. MaxFaults
      BY <1>2, Steps
    <2>2. CASE pointer' \in Texts /\ UNCHANGED <<pc, result>>
      BY <2>1, <2>2 DEF TypeOK
    <2>3. ASSUME NEW p \in Tasks,
                 ReturnsPointer(p) \/ CreatesPointer(p) \/ MovesOn(p) \/ GivesUp(p) \/ Counts(p)
          PROVE  TypeOK'
      <3>1. CASE ReturnsPointer(p)
        BY <2>1, <3>1, Returned, ParsedType DEF ReturnsPointer, TypeOK
      <3>2. CASE CreatesPointer(p)
        <4>1. PICK n \in 0 .. MaxGeneration : pointer' = Text[n] /\ Return(p, Text[n])
          BY <3>2 DEF CreatesPointer
        <4>. QED
          BY <2>1, <4>1, Returned, CanonicalIsShort DEF TypeOK, Canonical
      <3>3. CASE MovesOn(p)
        BY <2>1, <3>3, Moved DEF MovesOn, TypeOK
      <3>4. CASE GivesUp(p)
        <4>1. pc' \in [Tasks -> InGeneration \cup {"idle", "answered", "incr", "ok", "failed"}]
          BY <3>4, Moved DEF GivesUp, InGeneration
        <4>2. result' \in [Tasks -> Canonical \cup {None}]
          BY <3>4 DEF GivesUp, TypeOK
        <4>. QED
          BY <2>1, <3>4, <4>1, <4>2 DEF GivesUp, TypeOK
      <3>5. CASE Counts(p)
        BY <2>1, <3>5, Moved, SuccessorsAre DEF Counts, TypeOK
      <3>. QED
        BY <2>3, <3>1, <3>2, <3>3, <3>4, <3>5
    <2>. QED
      BY <1>2, <2>2, <2>3, Steps
  <1>. QED
    BY <1>1, <1>2

LEMMA TypeBegins == Init => TypeOK
  <1>1. <<>> \in Texts
    BY TextsAre, CanonicalIsShort
  <1>. QED
    BY <1>1 DEF Init, TypeOK

\* TypeOK: for any base and any number of lookups and runs, INCR never makes the
\* pointer longer than a sign and a generation, and what calls return is canonical.
THEOREM TypeCorrect == Spec => []TypeOK
  BY TypeBegins, TypePreserved, PTL DEF Spec

LEMMA ZerosAreSequence ==
    ASSUME NEW k \in Nat, k <= MaxDigits
    PROVE  Zeros(k) \in SeqOf({0}, MaxDigits)
  <1>1. k \in 0 .. MaxDigits
    BY CanonicalIsShort
  <1>2. Zeros(k) \in [1 .. k -> {0}]
    BY DEF Zeros
  <1>. QED
    BY <1>1, <1>2 DEF SeqOf

LEMMA WholeStep ==
    ASSUME TypeOK, Next, NEW p \in Tasks,
           pc[p] \in InGeneration, pc'[p] \in {"answered", "incr"}, result'[p] # None
    PROVE  \E zeros \in SeqOf({0}, MaxDigits) : pointer' = zeros \o result'[p]
  <1>1. PICK q \in Tasks :
            ReturnsPointer(q) \/ CreatesPointer(q) \/ MovesOn(q) \/ GivesUp(q) \/ Counts(q)
    BY Steps DEF InGeneration
  <1>2. CASE ReturnsPointer(q)
    <2>1. q = p /\ result'[p] = ParseGeneration(GetRange(pointer)) /\ pointer' = pointer
      BY <1>2, Returned, ParsedType DEF ReturnsPointer, TypeOK, InGeneration
    <2>2. /\ pointer \in Numerals /\ Len(pointer) <= MaxDigits
          /\ Value(pointer) <= MaxGeneration /\ result'[p] = Text[Value(pointer)]
      BY <2>1, ParsedWhole DEF TypeOK
    <2>3. PICK k \in Nat : k < Len(pointer) /\ pointer = Zeros(k) \o Text[Value(pointer)]
      BY <2>2, TextOfValue DEF Padded
    <2>4. k <= MaxDigits
      BY <2>2, <2>3, CanonicalIsShort DEF Numerals
    <2>. QED
      BY <2>1, <2>2, <2>3, <2>4, ZerosAreSequence, Zenon
  <1>3. CASE CreatesPointer(q)
    <2>1. PICK n \in 0 .. MaxGeneration : pointer' = Text[n] /\ Return(q, Text[n])
      BY <1>3 DEF CreatesPointer
    <2>2. q = p /\ result'[p] = Text[n]
      BY <2>1, Returned DEF Canonical, InGeneration
    <2>3. Zeros(0) = <<>> /\ Zeros(0) \in SeqOf({0}, MaxDigits)
      BY ZerosAre, ZerosAreSequence, CanonicalIsShort, EmptySeq
    <2>4. Zeros(0) \o Text[n] = Text[n]
      BY <2>3, CanonicalIsShort, ConcatEmptySeq DEF Numerals
    <2>. QED
      BY <2>1, <2>2, <2>3, <2>4, Zenon
  <1>4. CASE MovesOn(q)
    BY <1>4, Moved DEF MovesOn, InGeneration
  <1>5. CASE GivesUp(q)
    <2>1. q = p
      BY <1>5, Moved DEF GivesUp, InGeneration
    <2>. QED
      BY <1>5, <2>1 DEF GivesUp
  <1>6. CASE Counts(q)
    BY <1>6, Moved DEF Counts, InGeneration
  <1>. QED
    BY <1>1, <1>2, <1>3, <1>4, <1>5, <1>6

LEMMA AdvancingStep ==
    ASSUME TypeOK, Next, NEW p \in Runs, pc[p] = "incr", pc'[p] = "ok",
           ParseGeneration(GetRange(pointer)) # None
    PROVE  /\ ParseGeneration(GetRange(pointer')) # None
           /\ Value(ParseGeneration(GetRange(pointer)))
                 < Value(ParseGeneration(GetRange(pointer')))
  <1>1. PICK q \in Tasks :
            ReturnsPointer(q) \/ CreatesPointer(q) \/ MovesOn(q) \/ GivesUp(q) \/ Counts(q)
    BY Steps
  <1>2. p \in Tasks
    BY DEF Tasks
  <1>3. Counts(q)
    <2>1. CASE ReturnsPointer(q)
      BY <1>2, <2>1, Returned, ParsedType DEF ReturnsPointer, TypeOK
    <2>2. CASE CreatesPointer(q)
      <3>1. PICK n \in 0 .. MaxGeneration : pointer' = Text[n] /\ Return(q, Text[n])
        BY <2>2 DEF CreatesPointer
      <3>. QED
        BY <1>2, <3>1, Returned DEF Canonical
    <2>3. CASE MovesOn(q)
      BY <1>2, <2>3, Moved DEF MovesOn, InGeneration
    <2>4. CASE GivesUp(q)
      BY <1>2, <2>4, Moved DEF GivesUp, InGeneration
    <2>. QED
      BY <1>1, <2>1, <2>2, <2>3, <2>4
  <1>4. pointer \in Texts /\ pointer' \in Successors(pointer)
    BY <1>3 DEF Counts, TypeOK
  <1>5. pointer \in Numerals
    BY <1>4, ParsedWhole
  <1>6. ASSUME NEW n \in 1 .. MaxGeneration PROVE pointer # <<Minus>> \o Text[n]
    <2>1. Text[n] \in Seq(Symbols) /\ <<Minus>> \in Seq(Symbols) /\ Len(<<Minus>>) = 1
          /\ <<Minus>>[1] = Minus
      BY CanonicalIsShort, SeqMonotonic DEF Numerals, Symbols
    <2>2. (<<Minus>> \o Text[n])[1] = Minus
      BY <2>1, ConcatProperties, LenProperties
    <2>3. pointer[1] \in Digits
      BY <1>5, EmptySeq DEF Numerals
    <2>. QED
      BY <2>2, <2>3 DEF Digits
  <1>7. PICK n \in 0 .. MaxGeneration - 1 : pointer \in {Text[n], <<>>} /\ pointer' = Text[n + 1]
    BY <1>4, <1>6, SuccessorsAre
  <1>8. pointer = Text[n] /\ n \in 0 .. MaxGeneration /\ n + 1 \in 0 .. MaxGeneration
    BY <1>5, <1>7 DEF Numerals
  <1>9. /\ ParseGeneration(GetRange(pointer)) = Text[n] /\ Value(Text[n]) = n
        /\ ParseGeneration(GetRange(pointer')) = Text[n + 1] /\ Value(Text[n + 1]) = n + 1
    BY <1>7, <1>8, CanonicalParses, ValueOfText
  <1>10. Text[n + 1] # None
    BY <1>8, NoneAssumption DEF Canonical
  <1>. QED
    BY <1>8, <1>9, <1>10

\* WholePointer: whatever is written under the key, and whatever the base and the
\* limits are, a call that returns a generation took all of the pointer for it,
\* but for leading zeros.
THEOREM PointerReadWhole == Spec => WholePointer
  <1>1. TypeOK /\ [Next]_vars =>
            [\A p \in Readers \cup Runs :
                (pc[p] \in InGeneration /\ pc'[p] \in {"answered", "incr"} /\ result'[p] # None)
                    => \E zeros \in SeqOf({0}, MaxDigits) : pointer' = zeros \o result'[p]]_vars
    BY WholeStep DEF Tasks
  <1>. QED
    BY <1>1, TypeCorrect, PTL DEF Spec, WholePointer

\* InvalidationAdvances: an INCR that succeeds on a pointer readers can use leaves
\* one that they can use, of a later generation, up to the largest.
THEOREM InvalidationsAdvance == Spec => InvalidationAdvances
  <1>1. TypeOK /\ [Next]_vars =>
            [\A p \in Runs : (pc[p] = "incr" /\ pc'[p] = "ok") =>
                LET before == ParseGeneration(GetRange(pointer))
                    after == ParseGeneration(GetRange(pointer'))
                IN  before # None => after # None /\ Value(before) < Value(after)]_vars
    BY AdvancingStep
  <1>. QED
    BY <1>1, TypeCorrect, PTL DEF Spec, InvalidationAdvances
=============================================================================
