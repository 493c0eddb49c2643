------------------------- MODULE DoubleRatchetProofs -------------------------
(***************************************************************************)
(* Proofs about RatchetBytes and DoubleRatchet: that what is read is what  *)
(* was written, which keys come before which, that no key is used twice,   *)
(* that used keys are gone, that the session implements the channel, and   *)
(* that no message is lost between two sessions.                           *)
(***************************************************************************)
EXTENDS DoubleRatchet, DataFacts

-----------------------------------------------------------------------------
(* Bytes *)

(* The bytes w stand in input from position at on.                          *)
Stands(input, at, w) ==
    /\ at \in Nat \ {0}
    /\ at + Len(w) <= Len(input) + 1
    /\ \A i \in 1..Len(w) : input[at + i - 1] = w[i]

(* A concatenation stands where its parts do, one after the other.          *)
LEMMA StandsConcat ==
    ASSUME NEW input, IsSeq(input), NEW u, IsSeq(u), NEW v, IsSeq(v),
           NEW at, Stands(input, at, u \o v)
    PROVE  Stands(input, at, u) /\ Stands(input, at + Len(u), v)
<1> DEFINE S == Items(u) \cup Items(v)
           w == u \o v
<1>1. u \in Seq(S) /\ v \in Seq(S)
  <2>1. /\ u \in Seq(Items(u)) /\ v \in Seq(Items(v))
        /\ Items(u) \subseteq S /\ Items(v) \subseteq S
    BY DEF IsSeq
  <2> HIDE DEF S
  <2>. QED  BY <2>1
<1>2. /\ Len(u) \in Nat /\ Len(v) \in Nat /\ Len(w) = Len(u) + Len(v)
      /\ \A i \in 1..Len(w) : w[i] = IF i <= Len(u) THEN u[i] ELSE v[i - Len(u)]
  <2> HIDE DEF S
  <2>. QED  BY <1>1
<1>3. Len(input) \in Nat
  BY DEF IsSeq
<1>4. /\ at \in Nat \ {0} /\ at + Len(w) <= Len(input) + 1
      /\ \A i \in 1..Len(w) : input[at + i - 1] = w[i]
  BY DEF Stands
<1> HIDE DEF w
<1>5. ASSUME NEW i \in 1..Len(u)
      PROVE  input[at + i - 1] = u[i]
  <2>1. i \in 1..Len(w) /\ w[i] = u[i]
    BY <1>2
  <2>. QED  BY <1>4, <2>1
<1>6. ASSUME NEW i \in 1..Len(v)
      PROVE  input[(at + Len(u)) + i - 1] = v[i]
  <2> DEFINE k == Len(u) + i
  <2>1. k \in 1..Len(w) /\ ~ (k <= Len(u)) /\ k - Len(u) = i
        /\ (at + Len(u)) + i - 1 = at + k - 1
    BY <1>2, <1>4
  <2> HIDE DEF k
  <2>. QED  BY <1>2, <1>4, <2>1
<1>. QED  BY <1>2, <1>3, <1>4, <1>5, <1>6 DEF Stands

(* Where one element stands.                                                *)
LEMMA StandsOne ==
    ASSUME NEW input, IsSeq(input), NEW x, NEW at, Stands(input, at, <<x>>)
    PROVE  at \in 1..Len(input) /\ input[at] = x
<1>1. Len(<<x>>) = 1 /\ <<x>>[1] = x /\ Len(input) \in Nat
  BY DEF IsSeq
<1>. QED  BY <1>1 DEF Stands

-----------------------------------------------------------------------------
(* Varints *)

(* Digits: what a value leaves to write, and what is written of it.         *)
LEMMA Digits ==
    ASSUME NEW value \in Nat
    PROVE  /\ value \div VarintBase \in Nat
           /\ value % VarintBase \in 0..(VarintBase - 1)
           /\ value >= VarintBase => value \div VarintBase < value
           /\ ((value % VarintBase) + VarintBase) % VarintBase = value % VarintBase
           /\ value = (value % VarintBase) + VarintBase * (value \div VarintBase)
<1>1. /\ value \div VarintBase \in Nat
      /\ value % VarintBase \in 0..(VarintBase - 1)
  BY VarintAssumption
<1>2. value >= VarintBase => value \div VarintBase < value
  BY VarintAssumption
<1>3. \A r \in 0..(VarintBase - 1) : (r + VarintBase) % VarintBase = r
  BY VarintAssumption
<1>4. value = (value \div VarintBase) * VarintBase + (value % VarintBase)
  BY VarintAssumption, Z3
<1>5. \A q \in Nat : q * VarintBase = VarintBase * q
  BY VarintAssumption
<1>6. VarintBase \in Nat
  BY VarintAssumption
<1>7. ASSUME NEW q \in Nat, NEW r \in Nat, value = q * VarintBase + r,
             q * VarintBase = VarintBase * q
      PROVE  value = r + VarintBase * q
  BY <1>6, <1>7
<1>. QED  BY <1>1, <1>2, <1>3, <1>4, <1>5, <1>7

(* encode's loop ends, so its recursion has a function that satisfies it.   *)
Encodes(f, values) ==
    f = [value \in values |->
            IF value < VarintBase THEN <<value>>
            ELSE <<(value % VarintBase) + VarintBase>> \o f[value \div VarintBase]]

LEMMA EncodesUpto ==
    ASSUME NEW n \in Nat
    PROVE  \E f : Encodes(f, 0..n)
<1> DEFINE K == {m \in Nat : \E f : Encodes(f, 0..m)}
           Step(f, v) == IF v < VarintBase THEN <<v>>
                         ELSE <<(v % VarintBase) + VarintBase>> \o f[v \div VarintBase]
<1>0. VarintBase \in Nat \ {0, 1}
  BY VarintAssumption
<1>1. 0 \in K
  <2> DEFINE f == [v \in 0..0 |-> <<v>>]
  <2>1. f = [v \in 0..0 |-> Step(f, v)]
    BY <1>0
  <2> HIDE DEF f
  <2>2. Encodes(f, 0..0)
    BY <2>1 DEF Encodes
  <2>. QED  BY <2>2
<1>2. ASSUME NEW m \in Nat, m \in K
      PROVE  m + 1 \in K
  <2>1. PICK f : Encodes(f, 0..m)
    BY <1>2
  <2> DEFINE g == [v \in 0..(m + 1) |-> IF v = m + 1 THEN Step(f, v) ELSE f[v]]
  <2>2. \A v \in 0..m : f[v] = Step(f, v)
    BY <2>1 DEF Encodes
  <2>3. \A v \in 0..(m + 1) : g[v] = Step(f, v)
    <3> HIDE DEF Step
    <3>. QED  BY <2>2
  <2>4. \A v \in 0..m : g[v] = f[v]
    <3> HIDE DEF Step
    <3>. QED  OBVIOUS
  <2>5. g = [v \in 0..(m + 1) |-> g[v]]
    <3> HIDE DEF Step
    <3>. QED  OBVIOUS
  <2> HIDE DEF g
  <2>6. ASSUME NEW v \in 0..(m + 1)
        PROVE  Step(f, v) = Step(g, v)
    <3>1. CASE v < VarintBase
      BY <3>1
    <3>2. CASE ~ (v < VarintBase)
      <4>1. v \div VarintBase \in Nat /\ v \div VarintBase < v
        BY <1>0, <3>2, Digits
      <4>2. v \div VarintBase \in 0..m
        BY <4>1
      <4>. QED  BY <2>4, <4>2
    <3>. QED  BY <3>1, <3>2
  <2>7. g = [v \in 0..(m + 1) |-> Step(g, v)]
    <3> HIDE DEF Step
    <3>. QED  BY <2>3, <2>5, <2>6
  <2>8. Encodes(g, 0..(m + 1))
    BY <2>7 DEF Encodes
  <2>. QED  BY <2>8
<1>3. Nat \subseteq K
  <2> HIDE DEF K
  <2>. QED  BY <1>1, <1>2, NatInductionOnSets
<1>. QED  BY <1>3

LEMMA EncodesAgree ==
    \A n, m \in Nat : \A f, g :
        Encodes(f, 0..n) /\ Encodes(g, 0..m) =>
            \A v \in Nat : v <= n /\ v <= m => f[v] = g[v]
<1> TAKE n, m \in Nat
<1> TAKE f, g
<1> HAVE Encodes(f, 0..n) /\ Encodes(g, 0..m)
<1> DEFINE Same(v) == v <= n /\ v <= m => f[v] = g[v]
           K == {k \in Nat : \A v \in 0..k : Same(v)}
           Step(h, v) == IF v < VarintBase THEN <<v>>
                         ELSE <<(v % VarintBase) + VarintBase>> \o h[v \div VarintBase]
<1>0. VarintBase \in Nat \ {0, 1}
  BY VarintAssumption
<1>1. /\ \A v \in 0..n : f[v] = Step(f, v)
      /\ \A v \in 0..m : g[v] = Step(g, v)
  BY DEF Encodes
<1>2. ASSUME NEW v \in Nat, \A w \in Nat : w < v => Same(w)
      PROVE  Same(v)
  <2> SUFFICES ASSUME v <= n, v <= m PROVE f[v] = g[v]
    OBVIOUS
  <2>1. f[v] = Step(f, v) /\ g[v] = Step(g, v)
    <3> HIDE DEF Step
    <3>. QED  BY <1>1
  <2>2. CASE v < VarintBase
    BY <2>1, <2>2
  <2>3. CASE ~ (v < VarintBase)
    <3>0. v >= VarintBase
      BY <1>0, <2>3
    <3>1. v \div VarintBase \in Nat /\ v \div VarintBase < v
      BY <3>0, Digits
    <3>2. f[v \div VarintBase] = g[v \div VarintBase]
      <4>1. Same(v \div VarintBase)
        <5> HIDE DEF Same
        <5>. QED  BY <1>2, <3>1
      <4>2. v \div VarintBase <= n /\ v \div VarintBase <= m
        BY <3>1
      <4>. QED  BY <4>1, <4>2
    <3>. QED  BY <2>1, <2>3, <3>2
  <2>. QED  BY <2>2, <2>3
<1> HIDE DEF Same
<1>3. 0 \in K
  <2>1. Same(0)
    BY <1>2
  <2>. QED  BY <2>1
<1>4. ASSUME NEW k \in Nat, k \in K
      PROVE  k + 1 \in K
  <2>1. \A v \in 0..k : Same(v)
    BY <1>4
  <2>2. Same(k + 1)
    BY <1>2, <2>1
  <2>. QED  BY <2>1, <2>2
<1>5. Nat \subseteq K
  <2> HIDE DEF K
  <2>. QED  BY <1>3, <1>4, NatInductionOnSets
<1>6. \A v \in Nat : Same(v)
  BY <1>5
<1>. QED  BY <1>6 DEF Same

(* What Varint[value] is, step by step.                                     *)
LEMMA VarintUnfold ==
    \A value \in Nat :
        Varint[value] = IF value < VarintBase THEN <<value>>
                        ELSE <<(value % VarintBase) + VarintBase>>
                             \o Varint[value \div VarintBase]
<1> DEFINE H(n) == CHOOSE f : Encodes(f, 0..n)
           F == [v \in Nat |-> H(v)[v]]
           Step(h, v) == IF v < VarintBase THEN <<v>>
                         ELSE <<(v % VarintBase) + VarintBase>> \o h[v \div VarintBase]
<1>0. VarintBase \in Nat \ {0, 1}
  BY VarintAssumption
<1>1. \A n \in Nat : Encodes(H(n), 0..n)
  BY EncodesUpto
<1> HIDE DEF H
<1>2. \A n, v \in Nat : v <= n => F[v] = H(n)[v]
  <2> TAKE n, v \in Nat
  <2> HAVE v <= n
  <2>1. H(v)[v] = H(n)[v]
    <3>1. PICK f, g : f = H(v) /\ g = H(n)
      OBVIOUS
    <3>2. Encodes(f, 0..v) /\ Encodes(g, 0..n)
      BY <1>1, <3>1
    <3>3. f[v] = g[v]
      BY <3>2, EncodesAgree
    <3>. QED  BY <3>1, <3>3
  <2>. QED  BY <2>1
<1>3. ASSUME NEW v \in Nat
      PROVE  F[v] = Step(F, v)
  <2>1. H(v)[v] = Step(H(v), v)
    <3>1. PICK f : f = H(v)
      OBVIOUS
    <3>2. Encodes(f, 0..v) /\ v \in 0..v
      BY <1>1, <3>1
    <3>3. f[v] = Step(f, v)
      BY <3>2 DEF Encodes
    <3>. QED  BY <3>1, <3>3
  <2>2. CASE v < VarintBase
    BY <2>1, <2>2
  <2>3. CASE ~ (v < VarintBase)
    <3>1. v \div VarintBase \in Nat /\ v \div VarintBase <= v
      BY <1>0, <2>3, Digits
    <3>2. F[v \div VarintBase] = H(v)[v \div VarintBase]
      <4> HIDE DEF F
      <4>. QED  BY <1>2, <3>1
    <3>3. F[v] = H(v)[v]
      OBVIOUS
    <3> HIDE DEF F
    <3>. QED  BY <2>1, <2>3, <3>2, <3>3
  <2>. QED  BY <2>2, <2>3
<1>4. F = [v \in Nat |-> F[v]]
  OBVIOUS
<1> HIDE DEF F
<1>5. F = [v \in Nat |-> Step(F, v)]
  <2> HIDE DEF Step
  <2>. QED  BY <1>3, <1>4
<1>6. Encodes(F, Nat)
  BY <1>5 DEF Encodes
<1>7. Encodes(Varint, Nat)
  <2>1. Varint = CHOOSE f : Encodes(f, Nat)
    BY DEF Varint, Encodes
  <2>. QED  BY <1>6, <2>1
<1>. QED  BY <1>7 DEF Encodes

(* A varint is a sequence of at least one byte.                             *)
LEMMA VarintSeq ==
    \A value \in Nat : IsSeq(Varint[value]) /\ Len(Varint[value]) \in Nat \ {0}
<1> DEFINE P(v) == IsSeq(Varint[v]) /\ Len(Varint[v]) \in Nat \ {0}
           K == {k \in Nat : \A v \in 0..k : P(v)}
<1>0. VarintBase \in Nat \ {0, 1}
  BY VarintAssumption
<1>1. ASSUME NEW v \in Nat, \A w \in Nat : w < v => P(w)
      PROVE  P(v)
  <2>1. CASE v < VarintBase
    <3>1. Varint[v] = <<v>>
      BY <2>1, VarintUnfold
    <3>. QED  BY <3>1, ShortSeqs
  <2>2. CASE ~ (v < VarintBase)
    <3>0. PICK w, b : w = v \div VarintBase /\ b = (v % VarintBase) + VarintBase
      OBVIOUS
    <3>1. w \in Nat /\ w < v
      BY <1>0, <2>2, <3>0, Digits
    <3>2. P(w)
      <4> HIDE DEF P
      <4>. QED  BY <1>1, <3>1
    <3>3. Varint[v] = <<b>> \o Varint[w]
      BY <2>2, <3>0, VarintUnfold
    <3>4. IsSeq(<<b>>)
      BY ShortSeqs
    <3>5. IsSeq(Varint[v])
      BY <3>2, <3>3, <3>4, ConcatSeq
    <3>6. Len(Varint[v]) = 1 + Len(Varint[w])
      <4> DEFINE S == Items(Varint[w]) \cup {b}
      <4>1. Varint[w] \in Seq(S) /\ <<b>> \in Seq(S)
        <5>1. /\ Varint[w] \in Seq(Items(Varint[w]))
              /\ Items(Varint[w]) \subseteq S /\ b \in S
          BY <3>2 DEF IsSeq
        <5> HIDE DEF S
        <5>. QED  BY <5>1
      <4> HIDE DEF S
      <4>. QED  BY <3>3, <4>1
    <3>. QED  BY <3>2, <3>5, <3>6
  <2>. QED  BY <2>1, <2>2
<1> HIDE DEF P
<1>2. 0 \in K
  <2>1. P(0)
    BY <1>1
  <2>. QED  BY <2>1
<1>3. ASSUME NEW k \in Nat, k \in K
      PROVE  k + 1 \in K
  <2>1. \A v \in 0..k : P(v)
    BY <1>3
  <2>2. P(k + 1)
    BY <1>1, <2>1
  <2>. QED  BY <2>1, <2>2
<1>4. Nat \subseteq K
  <2> HIDE DEF K
  <2>. QED  BY <1>2, <1>3, NatInductionOnSets
<1>5. \A v \in Nat : P(v)
  BY <1>4
<1>. QED  BY <1>5 DEF P

(* decode's recursion, over the positions from some position on.            *)
Reads(f, input, from) ==
    f = [j \in from..Len(input) |->
            IF j = Len(input) \/ input[j] < VarintBase
            THEN [value |-> input[j], next |-> j + 1]
            ELSE LET rest == f[j + 1]
                 IN  [value |-> (input[j] % VarintBase) + VarintBase * rest.value,
                      next  |-> rest.next]]

ReadOf(input) == CHOOSE f : Reads(f, input, 1)

LEMMA ReadExists ==
    ASSUME NEW input, Len(input) \in Nat
    PROVE  \E f : Reads(f, input, 1)
<1> DEFINE L == Len(input)
           K == {n \in Nat : n <= L => \E f : Reads(f, input, (L + 1) - n)}
           Step(f, j) == IF j = L \/ input[j] < VarintBase
                         THEN [value |-> input[j], next |-> j + 1]
                         ELSE LET rest == f[j + 1]
                              IN  [value |-> (input[j] % VarintBase) + VarintBase * rest.value,
                                   next  |-> rest.next]
<1>1. 0 \in K
  <2> DEFINE f == [j \in {} |-> 0]
  <2>1. (L + 1)..L = {} /\ (L + 1) - 0 = L + 1
    OBVIOUS
  <2>2. f = [j \in (L + 1)..L |-> Step(f, j)]
    <3> HIDE DEF Step
    <3>. QED  BY <2>1
  <2> HIDE DEF f
  <2>3. Reads(f, input, L + 1)
    BY <2>2 DEF Reads
  <2>. QED  BY <2>1, <2>3
<1>2. ASSUME NEW n \in Nat, n \in K
      PROVE  n + 1 \in K
  <2> SUFFICES ASSUME n + 1 <= L
               PROVE  \E f : Reads(f, input, (L + 1) - (n + 1))
    OBVIOUS
  <2> DEFINE a == L - n
  <2>0. a \in Nat /\ a <= L /\ (L + 1) - n = a + 1 /\ (L + 1) - (n + 1) = a
    OBVIOUS
  <2>1. PICK f : Reads(f, input, a + 1)
    BY <1>2, <2>0
  <2> HIDE DEF a
  <2> DEFINE g == [j \in a..L |-> IF j = a THEN Step(f, a) ELSE f[j]]
  <2>2. \A j \in (a + 1)..L : f[j] = Step(f, j)
    BY <2>1 DEF Reads
  <2>3. \A j \in a..L : g[j] = Step(f, j)
    <3> HIDE DEF Step
    <3>1. \A j \in a..L : j = a \/ j \in (a + 1)..L
      BY <2>0
    <3>. QED  BY <2>2, <3>1
  <2>4. \A j \in (a + 1)..L : g[j] = f[j]
    <3> HIDE DEF Step
    <3>1. \A j \in (a + 1)..L : j # a /\ j \in a..L
      BY <2>0
    <3>. QED  BY <3>1
  <2>5. g = [j \in a..L |-> g[j]]
    <3> HIDE DEF Step
    <3>. QED  OBVIOUS
  <2> HIDE DEF g
  <2>6. ASSUME NEW j \in a..L
        PROVE  Step(f, j) = Step(g, j)
    <3>1. CASE j = L \/ input[j] < VarintBase
      BY <3>1
    <3>2. CASE ~ (j = L \/ input[j] < VarintBase)
      <4>1. j + 1 \in (a + 1)..L
        BY <2>0, <3>2
      <4>. QED  BY <2>4, <3>2, <4>1
    <3>. QED  BY <3>1, <3>2
  <2>7. g = [j \in a..L |-> Step(g, j)]
    <3> HIDE DEF Step
    <3>. QED  BY <2>3, <2>5, <2>6
  <2>8. Reads(g, input, a)
    BY <2>7 DEF Reads
  <2>. QED  BY <2>0, <2>8
<1>3. Nat \subseteq K
  <2> HIDE DEF K
  <2>. QED  BY <1>1, <1>2, NatInductionOnSets
<1>4. L \in K /\ (L + 1) - L = 1
  BY <1>3
<1>. QED  BY <1>4

LEMMA ReadUnfold ==
    ASSUME NEW input, Len(input) \in Nat, NEW at \in 1..Len(input)
    PROVE  ReadVarint(input, at) =
              IF at = Len(input) \/ input[at] < VarintBase
              THEN [value |-> input[at], next |-> at + 1]
              ELSE [value |-> (input[at] % VarintBase)
                              + VarintBase * ReadVarint(input, at + 1).value,
                    next  |-> ReadVarint(input, at + 1).next]
<1>1. \A a : ReadVarint(input, a) = ReadOf(input)[a]
  BY DEF ReadVarint, ReadOf, Reads
<1>2. PICK f : f = ReadOf(input)
  OBVIOUS
<1>3. Reads(f, input, 1)
  BY <1>2, ReadExists DEF ReadOf
<1>4. f[at] = IF at = Len(input) \/ input[at] < VarintBase
              THEN [value |-> input[at], next |-> at + 1]
              ELSE [value |-> (input[at] % VarintBase) + VarintBase * f[at + 1].value,
                    next  |-> f[at + 1].next]
  BY <1>3 DEF Reads
<1>. QED  BY <1>1, <1>2, <1>4

(* A varint is read back as what it was written from, wherever it stands.   *)
LEMMA VarintRead ==
    ASSUME NEW input, IsSeq(input)
    PROVE  \A value \in Nat : \A at :
              Stands(input, at, Varint[value]) =>
                 ReadVarint(input, at) =
                    [value |-> value, next |-> at + Len(Varint[value])]
<1> DEFINE P(v) == \A at : Stands(input, at, Varint[v]) =>
                      ReadVarint(input, at) = [value |-> v, next |-> at + Len(Varint[v])]
           K == {k \in Nat : \A v \in 0..k : P(v)}
<1>0. VarintBase \in Nat \ {0, 1} /\ Len(input) \in Nat
  BY VarintAssumption DEF IsSeq
<1>1. ASSUME NEW v \in Nat, \A w \in Nat : w < v => P(w)
      PROVE  P(v)
  <2> SUFFICES ASSUME NEW at, Stands(input, at, Varint[v])
               PROVE  ReadVarint(input, at) = [value |-> v, next |-> at + Len(Varint[v])]
    OBVIOUS
  <2>1. CASE v < VarintBase
    <3>1. Varint[v] = <<v>>
      BY <2>1, VarintUnfold
    <3>2. at \in 1..Len(input) /\ input[at] = v
      BY <3>1, StandsOne
    <3>3. ReadVarint(input, at) = [value |-> v, next |-> at + 1]
      BY <1>0, <2>1, <3>2, ReadUnfold
    <3>4. Len(Varint[v]) = 1
      BY <3>1
    <3>. QED  BY <3>3, <3>4
  <2>2. CASE ~ (v < VarintBase)
    <3>0. PICK w, b : w = v \div VarintBase /\ b = (v % VarintBase) + VarintBase
      OBVIOUS
    <3>a. v >= VarintBase
      BY <1>0, <2>2
    <3>b. /\ w \in Nat /\ v % VarintBase \in 0..(VarintBase - 1)
          /\ w < v /\ b % VarintBase = v % VarintBase
          /\ v = (v % VarintBase) + VarintBase * w
      BY <3>0, <3>a, Digits
    <3>1. /\ w \in Nat /\ w < v /\ b % VarintBase = v % VarintBase
          /\ b \in Nat /\ b >= VarintBase
          /\ v = (v % VarintBase) + VarintBase * w
      <4>1. PICK r : r = v % VarintBase
        OBVIOUS
      <4>2. r \in Nat /\ b = r + VarintBase
        BY <1>0, <3>0, <3>b, <4>1
      <4>. QED  BY <1>0, <3>b, <4>2
    <3>2. Varint[v] = <<b>> \o Varint[w]
      BY <2>2, <3>0, VarintUnfold
    <3>3. IsSeq(<<b>>) /\ Len(<<b>>) = 1
      BY ShortSeqs
    <3>4. IsSeq(Varint[w]) /\ Len(Varint[w]) \in Nat \ {0}
      BY <3>1, VarintSeq
    <3>5. Stands(input, at, <<b>>) /\ Stands(input, at + 1, Varint[w])
      BY <3>2, <3>3, <3>4, StandsConcat
    <3>6. at \in 1..Len(input) /\ input[at] = b
      BY <3>5, StandsOne
    <3>7. at # Len(input)
      BY <1>0, <3>4, <3>5 DEF Stands
    <3>8. ReadVarint(input, at + 1) = [value |-> w, next |-> (at + 1) + Len(Varint[w])]
      <4>1. P(w)
        <5> HIDE DEF P
        <5>. QED  BY <1>1, <3>1
      <4>. QED  BY <3>5, <4>1
    <3>9. ~ (input[at] < VarintBase)
      BY <1>0, <3>1, <3>6
    <3>10. ReadVarint(input, at) =
             [value |-> (b % VarintBase) + VarintBase * w,
              next  |-> (at + 1) + Len(Varint[w])]
      BY <1>0, <3>6, <3>7, <3>8, <3>9, ReadUnfold
    <3>11. Len(Varint[v]) = 1 + Len(Varint[w])
      <4> DEFINE S == Items(Varint[w]) \cup {b}
      <4>1. Varint[w] \in Seq(S) /\ <<b>> \in Seq(S)
        <5>1. /\ Varint[w] \in Seq(Items(Varint[w]))
              /\ Items(Varint[w]) \subseteq S /\ b \in S
          BY <3>4 DEF IsSeq
        <5> HIDE DEF S
        <5>. QED  BY <5>1
      <4> HIDE DEF S
      <4>. QED  BY <3>2, <4>1
    <3>12. (at + 1) + Len(Varint[w]) = at + Len(Varint[v])
      <4>1. PICK l, m : l = Len(Varint[w]) /\ m = Len(Varint[v])
        OBVIOUS
      <4>2. l \in Nat /\ m = 1 + l /\ at \in Nat
        BY <1>0, <3>4, <3>6, <3>11, <4>1
      <4>3. (at + 1) + l = at + m
        BY <4>2
      <4>. QED  BY <4>1, <4>3
    <3>. QED  BY <3>1, <3>10, <3>12
  <2>. QED  BY <2>1, <2>2
<1> HIDE DEF P
<1>2. 0 \in K
  <2>1. P(0)
    BY <1>1
  <2>. QED  BY <2>1
<1>3. ASSUME NEW k \in Nat, k \in K
      PROVE  k + 1 \in K
  <2>1. \A v \in 0..k : P(v)
    BY <1>3
  <2>2. P(k + 1)
    BY <1>1, <2>1
  <2>. QED  BY <2>1, <2>2
<1>4. Nat \subseteq K
  <2> HIDE DEF K
  <2>. QED  BY <1>2, <1>3, NatInductionOnSets
<1>5. \A v \in Nat : P(v)
  BY <1>4
<1>. QED  BY <1>5 DEF P

-----------------------------------------------------------------------------
(* Optional fields *)

LEMMA OptionalRead ==
    ASSUME NEW input, IsSeq(input), NEW x, NEW none, NEW at,
           Stands(input, at, Optional(x, none))
    PROVE  /\ ReadOptional(input, at, none) =
                 [value |-> x, next |-> at + Len(Optional(x, none))]
           /\ at + Len(Optional(x, none)) \in Nat \ {0}
<1>1. at \in Nat \ {0}
  BY DEF Stands
<1>2. CASE x = none
  <2>1. Optional(x, none) = <<0>> /\ Len(<<0>>) = 1
    BY <1>2 DEF Optional
  <2>2. input[at] = 0
    BY <2>1, StandsOne
  <2>. QED  BY <1>1, <1>2, <2>1, <2>2 DEF ReadOptional
<1>3. CASE x # none
  <2>1. /\ Optional(x, none) = <<1, x>> /\ Len(<<1, x>>) = 2
        /\ <<1, x>>[1] = 1 /\ <<1, x>>[2] = x
    BY <1>3 DEF Optional
  <2>2. /\ \A i \in 1..2 : input[at + i - 1] = <<1, x>>[i]
    BY <2>1 DEF Stands
  <2>3. input[at] = 1 /\ input[at + 1] = x
    <3>1. /\ 1 \in 1..2 /\ at + 1 - 1 = at
          /\ 2 \in 1..2 /\ at + 2 - 1 = at + 1
      BY <1>1
    <3>2. input[at + 1 - 1] = 1 /\ input[at + 2 - 1] = x
      BY <2>1, <2>2
    <3>. QED  BY <3>1, <3>2
  <2>. QED  BY <1>1, <2>1, <2>3 DEF ReadOptional
<1>. QED  BY <1>2, <1>3

LEMMA OptionalSeq ==
    \A x, none : IsSeq(Optional(x, none)) /\ Len(Optional(x, none)) \in Nat
<1> TAKE x, none
<1>1. CASE x = none
  <2>1. Optional(x, none) = <<0>> /\ Len(<<0>>) = 1
    BY <1>1 DEF Optional
  <2>. QED  BY <2>1, ShortSeqs
<1>2. CASE x # none
  <2>0. PICK s : s = <<1, x>>
    OBVIOUS
  <2>1. Optional(x, none) = s /\ s \in Seq({1, x}) /\ Len(s) = 2 /\ s[1] = 1 /\ s[2] = x
    BY <1>2, <2>0 DEF Optional
  <2>2. Items(s) = {1, x}
    <3>1. 1..2 = {1, 2}
      OBVIOUS
    <3>. QED  BY <2>1, <3>1 DEF Items
  <2>. QED  BY <2>1, <2>2 DEF IsSeq
<1>. QED  BY <1>1, <1>2

-----------------------------------------------------------------------------
(* Skipped keys *)

(* What is kept of a skipped key.                                           *)
IsEntry(k) == k = [dh |-> k.dh, number |-> k.number, key |-> k.key] /\ k.number \in Nat

Writes(f, keys, n) ==
    f = [i \in 0..n |->
            IF i = 0 THEN << >>
            ELSE f[i - 1] \o <<keys[i].dh>> \o Varint[keys[i].number] \o <<keys[i].key>>]

LEMMA WritesExists ==
    ASSUME NEW keys, NEW n \in Nat
    PROVE  \E f : Writes(f, keys, n)
<1> DEFINE K == {m \in Nat : \E f : Writes(f, keys, m)}
           Step(f, i) == IF i = 0 THEN << >>
                         ELSE f[i - 1] \o <<keys[i].dh>> \o Varint[keys[i].number]
                              \o <<keys[i].key>>
<1>1. 0 \in K
  <2> DEFINE f == [i \in 0..0 |-> << >>]
  <2>1. f = [i \in 0..0 |-> Step(f, i)]
    OBVIOUS
  <2> HIDE DEF f
  <2>2. Writes(f, keys, 0)
    BY <2>1 DEF Writes
  <2>. QED  BY <2>2
<1>2. ASSUME NEW m \in Nat, m \in K
      PROVE  m + 1 \in K
  <2>1. PICK f : Writes(f, keys, m)
    BY <1>2
  <2> DEFINE g == [i \in 0..(m + 1) |-> IF i = m + 1 THEN Step(f, i) ELSE f[i]]
  <2>2. \A i \in 0..m : f[i] = Step(f, i)
    BY <2>1 DEF Writes
  <2>3. /\ \A i \in 0..(m + 1) : g[i] = Step(f, i)
        /\ \A i \in 0..m : g[i] = f[i]
        /\ g = [i \in 0..(m + 1) |-> g[i]]
    <3> HIDE DEF Step
    <3>. QED  BY <2>2
  <2> HIDE DEF g
  <2>4. ASSUME NEW i \in 0..(m + 1)
        PROVE  Step(f, i) = Step(g, i)
    <3>1. CASE i = 0
      BY <3>1
    <3>2. CASE i # 0
      <4>1. i - 1 \in 0..m
        BY <3>2
      <4>2. g[i - 1] = f[i - 1]
        <5> HIDE DEF Step
        <5>. QED  BY <2>3, <4>1
      <4>. QED  BY <4>2
    <3>. QED  BY <3>1, <3>2
  <2>5. g = [i \in 0..(m + 1) |-> Step(g, i)]
    <3> HIDE DEF Step
    <3>. QED  BY <2>3, <2>4
  <2>6. Writes(g, keys, m + 1)
    BY <2>5 DEF Writes
  <2>. QED  BY <2>6
<1>3. Nat \subseteq K
  <2> HIDE DEF K
  <2>. QED  BY <1>1, <1>2, NatInductionOnSets
<1>. QED  BY <1>3

LEMMA WritesUnfold ==
    ASSUME NEW keys, NEW n \in Nat, NEW f, Writes(f, keys, n)
    PROVE  /\ f[0] = << >>
           /\ \A i \in 0..n : i # 0 =>
                 f[i] = f[i - 1] \o <<keys[i].dh>> \o Varint[keys[i].number]
                        \o <<keys[i].key>>
<1> DEFINE Step(i) == IF i = 0 THEN << >>
                      ELSE f[i - 1] \o <<keys[i].dh>> \o Varint[keys[i].number]
                           \o <<keys[i].key>>
<1>1. f = [i \in 0..n |-> Step(i)]
  BY DEF Writes
<1>2. \A i \in 0..n : f[i] = Step(i)
  <2> HIDE DEF Step
  <2>. QED  BY <1>1
<1>3. 0 \in 0..n
  OBVIOUS
<1>. QED  BY <1>2, <1>3

(* What is written of the first i keys is a sequence.                       *)
LEMMA WritesSeq ==
    ASSUME NEW keys, NEW n \in Nat, NEW f, Writes(f, keys, n),
           \A i \in 1..n : keys[i].number \in Nat
    PROVE  \A i \in 0..n : IsSeq(f[i]) /\ Len(f[i]) \in Nat
<1> DEFINE K == {i \in Nat : i <= n => IsSeq(f[i])}
<1>1. /\ f[0] = << >>
      /\ \A i \in 0..n : i # 0 =>
            f[i] = f[i - 1] \o <<keys[i].dh>> \o Varint[keys[i].number] \o <<keys[i].key>>
  BY WritesUnfold
<1>2. 0 \in K
  BY <1>1, ShortSeqs
<1>3. ASSUME NEW i \in Nat, i \in K
      PROVE  i + 1 \in K
  <2> SUFFICES ASSUME i + 1 <= n PROVE IsSeq(f[i + 1])
    OBVIOUS
  <2>0. PICK k : k = keys[i + 1]
    OBVIOUS
  <2>1. /\ i + 1 \in 0..n /\ i + 1 \in 1..n /\ i + 1 # 0 /\ (i + 1) - 1 = i /\ i <= n
    OBVIOUS
  <2>2. IsSeq(f[i]) /\ k.number \in Nat
    BY <1>3, <2>0, <2>1
  <2>3. f[i + 1] = f[i] \o <<k.dh>> \o Varint[k.number] \o <<k.key>>
    BY <1>1, <2>0, <2>1
  <2>4. IsSeq(f[i] \o <<k.dh>>)
    BY <2>2, ShortSeqs, ConcatSeq
  <2>5. IsSeq(f[i] \o <<k.dh>> \o Varint[k.number])
    BY <2>2, <2>4, VarintSeq, ConcatSeq
  <2>. QED  BY <2>3, <2>5, ShortSeqs, ConcatSeq
<1>4. Nat \subseteq K
  <2> HIDE DEF K
  <2>. QED  BY <1>2, <1>3, NatInductionOnSets
<1>. QED  BY <1>4 DEF IsSeq

(* from_bytes reads from some position on the keys to_bytes wrote there.    *)
LEMMA KeysRead ==
    ASSUME NEW keys, NEW n \in Nat, NEW f, Writes(f, keys, n),
           \A i \in 1..n : IsEntry(keys[i]),
           NEW input, IsSeq(input), NEW at, Stands(input, at, f[n])
    PROVE  ReadEntries(input, at, n) = {keys[i] : i \in 1..n}
<1> DEFINE g == [i \in 0..n |-> [keys |-> {keys[j] : j \in 1..i}, next |-> at + Len(f[i])]]
           OneMore(e) == LET number == ReadVarint(input, e.next + 1)
                         IN  [keys |-> e.keys
                                       \cup {[dh |-> input[e.next], number |-> number.value,
                                              key |-> input[number.next]]},
                              next |-> number.next + 1]
           IsRead(e) == e = [i \in 0..n |-> IF i = 0 THEN [keys |-> {}, next |-> at]
                                            ELSE OneMore(e[i - 1])]
<1>1. /\ f[0] = << >>
      /\ \A i \in 0..n : i # 0 =>
            f[i] = f[i - 1] \o <<keys[i].dh>> \o Varint[keys[i].number] \o <<keys[i].key>>
  BY WritesUnfold
<1>a. \A i \in 1..n : keys[i].number \in Nat
  BY DEF IsEntry
<1>b. \A i \in 0..n : IsSeq(f[i]) /\ Len(f[i]) \in Nat
  BY <1>a, WritesSeq
<1>2. /\ \A i \in 0..n : IsSeq(f[i]) /\ Len(f[i]) \in Nat
      /\ at \in Nat \ {0} /\ Len(input) \in Nat
  BY <1>b DEF Stands, IsSeq
(* Where the parts of the next entry stand.                                 *)
<1>3. ASSUME NEW i \in Nat, i + 1 <= n, Stands(input, at, f[i + 1])
      PROVE  /\ Stands(input, at, f[i])
             /\ Stands(input, at + Len(f[i]), <<keys[i + 1].dh>>)
             /\ Stands(input, (at + Len(f[i])) + 1, Varint[keys[i + 1].number])
             /\ Stands(input, ((at + Len(f[i])) + 1) + Len(Varint[keys[i + 1].number]),
                       <<keys[i + 1].key>>)
             /\ Len(f[i + 1]) = ((Len(f[i]) + 1) + Len(Varint[keys[i + 1].number])) + 1
  <2>0. PICK k, u : k = keys[i + 1] /\ u = f[i]
    OBVIOUS
  <2>1. i + 1 \in 0..n /\ i + 1 \in 1..n /\ i + 1 # 0 /\ (i + 1) - 1 = i /\ i \in 0..n
    BY <1>3
  <2>2. IsSeq(u) /\ Len(u) \in Nat /\ k.number \in Nat
    BY <1>2, <2>0, <2>1 DEF IsEntry
  <2>3. PICK v : v = Varint[k.number]
    OBVIOUS
  <2>4. f[i + 1] = ((u \o <<k.dh>>) \o v) \o <<k.key>>
    BY <1>1, <2>0, <2>1, <2>3
  <2>5. IsSeq(v) /\ Len(v) \in Nat /\ IsSeq(<<k.dh>>) /\ IsSeq(<<k.key>>)
    BY <2>2, <2>3, VarintSeq, ShortSeqs
  <2>6. IsSeq(u \o <<k.dh>>) /\ Len(u \o <<k.dh>>) = Len(u) + 1
    <3>1. IsSeq(u \o <<k.dh>>)
      BY <2>2, <2>5, ConcatSeq
    <3>. QED  BY <2>2, <3>1, LenConcat, <2>5
  <2>7. IsSeq((u \o <<k.dh>>) \o v) /\ Len((u \o <<k.dh>>) \o v) = (Len(u) + 1) + Len(v)
    BY <2>5, <2>6, ConcatSeq, LenConcat
  <2>8. Len(f[i + 1]) = ((Len(u) + 1) + Len(v)) + 1
    <3>1. Len(<<k.key>>) = 1
      OBVIOUS
    <3>. QED  BY <2>4, <2>5, <2>7, <3>1, LenConcat
  <2>9. /\ Stands(input, at, (u \o <<k.dh>>) \o v)
        /\ Stands(input, at + ((Len(u) + 1) + Len(v)), <<k.key>>)
    BY <1>3, <2>4, <2>5, <2>7, StandsConcat
  <2>10. Stands(input, at, u \o <<k.dh>>) /\ Stands(input, at + (Len(u) + 1), v)
    BY <2>5, <2>6, <2>9, StandsConcat
  <2>11. Stands(input, at, u) /\ Stands(input, at + Len(u), <<k.dh>>)
    BY <2>2, <2>5, <2>10, StandsConcat
  <2>12. /\ at + (Len(u) + 1) = (at + Len(u)) + 1
         /\ at + ((Len(u) + 1) + Len(v)) = ((at + Len(u)) + 1) + Len(v)
    BY <1>2, <2>2, <2>5
  <2>. QED  BY <2>0, <2>3, <2>8, <2>9, <2>10, <2>11, <2>12
<1> DEFINE D == {m \in Nat : m <= n => Stands(input, at, f[n - m])}
<1>4. Nat \subseteq D
  <2>1. 0 \in D
    BY <1>2
  <2>2. ASSUME NEW m \in Nat, m \in D
        PROVE  m + 1 \in D
    <3> SUFFICES ASSUME m + 1 <= n PROVE Stands(input, at, f[n - (m + 1)])
      OBVIOUS
    <3>1. PICK i : i = n - (m + 1)
      OBVIOUS
    <3>2. i \in Nat /\ i + 1 <= n /\ n - m = i + 1
      BY <3>1
    <3>3. Stands(input, at, f[i + 1])
      BY <2>2, <3>2
    <3>4. Stands(input, at, f[i])
      BY <1>3, <3>2, <3>3
    <3>. QED  BY <3>1, <3>4
  <2> HIDE DEF D
  <2>. QED  BY <2>1, <2>2, NatInductionOnSets
<1>5. \A i \in 0..n : Stands(input, at, f[i])
  <2> TAKE i \in 0..n
  <2>1. n - i \in D /\ n - i <= n /\ n - (n - i) = i
    BY <1>4
  <2>. QED  BY <2>1
<1> HIDE DEF D
<1>6. ASSUME NEW i \in Nat, i + 1 <= n
      PROVE  g[i + 1] = OneMore(g[i])
  <2>0. PICK k, next : k = keys[i + 1] /\ next = at + Len(f[i])
    OBVIOUS
  <2>1. i \in 0..n /\ i + 1 \in 0..n /\ i + 1 \in 1..n
    BY <1>6
  <2>2. IsEntry(k)
    BY <2>0, <2>1
  <2>3. /\ Stands(input, next, <<k.dh>>)
        /\ Stands(input, next + 1, Varint[k.number])
        /\ Stands(input, (next + 1) + Len(Varint[k.number]), <<k.key>>)
        /\ Len(f[i + 1]) = ((Len(f[i]) + 1) + Len(Varint[k.number])) + 1
    BY <1>3, <1>5, <1>6, <2>0, <2>1
  <2>4. ReadVarint(input, next + 1) =
           [value |-> k.number, next |-> (next + 1) + Len(Varint[k.number])]
    BY <2>2, <2>3, VarintRead DEF IsEntry
  <2>5. /\ input[next] = k.dh
        /\ input[(next + 1) + Len(Varint[k.number])] = k.key
    BY <2>3, StandsOne
  <2>6. g[i] = [keys |-> {keys[j] : j \in 1..i}, next |-> next]
    BY <2>0, <2>1
  <2>7. OneMore(g[i]) =
          [keys |-> {keys[j] : j \in 1..i}
                    \cup {[dh |-> k.dh, number |-> k.number, key |-> k.key]},
           next |-> ((next + 1) + Len(Varint[k.number])) + 1]
    <3> HIDE DEF g
    <3>1. PICK x, y : x = g[i] /\ y = ReadVarint(input, next + 1)
      OBVIOUS
    <3>2. x.keys = {keys[j] : j \in 1..i} /\ x.next = next
      BY <2>6, <3>1
    <3>3. y.value = k.number /\ y.next = (next + 1) + Len(Varint[k.number])
      BY <2>4, <3>1
    <3>4. OneMore(x) = [keys |-> x.keys \cup {[dh |-> input[x.next], number |-> y.value,
                                            key |-> input[y.next]]},
                     next |-> y.next + 1]
      BY <3>1, <3>2
    <3>. QED  BY <2>5, <3>1, <3>2, <3>3, <3>4
  <2>8. {keys[j] : j \in 1..(i + 1)} = {keys[j] : j \in 1..i} \cup {k}
    <3>1. 1..(i + 1) = (1..i) \cup {i + 1}
      OBVIOUS
    <3>. QED  BY <2>0, <3>1
  <2>9. ((next + 1) + Len(Varint[k.number])) + 1 = at + Len(f[i + 1])
    <3>1. PICK a, l, m : a = Len(f[i]) /\ l = Len(Varint[k.number]) /\ m = Len(f[i + 1])
      OBVIOUS
    <3>2. /\ a \in Nat /\ l \in Nat /\ at \in Nat /\ m = ((a + 1) + l) + 1 /\ next = at + a
      BY <1>2, <2>0, <2>1, <2>2, <2>3, <3>1, VarintSeq DEF IsEntry
    <3>3. ((next + 1) + l) + 1 = at + m
      BY <3>2
    <3>. QED  BY <3>1, <3>3
  <2>10. g[i + 1] = [keys |-> {keys[j] : j \in 1..(i + 1)}, next |-> at + Len(f[i + 1])]
    BY <2>1
  <2> HIDE DEF g, OneMore
  <2>. QED  BY <2>2, <2>7, <2>8, <2>9, <2>10 DEF IsEntry
<1>7. g[0] = [keys |-> {}, next |-> at] /\ g = [i \in 0..n |-> g[i]]
  <2>1. Len(f[0]) = 0
    BY <1>1
  <2>2. {keys[j] : j \in 1..0} = {}
    OBVIOUS
  <2>3. 0 \in 0..n /\ at + 0 = at
    BY <1>2
  <2>4. g[0] = [keys |-> {keys[j] : j \in 1..0}, next |-> at + Len(f[0])]
    BY <2>3
  <2>5. g[0] = [keys |-> {}, next |-> at]
    BY <2>1, <2>2, <2>3, <2>4
  <2>. QED  BY <2>5
<1> HIDE DEF g, OneMore
<1>8. IsRead(g)
  <2>1. \A i \in 0..n : g[i] = IF i = 0 THEN [keys |-> {}, next |-> at] ELSE OneMore(g[i - 1])
    <3> SUFFICES ASSUME NEW i \in 0..n, i # 0 PROVE g[i] = OneMore(g[i - 1])
      BY <1>7
    <3>1. i - 1 \in Nat /\ (i - 1) + 1 = i /\ i <= n
      OBVIOUS
    <3>. QED  BY <1>6, <3>1
  <2>. QED  BY <1>7, <2>1
<1> DEFINE e == CHOOSE x : IsRead(x)
<1>9. IsRead(e)
  <2> HIDE DEF IsRead
  <2>. QED  BY <1>8
<1>10. ReadEntries(input, at, n) = e[n].keys
  BY DEF ReadEntries, OneMore
<1> HIDE DEF e
<1>11. n \in {i \in Nat : i <= n => e[i] = g[i]}
  <2> DEFINE K == {i \in Nat : i <= n => e[i] = g[i]}
  <2>0. \A i \in 0..n : e[i] = IF i = 0 THEN [keys |-> {}, next |-> at] ELSE OneMore(e[i - 1])
    BY <1>9
  <2>1. /\ e[0] = [keys |-> {}, next |-> at]
        /\ \A i \in 0..n : i # 0 => e[i] = OneMore(e[i - 1])
    BY <2>0
  <2>2. 0 \in K
    BY <1>7, <2>1
  <2>3. ASSUME NEW i \in Nat, i \in K
        PROVE  i + 1 \in K
    <3> SUFFICES ASSUME i + 1 <= n PROVE e[i + 1] = g[i + 1]
      OBVIOUS
    <3>1. i + 1 \in 0..n /\ i + 1 # 0 /\ (i + 1) - 1 = i /\ i <= n
      OBVIOUS
    <3>2. e[i] = g[i] /\ e[i + 1] = OneMore(e[i])
      BY <2>1, <2>3, <3>1
    <3>. QED  BY <1>6, <3>2
  <2>4. Nat \subseteq K
    <3> HIDE DEF K
    <3>. QED  BY <2>2, <2>3, NatInductionOnSets
  <2>. QED  BY <2>4
<1>. QED  BY <1>10, <1>11 DEF g

(* SetToSeq lists what a finite set holds.                                  *)
LEMMA SetToSeqHolds ==
    ASSUME NEW S, IsFiniteSet(S)
    PROVE  /\ Cardinality(S) \in Nat
           /\ {SetToSeq(S)[i] : i \in 1..Cardinality(S)} = S
<1> DEFINE n == Cardinality(S)
<1>1. n \in Nat /\ ExistsBijection(1..n, S)
  BY FS_CountingElements, FS_CardinalityType
<1>2. PICK b : b \in Injection(1..n, S)
  BY <1>1 DEF ExistsBijection, Bijection
<1>3. b \in [1..n -> S] /\ IsInjective(b)
  BY <1>2 DEF Injection
<1>4. PICK f : f = SetToSeq(S)
  OBVIOUS
<1>5. f \in [1..n -> S] /\ IsInjective(f)
  BY <1>3, <1>4 DEF SetToSeq
<1>6. f \in Injection(1..n, S)
  BY <1>5 DEF Injection
<1>7. Cardinality(1..n) = n
  BY <1>1, FS_Interval
<1> HIDE DEF n
<1>8. f \in Surjection(1..n, S)
  BY <1>6, <1>7, FS_Injection DEF n
<1>9. \A x \in S : \E i \in 1..n : f[i] = x
  BY <1>8 DEF Surjection
<1>10. {f[i] : i \in 1..n} = S
  BY <1>5, <1>9
<1>. QED  BY <1>1, <1>4, <1>10 DEF n

LEMMA EntriesRead ==
    ASSUME NEW skipped, IsFiniteSet(skipped), \A k \in skipped : IsEntry(k)
    PROVE  /\ IsSeq(Entries(skipped)) /\ Len(Entries(skipped)) \in Nat
           /\ \A input, at :
                 IsSeq(input) /\ Stands(input, at, Entries(skipped)) =>
                    ReadEntries(input, at, Cardinality(skipped)) = skipped
<1> DEFINE keys == SetToSeq(skipped)
           n == Cardinality(skipped)
           f == CHOOSE x : Writes(x, keys, n)
<1>1. n \in Nat /\ {keys[i] : i \in 1..n} = skipped
  BY SetToSeqHolds
<1>2. Entries(skipped) = f[n]
  BY DEF Entries, Writes
<1> HIDE DEF keys, n
<1>3. Writes(f, keys, n)
  BY <1>1, WritesExists
<1>4. \A i \in 1..n : IsEntry(keys[i])
  BY <1>1
<1> HIDE DEF f
<1>5. n \in 0..n /\ \A i \in 1..n : keys[i].number \in Nat
  BY <1>1, <1>4 DEF IsEntry
<1>6. IsSeq(f[n]) /\ Len(f[n]) \in Nat
  BY <1>1, <1>3, <1>5, WritesSeq
<1>7. ASSUME NEW input, NEW at, IsSeq(input), Stands(input, at, f[n])
      PROVE  ReadEntries(input, at, n) = skipped
  BY <1>1, <1>3, <1>4, <1>7, KeysRead
<1>. QED  BY <1>2, <1>6, <1>7 DEF n

-----------------------------------------------------------------------------
(* Sessions and envelopes *)

(* The values a DoubleRatchet can take, as far as its bytes are concerned.  *)
IsSession(s) ==
    /\ s = [dh_self |-> s.dh_self, dh_remote |-> s.dh_remote, root_key |-> s.root_key,
            sending |-> s.sending, receiving |-> s.receiving,
            send_count |-> s.send_count, recv_count |-> s.recv_count,
            previous |-> s.previous, skipped |-> s.skipped]
    /\ s.send_count \in Nat /\ s.recv_count \in Nat /\ s.previous \in Nat
    /\ IsFiniteSet(s.skipped) /\ \A k \in s.skipped : IsEntry(k)

IsHeader(h) ==
    /\ h = [dh |-> h.dh, previous |-> h.previous, number |-> h.number]
    /\ h.previous \in Nat /\ h.number \in Nat

(* A part with what stands before it.                                       *)
LEMMA NextPart ==
    ASSUME NEW input, IsSeq(input), NEW a, IsSeq(a), NEW p, IsSeq(p),
           NEW b, b = a \o p
    PROVE  /\ IsSeq(b) /\ Len(b) = Len(a) + Len(p) /\ Len(b) \in Nat
           /\ Stands(input, 1, b) => /\ Stands(input, 1, a)
                                     /\ Stands(input, 1 + Len(a), p)
<1>1. IsSeq(b) /\ Len(b) = Len(a) + Len(p) /\ Len(b) \in Nat
  <2>1. /\ Len(a \o p) = Len(a) + Len(p) /\ Len(a) \in Nat /\ Len(p) \in Nat
        /\ IsSeq(a \o p)
    BY LenConcat, ConcatSeq
  <2>2. Len(a) + Len(p) \in Nat
    BY <2>1
  <2>. QED  BY <2>1, <2>2
<1>. QED  BY <1>1, StandsConcat

(* A session survives its bytes: from_bytes gives back what to_bytes was    *)
(* given (state.rs:243-312), whatever the counters and the skipped keys.    *)
THEOREM SessionSurvives ==
    ASSUME NEW s, IsSession(s)
    PROVE  FromBytes(ToBytes(s)) = s
<1>1. PICK p2, p4, p5, p6, p7, p8, p9, p10 :
          /\ p2 = Optional(s.dh_remote, NoKey) /\ p4 = Optional(s.sending, NoChain)
          /\ p5 = Optional(s.receiving, NoChain) /\ p6 = Varint[s.send_count]
          /\ p7 = Varint[s.recv_count] /\ p8 = Varint[s.previous]
          /\ p9 = Varint[Cardinality(s.skipped)] /\ p10 = Entries(s.skipped)
  OBVIOUS
<1>2. Cardinality(s.skipped) \in Nat
  BY FS_CardinalityType DEF IsSession
<1>3. /\ IsSeq(p2) /\ IsSeq(p4) /\ IsSeq(p5) /\ IsSeq(p6) /\ IsSeq(p7)
      /\ IsSeq(p8) /\ IsSeq(p9) /\ IsSeq(p10)
  BY <1>1, <1>2, OptionalSeq, VarintSeq, EntriesRead DEF IsSession
<1>4. PICK a1, a2, a3, a4, a5, a6, a7, a8, a9, w :
          /\ a1 = <<s.dh_self>> /\ a2 = a1 \o p2 /\ a3 = a2 \o <<s.root_key>>
          /\ a4 = a3 \o p4 /\ a5 = a4 \o p5 /\ a6 = a5 \o p6 /\ a7 = a6 \o p7
          /\ a8 = a7 \o p8 /\ a9 = a8 \o p9 /\ w = a9 \o p10
  OBVIOUS
<1>5. ToBytes(s) = w
  BY <1>1, <1>4 DEF ToBytes
<1>6. IsSeq(a1) /\ Len(a1) = 1 /\ IsSeq(<<s.root_key>>) /\ Len(<<s.root_key>>) = 1
  BY <1>4, ShortSeqs
<1>7. /\ IsSeq(a2) /\ IsSeq(a3) /\ IsSeq(a4) /\ IsSeq(a5) /\ IsSeq(a6)
      /\ IsSeq(a7) /\ IsSeq(a8) /\ IsSeq(a9) /\ IsSeq(w)
  BY <1>3, <1>4, <1>6, ConcatSeq
<1>8. Stands(w, 1, w)
  <2>1. Len(w) \in Nat
    BY <1>7 DEF IsSeq
  <2>. QED  BY <2>1 DEF Stands
<1>9. /\ Len(w) = Len(a9) + Len(p10) /\ Len(a9) \in Nat
      /\ Stands(w, 1, a9) /\ Stands(w, 1 + Len(a9), p10)
  BY <1>3, <1>4, <1>7, <1>8, NextPart, LenConcat
<1>10. Stands(w, 1, a8) /\ Stands(w, 1 + Len(a8), p9) /\ Len(a9) = Len(a8) + Len(p9)
  <2>1. IsSeq(w) /\ IsSeq(a8) /\ IsSeq(p9) /\ a9 = a8 \o p9 /\ Stands(w, 1, a9)
    BY <1>3, <1>4, <1>7, <1>9
  <2>. QED  BY <2>1, NextPart
<1>11. Stands(w, 1, a7) /\ Stands(w, 1 + Len(a7), p8) /\ Len(a8) = Len(a7) + Len(p8)
  <2>1. IsSeq(w) /\ IsSeq(a7) /\ IsSeq(p8) /\ a8 = a7 \o p8 /\ Stands(w, 1, a8)
    BY <1>3, <1>4, <1>7, <1>10
  <2>. QED  BY <2>1, NextPart
<1>12. Stands(w, 1, a6) /\ Stands(w, 1 + Len(a6), p7) /\ Len(a7) = Len(a6) + Len(p7)
  <2>1. IsSeq(w) /\ IsSeq(a6) /\ IsSeq(p7) /\ a7 = a6 \o p7 /\ Stands(w, 1, a7)
    BY <1>3, <1>4, <1>7, <1>11
  <2>. QED  BY <2>1, NextPart
<1>13. Stands(w, 1, a5) /\ Stands(w, 1 + Len(a5), p6) /\ Len(a6) = Len(a5) + Len(p6)
  <2>1. IsSeq(w) /\ IsSeq(a5) /\ IsSeq(p6) /\ a6 = a5 \o p6 /\ Stands(w, 1, a6)
    BY <1>3, <1>4, <1>7, <1>12
  <2>. QED  BY <2>1, NextPart
<1>14. Stands(w, 1, a4) /\ Stands(w, 1 + Len(a4), p5) /\ Len(a5) = Len(a4) + Len(p5)
  <2>1. IsSeq(w) /\ IsSeq(a4) /\ IsSeq(p5) /\ a5 = a4 \o p5 /\ Stands(w, 1, a5)
    BY <1>3, <1>4, <1>7, <1>13
  <2>. QED  BY <2>1, NextPart
<1>15. Stands(w, 1, a3) /\ Stands(w, 1 + Len(a3), p4) /\ Len(a4) = Len(a3) + Len(p4)
  <2>1. IsSeq(w) /\ IsSeq(a3) /\ IsSeq(p4) /\ a4 = a3 \o p4 /\ Stands(w, 1, a4)
    BY <1>3, <1>4, <1>7, <1>14
  <2>. QED  BY <2>1, NextPart
<1>16. /\ Stands(w, 1, a2) /\ Stands(w, 1 + Len(a2), <<s.root_key>>)
       /\ Len(a3) = Len(a2) + 1
  <2>1. PICK p3 : p3 = <<s.root_key>>
    OBVIOUS
  <2>2. /\ IsSeq(w) /\ IsSeq(a2) /\ IsSeq(p3) /\ a3 = a2 \o p3 /\ Stands(w, 1, a3)
    BY <1>4, <1>6, <1>7, <1>15, <2>1
  <2>3. /\ Stands(w, 1, a2) /\ Stands(w, 1 + Len(a2), p3)
        /\ Len(a3) = Len(a2) + Len(p3)
    BY <2>2, NextPart
  <2>4. Len(p3) = 1
    BY <1>6, <2>1
  <2>. QED  BY <2>1, <2>3, <2>4
<1>17. Stands(w, 1, a1) /\ Stands(w, 1 + Len(a1), p2) /\ Len(a2) = Len(a1) + Len(p2)
  <2>1. IsSeq(w) /\ IsSeq(a1) /\ IsSeq(p2) /\ a2 = a1 \o p2 /\ Stands(w, 1, a2)
    BY <1>3, <1>4, <1>6, <1>7, <1>16
  <2>. QED  BY <2>1, NextPart
<1>18. /\ Len(a1) \in Nat /\ Len(a2) \in Nat /\ Len(a3) \in Nat /\ Len(a4) \in Nat
       /\ Len(a5) \in Nat /\ Len(a6) \in Nat /\ Len(a7) \in Nat /\ Len(a8) \in Nat
       /\ Len(p2) \in Nat /\ Len(p4) \in Nat /\ Len(p5) \in Nat /\ Len(p6) \in Nat
       /\ Len(p7) \in Nat /\ Len(p8) \in Nat /\ Len(p9) \in Nat
  BY <1>3, <1>6, <1>7 DEF IsSeq
(* What each read gives.                                                    *)
<1>19. w[1] = s.dh_self
  BY <1>4, <1>7, <1>17, StandsOne
<1>20. ReadOptional(w, 2, NoKey) = [value |-> s.dh_remote, next |-> 1 + Len(a2)]
  <2>1. Stands(w, 2, p2) /\ 2 + Len(p2) = 1 + Len(a2)
    BY <1>6, <1>17, <1>18
  <2>. QED  BY <1>1, <1>7, <2>1, OptionalRead
<1>21. w[1 + Len(a2)] = s.root_key
  BY <1>7, <1>16, StandsOne
<1>22. ReadOptional(w, (1 + Len(a2)) + 1, NoChain) =
          [value |-> s.sending, next |-> 1 + Len(a4)]
  <2>1. Stands(w, (1 + Len(a2)) + 1, p4) /\ ((1 + Len(a2)) + 1) + Len(p4) = 1 + Len(a4)
    <3>1. /\ 1 + Len(a3) = (1 + Len(a2)) + 1
          /\ ((1 + Len(a2)) + 1) + Len(p4) = 1 + Len(a4)
      BY <1>15, <1>16, <1>18
    <3>. QED  BY <1>15, <3>1
  <2>. QED  BY <1>1, <1>7, <2>1, OptionalRead
<1>23. ReadOptional(w, 1 + Len(a4), NoChain) =
          [value |-> s.receiving, next |-> 1 + Len(a5)]
  <2>1. (1 + Len(a4)) + Len(p5) = 1 + Len(a5)
    BY <1>14, <1>18
  <2>. QED  BY <1>1, <1>7, <1>14, <2>1, OptionalRead
<1>24. ReadVarint(w, 1 + Len(a5)) = [value |-> s.send_count, next |-> 1 + Len(a6)]
  <2>1. (1 + Len(a5)) + Len(p6) = 1 + Len(a6)
    BY <1>13, <1>18
  <2>. QED  BY <1>1, <1>7, <1>13, <2>1, VarintRead DEF IsSession
<1>25. ReadVarint(w, 1 + Len(a6)) = [value |-> s.recv_count, next |-> 1 + Len(a7)]
  <2>1. (1 + Len(a6)) + Len(p7) = 1 + Len(a7)
    BY <1>12, <1>18
  <2>. QED  BY <1>1, <1>7, <1>12, <2>1, VarintRead DEF IsSession
<1>26. ReadVarint(w, 1 + Len(a7)) = [value |-> s.previous, next |-> 1 + Len(a8)]
  <2>1. (1 + Len(a7)) + Len(p8) = 1 + Len(a8)
    BY <1>11, <1>18
  <2>. QED  BY <1>1, <1>7, <1>11, <2>1, VarintRead DEF IsSession
<1>27. ReadVarint(w, 1 + Len(a8)) =
          [value |-> Cardinality(s.skipped), next |-> 1 + Len(a9)]
  <2>1. (1 + Len(a8)) + Len(p9) = 1 + Len(a9)
    BY <1>10, <1>18
  <2>. QED  BY <1>1, <1>2, <1>7, <1>10, <2>1, VarintRead
<1>28. ReadEntries(w, 1 + Len(a9), Cardinality(s.skipped)) = s.skipped
  BY <1>1, <1>7, <1>9, EntriesRead DEF IsSession
<1>29. FromBytes(w) =
          [dh_self |-> s.dh_self, dh_remote |-> s.dh_remote, root_key |-> s.root_key,
           sending |-> s.sending, receiving |-> s.receiving,
           send_count |-> s.send_count, recv_count |-> s.recv_count,
           previous |-> s.previous, skipped |-> s.skipped]
  <2>1. PICK r2 : r2 = ReadOptional(w, 2, NoKey)
    OBVIOUS
  <2>2. r2 = [value |-> s.dh_remote, next |-> 1 + Len(a2)]
    BY <1>20, <2>1
  <2>3. r2.value = s.dh_remote /\ r2.next = 1 + Len(a2)
    BY <2>2
  <2>4. PICK r4 : r4 = ReadOptional(w, r2.next + 1, NoChain)
    OBVIOUS
  <2>5. r4 = [value |-> s.sending, next |-> 1 + Len(a4)]
    BY <1>22, <2>4, <2>3
  <2>6. r4.value = s.sending /\ r4.next = 1 + Len(a4)
    BY <2>5
  <2>7. PICK r5 : r5 = ReadOptional(w, r4.next, NoChain)
    OBVIOUS
  <2>8. r5 = [value |-> s.receiving, next |-> 1 + Len(a5)]
    BY <1>23, <2>7, <2>6
  <2>9. r5.value = s.receiving /\ r5.next = 1 + Len(a5)
    BY <2>8
  <2>10. PICK r6 : r6 = ReadVarint(w, r5.next)
    OBVIOUS
  <2>11. r6 = [value |-> s.send_count, next |-> 1 + Len(a6)]
    BY <1>24, <2>10, <2>9
  <2>12. r6.value = s.send_count /\ r6.next = 1 + Len(a6)
    BY <2>11
  <2>13. PICK r7 : r7 = ReadVarint(w, r6.next)
    OBVIOUS
  <2>14. r7 = [value |-> s.recv_count, next |-> 1 + Len(a7)]
    BY <1>25, <2>13, <2>12
  <2>15. r7.value = s.recv_count /\ r7.next = 1 + Len(a7)
    BY <2>14
  <2>16. PICK r8 : r8 = ReadVarint(w, r7.next)
    OBVIOUS
  <2>17. r8 = [value |-> s.previous, next |-> 1 + Len(a8)]
    BY <1>26, <2>16, <2>15
  <2>18. r8.value = s.previous /\ r8.next = 1 + Len(a8)
    BY <2>17
  <2>19. PICK r9 : r9 = ReadVarint(w, r8.next)
    OBVIOUS
  <2>20. r9 = [value |-> Cardinality(s.skipped), next |-> 1 + Len(a9)]
    BY <1>27, <2>19, <2>18
  <2>21. r9.value = Cardinality(s.skipped) /\ r9.next = 1 + Len(a9)
    BY <2>20
  <2>22. FromBytes(w) =
          [dh_self |-> w[1], dh_remote |-> r2.value, root_key |-> w[r2.next],
           sending |-> r4.value, receiving |-> r5.value,
           send_count |-> r6.value, recv_count |-> r7.value,
           previous |-> r8.value, skipped |-> ReadEntries(w, r9.next, r9.value)]
    BY <2>1, <2>4, <2>7, <2>10, <2>13, <2>16, <2>19 DEF FromBytes
  <2>23. /\ w[r2.next] = s.root_key
         /\ ReadEntries(w, r9.next, r9.value) = s.skipped
    BY <1>21, <1>28, <2>3, <2>21
  <2>. QED
    BY <1>19, <2>3, <2>6, <2>9, <2>12, <2>15, <2>18, <2>21, <2>22, <2>23
<1>. QED  BY <1>5, <1>29 DEF IsSession

(* An envelope is read as it was written (header.rs, envelope.rs).          *)
THEOREM EnvelopeSurvives ==
    ASSUME NEW h, IsHeader(h), NEW c
    PROVE  DecodeEnvelope(EncodeEnvelope(h, c)) = [header |-> h, ciphertext |-> c]
<1>1. PICK p2, p3 : p2 = Varint[h.previous] /\ p3 = Varint[h.number]
  OBVIOUS
<1>2. IsSeq(p2) /\ IsSeq(p3) /\ Len(p2) \in Nat /\ Len(p3) \in Nat
  BY <1>1, VarintSeq DEF IsHeader
<1>3. PICK a1, a2, a3, w :
          a1 = <<h.dh>> /\ a2 = a1 \o p2 /\ a3 = a2 \o p3 /\ w = a3 \o <<c>>
  OBVIOUS
<1>4. IsSeq(a1) /\ Len(a1) = 1 /\ IsSeq(<<c>>)
  BY <1>3, ShortSeqs
<1>5. IsSeq(a2) /\ IsSeq(a3) /\ IsSeq(w)
  BY <1>2, <1>3, <1>4, ConcatSeq
<1>6. EncodeEnvelope(h, c) = w
  <2>1. EncodeHeader(h) = a3
    BY <1>1, <1>3 DEF EncodeHeader
  <2>2. Append(a3, c) = a3 \o <<c>>
    <3> DEFINE S == Items(a3) \cup {c}
    <3>1. a3 \in Seq(S) /\ c \in S
      <4>1. a3 \in Seq(Items(a3)) /\ Items(a3) \subseteq S /\ c \in S
        BY <1>5 DEF IsSeq
      <4> HIDE DEF S
      <4>. QED  BY <4>1
    <3> HIDE DEF S
    <3>. QED  BY <3>1
  <2>. QED  BY <1>3, <2>1, <2>2 DEF EncodeEnvelope
<1>7. Stands(w, 1, w)
  <2>1. Len(w) \in Nat
    BY <1>5 DEF IsSeq
  <2>. QED  BY <2>1 DEF Stands
<1>8. Stands(w, 1, a3) /\ Stands(w, 1 + Len(a3), <<c>>)
  BY <1>3, <1>4, <1>5, <1>7, NextPart
<1>9. Stands(w, 1, a2) /\ Stands(w, 1 + Len(a2), p3) /\ Len(a3) = Len(a2) + Len(p3)
  BY <1>2, <1>3, <1>5, <1>8, NextPart
<1>10. Stands(w, 1, a1) /\ Stands(w, 1 + Len(a1), p2) /\ Len(a2) = Len(a1) + Len(p2)
  <2>1. IsSeq(w) /\ IsSeq(a1) /\ IsSeq(p2) /\ a2 = a1 \o p2 /\ Stands(w, 1, a2)
    BY <1>2, <1>3, <1>4, <1>5, <1>9
  <2>. QED  BY <2>1, NextPart
<1>11. w[1] = h.dh
  BY <1>3, <1>5, <1>10, StandsOne
<1>12. ReadVarint(w, 2) = [value |-> h.previous, next |-> 1 + Len(a2)]
  <2>1. Stands(w, 2, p2) /\ 2 + Len(p2) = 1 + Len(a2)
    BY <1>2, <1>4, <1>10
  <2>. QED  BY <1>1, <1>5, <2>1, VarintRead DEF IsHeader
<1>13. ReadVarint(w, 1 + Len(a2)) = [value |-> h.number, next |-> 1 + Len(a3)]
  <2>1. Len(a2) \in Nat
    BY <1>5 DEF IsSeq
  <2>2. (1 + Len(a2)) + Len(p3) = 1 + Len(a3)
    BY <1>2, <1>9, <2>1
  <2>. QED  BY <1>1, <1>5, <1>9, <2>2, VarintRead DEF IsHeader
<1>14. w[1 + Len(a3)] = c
  BY <1>5, <1>8, StandsOne
<1>15. DecodeHeader(w) =
          [header |-> [dh |-> h.dh, previous |-> h.previous, number |-> h.number],
           next |-> 1 + Len(a3)]
  BY <1>11, <1>12, <1>13 DEF DecodeHeader
<1>. QED  BY <1>6, <1>14, <1>15 DEF DecodeEnvelope, IsHeader

-----------------------------------------------------------------------------
(* The order of keys *)

(* A key that a chain has left behind: of a shorter root, or an earlier     *)
(* step of the same chain.                                                  *)
Before(key, chain) ==
    /\ Len(key.root) \in Nat /\ key.step \in Nat
    /\ \/ Len(key.root) < Len(chain.root)
       \/ key.root = chain.root /\ key.step < chain.step

IsChain(chain) ==
    /\ chain = [root |-> chain.root, step |-> chain.step]
    /\ Len(chain.root) \in Nat /\ chain.step \in Nat

(* What every session satisfies: its chains belong to its root key, and the *)
(* skipped keys lie behind the receiving chain, each under one header.      *)
Sound(s) ==
    /\ IsSession(s)
    /\ IsSeq(s.root_key)
    /\ IsChain(s.sending) /\ s.sending.root = s.root_key
    /\ IsChain(s.receiving) /\ Len(s.receiving.root) <= Len(s.root_key)
    /\ \A k \in s.skipped : Before(k.key, s.receiving)
    /\ \A k, l \in s.skipped : k.key = l.key => k.dh = l.dh /\ k.number = l.number

(* From s to t no key comes back: what lies behind s lies behind t, and no  *)
(* such key is among the skipped ones if it was not there before.           *)
Advances(s, t) ==
    \A key : Before(key, s.receiving) =>
        /\ Before(key, t.receiving)
        /\ \A k \in t.skipped : k.key = key => k \in s.skipped

(* What becomes of the sending side.                                        *)
Sends(s, t) ==
    \/ t.root_key = s.root_key /\ t.sending = s.sending
    \/ Len(t.root_key) = Len(s.root_key) + 2

LEMMA BeforeIsStrict ==
    ASSUME NEW chain, IsChain(chain)
    PROVE  ~ Before(chain, chain)
  BY DEF IsChain, Before

LEMMA AdvancesTransitive ==
    ASSUME NEW s, NEW t, NEW u, Advances(s, t), Advances(t, u)
    PROVE  Advances(s, u)
  BY DEF Advances

(* One more output mixed into a root key.                                   *)
LEMMA AppendSeq ==
    ASSUME NEW root, IsSeq(root), NEW x
    PROVE  /\ IsSeq(Append(root, x))
           /\ Len(Append(root, x)) = Len(root) + 1 /\ Len(root) \in Nat
<1> DEFINE S == Items(root) \cup {x}
<1>1. root \in Seq(S) /\ x \in S
  <2>1. root \in Seq(Items(root)) /\ Items(root) \subseteq S /\ x \in S
    BY DEF IsSeq
  <2> HIDE DEF S
  <2>. QED  BY <2>1
<1> HIDE DEF S
<1>2. Len(Append(root, x)) = Len(root) + 1 /\ Len(root) \in Nat
  BY <1>1
<1>3. Append(root, x) = root \o <<x>>
  BY <1>1
<1>4. IsSeq(root \o <<x>>)
  BY ShortSeqs, ConcatSeq
<1>. QED  BY <1>2, <1>3, <1>4

-----------------------------------------------------------------------------
(* The fields after an operation *)

(* A session is the record of its fields.                                   *)
IsRecord(s) ==
    s = [dh_self |-> s.dh_self, dh_remote |-> s.dh_remote, root_key |-> s.root_key,
         sending |-> s.sending, receiving |-> s.receiving,
         send_count |-> s.send_count, recv_count |-> s.recv_count,
         previous |-> s.previous, skipped |-> s.skipped]

LEMMA SoundFields ==
    ASSUME NEW s, Sound(s)
    PROVE  /\ IsRecord(s)
           /\ s.send_count \in Nat /\ s.recv_count \in Nat /\ s.previous \in Nat
           /\ IsChain(s.sending) /\ IsChain(s.receiving) /\ s.sending.root = s.root_key
           /\ IsFiniteSet(s.skipped) /\ IsSeq(s.root_key)
  BY DEF Sound, IsSession, IsRecord

(* The session after a message was encrypted.                               *)
LEMMA SendFields ==
    ASSUME NEW s, Sound(s), NEW t, t = AfterSend(s)
    PROVE  /\ IsRecord(t) /\ IsChain(t.sending)
           /\ t.dh_self = s.dh_self /\ t.dh_remote = s.dh_remote
           /\ t.root_key = s.root_key /\ t.receiving = s.receiving
           /\ t.sending.root = s.sending.root /\ t.sending.step = s.sending.step + 1
           /\ t.send_count = s.send_count + 1 /\ t.recv_count = s.recv_count
           /\ t.previous = s.previous /\ t.skipped = s.skipped
<1>1. IsRecord(s)
  BY SoundFields
<1>2. s.sending = [root |-> s.sending.root, step |-> s.sending.step]
  BY SoundFields DEF IsChain
<1>3. t = [dh_self |-> s.dh_self, dh_remote |-> s.dh_remote, root_key |-> s.root_key,
           sending |-> Stepped(s.sending), receiving |-> s.receiving,
           send_count |-> s.send_count + 1, recv_count |-> s.recv_count,
           previous |-> s.previous, skipped |-> s.skipped]
  BY <1>1 DEF AfterSend, IsRecord
<1>4. Stepped(s.sending) = [root |-> s.sending.root, step |-> s.sending.step + 1]
  BY <1>2 DEF Stepped
<1>5. s.sending.step \in Nat /\ Len(s.sending.root) \in Nat
  BY SoundFields DEF IsChain
<1>6. IsRecord(t)
  BY <1>3 DEF IsRecord
<1>. QED  BY <1>3, <1>4, <1>5, <1>6 DEF IsChain

(* The session after a ratchet step: root is what the first output makes of *)
(* the root key.                                                            *)
LEMMA RatchetFields ==
    ASSUME NEW s, Sound(s), NEW p, NEW remote, NEW t, t = DHRatchetStep(p, s, remote),
           NEW root, root = Derive(s.root_key, s.dh_self, remote)
    PROVE  /\ IsRecord(t) /\ IsChain(t.sending) /\ IsChain(t.receiving)
           /\ IsSeq(root) /\ Len(root) = Len(s.root_key) + 1
           /\ IsSeq(t.root_key) /\ Len(t.root_key) = Len(s.root_key) + 2
           /\ t.dh_self = Key(p, s.dh_self.n + 1) /\ t.dh_remote = remote
           /\ t.root_key = Derive(root, t.dh_self, remote)
           /\ t.sending.root = t.root_key /\ t.sending.step = 0
           /\ t.receiving.root = root /\ t.receiving.step = 0
           /\ t.send_count = 0 /\ t.recv_count = 0
           /\ t.previous = s.send_count /\ t.skipped = s.skipped
           /\ root # << >> /\ t.root_key # << >>
<1>1. PICK fresh, next : fresh = Key(p, s.dh_self.n + 1) /\ next = Derive(root, fresh, remote)
  OBVIOUS
<1>2. t = [s EXCEPT !.previous = s.send_count, !.send_count = 0, !.recv_count = 0,
                    !.dh_remote = remote, !.receiving = Chain(root), !.dh_self = fresh,
                    !.root_key = next, !.sending = Chain(next)]
  BY <1>1 DEF DHRatchetStep
<1>3. IsRecord(s)
  BY SoundFields
<1>4. t = [dh_self |-> fresh, dh_remote |-> remote, root_key |-> next,
           sending |-> Chain(next), receiving |-> Chain(root),
           send_count |-> 0, recv_count |-> 0,
           previous |-> s.send_count, skipped |-> s.skipped]
  BY <1>2, <1>3 DEF IsRecord
<1>5. /\ Chain(next).root = next /\ Chain(next).step = 0
      /\ Chain(root).root = root /\ Chain(root).step = 0
  BY DEF Chain
<1>6. /\ IsSeq(root) /\ Len(root) = Len(s.root_key) + 1 /\ Len(s.root_key) \in Nat
      /\ IsSeq(next) /\ Len(next) = Len(root) + 1
  <2>1. root = Append(s.root_key, {s.dh_self, remote}) /\ next = Append(root, {fresh, remote})
    BY <1>1 DEF Derive
  <2>2. IsSeq(s.root_key)
    BY SoundFields
  <2>3. IsSeq(root) /\ Len(root) = Len(s.root_key) + 1 /\ Len(s.root_key) \in Nat
    BY <2>1, <2>2, AppendSeq
  <2>. QED  BY <2>1, <2>3, AppendSeq
<1>7. root # << >> /\ next # << >>
  <2>1. Len(<< >>) = 0
    OBVIOUS
  <2>. QED  BY <1>6, <2>1
<1>8. IsChain(Chain(root)) /\ IsChain(Chain(next))
  BY <1>6 DEF IsChain, Chain
<1>9. IsRecord(t)
  BY <1>4 DEF IsRecord
<1>. QED  BY <1>1, <1>4, <1>5, <1>6, <1>7, <1>8, <1>9

(* From s to t a chain was followed for gap steps: one key is kept for each *)
(* number between.                                                          *)
Skipping(s, t, gap) ==
    /\ IsRecord(t) /\ IsChain(t.receiving) /\ gap \in Nat
    /\ t.dh_self = s.dh_self /\ t.dh_remote = s.dh_remote
    /\ t.root_key = s.root_key /\ t.sending = s.sending
    /\ t.send_count = s.send_count /\ t.previous = s.previous
    /\ t.receiving.root = s.receiving.root
    /\ t.receiving.step = s.receiving.step + gap
    /\ t.recv_count = s.recv_count + gap
    /\ s.skipped \subseteq t.skipped
    /\ \A k \in t.skipped \ s.skipped :
         /\ IsEntry(k) /\ IsChain(k.key)
         /\ k.dh = s.dh_remote /\ k.key.root = s.receiving.root
         /\ k.number \in Nat
         /\ s.recv_count <= k.number /\ k.number < s.recv_count + gap
         /\ k.key.step = s.receiving.step + (k.number - s.recv_count)
    /\ \A n \in Nat : s.recv_count <= n /\ n < s.recv_count + gap =>
         \E k \in t.skipped :
           /\ k.dh = s.dh_remote /\ k.number = n /\ IsChain(k.key)
           /\ k.key.root = s.receiving.root
           /\ k.key.step = s.receiving.step + (n - s.recv_count)
    /\ IsFiniteSet(t.skipped)
    /\ Cardinality(s.skipped) \in Nat /\ Cardinality(t.skipped) \in Nat
    /\ Cardinality(t.skipped) <= Cardinality(s.skipped) + gap

(* skip_message_keys follows the receiving chain for as many steps as there *)
(* are numbers to skip.                                                     *)
LEMMA SkipFields ==
    ASSUME NEW s, Sound(s), NEW until \in Nat, NEW t, t = Skip(s, until),
           NEW gap, gap = Gap(s, until)
    PROVE  Skipping(s, t, gap)
<1>1. /\ IsRecord(s)
      /\ s.recv_count \in Nat /\ IsFiniteSet(s.skipped)
  BY SoundFields
<1>2. /\ s.receiving = [root |-> s.receiving.root, step |-> s.receiving.step]
      /\ Len(s.receiving.root) \in Nat /\ s.receiving.step \in Nat
  BY SoundFields DEF IsChain
<1>3. gap \in Nat
  BY <1>1 DEF Gap
<1>4. PICK key : key = [i \in 0..(gap - 1) |-> [s.receiving EXCEPT !.step = @ + i]]
  OBVIOUS
<1>5. PICK f : f = [i \in 0..(gap - 1) |->
                      [dh |-> s.dh_remote, number |-> s.recv_count + i, key |-> key[i]]]
  OBVIOUS
<1>6. PICK new : new = {f[i] : i \in 0..(gap - 1)}
  OBVIOUS
<1>7. new = {[dh |-> s.dh_remote, number |-> s.recv_count + i,
              key |-> [s.receiving EXCEPT !.step = @ + i]] : i \in 0..(gap - 1)}
  BY <1>4, <1>5, <1>6
<1>8. t = [s EXCEPT !.skipped = @ \cup new, !.receiving.step = @ + gap,
                    !.recv_count = @ + gap]
  BY <1>7 DEF Skip
<1>9. t = [dh_self |-> s.dh_self, dh_remote |-> s.dh_remote,
           root_key |-> s.root_key, sending |-> s.sending,
           receiving |-> [s.receiving EXCEPT !.step = @ + gap],
           send_count |-> s.send_count, recv_count |-> s.recv_count + gap,
           previous |-> s.previous, skipped |-> s.skipped \cup new]
  BY <1>1, <1>8 DEF IsRecord
<1>10. [s.receiving EXCEPT !.step = @ + gap]
         = [root |-> s.receiving.root, step |-> s.receiving.step + gap]
  BY <1>2
<1>11. ASSUME NEW i \in 0..(gap - 1)
       PROVE  /\ IsEntry(f[i]) /\ f[i].dh = s.dh_remote /\ f[i].number = s.recv_count + i
              /\ IsChain(f[i].key) /\ f[i].key.root = s.receiving.root
              /\ f[i].key.step = s.receiving.step + i
  <2>1. i \in Nat
    BY <1>3
  <2>2. key[i] = [root |-> s.receiving.root, step |-> s.receiving.step + i]
    BY <1>2, <1>4
  <2>3. IsChain(key[i]) /\ key[i].root = s.receiving.root
        /\ key[i].step = s.receiving.step + i
    BY <1>2, <2>1, <2>2 DEF IsChain
  <2>4. f[i] = [dh |-> s.dh_remote, number |-> s.recv_count + i, key |-> key[i]]
    BY <1>5
  <2>5. IsEntry(f[i])
    BY <1>1, <2>1, <2>4 DEF IsEntry
  <2>. QED  BY <2>3, <2>4, <2>5
<1>12. ASSUME NEW k \in new
       PROVE  /\ IsEntry(k) /\ IsChain(k.key)
              /\ k.dh = s.dh_remote /\ k.key.root = s.receiving.root
              /\ k.number \in Nat
         /\ s.recv_count <= k.number /\ k.number < s.recv_count + gap
              /\ k.key.step = s.receiving.step + (k.number - s.recv_count)
  <2>1. PICK i \in 0..(gap - 1) : k = f[i]
    BY <1>6
  <2>2. /\ IsEntry(k) /\ k.dh = s.dh_remote /\ k.number = s.recv_count + i
        /\ IsChain(k.key) /\ k.key.root = s.receiving.root
        /\ k.key.step = s.receiving.step + i
    BY <1>11, <2>1
  <2>3. i \in Nat /\ i < gap
    BY <1>3
  <2>. QED  BY <1>1, <1>2, <1>3, <2>2, <2>3
<1>13. ASSUME NEW n \in Nat, s.recv_count <= n, n < s.recv_count + gap
       PROVE  \E k \in new :
                /\ k.dh = s.dh_remote /\ k.number = n /\ IsChain(k.key)
                /\ k.key.root = s.receiving.root
                /\ k.key.step = s.receiving.step + (n - s.recv_count)
  <2>1. PICK i : i = n - s.recv_count
    OBVIOUS
  <2>2. i \in 0..(gap - 1) /\ s.recv_count + i = n
    BY <1>1, <1>3, <1>13, <2>1
  <2>3. f[i] \in new
    BY <1>6, <2>2
  <2>4. /\ f[i].dh = s.dh_remote /\ f[i].number = s.recv_count + i
        /\ IsChain(f[i].key) /\ f[i].key.root = s.receiving.root
        /\ f[i].key.step = s.receiving.step + i
    BY <1>11, <2>2
  <2>. QED  BY <2>1, <2>2, <2>3, <2>4
<1>14. /\ IsFiniteSet(s.skipped \cup new)
       /\ Cardinality(s.skipped) \in Nat /\ Cardinality(s.skipped \cup new) \in Nat
       /\ Cardinality(s.skipped \cup new) <= Cardinality(s.skipped) + gap
  <2>1. PICK D : D = 0..(gap - 1)
    OBVIOUS
  <2>2. IsFiniteSet(D) /\ Cardinality(D) = gap
    BY <1>3, <2>1, FS_Interval
  <2>3. f \in Surjection(D, new)
    BY <1>5, <1>6, <2>1 DEF Surjection
  <2>4. IsFiniteSet(new) /\ Cardinality(new) <= gap
    BY <2>2, <2>3, FS_Surjection
  <2>5. IsFiniteSet(s.skipped \cap new)
    BY <1>1, FS_Intersection
  <2>6. /\ IsFiniteSet(s.skipped \cup new)
        /\ Cardinality(s.skipped \cup new)
             = Cardinality(s.skipped) + Cardinality(new) - Cardinality(s.skipped \cap new)
    BY <1>1, <2>4, FS_Union
  <2>7. /\ Cardinality(s.skipped) \in Nat /\ Cardinality(new) \in Nat
        /\ Cardinality(s.skipped \cap new) \in Nat /\ Cardinality(s.skipped \cup new) \in Nat
    BY <1>1, <2>4, <2>5, <2>6, FS_CardinalityType
  <2>. QED  BY <1>3, <2>4, <2>6, <2>7
<1>15. /\ t.dh_self = s.dh_self /\ t.dh_remote = s.dh_remote
       /\ t.root_key = s.root_key /\ t.sending = s.sending
       /\ t.send_count = s.send_count /\ t.previous = s.previous
       /\ t.receiving.root = s.receiving.root
       /\ t.receiving.step = s.receiving.step + gap
       /\ t.recv_count = s.recv_count + gap
       /\ t.skipped = s.skipped \cup new
  BY <1>9, <1>10
<1>16. IsRecord(t) /\ IsChain(t.receiving)
  <2>1. IsRecord(t)
    BY <1>9 DEF IsRecord
  <2>2. t.receiving = [root |-> s.receiving.root, step |-> s.receiving.step + gap]
    BY <1>9, <1>10
  <2>. QED  BY <1>2, <1>3, <2>1, <2>2 DEF IsChain
<1>. QED  BY <1>3, <1>12, <1>13, <1>14, <1>15, <1>16 DEF Skipping

(* The session after a message whose key was not a skipped one.             *)
LEMMA WorkingFields ==
    ASSUME NEW s, NEW p, NEW h, Stored(s, h) = {}, NEW u, Sound(u),
           u = Skip(OnChainOf(p, s, h), h.number), NEW w, w = Working(p, s, h)
    PROVE  /\ IsRecord(w) /\ IsChain(w.receiving)
           /\ w.dh_self = u.dh_self /\ w.dh_remote = u.dh_remote
           /\ w.root_key = u.root_key /\ w.sending = u.sending
           /\ w.send_count = u.send_count /\ w.previous = u.previous
           /\ w.receiving.root = u.receiving.root
           /\ w.receiving.step = u.receiving.step + 1
           /\ w.recv_count = u.recv_count + 1 /\ w.skipped = u.skipped
<1>1. w = [u EXCEPT !.receiving = Stepped(@), !.recv_count = @ + 1]
  BY DEF Working
<1>2. IsRecord(u)
  BY SoundFields
<1>3. u.receiving = [root |-> u.receiving.root, step |-> u.receiving.step]
  BY SoundFields DEF IsChain
<1>4. w = [dh_self |-> u.dh_self, dh_remote |-> u.dh_remote, root_key |-> u.root_key,
           sending |-> u.sending, receiving |-> Stepped(u.receiving),
           send_count |-> u.send_count, recv_count |-> u.recv_count + 1,
           previous |-> u.previous, skipped |-> u.skipped]
  BY <1>1, <1>2 DEF IsRecord
<1>5. Stepped(u.receiving) = [root |-> u.receiving.root, step |-> u.receiving.step + 1]
  BY <1>3 DEF Stepped
<1>6. u.receiving.step \in Nat /\ Len(u.receiving.root) \in Nat
  BY SoundFields DEF IsChain
<1>7. IsRecord(w)
  BY <1>4 DEF IsRecord
<1>. QED  BY <1>4, <1>5, <1>6, <1>7 DEF IsChain

(* The session after a message whose key was a skipped one.                 *)
LEMMA StoredFields ==
    ASSUME NEW s, Sound(s), NEW p, NEW h, Stored(s, h) # {}, NEW w, w = Working(p, s, h)
    PROVE  /\ IsRecord(w)
           /\ w.dh_self = s.dh_self /\ w.dh_remote = s.dh_remote
           /\ w.root_key = s.root_key /\ w.sending = s.sending
           /\ w.send_count = s.send_count /\ w.previous = s.previous
           /\ w.receiving = s.receiving /\ w.recv_count = s.recv_count
           /\ w.skipped = s.skipped \ Stored(s, h)
<1>1. w = [s EXCEPT !.skipped = @ \ Stored(s, h)]
  BY DEF Working
<1>2. IsRecord(s)
  BY SoundFields
<1>. QED  BY <1>1, <1>2 DEF IsRecord

(* Chain keys of one root at one step are the same key.                     *)
LEMMA SameKey ==
    ASSUME NEW a, NEW b, IsChain(a), IsChain(b), a.root = b.root, a.step = b.step
    PROVE  a = b
  BY DEF IsChain

-----------------------------------------------------------------------------
(* What the operations do to a session *)

(* Encrypting steps the sending chain and nothing else.                     *)
LEMMA SendFacts ==
    ASSUME NEW s, Sound(s)
    PROVE  /\ Sound(AfterSend(s))
           /\ AfterSend(s).root_key = s.root_key
           /\ AfterSend(s).receiving = s.receiving /\ AfterSend(s).skipped = s.skipped
           /\ Before(s.sending, AfterSend(s).sending)
           /\ \A key : Before(key, s.sending) => Before(key, AfterSend(s).sending)
<1>1. PICK t : t = AfterSend(s)
  OBVIOUS
<1>2. /\ IsRecord(t) /\ IsChain(t.sending)
      /\ t.root_key = s.root_key /\ t.receiving = s.receiving
      /\ t.sending.root = s.sending.root /\ t.sending.step = s.sending.step + 1
      /\ t.send_count = s.send_count + 1 /\ t.recv_count = s.recv_count
      /\ t.previous = s.previous /\ t.skipped = s.skipped
  BY <1>1, SendFields
<1>3. Sound(t)
  BY <1>2 DEF Sound, IsSession, IsRecord
<1>4. Before(s.sending, t.sending)
      /\ \A key : Before(key, s.sending) => Before(key, t.sending)
  BY <1>2 DEF Sound, IsChain, Before
<1>. QED  BY <1>1, <1>2, <1>3, <1>4

(* Skipping ahead on the receiving chain.                                   *)
LEMMA SkipFacts ==
    ASSUME NEW s, Sound(s), NEW until \in Nat
    PROVE  /\ Sound(Skip(s, until)) /\ Advances(s, Skip(s, until))
           /\ Skip(s, until).root_key = s.root_key
           /\ Skip(s, until).sending = s.sending
<1>1. PICK t, gap : t = Skip(s, until) /\ gap = Gap(s, until)
  OBVIOUS
<1>2. Skipping(s, t, gap)
  BY <1>1, SkipFields
<1>3. /\ IsRecord(t) /\ IsChain(t.receiving) /\ gap \in Nat
      /\ t.root_key = s.root_key /\ t.sending = s.sending
      /\ t.send_count = s.send_count /\ t.previous = s.previous
      /\ t.receiving.root = s.receiving.root
      /\ t.receiving.step = s.receiving.step + gap
      /\ t.recv_count = s.recv_count + gap
      /\ IsFiniteSet(t.skipped)
  BY <1>2 DEF Skipping
<1>4. /\ Len(s.receiving.root) \in Nat /\ s.receiving.step \in Nat
      /\ s.recv_count \in Nat
  BY SoundFields DEF IsChain
<1>5. PICK new : new = t.skipped \ s.skipped
  OBVIOUS
<1>6. \A k \in new :
        /\ IsEntry(k) /\ IsChain(k.key)
        /\ k.dh = s.dh_remote /\ k.key.root = s.receiving.root
        /\ k.number \in Nat
        /\ s.recv_count <= k.number /\ k.number < s.recv_count + gap
        /\ k.key.step = s.receiving.step + (k.number - s.recv_count)
  BY <1>2, <1>5 DEF Skipping
<1>7. IsSession(t)
  <2>1. t.send_count \in Nat /\ t.recv_count \in Nat /\ t.previous \in Nat
    BY <1>3, <1>4 DEF Sound, IsSession
  <2>2. \A k \in t.skipped : IsEntry(k)
    BY <1>5, <1>6 DEF Sound, IsSession
  <2>. QED  BY <1>3, <2>1, <2>2 DEF IsSession, IsRecord
(* The new keys lie between the chain as it was and as it is.               *)
<1>8. \A k \in new : Before(k.key, t.receiving) /\ ~ Before(k.key, s.receiving)
  <2> SUFFICES ASSUME NEW k \in new
               PROVE  Before(k.key, t.receiving) /\ ~ Before(k.key, s.receiving)
    OBVIOUS
  <2>1. /\ k.key.root = s.receiving.root /\ k.number \in Nat
        /\ s.recv_count <= k.number /\ k.number < s.recv_count + gap
        /\ k.key.step = s.receiving.step + (k.number - s.recv_count)
    BY <1>6
  <2>2. /\ k.key.step \in Nat /\ s.receiving.step <= k.key.step
        /\ k.key.step < s.receiving.step + gap
    <3>1. PICK i : i = k.number - s.recv_count
      OBVIOUS
    <3>2. i \in Nat /\ i < gap /\ k.key.step = s.receiving.step + i
      BY <1>3, <1>4, <2>1, <3>1
    <3>. QED  BY <1>3, <1>4, <3>2
  <2>. QED  BY <1>3, <1>4, <2>1, <2>2 DEF Before
<1>9. \A k : Before(k, s.receiving) => Before(k, t.receiving)
  BY <1>3, <1>4 DEF Before
<1>10. \A k \in t.skipped : Before(k.key, t.receiving)
  BY <1>5, <1>8, <1>9 DEF Sound
<1>11. ASSUME NEW k \in t.skipped, NEW l \in t.skipped, k.key = l.key
       PROVE  k.dh = l.dh /\ k.number = l.number
  <2>1. CASE k \in s.skipped /\ l \in s.skipped
    BY <1>11, <2>1 DEF Sound
  <2>2. CASE k \in new /\ l \in new
    BY <1>4, <1>6, <1>11, <2>2
  <2>. QED  BY <1>5, <1>8, <1>11, <2>1, <2>2 DEF Sound
<1>12. Sound(t)
  BY <1>3, <1>7, <1>10, <1>11 DEF Sound
<1>13. Advances(s, t)
  BY <1>5, <1>8, <1>9 DEF Advances
<1>. QED  BY <1>1, <1>3, <1>12, <1>13

(* A ratchet step mixes two outputs into the root key: the first names the  *)
(* receiving chain, the second the sending chain.                           *)
LEMMA RatchetFacts ==
    ASSUME NEW s, Sound(s), NEW p, NEW remote
    PROVE  /\ Sound(DHRatchetStep(p, s, remote))
           /\ Advances(s, DHRatchetStep(p, s, remote))
           /\ Len(DHRatchetStep(p, s, remote).root_key) = Len(s.root_key) + 2
<1>1. PICK t, root : /\ t = DHRatchetStep(p, s, remote)
                     /\ root = Derive(s.root_key, s.dh_self, remote)
  OBVIOUS
<1>2. /\ IsRecord(t) /\ IsChain(t.sending) /\ IsChain(t.receiving)
      /\ Len(root) = Len(s.root_key) + 1
      /\ IsSeq(t.root_key) /\ Len(t.root_key) = Len(s.root_key) + 2
      /\ t.sending.root = t.root_key /\ t.receiving.root = root
      /\ t.send_count = 0 /\ t.recv_count = 0
      /\ t.previous = s.send_count /\ t.skipped = s.skipped
  BY <1>1, RatchetFields
<1>3. IsSession(t)
  BY <1>2 DEF Sound, IsSession, IsRecord
<1>4. Len(s.receiving.root) <= Len(s.root_key) /\ Len(s.receiving.root) \in Nat
  BY DEF Sound, IsChain
<1>5. Len(s.root_key) \in Nat
  BY DEF Sound, IsChain
<1>6. \A k : Before(k, s.receiving) => Before(k, t.receiving)
  BY <1>2, <1>4, <1>5 DEF Before
<1>7. Sound(t)
  <2>1. Len(t.receiving.root) <= Len(t.root_key)
    BY <1>2, <1>5
  <2>. QED  BY <1>2, <1>3, <1>6, <2>1 DEF Sound
<1>8. Advances(s, t)
  BY <1>2, <1>6 DEF Advances
<1>. QED  BY <1>1, <1>2, <1>7, <1>8

(* The session a header leads to.                                           *)
LEMMA OnChainFacts ==
    ASSUME NEW s, Sound(s), NEW p, NEW h, IsHeader(h)
    PROVE  /\ Sound(OnChainOf(p, s, h)) /\ Advances(s, OnChainOf(p, s, h))
           /\ Sends(s, OnChainOf(p, s, h))
<1>1. CASE s.dh_remote = h.dh
  <2>1. OnChainOf(p, s, h) = s
    BY <1>1 DEF OnChainOf
  <2>2. Advances(s, s)
    BY DEF Advances
  <2>. QED  BY <2>1, <2>2 DEF Sends
<1>2. CASE s.dh_remote # h.dh
  <2>1. PICK t : t = Skip(s, h.previous)
    OBVIOUS
  <2>2. PICK u : u = DHRatchetStep(p, t, h.dh)
    OBVIOUS
  <2>3. OnChainOf(p, s, h) = u
    BY <1>2, <2>1, <2>2 DEF OnChainOf
  <2>4. Sound(t) /\ Advances(s, t) /\ t.root_key = s.root_key
    BY <2>1, SkipFacts DEF IsHeader
  <2>5. Sound(u) /\ Advances(t, u) /\ Len(u.root_key) = Len(t.root_key) + 2
    BY <2>2, <2>4, RatchetFacts
  <2>6. Advances(s, u)
    BY <2>4, <2>5, AdvancesTransitive
  <2>. QED  BY <2>3, <2>4, <2>5, <2>6 DEF Sends
<1>. QED  BY <1>1, <1>2

(* The state a decryption works out: the key it used lies behind the new    *)
(* session for good, and it did not before, or it was a skipped one.        *)
LEMMA WorkingFacts ==
    ASSUME NEW s, Sound(s), NEW p, NEW h, IsHeader(h)
    PROVE  /\ Sound(Working(p, s, h)) /\ Advances(s, Working(p, s, h))
           /\ Sends(s, Working(p, s, h))
           /\ Before(KeyFor(p, s, h), Working(p, s, h).receiving)
           /\ \A k \in Working(p, s, h).skipped : k.key # KeyFor(p, s, h)
           /\ \/ ~ Before(KeyFor(p, s, h), s.receiving)
              \/ \E k \in s.skipped : k.key = KeyFor(p, s, h)
<1>1. PICK key, w : key = KeyFor(p, s, h) /\ w = Working(p, s, h)
  OBVIOUS
<1>2. CASE Stored(s, h) # {}
  <2>1. PICK k : k = CHOOSE x \in Stored(s, h) : TRUE
    OBVIOUS
  <2>2. k \in Stored(s, h) /\ key = k.key
    BY <1>1, <1>2, <2>1 DEF KeyFor
  <2>3. k \in s.skipped /\ k.dh = h.dh /\ k.number = h.number
    BY <2>2 DEF Stored
  <2>4. /\ IsRecord(w) /\ w.send_count = s.send_count /\ w.recv_count = s.recv_count
        /\ w.previous = s.previous
        /\ w.root_key = s.root_key /\ w.sending = s.sending /\ w.receiving = s.receiving
        /\ w.skipped = s.skipped \ Stored(s, h)
    BY <1>1, <1>2, StoredFields
  <2>5. IsSession(w)
    <3>1. IsFiniteSet(s.skipped \ Stored(s, h))
      BY FS_Difference DEF Sound, IsSession
    <3>. QED  BY <2>4, <3>1 DEF Sound, IsSession, IsRecord
  <2>6. Sound(w)
    BY <2>4, <2>5 DEF Sound
  <2>7. Advances(s, w) /\ Sends(s, w)
    BY <2>4 DEF Advances, Sends
  <2>8. Before(key, w.receiving)
    BY <2>2, <2>3, <2>4 DEF Sound
  <2>9. \A l \in w.skipped : l.key # key
    <3> SUFFICES ASSUME NEW l \in s.skipped, l \notin Stored(s, h), l.key = k.key
                 PROVE  FALSE
      BY <2>2, <2>4
    <3>1. l.dh = k.dh /\ l.number = k.number
      BY <2>3 DEF Sound
    <3>. QED  BY <2>3, <3>1 DEF Stored
  <2>. QED  BY <1>1, <2>2, <2>3, <2>6, <2>7, <2>8, <2>9
<1>3. CASE Stored(s, h) = {}
  <2>1. PICK o : o = OnChainOf(p, s, h)
    OBVIOUS
  <2>2. PICK t : t = Skip(o, h.number)
    OBVIOUS
  <2>3. key = t.receiving
    BY <1>1, <1>3, <2>1, <2>2 DEF KeyFor
  <2>4. Sound(o) /\ Advances(s, o) /\ Sends(s, o)
    BY <2>1, OnChainFacts
  <2>5. /\ Sound(t) /\ Advances(o, t)
        /\ t.root_key = o.root_key /\ t.sending = o.sending
    BY <2>2, <2>4, SkipFacts DEF IsHeader
  <2>6. Advances(s, t) /\ Sends(s, t)
    BY <2>4, <2>5, AdvancesTransitive DEF Sends
  <2>7. /\ IsRecord(w) /\ IsChain(w.receiving)
        /\ w.root_key = t.root_key /\ w.sending = t.sending
        /\ w.send_count = t.send_count /\ w.previous = t.previous
        /\ w.receiving.root = t.receiving.root
        /\ w.receiving.step = t.receiving.step + 1
        /\ w.recv_count = t.recv_count + 1 /\ w.skipped = t.skipped
    BY <1>1, <1>3, <2>1, <2>2, <2>5, WorkingFields
  <2>8. IsChain(t.receiving)
    BY <2>5 DEF Sound
  <2>9. IsSession(w)
    <3>1. t.recv_count + 1 \in Nat
      BY <2>5 DEF Sound, IsSession
    <3>. QED  BY <2>5, <2>7, <3>1 DEF Sound, IsSession, IsRecord
  <2>10. \A k : Before(k, t.receiving) => Before(k, w.receiving)
    BY <2>7, <2>8 DEF IsChain, Before
  <2>11. Sound(w)
    BY <2>5, <2>7, <2>9, <2>10 DEF Sound
  <2>12. Advances(t, w)
    BY <2>7, <2>10 DEF Advances
  <2>13. Advances(s, w) /\ Sends(s, w)
    <3>1. Advances(s, w)
      BY <2>6, <2>12, AdvancesTransitive
    <3>. QED  BY <2>6, <2>7, <3>1 DEF Sends
  <2>14. Before(key, w.receiving) /\ ~ Before(key, t.receiving)
    <3>1. ~ Before(key, t.receiving)
      BY <2>3, <2>8, BeforeIsStrict
    <3>2. Before(key, w.receiving)
      BY <2>3, <2>7, <2>8 DEF IsChain, Before
    <3>. QED  BY <3>1, <3>2
  <2>15. \A k \in w.skipped : k.key # key
    BY <2>5, <2>7, <2>14 DEF Sound
  <2>16. ~ Before(key, s.receiving)
    BY <2>6, <2>14 DEF Advances
  <2>. QED  BY <1>1, <2>11, <2>13, <2>14, <2>15, <2>16
<1>. QED  BY <1>2, <1>3

-----------------------------------------------------------------------------
(* The invariant *)

Parity(p) == IF p = "alice" THEN 1 ELSE 0

(* A party with session s that sent S and received R: its keys are of roots *)
(* of its own parity, what it sent lies behind its sending chain under      *)
(* distinct keys, and what it received lies behind its receiving chain and  *)
(* is not among the skipped keys.                                           *)
PartyInv(p, s, S, R) ==
    /\ Sound(s)
    /\ Len(s.root_key) % 2 = Parity(p)
    /\ \A m \in S : /\ IsHeader(m.header)
                    /\ Before(m.key, s.sending)
                    /\ Len(m.key.root) % 2 = Parity(p)
    /\ \A m, k \in S : m.key = k.key => m = k
    /\ \A m \in R : /\ Before(m.key, s.receiving)
                    /\ \A k \in s.skipped : k.key # m.key

IInv ==
    /\ stored = [p \in Party |-> stored[p]]
    /\ sent = [p \in Party |-> sent[p]]
    /\ received = [p \in Party |-> received[p]]
    /\ \A p \in Party : PartyInv(p, Session(p), sent[p], received[p])

(* The message p encrypts with session s.                                   *)
LEMMA EncryptKeeps ==
    ASSUME NEW p, NEW s, NEW S, NEW R, PartyInv(p, s, S, R), NEW x,
           NEW m, m = [id |-> x, header |-> HeaderOf(s), key |-> s.sending]
    PROVE  PartyInv(p, AfterSend(s), S \cup {m}, R)
<1>1. PICK t : t = AfterSend(s)
  OBVIOUS
<1>2. Sound(s)
  BY DEF PartyInv
<1>3. /\ Sound(t) /\ t.root_key = s.root_key
      /\ t.receiving = s.receiving /\ t.skipped = s.skipped
      /\ Before(s.sending, t.sending)
      /\ \A key : Before(key, s.sending) => Before(key, t.sending)
  BY <1>1, <1>2, SendFacts
<1>4. m.header = HeaderOf(s) /\ m.key = s.sending
  OBVIOUS
<1>5. /\ IsHeader(m.header) /\ Before(m.key, t.sending)
      /\ Len(m.key.root) % 2 = Parity(p)
  <2>1. IsHeader(HeaderOf(s))
    BY <1>2 DEF IsHeader, HeaderOf, Sound, IsSession
  <2>2. s.sending.root = s.root_key
    BY <1>2 DEF Sound
  <2>3. Len(s.root_key) % 2 = Parity(p)
    BY DEF PartyInv
  <2>. QED  BY <1>3, <1>4, <2>1, <2>2, <2>3
<1>6. \A k \in S : k.key # m.key
  <2>1. ~ Before(m.key, s.sending)
    BY <1>2, <1>4, BeforeIsStrict DEF Sound
  <2>. QED  BY <2>1 DEF PartyInv
<1>. QED  BY <1>1, <1>3, <1>5, <1>6 DEF PartyInv

(* The message m that p decrypts with session s, under its own header.      *)
LEMMA DecryptKeeps ==
    ASSUME NEW p, NEW s, NEW S, NEW R, PartyInv(p, s, S, R),
           NEW m, IsHeader(m.header), KeyFor(p, s, m.header) = m.key
    PROVE  PartyInv(p, Working(p, s, m.header), S, R \cup {m}) /\ m \notin R
<1>1. PICK t : t = Working(p, s, m.header)
  OBVIOUS
<1>2. Sound(s)
  BY DEF PartyInv
<1>3. /\ Sound(t) /\ Advances(s, t) /\ Sends(s, t)
      /\ Before(m.key, t.receiving)
      /\ \A k \in t.skipped : k.key # m.key
      /\ ~ Before(m.key, s.receiving) \/ \E k \in s.skipped : k.key = m.key
  BY <1>1, <1>2, WorkingFacts
<1>4. m \notin R
  BY <1>3 DEF PartyInv
<1>5. \A l \in R : Before(l.key, t.receiving) /\ \A k \in t.skipped : k.key # l.key
  BY <1>3 DEF PartyInv, Advances
<1>6. /\ Len(t.root_key) % 2 = Parity(p)
      /\ \A key : Before(key, s.sending) => Before(key, t.sending)
  <2>1. Len(s.root_key) % 2 = Parity(p)
    BY DEF PartyInv
  <2>2. CASE t.root_key = s.root_key /\ t.sending = s.sending
    BY <2>1, <2>2
  <2>3. CASE Len(t.root_key) = Len(s.root_key) + 2
    <3>1. Len(s.root_key) \in Nat
      BY <1>2 DEF Sound, IsChain
    <3>2. s.sending.root = s.root_key /\ t.sending.root = t.root_key
      BY <1>2, <1>3 DEF Sound
    <3>3. Len(t.root_key) % 2 = Len(s.root_key) % 2
      <4>1. \A n \in Nat : (n + 2) % 2 = n % 2
        OBVIOUS
      <4>. QED  BY <2>3, <3>1, <4>1
    <3>4. \A key : Before(key, s.sending) => Before(key, t.sending)
      BY <2>3, <3>1, <3>2 DEF Before
    <3>. QED  BY <2>1, <3>3, <3>4
  <2>. QED  BY <1>3, <2>2, <2>3 DEF Sends
<1>7. \A l \in S : /\ IsHeader(l.header) /\ Before(l.key, t.sending)
                   /\ Len(l.key.root) % 2 = Parity(p)
  BY <1>6 DEF PartyInv
<1>8. \A l, k \in S : l.key = k.key => l = k
  BY DEF PartyInv
<1>9. \A l \in R \cup {m} : Before(l.key, t.receiving) /\ \A k \in t.skipped : k.key # l.key
  BY <1>3, <1>5
<1>10. PartyInv(p, t, S, R \cup {m})
  BY <1>3, <1>6, <1>7, <1>8, <1>9 DEF PartyInv
<1>. QED  BY <1>1, <1>4, <1>10

(* A session that is sound comes out of its bytes as it went in.            *)
LEMMA SoundSurvives ==
    ASSUME NEW s, Sound(s)
    PROVE  FromBytes(ToBytes(s)) = s
  BY SessionSurvives DEF Sound

LEMMA GarbledHeaders ==
    ASSUME NEW g, IsHeader(g), NEW h \in {g} \cup Garbled(g)
    PROVE  IsHeader(h)
<1>1. /\ g = [dh |-> g.dh, previous |-> g.previous, number |-> g.number]
      /\ g.previous \in Nat /\ g.number \in Nat
  BY DEF IsHeader
<1>2. CASE h = [g EXCEPT !.number = @ + 1]
  <2>1. h = [dh |-> g.dh, previous |-> g.previous, number |-> g.number + 1]
    BY <1>1, <1>2
  <2>. QED  BY <1>1, <2>1 DEF IsHeader
<1>3. CASE h = [g EXCEPT !.previous = @ + 1]
  <2>1. h = [dh |-> g.dh, previous |-> g.previous + 1, number |-> g.number]
    BY <1>1, <1>3
  <2>. QED  BY <1>1, <2>1 DEF IsHeader
<1>4. CASE h = [g EXCEPT !.dh = Key("mallory", 1)]
  <2>1. h = [dh |-> Key("mallory", 1), previous |-> g.previous, number |-> g.number]
    BY <1>1, <1>4
  <2>. QED  BY <1>1, <2>1 DEF IsHeader
<1>. QED  BY <1>2, <1>3, <1>4 DEF Garbled

LEMMA Parties == \A p \in Party : Peer(p) \in Party
  BY DEF Party, Peer

-----------------------------------------------------------------------------
(* Steps *)

LEMMA InitInvariant == Init => IInv
<1> SUFFICES ASSUME Init PROVE IInv
  OBVIOUS
<1>1. PICK a, b : a = InitInitiator /\ b = InitResponder
  OBVIOUS
<1>2. PICK root : root = Derive(<< >>, Key("alice", 1), Key("bob", 0))
  OBVIOUS
<1>3. IsSeq(<< >>) /\ Len(<< >>) = 0
  BY ShortSeqs
<1>4. IsSeq(root) /\ Len(root) = 1
  <2>1. PICK e, x : e = << >> /\ x = {Key("alice", 1), Key("bob", 0)}
    OBVIOUS
  <2>2. root = Append(e, x)
    BY <1>2, <2>1 DEF Derive
  <2>3. IsSeq(root) /\ Len(root) = Len(e) + 1 /\ Len(e) = 0
    BY <1>3, <2>1, <2>2, AppendSeq
  <2>. QED  BY <2>3
<1>5. IsChain(Chain(root)) /\ Chain(root).root = root
      /\ IsChain(NoChain) /\ NoChain.root = << >>
  BY <1>3, <1>4 DEF IsChain, Chain, NoChain
<1>6. a = [dh_self |-> Key("alice", 1), dh_remote |-> Key("bob", 0), root_key |-> root,
           sending |-> Chain(root), receiving |-> NoChain,
           send_count |-> 0, recv_count |-> 0, previous |-> 0, skipped |-> {}]
  BY <1>1, <1>2 DEF InitInitiator
<1>7. b = [dh_self |-> Key("bob", 0), dh_remote |-> NoKey, root_key |-> << >>,
           sending |-> NoChain, receiving |-> NoChain,
           send_count |-> 0, recv_count |-> 0, previous |-> 0, skipped |-> {}]
  BY <1>1 DEF InitResponder
<1>8. PartyInv("alice", a, {}, {})
  <2>1. IsSession(a)
    BY <1>6, FS_EmptySet DEF IsSession
  <2>2. Sound(a)
    BY <1>3, <1>4, <1>5, <1>6, <2>1 DEF Sound
  <2>3. Len(a.root_key) % 2 = Parity("alice")
    <3>1. a.root_key = root /\ 1 % 2 = 1
      BY <1>6
    <3>. QED  BY <1>4, <3>1 DEF Parity
  <2>. QED  BY <2>2, <2>3 DEF PartyInv
<1>9. PartyInv("bob", b, {}, {})
  <2>1. IsSession(b)
    BY <1>7, FS_EmptySet DEF IsSession
  <2>2. Sound(b)
    BY <1>3, <1>5, <1>7, <2>1 DEF Sound
  <2>3. Len(b.root_key) % 2 = Parity("bob")
    BY <1>3, <1>7 DEF Parity
  <2>. QED  BY <2>2, <2>3 DEF PartyInv
<1>10. ASSUME NEW p \in Party
       PROVE  PartyInv(p, Session(p), sent[p], received[p])
  <2>1. sent[p] = {} /\ received[p] = {}
    BY DEF Init
  <2>2. stored[p] = ToBytes(IF p = "alice" THEN a ELSE b)
    BY <1>1 DEF Init
  <2>3. CASE p = "alice"
    <3>1. Session(p) = a
      <4>1. Session(p) = FromBytes(ToBytes(a))
        BY <2>2, <2>3 DEF Session
      <4>2. FromBytes(ToBytes(a)) = a
        BY <1>8, SoundSurvives DEF PartyInv
      <4>. QED  BY <4>1, <4>2
    <3>. QED  BY <1>8, <2>1, <2>3, <3>1
  <2>4. CASE p = "bob"
    <3>1. Session(p) = b
      <4>1. Session(p) = FromBytes(ToBytes(b))
        BY <2>2, <2>4 DEF Session
      <4>2. FromBytes(ToBytes(b)) = b
        BY <1>9, SoundSurvives DEF PartyInv
      <4>. QED  BY <4>1, <4>2
    <3>. QED  BY <1>9, <2>1, <2>4, <3>1
  <2>. QED  BY <2>3, <2>4 DEF Party
<1>11. /\ stored = [p \in Party |-> stored[p]] /\ sent = [p \in Party |-> sent[p]]
       /\ received = [p \in Party |-> received[p]]
  BY DEF Init
<1>. QED  BY <1>10, <1>11 DEF IInv

(* A step that leaves the other party alone keeps the invariant if it keeps *)
(* what is said of p.                                                       *)
LEMMA OneParty ==
    ASSUME IInv, NEW p \in Party, NEW t, NEW S, NEW R, PartyInv(p, t, S, R),
           stored' = [stored EXCEPT ![p] = ToBytes(t)],
           sent' = [sent EXCEPT ![p] = S], received' = [received EXCEPT ![p] = R]
    PROVE  IInv'
<1>1. /\ stored = [q \in Party |-> stored[q]] /\ sent = [q \in Party |-> sent[q]]
      /\ received = [q \in Party |-> received[q]]
  BY DEF IInv
<1>2. /\ stored' = [q \in Party |-> stored'[q]] /\ sent' = [q \in Party |-> sent'[q]]
      /\ received' = [q \in Party |-> received'[q]]
  BY <1>1
<1>3. ASSUME NEW q \in Party
      PROVE  PartyInv(q, Session(q)', sent'[q], received'[q])
  <2>1. CASE q = p
    <3>1. stored'[q] = ToBytes(t) /\ sent'[q] = S /\ received'[q] = R
      BY <1>1, <2>1
    <3>2. Session(q)' = FromBytes(ToBytes(t))
      BY <3>1 DEF Session
    <3>3. FromBytes(ToBytes(t)) = t
      BY SoundSurvives DEF PartyInv
    <3>. QED  BY <2>1, <3>1, <3>2, <3>3
  <2>2. CASE q # p
    <3>1. stored'[q] = stored[q] /\ sent'[q] = sent[q] /\ received'[q] = received[q]
      BY <1>1, <2>2
    <3>2. Session(q)' = Session(q)
      BY <3>1 DEF Session
    <3>3. PartyInv(q, Session(q), sent[q], received[q])
      BY DEF IInv
    <3>. QED  BY <3>1, <3>2, <3>3
  <2>. QED  BY <2>1, <2>2
<1>. QED  BY <1>2, <1>3 DEF IInv

LEMMA EncryptStep ==
    ASSUME IInv, NEW p \in Party, Encrypt(p)
    PROVE  IInv'
<1>1. PICK s, S, R : s = Session(p) /\ S = sent[p] /\ R = received[p]
  OBVIOUS
<1>2. PICK m : m = [id |-> Cardinality(S) + 1, header |-> HeaderOf(s), key |-> s.sending]
  OBVIOUS
<1>3. PartyInv(p, s, S, R)
  BY <1>1 DEF IInv
<1>4. PartyInv(p, AfterSend(s), S \cup {m}, R)
  BY <1>2, <1>3, EncryptKeeps
<1>5. sent = [q \in Party |-> sent[q]] /\ received = [q \in Party |-> received[q]]
  BY DEF IInv
<1>6. stored' = [stored EXCEPT ![p] = ToBytes(AfterSend(s))]
  BY <1>1 DEF Encrypt
<1>7. sent' = [sent EXCEPT ![p] = S \cup {m}]
  BY <1>1, <1>2 DEF Encrypt
<1>8. received' = [received EXCEPT ![p] = R]
  BY <1>1, <1>5 DEF Encrypt
<1>. QED  BY <1>4, <1>6, <1>7, <1>8, OneParty

(* What a delivery does, in terms of the message and the header.            *)
LEMMA DeliveryView ==
    ASSUME IInv, NEW p \in Party, NEW m \in sent[Peer(p)],
           NEW h \in {m.header} \cup Garbled(m.header),
           Decrypt(p, EncodeEnvelope(h, Ciphertext(m)))
    PROVE  /\ IsHeader(m.header)
           /\ stored' = [stored EXCEPT ![p] = ToBytes(AfterDecrypt(p, Session(p), m, h))]
           /\ IF Decrypts(p, Session(p), m, h)
              THEN /\ received' = [received EXCEPT ![p] = @ \cup {m}]
                   /\ accepted' = [accepted EXCEPT ![p] = @ + 1]
              ELSE UNCHANGED <<received, accepted>>
           /\ sent' = sent
<1>1. IsHeader(m.header)
  BY Parties DEF IInv, PartyInv
<1>2. IsHeader(h)
  BY <1>1, GarbledHeaders
<1>3. PICK w : w = EncodeEnvelope(h, Ciphertext(m))
  OBVIOUS
<1>4. DecodeEnvelope(w) = [header |-> h, ciphertext |-> Ciphertext(m)]
  BY <1>2, <1>3, EnvelopeSurvives
<1>5. Ciphertext(m).message = m
  BY DEF Ciphertext
<1>6. DecodeEnvelope(w).header = h /\ DecodeEnvelope(w).ciphertext.message = m
  BY <1>4, <1>5
<1>7. Decrypt(p, w)
  BY <1>3
<1>. QED  BY <1>1, <1>6, <1>7 DEF Decrypt

LEMMA DecryptStep ==
    ASSUME IInv, NEW p \in Party, NEW m \in sent[Peer(p)],
           NEW h \in {m.header} \cup Garbled(m.header),
           Decrypt(p, EncodeEnvelope(h, Ciphertext(m)))
    PROVE  IInv' /\ (Decrypts(p, Session(p), m, h) => m \notin received[p])
<1>1. PICK s, S, R : s = Session(p) /\ S = sent[p] /\ R = received[p]
  OBVIOUS
<1>2. PartyInv(p, s, S, R)
  BY <1>1 DEF IInv
<1>3. /\ IsHeader(m.header)
      /\ stored' = [stored EXCEPT ![p] = ToBytes(AfterDecrypt(p, s, m, h))]
      /\ IF Decrypts(p, s, m, h) THEN received' = [received EXCEPT ![p] = @ \cup {m}]
                                 ELSE received' = received
      /\ sent' = sent
  BY <1>1, DeliveryView
<1>4. sent = [q \in Party |-> sent[q]] /\ received = [q \in Party |-> received[q]]
  BY DEF IInv
<1>5. sent' = [sent EXCEPT ![p] = S]
  BY <1>1, <1>3, <1>4
<1>6. CASE Decrypts(p, s, m, h)
  <2>1. h = m.header /\ KeyFor(p, s, m.header) = m.key
    BY <1>6 DEF Decrypts
  <2>2. AfterDecrypt(p, s, m, h) = Working(p, s, m.header)
    BY <1>6, <2>1 DEF AfterDecrypt
  <2>3. PartyInv(p, Working(p, s, m.header), S, R \cup {m}) /\ m \notin R
    BY <1>2, <1>3, <2>1, DecryptKeeps
  <2>4. stored' = [stored EXCEPT ![p] = ToBytes(Working(p, s, m.header))]
    BY <1>3, <2>2
  <2>5. received' = [received EXCEPT ![p] = R \cup {m}]
    BY <1>1, <1>3, <1>6
  <2>6. IInv'
    BY <1>5, <2>3, <2>4, <2>5, OneParty
  <2>. QED  BY <1>1, <2>3, <2>6
<1>7. CASE ~ Decrypts(p, s, m, h)
  <2>1. stored' = [stored EXCEPT ![p] = ToBytes(s)]
    BY <1>3, <1>7 DEF AfterDecrypt
  <2>2. received' = [received EXCEPT ![p] = R]
    BY <1>1, <1>3, <1>4, <1>7
  <2>3. IInv'
    BY <1>2, <1>5, <2>1, <2>2, OneParty
  <2>. QED  BY <1>1, <1>7, <2>3
<1>. QED  BY <1>6, <1>7

LEMMA NextInvariant ==
    ASSUME IInv, [Next]_vars
    PROVE  IInv'
<1>1. ASSUME NEW p \in Party, Encrypt(p)
      PROVE  IInv'
  BY <1>1, EncryptStep
<1>2. ASSUME NEW p \in Party, NEW m \in sent[Peer(p)],
             NEW h \in {m.header} \cup Garbled(m.header),
             Decrypt(p, EncodeEnvelope(h, Ciphertext(m)))
      PROVE  IInv'
  BY <1>2, DecryptStep
<1>3. CASE UNCHANGED vars
  BY <1>3 DEF vars, IInv, Session
<1>. QED  BY <1>1, <1>2, <1>3 DEF Next

THEOREM RatchetInvariant == Spec => []IInv
<1>1. IInv /\ [Next]_vars => IInv'
  BY NextInvariant
<1>. QED  BY InitInvariant, <1>1, PTL DEF Spec

-----------------------------------------------------------------------------
(* The properties *)

(* No two messages are encrypted with the same key (chain.rs:1-4): the two  *)
(* parties mix outputs into the root key in turn, so that their sending     *)
(* chains have roots of different parity, and no chain is stepped twice to  *)
(* the same key.                                                            *)
THEOREM RatchetKeysAreUsedOnce == Spec => []KeysAreUsedOnce
<1>1. IInv => KeysAreUsedOnce
  <2> SUFFICES ASSUME IInv, NEW p \in Party, NEW q \in Party,
                      NEW m \in sent[p], NEW k \in sent[q], m.key = k.key
               PROVE  p = q /\ m = k
    BY DEF KeysAreUsedOnce
  <2>1. Len(m.key.root) % 2 = Parity(p) /\ Len(k.key.root) % 2 = Parity(q)
    BY DEF IInv, PartyInv
  <2>2. Parity(p) = Parity(q)
    BY <2>1
  <2>3. p = q
    BY <2>2 DEF Parity, Party
  <2>. QED  BY <2>3 DEF IInv, PartyInv
<1>. QED  BY RatchetInvariant, <1>1, PTL

(* Forward secrecy (chain.rs:1-4, skipped_keys.rs:47-49): a session gives   *)
(* away no key of a message it has decrypted or encrypted.                  *)
THEOREM RatchetOldKeysAreGone == Spec => []OldKeysAreGone
<1>1. IInv => OldKeysAreGone
  <2> SUFFICES ASSUME IInv, NEW p \in Party
               PROVE  /\ \A m \in received[p] :
                            /\ ~ Yields(Session(p).receiving, m.key)
                            /\ \A k \in Session(p).skipped : k.key # m.key
                      /\ \A m \in sent[p] : ~ Yields(Session(p).sending, m.key)
    BY DEF OldKeysAreGone
  <2>1. PICK s, S, R : s = Session(p) /\ S = sent[p] /\ R = received[p]
    OBVIOUS
  <2>2. PartyInv(p, s, S, R)
    BY <2>1 DEF IInv
  <2>3. ASSUME NEW chain, IsChain(chain), NEW key, Before(key, chain)
        PROVE  ~ Yields(chain, key)
    BY <2>3 DEF IsChain, Before, Yields
  <2>4. IsChain(s.receiving) /\ IsChain(s.sending)
    BY <2>2 DEF PartyInv, Sound
  <2>5. \A m \in R : ~ Yields(s.receiving, m.key) /\ \A k \in s.skipped : k.key # m.key
    BY <2>2, <2>3, <2>4 DEF PartyInv
  <2>6. \A m \in S : ~ Yields(s.sending, m.key)
    BY <2>2, <2>3, <2>4 DEF PartyInv
  <2>. QED  BY <2>1, <2>5, <2>6
<1>. QED  BY RatchetInvariant, <1>1, PTL

(* The session is a channel that accepts what the other party sent, each    *)
(* message once (state.rs:110-140): a delivery is a step of the channel if  *)
(* it is accepted, and none if it is not.                                   *)
THEOREM RatchetImplementsChannel == Spec => ImplementsChannel
<1>1. Init => Channel!Init
  BY DEF Init, Channel!Init
<1>2. IInv /\ [Next]_vars => [Channel!Next]_(Channel!vars)
  <2> SUFFICES ASSUME IInv, [Next]_vars PROVE [Channel!Next]_(Channel!vars)
    OBVIOUS
  <2>1. ASSUME NEW p \in Party, Encrypt(p)
        PROVE  Channel!Send(p)
    <3>1. PICK S : S = sent[p] \cup
                 {[id |-> Cardinality(sent[p]) + 1, header |-> HeaderOf(Session(p)),
                   key |-> Session(p).sending]}
      OBVIOUS
    <3>2. sent' = [sent EXCEPT ![p] = S] /\ UNCHANGED <<received, accepted>>
      BY <2>1, <3>1 DEF Encrypt
    <3>3. sent = [q \in Party |-> sent[q]]
      BY DEF IInv
    <3>4. sent'[p] = S /\ sent[p] \subseteq S
      BY <3>1, <3>2, <3>3
    <3>. QED  BY <3>2, <3>4 DEF Channel!Send
  <2>2. ASSUME NEW p \in Party, NEW m \in sent[Peer(p)],
               NEW h \in {m.header} \cup Garbled(m.header),
               Decrypt(p, EncodeEnvelope(h, Ciphertext(m)))
        PROVE  Channel!Accept(p) \/ UNCHANGED <<sent, received, accepted>>
    <3>1. Decrypts(p, Session(p), m, h) => m \notin received[p]
      BY <2>2, DecryptStep
    <3>2. /\ IF Decrypts(p, Session(p), m, h)
             THEN /\ received' = [received EXCEPT ![p] = @ \cup {m}]
                  /\ accepted' = [accepted EXCEPT ![p] = @ + 1]
             ELSE UNCHANGED <<received, accepted>>
          /\ sent' = sent
      BY <2>2, DeliveryView
    <3>. QED  BY <3>1, <3>2 DEF Channel!Accept
  <2>3. CASE UNCHANGED vars
    BY <2>3 DEF vars, Channel!vars
  <2>. QED  BY <2>1, <2>2, <2>3 DEF Next, Channel!Next, Channel!vars
<1>. QED  BY RatchetInvariant, <1>1, <1>2, PTL DEF Spec, ImplementsChannel, Channel!Spec

-----------------------------------------------------------------------------
(* What two parties know of each other *)

(* What the session s of a party says of the messages S it sent: the number *)
(* of a message is the step of its key, and those under the present key     *)
(* pair are of the present chain and carry the length of the one before.    *)
SenderInv(s, S) ==
    /\ s.sending.step = s.send_count
    /\ s.root_key = << >> => s.send_count = 0
    /\ s.dh_self # NoKey /\ s.dh_self.n \in Nat
    /\ \A m \in S :
         /\ IsHeader(m.header) /\ IsChain(m.key)
         /\ m.key.root # << >> /\ m.key.step = m.header.number
         /\ m.header.dh # NoKey /\ m.header.dh.n \in Nat /\ m.header.dh.n <= s.dh_self.n
         /\ m.header.dh = s.dh_self =>
              /\ m.key.root = s.root_key
              /\ m.header.previous = s.previous /\ m.header.number < s.send_count

(* What a session t says of its receiving chain and its skipped keys.       *)
ReceiverInv(t) ==
    /\ t.receiving.step = t.recv_count
    /\ t.receiving.root = << >> => t.recv_count = 0
    /\ \A k \in t.skipped : IsChain(k.key) /\ k.key.step = k.number

(* The key of m is among the skipped keys of t, under the header of m.      *)
Keeps(t, m) ==
    \E k \in t.skipped : k.dh = m.header.dh /\ k.number = m.header.number /\ k.key = m.key

(* The receiver t has seen the present key of the sender s, and answers it. *)
InStep(s, t) ==
    /\ t.root_key = Derive(s.root_key, t.dh_self, s.dh_self)
    /\ t.receiving.root = s.root_key
    /\ t.recv_count \in 0..s.send_count
    /\ \A k \in t.skipped : k.dh = s.dh_self => k.key.root = s.root_key

(* The sender s is one ratchet step ahead of the receiver t.                *)
OneAhead(s, S, t) ==
    /\ s.root_key = Derive(t.root_key, t.dh_self, s.dh_self)
    /\ s.dh_remote = t.dh_self
    /\ \A m \in S : m.header.dh = t.dh_remote => m.header.number < s.previous
    /\ \A k \in t.skipped : k.dh # s.dh_self

(* What holds between a sender s of the messages S and a receiver t that    *)
(* has received R: a message that is missing is ahead on the receiving      *)
(* chain, among the skipped keys, or on the chain t has not seen yet.       *)
Link(s, S, t, R) ==
    /\ t.dh_remote.n \in 0..s.dh_self.n
    /\ \A k \in t.skipped : k.dh.n \in Nat /\ k.dh.n <= s.dh_self.n
    /\ \A k \in t.skipped, m \in S : k.dh = m.header.dh => k.key.root = m.key.root
    /\ \A m \in S : m.header.dh = t.dh_remote => m.key.root = t.receiving.root
    /\ IF t.dh_remote = s.dh_self THEN InStep(s, t) ELSE OneAhead(s, S, t)
    /\ \A m \in S \ R :
         \/ m.header.dh = t.dh_remote /\ m.header.number >= t.recv_count
         \/ Keeps(t, m)
         \/ m.header.dh = s.dh_self /\ t.dh_remote # s.dh_self

(* What every party knows of itself, and of what its peer has of it.        *)
DeliveryInv ==
    \A p \in Party :
      /\ SenderInv(Session(p), sent[p]) /\ ReceiverInv(Session(p))
      /\ Link(Session(p), sent[p], Session(Peer(p)), received[Peer(p)])

-----------------------------------------------------------------------------
(* Encrypting *)

(* A new message is the next one on the chain of its sender.                *)
LEMMA EncryptLinks ==
    ASSUME NEW s, Sound(s), s.sending # NoChain, NEW S, SenderInv(s, S), ReceiverInv(s),
           NEW x, NEW m, m = [id |-> x, header |-> HeaderOf(s), key |-> s.sending],
           NEW w, w = AfterSend(s)
    PROVE  /\ SenderInv(w, S \cup {m}) /\ ReceiverInv(w)
           /\ \A t, R : Link(s, S, t, R) => Link(w, S \cup {m}, t, R)
           /\ \A t, T, R : Link(t, T, s, R) => Link(t, T, w, R)
<1>1. /\ w.dh_self = s.dh_self /\ w.dh_remote = s.dh_remote
      /\ w.root_key = s.root_key /\ w.receiving = s.receiving
      /\ w.sending.root = s.sending.root /\ w.sending.step = s.sending.step + 1
      /\ w.send_count = s.send_count + 1 /\ w.recv_count = s.recv_count
      /\ w.previous = s.previous /\ w.skipped = s.skipped
  BY SendFields
<1>2. /\ s.send_count \in Nat /\ s.previous \in Nat /\ s.recv_count \in Nat
      /\ IsChain(s.sending) /\ s.sending.root = s.root_key
  BY SoundFields
<1>3. s.root_key # << >>
  <2> SUFFICES ASSUME s.root_key = << >> PROVE FALSE
    OBVIOUS
  <2>1. s.sending.root = << >> /\ s.sending.step = 0
    BY <1>2 DEF SenderInv
  <2>2. s.sending = [root |-> << >>, step |-> 0]
    BY <1>2, <2>1 DEF IsChain
  <2>. QED  BY <2>2 DEF NoChain, Chain
<1>4. /\ m.header.dh = s.dh_self /\ m.header.previous = s.previous
      /\ m.header.number = s.send_count /\ m.key = s.sending /\ IsHeader(m.header)
  <2>1. /\ m.header = [dh |-> s.dh_self, previous |-> s.previous, number |-> s.send_count]
        /\ m.key = s.sending
    BY DEF HeaderOf
  <2>. QED  BY <1>2, <2>1 DEF IsHeader
<1>5. /\ IsChain(m.key) /\ m.key.root = s.root_key /\ m.key.step = m.header.number
  BY <1>2, <1>4 DEF SenderInv
<1>6. SenderInv(w, S \cup {m})
  <2>1. /\ w.sending.step = w.send_count /\ w.root_key # << >>
        /\ w.dh_self # NoKey /\ w.dh_self.n \in Nat
    BY <1>1, <1>3 DEF SenderInv
  <2>2. ASSUME NEW l \in S
        PROVE  /\ IsHeader(l.header) /\ IsChain(l.key)
               /\ l.key.root # << >> /\ l.key.step = l.header.number
               /\ l.header.dh # NoKey /\ l.header.dh.n \in Nat
               /\ l.header.dh.n <= w.dh_self.n
               /\ l.header.dh = w.dh_self =>
                    /\ l.key.root = w.root_key
                    /\ l.header.previous = w.previous /\ l.header.number < w.send_count
    <3>1. l.header.number \in Nat
      BY <2>2 DEF SenderInv, IsHeader
    <3>. QED  BY <1>1, <1>2, <3>1 DEF SenderInv
  <2>3. /\ IsHeader(m.header) /\ IsChain(m.key)
        /\ m.key.root # << >> /\ m.key.step = m.header.number
        /\ m.header.dh # NoKey /\ m.header.dh.n \in Nat /\ m.header.dh.n <= w.dh_self.n
        /\ m.key.root = w.root_key
        /\ m.header.previous = w.previous /\ m.header.number < w.send_count
    BY <1>1, <1>2, <1>3, <1>4, <1>5 DEF SenderInv
  <2>. QED  BY <2>1, <2>2, <2>3 DEF SenderInv
<1>7. ReceiverInv(w)
  BY <1>1 DEF ReceiverInv
<1>8. ASSUME NEW t, NEW R, Link(s, S, t, R)
      PROVE  Link(w, S \cup {m}, t, R)
  <2>1. /\ t.dh_remote.n \in 0..w.dh_self.n
        /\ \A k \in t.skipped : k.dh.n \in Nat /\ k.dh.n <= w.dh_self.n
    BY <1>1, <1>8 DEF Link
  <2>2. CASE t.dh_remote = s.dh_self
    <3>1. InStep(s, t)
      BY <1>8, <2>2 DEF Link
    <3>2. InStep(w, t)
      <4>1. t.recv_count \in 0..(s.send_count + 1)
        BY <1>2, <3>1 DEF InStep
      <4>. QED  BY <1>1, <3>1, <4>1 DEF InStep
    <3>3. \A k \in t.skipped, l \in S \cup {m} : k.dh = l.header.dh => k.key.root = l.key.root
      BY <1>4, <1>5, <1>8, <3>1 DEF Link, InStep
    <3>4. \A l \in S \cup {m} : l.header.dh = t.dh_remote => l.key.root = t.receiving.root
      BY <1>5, <1>8, <3>1 DEF Link, InStep
    <3>5. \A l \in (S \cup {m}) \ R :
             \/ l.header.dh = t.dh_remote /\ l.header.number >= t.recv_count
             \/ Keeps(t, l)
             \/ l.header.dh = w.dh_self /\ t.dh_remote # w.dh_self
      <4>1. m.header.dh = t.dh_remote /\ m.header.number >= t.recv_count
        BY <1>4, <2>2, <3>1 DEF InStep
      <4>. QED  BY <1>1, <1>8, <4>1 DEF Link
    <3>. QED  BY <1>1, <2>1, <2>2, <3>2, <3>3, <3>4, <3>5 DEF Link
  <2>3. CASE t.dh_remote # s.dh_self
    <3>1. OneAhead(s, S, t)
      BY <1>8, <2>3 DEF Link
    <3>2. OneAhead(w, S \cup {m}, t)
      BY <1>1, <1>4, <2>3, <3>1 DEF OneAhead
    <3>3. \A k \in t.skipped, l \in S \cup {m} : k.dh = l.header.dh => k.key.root = l.key.root
      BY <1>4, <1>8, <3>1 DEF Link, OneAhead
    <3>4. \A l \in S \cup {m} : l.header.dh = t.dh_remote => l.key.root = t.receiving.root
      BY <1>4, <1>8, <2>3 DEF Link
    <3>5. \A l \in (S \cup {m}) \ R :
             \/ l.header.dh = t.dh_remote /\ l.header.number >= t.recv_count
             \/ Keeps(t, l)
             \/ l.header.dh = w.dh_self /\ t.dh_remote # w.dh_self
      BY <1>1, <1>4, <1>8, <2>3 DEF Link
    <3>. QED  BY <1>1, <2>1, <2>3, <3>2, <3>3, <3>4, <3>5 DEF Link
  <2>. QED  BY <2>2, <2>3
<1>9. ASSUME NEW t, NEW T, NEW R, Link(t, T, s, R)
      PROVE  Link(t, T, w, R)
  <2>1. InStep(t, s) => InStep(t, w)
    BY <1>1 DEF InStep
  <2>2. OneAhead(t, T, s) => OneAhead(t, T, w)
    BY <1>1 DEF OneAhead
  <2>3. \A l : Keeps(s, l) => Keeps(w, l)
    BY <1>1 DEF Keeps
  <2>. QED  BY <1>1, <1>9, <2>1, <2>2, <2>3 DEF Link
<1>. QED  BY <1>6, <1>7, <1>8, <1>9

-----------------------------------------------------------------------------
(* Decrypting *)

(* The key of the message is a skipped one.                                 *)
LEMMA StoredLinks ==
    ASSUME NEW q, NEW s, NEW t, Sound(t), NEW S, NEW T, NEW R, NEW Q,
           SenderInv(s, S), SenderInv(t, T), ReceiverInv(t),
           Link(s, S, t, R), Link(t, T, s, Q),
           \A k, l \in S : k.key = l.key => k = l,
           NEW m \in S, Stored(t, m.header) # {}, NEW w, w = Working(q, t, m.header)
    PROVE  /\ SenderInv(w, T) /\ ReceiverInv(w)
           /\ Link(s, S, w, R \cup {m}) /\ Link(w, T, s, Q)
<1>1. /\ w.dh_self = t.dh_self /\ w.dh_remote = t.dh_remote
      /\ w.root_key = t.root_key /\ w.sending = t.sending
      /\ w.send_count = t.send_count /\ w.previous = t.previous
      /\ w.receiving = t.receiving /\ w.recv_count = t.recv_count
      /\ w.skipped = t.skipped \ Stored(t, m.header)
  BY StoredFields
<1>2. SenderInv(w, T) /\ ReceiverInv(w)
  BY <1>1 DEF SenderInv, ReceiverInv
<1>3. Link(w, T, s, Q)
  BY <1>1 DEF Link, InStep, OneAhead, Keeps
<1>4. ASSUME NEW l \in S, Keeps(t, l), l # m
      PROVE  Keeps(w, l)
  <2>1. PICK k \in t.skipped :
           k.dh = l.header.dh /\ k.number = l.header.number /\ k.key = l.key
    BY <1>4 DEF Keeps
  <2>2. CASE k \in Stored(t, m.header)
    <3>1. k.dh = m.header.dh /\ k.number = m.header.number
      BY <2>2 DEF Stored
    <3>2. l.key.root = m.key.root
      BY <2>1, <3>1 DEF Link
    <3>3. IsChain(l.key) /\ IsChain(m.key) /\ l.key.step = m.key.step
      BY <2>1, <3>1 DEF SenderInv
    <3>4. l.key = m.key
      BY <3>2, <3>3, SameKey
    <3>. QED  BY <1>4, <3>4
  <2>3. CASE k \notin Stored(t, m.header)
    BY <1>1, <2>1, <2>3 DEF Keeps
  <2>. QED  BY <2>2, <2>3
<1>5. Link(s, S, w, R \cup {m})
  <2>1. InStep(s, t) => InStep(s, w)
    BY <1>1 DEF InStep
  <2>2. OneAhead(s, S, t) => OneAhead(s, S, w)
    BY <1>1 DEF OneAhead
  <2>3. \A l \in S \ (R \cup {m}) :
           \/ l.header.dh = w.dh_remote /\ l.header.number >= w.recv_count
           \/ Keeps(w, l)
           \/ l.header.dh = s.dh_self /\ w.dh_remote # s.dh_self
    BY <1>1, <1>4 DEF Link
  <2>. QED  BY <1>1, <2>1, <2>2, <2>3 DEF Link
<1>. QED  BY <1>2, <1>3, <1>5

(* A message that is ahead on a chain: the gap to it, and the key at its    *)
(* end.                                                                     *)
LEMMA GapTo ==
    ASSUME NEW t, Sound(t), t.dh_remote # NoKey, t.receiving.root # << >>, NEW n \in Nat
    PROVE  /\ t.receiving # NoChain
           /\ Gap(t, n) = IF n <= t.recv_count THEN 0 ELSE n - t.recv_count
<1>1. t.receiving # NoChain
  BY DEF NoChain, Chain
<1>. QED  BY <1>1 DEF Gap

(* The key of the message is one of the present receiving chain.            *)
LEMMA SameChainLinks ==
    ASSUME NEW q, NEW s, NEW t, Sound(t), NEW S, NEW T, NEW R, NEW Q,
           SenderInv(s, S), SenderInv(t, T), ReceiverInv(t),
           Link(s, S, t, R), Link(t, T, s, Q), s.send_count \in Nat,
           \A k, l \in S : k.key = l.key => k = l,
           NEW m \in S, Stored(t, m.header) = {}, t.dh_remote = m.header.dh,
           KeyFor(q, t, m.header) = m.key, NEW w, w = Working(q, t, m.header)
    PROVE  /\ SenderInv(w, T) /\ ReceiverInv(w)
           /\ Link(s, S, w, R \cup {m}) /\ Link(w, T, s, Q)
<1>1. PICK n, gap, u : n = m.header.number /\ gap = Gap(t, n) /\ u = Skip(t, n)
  OBVIOUS
<1>2. /\ n \in Nat /\ m.key.step = n /\ IsChain(m.key) /\ m.key.root # << >>
      /\ m.header.dh # NoKey
  BY <1>1 DEF SenderInv, IsHeader
<1>3. OnChainOf(q, t, m.header) = t
  BY DEF OnChainOf
<1>4. u.receiving = m.key
  BY <1>1, <1>3 DEF KeyFor
<1>5. /\ gap \in Nat
      /\ u.dh_self = t.dh_self /\ u.dh_remote = t.dh_remote
      /\ u.root_key = t.root_key /\ u.sending = t.sending
      /\ u.send_count = t.send_count /\ u.previous = t.previous
      /\ u.receiving.root = t.receiving.root
      /\ u.receiving.step = t.receiving.step + gap
      /\ u.recv_count = t.recv_count + gap
      /\ t.skipped \subseteq u.skipped
      /\ \A k \in u.skipped \ t.skipped :
           /\ k.dh = t.dh_remote /\ IsChain(k.key)
           /\ k.key.root = t.receiving.root
           /\ k.number \in Nat /\ k.number < t.recv_count + gap
           /\ k.key.step = t.receiving.step + (k.number - t.recv_count)
      /\ \A i \in Nat : t.recv_count <= i /\ i < t.recv_count + gap =>
           \E k \in u.skipped :
             /\ k.dh = t.dh_remote /\ k.number = i /\ IsChain(k.key)
             /\ k.key.root = t.receiving.root
             /\ k.key.step = t.receiving.step + (i - t.recv_count)
  <2>1. n \in Nat /\ u = Skip(t, n) /\ gap = Gap(t, n)
    BY <1>1, <1>2
  <2>2. Skipping(t, u, gap)
    BY <2>1, SkipFields
  <2>. QED  BY <2>2 DEF Skipping
<1>6. Sound(u)
  BY <1>1, <1>2, SkipFacts
<1>7. u = Skip(OnChainOf(q, t, m.header), m.header.number)
  BY <1>1, <1>3
<1>8. /\ w.dh_self = t.dh_self /\ w.dh_remote = t.dh_remote
      /\ w.root_key = t.root_key /\ w.sending = t.sending
      /\ w.send_count = t.send_count /\ w.previous = t.previous
      /\ w.receiving.root = t.receiving.root
      /\ w.receiving.step = u.receiving.step + 1
      /\ w.recv_count = u.recv_count + 1 /\ w.skipped = u.skipped
  BY <1>5, <1>6, <1>7, WorkingFields
(* The number of the message is where the skip stops.                       *)
<1>9. /\ t.recv_count \in Nat /\ t.receiving.step = t.recv_count
      /\ t.recv_count + gap = n /\ w.recv_count = n + 1 /\ w.receiving.step = n + 1
      /\ t.receiving.root = m.key.root
  <2>1. t.recv_count \in Nat
    BY SoundFields
  <2>2. t.receiving.step = t.recv_count
    BY DEF ReceiverInv
  <2>. QED  BY <1>2, <1>4, <1>5, <1>8, <2>1, <2>2
<1>10. SenderInv(w, T) /\ Link(w, T, s, Q)
  <2>1. SenderInv(w, T)
    BY <1>8 DEF SenderInv
  <2>. QED  BY <1>8, <2>1 DEF Link, InStep, OneAhead
<1>11. ReceiverInv(w)
  <2>1. \A k \in w.skipped : IsChain(k.key) /\ k.key.step = k.number
    BY <1>5, <1>8, <1>9 DEF ReceiverInv
  <2>. QED  BY <1>2, <1>8, <1>9, <2>1 DEF ReceiverInv
<1>12. ASSUME NEW l \in S, l.header.dh = t.dh_remote, l.header.number >= t.recv_count, l # m
       PROVE  \/ l.header.number >= w.recv_count
              \/ Keeps(w, l)
  <2>1. /\ l.header.number \in Nat /\ IsChain(l.key) /\ l.key.step = l.header.number
        /\ l.key.root = t.receiving.root
    BY <1>12 DEF SenderInv, IsHeader, Link
  <2>2. CASE l.header.number = n
    <3>1. l.key = m.key
      BY <1>2, <1>9, <2>1, <2>2, SameKey
    <3>. QED  BY <1>12, <3>1
  <2>3. CASE l.header.number < n
    <3>1. PICK k \in u.skipped :
             /\ k.dh = t.dh_remote /\ k.number = l.header.number /\ IsChain(k.key)
             /\ k.key.root = t.receiving.root
             /\ k.key.step = t.receiving.step + (l.header.number - t.recv_count)
      BY <1>5, <1>9, <1>12, <2>1, <2>3
    <3>2. k.key.step = l.key.step
      BY <1>9, <2>1, <3>1
    <3>3. k.key = l.key
      BY <2>1, <3>1, <3>2, SameKey
    <3>. QED  BY <1>8, <1>12, <3>1, <3>3 DEF Keeps
  <2>. QED  BY <1>2, <1>9, <2>1, <2>2, <2>3
<1>13. Link(s, S, w, R \cup {m})
  <2>1. \A k \in w.skipped : k \in t.skipped
           \/ (k.dh = m.header.dh /\ k.key.root = m.key.root)
    BY <1>5, <1>8, <1>9
  <2>2. /\ w.dh_remote.n \in 0..s.dh_self.n
        /\ \A k \in w.skipped : k.dh.n \in Nat /\ k.dh.n <= s.dh_self.n
    BY <1>8, <2>1 DEF Link, SenderInv
  <2>3. \A k \in w.skipped, l \in S : k.dh = l.header.dh => k.key.root = l.key.root
    BY <1>9, <2>1 DEF Link
  <2>4. \A l \in S : l.header.dh = w.dh_remote => l.key.root = w.receiving.root
    BY <1>8 DEF Link
  <2>5. IF w.dh_remote = s.dh_self THEN InStep(s, w) ELSE OneAhead(s, S, w)
    <3>1. CASE t.dh_remote = s.dh_self
      <4>1. InStep(s, t)
        BY <3>1 DEF Link
      <4>2. m.key.root = s.root_key /\ n < s.send_count
        BY <1>1, <3>1 DEF SenderInv
      <4>3. w.recv_count \in 0..s.send_count
        BY <1>2, <1>9, <4>2
      <4>4. InStep(s, w)
        BY <1>8, <2>1, <4>1, <4>2, <4>3 DEF InStep
      <4>. QED  BY <1>8, <3>1, <4>4
    <3>2. CASE t.dh_remote # s.dh_self
      <4>1. OneAhead(s, S, t)
        BY <3>2 DEF Link
      <4>2. OneAhead(s, S, w)
        BY <1>8, <2>1, <3>2, <4>1 DEF OneAhead
      <4>. QED  BY <1>8, <3>2, <4>2
    <3>. QED  BY <3>1, <3>2
  <2>6. \A l : Keeps(t, l) => Keeps(w, l)
    BY <1>5, <1>8 DEF Keeps
  <2>7. \A l \in S \ (R \cup {m}) :
           \/ l.header.dh = w.dh_remote /\ l.header.number >= w.recv_count
           \/ Keeps(w, l)
           \/ l.header.dh = s.dh_self /\ w.dh_remote # s.dh_self
    BY <1>8, <1>12, <2>6 DEF Link
  <2>. QED  BY <2>2, <2>3, <2>4, <2>5, <2>7 DEF Link
<1>. QED  BY <1>10, <1>11, <1>13

(* The message is the first one to arrive under the sender's present key:   *)
(* the rest of the chain before is kept, both sides mix the same outputs    *)
(* into the root key, and now it is the receiver who is ahead.              *)
LEMMA NextChainLinks ==
    ASSUME NEW q \in Party, NEW s, NEW t, Sound(t), NEW S, NEW T, NEW R, NEW Q,
           SenderInv(s, S), SenderInv(t, T), ReceiverInv(t),
           Link(s, S, t, R), Link(t, T, s, Q), s.send_count \in Nat,
           \A k, l \in S : k.key = l.key => k = l,
           NEW m \in S \ R, Stored(t, m.header) = {}, t.dh_remote # m.header.dh,
           KeyFor(q, t, m.header) = m.key, NEW w, w = Working(q, t, m.header)
    PROVE  /\ SenderInv(w, T) /\ ReceiverInv(w)
           /\ Link(s, S, w, R \cup {m}) /\ Link(w, T, s, Q)
<1>1. PICK n, d, before : n = m.header.number /\ d = m.header.dh /\ before = m.header.previous
  OBVIOUS
<1>2. /\ n \in Nat /\ before \in Nat
      /\ m.key.step = n /\ IsChain(m.key) /\ m.key.root # << >> /\ d # NoKey
  BY <1>1 DEF SenderInv, IsHeader
<1>3. d = s.dh_self /\ t.dh_remote # s.dh_self
  <2>1. ~ Keeps(t, m)
    BY DEF Keeps, Stored
  <2>. QED  BY <1>1, <2>1 DEF Link
<1>4. /\ s.root_key = Derive(t.root_key, t.dh_self, d) /\ s.dh_remote = t.dh_self
      /\ \A l \in S : l.header.dh = t.dh_remote => l.header.number < before
      /\ \A k \in t.skipped : k.dh # d
      /\ m.key.root = s.root_key /\ n < s.send_count
  <2>1. OneAhead(s, S, t)
    BY <1>3 DEF Link
  <2>2. m.key.root = s.root_key /\ n < s.send_count /\ before = s.previous
    BY <1>1, <1>3 DEF SenderInv
  <2>. QED  BY <1>3, <2>1, <2>2 DEF OneAhead
<1>5. PICK t1, g1 : t1 = Skip(t, before) /\ g1 = Gap(t, before)
  OBVIOUS
<1>6. PICK t2 : t2 = DHRatchetStep(q, t1, d)
  OBVIOUS
<1>7. PICK u, g2 : u = Skip(t2, n) /\ g2 = Gap(t2, n)
  OBVIOUS
<1>8. OnChainOf(q, t, m.header) = t2
  BY <1>1, <1>5, <1>6 DEF OnChainOf
<1>9. u.receiving = m.key
  BY <1>1, <1>7, <1>8 DEF KeyFor
<1>10. Sound(t1) /\ Sound(t2) /\ Sound(u)
  <2>1. Sound(t1)
    BY <1>2, <1>5, SkipFacts
  <2>2. Sound(t2)
    BY <1>6, <2>1, RatchetFacts
  <2>. QED  BY <1>2, <1>7, <2>1, <2>2, SkipFacts
<1>11. Skipping(t, t1, g1)
  BY <1>2, <1>5, SkipFields
<1>12. Skipping(t2, u, g2)
  BY <1>2, <1>7, <1>10, SkipFields
<1>13. /\ t1.dh_self = t.dh_self /\ t1.root_key = t.root_key
       /\ t1.send_count = t.send_count
  BY <1>11 DEF Skipping
<1>14. s.root_key = Derive(t1.root_key, t1.dh_self, d)
  BY <1>4, <1>13
<1>15. /\ t2.dh_self = Key(q, t1.dh_self.n + 1) /\ t2.dh_remote = d
       /\ t2.root_key = Derive(s.root_key, t2.dh_self, d)
       /\ t2.sending.root = t2.root_key /\ t2.sending.step = 0
       /\ t2.receiving.root = s.root_key /\ t2.receiving.step = 0
       /\ t2.send_count = 0 /\ t2.recv_count = 0
       /\ t2.previous = t1.send_count /\ t2.skipped = t1.skipped
       /\ t2.root_key # << >>
  BY <1>6, <1>10, <1>14, RatchetFields
<1>16. /\ u.dh_self = t2.dh_self /\ u.dh_remote = t2.dh_remote
       /\ u.root_key = t2.root_key /\ u.sending = t2.sending
       /\ u.send_count = t2.send_count /\ u.previous = t2.previous
       /\ u.receiving.root = t2.receiving.root /\ g2 \in Nat
       /\ u.receiving.step = t2.receiving.step + g2 /\ u.recv_count = t2.recv_count + g2
  BY <1>12 DEF Skipping
<1>17. u = Skip(OnChainOf(q, t, m.header), m.header.number)
  BY <1>1, <1>7, <1>8
<1>18. /\ w.dh_self = u.dh_self /\ w.dh_remote = u.dh_remote
       /\ w.root_key = u.root_key /\ w.sending = u.sending
       /\ w.send_count = u.send_count /\ w.previous = u.previous
       /\ w.receiving.root = u.receiving.root
       /\ w.receiving.step = u.receiving.step + 1
       /\ w.recv_count = u.recv_count + 1 /\ w.skipped = u.skipped
  BY <1>10, <1>17, WorkingFields
<1>19. /\ w.dh_self = Key(q, t.dh_self.n + 1) /\ w.dh_remote = s.dh_self
       /\ w.root_key = Derive(s.root_key, w.dh_self, s.dh_self) /\ w.root_key # << >>
       /\ w.sending.step = 0 /\ w.send_count = 0 /\ w.previous = t.send_count
       /\ w.receiving.root = s.root_key
  BY <1>3, <1>13, <1>15, <1>16, <1>18
<1>20. g2 = n /\ w.recv_count = n + 1 /\ w.receiving.step = n + 1
  BY <1>2, <1>9, <1>15, <1>16, <1>18
<1>21. t.recv_count \in Nat /\ t.receiving.step = t.recv_count /\ t.send_count \in Nat
  BY SoundFields DEF ReceiverInv
<1>22. /\ w.dh_self.n = t.dh_self.n + 1 /\ t.dh_self.n \in Nat
       /\ w.dh_self.owner = q /\ w.dh_self # NoKey
  <2>1. t.dh_self.n \in Nat
    BY DEF SenderInv
  <2>2. w.dh_self.n = t.dh_self.n + 1 /\ w.dh_self.owner = q
    BY <1>19 DEF Key
  <2>3. NoKey.owner = "nobody"
    BY DEF NoKey, Key
  <2>4. q # "nobody"
    BY DEF Party
  <2>. QED  BY <2>1, <2>2, <2>3, <2>4
(* Where a skipped key comes from.                                          *)
<1>23. ASSUME NEW k \in w.skipped
       PROVE  \/ k \in t.skipped
              \/ /\ k.dh = t.dh_remote /\ k.key.root = t.receiving.root
                 /\ IsChain(k.key) /\ k.key.step = k.number
              \/ /\ k.dh = d /\ k.key.root = s.root_key
                 /\ IsChain(k.key) /\ k.key.step = k.number
  <2>1. CASE k \in u.skipped \ t2.skipped
    <3>1. /\ k.dh = t2.dh_remote /\ IsChain(k.key) /\ k.key.root = t2.receiving.root
          /\ k.number \in Nat
          /\ k.key.step = t2.receiving.step + (k.number - t2.recv_count)
      BY <1>12, <2>1 DEF Skipping
    <3>. QED  BY <1>15, <3>1
  <2>2. CASE k \in t1.skipped \ t.skipped
    <3>1. /\ k.dh = t.dh_remote /\ IsChain(k.key) /\ k.key.root = t.receiving.root
          /\ k.number \in Nat
          /\ k.key.step = t.receiving.step + (k.number - t.recv_count)
      BY <1>11, <2>2 DEF Skipping
    <3>2. k.key.step = k.number
      BY <1>21, <3>1
    <3>. QED  BY <3>1, <3>2
  <2>. QED  BY <1>15, <1>18, <1>23, <2>1, <2>2
<1>24. t.skipped \subseteq t1.skipped /\ t1.skipped \subseteq w.skipped
  BY <1>11, <1>12, <1>15, <1>18 DEF Skipping
<1>25. SenderInv(w, T)
  <2>1. \A l \in T : l.header.dh # w.dh_self /\ l.header.dh.n <= w.dh_self.n
    BY <1>22 DEF SenderInv
  <2>. QED  BY <1>19, <1>22, <2>1 DEF SenderInv
<1>26. ReceiverInv(w)
  <2>1. \A k \in w.skipped : IsChain(k.key) /\ k.key.step = k.number
    BY <1>23 DEF ReceiverInv
  <2>2. w.receiving.root # << >>
    BY <1>2, <1>4, <1>19
  <2>. QED  BY <1>20, <2>1, <2>2 DEF ReceiverInv
(* No message is lost on the way.                                           *)
<1>27. ASSUME NEW l \in S, Keeps(t, l)
       PROVE  Keeps(w, l)
  BY <1>24, <1>27 DEF Keeps
<1>28. ASSUME NEW l \in S, l.header.dh = t.dh_remote, l.header.number >= t.recv_count
       PROVE  Keeps(w, l)
  <2>1. /\ l.header.number \in Nat /\ IsChain(l.key) /\ l.key.step = l.header.number
        /\ l.key.root # << >> /\ l.header.dh # NoKey
    BY DEF SenderInv, IsHeader
  <2>2. l.key.root = t.receiving.root
    BY <1>28 DEF Link
  <2>3. g1 = IF before <= t.recv_count THEN 0 ELSE before - t.recv_count
    BY <1>2, <1>5, <1>28, <2>1, <2>2, GapTo
  <2>4. l.header.number < t.recv_count + g1
    BY <1>2, <1>4, <1>21, <1>28, <2>1, <2>3
  <2>5. PICK k \in t1.skipped :
           /\ k.dh = t.dh_remote /\ k.number = l.header.number /\ IsChain(k.key)
           /\ k.key.root = t.receiving.root
           /\ k.key.step = t.receiving.step + (l.header.number - t.recv_count)
    BY <1>11, <1>28, <2>1, <2>4 DEF Skipping
  <2>6. k.key.step = l.key.step
    BY <1>21, <2>1, <2>5
  <2>7. k.key = l.key
    BY <2>1, <2>2, <2>5, <2>6, SameKey
  <2>. QED  BY <1>24, <1>28, <2>5, <2>7 DEF Keeps
<1>29. ASSUME NEW l \in S, l.header.dh = d, l # m
       PROVE  l.header.number >= w.recv_count \/ Keeps(w, l)
  <2>1. /\ l.header.number \in Nat /\ IsChain(l.key) /\ l.key.step = l.header.number
        /\ l.key.root = s.root_key
    BY <1>3, <1>29 DEF SenderInv, IsHeader
  <2>2. CASE l.header.number = n
    <3>1. l.key = m.key
      BY <1>2, <1>4, <2>1, <2>2, SameKey
    <3>. QED  BY <1>29, <3>1
  <2>3. CASE l.header.number < n
    <3>1. PICK k \in u.skipped :
             /\ k.dh = t2.dh_remote /\ k.number = l.header.number /\ IsChain(k.key)
             /\ k.key.root = t2.receiving.root
             /\ k.key.step = t2.receiving.step + (l.header.number - t2.recv_count)
      <4>1. \A i \in Nat : t2.recv_count <= i /\ i < t2.recv_count + g2 =>
               \E k \in u.skipped :
                 /\ k.dh = t2.dh_remote /\ k.number = i /\ IsChain(k.key)
                 /\ k.key.root = t2.receiving.root
                 /\ k.key.step = t2.receiving.step + (i - t2.recv_count)
        BY <1>12 DEF Skipping
      <4>2. t2.recv_count <= l.header.number /\ l.header.number < t2.recv_count + g2
        BY <1>2, <1>15, <1>20, <2>1, <2>3
      <4>. QED  BY <2>1, <4>1, <4>2
    <3>2. k.key.step = l.key.step
      BY <1>15, <2>1, <3>1
    <3>3. k.key = l.key
      BY <1>15, <2>1, <3>1, <3>2, SameKey
    <3>. QED  BY <1>15, <1>18, <1>29, <3>1, <3>3 DEF Keeps
  <2>. QED  BY <1>2, <1>20, <2>1, <2>2, <2>3
<1>30. Link(s, S, w, R \cup {m})
  <2>1. \A k \in w.skipped : k.dh.n \in Nat /\ k.dh.n <= s.dh_self.n
    <3>1. s.dh_self.n \in Nat /\ t.dh_remote.n \in 0..s.dh_self.n
      BY DEF Link, SenderInv
    <3>2. \A k \in t.skipped : k.dh.n \in Nat /\ k.dh.n <= s.dh_self.n
      BY DEF Link
    <3>. QED  BY <1>3, <1>23, <3>1, <3>2
  <2>2. \A k \in w.skipped, l \in S : k.dh = l.header.dh => k.key.root = l.key.root
    <3>1. \A k \in t.skipped, l \in S : k.dh = l.header.dh => k.key.root = l.key.root
      BY DEF Link
    <3>2. \A l \in S : l.header.dh = t.dh_remote => l.key.root = t.receiving.root
      BY DEF Link
    <3>3. \A l \in S : l.header.dh = d => l.key.root = s.root_key
      BY <1>3 DEF SenderInv
    <3>. QED  BY <1>23, <3>1, <3>2, <3>3
  <2>3. \A l \in S : l.header.dh = w.dh_remote => l.key.root = w.receiving.root
    BY <1>19 DEF SenderInv
  <2>4. InStep(s, w)
    <3>1. \A k \in w.skipped : k.dh = s.dh_self => k.key.root = s.root_key
      BY <1>3, <1>4, <1>23
    <3>2. w.recv_count \in 0..s.send_count
      BY <1>2, <1>4, <1>20
    <3>. QED  BY <1>19, <3>1, <3>2 DEF InStep
  <2>5. \A l \in S \ (R \cup {m}) :
           \/ l.header.dh = w.dh_remote /\ l.header.number >= w.recv_count
           \/ Keeps(w, l)
    <3>1. \A l \in S \ R : \/ l.header.dh = t.dh_remote /\ l.header.number >= t.recv_count
                           \/ Keeps(t, l)
                           \/ l.header.dh = s.dh_self
      BY DEF Link
    <3>. QED  BY <1>3, <1>19, <1>27, <1>28, <1>29, <3>1
  <2>6. w.dh_remote = s.dh_self /\ w.dh_remote.n \in 0..s.dh_self.n
    BY <1>19 DEF SenderInv
  <2>. QED  BY <2>1, <2>2, <2>3, <2>4, <2>5, <2>6 DEF Link
<1>31. Link(w, T, s, Q)
  <2>1. s.dh_remote # w.dh_self
    BY <1>4, <1>22
  <2>2. \A k \in s.skipped : /\ k.dh.n \in Nat /\ k.dh.n <= w.dh_self.n
                             /\ k.dh # w.dh_self
    BY <1>22 DEF Link
  <2>3. OneAhead(w, T, s)
    <3>1. Derive(s.root_key, w.dh_self, s.dh_self) = Derive(s.root_key, s.dh_self, w.dh_self)
      <4>1. {w.dh_self, s.dh_self} = {s.dh_self, w.dh_self}
        OBVIOUS
      <4>. QED  BY <4>1, Zenon DEF Derive
    <3>2. \A l \in T : l.header.dh = s.dh_remote => l.header.number < w.previous
      BY <1>4, <1>19 DEF SenderInv
    <3>. QED  BY <1>19, <2>2, <3>1, <3>2 DEF OneAhead
  <2>4. s.dh_remote.n \in 0..w.dh_self.n
    BY <1>4, <1>22
  <2>5. \A l \in T \ Q :
           \/ l.header.dh = s.dh_remote /\ l.header.number >= s.recv_count
           \/ Keeps(s, l)
    BY <1>4 DEF Link
  <2>. QED  BY <2>1, <2>2, <2>3, <2>4, <2>5 DEF Link
<1>. QED  BY <1>25, <1>26, <1>30, <1>31

(* A message that decrypts: whichever way its key is found.                 *)
LEMMA DecryptLinks ==
    ASSUME NEW q \in Party, NEW s, NEW t, Sound(t), NEW S, NEW T, NEW R, NEW Q,
           SenderInv(s, S), SenderInv(t, T), ReceiverInv(t),
           Link(s, S, t, R), Link(t, T, s, Q), s.send_count \in Nat,
           \A k, l \in S : k.key = l.key => k = l,
           NEW m \in S \ R, KeyFor(q, t, m.header) = m.key,
           NEW w, w = Working(q, t, m.header)
    PROVE  /\ SenderInv(w, T) /\ ReceiverInv(w)
           /\ Link(s, S, w, R \cup {m}) /\ Link(w, T, s, Q)
<1>1. CASE Stored(t, m.header) # {}
  <2>1. m \in S
    OBVIOUS
  <2>. QED  BY <1>1, <2>1, StoredLinks, SMTT(60)
<1>2. CASE Stored(t, m.header) = {} /\ t.dh_remote = m.header.dh
  BY <1>2, SameChainLinks
<1>3. CASE Stored(t, m.header) = {} /\ t.dh_remote # m.header.dh
  BY <1>3, NextChainLinks
<1>. QED  BY <1>1, <1>2, <1>3

LEMMA PeerOfPeer == \A p \in Party : Peer(p) \in Party /\ Peer(p) # p /\ Peer(Peer(p)) = p
  BY DEF Party, Peer

(* A step of p that puts the session w in place of its own.                 *)
LEMMA OnePartyLinks ==
    ASSUME IInv, DeliveryInv, NEW p \in Party, NEW w, NEW S, NEW R, Sound(w),
           stored' = [stored EXCEPT ![p] = ToBytes(w)],
           sent' = [sent EXCEPT ![p] = S], received' = [received EXCEPT ![p] = R],
           SenderInv(w, S), ReceiverInv(w),
           Link(w, S, Session(Peer(p)), received[Peer(p)]),
           Link(Session(Peer(p)), sent[Peer(p)], w, R)
    PROVE  DeliveryInv'
<1>1. /\ stored = [q \in Party |-> stored[q]] /\ sent = [q \in Party |-> sent[q]]
      /\ received = [q \in Party |-> received[q]]
  BY DEF IInv
<1>2. PICK r : r = Peer(p)
  OBVIOUS
<1>3. r \in Party /\ r # p /\ Peer(r) = p /\ \A q \in Party : q = p \/ q = r
  BY <1>2 DEF Party, Peer
<1>4. sent'[p] = S /\ received'[p] = R /\ sent'[r] = sent[r] /\ received'[r] = received[r]
  BY <1>1, <1>3
<1>5. Session(r)' = Session(r)
  <2>1. stored'[r] = stored[r]
    BY <1>1, <1>3
  <2>. QED  BY <2>1 DEF Session
<1>6. Session(p)' = w
  <2>1. stored'[p] = ToBytes(w)
    BY <1>1
  <2>2. FromBytes(ToBytes(w)) = w
    BY SoundSurvives
  <2>. QED  BY <2>1, <2>2 DEF Session
<1>7. /\ SenderInv(Session(p)', sent'[p]) /\ ReceiverInv(Session(p)')
      /\ Link(Session(p)', sent'[p], Session(r)', received'[r])
  BY <1>2, <1>4, <1>5, <1>6
<1>8. /\ SenderInv(Session(r)', sent'[r]) /\ ReceiverInv(Session(r)')
      /\ Link(Session(r)', sent'[r], Session(p)', received'[p])
  <2>1. SenderInv(Session(r), sent[r]) /\ ReceiverInv(Session(r))
    BY <1>3 DEF DeliveryInv
  <2>2. Link(Session(r), sent[r], w, R)
    BY <1>2
  <2>. QED  BY <1>4, <1>5, <1>6, <2>1, <2>2
<1>9. ASSUME NEW q \in Party
      PROVE  /\ SenderInv(Session(q)', sent'[q]) /\ ReceiverInv(Session(q)')
             /\ Link(Session(q)', sent'[q], Session(Peer(q))', received'[Peer(q)])
  BY <1>2, <1>3, <1>7, <1>8
<1>. QED  BY <1>9 DEF DeliveryInv

(* The invariant, for a party and its peer.                                 *)
LEMMA BothSides ==
    ASSUME IInv, DeliveryInv, NEW p \in Party, NEW r, r = Peer(p)
    PROVE  /\ r \in Party /\ Sound(Session(p)) /\ Sound(Session(r))
           /\ SenderInv(Session(p), sent[p]) /\ ReceiverInv(Session(p))
           /\ SenderInv(Session(r), sent[r]) /\ ReceiverInv(Session(r))
           /\ Link(Session(p), sent[p], Session(r), received[r])
           /\ Link(Session(r), sent[r], Session(p), received[p])
           /\ \A k, l \in sent[r] : k.key = l.key => k = l
<1>1. r \in Party /\ Peer(r) = p
  BY PeerOfPeer
<1>2. /\ Sound(Session(p)) /\ Sound(Session(r))
      /\ \A k, l \in sent[r] : k.key = l.key => k = l
  BY <1>1 DEF IInv, PartyInv
<1>. QED  BY <1>1, <1>2 DEF DeliveryInv

LEMMA InitLinks == Init => DeliveryInv
<1> SUFFICES ASSUME Init PROVE DeliveryInv
  OBVIOUS
<1>1. PICK a, b : a = InitInitiator /\ b = InitResponder
  OBVIOUS
<1>2. PICK ka, kb : ka = Key("alice", 1) /\ kb = Key("bob", 0)
  OBVIOUS
<1>3. PICK root : root = Derive(<< >>, ka, kb)
  OBVIOUS
<1>4. root # << >>
  <2>1. root = Append(<< >>, {ka, kb})
    BY <1>3 DEF Derive
  <2>2. PICK e, x : e = << >> /\ x = {ka, kb}
    OBVIOUS
  <2>3. IsSeq(<< >>) /\ Len(<< >>) = 0
    BY ShortSeqs
  <2>4. Len(Append(e, x)) = Len(e) + 1
    BY <2>2, <2>3, AppendSeq
  <2>. QED  BY <2>1, <2>2, <2>3, <2>4
<1>5. /\ ka.n = 1 /\ kb.n = 0 /\ NoKey.n = 0 /\ ka # NoKey /\ kb # NoKey /\ ka # kb
  BY <1>2 DEF Key, NoKey
<1>6. /\ Chain(root).root = root /\ Chain(root).step = 0
      /\ NoChain.root = << >> /\ NoChain.step = 0
  BY DEF Chain, NoChain
<1>7. a = [dh_self |-> ka, dh_remote |-> kb, root_key |-> root,
           sending |-> Chain(root), receiving |-> NoChain,
           send_count |-> 0, recv_count |-> 0, previous |-> 0, skipped |-> {}]
  BY <1>1, <1>2, <1>3 DEF InitInitiator
<1>8. b = [dh_self |-> kb, dh_remote |-> NoKey, root_key |-> << >>,
           sending |-> NoChain, receiving |-> NoChain,
           send_count |-> 0, recv_count |-> 0, previous |-> 0, skipped |-> {}]
  BY <1>1, <1>2 DEF InitResponder
<1>9. SenderInv(a, {}) /\ ReceiverInv(a) /\ SenderInv(b, {}) /\ ReceiverInv(b)
  BY <1>4, <1>5, <1>6, <1>7, <1>8 DEF SenderInv, ReceiverInv
<1>10. Link(a, {}, b, {})
  <2>1. OneAhead(a, {}, b)
    <3>1. {kb, ka} = {ka, kb}
      OBVIOUS
    <3>2. Derive(<< >>, kb, ka) = root
      BY <1>3, <3>1, Zenon DEF Derive
    <3>. QED  BY <1>7, <1>8, <3>2 DEF OneAhead
  <2>2. b.dh_remote # a.dh_self /\ b.dh_remote.n \in 0..a.dh_self.n /\ b.skipped = {}
    BY <1>5, <1>7, <1>8
  <2>. QED  BY <2>1, <2>2 DEF Link
<1>11. Link(b, {}, a, {})
  <2>1. InStep(b, a)
    BY <1>3, <1>6, <1>7, <1>8 DEF InStep
  <2>2. a.dh_remote = b.dh_self /\ a.dh_remote.n \in 0..b.dh_self.n /\ a.skipped = {}
    BY <1>5, <1>7, <1>8
  <2>. QED  BY <2>1, <2>2 DEF Link
<1>12. \A p \in Party : sent[p] = {} /\ received[p] = {}
  BY DEF Init
<1>13. Session("alice") = a /\ Session("bob") = b
  <2>1. Sound(a) /\ Sound(b)
    <3>1. IsSession(a) /\ IsSession(b)
      BY <1>7, <1>8, FS_EmptySet DEF IsSession
    <3>2. IsSeq(root) /\ IsSeq(<< >>) /\ Len(<< >>) = 0 /\ Len(root) \in Nat
      <4>1. PICK e, x : e = << >> /\ x = {ka, kb}
        OBVIOUS
      <4>2. IsSeq(e) /\ Len(e) = 0
        BY <4>1, ShortSeqs
      <4>3. root = Append(e, x)
        BY <1>3, <4>1 DEF Derive
      <4>. QED  BY <4>1, <4>2, <4>3, AppendSeq
    <3>3. IsChain(Chain(root)) /\ IsChain(NoChain)
      BY <3>2 DEF IsChain, Chain, NoChain
    <3>. QED  BY <1>6, <1>7, <1>8, <3>1, <3>2, <3>3 DEF Sound
  <2>2. FromBytes(ToBytes(a)) = a /\ FromBytes(ToBytes(b)) = b
    BY <2>1, SoundSurvives
  <2>3. stored["alice"] = ToBytes(a) /\ stored["bob"] = ToBytes(b)
    BY <1>1 DEF Init, Party
  <2>. QED  BY <2>2, <2>3 DEF Session
<1>14. Peer("alice") = "bob" /\ Peer("bob") = "alice"
  BY DEF Peer
<1>15. ASSUME NEW p \in Party
       PROVE  /\ SenderInv(Session(p), sent[p]) /\ ReceiverInv(Session(p))
              /\ Link(Session(p), sent[p], Session(Peer(p)), received[Peer(p)])
  <2>1. CASE p = "alice"
    BY <1>9, <1>10, <1>12, <1>13, <1>14, <2>1 DEF Party
  <2>2. CASE p = "bob"
    BY <1>9, <1>11, <1>12, <1>13, <1>14, <2>2 DEF Party
  <2>. QED  BY <2>1, <2>2 DEF Party
<1>. QED  BY <1>15 DEF DeliveryInv

LEMMA EncryptStepLinks ==
    ASSUME IInv, DeliveryInv, NEW p \in Party, Encrypt(p)
    PROVE  DeliveryInv'
<1>1. PICK s, S, R, r : s = Session(p) /\ S = sent[p] /\ R = received[p] /\ r = Peer(p)
  OBVIOUS
<1>2. PICK m : m = [id |-> Cardinality(S) + 1, header |-> HeaderOf(s), key |-> s.sending]
  OBVIOUS
<1>3. PICK w : w = AfterSend(s)
  OBVIOUS
<1>4. /\ Sound(s) /\ SenderInv(s, S) /\ ReceiverInv(s)
      /\ Link(s, S, Session(r), received[r]) /\ Link(Session(r), sent[r], s, R)
  BY <1>1, BothSides
<1>5. s.sending # NoChain
  BY <1>1 DEF Encrypt
<1>6. /\ SenderInv(w, S \cup {m}) /\ ReceiverInv(w)
      /\ Link(w, S \cup {m}, Session(r), received[r]) /\ Link(Session(r), sent[r], w, R)
  <2>1. /\ SenderInv(w, S \cup {m}) /\ ReceiverInv(w)
        /\ \A t, Q : Link(s, S, t, Q) => Link(w, S \cup {m}, t, Q)
        /\ \A t, T, Q : Link(t, T, s, Q) => Link(t, T, w, Q)
    BY <1>2, <1>3, <1>4, <1>5, EncryptLinks
  <2>. QED  BY <1>4, <2>1
<1>7. Sound(w)
  BY <1>3, <1>4, SendFacts
<1>8. sent = [q \in Party |-> sent[q]] /\ received = [q \in Party |-> received[q]]
  BY DEF IInv
<1>9. /\ stored' = [stored EXCEPT ![p] = ToBytes(w)]
      /\ sent' = [sent EXCEPT ![p] = S \cup {m}]
  BY <1>1, <1>2, <1>3 DEF Encrypt
<1>10. received' = [received EXCEPT ![p] = R]
  BY <1>1, <1>8 DEF Encrypt
<1>. QED  BY <1>1, <1>6, <1>7, <1>9, <1>10, OnePartyLinks

LEMMA DecryptStepLinks ==
    ASSUME IInv, DeliveryInv, NEW p \in Party, NEW m \in sent[Peer(p)],
           NEW h \in {m.header} \cup Garbled(m.header),
           Decrypt(p, EncodeEnvelope(h, Ciphertext(m)))
    PROVE  DeliveryInv'
<1>1. PICK t, T, R, r : t = Session(p) /\ T = sent[p] /\ R = received[p] /\ r = Peer(p)
  OBVIOUS
<1>2. PICK s, S, Q : s = Session(r) /\ S = sent[r] /\ Q = received[r]
  OBVIOUS
<1>3. /\ r \in Party /\ Sound(t) /\ Sound(s) /\ SenderInv(t, T) /\ ReceiverInv(t)
      /\ SenderInv(s, S) /\ Link(t, T, s, Q) /\ Link(s, S, t, R)
      /\ \A k, l \in S : k.key = l.key => k = l
  BY <1>1, <1>2, BothSides
<1>4. /\ IsHeader(m.header)
      /\ stored' = [stored EXCEPT ![p] = ToBytes(AfterDecrypt(p, t, m, h))]
      /\ IF Decrypts(p, t, m, h) THEN received' = [received EXCEPT ![p] = @ \cup {m}]
                                 ELSE received' = received
      /\ sent' = sent
  BY <1>1, DeliveryView
<1>5. sent = [q \in Party |-> sent[q]] /\ received = [q \in Party |-> received[q]]
  BY DEF IInv
<1>6. sent' = [sent EXCEPT ![p] = T]
  BY <1>1, <1>4, <1>5
<1>7. CASE Decrypts(p, t, m, h)
  <2>1. PICK w : w = Working(p, t, m.header)
    OBVIOUS
  <2>2. h = m.header /\ KeyFor(p, t, m.header) = m.key
    BY <1>7 DEF Decrypts
  <2>3. Sound(w) /\ m \notin R
    <3>1. PartyInv(p, t, T, R)
      BY <1>1 DEF IInv
    <3>2. PartyInv(p, w, T, R \cup {m}) /\ m \notin R
      BY <1>4, <2>1, <2>2, <3>1, DecryptKeeps
    <3>. QED  BY <3>2 DEF PartyInv
  <2>4. m \in S \ R
    BY <1>1, <1>2, <2>3
  <2>5. /\ SenderInv(w, T) /\ ReceiverInv(w)
        /\ Link(s, S, w, R \cup {m}) /\ Link(w, T, s, Q)
    <3>1. s.send_count \in Nat
      BY <1>3, SoundFields
    <3>. QED  BY <1>3, <2>1, <2>2, <2>4, <3>1, DecryptLinks
  <2>6. stored' = [stored EXCEPT ![p] = ToBytes(w)]
    BY <1>4, <1>7, <2>1, <2>2 DEF AfterDecrypt
  <2>7. received' = [received EXCEPT ![p] = R \cup {m}]
    BY <1>1, <1>4, <1>7
  <2>. QED  BY <1>1, <1>2, <1>6, <2>3, <2>5, <2>6, <2>7, OnePartyLinks
<1>8. CASE ~ Decrypts(p, t, m, h)
  <2>1. stored' = [stored EXCEPT ![p] = ToBytes(t)]
    BY <1>4, <1>8 DEF AfterDecrypt
  <2>2. received' = [received EXCEPT ![p] = R]
    BY <1>1, <1>4, <1>5, <1>8
  <2>. QED  BY <1>1, <1>2, <1>3, <1>6, <2>1, <2>2, OnePartyLinks
<1>. QED  BY <1>7, <1>8

LEMMA NextLinks ==
    ASSUME IInv, DeliveryInv, [Next]_vars
    PROVE  DeliveryInv'
<1>1. ASSUME NEW p \in Party, Encrypt(p)
      PROVE  DeliveryInv'
  BY <1>1, EncryptStepLinks
<1>2. ASSUME NEW p \in Party, NEW m \in sent[Peer(p)],
             NEW h \in {m.header} \cup Garbled(m.header),
             Decrypt(p, EncodeEnvelope(h, Ciphertext(m)))
      PROVE  DeliveryInv'
  BY <1>2, DecryptStepLinks
<1>3. CASE UNCHANGED vars
  BY <1>3 DEF vars, DeliveryInv, Session
<1>. QED  BY <1>1, <1>2, <1>3 DEF Next

(* Between two sessions (state.rs:124-192): the parties mix the same outputs *)
(* into their root keys and are one ratchet step apart, in turn; a message  *)
(* the receiver is missing is ahead on its receiving chain, among its       *)
(* skipped keys, or on the chain of the key pair it has not seen yet.       *)
THEOREM RatchetLinks == Spec => []DeliveryInv
<1>1. IInv /\ DeliveryInv /\ [Next]_vars => DeliveryInv'
  BY NextLinks
<1>. QED  BY RatchetInvariant, InitLinks, <1>1, PTL DEF Spec

-----------------------------------------------------------------------------
(* A missing message can be decrypted                                       *)

(* By the key kept for it, which is the only one under its header.          *)
LEMMA KeptDecrypts ==
    ASSUME NEW q, NEW s, NEW t, NEW S, NEW R, SenderInv(s, S), ReceiverInv(t),
           Link(s, S, t, R), NEW m \in S, Stored(t, m.header) # {}
    PROVE  Decrypts(q, t, m, m.header)
<1>1. PICK k : k = CHOOSE x \in Stored(t, m.header) : TRUE
  OBVIOUS
<1>2. k \in t.skipped /\ k.dh = m.header.dh /\ k.number = m.header.number
  BY <1>1 DEF Stored
<1>3. IsChain(k.key) /\ IsChain(m.key) /\ k.key.step = m.key.step
  BY <1>2 DEF SenderInv, ReceiverInv
<1>4. k.key.root = m.key.root
  BY <1>2 DEF Link
<1>5. k.key = m.key
  BY <1>3, <1>4, SameKey
<1>. QED  BY <1>1, <1>5 DEF Decrypts, Reaches, KeyFor

(* By following the receiving chain, unless that skips too many keys.       *)
LEMMA SameChainDecrypts ==
    ASSUME NEW q, NEW s, NEW t, Sound(t), NEW S, NEW R, SenderInv(s, S), ReceiverInv(t),
           Link(s, S, t, R), NEW m \in S, Stored(t, m.header) = {},
           m.header.dh = t.dh_remote, m.header.number >= t.recv_count
    PROVE  \/ Decrypts(q, t, m, m.header)
           \/ /\ ~ Reaches(q, t, m.header)
              /\ Cardinality(t.skipped) + m.header.number + m.header.previous
                   > MaxSkipped
<1>1. PICK n, gap, u : n = m.header.number /\ gap = Gap(t, n) /\ u = Skip(t, n)
  OBVIOUS
<1>2. /\ n \in Nat /\ m.header.previous \in Nat /\ m.key.step = n /\ IsChain(m.key)
      /\ m.key.root # << >> /\ m.header.dh # NoKey
  BY <1>1 DEF SenderInv, IsHeader
<1>3. m.key.root = t.receiving.root
  BY DEF Link
<1>4. t.recv_count \in Nat /\ t.receiving.step = t.recv_count
  BY SoundFields DEF ReceiverInv
<1>5. /\ t.receiving # NoChain
      /\ gap = IF n <= t.recv_count THEN 0 ELSE n - t.recv_count
  BY <1>1, <1>2, <1>3, GapTo
<1>6. Skipping(t, u, gap)
  BY <1>1, <1>2, SkipFields
<1>7. OnChainOf(q, t, m.header) = t
  BY DEF OnChainOf
<1>8. Reaches(q, t, m.header) <=> CanSkip(t, n)
  BY <1>1, <1>5, <1>7 DEF Reaches
<1>9. CASE CanSkip(t, n)
  <2>1. KeyFor(q, t, m.header) = u.receiving
    BY <1>1, <1>7 DEF KeyFor
  <2>2. IsChain(u.receiving)
    <3>1. Sound(u)
      BY <1>1, <1>2, SkipFacts
    <3>. QED  BY <3>1, SoundFields
  <2>3. /\ u.receiving.root = t.receiving.root
        /\ u.receiving.step = t.receiving.step + gap
    BY <1>6 DEF Skipping
  <2>4. t.receiving.step + gap = n
    BY <1>1, <1>2, <1>4, <1>5
  <2>5. u.receiving = m.key
    BY <1>2, <1>3, <2>2, <2>3, <2>4, SameKey
  <2>. QED  BY <1>8, <1>9, <2>1, <2>5 DEF Decrypts
<1>10. CASE ~ CanSkip(t, n)
  <2>1. Cardinality(t.skipped) \in Nat
    BY <1>6 DEF Skipping
  <2>2. Cardinality(t.skipped) + gap > MaxSkipped
    <3>1. ~ (Cardinality(t.skipped) + gap <= MaxSkipped)
      BY <1>1, <1>10 DEF CanSkip
    <3>2. gap \in Nat /\ MaxSkipped \in Nat
      BY <1>2, <1>4, <1>5, RatchetAssumption
    <3>. QED  BY <2>1, <3>1, <3>2
  <2>3. gap \in Nat /\ gap <= n
    BY <1>2, <1>4, <1>5
  <2>4. Cardinality(t.skipped) + n + m.header.previous > MaxSkipped
    BY <1>2, <2>1, <2>2, <2>3, RatchetAssumption
  <2>. QED  BY <1>1, <1>8, <1>10, <2>4
<1>. QED  BY <1>9, <1>10

(* By a ratchet step, unless that skips too many keys.                      *)
LEMMA NextChainDecrypts ==
    ASSUME NEW q, NEW s, NEW t, Sound(t), NEW S, NEW R, SenderInv(s, S), ReceiverInv(t),
           Link(s, S, t, R), NEW m \in S, Stored(t, m.header) = {},
           m.header.dh = s.dh_self, t.dh_remote # s.dh_self
    PROVE  \/ Decrypts(q, t, m, m.header)
           \/ /\ ~ Reaches(q, t, m.header)
              /\ Cardinality(t.skipped) + m.header.number + m.header.previous
                   > MaxSkipped
<1>1. PICK n, d, before : n = m.header.number /\ d = m.header.dh /\ before = m.header.previous
  OBVIOUS
<1>2. /\ n \in Nat /\ before \in Nat /\ m.key.step = n /\ IsChain(m.key) /\ d # NoKey
      /\ m.key.root = s.root_key
  BY <1>1 DEF SenderInv, IsHeader
<1>3. s.root_key = Derive(t.root_key, t.dh_self, d) /\ t.dh_remote # d
  BY <1>1 DEF Link, OneAhead
<1>4. PICK t1, g1 : t1 = Skip(t, before) /\ g1 = Gap(t, before)
  OBVIOUS
<1>5. PICK t2 : t2 = DHRatchetStep(q, t1, d)
  OBVIOUS
<1>6. PICK u, g2 : u = Skip(t2, n) /\ g2 = Gap(t2, n)
  OBVIOUS
<1>7. Sound(t1) /\ Sound(t2) /\ Sound(u)
  <2>1. Sound(t1)
    BY <1>2, <1>4, SkipFacts
  <2>2. Sound(t2)
    BY <1>5, <2>1, RatchetFacts
  <2>. QED  BY <1>2, <1>6, <2>1, <2>2, SkipFacts
<1>8. Skipping(t, t1, g1)
  BY <1>2, <1>4, SkipFields
<1>9. /\ t1.dh_self = t.dh_self /\ t1.root_key = t.root_key
      /\ Cardinality(t.skipped) \in Nat /\ Cardinality(t1.skipped) \in Nat
      /\ Cardinality(t1.skipped) <= Cardinality(t.skipped) + g1
  BY <1>8 DEF Skipping
<1>10. s.root_key = Derive(t1.root_key, t1.dh_self, d)
  BY <1>3, <1>9
<1>11. /\ t2.dh_remote = d /\ t2.receiving.root = s.root_key /\ s.root_key # << >>
       /\ t2.receiving.step = 0 /\ t2.recv_count = 0 /\ t2.skipped = t1.skipped
  BY <1>5, <1>7, <1>10, RatchetFields
<1>12. t2.receiving # NoChain /\ g2 = n
  <2>1. /\ t2.receiving # NoChain
        /\ g2 = IF n <= t2.recv_count THEN 0 ELSE n - t2.recv_count
    BY <1>2, <1>6, <1>7, <1>11, GapTo
  <2>. QED  BY <1>2, <1>11, <2>1
<1>13. g1 \in Nat /\ g1 <= before
  <2>1. t.recv_count \in Nat
    BY SoundFields
  <2>. QED  BY <1>2, <1>4, <2>1 DEF Gap
<1>14. OnChainOf(q, t, m.header) = t2
  BY <1>1, <1>3, <1>4, <1>5 DEF OnChainOf
<1>15. Reaches(q, t, m.header) <=> CanSkip(t, before) /\ CanSkip(t2, n)
  BY <1>1, <1>3, <1>12, <1>14 DEF Reaches
<1>16. CASE CanSkip(t, before) /\ CanSkip(t2, n)
  <2>1. KeyFor(q, t, m.header) = u.receiving
    BY <1>1, <1>6, <1>14 DEF KeyFor
  <2>2. /\ u.receiving.root = t2.receiving.root
        /\ u.receiving.step = t2.receiving.step + g2
    <3>1. Skipping(t2, u, g2)
      BY <1>2, <1>6, <1>7, SkipFields
    <3>. QED  BY <3>1 DEF Skipping
  <2>3. u.receiving = m.key
    <3>1. IsChain(u.receiving)
      BY <1>7, SoundFields
    <3>2. u.receiving.step = n
      BY <1>2, <1>11, <1>12, <2>2
    <3>. QED  BY <1>2, <1>11, <2>2, <3>1, <3>2, SameKey
  <2>. QED  BY <1>15, <1>16, <2>1, <2>3 DEF Decrypts
<1>17. CASE ~ CanSkip(t, before)
  <2>1. ~ (Cardinality(t.skipped) + g1 <= MaxSkipped)
    BY <1>4, <1>17 DEF CanSkip
  <2>2. Cardinality(t.skipped) + n + before > MaxSkipped
    BY <1>2, <1>9, <1>13, <2>1, RatchetAssumption
  <2>. QED  BY <1>1, <1>15, <1>17, <2>2
<1>18. CASE ~ CanSkip(t2, n)
  <2>1. ~ (Cardinality(t1.skipped) + n <= MaxSkipped)
    BY <1>6, <1>11, <1>12, <1>18 DEF CanSkip
  <2>2. Cardinality(t.skipped) + n + before > MaxSkipped
    BY <1>2, <1>9, <1>13, <2>1, RatchetAssumption
  <2>. QED  BY <1>1, <1>15, <1>18, <2>2
<1>. QED  BY <1>16, <1>17, <1>18

(* A message that was not received yet can still be decrypted, whatever was *)
(* delivered, repeated, garbled or reordered before it, unless the cap on   *)
(* skipped keys is in the way (state.rs:165-191, 260-279).                  *)
THEOREM RatchetLosesNothing == Spec => []NothingIsLost
<1>1. IInv /\ DeliveryInv => NothingIsLost
  <2> SUFFICES ASSUME IInv, DeliveryInv, NEW p \in Party,
                      NEW m \in sent[Peer(p)] \ received[p]
               PROVE  \/ Decrypts(p, Session(p), m, m.header)
                      \/ /\ ~ Reaches(p, Session(p), m.header)
                         /\ Cardinality(Session(p).skipped) + m.header.number
                              + m.header.previous > MaxSkipped
    BY DEF NothingIsLost
  <2>1. PICK t, R, r : t = Session(p) /\ R = received[p] /\ r = Peer(p)
    OBVIOUS
  <2>2. PICK s, S : s = Session(r) /\ S = sent[r]
    OBVIOUS
  <2>3. /\ Sound(t) /\ ReceiverInv(t) /\ SenderInv(s, S) /\ Link(s, S, t, R)
    BY <2>1, <2>2, BothSides
  <2>4. m \in S /\ m \in S \ R
    BY <2>1, <2>2
  <2>5. CASE Stored(t, m.header) # {}
    BY <2>1, <2>3, <2>4, <2>5, KeptDecrypts
  <2>6. CASE /\ Stored(t, m.header) = {}
             /\ m.header.dh = t.dh_remote /\ m.header.number >= t.recv_count
    BY <2>1, <2>3, <2>4, <2>6, SameChainDecrypts
  <2>7. CASE /\ Stored(t, m.header) = {}
             /\ m.header.dh = s.dh_self /\ t.dh_remote # s.dh_self
    BY <2>1, <2>3, <2>4, <2>7, NextChainDecrypts
  <2>8. Keeps(t, m) => Stored(t, m.header) # {}
    BY DEF Keeps, Stored
  <2>. QED  BY <2>3, <2>4, <2>5, <2>6, <2>7, <2>8 DEF Link
<1>. QED  BY RatchetInvariant, RatchetLinks, <1>1, PTL
===============================================================================
