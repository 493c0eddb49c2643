------------------------------ MODULE DataFacts ------------------------------
(* Facts about finite data the proofs share: induction, stated with sets in *)
(* the place of predicates, least and greatest elements, and sequences.     *)
EXTENDS Integers, Sequences, FiniteSets,
        FiniteSetTheorems, WellFoundedInduction, TLAPS

(* A set of naturals has a least element.                                   *)
LEMMA LeastElement ==
    ASSUME NEW S \in SUBSET Nat, S # {}
    PROVE  \E n \in S : \A m \in S : n <= m
<1>1. PICK n \in S : \A m \in S : <<m, n>> \notin OpToRel(<, Nat)
  BY WFMin, NatLessThanWellFounded, Zenon
<1>2. \A m \in S : ~(m < n)
  BY <1>1, Zenon DEF OpToRel
<1>. QED
  BY <1>2

(* A set of naturals with 0 and every successor is all of them.             *)
LEMMA NatInductionOnSets ==
    ASSUME NEW S, 0 \in S, \A n \in Nat : n \in S => n + 1 \in S
    PROVE  Nat \subseteq S
<1>1. SUFFICES ASSUME Nat \ S # {} PROVE FALSE
  OBVIOUS
<1>2. PICK n \in Nat \ S : \A m \in Nat \ S : n <= m
  BY <1>1, LeastElement
<1>3. n # 0 /\ n - 1 \in Nat
  BY <1>2
<1>4. n - 1 \in S
  BY <1>2, <1>3
<1>. QED
  BY <1>2, <1>3, <1>4

(* A family with the empty set, and with every subset of a finite set that  *)
(* is one element more than a member, has the finite set.                   *)
LEMMA FiniteInductionOnSets ==
    ASSUME NEW S, IsFiniteSet(S), NEW F, {} \in F,
           \A T \in SUBSET S : \A x \in S \ T : T \in F => T \cup {x} \in F
    PROVE  S \in F
<1> DEFINE Bad == {T \in SUBSET S : T \notin F}
           Sizes == {Cardinality(T) : T \in Bad}
<1>1. \A T \in SUBSET S : IsFiniteSet(T) /\ Cardinality(T) \in Nat
  BY FS_Subset, FS_CardinalityType
<1>2. SUFFICES ASSUME Bad # {} PROVE FALSE
  OBVIOUS
<1>3. Sizes \in SUBSET Nat /\ Sizes # {}
  BY <1>1, <1>2
<1>4. PICK k \in Sizes : \A m \in Sizes : k <= m
  <2> HIDE DEF Sizes
  <2>. QED  BY <1>3, LeastElement
<1>5. PICK T \in Bad : Cardinality(T) = k
  BY <1>4
<1>6. PICK x \in T : TRUE
  BY <1>5
<1>7. /\ T \ {x} \in SUBSET S /\ x \in S \ (T \ {x}) /\ (T \ {x}) \cup {x} = T
  BY <1>5, <1>6
<1>8. Cardinality(T \ {x}) = k - 1 /\ k \in Nat
  BY <1>1, <1>3, <1>5, <1>6, FS_RemoveElement
<1>9. T \ {x} \in F
  <2>1. SUFFICES ASSUME T \ {x} \in Bad PROVE FALSE
    BY <1>7
  <2>2. Cardinality(T \ {x}) \in Sizes
    BY <2>1
  <2>3. k <= Cardinality(T \ {x})
    BY <1>4, <2>2
  <2>. QED  BY <1>8, <2>3
<1>. QED
  BY <1>5, <1>7, <1>9

(* A finite set of integers that is not empty has a greatest element.       *)
LEMMA GreatestElement ==
    ASSUME NEW S \in SUBSET Int, IsFiniteSet(S), S # {}
    PROVE  \E n \in S : \A m \in S : m <= n
<1> DEFINE F == {T \in SUBSET S : T # {} => \E n \in T : \A m \in T : m <= n}
<1>1. {} \in F
  OBVIOUS
<1>2. ASSUME NEW T \in SUBSET S, NEW x \in S \ T, T \in F
      PROVE  T \cup {x} \in F
  <2>1. CASE T = {}
    BY <2>1
  <2>2. CASE T # {}
    <3>1. PICK n \in T : \A m \in T : m <= n
      BY <1>2, <2>2
    <3>2. CASE x <= n
      BY <3>1, <3>2
    <3>3. CASE ~ (x <= n)
      BY <3>1, <3>3
    <3>. QED  BY <3>2, <3>3
  <2>. QED  BY <2>1, <2>2
<1>3. S \in F
  <2> HIDE DEF F
  <2>. QED  BY <1>1, <1>2, FiniteInductionOnSets
<1>. QED
  BY <1>3

(* A function that maps a set into itself can be iterated.                  *)
LEMMA IterationExists ==
    ASSUME NEW R, NEW base \in R, NEW G \in [R -> R]
    PROVE  \E f \in [Nat -> R] : f[0] = base /\ \A k \in Nat : f[k + 1] = G[f[k]]
<1> DEFINE Upto(n, f) == /\ f \in [0..n -> R] /\ f[0] = base
                         /\ \A i \in Nat : i < n => f[i + 1] = G[f[i]]
           K == {n \in Nat : \E f : Upto(n, f)}
           H(n) == CHOOSE f : Upto(n, f)
<1>1. 0 \in K
  <2> DEFINE f == [i \in 0..0 |-> base]
  <2>1. Upto(0, f)
    OBVIOUS
  <2> HIDE DEF f, Upto
  <2>. QED  BY <2>1
<1>2. ASSUME NEW n \in Nat, n \in K
      PROVE  n + 1 \in K
  <2>1. PICK f : Upto(n, f)
    BY <1>2
  <2> DEFINE g == [i \in 0..(n + 1) |-> IF i = n + 1 THEN G[f[n]] ELSE f[i]]
  <2>2. \A i \in 0..n : f[i] \in R
    BY <2>1
  <2>3. \A i \in 0..(n + 1) : g[i] = IF i = n + 1 THEN G[f[n]] ELSE f[i]
    OBVIOUS
  <2>4. g \in [0..(n + 1) -> R]
    BY <2>2
  <2> HIDE DEF g
  <2>5. g[0] = base
    BY <2>1, <2>3
  <2>6. ASSUME NEW i \in Nat, i < n + 1
        PROVE  g[i + 1] = G[g[i]]
    <3>1. g[i] = f[i]
      BY <2>3, <2>6
    <3>2. CASE i = n
      BY <2>3, <3>1, <3>2
    <3>3. CASE i < n
      <4>1. g[i + 1] = f[i + 1]
        BY <2>3, <3>3
      <4>. QED  BY <2>1, <3>1, <3>3, <4>1
    <3>. QED  BY <2>6, <3>2, <3>3
  <2>7. Upto(n + 1, g)
    BY <2>4, <2>5, <2>6
  <2> HIDE DEF Upto
  <2>. QED  BY <2>7
<1>3. Nat \subseteq K
  <2> HIDE DEF K
  <2>. QED  BY <1>1, <1>2, NatInductionOnSets
<1>4. \A n \in Nat : Upto(n, H(n))
  <2> HIDE DEF Upto
  <2>. QED  BY <1>3
<1>5. ASSUME NEW n \in Nat
      PROVE  H(n + 1)[n] = H(n)[n]
  <2> DEFINE f == H(n)
             g == H(n + 1)
             E == {i \in Nat : i <= n => f[i] = g[i]}
  <2>1. Upto(n, f) /\ Upto(n + 1, g)
    <3> HIDE DEF Upto, H
    <3>. QED  BY <1>4
  <2> HIDE DEF f, g
  <2>2. 0 \in E
    BY <2>1
  <2>3. \A i \in Nat : i \in E => i + 1 \in E
    <3> SUFFICES ASSUME NEW i \in Nat, i \in E, i + 1 <= n
                 PROVE  f[i + 1] = g[i + 1]
      OBVIOUS
    <3>. QED  BY <2>1
  <2>4. Nat \subseteq E
    <3> HIDE DEF E
    <3>. QED  BY <2>2, <2>3, NatInductionOnSets
  <2>5. f[n] = g[n]
    BY <2>4
  <2> HIDE DEF H
  <2>. QED  BY <2>5 DEF f, g
<1> DEFINE F == [n \in Nat |-> H(n)[n]]
<1>6. F \in [Nat -> R]
  <2>1. \A n \in Nat : H(n)[n] \in R
    <3> HIDE DEF H
    <3>. QED  BY <1>4
  <2> HIDE DEF H
  <2>. QED  BY <2>1
<1>7. F[0] = base /\ \A k \in Nat : F[k + 1] = G[F[k]]
  <2> HIDE DEF H
  <2>1. \A n \in Nat : F[n] = H(n)[n]
    OBVIOUS
  <2> HIDE DEF F
  <2>2. F[0] = base
    BY <1>4, <2>1
  <2>3. ASSUME NEW k \in Nat
        PROVE  F[k + 1] = G[F[k]]
    <3>1. H(k + 1)[k + 1] = G[H(k + 1)[k]]
      BY <1>4
    <3>. QED  BY <1>5, <2>1, <3>1
  <2>. QED  BY <2>2, <2>3
<1> HIDE DEF F
<1>. QED  BY <1>6, <1>7

-----------------------------------------------------------------------------
(* Sequences *)

(* A function on 1..n is a sequence of length n.                            *)
LEMMA FunctionLen ==
    ASSUME NEW n \in Nat, NEW f, f = [i \in 1..n |-> f[i]]
    PROVE  Len(f) = n
<1> DEFINE S == {f[i] : i \in 1..n}
<1>1. f \in [1..n -> S]
  OBVIOUS
<1>2. f \in Seq(S)
  BY <1>1
<1>3. DOMAIN f = 1..n
  OBVIOUS
<1>4. Len(f) \in Nat /\ DOMAIN f = 1..Len(f)
  BY <1>2
<1>. QED
  BY <1>3, <1>4

(* What a sequence holds.                                                   *)
Items(s) == {s[i] : i \in 1..Len(s)}

IsSeq(s) == s \in Seq(Items(s))

(* The empty sequence holds nothing, a sequence of one that one.            *)
LEMMA ShortSeqs ==
    /\ IsSeq(<< >>) /\ Items(<< >>) = {}
    /\ \A x : IsSeq(<<x>>) /\ Items(<<x>>) = {x}
  BY DEF IsSeq, Items

(* Taking the first item off leaves nothing new.                            *)
LEMMA TailSeq ==
    ASSUME NEW s, IsSeq(s), s # << >>
    PROVE  /\ IsSeq(Tail(s)) /\ Items(Tail(s)) \subseteq Items(s)
           /\ Head(s) \in Items(s)
<1> DEFINE S == Items(s)
           t == Tail(s)
<1>1. s \in Seq(S)
  BY DEF IsSeq
<1>2. /\ t \in Seq(S) /\ Len(s) \in Nat /\ Len(s) > 0
      /\ Len(t) = Len(s) - 1 /\ \A i \in 1..Len(t) : t[i] = s[i + 1]
  <2> HIDE DEF S
  <2>. QED  BY <1>1
<1>3. Items(t) \subseteq S
  <2> HIDE DEF t
  <2>. QED  BY <1>2 DEF Items
<1>4. t \in Seq(Items(t))
  <2>1. t = [i \in 1..Len(t) |-> t[i]] /\ Len(t) \in Nat
    <3> HIDE DEF S, t
    <3>. QED  BY <1>2
  <2>2. t \in [1..Len(t) -> Items(t)]
    <3> HIDE DEF t
    <3>. QED  BY <2>1 DEF Items
  <2> HIDE DEF t
  <2>. QED  BY <2>1, <2>2
<1>5. Head(s) = s[1]
  <2> HIDE DEF S
  <2>. QED  BY <1>1, <1>2
<1>. QED  BY <1>2, <1>3, <1>4, <1>5 DEF Items, IsSeq

(* Two sequences one after the other hold what both hold.                   *)
LEMMA ConcatSeq ==
    ASSUME NEW s, IsSeq(s), NEW t, IsSeq(t)
    PROVE  IsSeq(s \o t) /\ Items(s \o t) = Items(s) \cup Items(t)
<1> DEFINE S == Items(s) \cup Items(t)
           u == s \o t
<1>1. s \in Seq(S) /\ t \in Seq(S)
  <2>1. /\ s \in Seq(Items(s)) /\ t \in Seq(Items(t))
        /\ Items(s) \subseteq S /\ Items(t) \subseteq S
    BY DEF IsSeq
  <2> HIDE DEF S
  <2>. QED  BY <2>1
<1>2. /\ u \in Seq(S) /\ Len(s) \in Nat /\ Len(t) \in Nat
      /\ Len(u) = Len(s) + Len(t)
      /\ \A i \in 1..Len(u) : u[i] = IF i <= Len(s) THEN s[i] ELSE t[i - Len(s)]
  <2> HIDE DEF S
  <2>. QED  BY <1>1
<1>3. \A i \in 1..Len(u) : u[i] \in S
  <2> HIDE DEF u
  <2>. QED  BY <1>2 DEF Items
<1>4. \A i \in 1..Len(s) : i \in 1..Len(u) /\ u[i] = s[i]
  <2> HIDE DEF u
  <2>. QED  BY <1>2
<1>5. ASSUME NEW i \in 1..Len(t)
      PROVE  i + Len(s) \in 1..Len(u) /\ u[i + Len(s)] = t[i]
  <2> HIDE DEF u
  <2> DEFINE k == i + Len(s)
  <2>1. k \in 1..Len(u) /\ ~ (k <= Len(s)) /\ k - Len(s) = i
    BY <1>2
  <2> HIDE DEF k
  <2>2. u[k] = t[i]
    BY <1>2, <2>1
  <2>. QED  BY <2>1, <2>2 DEF k
<1>6. Items(u) = S
  <2> HIDE DEF u
  <2>. QED  BY <1>3, <1>4, <1>5 DEF Items
<1>. QED  BY <1>2, <1>6 DEF IsSeq

(* The length of a concatenation.                                           *)
LEMMA LenConcat ==
    ASSUME NEW s, IsSeq(s), NEW t, IsSeq(t)
    PROVE  Len(s \o t) = Len(s) + Len(t) /\ Len(s) \in Nat /\ Len(t) \in Nat
<1> DEFINE S == Items(s) \cup Items(t)
<1>1. s \in Seq(S) /\ t \in Seq(S)
  <2>1. /\ s \in Seq(Items(s)) /\ t \in Seq(Items(t))
        /\ Items(s) \subseteq S /\ Items(t) \subseteq S
    BY DEF IsSeq
  <2> HIDE DEF S
  <2>. QED  BY <2>1
<1> HIDE DEF S
<1>. QED  BY <1>1

(* A concatenation begins with its first part.                              *)
LEMMA ConcatFront ==
    ASSUME NEW s, IsSeq(s), NEW t, IsSeq(t), NEW k \in 1..Len(s)
    PROVE  (s \o t)[k] = s[k]
<1> DEFINE S == Items(s) \cup Items(t)
           u == s \o t
<1>1. s \in Seq(S) /\ t \in Seq(S)
  <2>1. /\ s \in Seq(Items(s)) /\ t \in Seq(Items(t))
        /\ Items(s) \subseteq S /\ Items(t) \subseteq S
    BY DEF IsSeq
  <2> HIDE DEF S
  <2>. QED  BY <2>1
<1>2. /\ Len(s) \in Nat /\ Len(t) \in Nat
      /\ Len(u) = Len(s) + Len(t)
      /\ \A i \in 1..Len(u) : u[i] = IF i <= Len(s) THEN s[i] ELSE t[i - Len(s)]
  <2> HIDE DEF S
  <2>. QED  BY <1>1
<1> HIDE DEF u
<1>3. k \in 1..Len(u) /\ k <= Len(s)
  BY <1>2
<1>4. u[k] = s[k]
  BY <1>2, <1>3
<1>. QED  BY <1>4 DEF u

===============================================================================
