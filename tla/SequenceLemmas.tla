--------------------------- MODULE SequenceLemmas ---------------------------
(***************************************************************************)
(* Facts about numbers and sequences that several proofs rest on.          *)
(***************************************************************************)
EXTENDS Integers, Sequences, FiniteSetTheorems, TLAPS

\* A set of natural numbers has a least one.  (It is the way to induction here:
\* the library's theorems about it take an operator, this one takes a set.)
LEMMA LeastNumber ==
  ASSUME NEW S \in SUBSET Nat, S # {}
  PROVE  \E n \in S : \A k \in S : n <= k
<1>1. PICK top \in S : TRUE
  OBVIOUS
<1> DEFINE Initials == { 1..k : k \in { j \in S : j <= top } }
           Order == StrictSubsetOrdering(1..top)
<1>2. IsWellFoundedOn(Order, SUBSET (1..top))
  <2>1. IsFiniteSet(1..top)
    BY FS_Interval
  <2>2. QED
    BY <2>1, FS_StrictSubsetOrderingWellFounded, FS_FiniteSubsetsOfFinite
<1>3. Initials \subseteq SUBSET (1..top) /\ Initials # {}
  BY <1>1
<1>4. \E x \in Initials : \A y \in Initials : <<y, x>> \notin Order
  <2> HIDE DEF Initials, Order
  <2> QED
    BY <1>2, <1>3, WFMin
<1>5. PICK n \in S : n <= top /\ \A y \in Initials : <<y, 1..n>> \notin Order
  BY <1>4
<1>6. ASSUME NEW k \in S, k < n
      PROVE  FALSE
  <2>1. 1..k \in Initials
    BY <1>5, <1>6
  <2>2. 1..k \subseteq 1..n /\ 1..k # 1..n /\ 1..n \in SUBSET (1..top) /\ 1..k \in SUBSET (1..top)
    BY <1>5, <1>6
  <2>3. <<1..k, 1..n>> \in Order
    BY <2>2 DEF StrictSubsetOrdering
  <2>4. QED
    BY <1>5, <2>1, <2>3
<1>7. QED
  BY <1>6

\* A set of numbers below a bound has a greatest one.
LEMMA GreatestNumber ==
  ASSUME NEW n \in Nat, NEW S \in SUBSET (0..n), S # {}
  PROVE  \E m \in S : \A k \in S : k <= m
<1> DEFINE T == { n - k : k \in S }
<1>1. T \subseteq Nat /\ T # {}
  <2>1. \A k \in S : k \in 0..n /\ n - k \in Nat
    OBVIOUS
  <2>2. QED
    BY <2>1
<1>2. PICK t \in T : \A u \in T : t <= u
  <2> HIDE DEF T
  <2> QED
    BY <1>1, LeastNumber
<1>3. PICK m \in S : t = n - m
  OBVIOUS
<1>4. \A k \in S : n - m <= n - k
  BY <1>2, <1>3
<1>5. QED
  BY <1>4

\* Induction, for a set of numbers.
LEMMA EveryNumber ==
  ASSUME NEW S \in SUBSET Nat, 0 \in S, \A n \in S : n + 1 \in S
  PROVE  S = Nat
<1>1. SUFFICES ASSUME Nat \ S # {} PROVE FALSE
  OBVIOUS
<1>2. PICK n \in Nat \ S : \A k \in Nat \ S : n <= k
  BY <1>1, LeastNumber
<1>3. n - 1 \in Nat /\ n - 1 \notin Nat \ S
  BY <1>2
<1>4. QED
  BY <1>2, <1>3

\* What holds at 0 and is handed on from each number to the next one holds up
\* to n.
LEMMA UpTo ==
  ASSUME NEW n \in Nat, NEW S, 0 \in S, \A k \in 1..n : k - 1 \in S => k \in S
  PROVE  0..n \subseteq S
<1> DEFINE good == { k \in Nat : k \in 0..n => k \in S }
<1>1. 0 \in good
  OBVIOUS
<1>2. ASSUME NEW k \in good PROVE k + 1 \in good
  <2>1. k \in Nat /\ (k \in 0..n => k \in S)
    OBVIOUS
  <2>2. k + 1 \in 0..n => k \in S /\ k + 1 \in 1..n /\ k + 1 - 1 = k
    BY <2>1
  <2>3. QED
    BY <2>1, <2>2
<1>3. good = Nat
  <2> HIDE DEF good
  <2>1. good \in SUBSET Nat
    BY DEF good
  <2>2. QED
    BY <1>1, <1>2, <2>1, EveryNumber
<1>4. QED
  BY <1>3

\* g is got from base by the first n of the given steps.
Unfolds(n, base, step, g) ==
  /\ g[0] = base
  /\ \A k \in 1..n : g[k] = step[k][g[k - 1]]

\* A recursion over the numbers up to n has a function that it defines.
LEMMA RecursionExists ==
  ASSUME NEW n \in Nat, NEW M, NEW base \in M, NEW step \in [1..n -> [M -> M]]
  PROVE  \E g \in [0..n -> M] : Unfolds(n, base, step, g)
<1> DEFINE S == { k \in 0..n : \E g \in [0..n -> M] : Unfolds(k, base, step, g) }
<1>1. 0 \in S
  <2> DEFINE g == [k \in 0..n |-> base]
  <2>1. g \in [0..n -> M] /\ Unfolds(0, base, step, g)
    BY DEF Unfolds
  <2>2. QED
    BY <2>1
<1>2. ASSUME NEW k \in 1..n, k - 1 \in S PROVE k \in S
  <2>1. PICK g \in [0..n -> M] : Unfolds(k - 1, base, step, g)
    BY <1>2
  <2>2. k \in 0..n /\ k - 1 \in 0..n /\ g[k - 1] \in M /\ step[k] \in [M -> M]
    OBVIOUS
  <2> DEFINE h == [g EXCEPT ![k] = step[k][g[k - 1]]]
  <2>3. h \in [0..n -> M]
    BY <2>2
  <2>4. h[0] = base
    BY <2>1 DEF Unfolds
  <2>5. ASSUME NEW j \in 1..k PROVE h[j] = step[j][h[j - 1]]
    <3>1. h[j - 1] = g[j - 1]
      OBVIOUS
    <3>2. CASE j = k
      <4>1. h[k] = step[k][g[k - 1]]
        BY <2>2
      <4>2. QED
        BY <3>1, <3>2, <4>1
    <3>3. CASE j # k
      <4>1. j \in 1..k - 1 /\ h[j] = g[j]
        BY <3>3
      <4>2. QED
        BY <2>1, <3>1, <4>1 DEF Unfolds
    <3>4. QED
      BY <3>2, <3>3
  <2>6. Unfolds(k, base, step, h)
    BY <2>4, <2>5 DEF Unfolds
  <2> HIDE DEF h
  <2>7. QED
    BY <2>2, <2>3, <2>6
<1>3. n \in S
  <2>1. n \in 0..n
    OBVIOUS
  <2> HIDE DEF S
  <2>2. 0..n \subseteq S
    BY <1>1, <1>2, UpTo, Zenon
  <2>3. QED
    BY <2>1, <2>2, Zenon
<1>4. QED
  BY <1>3

\* Induction, for a set of subsets: a set is good if it is without one element.
LEMMA EverySubset ==
  ASSUME NEW D, IsFiniteSet(D), NEW Good \in SUBSET SUBSET D,
         {} \in Good,
         \A T \in SUBSET D : T # {} => \E x \in T : T \ {x} \in Good => T \in Good
  PROVE  Good = SUBSET D
<1> DEFINE sizes == { n \in Nat : \A T \in SUBSET D : Cardinality(T) <= n => T \in Good }
<1>1. ASSUME NEW T \in SUBSET D
      PROVE  /\ IsFiniteSet(T) /\ Cardinality(T) \in Nat /\ (Cardinality(T) = 0 <=> T = {})
             /\ \A x \in T : Cardinality(T \ {x}) = Cardinality(T) - 1
  <2>1. IsFiniteSet(T)
    BY FS_Subset
  <2>2. QED
    BY <2>1, FS_CardinalityType, FS_EmptySet, FS_RemoveElement
<1>2. 0 \in sizes
  <2>1. ASSUME NEW T \in SUBSET D, Cardinality(T) <= 0 PROVE T \in Good
    <3>1. T = {}
      BY <1>1, <2>1
    <3>2. QED
      BY <3>1
  <2>2. QED
    BY <2>1
<1>3. ASSUME NEW n \in sizes PROVE n + 1 \in sizes
  <2>1. ASSUME NEW T \in SUBSET D, Cardinality(T) <= n + 1 PROVE T \in Good
    <3>1. CASE T = {}
      BY <3>1
    <3>2. CASE T # {}
      <4>1. PICK x \in T : T \ {x} \in Good => T \in Good
        BY <3>2
      <4>2. T \ {x} \in SUBSET D /\ Cardinality(T \ {x}) <= n
        BY <1>1, <2>1
      <4>3. QED
        BY <4>1, <4>2
    <3>3. QED
      BY <3>1, <3>2
  <2>2. QED
    BY <2>1
<1>4. sizes = Nat
  <2> HIDE DEF sizes
  <2>1. sizes \in SUBSET Nat
    BY DEF sizes
  <2>2. QED
    BY <1>2, <1>3, <2>1, EveryNumber
<1>5. ASSUME NEW T \in SUBSET D PROVE T \in Good
  <2>1. Cardinality(T) \in sizes /\ Cardinality(T) <= Cardinality(T)
    BY <1>1, <1>4
  <2>2. QED
    BY <2>1
<1>6. QED
  BY <1>5

MayFold(D, M, base, step, pick) ==
  /\ IsFiniteSet(D)
  /\ base \in M
  /\ step \in [D -> [M -> M]]
  /\ pick \in [(SUBSET D) \ {{}} -> D] /\ \A T \in (SUBSET D) \ {{}} : pick[T] \in T

IsFold(D, base, step, pick, g) ==
  \A T \in SUBSET D : g[T] = IF T = {} THEN base ELSE step[pick[T]][g[T \ {pick[T]}]]

\* A fold over a finite set, in the order that pick takes its elements, is a
\* function of the subsets, with values where its steps have theirs.
LEMMA FoldExists ==
  ASSUME NEW D, NEW M, NEW base, NEW step, NEW pick, MayFold(D, M, base, step, pick)
  PROVE  \E g \in [SUBSET D -> M] : IsFold(D, base, step, pick, g)
<1> USE DEF MayFold
<1> DEFINE value(g, T) == IF T = {} THEN base ELSE step[pick[T]][g[T \ {pick[T]}]]
           upTo(n, g) == \A T \in SUBSET D : Cardinality(T) <= n => g[T] = value(g, T)
           sizes == { n \in Nat : \E g \in [SUBSET D -> M] : upTo(n, g) }
<1>1. ASSUME NEW T \in SUBSET D
      PROVE  /\ Cardinality(T) \in Nat /\ (Cardinality(T) = 0 <=> T = {})
             /\ Cardinality(T) <= Cardinality(D)
             /\ T # {} => T \ {pick[T]} \in SUBSET D /\ Cardinality(T \ {pick[T]}) = Cardinality(T) - 1
  <2>1. IsFiniteSet(T)
    BY FS_Subset
  <2>2. Cardinality(T) <= Cardinality(D)
    BY FS_Subset
  <2>3. QED
    BY <2>1, <2>2, FS_CardinalityType, FS_EmptySet, FS_RemoveElement
<1>2. 0 \in sizes
  <2> DEFINE g == [T \in SUBSET D |-> base]
  <2>1. ASSUME NEW T \in SUBSET D, Cardinality(T) <= 0 PROVE g[T] = value(g, T)
    <3>1. Cardinality(T) \in Nat /\ (Cardinality(T) = 0 => T = {})
      BY <1>1
    <3>2. T = {}
      BY <2>1, <3>1
    <3>3. QED
      BY <3>2
  <2>2. g \in [SUBSET D -> M] /\ upTo(0, g)
    BY <2>1
  <2> HIDE DEF g, upTo
  <2>3. QED
    BY <2>2
<1>3. ASSUME NEW n \in sizes PROVE n + 1 \in sizes
  <2>1. PICK g \in [SUBSET D -> M] : upTo(n, g)
    OBVIOUS
  <2> DEFINE h == [T \in SUBSET D |-> IF Cardinality(T) <= n THEN g[T] ELSE value(g, T)]
  <2>2. ASSUME NEW T \in SUBSET D PROVE value(g, T) \in M
    BY <1>1
  <2>3. h \in [SUBSET D -> M]
    BY <2>2
  <2>4. ASSUME NEW T \in SUBSET D, Cardinality(T) <= n + 1 PROVE h[T] = value(h, T)
    <3>1. h[T] = value(g, T)
      BY <2>1
    <3>2. CASE T = {}
      BY <3>1, <3>2
    <3>3. CASE T # {}
      <4>1. T \ {pick[T]} \in SUBSET D /\ Cardinality(T \ {pick[T]}) <= n
        BY <1>1, <2>4, <3>3
      <4>2. h[T \ {pick[T]}] = g[T \ {pick[T]}]
        BY <4>1
      <4>3. QED
        BY <3>1, <4>2
    <3>4. QED
      BY <3>2, <3>3
  <2>5. upTo(n + 1, h)
    BY <2>4
  <2> HIDE DEF upTo, h
  <2>6. QED
    BY <2>3, <2>5
<1>4. sizes = Nat
  <2> HIDE DEF sizes
  <2>1. sizes \in SUBSET Nat
    BY DEF sizes
  <2>2. QED
    BY <1>2, <1>3, <2>1, EveryNumber
<1>5. PICK g \in [SUBSET D -> M] : upTo(Cardinality(D), g)
  <2>1. Cardinality(D) \in sizes
    BY <1>4, FS_CardinalityType
  <2> HIDE DEF upTo
  <2>2. QED
    BY <2>1
<1>6. QED
  BY <1>1, <1>5 DEF IsFold

OneAfterTheOther(a, b, w) == w = a \o b

WithOneMore(s, k, e, w) == w = SubSeq(s, 1, k) \o <<e>> \o SubSeq(s, k + 1, Len(s))

\* One sequence after the other.
LEMMA Concatenated ==
  ASSUME NEW S, NEW a \in Seq(S), NEW b \in Seq(S), NEW w, OneAfterTheOther(a, b, w)
  PROVE  /\ w \in Seq(S) /\ Len(w) = Len(a) + Len(b)
         /\ \A i \in 1..Len(a) : w[i] = a[i]
         /\ \A i \in 1..Len(b) : w[Len(a) + i] = b[i]
<1>1. w \in Seq(S) /\ Len(w) = Len(a) + Len(b)
  BY DEF OneAfterTheOther
<1>2. ASSUME NEW i \in 1..Len(a) PROVE w[i] = a[i]
  BY DEF OneAfterTheOther
<1>3. ASSUME NEW i \in 1..Len(b) PROVE w[Len(a) + i] = b[i]
  <2>1. Len(a) + i \in Len(a) + 1..Len(a) + Len(b) /\ (Len(a) + i) - Len(a) = i
    OBVIOUS
  <2>2. QED
    BY <2>1 DEF OneAfterTheOther
<1>4. QED
  BY <1>1, <1>2, <1>3

\* A sequence with one more element after the first k.
LEMMA Inserted ==
  ASSUME NEW S, NEW s \in Seq(S), NEW e \in S, NEW k \in 0..Len(s), NEW longer,
         WithOneMore(s, k, e, longer)
  PROVE  /\ longer \in Seq(S) /\ Len(longer) = Len(s) + 1
         /\ \A i \in 1..k : longer[i] = s[i]
         /\ longer[k + 1] = e
         /\ \A i \in k + 2..Len(s) + 1 : longer[i] = s[i - 1]
<1> DEFINE front == SubSeq(s, 1, k)
           back == SubSeq(s, k + 1, Len(s))
<1>1. PICK a \in Seq(S) : a = front /\ Len(a) = k /\ \A i \in 1..k : a[i] = s[i]
  <2>1. front \in Seq(S) /\ Len(front) = k /\ \A i \in 1..k : front[i] = s[i]
    OBVIOUS
  <2> HIDE DEF front
  <2>2. QED
    BY <2>1
<1>2. PICK b \in Seq(S) : b = back /\ Len(b) = Len(s) - k /\ \A i \in 1..Len(s) - k : b[i] = s[k + i]
  <2>1. back \in Seq(S) /\ Len(back) = Len(s) - k /\ \A i \in 1..Len(s) - k : back[i] = s[k + i]
    OBVIOUS
  <2> HIDE DEF back
  <2>2. QED
    BY <2>1
<1>3. PICK one \in Seq(S) : one = <<e>> /\ Len(one) = 1 /\ one[1] = e
  <2>1. <<e>> \in Seq(S) /\ Len(<<e>>) = 1 /\ <<e>>[1] = e
    OBVIOUS
  <2>2. QED
    BY <2>1, Zenon
<1>4. PICK ae \in Seq(S) : ae = a \o one
  <2>1. a \o one \in Seq(S)
    OBVIOUS
  <2>2. QED
    BY <2>1, Zenon
<1>5. OneAfterTheOther(a, one, ae) /\ OneAfterTheOther(ae, b, longer)
  BY <1>1, <1>2, <1>3, <1>4, Zenon DEF OneAfterTheOther, WithOneMore
<1>6. Len(s) \in Nat /\ k \in Nat /\ k <= Len(s)
  OBVIOUS
<1>7. /\ Len(ae) = k + 1
      /\ \A i \in 1..k : ae[i] = s[i]
      /\ ae[k + 1] = e
  <2>1. /\ Len(ae) = Len(a) + Len(one)
        /\ \A i \in 1..Len(a) : ae[i] = a[i]
        /\ \A i \in 1..Len(one) : ae[Len(a) + i] = one[i]
    BY <1>5, Concatenated
  <2>2. QED
    BY <1>1, <1>3, <1>6, <2>1
<1>8. /\ longer \in Seq(S) /\ Len(longer) = Len(ae) + Len(b)
      /\ \A i \in 1..Len(ae) : longer[i] = ae[i]
      /\ \A i \in 1..Len(b) : longer[Len(ae) + i] = b[i]
  BY <1>5, Concatenated
<1> HIDE DEF front, back
<1>9. \A i \in 1..k : longer[i] = s[i]
  BY <1>6, <1>7, <1>8
<1>10. longer[k + 1] = e
  BY <1>6, <1>7, <1>8
<1>11. ASSUME NEW i \in k + 2..Len(s) + 1 PROVE longer[i] = s[i - 1]
  <2>1. PICK j \in 1..Len(s) - k : j = i - (k + 1)
    BY <1>6
  <2>2. j \in 1..Len(b) /\ i = Len(ae) + j /\ k + j = i - 1
    BY <1>2, <1>6, <1>7, <2>1
  <2>3. QED
    BY <1>2, <1>8, <2>2
<1>12. QED
  BY <1>2, <1>6, <1>7, <1>8, <1>9, <1>10, <1>11

\* There is a sequence of the elements of a finite set, each of them once.
LEMMA Enumerated ==
  ASSUME NEW S, IsFiniteSet(S)
  PROVE  /\ Cardinality(S) \in Nat
         /\ \E f \in [1..Cardinality(S) -> S] : \A a, b \in DOMAIN f : f[a] = f[b] => a = b
         /\ \A f \in [1..Cardinality(S) -> S] :
              (\A a, b \in DOMAIN f : f[a] = f[b] => a = b) => \A x \in S : \E i \in DOMAIN f : f[i] = x
<1> DEFINE n == Cardinality(S)
<1>1. n \in Nat /\ ExistsBijection(1..n, S)
  BY FS_CardinalityType
<1>2. IsFiniteSet(1..n) /\ Cardinality(1..n) = n
  <2> HIDE DEF n
  <2> QED
    BY <1>1, FS_Interval
<1>3. PICK f \in Bijection(1..n, S) : TRUE
  BY <1>1 DEF ExistsBijection
<1>4. f \in [1..n -> S] /\ \A a, b \in DOMAIN f : f[a] = f[b] => a = b
  BY <1>3 DEF Bijection, Injection, IsInjective
<1>5. ASSUME NEW g \in [1..n -> S], \A a, b \in DOMAIN g : g[a] = g[b] => a = b, NEW x \in S
      PROVE  \E i \in DOMAIN g : g[i] = x
  <2>1. g \in Injection(1..n, S)
    BY <1>5 DEF Injection, IsInjective
  <2>2. g \in Surjection(1..n, S)
    BY <1>2, <2>1, FS_Injection
  <2>3. QED
    BY <2>2 DEF Surjection
<1>6. QED
  BY <1>1, <1>4, <1>5

\* f lists n things.
Lists(f, n) == f = [i \in 1..n |-> f[i]]

LEMMA ListsAreSequences ==
  ASSUME NEW n \in Nat, NEW f, Lists(f, n)
  PROVE  f \in Seq({ f[i] : i \in 1..n }) /\ Len(f) = n /\ DOMAIN f = 1..n
<1> DEFINE S == { f[i] : i \in 1..n }
<1>1. \A i \in 1..n : f[i] \in S
  OBVIOUS
<1>2. f \in [1..n -> S] /\ DOMAIN f = 1..n
  <2> HIDE DEF S
  <2>1. PICK g \in [1..n -> S] : g = [i \in 1..n |-> f[i]]
    BY <1>1
  <2>2. f = g
    BY <2>1, Zenon DEF Lists
  <2>3. QED
    BY <2>1, <2>2
<1>3. f \in Seq(S) /\ Len(f) = n
  <2> HIDE DEF S
  <2> QED
    BY <1>2
<1>4. QED
  BY <1>2, <1>3

\* One list after the other.
LEMMA ListsJoined ==
  ASSUME NEW n \in Nat, NEW m \in Nat, NEW f, NEW g, NEW w,
         Lists(f, n), Lists(g, m), OneAfterTheOther(f, g, w)
  PROVE  /\ Lists(w, n + m) /\ Len(w) = n + m /\ DOMAIN w = 1..n + m
         /\ \A i \in 1..n : w[i] = f[i]
         /\ \A i \in 1..m : w[n + i] = g[i]
<1>1. PICK S : f \in Seq(S) /\ Len(f) = n /\ g \in Seq(S) /\ Len(g) = m
  <2> DEFINE T == { f[i] : i \in 1..n } \cup { g[i] : i \in 1..m }
  <2>1. f \in Seq({ f[i] : i \in 1..n }) /\ Len(f) = n
    BY ListsAreSequences
  <2>2. g \in Seq({ g[i] : i \in 1..m }) /\ Len(g) = m
    BY ListsAreSequences
  <2>3. { f[i] : i \in 1..n } \subseteq T /\ { g[i] : i \in 1..m } \subseteq T
    OBVIOUS
  <2> HIDE DEF T
  <2>4. \A A : A \subseteq T => Seq(A) \subseteq Seq(T)
    OBVIOUS
  <2>5. f \in Seq(T) /\ g \in Seq(T)
    BY <2>1, <2>2, <2>3, <2>4
  <2>6. QED
    BY <2>1, <2>2, <2>5
<1>2. /\ w \in Seq(S) /\ Len(w) = Len(f) + Len(g)
      /\ \A i \in 1..Len(f) : w[i] = f[i]
      /\ \A i \in 1..Len(g) : w[Len(f) + i] = g[i]
  <2>1. PICK a \in Seq(S), b \in Seq(S) : a = f /\ b = g
    BY <1>1, Zenon
  <2>2. OneAfterTheOther(a, b, w)
    BY <2>1, Zenon
  <2>3. /\ w \in Seq(S) /\ Len(w) = Len(a) + Len(b)
        /\ \A i \in 1..Len(a) : w[i] = a[i]
        /\ \A i \in 1..Len(b) : w[Len(a) + i] = b[i]
    BY <2>2, Concatenated
  <2>4. QED
    BY <2>1, <2>3, Zenon
<1>3. DOMAIN w = 1..n + m /\ w = [i \in 1..n + m |-> w[i]]
  BY <1>1, <1>2
<1>4. QED
  BY <1>1, <1>2, <1>3 DEF Lists

-----------------------------------------------------------------------------
(* Some of the numbers up to n, in their order *)

Before(I, i) == { j \in I : j < i }

\* The smallest comes after none of them, the largest after all but one, and for
\* every count in between there is one that comes after so many.
LEMMA OrderedPositions ==
  ASSUME NEW n \in Nat, NEW I \in SUBSET (1..n)
  PROVE  /\ Cardinality(I) \in Nat
         /\ \A i \in I : Cardinality(Before(I, i)) \in 0..Cardinality(I) - 1
         /\ \A i, j \in I : i < j => Cardinality(Before(I, i)) < Cardinality(Before(I, j))
         /\ \A k \in 0..Cardinality(I) - 1 : \E i \in I : Cardinality(Before(I, i)) = k
<1> DEFINE c == Cardinality(I)
           rank == [i \in I |-> Cardinality(Before(I, i))]
<1>1. IsFiniteSet(I) /\ c \in Nat
  <2>1. IsFiniteSet(1..n)
    BY FS_Interval
  <2>2. QED
    BY <2>1, FS_Subset, FS_CardinalityType
<1>2. ASSUME NEW i \in I
      PROVE  /\ IsFiniteSet(Before(I, i)) /\ Cardinality(Before(I, i)) \in Nat
             /\ Cardinality(Before(I, i)) < c
  <2>1. Before(I, i) \subseteq I /\ i \notin Before(I, i) /\ i \in 1..n
    BY DEF Before
  <2>2. IsFiniteSet(Before(I, i)) /\ Cardinality(Before(I, i)) \in Nat
    BY <1>1, <2>1, FS_Subset, FS_CardinalityType
  <2>3. Cardinality(Before(I, i)) <= c /\ (Cardinality(Before(I, i)) = c => Before(I, i) = I)
    BY <1>1, <2>1, FS_Subset
  <2>4. QED
    BY <1>1, <2>1, <2>2, <2>3
<1>3. ASSUME NEW i \in I, NEW j \in I, i < j
      PROVE  Cardinality(Before(I, i)) < Cardinality(Before(I, j))
  <2>1. Before(I, i) \subseteq Before(I, j) /\ i \in Before(I, j) /\ i \notin Before(I, i)
    <3>1. i \in 1..n /\ j \in 1..n
      OBVIOUS
    <3>2. \A h \in I : h \in 1..n /\ (h < i => h < j)
      BY <1>3
    <3>3. Before(I, i) \subseteq Before(I, j)
      BY <3>2 DEF Before
    <3>4. i \in Before(I, j) /\ i \notin Before(I, i)
      BY <1>3, <3>1 DEF Before
    <3>5. QED
      BY <3>3, <3>4
  <2>2. /\ Cardinality(Before(I, i)) <= Cardinality(Before(I, j))
        /\ Cardinality(Before(I, i)) = Cardinality(Before(I, j)) => Before(I, i) = Before(I, j)
    BY <1>2, <2>1, FS_Subset
  <2>3. QED
    BY <1>2, <2>1, <2>2
<1>4. rank \in Injection(I, 0..c - 1)
  <2>1. ASSUME NEW i \in I, NEW j \in I, rank[i] = rank[j] PROVE i = j
    <3>1. Cardinality(Before(I, i)) = Cardinality(Before(I, j)) /\ i \in Int /\ j \in Int
      BY <2>1
    <3>2. Cardinality(Before(I, i)) \in Nat
      BY <1>2
    <3>3. QED
      BY <1>3, <3>1, <3>2
  <2>2. rank \in [I -> 0..c - 1]
    <3> HIDE DEF c
    <3> QED
      BY <1>1, <1>2
  <2> HIDE DEF rank
  <2>3. QED
    BY <2>1, <2>2 DEF Injection, IsInjective
<1>5. IsFiniteSet(0..c - 1) /\ Cardinality(0..c - 1) = c
  <2> HIDE DEF c
  <2> QED
    BY <1>1, FS_Interval
<1>6. rank \in Surjection(I, 0..c - 1)
  <2> HIDE DEF rank
  <2> QED
    BY <1>1, <1>4, <1>5, FS_Injection
<1>7. ASSUME NEW k \in 0..c - 1 PROVE \E i \in I : Cardinality(Before(I, i)) = k
  <2>1. \E i \in I : rank[i] = k
    <3> HIDE DEF rank
    <3> QED
      BY <1>6 DEF Surjection
  <2>2. QED
    BY <2>1
<1>8. \A i \in I : Cardinality(Before(I, i)) \in 0..c - 1
  <2> HIDE DEF c
  <2> QED
    BY <1>1, <1>2
<1>9. QED
  BY <1>1, <1>3, <1>7, <1>8

=============================================================================
