---------------------------- MODULE BytesProofs ----------------------------
(***************************************************************************)
(* What the proofs about bytes and bits share.  Induction: powers of two,  *)
(* and what FoldLeft, FlattenSeq and the recursive operators built from    *)
(* them are of one element more; the theorems of the library on induction  *)
(* take an operator as a parameter, here sets and functions are in its     *)
(* place.  And what the functions of common/buffer.c do to a buffer whose  *)
(* position is in its data: the facts about single reads and seeks that    *)
(* the proofs about sequences of them need.                                *)
(***************************************************************************)
EXTENDS FieldReader, WellFoundedInduction, SequenceTheorems,
        FunctionTheorems, FiniteSetTheorems, TLAPS

-----------------------------------------------------------------------------
(* Induction.                                                              *)

(* A set that has 0 and the successors of its numbers has all numbers.     *)
LEMMA NatSetInduction ==
  ASSUME NEW T, 0 \in T, \A n \in Nat : n \in T => n + 1 \in T
  PROVE  \A n \in Nat : n \in T
<1> DEFINE Missed == Nat \ T
           Less   == OpToRel(<, Nat)
<1> SUFFICES ASSUME Missed # {}
             PROVE  FALSE
  OBVIOUS
<1>1. PICK m \in Missed : \A k \in Missed : <<k, m>> \notin Less
  <2>1. IsWellFoundedOn(Less, Nat)
    BY NatLessThanWellFounded
  <2>2. Missed \subseteq Nat
    OBVIOUS
  <2> HIDE DEF Missed, Less
  <2> QED BY <2>1, <2>2, WFMin
<1>2. \A k \in Missed : ~(k < m)
  BY <1>1 DEF OpToRel
<1>3. m \in Nat /\ m # 0
  OBVIOUS
<1>4. m - 1 \in T
  BY <1>2, <1>3
<1> QED BY <1>3, <1>4

(* The same up to a bound.                                                 *)
LEMMA BoundedInduction ==
  ASSUME NEW N \in Nat, NEW T, 0 \in T, \A n \in 1..N : n - 1 \in T => n \in T
  PROVE  \A n \in 0..N : n \in T
<1> DEFINE U == {n \in Nat : n <= N => n \in T}
<1>1. 0 \in U
  OBVIOUS
<1>2. ASSUME NEW n \in Nat, n \in U
      PROVE  n + 1 \in U
  <2>1. CASE n + 1 <= N
    <3>1. n + 1 \in 1..N /\ (n + 1) - 1 = n /\ n \in T
      BY <1>2, <2>1
    <3> QED BY <3>1
  <2> QED BY <2>1
<1>3. \A n \in Nat : n \in U
  <2> HIDE DEF U
  <2> QED BY <1>1, <1>2, NatSetInduction
<1> QED BY <1>3

-----------------------------------------------------------------------------
(* The largest element of a set of positions.                              *)
LEMMA MaxIs ==
  ASSUME NEW s \in SUBSET Nat, NEW m \in s, \A k \in s : k <= m
  PROVE  Max(s) = m
<1>1. \A k \in s : m >= k
  OBVIOUS
<1>2. Max(s) \in s /\ \A k \in s : Max(s) >= k
  BY <1>1 DEF Max
<1>3. Max(s) >= m /\ m >= Max(s) /\ Max(s) \in Nat
  BY <1>1, <1>2
<1> QED BY <1>3

LEMMA MaxOfInterval ==
  ASSUME NEW n \in Nat \ {0}
  PROVE  Max(1..n) = n /\ (1..n) \ {n} = 1..(n - 1)
<1>1. Max(1..n) = n
  BY MaxIs
<1> QED BY <1>1

LEMMA MaxOfPart ==
  ASSUME NEW n \in Nat
  PROVE  \A s \in SUBSET (1..n) : s # {} => Max(s) \in s
<1> DEFINE T == {m \in Nat : \A s \in SUBSET (1..m) : s # {} => Max(s) \in s}
<1>1. 0 \in T
  <2>1. 1..0 = {}
    OBVIOUS
  <2> QED BY <2>1
<1>2. ASSUME NEW m \in Nat, m \in T
      PROVE  m + 1 \in T
  <2> SUFFICES ASSUME NEW s \in SUBSET (1..(m + 1)), s # {}
               PROVE  Max(s) \in s
    OBVIOUS
  <2>1. CASE m + 1 \in s
    BY <2>1, MaxIs
  <2>2. CASE m + 1 \notin s
    <3>1. s \in SUBSET (1..m)
      BY <2>2
    <3> QED BY <1>2, <3>1
  <2> QED BY <2>1, <2>2
<1>3. \A m \in Nat : m \in T
  <2> HIDE DEF T
  <2> QED BY <1>1, <1>2, NatSetInduction
<1> QED BY <1>3

-----------------------------------------------------------------------------
(* Folds: MapThenFoldSet chooses a function on the sets of positions; the  *)
(* function F is the operator that is folded, at a position.               *)
Folded(g, n, base, F) ==
  \A s \in SUBSET (1..n) :
    g[s] = IF s = {} THEN base ELSE F[<<g[s \ {Max(s)}], Max(s)>>]

(* There is such a function: one for the first positions, and the next one. *)
LEMMA FoldOneMore ==
  ASSUME NEW A, NEW base \in A, NEW n \in Nat, NEW F, NEW m \in 1..n,
         \A a \in A : \A i \in 1..n : F[<<a, i>>] \in A,
         NEW g \in [SUBSET (1..(m - 1)) -> A], Folded(g, m - 1, base, F)
  PROVE  \E h \in [SUBSET (1..m) -> A] : Folded(h, m, base, F)
<1> DEFINE value(s) == IF m \in s THEN F[<<g[s \ {m}], m>>] ELSE g[s]
           h == [s \in SUBSET (1..m) |-> value(s)]
<1>1. ASSUME NEW s \in SUBSET (1..m)
      PROVE  /\ h[s] \in A
             /\ h[s] = IF s = {} THEN base ELSE F[<<h[s \ {Max(s)}], Max(s)>>]
  <2>1. CASE m \in s
    <3>1. Max(s) = m
      BY <2>1, MaxIs
    <3>2. s \ {m} \in SUBSET (1..(m - 1)) /\ s \ {m} \in SUBSET (1..m) /\ m \notin s \ {m}
      OBVIOUS
    <3>3. h[s \ {m}] = g[s \ {m}] /\ g[s \ {m}] \in A
      BY <3>2
    <3>4. h[s] = F[<<g[s \ {m}], m>>]
      BY <2>1
    <3>5. h[s] = F[<<h[s \ {Max(s)}], Max(s)>>] /\ s # {}
      BY <2>1, <3>1, <3>3, <3>4
    <3>6. h[s] \in A
      BY <3>3, <3>4
    <3> HIDE DEF h
    <3> QED BY <3>5, <3>6
  <2>2. CASE m \notin s
    <3>1. s \in SUBSET (1..(m - 1)) /\ s \ {Max(s)} \in SUBSET (1..(m - 1))
      BY <2>2
    <3>2. s \ {Max(s)} \in SUBSET (1..m) /\ m \notin s \ {Max(s)}
      BY <2>2
    <3>3. h[s] = g[s] /\ h[s \ {Max(s)}] = g[s \ {Max(s)}] /\ g[s] \in A
      BY <2>2, <3>1, <3>2
    <3> HIDE DEF h
    <3> QED BY <3>1, <3>3 DEF Folded
  <2> QED BY <2>1, <2>2
<1>2. h \in [SUBSET (1..m) -> A]
  <2>1. \A s \in SUBSET (1..m) : value(s) \in A
    BY <1>1
  <2> HIDE DEF value
  <2> QED BY <2>1
<1> HIDE DEF h
<1>3. Folded(h, m, base, F)
  BY <1>1 DEF Folded
<1> QED BY <1>2, <1>3

LEMMA FoldExists ==
  ASSUME NEW A, NEW base \in A, NEW n \in Nat, NEW F,
         \A a \in A : \A i \in 1..n : F[<<a, i>>] \in A
  PROVE  \E g \in [SUBSET (1..n) -> A] : Folded(g, n, base, F)
<1> DEFINE Has(m) == \E g \in [SUBSET (1..m) -> A] : Folded(g, m, base, F)
           T == {m \in 0..n : Has(m)}
<1>1. Has(0)
  <2> DEFINE g == [s \in SUBSET (1..0) |-> base]
  <2>1. 1..0 = {}
    OBVIOUS
  <2>2. g \in [SUBSET (1..0) -> A] /\ \A s \in SUBSET (1..0) : s = {} /\ g[s] = base
    BY <2>1
  <2> HIDE DEF g
  <2>3. Folded(g, 0, base, F)
    BY <2>2 DEF Folded
  <2> QED BY <2>2, <2>3
<1>2. ASSUME NEW m \in 1..n, m - 1 \in T
      PROVE  m \in T
  <2>1. PICK g \in [SUBSET (1..(m - 1)) -> A] : Folded(g, m - 1, base, F)
    BY <1>2
  <2>2. Has(m)
    BY <2>1, FoldOneMore
  <2> HIDE DEF Has
  <2> QED BY <2>2
<1>3. 0 \in T
  <2> HIDE DEF Has
  <2> QED BY <1>1
<1>4. \A m \in 0..n : m \in T
  <2> HIDE DEF T
  <2> QED BY <1>2, <1>3, BoundedInduction
<1>5. Has(n)
  <2> HIDE DEF Has
  <2> QED BY <1>4
<1> QED BY <1>5

-----------------------------------------------------------------------------
(* Powers of two: the number of subsets.                                   *)
LEMMA TwoPower ==
  ASSUME NEW n \in Nat
  PROVE  2^n \in Nat \ {0} /\ 2^(n + 1) = 2 * 2^n
<1> DEFINE old == SUBSET (1..n)
           new == {t \cup {n + 1} : t \in SUBSET (1..n)}
           f == [t \in old |-> t \cup {n + 1}]
<1>1. \A m \in Nat : IsFiniteSet(1..m) /\ Cardinality(1..m) = m
  BY FS_Interval
<1>2. \A m \in Nat : /\ IsFiniteSet(SUBSET (1..m)) /\ Cardinality(SUBSET (1..m)) = 2^m
                     /\ 2^m \in Nat
  BY <1>1, FS_SUBSET, FS_CardinalityType, ZenonT(60)
<1>3. \A t \in old : n + 1 \notin t
  OBVIOUS
<1>4. SUBSET (1..(n + 1)) = old \cup new
  <2>1. ASSUME NEW t \in SUBSET (1..(n + 1))
        PROVE  t \in old \cup new
    <3>1. t \ {n + 1} \in SUBSET (1..n)
      OBVIOUS
    <3>2. CASE n + 1 \in t
      <4>1. t = (t \ {n + 1}) \cup {n + 1}
        BY <3>2
      <4> QED BY <3>1, <4>1
    <3>3. CASE n + 1 \notin t
      BY <3>1, <3>3
    <3> QED BY <3>2, <3>3
  <2>2. 1..n \subseteq 1..(n + 1) /\ n + 1 \in 1..(n + 1)
    OBVIOUS
  <2>3. \A t \in SUBSET (1..n) : /\ t \in SUBSET (1..(n + 1))
                                 /\ t \cup {n + 1} \in SUBSET (1..(n + 1))
    BY <2>2
  <2>4. old \subseteq SUBSET (1..(n + 1)) /\ new \subseteq SUBSET (1..(n + 1))
    BY <2>3, ZenonT(60)
  <2> QED BY <2>1, <2>4
<1>5. old \cap new = {}
  BY <1>3
<1>6. f \in Bijection(old, new)
  <2>1. f \in [old -> new]
    OBVIOUS
  <2>2. \A t \in old : f[t] \ {n + 1} = t
    BY <1>3
  <2>3. \A t, u \in old : f[t] = f[u] => t = u
    BY <2>2
  <2>4. \A u \in new : \E t \in old : f[t] = u
    OBVIOUS
  <2> HIDE DEF f, old, new
  <2> QED BY <2>1, <2>3, <2>4, Fun_IsBij
<1>7. IsFiniteSet(new) /\ Cardinality(new) = 2^n
  <2>1. IsFiniteSet(old) /\ Cardinality(old) = 2^n /\ ExistsBijection(old, new)
    BY <1>2, <1>6 DEF ExistsBijection
  <2> HIDE DEF old, new
  <2> QED BY <2>1, FS_Bijection
<1>8. 2^(n + 1) = 2^n + 2^n
  <2>1. /\ IsFiniteSet(old) /\ Cardinality(old) = 2^n
        /\ n + 1 \in Nat /\ Cardinality(SUBSET (1..(n + 1))) = 2^(n + 1)
    BY <1>2
  <2>2. Cardinality(old \cap new) = 0
    BY <1>5, FS_EmptySet
  <2> HIDE DEF old, new
  <2>3. Cardinality(old \cup new) = 2^n + 2^n - 0
    BY <1>7, <2>1, <2>2, FS_Union, ZenonT(60)
  <2> QED BY <1>2, <1>4, <2>1, <2>3
<1>9. 2^n # 0
  <2>1. {} \in SUBSET (1..n)
    OBVIOUS
  <2>2. IsFiniteSet(SUBSET (1..n)) /\ Cardinality(SUBSET (1..n)) # 0
    BY <1>2, <2>1, FS_EmptySet
  <2>3. Cardinality(SUBSET (1..n)) = 2^n
    BY <1>2
  <2> QED BY <2>2, <2>3, Zenon
<1>10. 2^n \in Nat
  BY <1>2
<1>11. 2^(n + 1) = 2 * 2^n
  BY <1>8, <1>10
<1> QED BY <1>9, <1>10, <1>11

-----------------------------------------------------------------------------
(* The chosen function, along the first positions: a run of the fold.      *)
RunOf(r, g, k) == \A i \in 0..k : r[i] = g[1..i]

LEMMA RunStep ==
  ASSUME NEW k \in Nat, NEW i \in 1..k
  PROVE  /\ 1..i \in SUBSET (1..k) /\ 1..i # {} /\ Max(1..i) = i
         /\ i \in 0..k /\ i - 1 \in 0..k /\ (1..i) \ {i} = 1..(i - 1)
<1>1. i \in Nat \ {0} /\ i \in 1..i
  OBVIOUS
<1>2. Max(1..i) = i /\ (1..i) \ {i} = 1..(i - 1)
  BY <1>1, MaxOfInterval
<1>3. 1..i \in SUBSET (1..k) /\ 1..i # {} /\ i \in 0..k /\ i - 1 \in 0..k
  BY <1>1
<1> QED BY <1>2, <1>3

(* BytesNumber: the bytes are the digits of a number.                      *)
BytesRun(run, bytes) ==
  /\ run[0] = 0
  /\ \A i \in 1..Len(bytes) : run[i] = run[i - 1] * 2^ByteBits + bytes[i]

LEMMA BytesNumberRuns ==
  ASSUME NEW bytes \in Seq(Nat)
  PROVE  \E run : BytesRun(run, bytes) /\ BytesNumber(bytes) = run[Len(bytes)]
<1> DEFINE n == Len(bytes)
           base == 2^ByteBits
           F == [p \in Nat \X (1..n) |-> p[1] * base + bytes[p[2]]]
           Steps(g) == g = [s \in SUBSET (DOMAIN bytes) |->
                           IF s = {} THEN 0 ELSE g[s \ {Max(s)}] * base + bytes[Max(s)]]
           iter == CHOOSE g : Steps(g)
<1>1. /\ n \in Nat /\ DOMAIN bytes = 1..n /\ base \in Nat
      /\ \A i \in 1..n : bytes[i] \in Nat
  BY TwoPower, WidthsAssumption
<1>2. \A a \in Nat : \A i \in 1..n : F[<<a, i>>] = a * base + bytes[i] /\ F[<<a, i>>] \in Nat
  BY <1>1, SMTT(30)
<1>3. PICK g \in [SUBSET (1..n) -> Nat] : Folded(g, n, 0, F)
  <2> HIDE DEF F
  <2> QED BY <1>1, <1>2, FoldExists
<1>4. Steps(g)
  <2>1. ASSUME NEW s \in SUBSET (1..n)
        PROVE  g[s] = IF s = {} THEN 0 ELSE g[s \ {Max(s)}] * base + bytes[Max(s)]
    <3>1. CASE s = {}
      BY <1>3, <3>1 DEF Folded
    <3>2. CASE s # {}
      <4>1. Max(s) \in 1..n /\ s \ {Max(s)} \in SUBSET (1..n)
        BY <1>1, <3>2, MaxOfPart
      <4>2. g[s \ {Max(s)}] \in Nat
        BY <4>1
      <4>3. g[s] = F[<<g[s \ {Max(s)}], Max(s)>>]
        BY <1>3, <3>2 DEF Folded
      <4> HIDE DEF F
      <4> QED BY <1>2, <3>2, <4>1, <4>2, <4>3
    <3> QED BY <3>1, <3>2
  <2> QED BY <1>1, <2>1
<1>5. Steps(iter)
  <2> HIDE DEF Steps
  <2> QED BY <1>4
<1>6. \A s \in SUBSET (1..n) :
        iter[s] = IF s = {} THEN 0 ELSE iter[s \ {Max(s)}] * base + bytes[Max(s)]
  <2> HIDE DEF iter
  <2> QED BY <1>1, <1>5
<1>7. BytesNumber(bytes) = iter[1..n]
  BY <1>1 DEF BytesNumber, FoldLeft, MapThenFoldSet
<1> HIDE DEF iter
<1> HIDE DEF n, F, Steps
<1>8. PICK run : RunOf(run, iter, n)
  <2>1. \A i \in 0..n : [j \in 0..n |-> iter[1..j]][i] = iter[1..i]
    OBVIOUS
  <2> QED BY <2>1 DEF RunOf
<1>9. run[0] = 0
  <2>1. {} \in SUBSET (1..n) /\ 1..0 = {} /\ 0 \in 0..n
    BY <1>1
  <2>2. run[0] = iter[{}]
    BY <1>8, <2>1 DEF RunOf
  <2> QED BY <1>6, <2>1, <2>2
<1>10. ASSUME NEW i \in 1..n
       PROVE  run[i] = run[i - 1] * base + bytes[i]
  <2>1. /\ 1..i \in SUBSET (1..n) /\ 1..i # {} /\ Max(1..i) = i
        /\ i \in 0..n /\ i - 1 \in 0..n /\ (1..i) \ {i} = 1..(i - 1)
    BY <1>1, RunStep
  <2>2. run[i] = iter[1..i] /\ run[i - 1] = iter[1..(i - 1)]
    BY <1>8, <2>1 DEF RunOf
  <2>3. iter[1..i] = iter[(1..i) \ {Max(1..i)}] * base + bytes[Max(1..i)]
    BY <1>6, <2>1
  <2> QED BY <2>1, <2>2, <2>3
<1>11. run[n] = iter[1..n]
  <2>1. n \in 0..n
    BY <1>1
  <2> QED BY <1>8, <2>1 DEF RunOf
<1>12. BytesRun(run, bytes)
  BY <1>9, <1>10 DEF BytesRun, n
<1> QED BY <1>7, <1>11, <1>12 DEF n

(* So it is one.                                                           *)
LEMMA DigitAdded ==
  ASSUME NEW a \in Nat, NEW b \in Nat, NEW c \in Nat
  PROVE  a * b + c \in Nat
OBVIOUS

LEMMA BytesNumberType ==
  ASSUME NEW bytes \in Seq(Nat)
  PROVE  BytesNumber(bytes) \in Nat
<1> DEFINE n == Len(bytes)
<1>1. PICK run : BytesRun(run, bytes) /\ BytesNumber(bytes) = run[n]
  BY BytesNumberRuns
<1> DEFINE T == {i \in 0..n : run[i] \in Nat}
<1>2. n \in Nat /\ 2^ByteBits \in Nat /\ \A i \in 1..n : bytes[i] \in Nat
  BY TwoPower, WidthsAssumption
<1>3. 0 \in T
  BY <1>1, <1>2 DEF BytesRun
<1>4. ASSUME NEW i \in 1..n, i - 1 \in T
      PROVE  i \in T
  <2>1. run[i] = run[i - 1] * 2^ByteBits + bytes[i] /\ run[i - 1] \in Nat /\ i \in 0..n
    BY <1>1, <1>4 DEF BytesRun
  <2>2. run[i - 1] * 2^ByteBits + bytes[i] \in Nat
    BY <1>2, <2>1, DigitAdded
  <2>3. run[i] \in Nat
    BY <2>1, <2>2, Zenon
  <2> QED BY <2>1, <2>3
<1> HIDE DEF n
<1>5. \A i \in 0..n : i \in T
  <2> HIDE DEF T
  <2> QED BY <1>2, <1>3, <1>4, BoundedInduction
<1>6. n \in 0..n
  BY <1>2
<1> QED BY <1>1, <1>5, <1>6

-----------------------------------------------------------------------------
(* FlattenSeq: the sequences one after the other.                          *)
JoinRun(run, parts, n) ==
  /\ run[0] = <<>>
  /\ \A i \in 1..n : run[i] = run[i - 1] \o parts[i]

LEMMA JoinRunExists ==
  ASSUME NEW S, NEW n \in Nat, NEW parts \in [1..n -> Seq(S)]
  PROVE  \E run \in [0..n -> Seq(S)] : JoinRun(run, parts, n)
<1> DEFINE Has(m) == \E run \in [0..m -> Seq(S)] : JoinRun(run, parts, m)
           T == {m \in 0..n : Has(m)}
<1>1. 0 \in T
  <2> DEFINE run == [i \in 0..0 |-> <<>>]
  <2>1. run \in [0..0 -> Seq(S)] /\ run[0] = <<>> /\ 1..0 = {}
    OBVIOUS
  <2> HIDE DEF run
  <2>2. JoinRun(run, parts, 0)
    BY <2>1 DEF JoinRun
  <2> QED BY <2>1, <2>2
<1>2. ASSUME NEW m \in 1..n, m - 1 \in T
      PROVE  m \in T
  <2>1. PICK run \in [0..(m - 1) -> Seq(S)] : JoinRun(run, parts, m - 1)
    BY <1>2
  <2>2. parts[m] \in Seq(S) /\ run[m - 1] \in Seq(S)
    OBVIOUS
  <2> DEFINE more == [i \in 0..m |-> IF i = m THEN run[m - 1] \o parts[m] ELSE run[i]]
  <2>3. run[m - 1] \o parts[m] \in Seq(S)
    BY <2>2
  <2>4. \A i \in 0..m : i # m => i \in 0..(m - 1) /\ run[i] \in Seq(S) /\ more[i] = run[i]
    OBVIOUS
  <2>5. more \in [0..m -> Seq(S)]
    BY <2>3, <2>4
  <2>6. more[m] = run[m - 1] \o parts[m]
    OBVIOUS
  <2> HIDE DEF more
  <2>7. more[0] = <<>>
    BY <2>1, <2>4 DEF JoinRun
  <2>8. ASSUME NEW i \in 1..m
        PROVE  more[i] = more[i - 1] \o parts[i]
    <3>1. i - 1 \in 0..m /\ i - 1 # m /\ i \in 0..m
      OBVIOUS
    <3>2. more[i - 1] = run[i - 1]
      BY <2>4, <3>1
    <3>3. CASE i = m
      BY <2>6, <3>2, <3>3
    <3>4. CASE i # m
      <4>1. i \in 1..(m - 1) /\ more[i] = run[i]
        BY <2>4, <3>1, <3>4
      <4>2. run[i] = run[i - 1] \o parts[i]
        BY <2>1, <4>1 DEF JoinRun
      <4> QED BY <3>2, <4>1, <4>2
    <3> QED BY <3>3, <3>4
  <2>9. JoinRun(more, parts, m)
    BY <2>7, <2>8 DEF JoinRun
  <2> QED BY <2>5, <2>9
<1>3. \A m \in 0..n : m \in T
  <2> HIDE DEF T
  <2> QED BY <1>1, <1>2, BoundedInduction
<1> QED BY <1>3

(* Two runs over the same sequences are the same.                          *)
LEMMA JoinRunUnique ==
  ASSUME NEW n \in Nat, NEW parts, NEW run, NEW other,
         JoinRun(run, parts, n), JoinRun(other, parts, n)
  PROVE  \A i \in 0..n : run[i] = other[i]
<1> DEFINE T == {i \in 0..n : run[i] = other[i]}
<1>1. 0 \in T
  BY DEF JoinRun
<1>2. ASSUME NEW i \in 1..n, i - 1 \in T
      PROVE  i \in T
  <2>1. run[i - 1] = other[i - 1] /\ i \in 0..n
    BY <1>2
  <2>2. run[i] = run[i - 1] \o parts[i] /\ other[i] = other[i - 1] \o parts[i]
    BY DEF JoinRun
  <2>3. run[i] = other[i]
    BY <2>1, <2>2, Zenon
  <2> QED BY <2>1, <2>3
<1>3. \A i \in 0..n : i \in T
  <2> HIDE DEF T
  <2> QED BY <1>1, <1>2, BoundedInduction
<1> QED BY <1>3

(* FlattenSeq is where the run ends.                                       *)
LEMMA FlattenSeqRuns ==
  ASSUME NEW S, NEW n \in Nat, NEW parts \in [1..n -> Seq(S)],
         NEW run, JoinRun(run, parts, n)
  PROVE  FlattenSeq(parts) = run[n]
<1> DEFINE Flat(f) == f = [i \in 1..n |-> IF i = 1 THEN parts[i] ELSE f[i - 1] \o parts[i]]
           flat == CHOOSE f : Flat(f)
<1>1. Len(parts) = n /\ parts \in Seq(Seq(S))
  OBVIOUS
<1>2. CASE n = 0
  <2>1. FlattenSeq(parts) = parts /\ parts = <<>> /\ run[0] = <<>>
    BY <1>1, <1>2 DEF FlattenSeq, JoinRun
  <2> QED BY <1>2, <2>1
<1>3. CASE n # 0
  <2>1. PICK known \in [0..n -> Seq(S)] : JoinRun(known, parts, n)
    BY JoinRunExists
  <2> DEFINE f == [i \in 1..n |-> known[i]]
  <2>2. ASSUME NEW i \in 1..n
        PROVE  f[i] = IF i = 1 THEN parts[i] ELSE f[i - 1] \o parts[i]
    <3>1. known[i] = known[i - 1] \o parts[i] /\ known[0] = <<>> /\ parts[i] \in Seq(S)
      BY <2>1 DEF JoinRun
    <3>2. <<>> \o parts[i] = parts[i]
      BY <3>1
    <3>3. CASE i = 1
      <4>1. i - 1 = 0 /\ f[i] = known[i]
        BY <3>3
      <4>2. known[i] = <<>> \o parts[i]
        BY <3>1, <4>1, Zenon
      <4> HIDE DEF f
      <4> QED BY <3>2, <3>3, <4>1, <4>2
    <3>4. CASE i # 1
      <4>1. i - 1 \in 1..n
        BY <3>4
      <4>2. f[i - 1] = known[i - 1] /\ f[i] = known[i]
        BY <4>1
      <4> HIDE DEF f
      <4> QED BY <3>1, <3>4, <4>2
    <3> QED BY <3>3, <3>4
  <2>3. Flat(f)
    BY <2>2
  <2>4. Flat(flat)
    <3> HIDE DEF Flat, f
    <3> QED BY <2>3
  <2>5. \A i \in 1..n : flat[i] = IF i = 1 THEN parts[i] ELSE flat[i - 1] \o parts[i]
    <3> HIDE DEF flat
    <3> QED BY <2>4
  <2>6. FlattenSeq(parts) = flat[n]
    BY <1>1, <1>3, Zenon DEF FlattenSeq
  <2> HIDE DEF flat, Flat
  <2> DEFINE T == {i \in 0..n : i # 0 => flat[i] = run[i]}
  <2>7. 0 \in T
    OBVIOUS
  <2>8. ASSUME NEW i \in 1..n, i - 1 \in T
        PROVE  i \in T
    <3>1. run[i] = run[i - 1] \o parts[i] /\ run[0] = <<>> /\ parts[i] \in Seq(S)
      BY DEF JoinRun
    <3>2. <<>> \o parts[i] = parts[i]
      BY <3>1
    <3>3. flat[i] = run[i]
      <4>1. CASE i = 1
        <5>1. i - 1 = 0 /\ flat[i] = parts[i]
          BY <2>5, <4>1
        <5>2. run[i] = <<>> \o parts[i]
          BY <3>1, <5>1, Zenon
        <5> QED BY <3>2, <5>1, <5>2, Zenon
      <4>2. CASE i # 1
        <5>0. i - 1 # 0
          BY <4>2
        <5>1. flat[i] = flat[i - 1] \o parts[i]
          BY <2>5, <4>2, Zenon
        <5>2. flat[i - 1] = run[i - 1]
          BY <2>8, <5>0
        <5> QED BY <3>1, <5>1, <5>2, Zenon
      <4> QED BY <4>1, <4>2
    <3> QED BY <3>3
  <2>9. \A i \in 0..n : i \in T
    <3> HIDE DEF T
    <3> QED BY <2>7, <2>8, BoundedInduction
  <2>10. n \in 0..n
    OBVIOUS
  <2> QED BY <1>3, <2>6, <2>9, <2>10
<1> QED BY <1>2, <1>3

(* One more sequence comes after the others.                               *)
Begins(more, parts, n) == \A i \in 1..n : more[i] = parts[i]

LEMMA FlattenOneMore ==
  ASSUME NEW S, NEW n \in Nat, NEW parts \in [1..n -> Seq(S)],
         NEW more \in [1..(n + 1) -> Seq(S)], Begins(more, parts, n)
  PROVE  FlattenSeq(more) = FlattenSeq(parts) \o more[n + 1]
<1>1. PICK run \in [0..(n + 1) -> Seq(S)] : JoinRun(run, more, n + 1)
  <2>1. n + 1 \in Nat
    OBVIOUS
  <2> QED BY <2>1, JoinRunExists
<1>2. FlattenSeq(more) = run[n + 1]
  <2>1. n + 1 \in Nat
    OBVIOUS
  <2> QED BY <1>1, <2>1, FlattenSeqRuns
<1>3. JoinRun(run, parts, n)
  <2>1. \A i \in 1..n : i \in 1..(n + 1)
    OBVIOUS
  <2> QED BY <1>1, <2>1 DEF JoinRun, Begins
<1>4. FlattenSeq(parts) = run[n]
  BY <1>3, FlattenSeqRuns
<1>5. run[n + 1] = run[(n + 1) - 1] \o more[n + 1]
  <2>1. n + 1 \in 1..(n + 1)
    OBVIOUS
  <2> QED BY <1>1, <2>1 DEF JoinRun
<1>6. (n + 1) - 1 = n
  OBVIOUS
<1> QED BY <1>2, <1>4, <1>5, <1>6

LEMMA FlattenNothing ==
  ASSUME NEW parts, parts = <<>>
  PROVE  FlattenSeq(parts) = <<>>
<1>1. Len(parts) = 0
  OBVIOUS
<1> QED BY <1>1, Zenon DEF FlattenSeq

-----------------------------------------------------------------------------
(* Buffers whose data is in memory, and whose position is in their data.   *)
GoodBuffers ==
  {b \in [ptr : Seq(Byte), size : Nat, offset : Nat] :
     b.offset <= b.size /\ b.size < SizeMod /\ b.size <= Len(b.ptr)}

(* The position is in the data.                                            *)
LEMMA DataIsGood == ASSUME NEW b PROVE InData(b) <=> b \in GoodBuffers
BY DEF InData, GoodBuffers

BytesLeft(b) == b.size - b.offset

Skip(b, n) == [b EXCEPT !.offset = b.offset + n]

(* r is a read of n bytes, or a refusal that has taken some.               *)
Took(b, r, n) ==
  /\ n \in 0..BytesLeft(b)
  /\ r.ok = TRUE /\ r.value = BytesAt(b, n) /\ r.buf = Skip(b, n)

Gave(b, r) ==
  /\ r.ok = FALSE /\ r.value = <<>>
  /\ \E n \in 0..BytesLeft(b) : r.buf = Skip(b, n)

(* What the assumptions say of the sizes.                                  *)
LEMMA Sizes ==
  /\ ByteBits \in Nat \ {0} /\ ShortLen \in Nat \ {0} /\ WordLen \in Nat \ {0}
  /\ HashLen \in Nat \ {0} /\ SizeMod \in Nat \ {0} /\ MaxPath \in Nat
  /\ ShortLen < SizeMod /\ HashLen < SizeMod
BY WidthsAssumption, SizeAssumption

(* A byte is a number that a size can be compared with.                    *)
LEMMA ByteIsSize == ASSUME NEW x \in Byte PROVE x \in Nat /\ x < SizeMod
BY SizeAssumption, Sizes DEF Byte

(* Modulo SizeMod, a small number is itself and a sum of two that is not   *)
(* small loses SizeMod.                                                    *)
LEMMA Modulo ==
  /\ \A n \in 0..(SizeMod - 1) : n % SizeMod = n
  /\ \A n \in SizeMod..(2 * SizeMod - 1) : n % SizeMod = n - SizeMod
BY Sizes

(* buffer_remaining: the unsigned difference is the number of bytes left.  *)
LEMMA RemainingIsUnread ==
  ASSUME NEW b \in GoodBuffers
  PROVE  BytesLeft(b) \in Nat /\ BytesLeft(b) < SizeMod /\ Remaining(b) = BytesLeft(b)
<1>1. BytesLeft(b) \in 0..(SizeMod - 1)
  BY Sizes DEF GoodBuffers, BytesLeft
<1> QED BY <1>1, Modulo, Sizes DEF Remaining, BytesLeft

(* Going forward by no more than is left stays in the data.                *)
LEMMA SkipStaysGood ==
  ASSUME NEW b \in GoodBuffers, NEW n \in 0..BytesLeft(b)
  PROVE  /\ Skip(b, n) \in GoodBuffers
         /\ Skip(b, n).ptr = b.ptr /\ Skip(b, n).size = b.size
         /\ Skip(b, n).offset = b.offset + n
         /\ BytesLeft(Skip(b, n)) = BytesLeft(b) - n
BY DEF GoodBuffers, BytesLeft, Skip

(* Going forward twice is going forward by the sum.                        *)
LEMMA SkipTwice ==
  ASSUME NEW b \in GoodBuffers, NEW m \in Nat, NEW n \in Nat, m + n <= BytesLeft(b)
  PROVE  Skip(Skip(b, m), n) = Skip(b, m + n)
<1>1. /\ b \in [ptr : Seq(Byte), size : Nat, offset : Nat]
      /\ b.offset + m + n = b.offset + (m + n)
  BY DEF GoodBuffers
<1>2. Skip(b, m).offset = b.offset + m
  BY <1>1 DEF Skip
<1>3. Skip(Skip(b, m), n) = [b EXCEPT !.offset = b.offset + m + n]
  BY <1>1, <1>2 DEF Skip
<1> QED BY <1>1, <1>3 DEF Skip

(* Going forward by nothing changes nothing.                               *)
LEMMA SkipNothing ==
  ASSUME NEW b \in GoodBuffers
  PROVE  Skip(b, 0) = b
BY DEF GoodBuffers, Skip

-----------------------------------------------------------------------------
(* The seeks.                                                              *)

(* buffer_seek_cur moves when the data reaches so far, and only then: a    *)
(* sum that wraps around is below the offset.                              *)
LEMMA SeekCurSkips ==
  ASSUME NEW b \in GoodBuffers, NEW n \in 0..(SizeMod - 1)
  PROVE  /\ n <= BytesLeft(b) => SeekCur(b, n) = Skip(b, n)
         /\ n > BytesLeft(b) => SeekCur(b, n) = b
<1> DEFINE sum == b.offset + n
<1>1. /\ b.offset \in Nat /\ b.size \in Nat /\ b.offset <= b.size /\ b.size < SizeMod
      /\ sum \in Nat /\ SizeMod \in Nat \ {0} /\ n \in Nat /\ n < SizeMod
  BY Sizes DEF GoodBuffers
<1>2. CASE sum < SizeMod
  <2>1. sum % SizeMod = sum
    BY <1>1, <1>2, Modulo
  <2> QED BY <1>1, <2>1 DEF SeekCur, Skip, BytesLeft
<1>3. CASE sum >= SizeMod
  <2>1. sum % SizeMod = sum - SizeMod
    BY <1>1, <1>3, Modulo
  <2>2. sum % SizeMod < b.offset /\ n > BytesLeft(b)
    BY <1>1, <1>3, <2>1 DEF BytesLeft
  <2> QED BY <1>1, <2>2 DEF SeekCur, BytesLeft
<1> QED BY <1>1, <1>2, <1>3

(* Every seek goes to a place of the data.                                 *)
LEMMA SeekStaysInside ==
  ASSUME NEW b \in GoodBuffers, NEW n \in 0..(SizeMod - 1),
         NEW c \in {SeekSet(b, n), SeekCur(b, n), SeekEnd(b, n)}
  PROVE  c \in GoodBuffers /\ c.ptr = b.ptr /\ c.size = b.size
<1>1. /\ n \in Nat
      /\ b \in [ptr : Seq(Byte), size : Nat, offset : Nat] /\ b.offset <= b.size
  BY Sizes DEF GoodBuffers
<1>2. CASE c = SeekSet(b, n)
  BY <1>1, <1>2 DEF SeekSet, GoodBuffers
<1>3. CASE c = SeekCur(b, n)
  <2>1. n <= BytesLeft(b) => n \in 0..BytesLeft(b)
    BY <1>1, RemainingIsUnread
  <2> QED BY <1>1, <1>3, <2>1, SeekCurSkips, SkipStaysGood, RemainingIsUnread
<1>4. CASE c = SeekEnd(b, n)
  BY <1>1, <1>4 DEF SeekEnd, GoodBuffers
<1> QED BY <1>2, <1>3, <1>4

-----------------------------------------------------------------------------
(* The reads.                                                              *)

(* A refusal at any place of the data is one.                              *)
LEMMA RefusedGave ==
  ASSUME NEW b \in GoodBuffers, NEW n \in 0..BytesLeft(b)
  PROVE  Gave(b, Refused(Skip(b, n))) /\ Gave(b, Refused(b))
<1>1. 0 \in 0..BytesLeft(b)
  BY RemainingIsUnread
<1> QED BY <1>1, SkipNothing DEF Gave, Refused

(* buffer_read_buffer takes n bytes if there are so many, or else none.    *)
LEMMA ReadBytesReads ==
  ASSUME NEW b \in GoodBuffers, NEW n \in Nat
  PROVE  IF n <= BytesLeft(b) THEN Took(b, ReadBytes(b, n), n)
         ELSE ReadBytes(b, n) = Refused(b)
<1>1. CanRead(b, n) <=> n <= BytesLeft(b)
  BY RemainingIsUnread DEF CanRead
<1>2. CASE n <= BytesLeft(b)
  <2>1. n \in 0..BytesLeft(b) /\ n \in 0..(SizeMod - 1)
    BY <1>2, RemainingIsUnread, Sizes
  <2>2. SeekCur(b, n) = Skip(b, n)
    BY <1>2, <2>1, SeekCurSkips
  <2> QED BY <1>1, <1>2, <2>1, <2>2 DEF ReadBytes, Took
<1> QED BY <1>1, <1>2 DEF ReadBytes

(* Two pieces of the data, one behind the other, are one piece.            *)
LEMMA SubSeqsJoin ==
  ASSUME NEW p \in Seq(Byte), NEW o \in Nat, NEW m \in Nat, NEW n \in Nat,
         o + m + n <= Len(p)
  PROVE  SubSeq(p, o + 1, o + m) \o SubSeq(p, o + m + 1, o + m + n)
           = SubSeq(p, o + 1, o + m + n)
<1> DEFINE first == o + 1
           middle == o + m
           last == o + m + n
<1>1. Len(p) \in Nat
  OBVIOUS
<1>2. /\ first \in 1..(Len(p) + 1)
      /\ middle \in (first - 1)..Len(p)
      /\ last \in middle..Len(p)
  BY <1>1
<1> HIDE DEF first, middle, last
<1>3. SubSeq(p, first, middle) \o SubSeq(p, middle + 1, last) = SubSeq(p, first, last)
  BY <1>2, ConcatAdjacentSubSeq
<1> QED BY <1>3 DEF first, middle, last

(* What a second read returns follows what the first returned.             *)
LEMMA PiecesJoin ==
  ASSUME NEW b \in GoodBuffers, NEW m \in Nat, NEW n \in Nat, m + n <= BytesLeft(b)
  PROVE  BytesAt(b, m) \o BytesAt(Skip(b, m), n) = BytesAt(b, m + n)
<1>1. /\ b.ptr \in Seq(Byte) /\ b.offset \in Nat /\ m \in 0..BytesLeft(b)
      /\ b.offset + m + n <= Len(b.ptr) /\ b.offset + (m + n) = b.offset + m + n
  BY Sizes DEF GoodBuffers, BytesLeft
<1>2. Skip(b, m).ptr = b.ptr /\ Skip(b, m).offset = b.offset + m
  BY <1>1, SkipStaysGood
<1>3. BytesAt(Skip(b, m), n) = SubSeq(b.ptr, b.offset + m + 1, b.offset + m + n)
  BY <1>2 DEF BytesAt
<1>4. BytesAt(b, m + n) = SubSeq(b.ptr, b.offset + 1, b.offset + m + n)
  BY <1>1 DEF BytesAt
<1>5. BytesAt(b, m) = SubSeq(b.ptr, b.offset + 1, b.offset + m)
  BY DEF BytesAt
<1>6. SubSeq(b.ptr, b.offset + 1, b.offset + m)
        \o SubSeq(b.ptr, b.offset + m + 1, b.offset + m + n)
      = SubSeq(b.ptr, b.offset + 1, b.offset + m + n)
  BY <1>1, SubSeqsJoin
<1> QED BY <1>3, <1>4, <1>5, <1>6

(* What has been moved past, with what is read next.                       *)
LEMMA DataOfSkip ==
  ASSUME NEW b \in GoodBuffers, NEW n \in 0..BytesLeft(b)
  PROVE  SubSeq(Skip(b, n).ptr, 1, Skip(b, n).offset)
           = SubSeq(b.ptr, 1, b.offset) \o BytesAt(b, n)
<1> DEFINE p == b.ptr
           o == b.offset
           z == b.offset + n
<1>1. p \in Seq(Byte) /\ o \in 0..Len(p) /\ z \in o..Len(p) /\ 1 \in 1..(Len(p) + 1)
  BY DEF GoodBuffers, BytesLeft
<1>2. Skip(b, n).ptr = p /\ Skip(b, n).offset = z
  BY SkipStaysGood
<1>3. BytesAt(b, n) = SubSeq(p, o + 1, z)
  BY DEF BytesAt
<1> HIDE DEF p, o, z
<1>4. SubSeq(p, 1, o) \o SubSeq(p, o + 1, z) = SubSeq(p, 1, z)
  BY <1>1, ConcatAdjacentSubSeq
<1> QED BY <1>2, <1>3, <1>4 DEF p, o

(* Two reads in a row take what both ask for, or the second is refused     *)
(* behind the first.                                                       *)
LEMMA ThenReads ==
  ASSUME NEW b \in GoodBuffers, NEW m \in Nat, NEW n \in Nat,
         NEW r, r = Then(ReadBytes(b, m), ReadBytes(ReadBytes(b, m).buf, n))
  PROVE  IF m + n <= BytesLeft(b) THEN Took(b, r, m + n) ELSE Gave(b, r)
<1> DEFINE first  == ReadBytes(b, m)
           second == ReadBytes(Skip(b, m), n)
<1>0. BytesLeft(b) \in Nat
  BY RemainingIsUnread
<1>1. CASE m > BytesLeft(b)
  <2>1. first = Refused(b)
    BY <1>0, <1>1, ReadBytesReads
  <2>2. r = Refused(b)
    BY <2>1 DEF Then, Refused
  <2>3. 0 \in 0..BytesLeft(b)
    BY <1>0
  <2> QED BY <1>0, <1>1, <2>2, <2>3, RefusedGave
<1>2. CASE m <= BytesLeft(b)
  <2>1. m \in 0..BytesLeft(b) /\ Took(b, first, m)
    BY <1>0, <1>2, ReadBytesReads
  <2>2. r = Then(first, second)
    BY <2>1 DEF Took
  <2>3. Skip(b, m) \in GoodBuffers /\ BytesLeft(Skip(b, m)) = BytesLeft(b) - m
    BY <2>1, SkipStaysGood
  <2>4. CASE m + n <= BytesLeft(b)
    <3>1. Took(Skip(b, m), second, n)
      BY <1>0, <2>3, <2>4, ReadBytesReads
    <3>2. /\ r.ok = second.ok /\ r.buf = second.buf
          /\ r.value = first.value \o second.value
      BY <2>1, <2>2, <3>1 DEF Then, Took, ReadBytes, Refused
    <3>3. first.value = BytesAt(b, m) /\ second.value = BytesAt(Skip(b, m), n)
      BY <2>1, <3>1 DEF Took
    <3>4. r.value = BytesAt(b, m + n)
      BY <2>4, <3>2, <3>3, PiecesJoin
    <3>5. r.ok /\ r.buf = Skip(b, m + n)
      BY <2>1, <2>4, <3>1, <3>2, SkipTwice DEF Took
    <3>6. m + n \in 0..BytesLeft(b)
      BY <1>0, <2>4
    <3> QED BY <2>4, <3>4, <3>5, <3>6 DEF Took
  <2>5. CASE m + n > BytesLeft(b)
    <3>1. second = Refused(Skip(b, m))
      BY <1>0, <2>3, <2>5, ReadBytesReads
    <3>2. r = Refused(Skip(b, m))
      BY <2>1, <2>2, <3>1 DEF Then, Took, Refused
    <3> QED BY <1>0, <2>1, <2>5, <3>2, RefusedGave
  <2> QED BY <1>0, <2>4, <2>5
<1> QED BY <1>0, <1>1, <1>2
-----------------------------------------------------------------------------
(* A part of the data is made of bytes, and as long as it was asked for.   *)
LEMMA BytesAtType ==
  ASSUME NEW b \in GoodBuffers, NEW n \in 0..BytesLeft(b)
  PROVE  BytesAt(b, n) \in Seq(Byte) /\ Len(BytesAt(b, n)) = n
<1> DEFINE from == b.offset + 1
           to   == b.offset + n
<1>1. /\ b.ptr \in Seq(Byte) /\ b.offset \in Nat /\ n \in Nat /\ to <= Len(b.ptr)
      /\ Len(b.ptr) \in Nat
  BY DEF GoodBuffers, BytesLeft
<1>2. /\ from \in Int /\ to \in Int
      /\ \A i \in from..to : b.ptr[i] \in Byte
  BY <1>1
<1>3. /\ SubSeq(b.ptr, from, to) \in Seq(Byte)
      /\ Len(SubSeq(b.ptr, from, to)) = IF from <= to THEN to - from + 1 ELSE 0
  <2> HIDE DEF from, to
  <2> QED BY <1>2, SubSeqProperties
<1>4. (IF from <= to THEN to - from + 1 ELSE 0) = n
  BY <1>1
<1> HIDE DEF from, to
<1>5. BytesAt(b, n) = SubSeq(b.ptr, from, to)
  BY DEF BytesAt, from, to
<1> QED BY <1>3, <1>4, <1>5

(* The byte that tells a length.                                           *)
LEMMA ByteAtType ==
  ASSUME NEW b \in GoodBuffers, BytesLeft(b) > 0
  PROVE  BytesAt(b, 1)[1] \in Nat
<1>1. 1 \in 0..BytesLeft(b)
  BY RemainingIsUnread
<1>2. BytesAt(b, 1) \in Seq(Byte) /\ Len(BytesAt(b, 1)) = 1
  BY <1>1, BytesAtType
<1>3. BytesAt(b, 1)[1] \in Byte
  BY <1>2
<1> QED BY <1>3, ByteIsSize

-----------------------------------------------------------------------------
(* The calls the parsers of requests make: each takes a number of bytes    *)
(* and returns them, or is a refusal.                                      *)
FieldKinds == {"bytes", "BE", "bool", "varuint", "address", "cellref"}

Reads(b, r) == Gave(b, r) \/ \E n \in 0..BytesLeft(b) : Took(b, r, n)

LEMMA ReadBytesDoes ==
  ASSUME NEW b \in GoodBuffers, NEW n \in Nat
  PROVE  Reads(b, ReadBytes(b, n))
<1>1. BytesLeft(b) \in Nat
  BY RemainingIsUnread
<1>2. CASE n <= BytesLeft(b)
  <2>1. n \in 0..BytesLeft(b) /\ Took(b, ReadBytes(b, n), n)
    BY <1>1, <1>2, ReadBytesReads
  <2> QED BY <2>1 DEF Reads
<1>3. CASE n > BytesLeft(b)
  <2>1. ReadBytes(b, n) = Refused(b)
    BY <1>1, <1>3, ReadBytesReads
  <2>2. 0 \in 0..BytesLeft(b)
    BY <1>1
  <2> QED BY <2>1, <2>2, RefusedGave DEF Reads
<1> QED BY <1>1, <1>2, <1>3

LEMMA TwoReadsDo ==
  ASSUME NEW b \in GoodBuffers, NEW m \in Nat, NEW n \in Nat,
         NEW r, r = Then(ReadBytes(b, m), ReadBytes(ReadBytes(b, m).buf, n))
  PROVE  Reads(b, r)
<1>1. IF m + n <= BytesLeft(b) THEN Took(b, r, m + n) ELSE Gave(b, r)
  BY ThenReads
<1>2. CASE m + n <= BytesLeft(b)
  BY <1>1, <1>2 DEF Reads, Took
<1> QED BY <1>1, <1>2 DEF Reads

(* Nothing is read after a refusal.                                        *)
LEMMA ThenRefuses ==
  ASSUME NEW b, NEW second
  PROVE  Then(Refused(b), second) = Refused(b)
BY DEF Then, Refused

LEMMA ReadVaruintDoes ==
  ASSUME NEW b \in GoodBuffers, NEW max \in Nat
  PROVE  Reads(b, ReadVaruint(b, max))
<1> DEFINE length == ReadBytes(b, 1)
           number == BytesAt(b, 1)[1]
<1>0. BytesLeft(b) \in Nat
  BY RemainingIsUnread
<1>1. CASE BytesLeft(b) = 0
  <2>1. length = Refused(b)
    BY <1>1, ReadBytesReads
  <2>2. ReadVaruint(b, max) = Refused(b)
    BY <2>1, ThenRefuses DEF ReadVaruint
  <2>3. 0 \in 0..BytesLeft(b)
    BY <1>0
  <2> QED BY <2>2, <2>3, RefusedGave DEF Reads
<1>2. CASE BytesLeft(b) > 0
  <2>1. Took(b, length, 1)
    BY <1>0, <1>2, ReadBytesReads
  <2>2. 1 \in 0..BytesLeft(b) /\ length.ok /\ length.buf = Skip(b, 1)
        /\ length.value[1] = number /\ number \in Nat
    BY <1>2, <2>1, ByteAtType DEF Took
  <2>3. CASE number > max
    <3>1. ReadVaruint(b, max) = Refused(Skip(b, 1))
      BY <2>2, <2>3 DEF ReadVaruint, Then, Refused
    <3> QED BY <2>2, <3>1, RefusedGave DEF Reads
  <2>4. CASE number <= max
    <3>1. ReadVaruint(b, max) = Then(length, ReadBytes(length.buf, number))
      BY <2>2, <2>4 DEF ReadVaruint
    <3> QED BY <2>2, <3>1, TwoReadsDo
  <2> QED BY <2>2, <2>3, <2>4
<1> QED BY <1>0, <1>1, <1>2

LEMMA FieldReads ==
  ASSUME NEW b \in GoodBuffers, NEW c, c.kind \in FieldKinds, c.n \in Nat
  PROVE  Reads(b, ReadCall(b, c))
<1>1. CASE c.kind \in {"bytes", "BE"}
  <2>1. ReadCall(b, c) = ReadBytes(b, c.n)
    BY <1>1 DEF ReadCall, ReadUint
  <2> QED BY <2>1, ReadBytesDoes
<1>2. CASE c.kind = "bool"
  <2>1. ReadCall(b, c) = ReadBytes(b, 1) \/ ReadCall(b, c) = Refused(b)
    BY <1>2 DEF ReadCall, ReadBool
  <2>2. 0 \in 0..BytesLeft(b)
    BY RemainingIsUnread
  <2> QED BY <2>1, <2>2, ReadBytesDoes, RefusedGave DEF Reads
<1>3. CASE c.kind = "varuint"
  <2>1. ReadCall(b, c) = ReadVaruint(b, c.n)
    BY <1>3 DEF ReadCall
  <2> QED BY <2>1, ReadVaruintDoes
<1>4. CASE c.kind = "address"
  <2>1. ReadCall(b, c) = Then(ReadBytes(b, 1), ReadBytes(ReadBytes(b, 1).buf, HashLen))
    BY <1>4 DEF ReadCall, ReadAddress
  <2> QED BY <2>1, Sizes, TwoReadsDo
<1>5. CASE c.kind = "cellref"
  <2>1. ReadCall(b, c)
          = Then(ReadBytes(b, ShortLen), ReadBytes(ReadBytes(b, ShortLen).buf, HashLen))
    BY <1>5 DEF ReadCall, ReadCellRef, ReadUint
  <2> QED BY <2>1, Sizes, TwoReadsDo
<1> QED BY <1>1, <1>2, <1>3, <1>4, <1>5 DEF FieldKinds

(* Whatever a read does, the position stays in the data.                   *)
LEMMA ReadStaysInData ==
  ASSUME NEW b \in GoodBuffers, NEW r, Reads(b, r)
  PROVE  /\ r.buf \in GoodBuffers /\ r.buf.ptr = b.ptr /\ r.buf.size = b.size
         /\ r.ok => \E k \in 0..BytesLeft(b) : Took(b, r, k)
<1>1. \E k \in 0..BytesLeft(b) : r.buf = Skip(b, k)
  BY DEF Reads, Gave, Took
<1>2. r.buf \in GoodBuffers /\ r.buf.ptr = b.ptr /\ r.buf.size = b.size
  BY <1>1, SkipStaysGood
<1> QED BY <1>2 DEF Reads, Gave

-----------------------------------------------------------------------------
(* What the proof needs of a layout.                                       *)
Readable(layout, m) ==
  /\ m \in Nat /\ Len(layout) = m
  /\ \A i, j \in 1..m : layout[i].name = layout[j].name => i = j

(* The values of the fields of a layout.                                   *)
LEMMA ValueType ==
  ASSUME NEW layout, NEW m, Readable(layout, m), NEW values \in Values(layout), NEW i \in 1..m
  PROVE  /\ values[layout[i].name] \in Seq(Byte)
         /\ layout[i].name \in DOMAIN values
<1>1. layout[i].name \in {layout[j].name : j \in 1..Len(layout)}
  BY DEF Readable
<1> QED BY <1>1 DEF Values

Stored(values, name, v) == [values EXCEPT ![name] = v]

(* A number read from a request.                                           *)
LEMMA NumberType == ASSUME NEW bytes \in Seq(Byte) PROVE BytesNumber(bytes) \in Nat
<1>1. bytes \in Seq(Nat)
  <2>1. \A i \in 1..Len(bytes) : bytes[i] \in Byte
    OBVIOUS
  <2>2. Len(bytes) \in Nat /\ bytes \in [1..Len(bytes) -> Nat]
    BY <2>1, ByteIsSize
  <2> QED BY <2>2
<1> QED BY <1>1, BytesNumberType

(* What is read has the form its kind says.                                *)
LEMMA BytesTaken ==
  ASSUME NEW b \in GoodBuffers, NEW n \in Nat, ReadBytes(b, n).ok
  PROVE  n \in 0..BytesLeft(b) /\ Took(b, ReadBytes(b, n), n)
         /\ Len(ReadBytes(b, n).value) = n
<1>1. n <= BytesLeft(b) /\ BytesLeft(b) \in Nat
  BY ReadBytesReads, RemainingIsUnread DEF Refused
<1>2. Took(b, ReadBytes(b, n), n) /\ n \in 0..BytesLeft(b)
  BY <1>1, ReadBytesReads
<1> QED BY <1>2, BytesAtType DEF Took

(* A read made of two takes both.                                          *)
LEMMA TwoTaken ==
  ASSUME NEW b \in GoodBuffers, NEW m \in Nat, NEW n \in Nat,
         NEW r, r = Then(ReadBytes(b, m), ReadBytes(ReadBytes(b, m).buf, n)), r.ok
  PROVE  m + n \in 0..BytesLeft(b) /\ Took(b, r, m + n) /\ Len(r.value) = m + n
<1>1. IF m + n <= BytesLeft(b) THEN Took(b, r, m + n) ELSE Gave(b, r)
  BY ThenReads
<1>2. m + n \in 0..BytesLeft(b) /\ Took(b, r, m + n)
  BY <1>1, RemainingIsUnread DEF Gave
<1> QED BY <1>2, BytesAtType DEF Took

(* The first of more bytes is the first.                                   *)
LEMMA FirstOfBytes ==
  ASSUME NEW b \in GoodBuffers, NEW n \in 1..BytesLeft(b)
  PROVE  BytesAt(b, n)[1] = BytesAt(b, 1)[1]
<1>1. /\ b.ptr \in Seq(Byte) /\ b.offset \in Nat /\ n \in Nat /\ n >= 1
      /\ b.offset + n <= Len(b.ptr)
  BY DEF GoodBuffers, BytesLeft
<1> DEFINE o == b.offset
<1>2. SubSeq(b.ptr, o + 1, o + n)[1] = b.ptr[o + 1]
  BY <1>1
<1>3. SubSeq(b.ptr, o + 1, o + 1)[1] = b.ptr[o + 1]
  BY <1>1
<1> QED BY <1>2, <1>3 DEF BytesAt

(* A sequence of one element.                                              *)
LEMMA OneElement == ASSUME NEW S, NEW v \in Seq(S), Len(v) = 1 PROVE v = <<v[1]>>
OBVIOUS

(* A flag is read as a zero or a one.                                      *)
LEMMA BoolForm ==
  ASSUME NEW b \in GoodBuffers, ReadBool(b).ok
  PROVE  ReadBool(b).value \in {<<0>>, <<1>>}
<1>1. /\ CanRead(b, 1) /\ BytesAt(b, 1)[1] \in {0, 1} /\ ReadBool(b) = ReadBytes(b, 1)
  BY DEF ReadBool, Refused
<1>2. 1 \in 0..BytesLeft(b) /\ ReadBool(b).value = BytesAt(b, 1)
  <2>1. ReadBytes(b, 1).ok
    BY <1>1
  <2>2. 1 \in 0..BytesLeft(b) /\ Took(b, ReadBytes(b, 1), 1)
    BY <2>1, BytesTaken
  <2> QED BY <1>1, <2>2 DEF Took
<1>3. BytesAt(b, 1) \in Seq(Byte) /\ Len(BytesAt(b, 1)) = 1
  BY <1>2, BytesAtType
<1>4. BytesAt(b, 1) = <<BytesAt(b, 1)[1]>>
  BY <1>3, OneElement
<1> QED BY <1>1, <1>2, <1>4

(* An amount has as many bytes as its length byte says, and no more than   *)
(* its limit.                                                              *)
LEMMA VaruintForm ==
  ASSUME NEW b \in GoodBuffers, NEW max \in Nat, NEW r, r = ReadVaruint(b, max), r.ok
  PROVE  Len(r.value) = 1 + r.value[1] /\ r.value[1] <= max /\ r.value[1] \in Nat
<1> DEFINE length == ReadBytes(b, 1)
           number == BytesAt(b, 1)[1]
<1>1. length.ok
  BY DEF ReadVaruint, Then
<1>2. 1 \in 0..BytesLeft(b) /\ Took(b, length, 1)
  BY <1>1, BytesTaken
<1>3. length.buf = Skip(b, 1) /\ length.value[1] = number
  BY <1>2 DEF Took
<1>4. number \in Nat /\ BytesLeft(b) \in Nat
  BY <1>2, ByteAtType, RemainingIsUnread
<1> HIDE DEF length, number
<1>5. ~(number > max)
  BY <1>1, <1>3 DEF ReadVaruint, Then, Refused, length
<1>6. r = Then(length, ReadBytes(length.buf, number))
  BY <1>3, <1>5 DEF ReadVaruint, length
<1>7. 1 + number \in 0..BytesLeft(b) /\ Took(b, r, 1 + number) /\ Len(r.value) = 1 + number
  BY <1>4, <1>6, TwoTaken DEF length
<1>8. r.value[1] = number
  BY <1>4, <1>7, FirstOfBytes DEF Took, number
<1> QED BY <1>4, <1>5, <1>7, <1>8

(* Whatever is read has the form of its kind.                              *)
LEMMA ReadInForm ==
  ASSUME NEW b \in GoodBuffers, NEW f, f.kind \in FieldKinds, f.n \in Nat,
         NEW r, r = ReadCall(b, [kind |-> f.kind, n |-> f.n]), r.ok
  PROVE  InForm(f, r.value)
<1> DEFINE c == [kind |-> f.kind, n |-> f.n]
<1>0. c.kind = f.kind /\ c.n = f.n /\ r = ReadCall(b, c)
  OBVIOUS
<1> HIDE DEF c
<1>1. CASE f.kind \in {"bytes", "BE"}
  <2>1. r = ReadBytes(b, f.n)
    BY <1>0, <1>1 DEF ReadCall, ReadUint
  <2> QED BY <1>1, <2>1, BytesTaken DEF InForm
<1>2. CASE f.kind = "bool"
  <2>1. r = ReadBool(b)
    BY <1>0, <1>2 DEF ReadCall
  <2> QED BY <1>2, <2>1, BoolForm DEF InForm
<1>3. CASE f.kind = "varuint"
  <2>1. r = ReadVaruint(b, f.n)
    BY <1>0, <1>3 DEF ReadCall
  <2>2. Len(r.value) = 1 + r.value[1] /\ r.value[1] \in 0..f.n
    BY <2>1, VaruintForm
  <2> QED BY <1>3, <2>2 DEF InForm
<1>4. CASE f.kind = "address"
  <2>1. r = Then(ReadBytes(b, 1), ReadBytes(ReadBytes(b, 1).buf, HashLen))
    BY <1>0, <1>4 DEF ReadCall, ReadAddress
  <2>2. Len(r.value) = 1 + HashLen
    BY <2>1, Sizes, TwoTaken
  <2> QED BY <1>4, <2>2 DEF InForm
<1>5. CASE f.kind = "cellref"
  <2>1. r = Then(ReadBytes(b, ShortLen), ReadBytes(ReadBytes(b, ShortLen).buf, HashLen))
    BY <1>0, <1>5 DEF ReadCall, ReadCellRef, ReadUint
  <2>2. Len(r.value) = ShortLen + HashLen
    BY <2>1, Sizes, TwoTaken
  <2> QED BY <1>5, <2>2 DEF InForm
<1> QED BY <1>1, <1>2, <1>3, <1>4, <1>5 DEF FieldKinds
============================================================================
