----------------------------- MODULE CellProofs -----------------------------
(***************************************************************************)
(* Bits and cells for every width: what is stored is there, behind what    *)
(* was there before, and CellReader's CellOf takes a Representation apart  *)
(* again.                                                                  *)
(***************************************************************************)
EXTENDS CellReader, BytesProofs

-----------------------------------------------------------------------------
(* Division.                                                               *)
LEMMA Division ==
  ASSUME NEW a \in Nat, NEW d \in Nat \ {0}
  PROVE  /\ a \div d \in Nat /\ a % d \in 0..(d - 1)
         /\ a = d * (a \div d) + (a % d)
OBVIOUS

(* Quotient and remainder are the only ones.                               *)
LEMMA Quotient ==
  ASSUME NEW q \in Nat, NEW d \in Nat \ {0}, NEW r \in 0..(d - 1)
  PROVE  (d * q + r) \div d = q /\ (d * q + r) % d = r
OBVIOUS

(* Dividing once more by two.                                              *)
LEMMA Halves ==
  ASSUME NEW v \in Nat, NEW d \in Nat \ {0}
  PROVE  (v \div d) \div 2 = v \div (2 * d)
OBVIOUS

-----------------------------------------------------------------------------
(* There is a function for the numbers of the first digits.                *)
LEMMA RunExists ==
  ASSUME NEW g, NEW k \in Nat
  PROVE  \E r : RunOf(r, g, k)
<1>1. \A i \in 0..k : [j \in 0..k |-> g[1..j]][i] = g[1..i]
  OBVIOUS
<1> QED BY <1>1 DEF RunOf

-----------------------------------------------------------------------------
(* Number: the bits are the digits of a number.                            *)
Digits(run, bits) ==
  /\ run[0] = 0
  /\ \A i \in 1..Len(bits) : run[i] = 2 * run[i - 1] + bits[i]

(* Number is the last value of that function.                              *)
LEMMA NumberRuns ==
  ASSUME NEW bits \in Seq(Bit)
  PROVE  \E run : Digits(run, bits) /\ Number(bits) = run[Len(bits)]
<1> DEFINE n == Len(bits)
           F == [p \in Nat \X (1..n) |-> 2 * p[1] + bits[p[2]]]
           Steps(g) == g = [s \in SUBSET (DOMAIN bits) |->
                              IF s = {} THEN 0 ELSE 2 * g[s \ {Max(s)}] + bits[Max(s)]]
           iter == CHOOSE g : Steps(g)
<1>1. n \in Nat /\ DOMAIN bits = 1..n /\ \A i \in 1..n : bits[i] \in Nat
  BY DEF Bit
<1>2. \A a \in Nat : \A i \in 1..n : F[<<a, i>>] = 2 * a + bits[i] /\ F[<<a, i>>] \in Nat
  BY <1>1
<1>3. PICK g \in [SUBSET (1..n) -> Nat] : Folded(g, n, 0, F)
  <2> HIDE DEF F
  <2> QED BY <1>1, <1>2, FoldExists
<1>4. Steps(g)
  <2>1. ASSUME NEW s \in SUBSET (1..n)
        PROVE  g[s] = IF s = {} THEN 0 ELSE 2 * g[s \ {Max(s)}] + bits[Max(s)]
    <3>1. CASE s = {}
      BY <1>3, <3>1 DEF Folded
    <3>2. CASE s # {}
      <4>1. Max(s) \in 1..n /\ s \ {Max(s)} \in SUBSET (1..n)
        BY <1>1, <3>2, MaxOfPart
      <4>2. g[s \ {Max(s)}] \in Nat
        BY <4>1
      <4>3. g[s] = F[<<g[s \ {Max(s)}], Max(s)>>]
        BY <1>3, <3>2 DEF Folded
      <4> HIDE DEF F
      <4> QED BY <1>2, <3>2, <4>1, <4>2, <4>3
    <3> QED BY <3>1, <3>2
  <2> QED BY <1>1, <2>1
<1>5. Steps(iter)
  <2> HIDE DEF Steps
  <2> QED BY <1>4
<1>6. \A s \in SUBSET (1..n) :
        iter[s] = IF s = {} THEN 0 ELSE 2 * iter[s \ {Max(s)}] + bits[Max(s)]
  <2> HIDE DEF iter
  <2> QED BY <1>1, <1>5
<1>7. Number(bits) = iter[1..n]
  BY <1>1 DEF Number, FoldLeft, MapThenFoldSet
<1> HIDE DEF iter, n, F, Steps
<1>8. PICK run : RunOf(run, iter, n)
  BY <1>1, RunExists
<1>9. run[0] = 0 /\ run[n] = iter[1..n]
  <2>1. {} \in SUBSET (1..n) /\ 1..0 = {} /\ 0 \in 0..n /\ n \in 0..n
    BY <1>1
  <2> QED BY <1>6, <1>8, <2>1 DEF RunOf
<1>10. ASSUME NEW i \in 1..n
       PROVE  run[i] = 2 * run[i - 1] + bits[i]
  <2>1. /\ 1..i \in SUBSET (1..n) /\ 1..i # {} /\ Max(1..i) = i
        /\ i \in 0..n /\ i - 1 \in 0..n /\ (1..i) \ {i} = 1..(i - 1)
    BY <1>1, RunStep
  <2>2. run[i] = iter[1..i] /\ run[i - 1] = iter[1..(i - 1)]
    BY <1>8, <2>1 DEF RunOf
  <2>3. iter[1..i] = 2 * iter[(1..i) \ {Max(1..i)}] + bits[Max(1..i)]
    BY <1>6, <2>1
  <2> QED BY <2>1, <2>2, <2>3
<1>11. Digits(run, bits)
  BY <1>9, <1>10 DEF Digits, n
<1> QED BY <1>7, <1>9, <1>11 DEF n

(* The power every number of bits starts from.                             *)
LEMMA PowerZero == 2^0 = 1
<1>1. IsFiniteSet({}) /\ Cardinality({}) = 0
  BY FS_EmptySet
<1>2. Cardinality(SUBSET {}) = 2^0
  BY <1>1, FS_SUBSET, Zenon
<1>3. SUBSET {} = {{}} /\ Cardinality({{}}) = 1
  BY FS_Singleton
<1> QED BY <1>2, <1>3

(* The number of the first i digits, from that of all.                     *)
LEMMA DigitsNat ==
  ASSUME NEW bits \in Seq(Bit), NEW run, Digits(run, bits)
  PROVE  \A i \in 0..Len(bits) : run[i] \in Nat
<1> DEFINE n == Len(bits)
           T == {i \in 0..n : run[i] \in Nat}
<1>1. n \in Nat /\ \A i \in 1..n : bits[i] \in Nat
  BY DEF Bit
<1>2. 0 \in T
  BY <1>1 DEF Digits
<1>3. ASSUME NEW i \in 1..n, i - 1 \in T
      PROVE  i \in T
  <2>1. run[i] = 2 * run[i - 1] + bits[i] /\ run[i - 1] \in Nat /\ bits[i] \in Nat /\ i \in 0..n
    BY <1>1, <1>3 DEF Digits
  <2> QED BY <2>1
<1> HIDE DEF n
<1>4. \A i \in 0..n : i \in T
  <2> HIDE DEF T
  <2> QED BY <1>1, <1>2, <1>3, BoundedInduction
<1> QED BY <1>4 DEF n

(* Dropping k digits is dividing by the k-th power of two.                 *)
LEMMA DigitsFront ==
  ASSUME NEW bits \in Seq(Bit), NEW run, Digits(run, bits)
  PROVE  \A k \in 0..Len(bits) : run[Len(bits)] \div 2^k = run[Len(bits) - k]
<1> DEFINE n == Len(bits)
           T == {k \in 0..n : run[n] \div 2^k = run[n - k]}
<1>1. n \in Nat /\ \A i \in 0..n : run[i] \in Nat
  BY DigitsNat
<1>2. 0 \in T
  BY <1>1, PowerZero
<1>3. ASSUME NEW k \in 1..n, k - 1 \in T
      PROVE  k \in T
  <2>1. run[n] \div 2^(k - 1) = run[n - (k - 1)] /\ n - (k - 1) = (n - k) + 1 /\ k \in 0..n
    BY <1>3
  <2>2. n - (k - 1) \in 1..n /\ n - k \in 0..n /\ (n - (k - 1)) - 1 = n - k
    BY <1>1
  <2>3. run[n - (k - 1)] = 2 * run[n - k] + bits[n - (k - 1)] /\ bits[n - (k - 1)] \in Bit
    BY <2>2 DEF Digits
  <2>4. run[n - k] \in Nat /\ run[n] \in Nat
    BY <1>1, <2>2
  <2>5. run[n - (k - 1)] \div 2 = run[n - k]
    BY <2>3, <2>4, SMTT(60) DEF Bit
  <2>6. 2^k = 2 * 2^(k - 1) /\ 2^(k - 1) \in Nat \ {0}
    <3>1. k - 1 \in Nat /\ (k - 1) + 1 = k
      OBVIOUS
    <3> QED BY <3>1, TwoPower
  <2>7. (run[n] \div 2^(k - 1)) \div 2 = run[n] \div (2 * 2^(k - 1))
    BY <2>4, <2>6, Halves
  <2> HIDE DEF n
  <2> QED BY <2>1, <2>5, <2>6, <2>7
<1> HIDE DEF n
<1>4. \A k \in 0..n : k \in T
  <2> HIDE DEF T
  <2> QED BY <1>1, <1>2, <1>3, BoundedInduction
<1> QED BY <1>4 DEF n

(* The bits of the number of some bits are these bits.                     *)
LEMMA UintOfNumber ==
  ASSUME NEW bits \in Seq(Bit)
  PROVE  Number(bits) \in Nat /\ UintBits(Number(bits), Len(bits)) = bits
<1> DEFINE n == Len(bits)
<1>1. PICK run : Digits(run, bits) /\ Number(bits) = run[n]
  BY NumberRuns
<1>2. n \in Nat /\ n \in 0..n /\ \A i \in 0..n : run[i] \in Nat
  BY <1>1, DigitsNat
<1>3. ASSUME NEW i \in 1..n
      PROVE  (run[n] \div 2^(n - i)) % 2 = bits[i]
  <2>1. n - i \in 0..n /\ n - (n - i) = i /\ i - 1 \in 0..n
    BY <1>2
  <2>2. run[n] \div 2^(n - i) = run[i]
    BY <1>1, <2>1, DigitsFront
  <2>3. run[i] = 2 * run[i - 1] + bits[i] /\ run[i - 1] \in Nat /\ bits[i] \in Bit
    BY <1>1, <1>2, <2>1 DEF Digits
  <2>4. run[i] % 2 = bits[i]
    BY <2>3 DEF Bit
  <2> QED BY <2>2, <2>4
<1>4. UintBits(run[n], n) = [i \in 1..n |-> bits[i]]
  BY <1>3 DEF UintBits
<1>5. bits = [i \in 1..n |-> bits[i]]
  OBVIOUS
<1> QED BY <1>1, <1>2, <1>4, <1>5

(* The bits of a number are as many as asked for, whatever the number is.  *)
LEMMA UintBitsType ==
  ASSUME NEW v \in Nat, NEW n \in Nat
  PROVE  /\ UintBits(v, n) \in Seq(Bit) /\ Len(UintBits(v, n)) = n
         /\ \A i \in 1..n : UintBits(v, n)[i] = (v \div 2^(n - i)) % 2
<1>1. ASSUME NEW i \in 1..n
      PROVE  (v \div 2^(n - i)) % 2 \in Bit
  <2>1. 2^(n - i) \in Nat \ {0}
    BY TwoPower
  <2>2. v \div 2^(n - i) \in Nat
    BY <2>1, Division
  <2> QED BY <2>2, Division DEF Bit
<1>2. UintBits(v, n) \in [1..n -> Bit]
  BY <1>1 DEF UintBits
<1> QED BY <1>2 DEF UintBits

(* And the number of the bits of a number, if they are enough, is it.      *)
LEMMA NumberOfUint ==
  ASSUME NEW n \in Nat, NEW v \in Nat, v < 2^n
  PROVE  Number(UintBits(v, n)) = v
<1> DEFINE bits == UintBits(v, n)
<1>1. bits \in Seq(Bit) /\ Len(bits) = n /\ \A i \in 1..n : bits[i] = (v \div 2^(n - i)) % 2
  BY UintBitsType
<1> HIDE DEF bits
<1>2. PICK run : Digits(run, bits) /\ Number(bits) = run[n]
  BY <1>1, NumberRuns
<1> DEFINE T == {i \in 0..n : run[i] = v \div 2^(n - i)}
<1>3. 0 \in T
  <2>1. 2^n \in Nat \ {0}
    BY TwoPower
  <2>2. v \div 2^n = 0
    BY <2>1
  <2> QED BY <1>2, <2>2 DEF Digits
<1>4. ASSUME NEW i \in 1..n, i - 1 \in T
      PROVE  i \in T
  <2>1. n - i \in Nat /\ n - (i - 1) = (n - i) + 1
    BY <1>4
  <2>2. 2^(n - i) \in Nat \ {0} /\ 2^(n - (i - 1)) = 2 * 2^(n - i)
    BY <2>1, TwoPower
  <2>3. (v \div 2^(n - i)) \div 2 = v \div 2^(n - (i - 1)) /\ v \div 2^(n - i) \in Nat
    BY <2>2, Halves, Division
  <2>4. run[i] = 2 * run[i - 1] + bits[i] /\ run[i - 1] = v \div 2^(n - (i - 1)) /\ i \in 0..n
    BY <1>1, <1>2, <1>4 DEF Digits
  <2>5. bits[i] = (v \div 2^(n - i)) % 2
    BY <1>1
  <2> DEFINE a == v \div 2^(n - i)
  <2>6. a \in Nat /\ run[i] = 2 * (a \div 2) + (a % 2)
    BY <2>3, <2>4, <2>5
  <2> HIDE DEF a
  <2>7. run[i] = a
    BY <2>6, Division
  <2> QED BY <2>4, <2>7 DEF a
<1>5. \A i \in 0..n : i \in T
  <2> HIDE DEF T
  <2> QED BY <1>3, <1>4, BoundedInduction
<1>6. run[n] = v \div 2^0
  <2>1. n \in 0..n /\ n - n = 0
    OBVIOUS
  <2>2. run[n] = v \div 2^(n - n)
    BY <1>5, <2>1
  <2> QED BY <2>1, <2>2
<1>7. v \div 2^0 = v
  BY PowerZero
<1> QED BY <1>2, <1>6, <1>7 DEF bits

-----------------------------------------------------------------------------
(* The bit string: the position of a bit, and what a store does.           *)
LEMMA Place ==
  ASSUME NEW i \in 0..(Capacity * ByteBits - 1)
  PROVE  /\ i \div ByteBits \in 0..(Capacity - 1)
         /\ (ByteBits - 1) - (i % ByteBits) \in 0..(ByteBits - 1)
<1>1. ByteBits \in Nat \ {0} /\ Capacity \in Nat \ {0} /\ i \in Nat
  BY WidthsAssumption, BitStringAssumption
<1>2. /\ i \div ByteBits \in Nat /\ i % ByteBits \in 0..(ByteBits - 1)
      /\ i = ByteBits * (i \div ByteBits) + (i % ByteBits)
  BY <1>1, Division
<1>3. i < Capacity * ByteBits
  BY <1>1
<1>4. i \div ByteBits < Capacity
  BY <1>1, <1>2, <1>3
<1> QED BY <1>1, <1>2, <1>4

(* Two cursors have their bits in different places of the array.           *)
LEMMA PlaceOfOne ==
  ASSUME NEW i \in Nat, NEW j \in Nat, i \div ByteBits = j \div ByteBits,
         (ByteBits - 1) - (i % ByteBits) = (ByteBits - 1) - (j % ByteBits)
  PROVE  i = j
<1>1. ByteBits \in Nat \ {0}
  BY WidthsAssumption
<1>2. /\ i = ByteBits * (i \div ByteBits) + (i % ByteBits) /\ i % ByteBits \in Nat
      /\ j = ByteBits * (j \div ByteBits) + (j % ByteBits) /\ j % ByteBits \in Nat
  BY <1>1, Division
<1> QED BY <1>1, <1>2

(* The content of a bit string is its bits up to the cursor.               *)
LEMMA ContentType ==
  ASSUME NEW s \in BitString
  PROVE  /\ Content(s) \in Seq(Bit) /\ Len(Content(s)) = s.cursor /\ s.cursor \in Nat
         /\ \A i \in 1..s.cursor : Content(s)[i] = BitAt(s, i - 1) /\ BitAt(s, i - 1) \in Bit
<1>1. /\ s.data \in [0..(Capacity - 1) -> [0..(ByteBits - 1) -> Bit]]
      /\ s.cursor \in 0..(Capacity * ByteBits)
  BY DEF BitString
<1>2. ASSUME NEW i \in 1..s.cursor
      PROVE  BitAt(s, i - 1) \in Bit
  <2>1. i - 1 \in 0..(Capacity * ByteBits - 1)
    BY <1>1, WidthsAssumption, BitStringAssumption
  <2> QED BY <1>1, <2>1, Place DEF BitAt
<1>3. Content(s) \in [1..s.cursor -> Bit]
  BY <1>2 DEF Content
<1> QED BY <1>1, <1>2, <1>3 DEF Content

(* A bit stored where there is room is appended, and no other changes.     *)
LEMMA StoreBitStores ==
  ASSUME NEW s \in BitString, s.cursor < Capacity * ByteBits, NEW v \in Bit
  PROVE  /\ StoreBit(s, v) \in BitString /\ StoreBit(s, v).cursor = s.cursor + 1
         /\ Content(StoreBit(s, v)) = Append(Content(s), v)
<1> DEFINE c == s.cursor
           a == c \div ByteBits
           b == (ByteBits - 1) - (c % ByteBits)
           t == StoreBit(s, v)
<1>1. /\ s.data \in [0..(Capacity - 1) -> [0..(ByteBits - 1) -> Bit]]
      /\ c \in 0..(Capacity * ByteBits - 1) /\ c \in Nat
      /\ s = [data |-> s.data, cursor |-> c]
  BY WidthsAssumption, BitStringAssumption DEF BitString
<1>2. a \in 0..(Capacity - 1) /\ b \in 0..(ByteBits - 1)
  BY <1>1, Place
<1>3. t = [s EXCEPT !.data[a][b] = v, !.cursor = @ + 1]
  BY DEF StoreBit
<1> HIDE DEF t, a, b
<1>4. s \in [data : [0..(Capacity - 1) -> [0..(ByteBits - 1) -> Bit]], cursor : Nat]
  BY <1>1
<1>5. t = [data |-> [s.data EXCEPT ![a][b] = v], cursor |-> c + 1]
  BY <1>3, <1>4
<1> HIDE DEF c
<1>6. /\ t.cursor = c + 1
      /\ t.data \in [0..(Capacity - 1) -> [0..(ByteBits - 1) -> Bit]]
      /\ t.data[a][b] = v
      /\ \A k \in 0..(Capacity - 1), w \in 0..(ByteBits - 1) :
           k # a \/ w # b => t.data[k][w] = s.data[k][w]
  BY <1>1, <1>2, <1>5
<1>7. t \in BitString
  <2>1. c + 1 \in 0..(Capacity * ByteBits)
    <3> DEFINE room == Capacity * ByteBits
    <3>1. room \in Nat /\ c \in 0..(room - 1)
      BY <1>1, WidthsAssumption, BitStringAssumption
    <3> HIDE DEF room
    <3>2. c + 1 \in 0..room
      BY <3>1
    <3> QED BY <3>2 DEF room
  <2>2. t = [data |-> t.data, cursor |-> c + 1]
    BY <1>5
  <2> QED BY <1>6, <2>1, <2>2 DEF BitString
<1>8. ASSUME NEW i \in 1..c
      PROVE  Content(t)[i] = Content(s)[i]
  <2>1. i - 1 \in 0..(Capacity * ByteBits - 1) /\ i - 1 # c /\ i - 1 \in Nat
    BY <1>1, WidthsAssumption, BitStringAssumption
  <2>2. (i - 1) \div ByteBits # a \/ (ByteBits - 1) - ((i - 1) % ByteBits) # b
    BY <1>1, <2>1, PlaceOfOne DEF a, b
  <2>3. BitAt(t, i - 1) = BitAt(s, i - 1)
    BY <1>6, <2>1, <2>2, Place DEF BitAt
  <2>4. i \in 1..t.cursor /\ i \in 1..s.cursor
    BY <1>1, <1>6 DEF c
  <2> QED BY <1>7, <2>3, <2>4, ContentType
<1>9. Content(t)[c + 1] = v
  <2>1. c + 1 \in 1..t.cursor /\ (c + 1) - 1 = c
    BY <1>1, <1>6
  <2>2. Content(t)[c + 1] = BitAt(t, (c + 1) - 1)
    BY <1>7, <2>1, ContentType
  <2>3. BitAt(t, c) = v
    BY <1>6 DEF BitAt, a, b
  <2> QED BY <2>1, <2>2, <2>3
<1>10. Content(t) = Append(Content(s), v)
  <2>1. /\ Content(t) \in Seq(Bit) /\ Len(Content(t)) = c + 1
        /\ Content(s) \in Seq(Bit) /\ Len(Content(s)) = c
    BY <1>6, <1>7, ContentType DEF c
  <2>2. /\ Append(Content(s), v) \in Seq(Bit) /\ Len(Append(Content(s), v)) = c + 1
        /\ \A i \in 1..c : Append(Content(s), v)[i] = Content(s)[i]
        /\ Append(Content(s), v)[c + 1] = v
    BY <2>1
  <2>3. \A i \in 1..(c + 1) : i \in 1..c \/ i = c + 1
    BY <1>1
  <2>4. \A i \in 1..(c + 1) : Content(t)[i] = Append(Content(s), v)[i]
    BY <1>8, <1>9, <2>2, <2>3
  <2> QED BY <2>1, <2>2, <2>4
<1> QED BY <1>6, <1>7, <1>10 DEF t, c

(* BitString_storeBits and the stores that call it.  Beyond the capacity a *)
(* store loses its bit; the cursor goes on.                                *)
Strings ==
  [data : [0..(Capacity - 1) -> [0..(ByteBits - 1) -> Bit]], cursor : Nat]

(* A store leaves an array of bytes, also beyond the capacity.             *)
LEMMA StoreBitType ==
  ASSUME NEW s \in Strings, NEW v \in Bit
  PROVE  StoreBit(s, v) \in Strings
<1> DEFINE a == s.cursor \div ByteBits
           b == (ByteBits - 1) - (s.cursor % ByteBits)
<1>1. StoreBit(s, v) = [s EXCEPT !.data[a][b] = v, !.cursor = @ + 1]
  BY DEF StoreBit
<1> HIDE DEF a, b
<1>2. StoreBit(s, v) = [data |-> [s.data EXCEPT ![a][b] = v], cursor |-> s.cursor + 1]
  BY <1>1 DEF Strings
<1>3. /\ s.data \in [0..(Capacity - 1) -> [0..(ByteBits - 1) -> Bit]] /\ s.cursor \in Nat
  BY DEF Strings
<1>4. [s.data EXCEPT ![a][b] = v] \in [0..(Capacity - 1) -> [0..(ByteBits - 1) -> Bit]]
  <2>1. CASE a \in 0..(Capacity - 1)
    <3>1. [s.data[a] EXCEPT ![b] = v] \in [0..(ByteBits - 1) -> Bit]
      BY <1>3, <2>1
    <3> QED BY <1>3, <2>1, <3>1
  <2>2. CASE a \notin 0..(Capacity - 1)
    <3>1. [s.data EXCEPT ![a][b] = v] = s.data
      BY <1>3, <2>2
    <3> QED BY <1>3, <3>1
  <2> QED BY <2>1, <2>2
<1> QED BY <1>2, <1>3, <1>4 DEF Strings

StoreRun(run, s, bits) ==
  /\ run[0] = s
  /\ \A i \in 1..Len(bits) : run[i] = StoreBit(run[i - 1], bits[i])

(* Storing several bits is storing one after the other.                    *)
LEMMA StoreBitsRuns ==
  ASSUME NEW s \in Strings, NEW bits \in Seq(Bit)
  PROVE  \E run : StoreRun(run, s, bits) /\ StoreBits(s, bits) = run[Len(bits)]
<1> DEFINE n == Len(bits)
           F == [p \in Strings \X (1..n) |-> StoreBit(p[1], bits[p[2]])]
           Steps(g) == g = [t \in SUBSET (DOMAIN bits) |->
                              IF t = {} THEN s ELSE StoreBit(g[t \ {Max(t)}], bits[Max(t)])]
           iter == CHOOSE g : Steps(g)
<1>1. n \in Nat /\ DOMAIN bits = 1..n /\ \A i \in 1..n : bits[i] \in Bit
  OBVIOUS
<1>2. \A a \in Strings : \A i \in 1..n :
        F[<<a, i>>] = StoreBit(a, bits[i]) /\ F[<<a, i>>] \in Strings
  BY <1>1, StoreBitType
<1>3. PICK g \in [SUBSET (1..n) -> Strings] : Folded(g, n, s, F)
  <2> HIDE DEF F
  <2> QED BY <1>1, <1>2, FoldExists
<1>4. Steps(g)
  <2>1. ASSUME NEW t \in SUBSET (1..n)
        PROVE  g[t] = IF t = {} THEN s ELSE StoreBit(g[t \ {Max(t)}], bits[Max(t)])
    <3>1. CASE t = {}
      BY <1>3, <3>1 DEF Folded
    <3>2. CASE t # {}
      <4>1. Max(t) \in 1..n /\ t \ {Max(t)} \in SUBSET (1..n)
        BY <1>1, <3>2, MaxOfPart
      <4>2. g[t \ {Max(t)}] \in Strings
        BY <4>1
      <4>3. g[t] = F[<<g[t \ {Max(t)}], Max(t)>>]
        BY <1>3, <3>2 DEF Folded
      <4> HIDE DEF F
      <4> QED BY <1>2, <3>2, <4>1, <4>2, <4>3
    <3> QED BY <3>1, <3>2
  <2> QED BY <1>1, <2>1
<1>5. Steps(iter)
  <2> HIDE DEF Steps
  <2> QED BY <1>4
<1>6. \A t \in SUBSET (1..n) :
        iter[t] = IF t = {} THEN s ELSE StoreBit(iter[t \ {Max(t)}], bits[Max(t)])
  <2> HIDE DEF iter
  <2> QED BY <1>1, <1>5
<1>7. StoreBits(s, bits) = iter[1..n]
  BY <1>1 DEF StoreBits, FoldLeft, MapThenFoldSet
<1> HIDE DEF iter, n, F, Steps
<1>8. PICK run : RunOf(run, iter, n)
  BY <1>1, RunExists
<1>9. run[0] = s /\ run[n] = iter[1..n]
  <2>1. {} \in SUBSET (1..n) /\ 1..0 = {} /\ 0 \in 0..n /\ n \in 0..n
    BY <1>1
  <2> QED BY <1>6, <1>8, <2>1 DEF RunOf
<1>10. ASSUME NEW i \in 1..n
       PROVE  run[i] = StoreBit(run[i - 1], bits[i])
  <2>1. /\ 1..i \in SUBSET (1..n) /\ 1..i # {} /\ Max(1..i) = i
        /\ i \in 0..n /\ i - 1 \in 0..n /\ (1..i) \ {i} = 1..(i - 1)
    BY <1>1, RunStep
  <2>2. run[i] = iter[1..i] /\ run[i - 1] = iter[1..(i - 1)]
    BY <1>8, <2>1 DEF RunOf
  <2>3. iter[1..i] = StoreBit(iter[(1..i) \ {Max(1..i)}], bits[Max(1..i)])
    BY <1>6, <2>1
  <2> QED BY <2>1, <2>2, <2>3
<1>11. StoreRun(run, s, bits)
  BY <1>9, <1>10 DEF StoreRun, n
<1> QED BY <1>7, <1>9, <1>11 DEF n

(* The bit string t has the bits w and no more.                            *)
Room == Capacity * ByteBits
Holds(t, w) == t \in BitString /\ Content(t) = w

(* A bit string that holds w has its cursor behind w.                      *)
LEMMA HoldsType ==
  ASSUME NEW t, NEW w, Holds(t, w)
  PROVE  /\ t \in BitString /\ t \in Strings /\ w \in Seq(Bit)
         /\ t.cursor = Len(w) /\ Len(w) \in 0..Room
<1>1. t \in BitString
  BY DEF Holds
<1>2. w \in Seq(Bit) /\ Len(w) = t.cursor
  BY <1>1, ContentType DEF Holds
<1>3. t \in Strings /\ t.cursor \in 0..Room
  BY <1>1, WidthsAssumption, BitStringAssumption DEF BitString, Strings, Room
<1> QED BY <1>1, <1>2, <1>3

(* BitString_init leaves a bit string that holds nothing.                  *)
LEMMA NoBitsHolds == Holds(NoBits, <<>>)
<1>1. NoBits \in BitString /\ NoBits.cursor = 0
  BY WidthsAssumption, BitStringAssumption DEF NoBits, BitString, Bit
<1>2. Content(NoBits) \in Seq(Bit) /\ Len(Content(NoBits)) = 0
  BY <1>1, ContentType
<1> QED BY <1>1, <1>2 DEF Holds

(* BitString_storeBit: one bit more is held.                               *)
LEMMA StoreBitHolds ==
  ASSUME NEW t, NEW w, Holds(t, w), Len(w) < Room, NEW v \in Bit
  PROVE  Holds(StoreBit(t, v), Append(w, v))
BY HoldsType, StoreBitStores DEF Holds, Room

(* A sequence and the first i of another: one more than with i - 1.        *)
LEMMA AppendOne ==
  ASSUME NEW S, NEW w \in Seq(S), NEW u \in Seq(S), NEW i \in 1..Len(u)
  PROVE  /\ w \o SubSeq(u, 1, i) = Append(w \o SubSeq(u, 1, i - 1), u[i])
         /\ Len(w \o SubSeq(u, 1, i - 1)) = Len(w) + (i - 1)
         /\ w \o SubSeq(u, 1, i - 1) \in Seq(S)
OBVIOUS

(* BitString_storeBits: the bits are held behind those before.             *)
LEMMA StoreBitsHolds ==
  ASSUME NEW t, NEW w, Holds(t, w), NEW bits \in Seq(Bit), Len(w) + Len(bits) <= Room
  PROVE  Holds(StoreBits(t, bits), w \o bits)
<1> DEFINE n == Len(bits)
<1>1. t \in Strings /\ w \in Seq(Bit) /\ Len(w) \in Nat /\ Room \in Nat /\ n \in Nat
  BY HoldsType, WidthsAssumption, BitStringAssumption DEF Room
<1>2. PICK run : StoreRun(run, t, bits) /\ StoreBits(t, bits) = run[n]
  BY <1>1, StoreBitsRuns
<1> DEFINE T == {i \in 0..n : Holds(run[i], w \o SubSeq(bits, 1, i))}
<1>3. 0 \in T
  <2>1. w \o SubSeq(bits, 1, 0) = w
    BY <1>1
  <2>2. run[0] = t /\ 0 \in 0..n
    BY <1>1, <1>2 DEF StoreRun
  <2>3. Holds(run[0], w \o SubSeq(bits, 1, 0))
    BY <2>1, <2>2, Zenon
  <2> QED BY <2>2, <2>3, Zenon
<1>4. ASSUME NEW i \in 1..n, i - 1 \in T
      PROVE  i \in T
  <2> DEFINE u == w \o SubSeq(bits, 1, i - 1)
  <2>1. /\ w \o SubSeq(bits, 1, i) = Append(u, bits[i])
        /\ Len(u) = Len(w) + (i - 1)
    BY <1>1, AppendOne
  <2>2. Holds(run[i - 1], u) /\ run[i] = StoreBit(run[i - 1], bits[i]) /\ bits[i] \in Bit
    BY <1>2, <1>4 DEF StoreRun
  <2>3. Len(u) < Room
    BY <1>1, <2>1
  <2> HIDE DEF u
  <2>4. Holds(run[i], Append(u, bits[i]))
    BY <2>2, <2>3, StoreBitHolds
  <2>5. i \in 0..n
    OBVIOUS
  <2> QED BY <2>1, <2>4, <2>5, Zenon DEF u
<1>5. \A i \in 0..n : i \in T
  <2> HIDE DEF T, n
  <2> QED BY <1>1, <1>3, <1>4, BoundedInduction
<1>6. SubSeq(bits, 1, n) = bits /\ n \in 0..n
  BY <1>1
<1> QED BY <1>2, <1>5, <1>6

(* BitString_storeUint: the bits of the number, the highest first.         *)
LEMMA StoreUintHolds ==
  ASSUME NEW t, NEW w, Holds(t, w), NEW v \in Nat, NEW n \in Nat, Len(w) + n <= Room
  PROVE  Holds(StoreUint(t, v, n), w \o UintBits(v, n))
<1>1. UintBits(v, n) \in Seq(Bit) /\ Len(UintBits(v, n)) = n
  BY UintBitsType
<1> QED BY <1>1, StoreBitsHolds DEF StoreUint

-----------------------------------------------------------------------------
(* The bits of a sequence of bytes.                                        *)
ByteParts(bytes) == [i \in 1..Len(bytes) |-> UintBits(bytes[i], ByteBits)]

(* The bits of bytes are those of each byte, one after the other.          *)
LEMMA BytePartsType ==
  ASSUME NEW bytes \in Seq(Nat)
  PROVE  /\ ByteParts(bytes) \in [1..Len(bytes) -> Seq(Bit)]
         /\ BytesBits(bytes) = FlattenSeq(ByteParts(bytes))
<1>1. ByteBits \in Nat /\ \A i \in 1..Len(bytes) : bytes[i] \in Nat
  BY WidthsAssumption
<1>2. \A i \in 1..Len(bytes) : UintBits(bytes[i], ByteBits) \in Seq(Bit)
  BY <1>1, UintBitsType
<1> QED BY <1>2 DEF ByteParts, BytesBits

(* No bytes have no bits.                                                  *)
LEMMA BytesBitsNothing == BytesBits(<<>>) = <<>>
<1>1. ByteParts(<<>>) = <<>>
  BY DEF ByteParts
<1>2. <<>> \in Seq(Nat)
  OBVIOUS
<1>3. BytesBits(<<>>) = FlattenSeq(ByteParts(<<>>))
  BY <1>2, BytePartsType
<1> QED BY <1>1, <1>3, FlattenNothing

(* One byte more has its bits behind the others.                           *)
LEMMA BytesBitsOneMore ==
  ASSUME NEW bytes \in Seq(Nat), NEW byte \in Nat
  PROVE  BytesBits(Append(bytes, byte)) = BytesBits(bytes) \o UintBits(byte, ByteBits)
<1> DEFINE n == Len(bytes)
           more == Append(bytes, byte)
           parts == ByteParts(bytes)
           others == ByteParts(more)
<1>1. /\ n \in Nat /\ more \in Seq(Nat) /\ Len(more) = n + 1 /\ more[n + 1] = byte
      /\ \A i \in 1..n : more[i] = bytes[i]
  OBVIOUS
<1>2. /\ parts \in [1..n -> Seq(Bit)] /\ others \in [1..(n + 1) -> Seq(Bit)]
      /\ BytesBits(bytes) = FlattenSeq(parts) /\ BytesBits(more) = FlattenSeq(others)
  BY <1>1, BytePartsType
<1>3. Begins(others, parts, n)
  BY <1>1 DEF Begins, ByteParts
<1>4. others[n + 1] = UintBits(byte, ByteBits)
  BY <1>1 DEF ByteParts
<1> HIDE DEF n, more, parts, others
<1>5. FlattenSeq(others) = FlattenSeq(parts) \o others[n + 1]
  BY <1>1, <1>2, <1>3, FlattenOneMore
<1> QED BY <1>2, <1>4, <1>5 DEF more

(* The first i of a sequence are one more than the first i - 1.            *)
LEMMA FrontOneMore ==
  ASSUME NEW S, NEW u \in Seq(S), NEW i \in 1..Len(u)
  PROVE  /\ SubSeq(u, 1, i) = Append(SubSeq(u, 1, i - 1), u[i])
         /\ SubSeq(u, 1, i - 1) \in Seq(S) /\ u[i] \in S
OBVIOUS

(* Each byte has as many bits as a byte has.                               *)
LEMMA BytesBitsType ==
  ASSUME NEW bytes \in Seq(Nat)
  PROVE  BytesBits(bytes) \in Seq(Bit) /\ Len(BytesBits(bytes)) = ByteBits * Len(bytes)
<1> DEFINE n == Len(bytes)
           Ok(w, i) == w \in Seq(Bit) /\ Len(w) = ByteBits * i
           T == {i \in 0..n : Ok(BytesBits(SubSeq(bytes, 1, i)), i)}
<1>1. n \in Nat /\ ByteBits \in Nat
  BY WidthsAssumption
<1>2. 0 \in T
  <2>1. SubSeq(bytes, 1, 0) = <<>>
    OBVIOUS
  <2>2. Ok(<<>>, 0) /\ 0 \in 0..n
    BY <1>1
  <2> HIDE DEF Ok
  <2> QED BY <2>1, <2>2, BytesBitsNothing
<1>3. ASSUME NEW i \in 1..n, i - 1 \in T
      PROVE  i \in T
  <2> DEFINE u == SubSeq(bytes, 1, i - 1)
             w == BytesBits(u)
             x == UintBits(bytes[i], ByteBits)
  <2>1. SubSeq(bytes, 1, i) = Append(u, bytes[i]) /\ u \in Seq(Nat) /\ bytes[i] \in Nat
    BY FrontOneMore
  <2>2. BytesBits(SubSeq(bytes, 1, i)) = w \o x
    BY <2>1, BytesBitsOneMore
  <2>3. Ok(w, i - 1)
    BY <1>3
  <2>4. x \in Seq(Bit) /\ Len(x) = ByteBits
    BY <1>1, <2>1, UintBitsType
  <2> HIDE DEF u, w, x
  <2>5. ByteBits * (i - 1) + ByteBits = ByteBits * i
    BY <1>1
  <2>6. Ok(w \o x, i)
    <3>1. w \in Seq(Bit) /\ Len(w) = ByteBits * (i - 1)
      BY <2>3
    <3>2. w \o x \in Seq(Bit) /\ Len(w \o x) = Len(w) + Len(x)
      BY <2>4, <3>1, ConcatProperties
    <3> QED BY <2>4, <2>5, <3>1, <3>2
  <2>7. i \in 0..n
    OBVIOUS
  <2> HIDE DEF Ok
  <2> QED BY <2>2, <2>6, <2>7
<1>4. \A i \in 0..n : i \in T
  <2> HIDE DEF T, n
  <2> QED BY <1>1, <1>2, <1>3, BoundedInduction
<1>5. SubSeq(bytes, 1, n) = bytes /\ n \in 0..n
  BY <1>1
<1> QED BY <1>4, <1>5

(* BitString_storeBuffer: the bits of the bytes, one after the other.      *)
LEMMA StoreUintType ==
  ASSUME NEW s \in Strings, NEW v \in Nat, NEW n \in Nat
  PROVE  StoreUint(s, v, n) \in Strings
<1> DEFINE bits == UintBits(v, n)
<1>1. bits \in Seq(Bit) /\ Len(bits) = n
  BY UintBitsType
<1> HIDE DEF bits
<1>2. PICK run : StoreRun(run, s, bits) /\ StoreBits(s, bits) = run[n]
  BY <1>1, StoreBitsRuns
<1> DEFINE T == {i \in 0..n : run[i] \in Strings}
<1>3. 0 \in T
  BY <1>2 DEF StoreRun
<1>4. ASSUME NEW i \in 1..n, i - 1 \in T
      PROVE  i \in T
  <2>1. run[i] = StoreBit(run[i - 1], bits[i]) /\ run[i - 1] \in Strings /\ bits[i] \in Bit
    BY <1>1, <1>2, <1>4 DEF StoreRun
  <2>2. run[i] \in Strings /\ i \in 0..n
    BY <2>1, StoreBitType
  <2> QED BY <2>2
<1>5. \A i \in 0..n : i \in T
  <2> HIDE DEF T
  <2> QED BY <1>3, <1>4, BoundedInduction
<1>6. n \in 0..n
  OBVIOUS
<1> QED BY <1>2, <1>5, <1>6 DEF StoreUint, bits

BufferRun(run, s, bytes) ==
  /\ run[0] = s
  /\ \A i \in 1..Len(bytes) : run[i] = StoreUint(run[i - 1], bytes[i], ByteBits)

(* Storing a buffer is storing its bytes one after the other.              *)
LEMMA StoreBufferRuns ==
  ASSUME NEW s \in Strings, NEW bytes \in Seq(Nat)
  PROVE  \E run : BufferRun(run, s, bytes) /\ StoreBuffer(s, bytes) = run[Len(bytes)]
<1> DEFINE n == Len(bytes)
           F == [p \in Strings \X (1..n) |-> StoreUint(p[1], bytes[p[2]], ByteBits)]
           Steps(g) == g = [t \in SUBSET (DOMAIN bytes) |->
                              IF t = {} THEN s
                              ELSE StoreUint(g[t \ {Max(t)}], bytes[Max(t)], ByteBits)]
           iter == CHOOSE g : Steps(g)
<1>1. n \in Nat /\ DOMAIN bytes = 1..n /\ \A i \in 1..n : bytes[i] \in Nat
  OBVIOUS
<1>2. \A a \in Strings : \A i \in 1..n :
        F[<<a, i>>] = StoreUint(a, bytes[i], ByteBits) /\ F[<<a, i>>] \in Strings
  BY <1>1, StoreUintType, WidthsAssumption
<1>3. PICK g \in [SUBSET (1..n) -> Strings] : Folded(g, n, s, F)
  <2> HIDE DEF F
  <2> QED BY <1>1, <1>2, FoldExists
<1>4. Steps(g)
  <2>1. ASSUME NEW t \in SUBSET (1..n)
        PROVE  g[t] = IF t = {} THEN s
                      ELSE StoreUint(g[t \ {Max(t)}], bytes[Max(t)], ByteBits)
    <3>1. CASE t = {}
      BY <1>3, <3>1 DEF Folded
    <3>2. CASE t # {}
      <4>1. Max(t) \in 1..n /\ t \ {Max(t)} \in SUBSET (1..n)
        BY <1>1, <3>2, MaxOfPart
      <4>2. g[t \ {Max(t)}] \in Strings
        BY <4>1
      <4>3. g[t] = F[<<g[t \ {Max(t)}], Max(t)>>]
        BY <1>3, <3>2 DEF Folded
      <4> HIDE DEF F
      <4> QED BY <1>2, <3>2, <4>1, <4>2, <4>3
    <3> QED BY <3>1, <3>2
  <2> QED BY <1>1, <2>1
<1>5. Steps(iter)
  <2> HIDE DEF Steps
  <2> QED BY <1>4
<1>6. \A t \in SUBSET (1..n) :
        iter[t] = IF t = {} THEN s
                  ELSE StoreUint(iter[t \ {Max(t)}], bytes[Max(t)], ByteBits)
  <2> HIDE DEF iter
  <2> QED BY <1>1, <1>5
<1>7. StoreBuffer(s, bytes) = iter[1..n]
  BY <1>1 DEF StoreBuffer, FoldLeft, MapThenFoldSet
<1> HIDE DEF iter, n, F, Steps
<1>8. PICK run : RunOf(run, iter, n)
  BY <1>1, RunExists
<1>9. run[0] = s /\ run[n] = iter[1..n]
  <2>1. {} \in SUBSET (1..n) /\ 1..0 = {} /\ 0 \in 0..n /\ n \in 0..n
    BY <1>1
  <2> QED BY <1>6, <1>8, <2>1 DEF RunOf
<1>10. ASSUME NEW i \in 1..n
       PROVE  run[i] = StoreUint(run[i - 1], bytes[i], ByteBits)
  <2>1. /\ 1..i \in SUBSET (1..n) /\ 1..i # {} /\ Max(1..i) = i
        /\ i \in 0..n /\ i - 1 \in 0..n /\ (1..i) \ {i} = 1..(i - 1)
    BY <1>1, RunStep
  <2>2. run[i] = iter[1..i] /\ run[i - 1] = iter[1..(i - 1)]
    BY <1>8, <2>1 DEF RunOf
  <2>3. iter[1..i] = StoreUint(iter[(1..i) \ {Max(1..i)}], bytes[Max(1..i)], ByteBits)
    BY <1>6, <2>1
  <2> QED BY <2>1, <2>2, <2>3
<1>11. BufferRun(run, s, bytes)
  BY <1>9, <1>10 DEF BufferRun, n
<1> QED BY <1>7, <1>9, <1>11 DEF n

(* BitString_storeBuffer: the bits of all bytes are held.                  *)
LEMMA StoreBufferHolds ==
  ASSUME NEW t, NEW w, Holds(t, w), NEW bytes \in Seq(Nat),
         Len(w) + ByteBits * Len(bytes) <= Room
  PROVE  Holds(StoreBuffer(t, bytes), w \o BytesBits(bytes))
<1> DEFINE n == Len(bytes)
<1>1. /\ t \in Strings /\ w \in Seq(Bit) /\ Len(w) \in Nat /\ Room \in Nat /\ n \in Nat
      /\ ByteBits \in Nat \ {0}
  BY HoldsType, WidthsAssumption, BitStringAssumption DEF Room
<1>2. PICK run : BufferRun(run, t, bytes) /\ StoreBuffer(t, bytes) = run[n]
  BY <1>1, StoreBufferRuns
<1> DEFINE U == {i \in 0..n : Holds(run[i], w \o BytesBits(SubSeq(bytes, 1, i)))}
<1>3. 0 \in U
  <2>1. SubSeq(bytes, 1, 0) = <<>> /\ w \o <<>> = w
    BY <1>1
  <2>2. run[0] = t /\ 0 \in 0..n
    BY <1>1, <1>2 DEF BufferRun
  <2>3. Holds(run[0], w \o BytesBits(SubSeq(bytes, 1, 0)))
    BY <2>1, <2>2, BytesBitsNothing, Zenon
  <2> QED BY <2>2, <2>3, Zenon
<1>4. ASSUME NEW i \in 1..n, i - 1 \in U
      PROVE  i \in U
  <2> DEFINE u == SubSeq(bytes, 1, i - 1)
             x == UintBits(bytes[i], ByteBits)
  <2>1. SubSeq(bytes, 1, i) = Append(u, bytes[i]) /\ u \in Seq(Nat) /\ bytes[i] \in Nat
    BY FrontOneMore
  <2>2. BytesBits(SubSeq(bytes, 1, i)) = BytesBits(u) \o x
    BY <2>1, BytesBitsOneMore
  <2>3. Holds(run[i - 1], w \o BytesBits(u))
    BY <1>4
  <2>4. run[i] = StoreUint(run[i - 1], bytes[i], ByteBits)
    BY <1>2 DEF BufferRun
  <2>5. BytesBits(u) \in Seq(Bit) /\ Len(BytesBits(u)) = ByteBits * (i - 1)
    <3>1. Len(u) = i - 1
      OBVIOUS
    <3> QED BY <2>1, <3>1, BytesBitsType
  <2>6. Len(w \o BytesBits(u)) = Len(w) + ByteBits * (i - 1)
    BY <1>1, <2>5, ConcatProperties
  <2>7. ByteBits * (i - 1) + ByteBits = ByteBits * i /\ ByteBits * i <= ByteBits * n
    <3>1. i \in Nat /\ i <= n
      BY <1>1
    <3> HIDE DEF n
    <3> QED BY <1>1, <3>1
  <2>8. x \in Seq(Bit)
    BY <1>1, <2>1, UintBitsType
  <2> HIDE DEF u
  <2>9. Len(w \o BytesBits(u)) + ByteBits <= Room
    BY <1>1, <2>6, <2>7
  <2>10. Holds(run[i], (w \o BytesBits(u)) \o x)
    BY <1>1, <2>1, <2>3, <2>4, <2>9, StoreUintHolds
  <2> HIDE DEF x
  <2>11. (w \o BytesBits(u)) \o x = w \o (BytesBits(u) \o x)
    <3>1. w \in Seq(Bit) /\ BytesBits(u) \in Seq(Bit) /\ x \in Seq(Bit)
      BY <1>1, <2>5, <2>8
    <3> QED BY <3>1, ConcatAssociative, SMTT(60)
  <2>12. i \in 0..n
    OBVIOUS
  <2> QED BY <2>2, <2>10, <2>11, <2>12, Zenon
<1>5. \A i \in 0..n : i \in U
  <2> HIDE DEF U, n
  <2> QED BY <1>1, <1>3, <1>4, BoundedInduction
<1>6. SubSeq(bytes, 1, n) = bytes /\ n \in 0..n
  BY <1>1
<1> QED BY <1>2, <1>5, <1>6

-----------------------------------------------------------------------------
(* BitString_finalize fills the last byte: a one and zeros.                *)
Padding(w) ==
  IF Len(w) % ByteBits = 0 THEN <<>>
  ELSE [i \in 1..(ByteBits - (Len(w) % ByteBits)) |-> IF i = 1 THEN 1 ELSE 0]

(* A last byte that is begun can be filled, since Room is full bytes.      *)
LEMMA RoomForPadding ==
  ASSUME NEW c \in 0..Room, c % ByteBits # 0
  PROVE  /\ c + (ByteBits - (c % ByteBits)) <= Room
         /\ c + (ByteBits - (c % ByteBits)) = ByteBits * ((c \div ByteBits) + 1)
         /\ ByteBits - (c % ByteBits) \in 1..ByteBits
<1> DEFINE q == c \div ByteBits
           r == c % ByteBits
<1>1. /\ ByteBits \in Nat \ {0} /\ Capacity \in Nat \ {0} /\ c \in Nat
      /\ Room = ByteBits * Capacity /\ c <= Room
  BY WidthsAssumption, BitStringAssumption DEF Room
<1>2. q \in Nat /\ r \in 0..(ByteBits - 1) /\ r # 0 /\ c = ByteBits * q + r
  BY <1>1, Division
<1> HIDE DEF q, r
<1>3. q + 1 <= Capacity
  BY <1>1, <1>2
<1>4. ByteBits * (q + 1) <= ByteBits * Capacity /\ ByteBits * (q + 1) = ByteBits * q + ByteBits
  BY <1>1, <1>2, <1>3
<1>5. c + (ByteBits - r) = ByteBits * (q + 1) /\ ByteBits * (q + 1) <= Room
  BY <1>1, <1>2, <1>4
<1> QED BY <1>1, <1>2, <1>5 DEF q, r

(* The padding is a one and zeros, if any is needed.                       *)
LEMMA PaddingType ==
  ASSUME NEW w \in Seq(Bit), Len(w) <= Room
  PROVE  /\ Padding(w) \in Seq(Bit) /\ Len(w) + Len(Padding(w)) <= Room
         /\ Len(Padding(w)) = IF Len(w) % ByteBits = 0 THEN 0
                              ELSE ByteBits - (Len(w) % ByteBits)
         /\ Len(w) % ByteBits # 0 =>
              /\ Len(Padding(w)) >= 1 /\ Padding(w)[1] = 1
              /\ \A i \in 2..Len(Padding(w)) : Padding(w)[i] = 0
<1>1. Len(w) \in Nat
  OBVIOUS
<1>2. CASE Len(w) % ByteBits = 0
  BY <1>2 DEF Padding
<1>3. CASE Len(w) % ByteBits # 0
  <2> DEFINE k == ByteBits - (Len(w) % ByteBits)
  <2>1. Len(w) \in 0..Room /\ Room \in Nat
    BY WidthsAssumption, BitStringAssumption DEF Room
  <2>2. k \in 1..ByteBits /\ Len(w) + k <= Room /\ k \in Nat
    BY <1>3, <2>1, RoomForPadding
  <2>3. Padding(w) = [i \in 1..k |-> IF i = 1 THEN 1 ELSE 0]
    BY <1>3 DEF Padding
  <2> HIDE DEF k
  <2>4. Padding(w) \in [1..k -> Bit]
    BY <2>3 DEF Bit
  <2>5. Padding(w) \in Seq(Bit) /\ Len(Padding(w)) = k
    BY <2>2, <2>4, <2>3
  <2>6. Padding(w)[1] = 1 /\ \A i \in 2..k : Padding(w)[i] = 0
    BY <2>2, <2>3
  <2> QED BY <1>3, <2>2, <2>5, <2>6 DEF k
<1> QED BY <1>2, <1>3

(* BitString_finalize: the padding is held behind the bits.                *)
LEMMA FinalizeHolds ==
  ASSUME NEW t, NEW w, Holds(t, w)
  PROVE  Holds(Finalize(t), w \o Padding(w))
<1>1. t.cursor = Len(w) /\ w \in Seq(Bit) /\ Len(w) <= Room
  BY HoldsType
<1>2. CASE Len(w) % ByteBits = 0
  <2>1. Finalize(t) = t /\ Padding(w) = <<>>
    BY <1>1, <1>2 DEF Finalize, Padding
  <2> QED BY <1>1, <2>1
<1>3. CASE Len(w) % ByteBits # 0
  <2>1. Finalize(t) = StoreBits(t, Padding(w))
    BY <1>1, <1>3 DEF Finalize, Padding
  <2>2. Padding(w) \in Seq(Bit) /\ Len(w) + Len(Padding(w)) <= Room
    BY <1>1, PaddingType
  <2> QED BY <2>1, <2>2, StoreBitsHolds
<1> QED BY <1>2, <1>3

-----------------------------------------------------------------------------
(* DataBytes: the bytes of a bit string that ends on a byte.               *)
LEMMA ByteValueBits ==
  ASSUME NEW byte \in [0..(ByteBits - 1) -> Bit]
  PROVE  /\ ByteValue(byte) \in Nat
         /\ \A i \in 1..ByteBits : UintBits(ByteValue(byte), ByteBits)[i] = byte[ByteBits - i]
<1> DEFINE u == [i \in 1..ByteBits |-> byte[ByteBits - i]]
<1>1. ByteBits \in Nat \ {0}
  BY WidthsAssumption
<1>2. \A i \in 1..ByteBits : ByteBits - i \in 0..(ByteBits - 1)
  BY <1>1
<1>3. u \in [1..ByteBits -> Bit]
  BY <1>2
<1>4. u \in Seq(Bit) /\ Len(u) = ByteBits /\ \A i \in 1..ByteBits : u[i] = byte[ByteBits - i]
  BY <1>1, <1>3
<1>5. ByteValue(byte) = Number(u)
  BY DEF ByteValue, Number
<1> HIDE DEF u
<1>6. Number(u) \in Nat /\ UintBits(Number(u), ByteBits) = u
  BY <1>4, UintOfNumber
<1> QED BY <1>4, <1>5, <1>6

(* The k-th byte of the array has the bits of its place.                   *)
LEMMA DataByte ==
  ASSUME NEW t, NEW w, Holds(t, w), NEW m \in Nat, Len(w) = ByteBits * m, NEW k \in 1..m
  PROVE  /\ DataBytes(t)[k] \in Nat
         /\ UintBits(DataBytes(t)[k], ByteBits) = SubSeq(w, ByteBits * (k - 1) + 1, ByteBits * k)
         /\ ByteBits * (k - 1) \in Nat /\ ByteBits * k = ByteBits * (k - 1) + ByteBits
         /\ ByteBits * k <= Len(w)
<1> DEFINE a == ByteBits * (k - 1)
           x == UintBits(DataBytes(t)[k], ByteBits)
<1>1. ByteBits \in Nat \ {0} /\ Capacity \in Nat \ {0}
  BY WidthsAssumption, BitStringAssumption
<1>2. /\ t \in BitString /\ w \in Seq(Bit) /\ t.cursor = Len(w) /\ Len(w) <= Room
      /\ Content(t) = w
  BY HoldsType DEF Holds
<1>3. a \in Nat /\ ByteBits * k = a + ByteBits /\ a + ByteBits <= Len(w) /\ k \in Nat /\ k <= m
  <2>1. k - 1 \in Nat /\ k <= m /\ k \in Nat
    OBVIOUS
  <2>2. ByteBits * k <= ByteBits * m
    BY <1>1, <2>1
  <2> QED BY <1>1, <2>1, <2>2
<1>4. t.cursor \div ByteBits = m
  BY <1>1, <1>2, Quotient
<1>5. k - 1 \in 0..(Capacity - 1)
  <2>1. ByteBits * m <= ByteBits * Capacity
    BY <1>1, <1>2 DEF Room
  <2>2. m <= Capacity
    BY <1>1, <2>1
  <2> QED BY <1>1, <1>3, <2>2
<1>6. t.data[k - 1] \in [0..(ByteBits - 1) -> Bit]
  BY <1>2, <1>5 DEF BitString
<1>7. DataBytes(t)[k] = ByteValue(t.data[k - 1])
  BY <1>4 DEF DataBytes
<1>8. /\ DataBytes(t)[k] \in Nat
      /\ \A i \in 1..ByteBits : x[i] = t.data[k - 1][ByteBits - i]
  BY <1>6, <1>7, ByteValueBits
<1>9. x \in Seq(Bit) /\ Len(x) = ByteBits
  BY <1>1, <1>8, UintBitsType
<1>10. ASSUME NEW i \in 1..ByteBits
       PROVE  w[a + i] = x[i]
  <2>1. i - 1 \in 0..(ByteBits - 1) /\ (a + i) - 1 = ByteBits * (k - 1) + (i - 1) /\ k - 1 \in Nat
    BY <1>1, <1>3
  <2>2. /\ ((a + i) - 1) \div ByteBits = k - 1
        /\ ((a + i) - 1) % ByteBits = i - 1
    <3>1. /\ (ByteBits * (k - 1) + (i - 1)) \div ByteBits = k - 1
          /\ (ByteBits * (k - 1) + (i - 1)) % ByteBits = i - 1
      BY <1>1, <2>1, Quotient, ZenonT(60)
    <3> HIDE DEF a
    <3> QED BY <2>1, <3>1
  <2>3. (ByteBits - 1) - (i - 1) = ByteBits - i
    BY <1>1
  <2>4. BitAt(t, (a + i) - 1) = t.data[k - 1][ByteBits - i]
    BY <2>2, <2>3 DEF BitAt
  <2>5. a + i \in 1..t.cursor
    BY <1>1, <1>2, <1>3
  <2>6. w[a + i] = BitAt(t, (a + i) - 1)
    BY <1>2, <2>5, ContentType
  <2> QED BY <1>8, <2>4, <2>6
<1> HIDE DEF a, x
<1>11. x = SubSeq(w, a + 1, a + ByteBits)
  <2>1. /\ SubSeq(w, a + 1, a + ByteBits) \in Seq(Bit)
        /\ Len(SubSeq(w, a + 1, a + ByteBits)) = ByteBits
        /\ \A i \in 1..ByteBits : SubSeq(w, a + 1, a + ByteBits)[i] = w[a + i]
    BY <1>1, <1>2, <1>3, SMTT(60)
  <2> DEFINE y == SubSeq(w, a + 1, a + ByteBits)
  <2>2. /\ y \in Seq(Bit) /\ Len(y) = ByteBits
        /\ \A i \in 1..ByteBits : y[i] = x[i]
    BY <1>10, <2>1
  <2> HIDE DEF y
  <2>3. x = y
    BY <1>1, <1>9, <2>2
  <2> QED BY <2>3 DEF y
<1> QED BY <1>3, <1>8, <1>11 DEF a, x

(* The bytes of the array have the bits that were stored.                  *)
LEMMA DataBytesBits ==
  ASSUME NEW t, NEW w, Holds(t, w), NEW m \in Nat, Len(w) = ByteBits * m
  PROVE  /\ DataBytes(t) \in Seq(Nat) /\ Len(DataBytes(t)) = m
         /\ BytesBits(DataBytes(t)) = w
<1> DEFINE D == DataBytes(t)
           U == {k \in 0..m : BytesBits(SubSeq(D, 1, k)) = SubSeq(w, 1, ByteBits * k)}
<1>1. ByteBits \in Nat \ {0} /\ w \in Seq(Bit) /\ t.cursor = Len(w)
  BY HoldsType, WidthsAssumption
<1>2. t.cursor \div ByteBits = m
  BY <1>1, Quotient
<1>3. D \in Seq(Nat) /\ Len(D) = m
  <2>1. \A k \in 1..m : D[k] \in Nat
    BY DataByte
  <2>2. D = [k \in 1..m |-> D[k]]
    BY <1>2 DEF DataBytes
  <2> HIDE DEF D
  <2>3. D \in [1..m -> Nat]
    BY <2>1, <2>2
  <2> QED BY <2>2, <2>3
<1>4. 0 \in U
  <2>1. SubSeq(D, 1, 0) = <<>> /\ ByteBits * 0 = 0 /\ SubSeq(w, 1, 0) = <<>>
    BY <1>1, <1>3
  <2> HIDE DEF D
  <2>2. BytesBits(SubSeq(D, 1, 0)) = SubSeq(w, 1, ByteBits * 0) /\ 0 \in 0..m
    <3>1. BytesBits(SubSeq(D, 1, 0)) = <<>>
      BY <2>1, BytesBitsNothing
    <3>2. SubSeq(w, 1, ByteBits * 0) = <<>>
      BY <2>1
    <3>3. 0 \in 0..m
      OBVIOUS
    <3> QED BY <3>1, <3>2, <3>3, Zenon
  <2> QED BY <2>2, Zenon
<1>5. ASSUME NEW k \in 1..m, k - 1 \in U
      PROVE  k \in U
  <2> DEFINE a == ByteBits * (k - 1)
  <2>1. /\ UintBits(D[k], ByteBits) = SubSeq(w, a + 1, ByteBits * k)
        /\ a \in Nat /\ ByteBits * k = a + ByteBits /\ ByteBits * k <= Len(w)
    BY DataByte
  <2> HIDE DEF D
  <2>2. SubSeq(D, 1, k) = Append(SubSeq(D, 1, k - 1), D[k]) /\ D[k] \in Nat
        /\ SubSeq(D, 1, k - 1) \in Seq(Nat)
    BY <1>3, FrontOneMore
  <2>3. BytesBits(SubSeq(D, 1, k)) = BytesBits(SubSeq(D, 1, k - 1)) \o UintBits(D[k], ByteBits)
    BY <2>2, BytesBitsOneMore
  <2>4. BytesBits(SubSeq(D, 1, k - 1)) = SubSeq(w, 1, a)
    BY <1>5
  <2> HIDE DEF a
  <2>5. SubSeq(w, 1, a) \o SubSeq(w, a + 1, a + ByteBits) = SubSeq(w, 1, a + ByteBits)
    <3>1. 1 \in 1..(Len(w) + 1) /\ a \in (1 - 1)..Len(w) /\ a + ByteBits \in a..Len(w)
      BY <1>1, <2>1
    <3> QED BY <1>1, <3>1, ConcatAdjacentSubSeq
  <2>6. k \in 0..m
    OBVIOUS
  <2> QED BY <2>1, <2>3, <2>4, <2>5, <2>6
<1>6. \A k \in 0..m : k \in U
  <2> HIDE DEF U
  <2> QED BY <1>4, <1>5, BoundedInduction
<1>7. m \in 0..m /\ SubSeq(D, 1, m) = D /\ SubSeq(w, 1, ByteBits * m) = w
  <2> HIDE DEF D
  <2> QED BY <1>1, <1>3
<1> HIDE DEF D
<1>8. BytesBits(D) = w
  BY <1>6, <1>7
<1> QED BY <1>3, <1>8 DEF D

-----------------------------------------------------------------------------
(* The second descriptor says how many bytes there are and whether the     *)
(* last one is padded.                                                     *)
LEMMA DescriptorSays ==
  ASSUME NEW w \in Seq(Bit), Len(w) <= Room
  PROVE  \E m \in Nat : /\ Len(w \o Padding(w)) = ByteBits * m
                        /\ Descriptor(Len(w)) \in Nat
                        /\ (Descriptor(Len(w)) + 1) \div 2 = m
                        /\ Descriptor(Len(w)) % 2 = IF Len(w) % ByteBits = 0 THEN 0 ELSE 1
<1> DEFINE c == Len(w)
           q == c \div ByteBits
           r == c % ByteBits
<1>1. ByteBits \in Nat \ {0} /\ c \in Nat /\ c \in 0..Room
  BY WidthsAssumption, BitStringAssumption DEF Room
<1>2. q \in Nat /\ r \in 0..(ByteBits - 1) /\ c = ByteBits * q + r
  BY <1>1, Division
<1>3. /\ Padding(w) \in Seq(Bit) /\ Len(w \o Padding(w)) = c + Len(Padding(w))
      /\ Len(Padding(w)) = IF r = 0 THEN 0 ELSE ByteBits - r
  BY PaddingType
<1>4. Descriptor(c) = q + ((c + ByteBits - 1) \div ByteBits)
  BY DEF Descriptor
<1> HIDE DEF c, q, r
<1>5. CASE r = 0
  <2>1. ByteBits - 1 \in 0..(ByteBits - 1) /\ c + ByteBits - 1 = ByteBits * q + (ByteBits - 1)
    BY <1>1, <1>2, <1>5
  <2>2. (c + ByteBits - 1) \div ByteBits = q
    <3>1. (ByteBits * q + (ByteBits - 1)) \div ByteBits = q
      BY <1>1, <1>2, <2>1, Quotient
    <3> QED BY <2>1, <3>1
  <2>3. Descriptor(c) = 2 * q
    BY <1>2, <1>4, <2>2
  <2>4. (2 * q + 1) \div 2 = q /\ (2 * q) % 2 = 0
    BY <1>2
  <2>5. Len(w \o Padding(w)) = ByteBits * q
    BY <1>1, <1>2, <1>3, <1>5
  <2> QED BY <1>2, <1>5, <2>3, <2>4, <2>5 DEF c, r
<1>6. CASE r # 0
  <2>1. r - 1 \in 0..(ByteBits - 1) /\ c + ByteBits - 1 = ByteBits * (q + 1) + (r - 1)
    BY <1>1, <1>2, <1>6
  <2>2. (c + ByteBits - 1) \div ByteBits = q + 1
    <3>1. q + 1 \in Nat
      BY <1>2
    <3> QED BY <1>1, <2>1, <3>1, Quotient, ZenonT(60)
  <2>3. Descriptor(c) = 2 * q + 1
    BY <1>2, <1>4, <2>2
  <2>4. (2 * q + 1 + 1) \div 2 = q + 1 /\ (2 * q + 1) % 2 = 1
    BY <1>2
  <2>5. Len(w \o Padding(w)) = ByteBits * (q + 1)
    BY <1>1, <1>2, <1>3, <1>6
  <2>6. q + 1 \in Nat
    BY <1>2
  <2> QED BY <1>2, <1>6, <2>3, <2>4, <2>5, <2>6 DEF c, r
<1> QED BY <1>5, <1>6

(* Taking the padding off leaves what it was put behind.                   *)
LEMMA UnpaddedPadding ==
  ASSUME NEW w \in Seq(Bit), Len(w) <= Room, Len(w) % ByteBits # 0
  PROVE  Unpadded(w \o Padding(w)) = w
<1> DEFINE p == Padding(w)
           u == w \o p
           k == Len(w) + 1
           LastOne(i) == u[i] = 1 /\ \A j \in (i + 1)..Len(u) : u[j] = 0
<1>1. /\ p \in Seq(Bit) /\ Len(p) >= 1 /\ p[1] = 1
      /\ \A i \in 2..Len(p) : p[i] = 0
  BY PaddingType
<1> HIDE DEF p
<1>2. /\ u \in Seq(Bit) /\ Len(u) = Len(w) + Len(p)
      /\ \A i \in 1..Len(p) : u[Len(w) + i] = p[i]
      /\ SubSeq(u, 1, Len(w)) = w
  BY <1>1
<1> HIDE DEF u
<1>3. k \in 1..Len(u) /\ LastOne(k)
  <2>1. u[k] = 1
    BY <1>1, <1>2
  <2>2. ASSUME NEW j \in (k + 1)..Len(u)
        PROVE  u[j] = 0
    <3> DEFINE i == j - Len(w)
    <3>1. i \in 2..Len(p) /\ i \in 1..Len(p) /\ j = Len(w) + i
      BY <1>1, <1>2
    <3> HIDE DEF i
    <3>2. u[Len(w) + i] = p[i] /\ p[i] = 0
      BY <1>1, <1>2, <3>1
    <3> QED BY <3>1, <3>2
  <2> QED BY <1>1, <1>2, <2>1, <2>2
<1>4. ASSUME NEW i \in 1..Len(u), LastOne(i)
      PROVE  i = k
  <2>1. i \in Int /\ k \in Int
    BY <1>3
  <2>2. ~(i < k)
    <3>1. SUFFICES ASSUME i < k PROVE FALSE
      OBVIOUS
    <3>2. k \in (i + 1)..Len(u)
      BY <1>3, <3>1
    <3> QED BY <1>3, <1>4, <3>2
  <2>3. ~(k < i)
    <3>1. SUFFICES ASSUME k < i PROVE FALSE
      OBVIOUS
    <3>2. i \in (k + 1)..Len(u)
      BY <1>3, <3>1
    <3> QED BY <1>3, <1>4, <3>2
  <2> QED BY <2>1, <2>2, <2>3
<1> DEFINE found == CHOOSE i \in 1..Len(u) : LastOne(i)
<1>5. found \in 1..Len(u) /\ LastOne(found)
  <2> HIDE DEF LastOne, k
  <2> QED BY <1>3
<1>6. found = k
  <2> HIDE DEF LastOne, k, found
  <2> QED BY <1>4, <1>5
<1>7. Unpadded(u) = SubSeq(u, 1, found - 1)
  BY DEF Unpadded
<1> HIDE DEF found
<1>8. found - 1 = Len(w)
  BY <1>6
<1> QED BY <1>2, <1>7, <1>8 DEF u, p

(* Each depth is there as two bytes.                                       *)
Depths(refs) == FlattenSeq([i \in 1..Len(refs) |-> DepthBytes(refs[i].max_depth)])

DepthsRead(p, refs, k) ==
  /\ Len(p) = 2 * k
  /\ \A i \in 1..k : p[2 * i - 1] * DepthByte + p[2 * i] = refs[i].max_depth

(* A depth is read back from its two bytes, whatever its size.             *)
LEMMA DepthBytesRead ==
  ASSUME NEW d \in Nat
  PROVE  /\ DepthBytes(d) \in Seq(Nat) /\ Len(DepthBytes(d)) = 2
         /\ DepthBytes(d)[1] * DepthByte + DepthBytes(d)[2] = d
<1> DEFINE a == d \div DepthByte
           b == d % DepthByte
<1>1. DepthByte \in Nat \ {0}
  BY TwoPower, WidthsAssumption DEF DepthByte
<1>2. a \in Nat /\ b \in 0..(DepthByte - 1) /\ d = DepthByte * a + b
  BY <1>1, Division
<1>3. DepthBytes(d) = <<a, b>>
  BY DEF DepthBytes
<1> HIDE DEF a, b
<1>4. a \in Nat /\ b \in Nat
  BY <1>1, <1>2
<1>5. /\ DepthBytes(d) \in Seq(Nat) /\ Len(DepthBytes(d)) = 2
      /\ DepthBytes(d)[1] = a /\ DepthBytes(d)[2] = b
  BY <1>3, <1>4
<1>6. a * DepthByte + b = d
  BY <1>1, <1>2, <1>4
<1> QED BY <1>5, <1>6

(* Two bytes behind others leave these where they are.                     *)
LEMMA PairBehind ==
  ASSUME NEW p \in Seq(Nat), NEW q \in Seq(Nat), Len(q) = 2
  PROVE  /\ Len(p \o q) = Len(p) + 2 /\ \A j \in 1..Len(p) : (p \o q)[j] = p[j]
         /\ (p \o q)[Len(p) + 1] = q[1] /\ (p \o q)[Len(p) + 2] = q[2]
<1> DEFINE n == Len(p) + Len(q)
<1>1. /\ Len(p \o q) = n
      /\ \A i \in 1..n : (p \o q)[i] = IF i <= Len(p) THEN p[i] ELSE q[i - Len(p)]
  BY ConcatProperties
<1>2. /\ Len(p) + 1 \in 1..n /\ ~(Len(p) + 1 <= Len(p)) /\ (Len(p) + 1) - Len(p) = 1
      /\ Len(p) + 2 \in 1..n /\ ~(Len(p) + 2 <= Len(p)) /\ (Len(p) + 2) - Len(p) = 2
      /\ \A j \in 1..Len(p) : j \in 1..n /\ j <= Len(p)
      /\ n = Len(p) + 2
  OBVIOUS
<1> HIDE DEF n
<1>3. (p \o q)[Len(p) + 1] = q[1] /\ (p \o q)[Len(p) + 2] = q[2]
  BY <1>1, <1>2
<1>4. \A j \in 1..Len(p) : (p \o q)[j] = p[j]
  BY <1>1, <1>2
<1> QED BY <1>1, <1>2, <1>3, <1>4

(* Every depth of the representation is at its place.                      *)
LEMMA DepthsReadBack ==
  ASSUME NEW H, NEW refs \in Seq([max_depth : Nat, hash : H])
  PROVE  Depths(refs) \in Seq(Nat) /\ DepthsRead(Depths(refs), refs, Len(refs))
<1> DEFINE n == Len(refs)
           parts == [i \in 1..n |-> DepthBytes(refs[i].max_depth)]
<1>1. DepthByte \in Nat \ {0} /\ n \in Nat
  BY TwoPower, WidthsAssumption DEF DepthByte
<1>2. ASSUME NEW i \in 1..n
      PROVE  /\ parts[i] \in Seq(Nat) /\ Len(parts[i]) = 2
             /\ parts[i][1] * DepthByte + parts[i][2] = refs[i].max_depth
  <2>1. refs[i] \in [max_depth : Nat, hash : H]
    BY <1>1, ElementOfSeq
  <2>2. parts[i] = DepthBytes(refs[i].max_depth) /\ refs[i].max_depth \in Nat
    BY <2>1
  <2> HIDE DEF parts, n
  <2> QED BY <2>2, DepthBytesRead
<1>3. parts \in [1..n -> Seq(Nat)]
  <2>1. \A i \in 1..n : DepthBytes(refs[i].max_depth) \in Seq(Nat)
    BY <1>2
  <2> QED BY <2>1
<1>4. Depths(refs) = FlattenSeq(parts)
  BY DEF Depths
<1> HIDE DEF parts, n
<1>5. PICK run \in [0..n -> Seq(Nat)] : JoinRun(run, parts, n)
  BY <1>1, <1>3, JoinRunExists
<1>6. FlattenSeq(parts) = run[n]
  BY <1>1, <1>3, <1>5, FlattenSeqRuns
<1> DEFINE U == {k \in 0..n : DepthsRead(run[k], refs, k)}
<1>7. 0 \in U
  <2>1. run[0] = <<>> /\ 0 \in 0..n
    BY <1>1, <1>5 DEF JoinRun
  <2>2. DepthsRead(<<>>, refs, 0)
    BY DEF DepthsRead
  <2> QED BY <2>1, <2>2
<1>8. ASSUME NEW k \in 1..n, k - 1 \in U
      PROVE  k \in U
  <2> DEFINE p == run[k - 1]
             q == parts[k]
  <2>1. run[k] = p \o q /\ k - 1 \in 0..n /\ k \in 0..n
    <3>1. run[k] = p \o q
      BY <1>5, Zenon DEF JoinRun
    <3>2. k - 1 \in 0..n /\ k \in 0..n
      BY <1>1
    <3> QED BY <3>1, <3>2
  <2>2. p \in Seq(Nat) /\ DepthsRead(p, refs, k - 1)
    BY <1>5, <1>8, <2>1
  <2>3. q \in Seq(Nat) /\ Len(q) = 2 /\ q[1] * DepthByte + q[2] = refs[k].max_depth
    BY <1>2
  <2> HIDE DEF p, q
  <2>7. Len(p) = 2 * (k - 1) /\ k \in Nat /\ k >= 1
    BY <1>1, <2>2 DEF DepthsRead
  <2>4. /\ Len(p \o q) = 2 * k
        /\ \A j \in 1..Len(p) : (p \o q)[j] = p[j]
        /\ (p \o q)[2 * k - 1] = q[1] /\ (p \o q)[2 * k] = q[2]
    <3>1. /\ p \in Seq(Nat) /\ q \in Seq(Nat) /\ Len(q) = 2
          /\ 2 * k - 1 = Len(p) + 1 /\ 2 * k = Len(p) + 2 /\ Len(p) \in Nat
      BY <2>2, <2>3, <2>7
    <3>2. /\ Len(p \o q) = Len(p) + 2 /\ \A j \in 1..Len(p) : (p \o q)[j] = p[j]
          /\ (p \o q)[Len(p) + 1] = q[1] /\ (p \o q)[Len(p) + 2] = q[2]
      BY <3>1, PairBehind
    <3>3. Len(p) + 2 = 2 * k
      BY <3>1
    <3> QED BY <3>1, <3>2, <3>3
  <2>5. ASSUME NEW i \in 1..k
        PROVE  (p \o q)[2 * i - 1] * DepthByte + (p \o q)[2 * i] = refs[i].max_depth
    <3>1. CASE i = k
      BY <2>3, <2>4, <3>1
    <3>2. CASE i # k
      <4>1. i \in 1..(k - 1) /\ 2 * i - 1 \in 1..Len(p) /\ 2 * i \in 1..Len(p)
        BY <2>7, <3>2
      <4>2. p[2 * i - 1] * DepthByte + p[2 * i] = refs[i].max_depth
        BY <2>2, <4>1 DEF DepthsRead
      <4>3. (p \o q)[2 * i - 1] = p[2 * i - 1] /\ (p \o q)[2 * i] = p[2 * i]
        BY <2>4, <4>1
      <4> QED BY <4>2, <4>3
    <3> QED BY <3>1, <3>2
  <2>6. DepthsRead(p \o q, refs, k)
    BY <2>4, <2>5 DEF DepthsRead
  <2> QED BY <2>1, <2>6
<1>9. \A k \in 0..n : k \in U
  <2> HIDE DEF U, n
  <2> QED BY <1>1, <1>7, <1>8, BoundedInduction
<1>10. n \in 0..n
  BY <1>1
<1> QED BY <1>4, <1>5, <1>6, <1>9, <1>10 DEF n

(* A sequence of four, taken apart.                                        *)
MadeOf(r, a, b, c, d) ==
  /\ Len(r) = Len(a) + Len(b) + Len(c) + Len(d)
  /\ \A i \in 1..Len(a) : r[i] = a[i]
  /\ SubSeq(r, Len(a) + 1, Len(a) + Len(b)) = b
  /\ SubSeq(r, Len(a) + Len(b) + 1, Len(a) + Len(b) + Len(c)) = c
  /\ SubSeq(r, Len(a) + Len(b) + Len(c) + 1, Len(a) + Len(b) + Len(c) + Len(d)) = d

(* The four pieces of a representation are found by their lengths.         *)
LEMMA FourPieces ==
  ASSUME NEW S, NEW a \in Seq(S), NEW b \in Seq(S), NEW c \in Seq(S), NEW d \in Seq(S)
  PROVE  MadeOf(a \o b \o c \o d, a, b, c, d)
BY DEF MadeOf

(* A sequence over a set is one over a larger set.                         *)
LEMMA SeqOfMore ==
  ASSUME NEW S, NEW T, S \subseteq T, NEW s \in Seq(S)
  PROVE  s \in Seq(T)
OBVIOUS

(* CellOf takes apart what hash_Cell hashes: the bits that were stored and *)
(* the references, in their order, whatever they are.                      *)
LEMMA CellReadsBack ==
  ASSUME NEW t, NEW w, Holds(t, w), NEW H, NEW refs \in Seq([max_depth : Nat, hash : H])
  PROVE  CellOf(Representation(t, refs)) = [bits |-> w, refs |-> refs]
<1> DEFINE n == Len(refs)
           S == Nat \cup H
           head == <<n, Descriptor(Len(w))>>
           data == DataBytes(Finalize(t))
           depths == Depths(refs)
           hashes == [i \in 1..n |-> refs[i].hash]
           rep == head \o data \o depths \o hashes
<1>1. w \in Seq(Bit) /\ Len(w) <= Room /\ t.cursor = Len(w) /\ n \in Nat
  BY HoldsType
<1>2. PICK m \in Nat : /\ Len(w \o Padding(w)) = ByteBits * m
                       /\ Descriptor(Len(w)) \in Nat
                       /\ (Descriptor(Len(w)) + 1) \div 2 = m
                       /\ Descriptor(Len(w)) % 2 = IF Len(w) % ByteBits = 0 THEN 0 ELSE 1
  BY <1>1, DescriptorSays
<1>3. Holds(Finalize(t), w \o Padding(w))
  BY FinalizeHolds
<1>4. data \in Seq(Nat) /\ Len(data) = m /\ BytesBits(data) = w \o Padding(w)
  BY <1>2, <1>3, DataBytesBits
<1>5. depths \in Seq(Nat) /\ DepthsRead(depths, refs, n)
  BY DepthsReadBack
<1>6. ASSUME NEW i \in 1..n
      PROVE  refs[i] \in [max_depth : Nat, hash : H]
  BY <1>1, ElementOfSeq
<1>7. Representation(t, refs) = rep
  BY <1>1 DEF Representation, Depths
<1> HIDE DEF data, depths
<1>8. head \in Seq(S) /\ Len(head) = 2 /\ data \in Seq(S) /\ depths \in Seq(S)
  <2>1. Nat \subseteq S /\ n \in S /\ Descriptor(Len(w)) \in S
    BY <1>1, <1>2
  <2> HIDE DEF S, n
  <2>2. head \in Seq(S) /\ Len(head) = 2
    BY <2>1
  <2> QED BY <1>4, <1>5, <2>1, <2>2, SeqOfMore
<1>9. hashes \in Seq(S) /\ Len(hashes) = n /\ \A i \in 1..n : hashes[i] = refs[i].hash
  <2>1. hashes \in [1..n -> S]
    BY <1>6
  <2> QED BY <1>1, <2>1
<1>10. head[1] = n /\ head[2] = Descriptor(Len(w)) /\ {1, 2} \subseteq 1..Len(head)
  BY <1>8
<1>11. Len(depths) = 2 * n
  BY <1>5 DEF DepthsRead
<1> HIDE DEF head, hashes, n
<1>12. /\ Len(rep) = 2 + m + 2 * n + n
       /\ rep[1] = n /\ rep[2] = Descriptor(Len(w))
       /\ SubSeq(rep, 3, 2 + m) = data
       /\ SubSeq(rep, 3 + m, 2 + m + 2 * n) = depths
       /\ SubSeq(rep, 3 + m + 2 * n, 2 + m + 2 * n + n) = hashes
  <2> HIDE DEF S
  <2>1. MadeOf(rep, head, data, depths, hashes)
    BY <1>8, <1>9, FourPieces
  <2> HIDE DEF rep
  <2>2. /\ Len(head) + 1 = 3 /\ Len(head) + Len(data) = 2 + m
        /\ Len(head) + Len(data) + 1 = 3 + m
        /\ Len(head) + Len(data) + Len(depths) = 2 + m + 2 * n
        /\ Len(head) + Len(data) + Len(depths) + 1 = 3 + m + 2 * n
        /\ Len(head) + Len(data) + Len(depths) + Len(hashes) = 2 + m + 2 * n + n
    BY <1>1, <1>4, <1>8, <1>9, <1>11
  <2> QED BY <1>10, <2>1, <2>2 DEF MadeOf
<1> HIDE DEF rep
<1>13. /\ (rep[2] + 1) \div 2 = m
       /\ 2 + m + 2 * rep[1] = 2 + m + 2 * n
       /\ 3 + m + 2 * rep[1] = 3 + m + 2 * n
  BY <1>2, <1>12
<1> DEFINE b == BytesBits(data)
           unpadded == IF Descriptor(Len(w)) % 2 = 1 THEN Unpadded(b) ELSE b
           back == [i \in 1..n |->
                      Ref(depths[2 * i - 1] * DepthByte + depths[2 * i], hashes[i])]
<1>14. CellOf(rep) = [bits |-> unpadded, refs |-> back]
  BY <1>12, <1>13 DEF CellOf
<1>15. unpadded = w
  <2>1. CASE Len(w) % ByteBits = 0
    <3>1. Padding(w) = <<>> /\ w \o <<>> = w
      BY <1>1, <2>1 DEF Padding
    <3>2. Descriptor(Len(w)) % 2 # 1
      BY <1>2, <2>1
    <3> QED BY <1>4, <3>1, <3>2
  <2>2. CASE Len(w) % ByteBits # 0
    <3>1. Unpadded(w \o Padding(w)) = w
      BY <1>1, <2>2, UnpaddedPadding
    <3>2. Descriptor(Len(w)) % 2 = 1
      BY <1>2, <2>2
    <3> QED BY <1>4, <3>1, <3>2
  <2> QED BY <2>1, <2>2
<1>16. back = refs
  <2>1. ASSUME NEW i \in 1..n
        PROVE  back[i] = refs[i]
    <3>1. depths[2 * i - 1] * DepthByte + depths[2 * i] = refs[i].max_depth
      BY <1>5 DEF DepthsRead
    <3>2. back[i] = Ref(refs[i].max_depth, refs[i].hash)
      BY <1>9, <3>1
    <3>3. refs[i] = [max_depth |-> refs[i].max_depth, hash |-> refs[i].hash]
      BY <1>6
    <3> HIDE DEF back
    <3> QED BY <3>2, <3>3 DEF Ref
  <2>2. back = [i \in 1..n |-> back[i]]
    OBVIOUS
  <2> HIDE DEF back
  <2>3. refs = [i \in 1..n |-> refs[i]]
    BY DEF n
  <2> QED BY <2>1, <2>2, <2>3
<1> QED BY <1>7, <1>14, <1>15, <1>16

-----------------------------------------------------------------------------
(* A cell that is being built: t holds the beginning of whole, what is     *)
(* still to be stored is rest, and all of it fits.                         *)
Building(t, rest, whole) ==
  /\ rest \in Seq(Bit) /\ Len(whole) <= Room
  /\ \E w \in Seq(Bit) : Holds(t, w) /\ w \o rest = whole

(* A fresh bit string, with everything still to be stored.                 *)
LEMMA NothingBuilt ==
  ASSUME NEW whole \in Seq(Bit), Len(whole) <= Room
  PROVE  Building(NoBits, whole, whole)
<1>1. <<>> \in Seq(Bit) /\ <<>> \o whole = whole
  OBVIOUS
<1> QED BY <1>1, NoBitsHolds DEF Building

(* When nothing is left to be stored the whole is held.                    *)
LEMMA AllBuilt ==
  ASSUME NEW t, NEW whole, Building(t, <<>>, whole)
  PROVE  Holds(t, whole)
<1>1. PICK w \in Seq(Bit) : Holds(t, w) /\ w \o <<>> = whole
  BY DEF Building
<1>2. w \o <<>> = w
  OBVIOUS
<1> QED BY <1>1, <1>2

(* A store of x takes x from what is still to be stored.                   *)
LEMMA StoreBuilds ==
  ASSUME NEW t, NEW x \in Seq(Bit), NEW rest \in Seq(Bit), NEW whole,
         Building(t, x \o rest, whole), NEW u,
         \A w \in Seq(Bit) : Holds(t, w) /\ Len(w) + Len(x) <= Room => Holds(u, w \o x)
  PROVE  Building(u, rest, whole)
<1>1. PICK w \in Seq(Bit) : Holds(t, w) /\ w \o (x \o rest) = whole
  BY DEF Building
<1>2. /\ w \o x \in Seq(Bit) /\ Len(w \o x) = Len(w) + Len(x)
      /\ Len((w \o x) \o rest) = Len(w \o x) + Len(rest)
      /\ Len(w) \in Nat /\ Len(x) \in Nat /\ Len(rest) \in Nat
  BY ConcatProperties
<1>3. (w \o x) \o rest = whole
  <2>1. (w \o x) \o rest = w \o (x \o rest)
    BY ConcatAssociative
  <2> QED BY <1>1, <2>1
<1>4. Len(whole) <= Room /\ Room \in Nat
  BY WidthsAssumption, BitStringAssumption DEF Building, Room
<1>5. Len(w) + Len(x) <= Room
  BY <1>2, <1>3, <1>4
<1>6. Holds(u, w \o x)
  BY <1>1, <1>5
<1> QED BY <1>2, <1>3, <1>4, <1>6 DEF Building

(* BitString_storeBits, while a cell is built.                             *)
LEMMA StoreBitsBuilds ==
  ASSUME NEW t, NEW x \in Seq(Bit), NEW rest \in Seq(Bit), NEW whole,
         Building(t, x \o rest, whole)
  PROVE  Building(StoreBits(t, x), rest, whole)
<1>1. \A w \in Seq(Bit) :
        Holds(t, w) /\ Len(w) + Len(x) <= Room => Holds(StoreBits(t, x), w \o x)
  BY StoreBitsHolds
<1> QED BY <1>1, StoreBuilds

(* BitString_storeBit, while a cell is built.                              *)
LEMMA StoreBitBuilds ==
  ASSUME NEW t, NEW v \in Bit, NEW rest \in Seq(Bit), NEW whole,
         Building(t, <<v>> \o rest, whole)
  PROVE  Building(StoreBit(t, v), rest, whole)
<1> DEFINE x == <<v>>
<1>1. x \in Seq(Bit) /\ Len(x) = 1
  OBVIOUS
<1>2. ASSUME NEW w \in Seq(Bit), Holds(t, w), Len(w) + Len(x) <= Room
      PROVE  Holds(StoreBit(t, v), w \o x)
  <2>1. Len(w) < Room
    BY <1>1, <1>2, WidthsAssumption, BitStringAssumption DEF Room
  <2>2. Append(w, v) = w \o x
    OBVIOUS
  <2>3. Holds(StoreBit(t, v), Append(w, v))
    BY <1>2, <2>1, StoreBitHolds
  <2> QED BY <2>2, <2>3
<1> HIDE DEF x
<1>3. Building(t, x \o rest, whole)
  BY DEF x
<1> QED BY <1>1, <1>2, <1>3, StoreBuilds

(* BitString_storeUint, while a cell is built.                             *)
LEMMA StoreUintBuilds ==
  ASSUME NEW t, NEW v \in Nat, NEW n \in Nat, NEW rest \in Seq(Bit), NEW whole,
         Building(t, UintBits(v, n) \o rest, whole)
  PROVE  Building(StoreUint(t, v, n), rest, whole)
<1>1. UintBits(v, n) \in Seq(Bit)
  BY UintBitsType
<1> QED BY <1>1, StoreBitsBuilds DEF StoreUint

(* BitString_storeBuffer, while a cell is built.                           *)
LEMMA StoreBufferBuilds ==
  ASSUME NEW t, NEW bytes \in Seq(Nat), NEW rest \in Seq(Bit), NEW whole,
         Building(t, BytesBits(bytes) \o rest, whole)
  PROVE  Building(StoreBuffer(t, bytes), rest, whole)
<1> DEFINE x == BytesBits(bytes)
           u == StoreBuffer(t, bytes)
<1>1. x \in Seq(Bit) /\ Len(x) = ByteBits * Len(bytes)
  BY BytesBitsType
<1>2. ASSUME NEW w \in Seq(Bit), Holds(t, w), Len(w) + Len(x) <= Room
      PROVE  Holds(u, w \o x)
  <2>1. Len(w) + ByteBits * Len(bytes) <= Room
    BY <1>1, <1>2
  <2> QED BY <1>2, <2>1, StoreBufferHolds
<1>3. Building(t, x \o rest, whole)
  OBVIOUS
<1> HIDE DEF x, u
<1>4. Building(u, rest, whole)
  BY <1>1, <1>2, <1>3, StoreBuilds
<1> QED BY <1>4 DEF u

(* BitString_storeCoinsBuf: the length in four bits, then the bytes.       *)
LEMMA StoreCoinsBufBuilds ==
  ASSUME NEW t, NEW bytes \in Seq(Nat), NEW rest \in Seq(Bit), NEW whole,
         Building(t, UintBits(Len(bytes), LengthBits) \o (BytesBits(bytes) \o rest), whole)
  PROVE  Building(StoreCoinsBuf(t, bytes), rest, whole)
<1> DEFINE u == StoreUint(t, Len(bytes), LengthBits)
<1>1. BytesBits(bytes) \o rest \in Seq(Bit) /\ Len(bytes) \in Nat /\ LengthBits \in Nat
  BY BytesBitsType, ConcatProperties, BitStringAssumption
<1>2. Building(u, BytesBits(bytes) \o rest, whole)
  BY <1>1, StoreUintBuilds
<1> HIDE DEF u
<1>3. Building(StoreBuffer(u, bytes), rest, whole)
  BY <1>2, StoreBufferBuilds
<1> QED BY <1>3 DEF StoreCoinsBuf, u

(* The length of the amount zero.                                          *)
LEMMA NoCoinsLength == CoinsLength(0) = 0
<1> DEFINE Fits(n) == /\ 0 < 2^(n * ByteBits)
                      /\ n > 0 => 0 >= 2^((n - 1) * ByteBits)
<1>1. Fits(0)
  <2>1. 0 * ByteBits = 0
    BY WidthsAssumption
  <2>2. 2^(0 * ByteBits) = 1
    BY <2>1, PowerZero
  <2> QED BY <2>2
<1>2. \A n \in 0..8 : Fits(n) => n = 0
  <2>1. ASSUME NEW n \in 0..8, n > 0
        PROVE  ~Fits(n)
    <3>1. (n - 1) * ByteBits \in Nat
      BY <2>1, WidthsAssumption
    <3>2. 2^((n - 1) * ByteBits) \in Nat \ {0}
      BY <3>1, TwoPower
    <3> QED BY <2>1, <3>2
  <2> HIDE DEF Fits
  <2> QED BY <2>1
<1>3. CoinsLength(0) = CHOOSE n \in 0..8 : Fits(n)
  BY DEF CoinsLength
<1> HIDE DEF Fits
<1> QED BY <1>1, <1>2, <1>3

(* Nothing but the length, which is zero.                                  *)
LEMMA StoreNoCoinsBuilds ==
  ASSUME NEW t, NEW rest \in Seq(Bit), NEW whole,
         Building(t, UintBits(0, LengthBits) \o rest, whole)
  PROVE  Building(StoreCoins(t, 0), rest, whole)
<1> DEFINE u == StoreUint(t, 0, LengthBits)
<1>1. Building(u, rest, whole)
  BY StoreUintBuilds, BitStringAssumption
<1>2. UintBits(0, 0) = <<>> /\ <<>> \o rest = rest
  BY DEF UintBits
<1>3. 0 * ByteBits = 0
  BY WidthsAssumption
<1> HIDE DEF u
<1>4. StoreCoins(t, 0) = StoreUint(u, 0, 0)
  BY <1>3, NoCoinsLength DEF StoreCoins, u
<1>5. Building(u, UintBits(0, 0) \o rest, whole)
  BY <1>1, <1>2
<1>6. Building(StoreUint(u, 0, 0), rest, whole)
  BY <1>5, StoreUintBuilds
<1> QED BY <1>4, <1>6

(* The tags that are written as numbers, bit by bit.                       *)
LEMMA SmallNumbers ==
  /\ UintBits(0, 1) = <<0>> /\ UintBits(0, 2) = <<0, 0>> /\ UintBits(2, 2) = <<1, 0>>
<1>1. 2^0 = 1 /\ 2^1 = 2
  BY PowerZero, TwoPower
<1>2. UintBits(0, 1) \in Seq(Bit) /\ Len(UintBits(0, 1)) = 1
  BY UintBitsType
<1>3. UintBits(0, 1)[1] = 0
  <2>1. UintBits(0, 1)[1] = (0 \div 2^0) % 2
    BY DEF UintBits
  <2> QED BY <1>1, <2>1
<1>4. UintBits(0, 2) \in Seq(Bit) /\ Len(UintBits(0, 2)) = 2
  BY UintBitsType
<1>5. UintBits(2, 2) \in Seq(Bit) /\ Len(UintBits(2, 2)) = 2
  BY UintBitsType
<1>6. UintBits(0, 2)[1] = (0 \div 2^1) % 2 /\ UintBits(0, 2)[2] = (0 \div 2^0) % 2
  BY DEF UintBits
<1>7. UintBits(2, 2)[1] = (2 \div 2^1) % 2 /\ UintBits(2, 2)[2] = (2 \div 2^0) % 2
  BY DEF UintBits
<1>8. UintBits(0, 2)[1] = 0 /\ UintBits(0, 2)[2] = 0
  BY <1>1, <1>6
<1>9. UintBits(2, 2)[1] = 1 /\ UintBits(2, 2)[2] = 0
  BY <1>1, <1>7
<1>10. UintBits(0, 1) = <<0>>
  BY <1>2, <1>3
<1>11. UintBits(0, 2) = <<0, 0>>
  BY <1>4, <1>8
<1>12. UintBits(2, 2) = <<1, 0>>
  BY <1>5, <1>9
<1> QED BY <1>10, <1>11, <1>12

(* BitString_storeAddressNull, while a cell is built.                      *)
LEMMA StoreAddressNullBuilds ==
  ASSUME NEW t, NEW rest \in Seq(Bit), NEW whole, Building(t, <<0, 0>> \o rest, whole)
  PROVE  Building(StoreAddressNull(t), rest, whole)
<1>1. Building(t, UintBits(0, 2) \o rest, whole)
  BY SmallNumbers
<1>2. Building(StoreUint(t, 0, 2), rest, whole)
  BY <1>1, StoreUintBuilds
<1> QED BY <1>2 DEF StoreAddressNull

(* BitString_storeAddress: its tag, the workchain and the hash.            *)
LEMMA StoreAddressBuilds ==
  ASSUME NEW t, NEW bytes \in Seq(Nat), NEW rest \in Seq(Bit), NEW whole,
         Building(t, <<1, 0, 0>> \o (BytesBits(bytes) \o rest), whole)
  PROVE  Building(StoreAddress(t, bytes), rest, whole)
<1> DEFINE more == BytesBits(bytes) \o rest
           zero == <<0>> \o more
           u == StoreUint(t, 2, 2)
           v == StoreUint(u, 0, 1)
<1>1. more \in Seq(Bit)
  BY BytesBitsType, ConcatProperties
<1>2. <<0>> \in Seq(Bit) /\ <<1, 0>> \in Seq(Bit) /\ <<1, 0, 0>> = <<1, 0>> \o <<0>>
  BY DEF Bit
<1>3. zero \in Seq(Bit)
  BY <1>1, <1>2, ConcatProperties
<1>4. Building(t, <<1, 0, 0>> \o more, whole)
  OBVIOUS
<1> HIDE DEF more
<1>5. <<1, 0, 0>> \o more = <<1, 0>> \o zero
  BY <1>1, <1>2, ConcatAssociative
<1>6. Building(u, zero, whole)
  <2>1. Building(t, UintBits(2, 2) \o zero, whole)
    BY <1>4, <1>5, SmallNumbers
  <2> HIDE DEF zero
  <2> QED BY <1>3, <2>1, StoreUintBuilds
<1> HIDE DEF u
<1>7. Building(v, more, whole)
  <2>1. Building(u, UintBits(0, 1) \o more, whole)
    BY <1>6, SmallNumbers
  <2> QED BY <1>1, <2>1, StoreUintBuilds
<1> HIDE DEF v
<1>8. Building(StoreBuffer(v, bytes), rest, whole)
  BY <1>7, StoreBufferBuilds DEF more
<1> QED BY <1>8 DEF StoreAddress, v, u

-----------------------------------------------------------------------------
(***************************************************************************)
(* Reading a cell by a schema: r is reading, with the bits w and the       *)
(* references refs still to be read and the values in vals.                *)
(***************************************************************************)
At(r, w, refs, vals) ==
  r.ok /\ r = [ok |-> r.ok, bits |-> w, refs |-> refs, values |-> vals]

(* What is in front, and what is behind it.                                *)
LEMMA FirstAndRest ==
  ASSUME NEW x \in Seq(Bit), NEW w \in Seq(Bit)
  PROVE  /\ First(x \o w, Len(x)) = x /\ Rest(x \o w, Len(x)) = w
         /\ Len(x) \in Nat /\ Len(w) \in Nat /\ Len(x \o w) = Len(x) + Len(w)
<1> DEFINE u == x \o w
<1>1. /\ u \in Seq(Bit) /\ Len(u) = Len(x) + Len(w) /\ Len(x) \in Nat /\ Len(w) \in Nat
      /\ \A i \in 1..Len(u) : u[i] = IF i <= Len(x) THEN x[i] ELSE w[i - Len(x)]
  BY ConcatProperties
<1> HIDE DEF u
<1>2. First(u, Len(x)) = x
  <2>1. Len(x) <= Len(u) /\ \A i \in 1..Len(x) : u[i] = x[i]
    BY <1>1
  <2>2. SubSeq(u, 1, Len(x)) \in Seq(Bit) /\ Len(SubSeq(u, 1, Len(x))) = Len(x)
    BY <1>1, <2>1
  <2>3. \A i \in 1..Len(x) : SubSeq(u, 1, Len(x))[i] = x[i]
    BY <1>1, <2>1
  <2> QED BY <2>2, <2>3 DEF First
<1>3. Rest(u, Len(x)) = w
  <2> DEFINE v == SubSeq(u, Len(x) + 1, Len(u))
  <2>1. v \in Seq(Bit) /\ Len(v) = Len(w)
    BY <1>1
  <2>2. \A i \in 1..Len(w) : v[i] = u[Len(x) + i]
    BY <1>1
  <2>3. \A i \in 1..Len(w) : u[Len(x) + i] = w[i]
    BY <1>1
  <2> HIDE DEF v
  <2>4. v = w
    BY <2>1, <2>2, <2>3
  <2> QED BY <2>4 DEF v, Rest
<1> QED BY <1>1, <1>2, <1>3 DEF u

(* What EXCEPT leaves of such a record.                                    *)
LEMMA OtherBits ==
  ASSUME NEW r, NEW b, NEW u, NEW refs, NEW vals, NEW w,
         r = [ok |-> b, bits |-> u, refs |-> refs, values |-> vals]
  PROVE  [r EXCEPT !.bits = w] = [ok |-> b, bits |-> w, refs |-> refs, values |-> vals]
OBVIOUS

(* A record with other values.                                             *)
LEMMA OtherValues ==
  ASSUME NEW r, NEW b, NEW u, NEW refs, NEW vals, NEW v,
         r = [ok |-> b, bits |-> u, refs |-> refs, values |-> vals]
  PROVE  [r EXCEPT !.values = v] = [ok |-> b, bits |-> u, refs |-> refs, values |-> v]
OBVIOUS

(* A record with other references.                                         *)
LEMMA OtherRefs ==
  ASSUME NEW r, NEW b, NEW u, NEW refs, NEW vals, NEW s,
         r = [ok |-> b, bits |-> u, refs |-> refs, values |-> vals]
  PROVE  [r EXCEPT !.refs = s] = [ok |-> b, bits |-> u, refs |-> s, values |-> vals]
OBVIOUS

(* What it means to be at a place of a cell.                               *)
LEMMA AtSays ==
  ASSUME NEW r, NEW u, NEW refs, NEW vals, At(r, u, refs, vals)
  PROVE  r.ok /\ r.bits = u /\ r.refs = refs /\ r.values = vals
BY DEF At

(* Moving past bits.                                                       *)
LEMMA AtWithBits ==
  ASSUME NEW r, NEW u, NEW refs, NEW vals, At(r, u, refs, vals), NEW w
  PROVE  At([r EXCEPT !.bits = w], w, refs, vals)
<1>1. PICK b : b = r.ok /\ r = [ok |-> b, bits |-> u, refs |-> refs, values |-> vals]
  BY DEF At
<1>2. [r EXCEPT !.bits = w] = [ok |-> b, bits |-> w, refs |-> refs, values |-> vals]
  BY <1>1, OtherBits
<1>3. b
  BY <1>1 DEF At
<1> QED BY <1>2, <1>3 DEF At

(* Taking a value.                                                         *)
LEMMA AtWithValues ==
  ASSUME NEW r, NEW u, NEW refs, NEW vals, At(r, u, refs, vals), NEW v
  PROVE  At([r EXCEPT !.values = v], u, refs, v)
<1>1. PICK b : b = r.ok /\ r = [ok |-> b, bits |-> u, refs |-> refs, values |-> vals]
  BY DEF At
<1>2. [r EXCEPT !.values = v] = [ok |-> b, bits |-> u, refs |-> refs, values |-> v]
  BY <1>1, OtherValues
<1>3. b
  BY <1>1 DEF At
<1> QED BY <1>2, <1>3 DEF At

(* Moving past a reference.                                                *)
LEMMA AtWithRefs ==
  ASSUME NEW r, NEW u, NEW refs, NEW vals, At(r, u, refs, vals), NEW s
  PROVE  At([r EXCEPT !.refs = s], u, s, vals)
<1>1. PICK b : b = r.ok /\ r = [ok |-> b, bits |-> u, refs |-> refs, values |-> vals]
  BY DEF At
<1>2. [r EXCEPT !.refs = s] = [ok |-> b, bits |-> u, refs |-> s, values |-> vals]
  BY <1>1, OtherRefs
<1>3. b
  BY <1>1 DEF At
<1> QED BY <1>2, <1>3 DEF At

(* Two changes of a record are one after the other.                        *)
LEMMA BitsThenValues ==
  ASSUME NEW r, NEW w, NEW v
  PROVE  [r EXCEPT !.bits = w, !.values = v] = [[r EXCEPT !.bits = w] EXCEPT !.values = v]
OBVIOUS

(* The same for references.                                                *)
LEMMA RefsThenValues ==
  ASSUME NEW r, NEW s, NEW v
  PROVE  [r EXCEPT !.refs = s, !.values = v] = [[r EXCEPT !.refs = s] EXCEPT !.values = v]
OBVIOUS

(* Bits that are in front are read, and what is behind is left.            *)
LEMMA ReadsBits ==
  ASSUME NEW r, NEW x \in Seq(Bit), NEW w \in Seq(Bit), NEW refs, NEW vals,
         At(r, x \o w, refs, vals), NEW name
  PROVE  At(Bits(r, name, Len(x)), w, refs, Holding(vals, name, x))
<1> DEFINE u == x \o w
           v == Holding(vals, name, x)
<1>1. First(u, Len(x)) = x /\ Rest(u, Len(x)) = w /\ ~(Len(x) > Len(u))
  <2>1. Len(x) \in Nat /\ Len(w) \in Nat /\ Len(u) = Len(x) + Len(w)
    BY FirstAndRest
  <2>2. ~(Len(x) > Len(u))
    <3> HIDE DEF u
    <3> QED BY <2>1
  <2> QED BY <2>2, FirstAndRest
<1> HIDE DEF u
<1>2. r.bits = u /\ r.values = vals
  BY AtSays DEF u
<1>3. Bits(r, name, Len(x)) =
        [r EXCEPT !.bits = Rest(r.bits, Len(x)),
                  !.values = Holding(r.values, name, First(r.bits, Len(x)))]
  BY <1>1, <1>2 DEF Bits
<1>4. Bits(r, name, Len(x)) = [r EXCEPT !.bits = w, !.values = v]
  BY <1>1, <1>2, <1>3
<1> HIDE DEF v
<1>5. At([[r EXCEPT !.bits = w] EXCEPT !.values = v], w, refs, v)
  BY AtWithBits, AtWithValues
<1>6. Bits(r, name, Len(x)) = [[r EXCEPT !.bits = w] EXCEPT !.values = v]
  BY <1>4, BitsThenValues
<1> QED BY <1>5, <1>6 DEF v

(* A part of a fixed number of bits.                                       *)
LEMMA ReadUintPart ==
  ASSUME NEW r, NEW x \in Seq(Bit), NEW w \in Seq(Bit), NEW refs, NEW vals,
         At(r, x \o w, refs, vals), NEW name, NEW n, n = Len(x)
  PROVE  At(ReadPart(r, Part(name, "uint", n)), w, refs, Holding(vals, name, x))
<1> DEFINE p == Part(name, "uint", Len(x))
<1>1. r.ok /\ p.kind = "uint" /\ p.name = name /\ p.n = Len(x)
  BY DEF At, Part
<1> HIDE DEF p
<1>2. ReadPart(r, p) = Bits(r, name, Len(x))
  BY <1>1 DEF ReadPart
<1> QED BY <1>2, ReadsBits DEF p
(* A tag that is in front is found.                                        *)
LEMMA TagFound ==
  ASSUME NEW r, NEW x \in Seq(Bit), NEW w \in Seq(Bit), NEW refs, NEW vals,
         At(r, x \o w, refs, vals)
  PROVE  StartsWith(r, x) /\ At([r EXCEPT !.bits = Rest(@, Len(x))], w, refs, vals)
<1> DEFINE u == x \o w
<1>1. First(u, Len(x)) = x /\ Rest(u, Len(x)) = w /\ Len(u) >= Len(x)
  <2>1. Len(x) \in Nat /\ Len(w) \in Nat /\ Len(u) = Len(x) + Len(w)
    BY FirstAndRest
  <2>2. Len(u) >= Len(x)
    <3> HIDE DEF u
    <3> QED BY <2>1
  <2> QED BY <2>2, FirstAndRest
<1> HIDE DEF u
<1>2. r.bits = u
  BY AtSays DEF u
<1>3. StartsWith(r, x)
  BY <1>1, <1>2 DEF StartsWith
<1>4. [r EXCEPT !.bits = Rest(@, Len(x))] = [r EXCEPT !.bits = w]
  BY <1>1, <1>2
<1>5. At([r EXCEPT !.bits = w], w, refs, vals)
  BY AtWithBits
<1> QED BY <1>3, <1>4, <1>5

(* A part that is a tag.                                                   *)
LEMMA ReadTagPart ==
  ASSUME NEW r, NEW x \in Seq(Bit), NEW w \in Seq(Bit), NEW refs, NEW vals,
         At(r, x \o w, refs, vals), NEW name
  PROVE  At(ReadPart(r, Part(name, "tag", x)), w, refs, vals)
<1> DEFINE p == Part(name, "tag", x)
<1>1. r.ok /\ p.kind = "tag" /\ p.name = name /\ p.n = x
  BY AtSays DEF Part
<1> HIDE DEF p
<1>2. ReadPart(r, p) = Choice(r, p, <<>>, LAMBDA t : t)
  BY <1>1 DEF ReadPart
<1>3. Choice(r, p, <<>>, LAMBDA t : t) = [r EXCEPT !.bits = Rest(@, Len(x))]
  BY <1>1, TagFound DEF Choice
<1>4. At([r EXCEPT !.bits = Rest(@, Len(x))], w, refs, vals)
  BY TagFound
<1>5. At(ReadPart(r, p), w, refs, vals)
  BY <1>2, <1>3, <1>4, Zenon
<1> QED BY <1>5 DEF p

(* A part that is an address: its tag, then its bits.                      *)
LEMMA ReadAddressPart ==
  ASSUME NEW r, NEW tag \in Seq(Bit), NEW x \in Seq(Bit), NEW w \in Seq(Bit), NEW refs,
         NEW vals, At(r, tag \o (x \o w), refs, vals), NEW name,
         Len(x) = ByteBits * (1 + HashLen)
  PROVE  At(ReadPart(r, Part(name, "address", tag)), w, refs, Holding(vals, name, x))
<1> DEFINE p == Part(name, "address", tag)
           t == [r EXCEPT !.bits = Rest(@, Len(tag))]
<1>1. r.ok /\ p.kind = "address" /\ p.name = name /\ p.n = tag
  BY AtSays DEF Part
<1>2. StartsWith(r, tag) /\ At(t, x \o w, refs, vals)
  <2>1. x \o w \in Seq(Bit)
    BY ConcatProperties
  <2> QED BY <2>1, TagFound
<1> HIDE DEF p
<1>3. ReadPart(r, p) =
        Choice(r, p, <<>>, LAMBDA t_1 : Bits(t_1, p.name, ByteBits * (1 + HashLen)))
  BY <1>1 DEF ReadPart
<1>4. Choice(r, p, <<>>, LAMBDA t_1 : Bits(t_1, p.name, ByteBits * (1 + HashLen)))
        = Bits(t, name, Len(x))
  BY <1>1, <1>2 DEF Choice
<1> HIDE DEF t
<1>5. At(Bits(t, name, Len(x)), w, refs, Holding(vals, name, x))
  BY <1>2, ReadsBits
<1> QED BY <1>3, <1>4, <1>5 DEF p

(* A part that is an amount: as many bytes as its length says.             *)
LEMMA ReadAmountPart ==
  ASSUME NEW r, NEW k \in Nat, k < 2^LengthBits, NEW x \in Seq(Bit), NEW w \in Seq(Bit),
         NEW refs, NEW vals, At(r, UintBits(k, LengthBits) \o (x \o w), refs, vals), NEW name,
         Len(x) = ByteBits * k
  PROVE  At(ReadPart(r, Part(name, "amount", 0)), w, refs, Holding(vals, name, x))
<1> DEFINE p == Part(name, "amount", 0)
           length == UintBits(k, LengthBits)
           t == [r EXCEPT !.bits = Rest(@, LengthBits)]
<1>1. r.ok /\ p.kind = "amount" /\ p.name = name
  BY AtSays DEF Part
<1>2. length \in Seq(Bit) /\ Len(length) = LengthBits /\ Number(length) = k
  BY BitStringAssumption, UintBitsType, NumberOfUint
<1>3. x \o w \in Seq(Bit)
  BY ConcatProperties
<1> HIDE DEF p, length
<1>4. First(r.bits, LengthBits) = length
  <2>1. r.bits = length \o (x \o w)
    BY AtSays DEF length
  <2>2. First(length \o (x \o w), Len(length)) = length
    BY <1>2, <1>3, FirstAndRest
  <2> QED BY <1>2, <2>1, <2>2
<1>5. At(t, x \o w, refs, vals)
  BY <1>2, <1>3, TagFound DEF length
<1>6. ReadPart(r, p) = Bits(t, name, ByteBits * Number(First(r.bits, LengthBits)))
  BY <1>1 DEF ReadPart
<1>7. ReadPart(r, p) = Bits(t, name, Len(x))
  BY <1>2, <1>4, <1>6
<1> HIDE DEF t
<1>8. At(Bits(t, name, Len(x)), w, refs, Holding(vals, name, x))
  BY <1>5, ReadsBits
<1> QED BY <1>7, <1>8 DEF p

(* The next reference is taken.                                            *)
LEMMA ReadsReference ==
  ASSUME NEW r, NEW R, NEW refs \in Seq(R), refs # <<>>, NEW u, NEW vals,
         At(r, u, refs, vals), NEW name
  PROVE  At(Reference(r, name), u, Tail(refs), Holding(vals, name, refs[1]))
<1> DEFINE v == Holding(vals, name, refs[1])
           s == Tail(refs)
<1>1. r.refs = refs /\ r.values = vals
  BY AtSays
<1>2. Reference(r, name) = [r EXCEPT !.refs = s, !.values = v]
  BY <1>1 DEF Reference
<1> HIDE DEF v, s
<1>3. At([[r EXCEPT !.refs = s] EXCEPT !.values = v], u, s, v)
  BY AtWithRefs, AtWithValues
<1>4. Reference(r, name) = [[r EXCEPT !.refs = s] EXCEPT !.values = v]
  BY <1>2, RefsThenValues
<1> QED BY <1>3, <1>4 DEF v, s

(* A part that is a reference.                                             *)
LEMMA ReadRefPart ==
  ASSUME NEW r, NEW R, NEW refs \in Seq(R), refs # <<>>, NEW u, NEW vals,
         At(r, u, refs, vals), NEW name
  PROVE  At(ReadPart(r, Part(name, "^", 0)), u, Tail(refs), Holding(vals, name, refs[1]))
<1> DEFINE p == Part(name, "^", 0)
<1>1. r.ok /\ p.kind = "^" /\ p.name = name
  BY AtSays DEF Part
<1> HIDE DEF p
<1>2. ReadPart(r, p) = Reference(r, name)
  BY <1>1 DEF ReadPart
<1> QED BY <1>2, ReadsReference DEF p

(* A part that may be absent and is there.                                 *)
LEMMA ReadMaybePresent ==
  ASSUME NEW r, NEW tag \in Seq(Bit), NEW w \in Seq(Bit), NEW R, NEW refs \in Seq(R),
         refs # <<>>, NEW vals, At(r, tag \o w, refs, vals), NEW name
  PROVE  At(ReadPart(r, Part(name, "maybe^", tag)), w, Tail(refs), Holding(vals, name, refs[1]))
<1> DEFINE p == Part(name, "maybe^", tag)
           t == [r EXCEPT !.bits = Rest(@, Len(tag))]
<1>1. r.ok /\ p.kind = "maybe^" /\ p.name = name /\ p.n = tag
  BY AtSays DEF Part
<1>2. StartsWith(r, tag) /\ At(t, w, refs, vals)
  BY TagFound
<1> HIDE DEF p
<1>3. ReadPart(r, p) = Choice(r, p, <<0>>, LAMBDA t_1 : Reference(t_1, p.name))
  BY <1>1 DEF ReadPart
<1>4. Choice(r, p, <<0>>, LAMBDA t_1 : Reference(t_1, p.name)) = Reference(t, name)
  BY <1>1, <1>2 DEF Choice
<1> HIDE DEF t
<1> QED BY <1>2, <1>3, <1>4, ReadsReference DEF p

(* Such a tag begins with a one.                                           *)
LEMMA ReadMaybeAbsent ==
  ASSUME NEW r, NEW tag \in Seq(Bit), Len(tag) > 0, tag[1] = 1, NEW w \in Seq(Bit), NEW refs,
         NEW vals, At(r, << 0 >> \o w, refs, vals), NEW name
  PROVE  At(ReadPart(r, Part(name, "maybe^", tag)), w, refs, Holding(vals, name, <<>>))
<1> DEFINE p == Part(name, "maybe^", tag)
           zero == <<0>>
           u == zero \o w
           t == [r EXCEPT !.bits = Rest(@, Len(zero))]
<1>1. r.ok /\ r.bits = u /\ p.kind = "maybe^" /\ p.name = name /\ p.n = tag
  BY AtSays DEF Part
<1>2. zero \in Seq(Bit) /\ Len(zero) = 1 /\ zero # <<>>
  BY DEF Bit
<1>3. ~StartsWith(r, tag)
  <2>1. u \in Seq(Bit) /\ Len(u) = 1 + Len(w) /\ u[1] = 0 /\ Len(w) \in Nat /\ Len(tag) \in Nat
    BY <1>2, ConcatProperties
  <2>2. ASSUME Len(u) >= Len(tag)
        PROVE  First(u, Len(tag))[1] = 0
    <3> HIDE DEF u
    <3>1. SubSeq(u, 1, Len(tag))[1] = u[1]
      BY <2>1, <2>2
    <3> QED BY <2>1, <3>1 DEF First
  <2> QED BY <1>1, <2>2 DEF StartsWith
<1> HIDE DEF zero
<1>4. StartsWith(r, zero) /\ At(t, w, refs, vals)
  BY <1>2, TagFound DEF zero
<1> HIDE DEF p
<1>5. ReadPart(r, p) = Choice(r, p, zero, LAMBDA t_1 : Reference(t_1, p.name))
  BY <1>1 DEF ReadPart, zero
<1>6. Choice(r, p, zero, LAMBDA t_1 : Reference(t_1, p.name)) = Absent(t, name)
  BY <1>1, <1>2, <1>3, <1>4 DEF Choice
<1> HIDE DEF t
<1>7. Absent(t, name) = [t EXCEPT !.values = Holding(vals, name, <<>>)]
  BY <1>4, AtSays DEF Absent
<1> DEFINE v == Holding(vals, name, <<>>)
<1> HIDE DEF v
<1>8. At([t EXCEPT !.values = v], w, refs, v)
  BY <1>4, AtWithValues
<1> QED BY <1>5, <1>6, <1>7, <1>8 DEF p, v

(***************************************************************************)
(* Reading by a schema is reading its parts, one after the other.  What    *)
(* is read is in no set that is closed under ReadPart: the function that   *)
(* the fold chooses is built for ReadPart itself.                          *)
(***************************************************************************)
Reading(g, n, base, schema) ==
  \A s \in SUBSET (1..n) :
    g[s] = IF s = {} THEN base ELSE ReadPart(g[s \ {Max(s)}], schema[Max(s)])

(* A function along the first parts goes on to the next.                   *)
LEMMA ReadingOneMore ==
  ASSUME NEW base, NEW schema, NEW m \in Nat \ {0}, NEW g, Reading(g, m - 1, base, schema)
  PROVE  \E h : Reading(h, m, base, schema)
<1> DEFINE value(s) == IF m \in s THEN ReadPart(g[s \ {m}], schema[m]) ELSE g[s]
           h == [s \in SUBSET (1..m) |-> value(s)]
<1>1. ASSUME NEW s \in SUBSET (1..m)
      PROVE  h[s] = IF s = {} THEN base ELSE ReadPart(h[s \ {Max(s)}], schema[Max(s)])
  <2>1. CASE m \in s
    <3>1. Max(s) = m
      BY <2>1, MaxIs
    <3>2. s \ {m} \in SUBSET (1..m) /\ m \notin s \ {m}
      OBVIOUS
    <3>3. h[s \ {m}] = g[s \ {m}]
      BY <3>2
    <3>4. h[s] = ReadPart(g[s \ {m}], schema[m])
      BY <2>1
    <3> HIDE DEF h
    <3> QED BY <2>1, <3>1, <3>3, <3>4
  <2>2. CASE m \notin s
    <3>0. \A k \in 1..m : k # m => k \in 1..(m - 1)
      OBVIOUS
    <3>1. s \in SUBSET (1..(m - 1)) /\ s \ {Max(s)} \in SUBSET (1..(m - 1))
      BY <2>2, <3>0
    <3>2. s \ {Max(s)} \in SUBSET (1..m) /\ m \notin s \ {Max(s)}
      BY <2>2
    <3>3. h[s] = g[s] /\ h[s \ {Max(s)}] = g[s \ {Max(s)}]
      BY <2>2, <3>1, <3>2
    <3>4. g[s] = IF s = {} THEN base ELSE ReadPart(g[s \ {Max(s)}], schema[Max(s)])
      BY <3>1 DEF Reading
    <3> HIDE DEF h
    <3> QED BY <3>3, <3>4
  <2> QED BY <2>1, <2>2
<1> HIDE DEF h
<1> QED BY <1>1 DEF Reading

(* There is a function along any number of parts.                          *)
LEMMA ReadingExists ==
  ASSUME NEW base, NEW schema, NEW n \in Nat
  PROVE  \E g : Reading(g, n, base, schema)
<1> DEFINE Has(m) == \E g : Reading(g, m, base, schema)
           T == {m \in 0..n : Has(m)}
<1>1. Has(0)
  <2> DEFINE g == [s \in SUBSET (1..0) |-> base]
  <2>1. \A s \in SUBSET (1..0) : s = {} /\ g[s] = base
    OBVIOUS
  <2> HIDE DEF g
  <2> QED BY <2>1 DEF Reading
<1>2. ASSUME NEW m \in 1..n, m - 1 \in T
      PROVE  m \in T
  <2>1. PICK g : Reading(g, m - 1, base, schema)
    BY <1>2
  <2>2. Has(m)
    BY <2>1, ReadingOneMore
  <2> HIDE DEF Has
  <2> QED BY <2>2
<1>3. 0 \in T
  <2> HIDE DEF Has
  <2> QED BY <1>1
<1>4. \A m \in 0..n : m \in T
  <2> HIDE DEF T
  <2> QED BY <1>2, <1>3, BoundedInduction
<1>5. Has(n)
  <2> HIDE DEF Has
  <2> QED BY <1>4
<1> QED BY <1>5

ReadRun(run, cell, schema) ==
  /\ run[0] = Unread(cell)
  /\ \A i \in 1..Len(schema) : run[i] = ReadPart(run[i - 1], schema[i])

(* Reading by a schema is reading one part after the other.                *)
LEMMA ReadByRuns ==
  ASSUME NEW P, NEW schema \in Seq(P), NEW cell
  PROVE  \E run : /\ ReadRun(run, cell, schema)
                  /\ FoldLeft(ReadPart, Unread(cell), schema) = run[Len(schema)]
<1> DEFINE n == Len(schema)
           base == Unread(cell)
           Steps(g) == g = [t \in SUBSET (DOMAIN schema) |->
                              IF t = {} THEN base
                              ELSE ReadPart(g[t \ {Max(t)}], schema[Max(t)])]
           iter == CHOOSE g : Steps(g)
<1>1. n \in Nat /\ DOMAIN schema = 1..n
  OBVIOUS
<1>3. PICK h : Reading(h, n, base, schema)
  BY <1>1, ReadingExists
<1> DEFINE g == [t \in SUBSET (1..n) |-> h[t]]
<1>4. Steps(g)
  <2>1. ASSUME NEW t \in SUBSET (1..n)
        PROVE  g[t] = IF t = {} THEN base ELSE ReadPart(g[t \ {Max(t)}], schema[Max(t)])
    <3>1. t \ {Max(t)} \in SUBSET (1..n)
      OBVIOUS
    <3>2. g[t] = h[t] /\ g[t \ {Max(t)}] = h[t \ {Max(t)}]
      BY <3>1
    <3> HIDE DEF g, base
    <3> QED BY <1>3, <3>2 DEF Reading
  <2> HIDE DEF base
  <2>2. DOMAIN g = SUBSET (1..n)
    OBVIOUS
  <2>3. g = [t \in SUBSET (1..n) |-> g[t]]
    OBVIOUS
  <2> HIDE DEF g
  <2> QED BY <1>1, <2>1, <2>3
<1>5. Steps(iter)
  <2> HIDE DEF Steps
  <2> QED BY <1>4
<1>6. \A t \in SUBSET (1..n) :
        iter[t] = IF t = {} THEN base ELSE ReadPart(iter[t \ {Max(t)}], schema[Max(t)])
  <2> HIDE DEF iter, base
  <2> QED BY <1>1, <1>5
<1>7. FoldLeft(ReadPart, base, schema) = iter[1..n]
  BY <1>1 DEF FoldLeft, MapThenFoldSet
<1> HIDE DEF iter, n, Steps, base
<1>8. PICK run : RunOf(run, iter, n)
  BY <1>1, RunExists
<1>9. run[0] = base /\ run[n] = iter[1..n]
  <2>1. {} \in SUBSET (1..n) /\ 1..0 = {} /\ 0 \in 0..n /\ n \in 0..n
    BY <1>1
  <2> QED BY <1>6, <1>8, <2>1 DEF RunOf
<1>10. ASSUME NEW i \in 1..n
       PROVE  run[i] = ReadPart(run[i - 1], schema[i])
  <2>1. /\ 1..i \in SUBSET (1..n) /\ 1..i # {} /\ Max(1..i) = i
        /\ i \in 0..n /\ i - 1 \in 0..n /\ (1..i) \ {i} = 1..(i - 1)
    BY <1>1, RunStep
  <2>2. run[i] = iter[1..i] /\ run[i - 1] = iter[1..(i - 1)]
    BY <1>8, <2>1 DEF RunOf
  <2>3. iter[1..i] = ReadPart(iter[(1..i) \ {Max(1..i)}], schema[Max(1..i)])
    BY <1>6, <2>1
  <2> QED BY <2>1, <2>2, <2>3
<1>11. ReadRun(run, cell, schema)
  BY <1>9, <1>10 DEF ReadRun, n, base
<1> QED BY <1>7, <1>9, <1>11 DEF n, base

-----------------------------------------------------------------------------
(* Bytes are numbers.                                                      *)
LEMMA BytesAreNumbers == ASSUME NEW v \in Seq(Byte) PROVE v \in Seq(Nat)
<1>1. Byte \subseteq Nat
  BY ByteIsSize
<1> QED BY <1>1, SeqOfMore

(* Two sequences of bits make one, as long as both.                        *)
LEMMA Joined ==
  ASSUME NEW x \in Seq(Bit), NEW w \in Seq(Bit)
  PROVE  x \o w \in Seq(Bit) /\ Len(x \o w) = Len(x) + Len(w)
         /\ Len(x) \in Nat /\ Len(w) \in Nat
OBVIOUS

(* The same, with the length of the first by another name.                 *)
LEMMA JoinedAs ==
  ASSUME NEW x \in Seq(Bit), NEW w \in Seq(Bit), NEW n, Len(x) = n, NEW u, u = x \o w
  PROVE  u \in Seq(Bit) /\ Len(u) = n + Len(w)
BY Joined

(* The bits that are stored one by one.                                    *)
LEMMA FewBits ==
  /\ <<0>> \in Seq(Bit) /\ <<1>> \in Seq(Bit) /\ <<0, 0>> \in Seq(Bit)
  /\ <<1, 1>> \in Seq(Bit) /\ <<1, 0, 0>> \in Seq(Bit) /\ <<>> \in Seq(Bit)
  /\ Len(<<0>>) = 1 /\ Len(<<1>>) = 1 /\ Len(<<0, 0>>) = 2 /\ Len(<<1, 1>>) = 2
  /\ Len(<<1, 0, 0>>) = 3 /\ Len(<<>>) = 0
BY DEF Bit

-----------------------------------------------------------------------------
(* The cells that are hashed.                                              *)
References == [max_depth : Nat, hash : Seq(Nat)]

(* A cell reference of a request has a depth and a hash.                   *)
LEMMA CellRefType ==
  ASSUME NEW value \in Seq(Nat), Len(value) = ShortLen + HashLen
  PROVE  CellRef(value) \in References
<1>0. ShortLen \in Nat /\ HashLen \in Nat
  BY WidthsAssumption
<1>1. SubSeq(value, 1, ShortLen) \in Seq(Nat)
  BY <1>0, SubSeqProperties
<1>2. SubSeq(value, ShortLen + 1, Len(value)) \in Seq(Nat)
  BY <1>0, SubSeqProperties
<1>3. BytesNumber(SubSeq(value, 1, ShortLen)) \in Nat
  BY <1>1, BytesNumberType
<1> QED BY <1>2, <1>3 DEF CellRef, Ref, References

(* The depth of a cell: one more than the largest, in two bytes.           *)
LEMMA DepthRange == DepthByte \in Nat \ {0} /\ DepthByte * DepthByte \in Nat \ {0}
<1>1. DepthByte \in Nat \ {0}
  BY WidthsAssumption, TwoPower DEF DepthByte
<1> QED BY <1>1

(* Among some numbers there is a largest.                                  *)
LEMMA LargestOf ==
  ASSUME NEW n \in Nat \ {0}, NEW f \in [1..n -> Nat]
  PROVE  \E k \in 1..n : \A i \in 1..n : f[i] <= f[k]
<1> DEFINE T == {m \in 0..n : m > 0 => \E k \in 1..m : \A i \in 1..m : f[i] <= f[k]}
<1>1. 0 \in T
  OBVIOUS
<1>2. ASSUME NEW m \in 1..n, m - 1 \in T
      PROVE  m \in T
  <2>1. CASE m = 1
    BY <2>1
  <2>2. CASE m > 1
    <3>1. PICK k \in 1..(m - 1) : \A i \in 1..(m - 1) : f[i] <= f[k]
      BY <1>2, <2>2
    <3>2. CASE f[m] <= f[k]
      BY <2>2, <3>1, <3>2
    <3>3. CASE ~(f[m] <= f[k])
      <4>1. \A i \in 1..m : f[i] \in Nat
        OBVIOUS
      <4>2. \A i \in 1..m : f[i] <= f[m]
        BY <3>1, <3>3, <4>1, SMTT(30)
      <4> QED BY <2>2, <4>2
    <3> QED BY <3>2, <3>3
  <2> QED BY <2>1, <2>2
<1> HIDE DEF T
<1>3. \A m \in 0..n : m \in T
  BY <1>1, <1>2, BoundedInduction
<1>4. n \in T
  BY <1>3
<1>5. n > 0
  OBVIOUS
<1> QED BY <1>4, <1>5 DEF T

(* A depth is one above the largest of the references, in two bytes.       *)
LEMMA CellDepthIs ==
  ASSUME NEW links \in Seq(References)
  PROVE  /\ CellDepth(links) \in Nat
         /\ links # <<>> =>
              \E k \in 1..Len(links) :
                /\ \A i \in 1..Len(links) : links[i].max_depth <= links[k].max_depth
                /\ CellDepth(links) = (links[k].max_depth + 1) % (DepthByte * DepthByte)
<1>1. CASE links = <<>>
  BY <1>1 DEF CellDepth
<1>2. CASE links # <<>>
  <2> DEFINE n == Len(links)
             f == [i \in 1..n |-> links[i].max_depth]
             depths == {links[i].max_depth : i \in 1..n}
             Deepest(d) == \A i \in 1..n : links[i].max_depth <= d
             deepest == CHOOSE d \in depths : Deepest(d)
  <2>1. n \in Nat \ {0} /\ \A i \in 1..n : links[i] \in References
    BY <1>2
  <2>2. \A i \in 1..n : links[i].max_depth \in Nat
    BY <2>1 DEF References
  <2>3. f \in [1..n -> Nat]
    BY <2>2
  <2>4. \E k \in 1..n : \A i \in 1..n : f[i] <= f[k]
    <3> HIDE DEF f, n
    <3>1. \A g \in [1..n -> Nat] : \E k \in 1..n : \A i \in 1..n : g[i] <= g[k]
      BY <2>1, LargestOf
    <3> QED BY <2>3, <3>1, Zenon
  <2>5. \E d \in depths : Deepest(d)
    BY <2>4
  <2>6. deepest \in depths /\ Deepest(deepest)
    <3> HIDE DEF depths, Deepest
    <3> QED BY <2>5
  <2>7. CellDepth(links) = (deepest + 1) % (DepthByte * DepthByte)
    BY <1>2 DEF CellDepth
  <2> HIDE DEF deepest
  <2>8. PICK k \in 1..n : deepest = links[k].max_depth
    BY <2>6
  <2>9. deepest \in Nat
    BY <2>2, <2>8
  <2>10. CellDepth(links) \in Nat
    <3> DEFINE D == DepthByte * DepthByte
    <3>1. D \in Nat \ {0} /\ deepest + 1 \in Nat
      BY <2>9, DepthRange
    <3> HIDE DEF D
    <3>2. (deepest + 1) % D \in 0..(D - 1)
      BY <3>1, Division
    <3>3. (deepest + 1) % D \in Nat
      BY <3>1, <3>2
    <3> QED BY <2>7, <3>3 DEF D
  <2> QED BY <2>6, <2>7, <2>8, <2>10
<1> QED BY <1>1, <1>2

-----------------------------------------------------------------------------
(* Reading what hash_tx has built.                                         *)
Has(vals, name, x) == name \in DOMAIN vals /\ vals[name] = x

(* The value that has just been read is held.                              *)
LEMMA HasNew == ASSUME NEW vals, NEW name, NEW x PROVE Has(Holding(vals, name, x), name, x)
BY DEF Has, Holding

(* A value that was read before is held still.                             *)
LEMMA HasStill ==
  ASSUME NEW vals, NEW name, NEW x, Has(vals, name, x), NEW other, NEW y, other # name
  PROVE  Has(Holding(vals, other, y), name, x)
BY DEF Has, Holding

(* A reader starts in front of all bits and references.                    *)
LEMMA StartsUnread ==
  ASSUME NEW w, NEW links, NEW r, r = Unread([bits |-> w, refs |-> links])
  PROVE  At(r, w, links, <<>>)
BY DEF Unread, At

(* Nothing in front changes nothing.                                       *)
LEMMA NothingBefore == ASSUME NEW w \in Seq(Bit) PROVE <<>> \o w = w
OBVIOUS

(* A reader that is behind all bits and references has succeeded.          *)
LEMMA ReadToTheEnd ==
  ASSUME NEW schema, NEW cell, NEW r, r = FoldLeft(ReadPart, Unread(cell), schema),
         NEW vals, At(r, <<>>, <<>>, vals)
  PROVE  ReadBy(schema, cell).ok /\ ReadBy(schema, cell).values = vals
<1>1. r.ok /\ r.bits = <<>> /\ r.refs = <<>> /\ r.values = vals
  BY AtSays
<1> DEFINE done == r.ok /\ r.bits = <<>> /\ r.refs = <<>>
<1>2. ReadBy(schema, cell) = [ok |-> done, values |-> r.values]
  BY DEF ReadBy
<1>3. done
  BY <1>1
<1> HIDE DEF done
<1>4. ReadBy(schema, cell).ok = done /\ ReadBy(schema, cell).values = r.values
  BY <1>2
<1> QED BY <1>1, <1>3, <1>4

-----------------------------------------------------------------------------
(***************************************************************************)
(* A transfer as the cell holds it: the bits of its query_id, the bytes of *)
(* its amounts and addresses, and none or one reference for each payload.  *)
(***************************************************************************)
OneOrNone == {<<>>} \cup {<<ref>> : ref \in References}

FlagOfRef(r) == IF r = <<>> THEN <<0>> ELSE <<1>>

RefOf(r) == IF r = <<>> THEN <<>> ELSE r[1]

(* None or one is a sequence of references.                                *)
LEMMA OneOrNoneType ==
  ASSUME NEW one \in OneOrNone
  PROVE  one \in Seq(References) /\ one \o <<>> = one
<1>1. one \in Seq(References)
  <2>1. CASE one = <<>>
    BY <2>1
  <2>2. CASE one # <<>>
    <3>1. PICK ref \in References : one = <<ref>>
      BY <2>2 DEF OneOrNone
    <3> QED BY <3>1
  <2> QED BY <2>1, <2>2
<1> QED BY <1>1

(* A reference is not the absence of one.                                  *)
LEMMA RefIsThere == ASSUME NEW ref \in References PROVE ref # <<>> /\ ref.hash \in Seq(Nat)
<1>1. DOMAIN ref = {"max_depth", "hash"}
  BY DEF References
<1>2. DOMAIN <<>> = {}
  OBVIOUS
<1>3. ref.hash \in Seq(Nat)
  BY DEF References
<1> QED BY <1>1, <1>2, <1>3

(* A payload that is there or not, in front of other references.           *)
LEMMA ReadRefOf ==
  ASSUME NEW one \in OneOrNone, NEW others \in Seq(References), NEW w \in Seq(Bit), NEW r,
         NEW vals, At(r, FlagOfRef(one) \o w, one \o others, vals), NEW name
  PROVE  At(ReadPart(r, Part(name, "maybe^", << 1 >>)), w, others,
            Holding(vals, name, RefOf(one)))
<1>1. <<1>> \in Seq(Bit) /\ Len(<<1>>) > 0 /\ <<1>>[1] = 1
  BY FewBits
<1>2. CASE one = <<>>
  <2>1. one \o others = others /\ FlagOfRef(one) = <<0>> /\ RefOf(one) = <<>>
    BY <1>2 DEF FlagOfRef, RefOf
  <2>2. At(r, <<0>> \o w, others, vals)
    BY <2>1
  <2> QED BY <1>1, <2>1, <2>2, ReadMaybeAbsent
<1>3. CASE one # <<>>
  <2>1. PICK ref \in References : one = <<ref>>
    BY <1>3 DEF OneOrNone
  <2>2. FlagOfRef(one) = <<1>> /\ RefOf(one) = ref
    BY <1>3, <2>1 DEF FlagOfRef, RefOf
  <2> DEFINE both == one \o others
  <2>3. /\ both \in Seq(References) /\ both # <<>>
        /\ both[1] = ref /\ Tail(both) = others
    BY <2>1
  <2> HIDE DEF both
  <2>4. At(r, <<1>> \o w, both, vals)
    BY <2>2 DEF both
  <2> QED BY <1>1, <2>2, <2>3, <2>4, ReadMaybePresent
<1> QED BY <1>2, <1>3

(* All the bits that are left.                                             *)
LEMMA ReadRestPart ==
  ASSUME NEW r, NEW x \in Seq(Bit), NEW links, NEW vals, At(r, x, links, vals), NEW name
  PROVE  At(ReadPart(r, Part(name, "rest", 0)), <<>>, links, Holding(vals, name, x))
<1> DEFINE p == Part(name, "rest", 0)
<1>1. r.ok /\ p.kind = "rest" /\ p.name = name /\ r.bits = x
  BY AtSays DEF At, Part
<1> HIDE DEF p
<1>2. ReadPart(r, p) = Bits(r, name, Len(x))
  BY <1>1 DEF ReadPart
<1>3. x \o <<>> = x /\ <<>> \in Seq(Bit)
  OBVIOUS
<1>4. At(r, x \o <<>>, links, vals)
  BY <1>3
<1> QED BY <1>2, <1>3, <1>4, ReadsBits DEF p
=============================================================================
