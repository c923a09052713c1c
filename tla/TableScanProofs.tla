-------------------------- MODULE TableScanProofs ---------------------------
(***************************************************************************)
(* Proofs about the operations on a whole table: scans return what was     *)
(* there all the time, deletes remove a table and nothing else.            *)
(***************************************************************************)
EXTENDS TableScan, OrderLemmas

(***************************************************************************)
(* The codec.                                                              *)
(***************************************************************************)
\* Power gives the powers of its base.
LEMMA PowerValues ==
  ASSUME NEW b \in Nat
  PROVE  /\ Power(b) \in [Nat -> Nat] /\ Power(b)[0] = 1
         /\ \A n \in Nat : Power(b)[n + 1] = b * Power(b)[n]
<1> DEFINE h == [n \in Nat |-> [x \in Nat |-> b * x]]
           Is(p) == p = [n \in Nat |-> IF n = 0 THEN 1 ELSE b * p[n - 1]]
<1>1. h \in [Nat -> [Nat -> Nat]]
  OBVIOUS
<1>2. PICK f : Recursion(f, Nat, 1, h)
  <2> HIDE DEF h
  <2> QED
    BY <1>1, PrimitiveRecursion
<1>3. \A n \in Nat : f[n + 1] = b * f[n]
  BY <1>2 DEF Recursion
<1>4. ASSUME NEW n \in Nat, n # 0 PROVE f[n] = b * f[n - 1]
  <2>1. n - 1 \in Nat /\ (n - 1) + 1 = n
    BY <1>4
  <2> QED
    BY <1>3, <2>1
<1>5. Is(f)
  BY <1>2, <1>4 DEF Recursion
<1>6. Is(Power(b))
  <2>1. Power(b) = CHOOSE p : Is(p)
    BY DEF Power
  <2> HIDE DEF Is
  <2> QED
    BY <1>5, <2>1
<1>7. /\ Power(b)[0] = 1
      /\ \A n \in Nat : Power(b)[n + 1] = b * Power(b)[n]
      /\ DOMAIN Power(b) = Nat
  BY <1>6
<1>8. ASSUME NEW n \in Nat PROVE Power(b)[n] \in Nat
  <2> DEFINE T == {i \in Nat : Power(b)[i] \notin Nat}
  <2>1. SUFFICES ASSUME T # {} PROVE FALSE
    BY <1>8
  <2>2. PICK i \in T : \A j \in T : i <= j
    <3> T \in SUBSET Nat
      OBVIOUS
    <3> HIDE DEF T
    <3> QED
      BY <2>1, LeastExists
  <2>3. i # 0
    BY <1>7, <2>2
  <2>4. i - 1 \in Nat /\ Power(b)[i - 1] \in Nat
    BY <2>2, <2>3
  <2>5. Power(b)[i] = b * Power(b)[i - 1]
    BY <1>7, <2>4
  <2> QED
    BY <2>2, <2>4, <2>5
<1> QED
  BY <1>6, <1>7, <1>8

\* A power of a positive number is positive.
LEMMA PowerPositive ==
  ASSUME NEW b \in Nat \ {0}, NEW n \in Nat
  PROVE  Power(b)[n] \in Nat \ {0}
<1> DEFINE T == {i \in Nat : Power(b)[i] \notin Nat \ {0}}
<1>1. SUFFICES ASSUME T # {} PROVE FALSE
  OBVIOUS
<1>2. PICK i \in T : \A j \in T : i <= j
  <2> T \in SUBSET Nat
    OBVIOUS
  <2> HIDE DEF T
  <2> QED
    BY <1>1, LeastExists
<1>3. i # 0
  BY <1>2, PowerValues
<1>4. i - 1 \in Nat /\ Power(b)[i - 1] \in Nat \ {0} /\ (i - 1) + 1 = i
  BY <1>2, <1>3
<1>5. Power(b)[i] = b * Power(b)[i - 1]
  BY <1>4, PowerValues
<1>6. \A x, y \in Nat \ {0} : x * y \in Nat \ {0}
  OBVIOUS
<1> QED
  BY <1>2, <1>4, <1>5, <1>6

\* A byte has at least two values, and BytePower is a table of the powers of their number.
LEMMA ByteFacts ==
  /\ ByteSize \in Nat /\ ByteSize >= 2
  /\ BytePower \in [Nat -> Nat] /\ BytePower[0] = 1
  /\ \A n \in Nat : BytePower[n + 1] = ByteSize * BytePower[n] /\ BytePower[n] >= 1
  /\ UINT_MAX \in Nat
<1>1. ByteBits - 1 \in Nat /\ (ByteBits - 1) + 1 = ByteBits
  BY CodingAssumption
<1>2. Power(2)[ByteBits] = 2 * Power(2)[ByteBits - 1]
  BY <1>1, PowerValues
<1>3. Power(2)[ByteBits - 1] \in Nat \ {0}
  BY <1>1, PowerPositive
<1>4. ByteSize \in Nat /\ ByteSize >= 2
  BY <1>2, <1>3 DEF ByteSize
<1>5. /\ BytePower \in [Nat -> Nat] /\ BytePower[0] = 1
      /\ \A n \in Nat : BytePower[n + 1] = ByteSize * BytePower[n]
  BY <1>4, PowerValues DEF BytePower
<1>6. ASSUME NEW n \in Nat PROVE BytePower[n] >= 1
  <2>1. Power(ByteSize)[n] \in Nat \ {0}
    BY <1>4, PowerPositive
  <2> QED
    BY <2>1 DEF BytePower
<1>7. UINT_MAX \in Nat
  BY <1>5, <1>6, CodingAssumption DEF UINT_MAX
<1> QED
  BY <1>4, <1>5, <1>6, <1>7

\* Number adds up its digits from the highest one on.
LEMMA NumberValue ==
  ASSUME NEW s \in Seq(Nat), NEW base \in Nat
  PROVE  \E top \in [0..Len(s) -> Nat] :
           /\ top[0] = 0
           /\ \A k \in 1..Len(s) : top[k] = top[k - 1] * base + s[Len(s) + 1 - k]
           /\ Number(s, base) = top[Len(s)]
<1> DEFINE L == Len(s)
           h == [n \in Nat |-> [x \in Nat |-> IF n < L THEN x * base + s[L - n] ELSE x]]
           Is(t) == t = [k \in 0..L |-> IF k = 0 THEN 0 ELSE t[k - 1] * base + s[L + 1 - k]]
           Top == CHOOSE t : Is(t)
<1>1. L \in Nat /\ \A k \in 1..L : s[k] \in Nat
  OBVIOUS
<1>2. h \in [Nat -> [Nat -> Nat]]
  <2>1. ASSUME NEW n \in Nat, NEW x \in Nat
        PROVE  (IF n < L THEN x * base + s[L - n] ELSE x) \in Nat
    <3>1. CASE n < L
      <4>1. s[L - n] \in Nat /\ x * base \in Nat
        BY <1>1, <3>1
      <4> QED
        BY <3>1, <4>1
    <3> QED
      BY <3>1
  <2> QED
    BY <2>1
<1>3. PICK f : Recursion(f, Nat, 0, h)
  <2> HIDE DEF h
  <2> QED
    BY <1>2, PrimitiveRecursion
<1>4. /\ f \in [Nat -> Nat] /\ f[0] = 0
      /\ \A n \in Nat : f[n + 1] = h[n][f[n]]
  BY <1>3 DEF Recursion
<1>5. ASSUME NEW k \in 1..L
      PROVE  f[k] = f[k - 1] * base + s[L + 1 - k]
  <2>1. k - 1 \in Nat /\ (k - 1) + 1 = k /\ k - 1 < L /\ L - (k - 1) = L + 1 - k
    BY <1>1
  <2>2. f[k] = h[k - 1][f[k - 1]] /\ f[k - 1] \in Nat
    BY <1>4, <2>1
  <2> QED
    BY <2>1, <2>2
<1> HIDE DEF h
<1> DEFINE t == [k \in 0..L |-> f[k]]
<1>6. Is(t)
  <2>1. ASSUME NEW k \in 0..L
        PROVE  t[k] = IF k = 0 THEN 0 ELSE t[k - 1] * base + s[L + 1 - k]
    <3>1. CASE k = 0
      BY <1>4, <3>1
    <3>2. CASE k # 0
      <4>1. k \in 1..L /\ k - 1 \in 0..L
        BY <1>1, <3>2
      <4> QED
        BY <1>5, <3>2, <4>1
    <3> QED
      BY <3>1, <3>2
  <2> QED
    BY <2>1
<1>7. Is(Top)
  <2> HIDE DEF Is
  <2> QED
    BY <1>6
<1>8. Number(s, base) = Top[L]
  BY DEF Number
<1> HIDE DEF Top
<1>9. /\ DOMAIN Top = 0..L /\ Top = [k \in 0..L |-> Top[k]] /\ Top[0] = 0
      /\ \A k \in 1..L : Top[k] = Top[k - 1] * base + s[L + 1 - k]
  <2>1. /\ DOMAIN Top = 0..L
        /\ \A k \in 0..L : Top[k] = IF k = 0 THEN 0 ELSE Top[k - 1] * base + s[L + 1 - k]
    BY <1>7
  <2>2. Top = [k \in 0..L |-> Top[k]]
    <3>1. Top = [k \in DOMAIN Top |-> Top[k]]
      BY <1>7
    <3> QED
      BY <2>1, <3>1
  <2>3. Top[0] = 0
    BY <1>1, <2>1
  <2>4. ASSUME NEW k \in 1..L PROVE Top[k] = Top[k - 1] * base + s[L + 1 - k]
    <3>1. k \in 0..L /\ k # 0
      BY <1>1
    <3> QED
      BY <2>1, <3>1
  <2> QED
    BY <2>1, <2>2, <2>3, <2>4
<1>10. ASSUME NEW k \in 0..L PROVE Top[k] \in Nat
  <2> DEFINE T == {i \in 0..L : Top[i] \notin Nat}
  <2>1. SUFFICES ASSUME T # {} PROVE FALSE
    BY <1>10
  <2>2. PICK i \in T : \A j \in T : i <= j
    <3> T \in SUBSET Nat
      OBVIOUS
    <3> HIDE DEF T
    <3> QED
      BY <2>1, LeastExists
  <2>3. i # 0
    BY <1>9, <2>2
  <2>4. i \in 1..L /\ i - 1 \in 0..L /\ Top[i - 1] \in Nat /\ s[L + 1 - i] \in Nat
    BY <1>1, <2>2, <2>3
  <2>5. Top[i] = Top[i - 1] * base + s[L + 1 - i]
    BY <1>9, <2>4
  <2>6. ASSUME NEW x \in Nat, NEW y \in Nat PROVE x * base + y \in Nat
    OBVIOUS
  <2>7. Top[i] \in Nat
    BY <2>4, <2>5, <2>6
  <2> QED
    BY <2>2, <2>7
<1>11. Top \in [0..L -> Nat]
  BY <1>9, <1>10
<1> QED
  BY <1>8, <1>9, <1>11

\* The bytes AppendFixed64 appends.
Octets(i) == [k \in 1..Width |-> (i \div BytePower[Width - k]) % ByteSize]

\* Dividing twice is dividing by the product.
LEMMA DivTwice ==
  ASSUME NEW a \in Nat, NEW c \in Nat \ {0}, NEW b \in Nat \ {0}
  PROVE  (a \div c) \div b = a \div (c * b)
OBVIOUS

\* Division with remainder,
LEMMA DivMod ==
  ASSUME NEW a \in Nat, NEW c \in Nat \ {0}
  PROVE  a = c * (a \div c) + (a % c) /\ a \div c \in Nat /\ a % c \in 0..(c - 1)
OBVIOUS

\* which has only one quotient and one remainder.
LEMMA DivModUnique ==
  ASSUME NEW c \in Nat \ {0}, NEW q \in Nat, NEW r \in 0..(c - 1)
  PROVE  (c * q + r) \div c = q /\ (c * q + r) % c = r
OBVIOUS

\* A fixed-width number is Width bytes,
LEMMA OctetsType ==
  ASSUME NEW i \in Nat
  PROVE  /\ Octets(i) \in Seq(Nat) /\ Len(Octets(i)) = Width /\ DOMAIN Octets(i) = 1..Width
         /\ \A k \in 1..Width : Octets(i)[k] \in 0..(ByteSize - 1)
<1>1. ASSUME NEW k \in 1..Width
      PROVE  (i \div BytePower[Width - k]) % ByteSize \in 0..(ByteSize - 1)
  <2>1. Width - k \in Nat
    BY CodingAssumption
  <2>2. BytePower[Width - k] \in Nat \ {0} /\ ByteSize \in Nat \ {0}
    BY <2>1, ByteFacts
  <2>3. i \div BytePower[Width - k] \in Nat
    BY <2>2, DivMod
  <2> QED
    BY <2>2, <2>3, DivMod
<1>2. ASSUME NEW k \in 1..Width
      PROVE  (i \div BytePower[Width - k]) % ByteSize \in Nat
  BY <1>1, ByteFacts
<1> QED
  BY <1>1, <1>2, CodingAssumption DEF Octets

\* The first k bytes are the number without its Width - k lowest bytes.
LEMMA OctetsStep ==
  ASSUME NEW i \in Nat, NEW k \in 1..Width
  PROVE  i \div BytePower[Width - k] = (i \div BytePower[Width - (k - 1)]) * ByteSize + Octets(i)[k]
<1> DEFINE c == BytePower[Width - k]
           x == i \div c
<1>1. Width - k \in Nat /\ (Width - k) + 1 = Width - (k - 1)
  BY CodingAssumption
<1>2. c \in Nat \ {0} /\ ByteSize \in Nat \ {0} /\ BytePower[Width - (k - 1)] = ByteSize * c
  BY <1>1, ByteFacts
<1>3. Octets(i)[k] = x % ByteSize
  BY DEF Octets
<1> HIDE DEF c
<1>4. x \in Nat /\ x \div ByteSize = i \div (c * ByteSize)
  BY <1>2, DivMod, DivTwice
<1>5. c * ByteSize = ByteSize * c
  BY <1>2
<1> HIDE DEF x
<1>6. x = ByteSize * (x \div ByteSize) + (x % ByteSize) /\ x \div ByteSize \in Nat
  BY <1>2, <1>4, DivMod
<1>7. ByteSize * (x \div ByteSize) = (x \div ByteSize) * ByteSize
  BY <1>2, <1>6
<1> QED
  BY <1>2, <1>3, <1>4, <1>5, <1>6, <1>7 DEF x, c

\* and those bytes, read back, are the number.
LEMMA OctetsValue ==
  ASSUME NEW i \in 0..UINT_MAX
  PROVE  Number(Reverse(Octets(i)), ByteSize) = i
<1> DEFINE r == Reverse(Octets(i))
<1>0. i \in Nat /\ Width \in Nat /\ Width >= 1 /\ ByteSize \in Nat
  BY ByteFacts, CodingAssumption
<1>1. /\ r \in Seq(Nat) /\ Len(r) = Width
      /\ \A k \in 1..Width : r[Width + 1 - k] = Octets(i)[k]
  <2>1. /\ Len(Octets(i)) = Width /\ \A k \in 1..Width : Octets(i)[k] \in Nat
    BY <1>0, OctetsType
  <2>2. r = [k \in 1..Width |-> Octets(i)[(Width - k) + 1]]
    BY <2>1 DEF Reverse
  <2>3. ASSUME NEW k \in 1..Width PROVE Octets(i)[(Width - k) + 1] \in Nat
    BY <1>0, <2>1
  <2>4. ASSUME NEW k \in 1..Width PROVE r[Width + 1 - k] = Octets(i)[k]
    <3>1. Width + 1 - k \in 1..Width /\ (Width - (Width + 1 - k)) + 1 = k
      BY <1>0
    <3> QED
      BY <2>2, <3>1
  <2> HIDE DEF r
  <2> QED
    BY <1>0, <2>2, <2>3, <2>4
<1> HIDE DEF r
<1>2. PICK top \in [0..Width -> Nat] :
        /\ top[0] = 0
        /\ \A k \in 1..Width : top[k] = top[k - 1] * ByteSize + r[Width + 1 - k]
        /\ Number(r, ByteSize) = top[Width]
  BY <1>0, <1>1, NumberValue
<1>3. ASSUME NEW k \in 0..Width
      PROVE  top[k] = i \div BytePower[Width - k]
  <2> DEFINE T == {j \in 0..Width : top[j] # i \div BytePower[Width - j]}
  <2>1. SUFFICES ASSUME T # {} PROVE FALSE
    BY <1>3
  <2>2. PICK j \in T : \A m \in T : j <= m
    <3> T \in SUBSET Nat
      BY <1>0
    <3> HIDE DEF T
    <3> QED
      BY <2>1, LeastExists
  <2>3. j # 0
    <3>1. BytePower[Width] \in Nat \ {0} /\ i < BytePower[Width]
      <4>1. BytePower[Width] \in Nat /\ BytePower[Width] >= 1
        BY <1>0, ByteFacts
      <4>2. i <= BytePower[Width] - 1
        BY <1>0 DEF UINT_MAX
      <4> QED
        BY <1>0, <4>1, <4>2
    <3>2. i \div BytePower[Width] = 0
      <4> DEFINE power == BytePower[Width]
      <4>1. i \in Nat /\ power \in Nat \ {0} /\ i < power
        BY <1>0, <3>1
      <4> HIDE DEF power
      <4>2. i \div power = 0
        BY ONLY <4>1
      <4> QED
        BY <4>2 DEF power
    <3>3. Width - 0 = Width
      BY <1>0
    <3> QED
      BY <1>2, <2>2, <3>2, <3>3
  <2>4. j \in 1..Width /\ j - 1 \in 0..Width
    BY <1>0, <2>2, <2>3
  <2>5. top[j - 1] = i \div BytePower[Width - (j - 1)]
    BY <1>0, <2>2, <2>4
  <2>6. top[j] = top[j - 1] * ByteSize + Octets(i)[j]
    BY <1>1, <1>2, <2>4
  <2>7. i \div BytePower[Width - j] = (i \div BytePower[Width - (j - 1)]) * ByteSize + Octets(i)[j]
    BY <1>0, <2>4, OctetsStep
  <2> QED
    BY <2>2, <2>5, <2>6, <2>7
<1>4. top[Width] = i \div 1
  <2>1. Width \in 0..Width /\ Width - Width = 0
    BY <1>0
  <2> QED
    BY <1>3, <2>1, ByteFacts
<1> QED
  BY <1>0, <1>2, <1>4 DEF r

\* Different numbers have different bytes.
LEMMA OctetsInjective ==
  ASSUME NEW i \in 0..UINT_MAX, NEW j \in 0..UINT_MAX, \A k \in 1..Width : Octets(i)[k] = Octets(j)[k]
  PROVE  i = j
<1>1. Octets(i) = Octets(j)
  BY DEF Octets
<1> QED
  BY <1>1, OctetsValue

\* Every byte of zero is the least one.
LEMMA OctetsOfZero ==
  ASSUME NEW k \in 1..Width
  PROVE  Octets(0)[k] = 0
<1>1. Width - k \in Nat
  BY CodingAssumption
<1>2. BytePower[Width - k] \in Nat \ {0} /\ ByteSize \in Nat \ {0}
  BY <1>1, ByteFacts
<1>3. 0 \div BytePower[Width - k] = 0 /\ 0 % ByteSize = 0
  BY <1>2
<1> QED
  BY <1>3 DEF Octets

\* Exponents add up.
LEMMA PowerSum ==
  ASSUME NEW m \in Nat, NEW n \in Nat
  PROVE  BytePower[m + n] = BytePower[m] * BytePower[n]
<1> DEFINE T == {i \in Nat : BytePower[m + i] # BytePower[m] * BytePower[i]}
<1>1. SUFFICES ASSUME T # {} PROVE FALSE
  OBVIOUS
<1>2. PICK i \in T : \A j \in T : i <= j
  <2> T \in SUBSET Nat
    OBVIOUS
  <2> HIDE DEF T
  <2> QED
    BY <1>1, LeastExists
<1>3. i # 0
  <2>1. BytePower[m] * BytePower[0] = BytePower[m] /\ m + 0 = m
    BY ByteFacts
  <2> QED
    BY <1>2, <2>1
<1>4. i - 1 \in Nat /\ (i - 1) + 1 = i /\ (m + (i - 1)) + 1 = m + i /\ m + (i - 1) \in Nat
  BY <1>2, <1>3
<1>5. BytePower[m + (i - 1)] = BytePower[m] * BytePower[i - 1]
  BY <1>2, <1>4
<1>6. /\ BytePower[m + i] = ByteSize * BytePower[m + (i - 1)]
      /\ BytePower[i] = ByteSize * BytePower[i - 1]
  BY <1>4, ByteFacts
<1>7. BytePower[m] \in Nat /\ BytePower[i - 1] \in Nat /\ ByteSize \in Nat
  BY <1>4, ByteFacts
<1>8. ASSUME NEW a \in Nat, NEW b \in Nat, NEW c \in Nat PROVE a * (b * c) = b * (a * c)
  OBVIOUS
<1> QED
  BY <1>2, <1>5, <1>6, <1>7, <1>8

\* Every byte of the greatest number is the greatest one.
LEMMA OctetsOfMax ==
  ASSUME NEW k \in 1..Width
  PROVE  Octets(UINT_MAX)[k] = ByteSize - 1
<1> DEFINE c == BytePower[Width - k]
           d == BytePower[k]
           e == BytePower[k - 1]
<1>1. /\ Width - k \in Nat /\ k \in Nat /\ k - 1 \in Nat
      /\ (Width - k) + k = Width /\ (k - 1) + 1 = k
  BY CodingAssumption
<1>2. /\ c \in Nat \ {0} /\ d \in Nat \ {0} /\ e \in Nat \ {0} /\ ByteSize \in Nat /\ ByteSize >= 2
      /\ d = ByteSize * e
  BY <1>1, ByteFacts
<1>3. UINT_MAX = c * d - 1
  BY <1>1, PowerSum DEF UINT_MAX
<1>4. Octets(UINT_MAX)[k] = (UINT_MAX \div c) % ByteSize
  BY DEF Octets
<1> HIDE DEF c, d, e
<1>5. UINT_MAX = c * (d - 1) + (c - 1) /\ d - 1 \in Nat /\ c - 1 \in 0..(c - 1)
  BY <1>2, <1>3
<1>6. UINT_MAX \div c = d - 1
  BY <1>2, <1>5, DivModUnique
<1>7. d - 1 = ByteSize * (e - 1) + (ByteSize - 1) /\ e - 1 \in Nat /\ ByteSize - 1 \in 0..(ByteSize - 1)
  BY <1>2
<1>8. (d - 1) % ByteSize = ByteSize - 1
  <2>1. PICK q \in Nat, r \in 0..(ByteSize - 1) : d - 1 = ByteSize * q + r /\ r = ByteSize - 1
    BY <1>7
  <2>2. (ByteSize * q + r) % ByteSize = r
    BY <1>2, DivModUnique
  <2> QED
    BY <2>1, <2>2
<1> QED
  BY <1>4, <1>6, <1>8

(***************************************************************************)
(* The order of the database.                                              *)
(***************************************************************************)
\* No key is before itself,
LEMMA KeyLessIrreflexive ==
  ASSUME NEW a \in Seq(Nat)
  PROVE  ~KeyLess(a, a)
BY LexLessIrreflexive DEF KeyLess, LexLess

\* of two keys one is before the other,
LEMMA KeyLessTotal ==
  ASSUME NEW a \in Seq(Nat), NEW b \in Seq(Nat), a # b
  PROVE  KeyLess(a, b) \/ KeyLess(b, a)
BY LexLessTotal DEF KeyLess, LexLess

\* and the order is transitive.
LEMMA KeyLessTransitive ==
  ASSUME NEW a \in Seq(Nat), NEW b \in Seq(Nat), NEW c \in Seq(Nat), KeyLess(a, b), KeyLess(b, c)
  PROVE  KeyLess(a, c)
BY LexLessTransitive DEF KeyLess, LexLess

(***************************************************************************)
(* A page.                                                                 *)
(***************************************************************************)
Rank(S, x) == Cardinality({y \in S : KeyLess(y, x)})

\* Every key of a finite set has a place below the number of keys,
LEMMA RankBounds ==
  ASSUME NEW S \in SUBSET Seq(Nat), IsFiniteSet(S), NEW x \in S
  PROVE  Rank(S, x) \in Nat /\ Rank(S, x) < Cardinality(S) /\ Cardinality(S) \in Nat
<1>1. x \notin {y \in S : KeyLess(y, x)}
  BY KeyLessIrreflexive
<1> QED
  BY <1>1, CardinalityGrows DEF Rank

\* the later key the later place,
LEMMA RankMonotonic ==
  ASSUME NEW S \in SUBSET Seq(Nat), IsFiniteSet(S), NEW x \in S, NEW z \in S, KeyLess(x, z)
  PROVE  Rank(S, x) < Rank(S, z)
<1> DEFINE X == {y \in S : KeyLess(y, x)}
           Z == {y \in S : KeyLess(y, z)}
<1>1. X \subseteq Z /\ x \in Z
  BY KeyLessTransitive
<1>2. x \notin X
  BY KeyLessIrreflexive
<1>3. IsFiniteSet(Z)
  BY FS_Subset
<1> QED
  BY <1>1, <1>2, <1>3, CardinalityGrows DEF Rank

\* no two of them the same one.
LEMMA RankInjective ==
  ASSUME NEW S \in SUBSET Seq(Nat), IsFiniteSet(S), NEW x \in S, NEW z \in S, Rank(S, x) = Rank(S, z)
  PROVE  x = z
<1>1. SUFFICES ASSUME x # z PROVE FALSE
  OBVIOUS
<1>2. KeyLess(x, z) \/ KeyLess(z, x)
  BY <1>1, KeyLessTotal
<1>3. Rank(S, x) \in Nat /\ Rank(S, z) \in Nat
  BY RankBounds
<1>4. Rank(S, x) < Rank(S, z) \/ Rank(S, z) < Rank(S, x)
  BY <1>2, RankMonotonic
<1> QED
  BY <1>3, <1>4

\* Every place below the number of keys is taken by a key.
LEMMA RankOnto ==
  ASSUME NEW S \in SUBSET Seq(Nat), IsFiniteSet(S), NEW k \in 1..Cardinality(S)
  PROVE  \E x \in S : Rank(S, x) = k - 1
<1> DEFINE n == Cardinality(S)
           f == [x \in S |-> Rank(S, x) + 1]
           T == {f[x] : x \in S}
<1>1. n \in Nat
  BY FS_CardinalityType
<1>2. ASSUME NEW x \in S PROVE Rank(S, x) + 1 \in 1..n
  <2>1. Rank(S, x) \in Nat /\ Rank(S, x) < n
    BY RankBounds
  <2> QED
    BY <1>1, <2>1
<1>3. T \subseteq 1..n
  BY <1>2
<1>4. ASSUME NEW x \in S, NEW y \in S, f[x] = f[y] PROVE x = y
  <2>1. Rank(S, x) \in Nat /\ Rank(S, y) \in Nat /\ Rank(S, x) + 1 = Rank(S, y) + 1
    BY <1>4, RankBounds
  <2> QED
    BY <2>1, RankInjective
<1>5. IsFiniteSet(T) /\ Cardinality(T) = n
  <2> HIDE DEF f
  <2> QED
    BY <1>4, CardinalityImage
<1>6. IsFiniteSet(1..n) /\ Cardinality(1..n) = n
  BY <1>1, CardinalityUpTo
<1>7. T = 1..n
  <2> HIDE DEF T
  <2> QED
    BY <1>3, <1>5, <1>6, FS_Subset
<1>8. PICK x \in S : f[x] = k
  BY <1>7
<1>9. Rank(S, x) \in Nat /\ Rank(S, x) + 1 = k
  BY <1>8, RankBounds
<1> QED
  BY <1>9

\* A page holds its keys in order and leaves out none that is before one of them; it is
\* empty, or of one key, only if there are no more.
LEMMA PageKeys ==
  ASSUME NEW S \in SUBSET Seq(Nat), IsFiniteSet(S), NEW n \in Nat
  PROVE  /\ Page(n, S) \in Seq(S)
         /\ Len(Page(n, S)) = IF Cardinality(S) < n THEN Cardinality(S) ELSE n
         /\ \A i, j \in 1..Len(Page(n, S)) : i < j => KeyLess(Page(n, S)[i], Page(n, S)[j])
         /\ \A k \in 1..Len(Page(n, S)) : \A x \in S :
              ~KeyLess(Page(n, S)[k], x) => \E i \in 1..k : Page(n, S)[i] = x
<1> DEFINE c == Cardinality(S)
           m == IF c < n THEN c ELSE n
           p == Page(n, S)
<1>1. c \in Nat /\ m \in Nat /\ m <= c
  BY FS_CardinalityType
<1>2. p = [k \in 1..m |-> CHOOSE x \in S : Rank(S, x) = k - 1]
  BY DEF Page, Rank
<1> HIDE DEF c, m, p
<1>3. ASSUME NEW k \in 1..m PROVE p[k] \in S /\ Rank(S, p[k]) = k - 1
  <2>1. k \in 1..c
    BY <1>1
  <2>2. \E x \in S : Rank(S, x) = k - 1
    BY <2>1, RankOnto DEF c
  <2> QED
    BY <1>2, <2>2
<1>4. p \in Seq(S) /\ Len(p) = m /\ DOMAIN p = 1..m
  BY <1>1, <1>2, <1>3
<1>5. ASSUME NEW i \in 1..m, NEW j \in 1..m, i < j
      PROVE  KeyLess(p[i], p[j])
  <2>1. p[i] \in S /\ p[j] \in S /\ Rank(S, p[i]) = i - 1 /\ Rank(S, p[j]) = j - 1
    BY <1>3
  <2>2. i - 1 < j - 1 /\ i - 1 # j - 1 /\ ~(j - 1 < i - 1)
    BY <1>5
  <2>3. p[i] # p[j]
    BY <2>1, <2>2
  <2>4. ~KeyLess(p[j], p[i])
    BY <2>1, <2>2, RankMonotonic
  <2> QED
    BY <2>1, <2>3, <2>4, KeyLessTotal
<1>6. ASSUME NEW k \in 1..m, NEW x \in S, ~KeyLess(p[k], x)
      PROVE  \E i \in 1..k : p[i] = x
  <2>1. p[k] \in S /\ Rank(S, p[k]) = k - 1
    BY <1>3
  <2>2. Rank(S, x) \in Nat /\ k \in Nat
    BY RankBounds
  <2>3. Rank(S, x) <= k - 1
    <3>1. CASE x = p[k]
      BY <2>1, <2>2, <3>1
    <3>2. CASE x # p[k]
      <4>1. KeyLess(x, p[k])
        BY <1>6, <2>1, <3>2, KeyLessTotal
      <4>2. Rank(S, x) < Rank(S, p[k])
        BY <2>1, <4>1, RankMonotonic
      <4> QED
        BY <2>1, <2>2, <4>2
    <3> QED
      BY <3>1, <3>2
  <2> DEFINE i == Rank(S, x) + 1
  <2>4. i \in 1..k /\ i \in 1..m /\ i - 1 = Rank(S, x)
    BY <1>1, <2>2, <2>3
  <2> HIDE DEF i
  <2>5. p[i] \in S /\ Rank(S, p[i]) = Rank(S, x)
    BY <1>3, <2>4
  <2> QED
    BY <2>4, <2>5, RankInjective
<1> QED
  BY <1>4, <1>5, <1>6 DEF p, m, c

(***************************************************************************)
(* Keys.                                                                   *)
(***************************************************************************)
TableIDs == Byte \X (0..UINT_MAX)

\* A meta key is the business type's byte and the bytes of the partition.
LEMMA MetaKey ==
  ASSUME NEW t \in TableIDs
  PROVE  /\ EncodeMetaKey(t) \in Seq(Nat) /\ Len(EncodeMetaKey(t)) = Width + 1
         /\ EncodeMetaKey(t)[1] = t[1]
         /\ \A k \in 1..Width : EncodeMetaKey(t)[k + 1] = Octets(t[2])[k]
<1>0. Width \in Nat /\ ByteSize \in Nat /\ ByteSize >= 2
  BY CodingAssumption, ByteFacts
<1>1. t[1] \in Nat /\ t[1] < ByteSize /\ t[2] \in Nat /\ t[2] \in 0..UINT_MAX
  BY <1>0, ByteFacts DEF TableIDs, Byte
<1>2. AppendFixed8(<<>>, t[1]) = <<t[1]>>
  <2>1. t[1] % ByteSize = t[1]
    BY <1>0, <1>1
  <2> QED
    BY <2>1 DEF AppendFixed8
<1>3. EncodeMetaKey(t) = <<t[1]>> \o Octets(t[2])
  BY <1>2 DEF EncodeMetaKey, AppendFixed64, Octets
<1>4. Octets(t[2]) \in Seq(Nat) /\ Len(Octets(t[2])) = Width
  BY <1>1, OctetsType
<1>5. <<t[1]>> \in Seq(Nat) /\ Len(<<t[1]>>) = 1
  BY <1>1
<1> DEFINE a == <<t[1]>>
           b == Octets(t[2])
<1>6. a[1] = t[1]
  OBVIOUS
<1> HIDE DEF a, b
<1>7. /\ a \o b \in Seq(Nat) /\ Len(a \o b) = 1 + Width
      /\ \A i \in 1..(1 + Width) : (a \o b)[i] = IF i <= 1 THEN a[i] ELSE b[i - 1]
  BY <1>4, <1>5, ConcatProperties DEF a, b
<1>8. ASSUME NEW k \in 1..Width PROVE (a \o b)[k + 1] = b[k]
  <2>1. k + 1 \in 1..(1 + Width) /\ ~(k + 1 <= 1) /\ (k + 1) - 1 = k
    BY <1>0
  <2> QED
    BY <1>7, <2>1
<1>9. (a \o b)[1] = t[1]
  BY <1>0, <1>6, <1>7
<1> QED
  BY <1>0, <1>3, <1>7, <1>8, <1>9 DEF a, b

\* A stored-field key is the table's meta key followed by the bytes of the document id.
LEMMA StoredKey ==
  ASSUME NEW t \in TableIDs, NEW i \in 0..UINT_MAX
  PROVE  /\ EncodeStoredFieldKey(t, i) \in Seq(Nat) /\ Len(EncodeStoredFieldKey(t, i)) = Width + 1 + Width
         /\ \A k \in 1..(Width + 1) : EncodeStoredFieldKey(t, i)[k] = EncodeMetaKey(t)[k]
         /\ \A k \in 1..Width : EncodeStoredFieldKey(t, i)[Width + 1 + k] = Octets(i)[k]
<1> DEFINE a == EncodeMetaKey(t)
           b == Octets(i)
<1>0. Width \in Nat
  BY CodingAssumption
<1>1. a \in Seq(Nat) /\ Len(a) = Width + 1
  BY MetaKey
<1>2. b \in Seq(Nat) /\ Len(b) = Width
  <2>1. i \in Nat
    BY ByteFacts
  <2> QED
    BY <2>1, OctetsType
<1>3. EncodeStoredFieldKey(t, i) = a \o b
  BY DEF EncodeStoredFieldKey, AppendFixed64, Octets
<1> HIDE DEF a, b
<1>4. /\ a \o b \in Seq(Nat) /\ Len(a \o b) = Width + 1 + Width
      /\ \A k \in 1..(Width + 1 + Width) :
           (a \o b)[k] = IF k <= Width + 1 THEN a[k] ELSE b[k - (Width + 1)]
  <2>1. /\ a \o b \in Seq(Nat) /\ Len(a \o b) = Len(a) + Len(b)
        /\ \A k \in 1..(Len(a) + Len(b)) : (a \o b)[k] = IF k <= Len(a) THEN a[k] ELSE b[k - Len(a)]
    BY <1>1, <1>2, ConcatProperties
  <2> QED
    BY <1>1, <1>2, <2>1
<1>5. ASSUME NEW k \in 1..(Width + 1) PROVE (a \o b)[k] = a[k]
  <2>1. k \in 1..(Width + 1 + Width) /\ k <= Width + 1
    BY <1>0
  <2> QED
    BY <1>4, <2>1
<1>6. ASSUME NEW k \in 1..Width PROVE (a \o b)[Width + 1 + k] = b[k]
  <2>1. /\ Width + 1 + k \in 1..(Width + 1 + Width) /\ ~(Width + 1 + k <= Width + 1)
        /\ (Width + 1 + k) - (Width + 1) = k
    BY <1>0
  <2> QED
    BY <1>4, <2>1
<1> QED
  BY <1>3, <1>4, <1>5, <1>6 DEF a, b

\* The meta key tells the table.
LEMMA MetaKeyInjective ==
  ASSUME NEW t \in TableIDs, NEW u \in TableIDs,
         \A k \in 1..(Width + 1) : EncodeMetaKey(t)[k] = EncodeMetaKey(u)[k]
  PROVE  t = u
<1>0. Width \in Nat
  BY CodingAssumption
<1>1. t[1] = u[1]
  <2>1. 1 \in 1..(Width + 1)
    BY <1>0
  <2> QED
    BY <2>1, MetaKey
<1>2. t[2] \in 0..UINT_MAX /\ u[2] \in 0..UINT_MAX /\ t = <<t[1], t[2]>> /\ u = <<u[1], u[2]>>
  BY DEF TableIDs
<1>3. ASSUME NEW k \in 1..Width PROVE Octets(t[2])[k] = Octets(u[2])[k]
  <2>1. k + 1 \in 1..(Width + 1)
    BY <1>0
  <2>2. EncodeMetaKey(t)[k + 1] = EncodeMetaKey(u)[k + 1]
    BY <2>1
  <2> QED
    BY <2>2, MetaKey
<1>4. t[2] = u[2]
  BY <1>2, <1>3, OctetsInjective
<1> QED
  BY <1>1, <1>2, <1>4

\* No two rows have the same key.
LEMMA StoredKeyInjective ==
  ASSUME NEW t \in TableIDs, NEW u \in TableIDs, NEW i \in 0..UINT_MAX, NEW j \in 0..UINT_MAX,
         EncodeStoredFieldKey(t, i) = EncodeStoredFieldKey(u, j)
  PROVE  t = u /\ i = j
<1>1. \A k \in 1..(Width + 1) : EncodeMetaKey(t)[k] = EncodeMetaKey(u)[k]
  BY StoredKey
<1>2. \A k \in 1..Width : Octets(i)[k] = Octets(j)[k]
  BY StoredKey
<1> QED
  BY <1>1, <1>2, MetaKeyInjective, OctetsInjective

\* What RemoveFixed8 and RemoveFixed64 read back is what was appended.
LEMMA PartitionOfKey ==
  ASSUME NEW t \in TableIDs
  PROVE  Partition(EncodeMetaKey(t)) = t[2]
<1> DEFINE e == EncodeMetaKey(t)
           r == Tail(e)
<1>0. Width \in Nat /\ Width >= 1
  BY CodingAssumption
<1>1. e \in Seq(Nat) /\ Len(e) = Width + 1 /\ \A k \in 1..Width : e[k + 1] = Octets(t[2])[k]
  BY MetaKey
<1>2. t[2] \in 0..UINT_MAX /\ t[2] \in Nat
  BY ByteFacts DEF TableIDs
<1> HIDE DEF e
<1>3. e # <<>>
  BY <1>0, <1>1
<1>4. r \in Seq(Nat) /\ Len(r) = Width /\ \A k \in 1..Width : r[k] = e[k + 1]
  BY <1>0, <1>1, <1>3, HeadTailProperties
<1>5. SubSeq(r, 1, Width) = r
  BY <1>4, SubSeqFull
<1>6. r = Octets(t[2])
  <2>1. Octets(t[2]) \in Seq(Nat) /\ Len(Octets(t[2])) = Width
    BY <1>2, OctetsType
  <2>2. \A k \in 1..Width : r[k] = Octets(t[2])[k]
    BY <1>1, <1>4
  <2> HIDE DEF r
  <2> QED
    BY <1>4, <2>1, <2>2, SeqEqual
<1>7. Partition(e) = Number(Reverse(SubSeq(r, 1, Width)), ByteSize)
  BY DEF Partition, RemoveFixed64, RemoveFixed8
<1> QED
  BY <1>2, <1>5, <1>6, <1>7, OctetsValue DEF e

\* A key that has a prefix is not before it.
LEMMA PrefixFirst ==
  ASSUME NEW k \in Seq(Nat), NEW p \in Seq(Nat), HasPrefix(k, p)
  PROVE  ~KeyLess(k, p) /\ \A i \in 1..Len(p) : k[i] = p[i]
<1>1. Len(k) >= Len(p) /\ SubSeq(k, 1, Len(p)) = p /\ Len(p) \in Nat /\ Len(k) \in Nat
  BY DEF HasPrefix
<1>2. ASSUME NEW i \in 1..Len(p) PROVE k[i] = p[i]
  <2>1. SubSeq(k, 1, Len(p))[i] = k[i]
    BY <1>1
  <2> QED
    BY <1>1, <2>1
<1>3. \A i \in 1..Len(p) : p[i] \in Nat
  OBVIOUS
<1>4. ~KeyLess(k, p)
  BY <1>1, <1>2, <1>3 DEF KeyLess
<1> QED
  BY <1>2, <1>4

\* A prefix is a matter of the bytes at its places.
LEMMA HasPrefixIff ==
  ASSUME NEW k \in Seq(Nat), NEW p \in Seq(Nat), Len(p) <= Len(k)
  PROVE  HasPrefix(k, p) <=> \A i \in 1..Len(p) : k[i] = p[i]
<1>1. ASSUME \A i \in 1..Len(p) : k[i] = p[i]
      PROVE  HasPrefix(k, p)
  <2>1. /\ SubSeq(k, 1, Len(p)) \in Seq(Nat) /\ Len(SubSeq(k, 1, Len(p))) = Len(p)
        /\ \A i \in 1..Len(p) : SubSeq(k, 1, Len(p))[i] = k[i]
    OBVIOUS
  <2>2. SubSeq(k, 1, Len(p)) = p
    BY <1>1, <2>1, SeqEqual
  <2> QED
    BY <2>2 DEF HasPrefix
<1> QED
  BY <1>1, PrefixFirst

\* The keys with a table's prefix are the keys of that table,
LEMMA StoredPrefix ==
  ASSUME NEW t \in TableIDs, NEW u \in TableIDs, NEW i \in 0..UINT_MAX
  PROVE  HasPrefix(EncodeStoredFieldKey(u, i), EncodeMetaKey(t)) <=> u = t
<1> DEFINE k == EncodeStoredFieldKey(u, i)
           p == EncodeMetaKey(t)
<1>0. Width \in Nat
  BY CodingAssumption
<1>1. /\ k \in Seq(Nat) /\ p \in Seq(Nat) /\ Len(p) = Width + 1 /\ Len(p) <= Len(k)
      /\ \A j \in 1..(Width + 1) : k[j] = EncodeMetaKey(u)[j]
  BY <1>0, StoredKey, MetaKey
<1>2. HasPrefix(k, p) <=> \A j \in 1..Len(p) : k[j] = p[j]
  BY <1>1, HasPrefixIff
<1> HIDE DEF k
<1>3. HasPrefix(k, p) <=> \A j \in 1..(Width + 1) : EncodeMetaKey(u)[j] = EncodeMetaKey(t)[j]
  BY <1>1, <1>2
<1> QED
  BY <1>3, MetaKeyInjective DEF k

\* and the meta keys with a business type's prefix are those of that type.
LEMMA MetaPrefix ==
  ASSUME NEW t \in TableIDs, NEW b \in Byte
  PROVE  HasPrefix(EncodeMetaKey(t), AppendFixed8(<<>>, b)) <=> t[1] = b
<1> DEFINE p == AppendFixed8(<<>>, b)
<1>0. Width \in Nat /\ ByteSize \in Nat /\ ByteSize >= 2 /\ b \in Nat /\ b < ByteSize
  BY CodingAssumption, ByteFacts DEF Byte
<1>1. p = <<b>>
  <2>1. b % ByteSize = b
    BY <1>0
  <2> QED
    BY <2>1 DEF AppendFixed8
<1>2. p \in Seq(Nat) /\ Len(p) = 1 /\ p[1] = b
  <2>1. <<b>> \in Seq(Nat) /\ Len(<<b>>) = 1 /\ <<b>>[1] = b
    BY <1>0
  <2> QED
    BY <1>1, <2>1
<1>3. EncodeMetaKey(t) \in Seq(Nat) /\ Len(EncodeMetaKey(t)) = Width + 1 /\ EncodeMetaKey(t)[1] = t[1]
  BY MetaKey
<1> HIDE DEF p
<1>4. Len(p) <= Len(EncodeMetaKey(t))
  BY <1>0, <1>2, <1>3
<1>5. HasPrefix(EncodeMetaKey(t), p) <=> \A i \in 1..1 : EncodeMetaKey(t)[i] = p[i]
  BY <1>2, <1>3, <1>4, HasPrefixIff
<1> QED
  BY <1>2, <1>3, <1>5 DEF p

\* No partition set comes before 0.
LEMMA MetaLeast ==
  ASSUME NEW b \in Byte, NEW i \in 0..UINT_MAX
  PROVE  ~KeyLess(EncodeMetaKey(<<b, i>>), EncodeMetaKey(<<b, 0>>))
<1> DEFINE k == EncodeMetaKey(<<b, i>>)
           z == EncodeMetaKey(<<b, 0>>)
<1>0. Width \in Nat /\ UINT_MAX \in Nat /\ i \in Nat /\ <<b, i>> \in TableIDs /\ <<b, 0>> \in TableIDs /\ b \in Nat
  BY CodingAssumption, ByteFacts DEF TableIDs, Byte
<1>1. /\ k \in Seq(Nat) /\ Len(k) = Width + 1 /\ k[1] = b
      /\ \A j \in 1..Width : k[j + 1] = Octets(i)[j]
  BY <1>0, MetaKey
<1>2. /\ z \in Seq(Nat) /\ Len(z) = Width + 1 /\ z[1] = b
      /\ \A j \in 1..Width : z[j + 1] = Octets(0)[j]
  BY <1>0, MetaKey
<1> HIDE DEF k, z
<1>3. ASSUME NEW j \in 1..(Width + 1) PROVE z[j] <= k[j]
  <2>1. CASE j = 1
    BY <1>0, <1>1, <1>2, <2>1
  <2>2. CASE j # 1
    <3>1. j - 1 \in 1..Width /\ (j - 1) + 1 = j
      BY <1>0, <2>2
    <3>2. z[j] = 0
      BY <1>2, <3>1, OctetsOfZero
    <3>3. k[j] \in Nat
      BY <1>1
    <3> QED
      BY <3>2, <3>3
  <2> QED
    BY <2>1, <2>2
<1>4. \A j \in 1..(Width + 1) : k[j] \in Nat /\ z[j] \in Nat
  BY <1>1, <1>2
<1>5. ASSUME NEW j \in DOMAIN k PROVE ~(k[j] < z[j])
  <2>1. j \in 1..(Width + 1)
    BY <1>1
  <2> QED
    BY <1>3, <1>4, <2>1
<1>6. ~(Len(k) < Len(z))
  BY <1>0, <1>1, <1>2
<1> QED
  BY <1>5, <1>6 DEF KeyLess, k, z

\* A key none of whose bytes is greater is not behind.
LEMMA BytesNoGreater ==
  ASSUME NEW a \in Seq(Nat), NEW b \in Seq(Nat), Len(a) = Len(b), \A j \in 1..Len(a) : b[j] <= a[j]
  PROVE  ~KeyLess(a, b)
<1>1. \A j \in DOMAIN a : j \in 1..Len(a) /\ a[j] \in Nat /\ b[j] \in Nat
  OBVIOUS
<1>2. ASSUME NEW j \in DOMAIN a PROVE ~(a[j] < b[j])
  <2>1. b[j] <= a[j] /\ a[j] \in Nat /\ b[j] \in Nat
    BY <1>1
  <2> QED
    BY <2>1
<1>3. Len(a) \in Nat /\ Len(b) \in Nat
  OBVIOUS
<1>4. ~(Len(a) < Len(b))
  BY <1>3
<1> QED
  BY <1>2, <1>4 DEF KeyLess

\* The range holds the keys of the table but the one of the greatest document id.
LEMMA DropRangeExact ==
  ASSUME op.table \in TableIDs, NEW u \in TableIDs, NEW i \in 0..UINT_MAX
  PROVE  DropRange(EncodeStoredFieldKey(u, i)) <=> u = op.table /\ i # UINT_MAX
<1> DEFINE t == op.table
           k == EncodeStoredFieldKey(u, i)
           lo == EncodeStoredFieldKey(t, 0)
           hi == EncodeStoredFieldKey(t, UINT_MAX)
           N == Width + 1 + Width
<1>0. Width \in Nat /\ UINT_MAX \in Nat /\ 0 \in 0..UINT_MAX /\ UINT_MAX \in 0..UINT_MAX /\ i \in Nat
  BY CodingAssumption, ByteFacts
<1>1. /\ k \in Seq(Nat) /\ Len(k) = N
      /\ \A j \in 1..(Width + 1) : k[j] = EncodeMetaKey(u)[j]
      /\ \A j \in 1..Width : k[Width + 1 + j] = Octets(i)[j]
  BY StoredKey
<1>2. /\ lo \in Seq(Nat) /\ Len(lo) = N
      /\ \A j \in 1..(Width + 1) : lo[j] = EncodeMetaKey(t)[j]
      /\ \A j \in 1..Width : lo[Width + 1 + j] = Octets(0)[j]
  BY <1>0, StoredKey
<1>3. /\ hi \in Seq(Nat) /\ Len(hi) = N
      /\ \A j \in 1..(Width + 1) : hi[j] = EncodeMetaKey(t)[j]
      /\ \A j \in 1..Width : hi[Width + 1 + j] = Octets(UINT_MAX)[j]
  BY <1>0, StoredKey
<1>4. \A j \in 1..(Width + 1) : EncodeMetaKey(t)[j] \in Nat /\ EncodeMetaKey(u)[j] \in Nat
  <2>1. /\ EncodeMetaKey(t) \in Seq(Nat) /\ Len(EncodeMetaKey(t)) = Width + 1
        /\ EncodeMetaKey(u) \in Seq(Nat) /\ Len(EncodeMetaKey(u)) = Width + 1
    BY MetaKey
  <2> QED
    BY <2>1
<1>5. DropRange(k) <=> ~KeyLess(k, lo) /\ KeyLess(k, hi)
  BY DEF DropRange
<1>6. CASE u = t
  <2>1. ASSUME NEW j \in 1..N PROVE lo[j] <= k[j] /\ k[j] <= hi[j]
    <3>1. CASE j \in 1..(Width + 1)
      BY <1>1, <1>2, <1>3, <1>4, <1>6, <3>1
    <3>2. CASE j \notin 1..(Width + 1)
      <4>1. PICK m \in 1..Width : j = Width + 1 + m
        <5>1. j - (Width + 1) \in 1..Width /\ j = Width + 1 + (j - (Width + 1))
          BY <1>0, <3>2
        <5> QED
          BY <5>1
      <4>2. lo[j] = 0 /\ hi[j] = ByteSize - 1
        BY <1>2, <1>3, <4>1, OctetsOfZero, OctetsOfMax
      <4>3. k[j] \in 0..(ByteSize - 1)
        BY <1>0, <1>1, <4>1, OctetsType
      <4> QED
        BY <4>2, <4>3, ByteFacts
    <3> QED
      BY <3>1, <3>2
  <2>2. ~KeyLess(k, lo) /\ ~KeyLess(hi, k)
    <3> HIDE DEF k, lo, hi
    <3>1. ~KeyLess(k, lo)
      BY <1>1, <1>2, <2>1, BytesNoGreater
    <3>2. ~KeyLess(hi, k)
      BY <1>1, <1>3, <2>1, BytesNoGreater
    <3> QED
      BY <3>1, <3>2
  <2>3. CASE i = UINT_MAX
    BY <1>3, <1>5, <1>6, <2>3, KeyLessIrreflexive
  <2>4. CASE i # UINT_MAX
    <3>1. k # hi
      BY <1>0, <2>4, StoredKeyInjective
    <3>2. KeyLess(k, hi)
      BY <1>1, <1>3, <2>2, <3>1, KeyLessTotal
    <3> QED
      BY <1>5, <1>6, <2>2, <2>4, <3>2
  <2> QED
    BY <2>3, <2>4
<1>7. CASE u # t
  <2> DEFINE D == {j \in 1..(Width + 1) : EncodeMetaKey(u)[j] # EncodeMetaKey(t)[j]}
  <2>1. D # {}
    BY <1>7, MetaKeyInjective
  <2>2. PICK j \in D : \A m \in D : j <= m
    <3> D \in SUBSET Nat
      BY <1>0
    <3> HIDE DEF D
    <3> QED
      BY <2>1, LeastExists
  <2>3. /\ j \in 1..(Width + 1) /\ k[j] # lo[j] /\ lo[j] = hi[j] /\ k[j] \in Nat /\ lo[j] \in Nat
        /\ j \in DOMAIN k /\ j \in DOMAIN hi /\ j <= Len(k) /\ j <= Len(lo)
    <3>1. j \in 1..(Width + 1) /\ EncodeMetaKey(u)[j] # EncodeMetaKey(t)[j]
      BY <2>2
    <3>2. k[j] # lo[j] /\ lo[j] = hi[j] /\ k[j] \in Nat /\ lo[j] \in Nat
      BY <1>1, <1>2, <1>3, <1>4, <3>1
    <3>3. j \in 1..N /\ j <= N
      BY <1>0, <3>1
    <3>4. j \in DOMAIN k /\ j \in DOMAIN hi /\ j <= Len(k) /\ j <= Len(lo)
      <4> HIDE DEF k, lo, hi, N
      <4> QED
        BY <1>1, <1>2, <1>3, <3>3
    <3> QED
      BY <3>1, <3>2, <3>4
  <2>4. ASSUME NEW m \in 1..(j - 1) PROVE k[m] = lo[m] /\ hi[m] = k[m]
    <3>1. m \in 1..(Width + 1) /\ ~(j <= m)
      BY <1>0, <2>3
    <3>2. EncodeMetaKey(u)[m] = EncodeMetaKey(t)[m]
      BY <2>2, <3>1
    <3> QED
      BY <1>1, <1>2, <1>3, <3>1, <3>2
  <2> HIDE DEF k, lo, hi
  <2>5. CASE k[j] < lo[j]
    <3>1. KeyLess(k, lo)
      BY <2>3, <2>4, <2>5 DEF KeyLess
    <3> QED
      BY <1>5, <1>7, <3>1 DEF k
  <2>6. CASE lo[j] < k[j]
    <3>1. KeyLess(hi, k)
      BY <2>3, <2>4, <2>6 DEF KeyLess
    <3>2. ~KeyLess(k, hi)
      BY <1>1, <1>3, <3>1, KeyLessIrreflexive, KeyLessTransitive
    <3> QED
      BY <1>5, <1>7, <3>2 DEF k
  <2> QED
    BY <2>3, <2>5, <2>6
<1> QED
  BY <1>6, <1>7

(***************************************************************************)
(* What the constants say of the keys.                                     *)
(***************************************************************************)
LEMMA StoredKeysFacts ==
  /\ StoredKeys \in SUBSET Seq(Nat) /\ IsFiniteSet(StoredKeys) /\ Tables \subseteq TableIDs
  /\ \A k \in StoredKeys : \E u \in TableIDs, i \in 0..UINT_MAX : k = EncodeStoredFieldKey(u, i)
<1> DEFINE f == [r \in Rows |-> EncodeStoredFieldKey(r[1], r[2])]
<1>1. ASSUME NEW r \in Rows
      PROVE  r[1] \in TableIDs /\ r[2] \in 0..UINT_MAX /\ r = <<r[1], r[2]>>
  BY ScanAssumption DEF TableIDs
<1>2. \A x, y \in Rows : f[x] = f[y] => x = y
  <2> SUFFICES ASSUME NEW x \in Rows, NEW y \in Rows, f[x] = f[y] PROVE x = y
    OBVIOUS
  <2>1. EncodeStoredFieldKey(x[1], x[2]) = EncodeStoredFieldKey(y[1], y[2])
    OBVIOUS
  <2>2. x[1] = y[1] /\ x[2] = y[2]
    BY <1>1, <2>1, StoredKeyInjective
  <2> QED
    BY <1>1, <2>2
<1>3. StoredKeys = {f[r] : r \in Rows}
  BY DEF StoredKeys
<1>4. IsFiniteSet({f[r] : r \in Rows})
  <2> HIDE DEF f
  <2> QED
    BY <1>2, ScanAssumption, CardinalityImage
<1>5. \A k \in StoredKeys : \E u \in TableIDs, i \in 0..UINT_MAX : k = EncodeStoredFieldKey(u, i)
  BY <1>1 DEF StoredKeys
<1>6. \A k \in StoredKeys : k \in Seq(Nat)
  BY <1>5, StoredKey
<1>7. Tables \subseteq TableIDs
  BY ScanAssumption DEF TableIDs
<1> QED
  BY <1>3, <1>4, <1>5, <1>6, <1>7

\* There are finitely many meta keys, each of a table.
LEMMA MetaKeysFacts ==
  /\ MetaKeys \in SUBSET Seq(Nat) /\ IsFiniteSet(MetaKeys)
  /\ \A k \in MetaKeys : \E t \in Tables : t \in TableIDs /\ k = EncodeMetaKey(t)
<1> DEFINE f == [t \in Tables |-> EncodeMetaKey(t)]
<1>1. \A x, y \in Tables : f[x] = f[y] => x = y
  <2> SUFFICES ASSUME NEW x \in Tables, NEW y \in Tables, f[x] = f[y] PROVE x = y
    OBVIOUS
  <2>1. EncodeMetaKey(x) = EncodeMetaKey(y)
    OBVIOUS
  <2>2. x \in TableIDs /\ y \in TableIDs
    BY StoredKeysFacts
  <2> QED
    BY <2>1, <2>2, MetaKeyInjective
<1>2. MetaKeys = {f[t] : t \in Tables}
  BY DEF MetaKeys
<1>3. IsFiniteSet({f[t] : t \in Tables})
  <2> HIDE DEF f
  <2> QED
    BY <1>1, ScanAssumption, CardinalityImage
<1>4. \A k \in MetaKeys : \E t \in Tables : t \in TableIDs /\ k = EncodeMetaKey(t)
  BY StoredKeysFacts DEF MetaKeys
<1>5. \A k \in MetaKeys : k \in Seq(Nat)
  BY <1>4, MetaKey
<1> QED
  BY <1>2, <1>3, <1>4, <1>5

(***************************************************************************)
(* The inductive invariant.                                                *)
(***************************************************************************)
ScanKeys == IF op.name = "sets" THEN MetaKeys ELSE StoredKeys

ScanTypes ==
  /\ op \in [name : {"scan", "sets", "delete", "drop"}, table : Tables, snap : BOOLEAN]
  /\ column \in [ScanKeys -> RowSizes] /\ snapshot \in [ScanKeys -> RowSizes]
  /\ IF op.name = "sets" THEN start \in 0..UINT_MAX
     ELSE start = <<>> \/ (start \in StoredKeys /\ InTable(start))

\* A key that the operation has to find: it was there from the beginning and nobody has
\* written it since, unless the operation reads a snapshot.
WasThere(k) == snapshot[k] # 0 /\ (op.snap \/ k \notin touched)

\* The operation on rows is behind k.
Passed(k) == state = "done" \/ (state = "run" /\ start # <<>> /\ ~KeyLess(start, k))

Untouched ==
  op.name \in {"scan", "sets"} => \A k \in ScanKeys \ touched : column[k] = snapshot[k]

RowsReturned ==
  op.name = "scan" =>
    /\ got \subseteq {k \in StoredKeys : InTable(k) /\ (op.snap => snapshot[k] # 0)}
    /\ \A k \in StoredKeys : InTable(k) /\ WasThere(k) /\ Passed(k) => k \in got

SetsReturned ==
  op.name = "sets" =>
    /\ \A p \in got : \E t \in Tables : t[1] = op.table[1] /\ t[2] = p
                                        /\ (op.snap => snapshot[EncodeMetaKey(t)] # 0)
    /\ \A t \in Tables :
         /\ t[1] = op.table[1] /\ WasThere(EncodeMetaKey(t))
         /\ state = "done" \/ KeyLess(EncodeMetaKey(t), EncodeMetaKey(<<op.table[1], start>>))
         => t[2] \in got

RowsDeleted ==
  op.name = "delete" =>
    \A k \in StoredKeys \ touched :
      /\ ~InTable(k) => column[k] = snapshot[k]
      /\ InTable(k) /\ Passed(k) => column[k] = 0

RowsDropped ==
  op.name = "drop" =>
    \A k \in StoredKeys \ touched :
      column[k] = IF state = "done" /\ InTable(k) /\ k # EncodeStoredFieldKey(op.table, UINT_MAX)
                  THEN 0 ELSE snapshot[k]

ScanInv == ScanTypes /\ Untouched /\ RowsReturned /\ SetsReturned /\ RowsDeleted /\ RowsDropped

\* A page of the keys that an iterator gives.
LEMMA PageOf ==
  ASSUME NEW K \in SUBSET Seq(Nat), IsFiniteSet(K), NEW found \in SUBSET K, NEW keys, keys = Page(MaxLen, found)
  PROVE  /\ keys \in Seq(found) /\ Len(keys) \in Nat /\ DOMAIN keys = 1..Len(keys)
         /\ keys = <<>> <=> Len(keys) = 0
         /\ Len(keys) = 0 => found = {}
         /\ Len(keys) = 1 => found = {keys[1]}
         /\ \A i, j \in 1..Len(keys) : i < j => KeyLess(keys[i], keys[j])
         /\ \A k \in 1..Len(keys) : \A x \in found : ~KeyLess(keys[k], x) => \E i \in 1..k : keys[i] = x
<1>1. found \in SUBSET Seq(Nat) /\ IsFiniteSet(found) /\ Cardinality(found) \in Nat
  BY FS_Subset, FS_CardinalityType
<1>2. MaxLen \in Nat /\ MaxLen >= 2
  BY ScanAssumption
<1>3. /\ keys \in Seq(found)
      /\ \A i, j \in 1..Len(keys) : i < j => KeyLess(keys[i], keys[j])
      /\ \A k \in 1..Len(keys) : \A x \in found : ~KeyLess(keys[k], x) => \E i \in 1..k : keys[i] = x
  <2> DEFINE p == Page(MaxLen, found)
  <2>1. p \in Seq(found)
    BY <1>1, <1>2, PageKeys, Zenon
  <2>2. \A i, j \in 1..Len(p) : i < j => KeyLess(p[i], p[j])
    BY <1>1, <1>2, PageKeys, Zenon
  <2>3. \A k \in 1..Len(p) : \A x \in found : ~KeyLess(p[k], x) => \E i \in 1..k : p[i] = x
    BY <1>1, <1>2, PageKeys, Zenon
  <2>4. keys = p
    OBVIOUS
  <2> HIDE DEF p
  <2> QED
    BY <2>1, <2>2, <2>3, <2>4, Zenon
<1>0. Len(keys) = IF Cardinality(found) < MaxLen THEN Cardinality(found) ELSE MaxLen
  BY <1>1, <1>2, PageKeys, Zenon
<1>4. Len(keys) \in Nat /\ DOMAIN keys = 1..Len(keys) /\ (keys = <<>> <=> Len(keys) = 0)
  BY <1>3
<1>5. ASSUME Len(keys) = 0 PROVE found = {}
  <2>1. Cardinality(found) = 0
    BY <1>0, <1>1, <1>2, <1>5
  <2> QED
    BY <1>1, <2>1, FS_EmptySet
<1>6. ASSUME Len(keys) = 1 PROVE found = {keys[1]}
  <2>1. Cardinality(found) = 1
    <3>1. CASE Cardinality(found) < MaxLen
      BY <1>0, <1>6, <3>1
    <3>2. CASE ~(Cardinality(found) < MaxLen)
      <4>1. MaxLen = 1
        BY <1>0, <1>6, <3>2
      <4> QED
        BY <1>2, <4>1
    <3> QED
      BY <3>1, <3>2
  <2>2. PICK x : found = {x}
    BY <1>1, <2>1, FS_Singleton
  <2>3. keys[1] \in found
    BY <1>3, <1>6
  <2> QED
    BY <2>2, <2>3
<1> QED
  BY <1>3, <1>4, <1>5, <1>6

\* The buffer takes none or some of the keys, from the first on.
LEMMA FittingBound ==
  ASSUME NEW K, NEW keys \in Seq(K)
  PROVE  Fitting(keys) \in 0..Len(keys)
<1> DEFINE size == CHOOSE s : s = [k \in 0..Len(keys) |-> IF k = 0 THEN HeaderSize ELSE s[k - 1] + View[keys[k]]]
           F == {k \in DOMAIN keys : size[k] <= MaxBufferSize}
<1>1. Fitting(keys) = Cardinality(F)
  BY DEF Fitting
<1> HIDE DEF size
<1>2. Len(keys) \in Nat /\ DOMAIN keys = 1..Len(keys) /\ F \subseteq 1..Len(keys)
  OBVIOUS
<1>3. IsFiniteSet(1..Len(keys)) /\ Cardinality(1..Len(keys)) = Len(keys)
  BY <1>2, FS_Interval
<1> HIDE DEF F
<1>4. Cardinality(F) \in Nat /\ Cardinality(F) <= Len(keys)
  <2>1. IsFiniteSet(F) /\ Cardinality(F) <= Cardinality(1..Len(keys))
    <3>1. F \in SUBSET (1..Len(keys))
      BY <1>2
    <3> QED
      BY <1>3, <3>1, FS_Subset, Zenon
  <2> QED
    BY <1>3, <2>1, FS_CardinalityType
<1> QED
  BY <1>1, <1>2, <1>4

\* A call starts in the invariant.
LEMMA ScanInitInv == ScanInit => ScanInv
<1> SUFFICES ASSUME ScanInit PROVE ScanInv
  OBVIOUS
<1>1. op \in [name : {"scan", "sets", "delete", "drop"}, table : Tables, snap : BOOLEAN]
  BY DEF ScanInit
<1>2. column \in [ScanKeys -> RowSizes] /\ snapshot = column
  <2>1. CASE op.name = "sets"
    BY <2>1 DEF ScanInit, ScanKeys, RowSizes
  <2>2. CASE op.name # "sets"
    BY <2>2 DEF ScanInit, ScanKeys, RowSizes
  <2> QED
    BY <2>1, <2>2
<1>3. ScanTypes
  <2>1. IF op.name = "sets" THEN start \in 0..UINT_MAX ELSE start = <<>>
    BY ByteFacts DEF ScanInit
  <2> QED
    BY <1>1, <1>2, <2>1 DEF ScanTypes
<1>4. Untouched
  BY <1>2 DEF Untouched
<1>5. RowsReturned
  BY DEF ScanInit, RowsReturned, Passed
<1>6. SetsReturned
  <2> SUFFICES ASSUME op.name = "sets" PROVE SetsReturned
    BY DEF SetsReturned
  <2>1. got = {} /\ start = 0 /\ state = "run"
    BY DEF ScanInit
  <2>2. ASSUME NEW t \in Tables, t[1] = op.table[1]
        PROVE  ~KeyLess(EncodeMetaKey(t), EncodeMetaKey(<<op.table[1], start>>))
    <3>1. t \in TableIDs
      BY StoredKeysFacts
    <3>2. t = <<t[1], t[2]>> /\ t[1] \in Byte /\ t[2] \in 0..UINT_MAX
      BY <3>1 DEF TableIDs
    <3> QED
      BY <2>1, <2>2, <3>2, MetaLeast
  <2> QED
    BY <2>1, <2>2 DEF SetsReturned
<1>7. RowsDeleted
  BY <1>2 DEF ScanInit, RowsDeleted, Passed
<1>8. RowsDropped
  BY <1>2 DEF ScanInit, RowsDropped
<1> QED
  BY <1>3, <1>4, <1>5, <1>6, <1>7, <1>8 DEF ScanInv

\* What was there when an operation that only reads began, and nobody has written, is in its view.
LEMMA ViewKeeps ==
  ASSUME ScanInv, op.name \in {"scan", "sets"}, NEW k \in ScanKeys
  PROVE  /\ WasThere(k) => View[k] # 0
         /\ op.snap /\ View[k] # 0 => snapshot[k] # 0
<1>1. k \notin touched => column[k] = snapshot[k]
  BY DEF ScanInv, Untouched
<1> QED
  BY <1>1 DEF WasThere, View

\* A page of a scan: its keys are rows of the table, and a row that had to be found and is
\* not behind the page's end is returned.
LEMMA ScanKeepsInv == ScanInv /\ ScanTableData => ScanInv'
<1> SUFFICES ASSUME ScanInv, ScanTableData PROVE ScanInv'
  OBVIOUS
<1> DEFINE pre == EncodeMetaKey(op.table)
           from == IF start = <<>> THEN pre ELSE start
           found == FromStart
           keys == Page(MaxLen, found)
           n == Fitting(keys)
<1>1. /\ state = "run" /\ op.name = "scan"
      /\ op' = op /\ column' = column /\ snapshot' = snapshot /\ touched' = touched
  BY DEF ScanTableData
<1>2. /\ got' = got \cup {keys[k] : k \in 1..n}
      /\ IF n < Len(keys) /\ View[keys[n + 1]] > MaxBufferSize
         THEN state' = "RocksDBError" /\ start' = start
         ELSE /\ start' = IF n = 0 THEN <<>> ELSE keys[n]
              /\ state' = IF keys # <<>> /\ n = 0 THEN "DataError"
                          ELSE IF n = 0 THEN "done" ELSE "run"
  BY DEF ScanTableData
<1>3. ScanTypes /\ Untouched /\ RowsReturned
  BY DEF ScanInv
<1>4. /\ ScanKeys = StoredKeys /\ op.table \in TableIDs /\ pre \in Seq(Nat)
      /\ StoredKeys \in SUBSET Seq(Nat) /\ IsFiniteSet(StoredKeys)
      /\ start = <<>> \/ (start \in StoredKeys /\ InTable(start))
  BY <1>1, <1>3, StoredKeysFacts, MetaKey DEF ScanTypes, ScanKeys
<1>5. DOMAIN View = StoredKeys
  BY <1>3, <1>4 DEF ScanTypes, View
<1>6. found = {k \in StoredKeys : View[k] # 0 /\ InTable(k) /\ ~KeyLess(k, from) /\ k # start}
  BY <1>5 DEF FromStart, Seek, InTable
<1>7. /\ keys \in Seq(found) /\ Len(keys) \in Nat /\ DOMAIN keys = 1..Len(keys)
      /\ keys = <<>> <=> Len(keys) = 0
      /\ Len(keys) = 0 => found = {}
      /\ \A k \in 1..Len(keys) : \A x \in found : ~KeyLess(keys[k], x) => \E i \in 1..k : keys[i] = x
  <2>1. found \in SUBSET StoredKeys
    BY <1>6
  <2> HIDE DEF found
  <2> QED
    BY <1>4, <2>1, PageOf
<1>8. n \in 0..Len(keys)
  <2> HIDE DEF found, keys
  <2> QED
    BY <1>7, FittingBound
<1> HIDE DEF found, keys, n
<1>9. \A k \in 1..n : k \in 1..Len(keys) /\ keys[k] \in found
  BY <1>7, <1>8
<1>10. ASSUME NEW k \in StoredKeys, InTable(k), WasThere(k)
       PROVE  k \in got \/ k \in found
  <2>1. View[k] # 0
    BY <1>1, <1>4, <1>10, ViewKeeps
  <2>2. CASE start = <<>>
    <3>1. ~KeyLess(k, from)
      BY <1>4, <1>10, <2>2, PrefixFirst DEF InTable
    <3>2. k # start
      <4>1. Len(k) >= Len(pre) /\ Len(pre) = Width + 1 /\ Len(k) \in Nat /\ Width \in Nat
        BY <1>4, <1>10, MetaKey, CodingAssumption DEF InTable, HasPrefix
      <4> QED
        BY <2>2, <4>1
    <3> QED
      BY <1>6, <1>10, <2>1, <3>1, <3>2
  <2>3. CASE start # <<>> /\ ~KeyLess(start, k)
    BY <1>1, <1>3, <1>10, <2>3 DEF RowsReturned, Passed
  <2>4. CASE start # <<>> /\ KeyLess(start, k)
    <3>1. k \in Seq(Nat) /\ start \in Seq(Nat)
      BY <1>4, <2>4
    <3>2. ~KeyLess(k, start) /\ k # start
      BY <2>4, <3>1, KeyLessIrreflexive, KeyLessTransitive
    <3> QED
      BY <1>6, <1>10, <2>1, <2>4, <3>2
  <2> QED
    BY <2>2, <2>3, <2>4
<1>11. ScanTypes'
  <2>1. start' = <<>> \/ (start' \in StoredKeys /\ InTable(start'))
    <3>1. start' = start \/ start' = <<>> \/ (n # 0 /\ start' = keys[n])
      BY <1>2
    <3>2. ASSUME n # 0 PROVE keys[n] \in found
      BY <1>8, <1>9, <3>2, <1>7
    <3> QED
      BY <1>4, <1>6, <3>1, <3>2
  <2> QED
    BY <1>1, <1>3, <2>1 DEF ScanTypes, ScanKeys, InTable
<1>12. Untouched'
  BY <1>1, <1>3 DEF Untouched, ScanKeys
<1>13. RowsReturned'
  <2>1. \A k \in StoredKeys : InTable(k)' <=> InTable(k)
    BY <1>1 DEF InTable
  <2>2. got' \subseteq {k \in StoredKeys : InTable(k) /\ (op.snap => snapshot[k] # 0)}
    <3>1. got \subseteq {k \in StoredKeys : InTable(k) /\ (op.snap => snapshot[k] # 0)}
      BY <1>1, <1>3 DEF RowsReturned
    <3>2. \A k \in found : k \in StoredKeys /\ InTable(k) /\ (op.snap => snapshot[k] # 0)
      BY <1>1, <1>4, <1>6, ViewKeeps
    <3> QED
      BY <1>2, <1>9, <3>1, <3>2
  <2>3. ASSUME NEW k \in StoredKeys, InTable(k), WasThere(k), Passed(k)'
        PROVE  k \in got'
    <3>1. state' = "done" \/ (state' = "run" /\ start' # <<>> /\ ~KeyLess(start', k))
      BY <2>3 DEF Passed
    <3>2. CASE state' = "done"
      <4>1. Len(keys) = 0
        BY <1>2, <1>7, <3>2
      <4> QED
        BY <1>2, <1>7, <1>10, <2>3, <4>1
    <3>3. CASE state' = "run" /\ start' # <<>> /\ ~KeyLess(start', k)
      <4>1. n # 0 /\ start' = keys[n]
        BY <1>2, <3>3
      <4>2. n \in 1..Len(keys)
        BY <1>7, <1>8, <4>1
      <4>3. k \in found => \E i \in 1..n : keys[i] = k
        BY <1>7, <3>3, <4>1, <4>2
      <4> QED
        BY <1>2, <1>10, <2>3, <4>3
    <3> QED
      BY <3>1, <3>2, <3>3
  <2> QED
    BY <1>1, <2>1, <2>2, <2>3 DEF RowsReturned, WasThere
<1>14. SetsReturned' /\ RowsDeleted' /\ RowsDropped'
  BY <1>1 DEF SetsReturned, RowsDeleted, RowsDropped
<1> QED
  BY <1>11, <1>12, <1>13, <1>14 DEF ScanInv

\* A page of partition sets.  The end is reached when the page is empty or holds the key it
\* began with alone: max_len is at least 2, so such a page has all that there was.
LEMMA SetsKeepInv == ScanInv /\ ScanBusinessType => ScanInv'
<1> SUFFICES ASSUME ScanInv, ScanBusinessType PROVE ScanInv'
  OBVIOUS
<1> DEFINE b == op.table[1]
           from == EncodeMetaKey(<<b, start>>)
           found == Seek(View, from, AppendFixed8(<<>>, b))
           keys == Page(MaxLen, found)
           last == IF keys = <<>> THEN 0 ELSE Partition(keys[Len(keys)])
<1>1. /\ state = "run" /\ op.name = "sets"
      /\ op' = op /\ column' = column /\ snapshot' = snapshot /\ touched' = touched
  BY DEF ScanBusinessType
<1>2. /\ got' = got \cup {Partition(keys[k]) : k \in DOMAIN keys}
      /\ start' = IF last = start THEN 0 ELSE last
      /\ state' = IF start' = 0 THEN "done" ELSE "run"
  BY DEF ScanBusinessType
<1>3. ScanTypes /\ Untouched /\ SetsReturned
  BY DEF ScanInv
<1>4. /\ ScanKeys = MetaKeys /\ op.table \in TableIDs /\ start \in 0..UINT_MAX
      /\ MetaKeys \in SUBSET Seq(Nat) /\ IsFiniteSet(MetaKeys)
  BY <1>1, <1>3, StoredKeysFacts, MetaKeysFacts DEF ScanTypes, ScanKeys
<1>5. b \in Byte /\ <<b, start>> \in TableIDs /\ from \in Seq(Nat)
  <2>1. b \in Byte /\ <<b, start>> \in TableIDs
    BY <1>4 DEF TableIDs
  <2> QED
    BY <2>1, MetaKey
<1>6. DOMAIN View = MetaKeys
  BY <1>3, <1>4 DEF ScanTypes, View
<1>7. ASSUME NEW t \in Tables
      PROVE  /\ t \in TableIDs /\ t = <<t[1], t[2]>> /\ t[2] \in 0..UINT_MAX
             /\ EncodeMetaKey(t) \in MetaKeys /\ EncodeMetaKey(t) \in Seq(Nat) /\ Partition(EncodeMetaKey(t)) = t[2]
  <2>1. t \in TableIDs
    BY StoredKeysFacts
  <2>2. t = <<t[1], t[2]>> /\ t[2] \in 0..UINT_MAX
    BY <2>1 DEF TableIDs
  <2> QED
    BY <2>1, <2>2, MetaKey, PartitionOfKey DEF MetaKeys
<1>8. ASSUME NEW t \in Tables
      PROVE  EncodeMetaKey(t) \in found <=> /\ View[EncodeMetaKey(t)] # 0 /\ t[1] = b
                                            /\ ~KeyLess(EncodeMetaKey(t), from)
  BY <1>5, <1>6, <1>7, MetaPrefix DEF Seek
<1>9. ASSUME NEW x \in found
      PROVE  \E t \in Tables : x = EncodeMetaKey(t) /\ t[1] = b /\ View[x] # 0 /\ ~KeyLess(x, from)
  <2>1. x \in MetaKeys
    BY <1>6, <1>9 DEF Seek
  <2>2. PICK t \in Tables : x = EncodeMetaKey(t)
    BY <2>1, MetaKeysFacts
  <2> QED
    BY <1>8, <1>9, <2>2
<1>10. found \in SUBSET MetaKeys
  BY <1>7, <1>9
<1> HIDE DEF found
<1>11. /\ keys \in Seq(found) /\ Len(keys) \in Nat /\ DOMAIN keys = 1..Len(keys)
       /\ keys = <<>> <=> Len(keys) = 0
       /\ Len(keys) = 0 => found = {}
       /\ Len(keys) = 1 => found = {keys[1]}
       /\ \A i, j \in 1..Len(keys) : i < j => KeyLess(keys[i], keys[j])
       /\ \A k \in 1..Len(keys) : \A x \in found : ~KeyLess(keys[k], x) => \E i \in 1..k : keys[i] = x
  BY <1>4, <1>10, PageOf
<1> HIDE DEF keys
<1>12. \A k \in 1..Len(keys) : keys[k] \in found
  BY <1>11
<1>13. ASSUME Len(keys) # 0
       PROVE  /\ Len(keys) \in 1..Len(keys) /\ 1 \in 1..Len(keys) /\ last \in 0..UINT_MAX
              /\ keys[Len(keys)] = EncodeMetaKey(<<b, last>>)
  <2>1. Len(keys) \in 1..Len(keys) /\ 1 \in 1..Len(keys) /\ keys[Len(keys)] \in found
    BY <1>11, <1>12, <1>13
  <2>2. PICK t \in Tables : keys[Len(keys)] = EncodeMetaKey(t) /\ t[1] = b
    BY <1>9, <2>1
  <2>3. last = t[2]
    BY <1>7, <1>11, <1>13, <2>2
  <2> QED
    BY <1>7, <2>1, <2>2, <2>3
\* The last key is the one the call began with: it is the only one.
<1>14. ASSUME Len(keys) # 0, last = start
       PROVE  found = {keys[1]}
  <2>1. keys[Len(keys)] = from
    BY <1>13, <1>14
  <2>2. Len(keys) = 1
    <3> SUFFICES ASSUME Len(keys) # 1 PROVE FALSE
      OBVIOUS
    <3>1. 1 < Len(keys)
      BY <1>11, <1>14
    <3>2. KeyLess(keys[1], from)
      BY <1>11, <1>13, <1>14, <2>1, <3>1
    <3>3. keys[1] \in found
      BY <1>12, <1>13, <1>14
    <3> QED
      BY <1>9, <3>2, <3>3
  <2> QED
    BY <1>11, <2>2
\* The sets go up, so that the last one is 0 only if the call began with 0.
<1>15. ASSUME Len(keys) # 0, last = 0
       PROVE  last = start
  <2>1. keys[Len(keys)] = EncodeMetaKey(<<b, 0>>) /\ keys[Len(keys)] \in found
    BY <1>12, <1>13, <1>15
  <2>2. ~KeyLess(EncodeMetaKey(<<b, 0>>), from)
    BY <1>9, <2>1
  <2>3. ~KeyLess(from, EncodeMetaKey(<<b, 0>>))
    BY <1>4, <1>5, MetaLeast
  <2>4. <<b, 0>> \in TableIDs
    <3>1. 0 \in 0..UINT_MAX
      BY ByteFacts
    <3> HIDE DEF b
    <3> QED
      BY <1>5, <3>1 DEF TableIDs
  <2>5. from = EncodeMetaKey(<<b, 0>>)
    BY <1>5, <2>2, <2>3, <2>4, MetaKey, KeyLessTotal
  <2>6. <<b, start>> = <<b, 0>>
    BY <1>5, <2>4, <2>5, MetaKeyInjective
  <2> QED
    BY <1>15, <2>6
<1> HIDE DEF last, from
<1>16. start' \in 0..UINT_MAX
  BY <1>2, <1>11, <1>13, ByteFacts DEF last
<1>17. ScanTypes'
  BY <1>1, <1>3, <1>16 DEF ScanTypes, ScanKeys
<1>18. Untouched'
  BY <1>1, <1>3 DEF Untouched, ScanKeys
<1>19. ASSUME NEW p \in got'
       PROVE  \E t \in Tables : t[1] = b /\ t[2] = p /\ (op.snap => snapshot[EncodeMetaKey(t)] # 0)
  <2>1. CASE p \in got
    BY <1>1, <1>3, <2>1 DEF SetsReturned
  <2>2. CASE p \notin got
    <3>1. PICK k \in DOMAIN keys : p = Partition(keys[k])
      BY <1>2, <1>19, <2>2
    <3>2. keys[k] \in found
      BY <1>11, <1>12
    <3>3. PICK t \in Tables : keys[k] = EncodeMetaKey(t) /\ t[1] = b /\ View[keys[k]] # 0
      BY <1>9, <3>2
    <3>4. op.snap => snapshot[EncodeMetaKey(t)] # 0
      BY <1>1, <1>4, <1>7, <3>3, ViewKeeps
    <3> QED
      BY <1>7, <3>1, <3>3, <3>4
  <2> QED
    BY <2>1, <2>2
<1>20. ASSUME NEW t \in Tables, t[1] = b, WasThere(EncodeMetaKey(t)),
              state' = "done" \/ KeyLess(EncodeMetaKey(t), EncodeMetaKey(<<b, start'>>))
       PROVE  t[2] \in got'
  <2> DEFINE x == EncodeMetaKey(t)
  <2>1. x \in MetaKeys /\ x \in Seq(Nat) /\ Partition(x) = t[2] /\ View[x] # 0
    BY <1>1, <1>4, <1>7, <1>20, ViewKeeps
  <2>2. CASE KeyLess(x, from)
    BY <1>1, <1>2, <1>3, <1>20, <2>2 DEF SetsReturned, from
  <2>3. CASE ~KeyLess(x, from)
    <3>1. x \in found
      BY <1>8, <1>20, <2>1, <2>3
    <3>2. Len(keys) # 0
      BY <1>11, <3>1
    <3>3. \E i \in 1..Len(keys) : keys[i] = x
      <4>1. CASE last = start
        BY <1>13, <1>14, <3>1, <3>2, <4>1
      <4>2. CASE last # start
        <5>1. start' = last /\ start' # 0 /\ state' = "run"
          BY <1>2, <1>15, <3>2, <4>2
        <5>2. KeyLess(x, keys[Len(keys)])
          BY <1>13, <1>20, <3>2, <5>1
        <5>3. keys[Len(keys)] \in Seq(Nat)
          BY <1>4, <1>10, <1>12, <1>13, <3>2
        <5>4. ~KeyLess(keys[Len(keys)], x)
          BY <2>1, <5>2, <5>3, KeyLessIrreflexive, KeyLessTransitive
        <5> QED
          BY <1>11, <1>13, <3>1, <3>2, <5>4
      <4> QED
        BY <4>1, <4>2
    <3>4. PICK i \in 1..Len(keys) : keys[i] = x
      BY <3>3
    <3>5. i \in DOMAIN keys /\ Partition(keys[i]) = t[2]
      BY <1>11, <2>1, <3>4
    <3> QED
      BY <1>2, <3>5
  <2> QED
    BY <2>2, <2>3
<1>21. SetsReturned'
  BY <1>1, <1>19, <1>20 DEF SetsReturned, WasThere
<1>22. RowsReturned' /\ RowsDeleted' /\ RowsDropped'
  BY <1>1 DEF RowsReturned, RowsDeleted, RowsDropped
<1> QED
  BY <1>17, <1>18, <1>21, <1>22 DEF ScanInv

\* A page of deletes: it takes rows of the table alone, and leaves none before its end.
LEMMA DeleteKeepsInv == ScanInv /\ DeleteTableData => ScanInv'
<1> SUFFICES ASSUME ScanInv, DeleteTableData PROVE ScanInv'
  OBVIOUS
<1> DEFINE pre == EncodeMetaKey(op.table)
           from == IF start = <<>> THEN pre ELSE start
           found == Seek(column, from, pre)
           keys == Page(MaxLen, found)
<1>1. /\ state = "run" /\ op.name = "delete"
      /\ op' = op /\ snapshot' = snapshot /\ touched' = touched
  BY DEF DeleteTableData
<1>2. /\ column' = [k \in DOMAIN column |-> IF \E i \in DOMAIN keys : keys[i] = k THEN 0 ELSE column[k]]
      /\ start' = IF keys = <<>> THEN <<>> ELSE keys[Len(keys)]
      /\ state' = IF keys = <<>> THEN "done" ELSE "run"
  BY DEF DeleteTableData
<1>3. ScanTypes /\ RowsDeleted
  BY DEF ScanInv
<1>4. /\ ScanKeys = StoredKeys /\ op.table \in TableIDs /\ pre \in Seq(Nat)
      /\ StoredKeys \in SUBSET Seq(Nat) /\ IsFiniteSet(StoredKeys)
      /\ start = <<>> \/ (start \in StoredKeys /\ InTable(start))
      /\ column \in [StoredKeys -> RowSizes]
  BY <1>1, <1>3, StoredKeysFacts, MetaKey DEF ScanTypes, ScanKeys
<1>5. found = {k \in StoredKeys : column[k] # 0 /\ InTable(k) /\ ~KeyLess(k, from)}
  BY <1>4 DEF Seek, InTable
<1>6. /\ keys \in Seq(found) /\ Len(keys) \in Nat /\ DOMAIN keys = 1..Len(keys)
      /\ keys = <<>> <=> Len(keys) = 0
      /\ Len(keys) = 0 => found = {}
      /\ \A k \in 1..Len(keys) : \A x \in found : ~KeyLess(keys[k], x) => \E i \in 1..k : keys[i] = x
  <2>1. found \in SUBSET StoredKeys
    BY <1>5
  <2> HIDE DEF found
  <2> QED
    BY <1>4, <2>1, PageOf
<1> HIDE DEF found, keys
<1>7. \A k \in 1..Len(keys) : keys[k] \in found
  BY <1>6
<1>8. ASSUME NEW k \in StoredKeys
      PROVE  /\ column'[k] = IF \E i \in 1..Len(keys) : keys[i] = k THEN 0 ELSE column[k]
             /\ (\E i \in 1..Len(keys) : keys[i] = k) => InTable(k)
  <2>1. (\E i \in 1..Len(keys) : keys[i] = k) => InTable(k)
    BY <1>5, <1>7
  <2>2. column'[k] = IF \E i \in DOMAIN keys : keys[i] = k THEN 0 ELSE column[k]
    BY <1>2, <1>4
  <2> QED
    BY <1>6, <2>1, <2>2
<1>9. ASSUME NEW k \in StoredKeys \ touched, InTable(k)
      PROVE  column[k] = 0 \/ k \in found
  <2>1. CASE start = <<>>
    <3>1. ~KeyLess(k, from)
      BY <1>4, <1>9, <2>1, PrefixFirst DEF InTable
    <3> QED
      BY <1>5, <1>9, <3>1
  <2>2. CASE start # <<>> /\ ~KeyLess(start, k)
    BY <1>1, <1>3, <1>9, <2>2 DEF RowsDeleted, Passed
  <2>3. CASE start # <<>> /\ KeyLess(start, k)
    <3>1. k \in Seq(Nat) /\ start \in Seq(Nat)
      BY <1>4, <2>3
    <3>2. ~KeyLess(k, start)
      BY <2>3, <3>1, KeyLessIrreflexive, KeyLessTransitive
    <3> QED
      BY <1>5, <1>9, <2>3, <3>2
  <2> QED
    BY <2>1, <2>2, <2>3
<1>10. ScanTypes'
  <2>1. start' = <<>> \/ (start' \in StoredKeys /\ InTable(start'))
    <3>1. ASSUME keys # <<>> PROVE keys[Len(keys)] \in found
      <4>1. Len(keys) \in 1..Len(keys)
        BY <1>6, <3>1
      <4> QED
        BY <1>7, <4>1
    <3> QED
      BY <1>2, <1>5, <3>1
  <2>2. column' \in [StoredKeys -> RowSizes]
    BY <1>2, <1>4 DEF RowSizes
  <2> QED
    BY <1>1, <1>3, <1>4, <2>1, <2>2 DEF ScanTypes, ScanKeys, InTable
<1>11. RowsDeleted'
  <2>1. \A k \in StoredKeys : InTable(k)' <=> InTable(k)
    BY <1>1 DEF InTable
  <2>2. ASSUME NEW k \in StoredKeys \ touched, ~InTable(k)
        PROVE  column'[k] = snapshot[k]
    BY <1>1, <1>3, <1>8, <2>2 DEF RowsDeleted
  <2>3. ASSUME NEW k \in StoredKeys \ touched, InTable(k), Passed(k)'
        PROVE  column'[k] = 0
    <3>1. CASE keys = <<>>
      BY <1>6, <1>8, <1>9, <2>3, <3>1
    <3>2. CASE keys # <<>>
      <4>1. start' = keys[Len(keys)] /\ Len(keys) \in 1..Len(keys) /\ state' = "run"
        BY <1>2, <1>6, <3>2
      <4>2. ~KeyLess(keys[Len(keys)], k)
        BY <2>3, <4>1 DEF Passed
      <4>3. k \in found => \E i \in 1..Len(keys) : keys[i] = k
        BY <1>6, <4>1, <4>2
      <4> QED
        BY <1>8, <1>9, <2>3, <4>3
    <3> QED
      BY <3>1, <3>2
  <2> QED
    BY <1>1, <2>1, <2>2, <2>3 DEF RowsDeleted
<1>12. Untouched' /\ RowsReturned' /\ SetsReturned' /\ RowsDropped'
  BY <1>1 DEF Untouched, RowsReturned, SetsReturned, RowsDropped
<1> QED
  BY <1>10, <1>11, <1>12 DEF ScanInv

\* A delete that RocksDB refuses changes no row.
LEMMA DeleteFailsKeepsInv == ScanInv /\ DeleteFails => ScanInv'
<1> SUFFICES ASSUME ScanInv, DeleteFails PROVE ScanInv'
  OBVIOUS
<1>1. /\ op.name = "delete" /\ op' = op /\ column' = column /\ snapshot' = snapshot
      /\ touched' = touched /\ start' = start /\ state' = "RocksDBError"
  BY DEF DeleteFails
<1>2. ScanTypes /\ RowsDeleted
  BY DEF ScanInv
<1>3. ScanTypes'
  BY <1>1, <1>2 DEF ScanTypes, ScanKeys, InTable
<1>4. RowsDeleted'
  BY <1>1, <1>2 DEF RowsDeleted, Passed, InTable
<1>5. Untouched' /\ RowsReturned' /\ SetsReturned' /\ RowsDropped'
  BY <1>1 DEF Untouched, RowsReturned, SetsReturned, RowsDropped
<1> QED
  BY <1>3, <1>4, <1>5 DEF ScanInv

\* DropTable removes the rows of its range and no others.
LEMMA DropKeepsInv == ScanInv /\ DropTable => ScanInv'
<1> SUFFICES ASSUME ScanInv, DropTable PROVE ScanInv'
  OBVIOUS
<1>1. /\ state = "run" /\ op.name = "drop" /\ op' = op /\ snapshot' = snapshot
      /\ touched' = touched /\ start' = start /\ state' = "done"
      /\ column' = [k \in DOMAIN column |-> IF DropRange(k) THEN 0 ELSE column[k]]
  BY DEF DropTable
<1>2. ScanTypes /\ RowsDropped
  BY DEF ScanInv
<1>3. op.table \in TableIDs /\ ScanKeys = StoredKeys /\ column \in [StoredKeys -> RowSizes]
  BY <1>1, <1>2, StoredKeysFacts DEF ScanTypes, ScanKeys
<1>4. ASSUME NEW k \in StoredKeys
      PROVE  DropRange(k) <=> InTable(k) /\ k # EncodeStoredFieldKey(op.table, UINT_MAX)
  <2>1. PICK u \in TableIDs, i \in 0..UINT_MAX : k = EncodeStoredFieldKey(u, i)
    BY StoredKeysFacts
  <2>2. DropRange(k) <=> u = op.table /\ i # UINT_MAX
    BY <1>3, <2>1, DropRangeExact
  <2>3. InTable(k) <=> u = op.table
    BY <1>3, <2>1, StoredPrefix DEF InTable
  <2>4. UINT_MAX \in 0..UINT_MAX
    BY ByteFacts
  <2>5. u = op.table => (k = EncodeStoredFieldKey(op.table, UINT_MAX) <=> i = UINT_MAX)
    BY <1>3, <2>1, <2>4, StoredKeyInjective
  <2> QED
    BY <2>2, <2>3, <2>5
<1>5. ScanTypes'
  <2>1. column' \in [StoredKeys -> RowSizes]
    BY <1>1, <1>3 DEF RowSizes
  <2> QED
    BY <1>1, <1>2, <1>3, <2>1 DEF ScanTypes, ScanKeys, InTable
<1>6. RowsDropped'
  <2>1. \A k \in StoredKeys : InTable(k)' <=> InTable(k)
    BY <1>1 DEF InTable
  <2>2. ASSUME NEW k \in StoredKeys \ touched
        PROVE  column'[k] = IF InTable(k) /\ k # EncodeStoredFieldKey(op.table, UINT_MAX) THEN 0 ELSE snapshot[k]
    <3>1. column[k] = snapshot[k]
      BY <1>1, <1>2 DEF RowsDropped
    <3>2. column'[k] = IF DropRange(k) THEN 0 ELSE column[k]
      BY <1>1, <1>3
    <3> QED
      BY <1>4, <3>1, <3>2
  <2> QED
    BY <1>1, <2>1, <2>2 DEF RowsDropped
<1>7. Untouched' /\ RowsReturned' /\ SetsReturned' /\ RowsDeleted'
  BY <1>1 DEF Untouched, RowsReturned, SetsReturned, RowsDeleted
<1> QED
  BY <1>5, <1>6, <1>7 DEF ScanInv

\* What others write between the calls counts as touched.
LEMMA ChangeKeepsInv == ScanInv /\ Change => ScanInv'
<1> SUFFICES ASSUME ScanInv, Change PROVE ScanInv'
  OBVIOUS
<1>1. /\ state = "run" /\ op' = op /\ snapshot' = snapshot /\ start' = start /\ got' = got /\ state' = state
  BY DEF Change
<1>2. PICK c \in DOMAIN column, size \in {0, 1} :
        column' = [column EXCEPT ![c] = size] /\ touched' = touched \cup {c}
  BY DEF Change
<1>3. ScanTypes /\ Untouched /\ RowsReturned /\ SetsReturned /\ RowsDeleted /\ RowsDropped
  BY DEF ScanInv
<1>4. column \in [ScanKeys -> RowSizes] /\ ScanKeys' = ScanKeys /\ column' \in [ScanKeys -> RowSizes]
  BY <1>1, <1>2, <1>3 DEF ScanTypes, ScanKeys, RowSizes
<1>5. \A k \in ScanKeys \ touched' : k \notin touched /\ column'[k] = column[k]
  BY <1>2, <1>4
<1>6. \A k : (InTable(k)' <=> InTable(k)) /\ (Passed(k)' <=> Passed(k)) /\ (WasThere(k)' => WasThere(k))
  BY <1>1, <1>2 DEF InTable, Passed, WasThere
<1>7. ScanTypes'
  BY <1>1, <1>3, <1>4 DEF ScanTypes, InTable
<1>8. Untouched'
  BY <1>1, <1>3, <1>4, <1>5 DEF Untouched
<1>9. RowsReturned'
  BY <1>1, <1>3, <1>6 DEF RowsReturned
<1>10. SetsReturned'
  BY <1>1, <1>3, <1>6 DEF SetsReturned
<1>11. op.name # "sets" => \A k \in StoredKeys \ touched' : k \notin touched /\ column'[k] = column[k]
  BY <1>5 DEF ScanKeys
<1>12. RowsDeleted'
  BY <1>1, <1>3, <1>6, <1>11 DEF RowsDeleted
<1>13. RowsDropped'
  BY <1>1, <1>3, <1>6, <1>11 DEF RowsDropped
<1> QED
  BY <1>7, <1>8, <1>9, <1>10, <1>12, <1>13 DEF ScanInv

-----------------------------------------------------------------------------
\* The invariant of the operations on a table: what a page has passed is returned or deleted,
\* and nothing of another table is, whatever others write between the calls.
THEOREM ScanInvariant == ScanSpec => []ScanInv
<1>1. ScanInv /\ [ScanNext]_scanVars => ScanInv'
  <2> SUFFICES ASSUME ScanInv, [ScanNext]_scanVars PROVE ScanInv'
    OBVIOUS
  <2>1. CASE ScanTableData
    BY <2>1, ScanKeepsInv
  <2>2. CASE ScanBusinessType
    BY <2>2, SetsKeepInv
  <2>3. CASE DeleteTableData
    BY <2>3, DeleteKeepsInv
  <2>4. CASE DeleteFails
    BY <2>4, DeleteFailsKeepsInv
  <2>5. CASE DropTable
    BY <2>5, DropKeepsInv
  <2>6. CASE Change
    BY <2>6, ChangeKeepsInv
  <2>7. CASE UNCHANGED scanVars
    BY <2>7 DEF scanVars, ScanInv, ScanTypes, ScanKeys, InTable, Untouched, RowsReturned, SetsReturned,
                RowsDeleted, RowsDropped, WasThere, Passed
  <2> QED
    BY <2>1, <2>2, <2>3, <2>4, <2>5, <2>6, <2>7 DEF ScanNext, ScanStep
<1> QED
  BY <1>1, ScanInitInv, PTL DEF ScanSpec

\* ScanTableData and ScanBusinessType, called until the key to go on from is empty, return
\* every row of the table and every partition set of the business type that was there all the
\* time, and no other, for any number of keys, page length and bytes of the integers.
THEOREM ScansComplete == ScanSpec => []ScanComplete
<1>1. ScanInv => ScanComplete
  <2> SUFFICES ASSUME ScanInv, state = "done" PROVE ScanComplete
    BY DEF ScanComplete
  <2>1. ScanTypes /\ RowsReturned /\ SetsReturned
    BY DEF ScanInv
  <2>2. ASSUME op.name = "scan"
        PROVE  LET rows == {k \in StoredKeys : InTable(k)}
                   kept == {k \in rows : snapshot[k] # 0}
               IN IF op.snap THEN got = kept ELSE kept \ touched \subseteq got /\ got \subseteq rows
    BY <2>1, <2>2 DEF RowsReturned, WasThere, Passed
  <2>3. ASSUME op.name = "sets"
        PROVE  LET keys == {EncodeMetaKey(t) : t \in {t \in Tables : t[1] = op.table[1]}}
                   sets(ks) == {t[2] : t \in {t \in Tables : EncodeMetaKey(t) \in ks}}
                   kept == {k \in keys : snapshot[k] # 0}
               IN IF op.snap THEN got = sets(kept) ELSE sets(kept \ touched) \subseteq got /\ got \subseteq sets(keys)
    <3> DEFINE keys == {EncodeMetaKey(t) : t \in {t \in Tables : t[1] = op.table[1]}}
               sets(ks) == {t[2] : t \in {t \in Tables : EncodeMetaKey(t) \in ks}}
               kept == {k \in keys : snapshot[k] # 0}
    <3>1. ASSUME NEW t \in Tables PROVE EncodeMetaKey(t) \in keys <=> t[1] = op.table[1]
      <4>1. ASSUME NEW u \in Tables, EncodeMetaKey(u) = EncodeMetaKey(t) PROVE u = t
        BY <4>1, StoredKeysFacts, MetaKeyInjective
      <4> QED
        BY <4>1
    <3>2. ASSUME NEW p \in got
          PROVE  \E t \in Tables : t[1] = op.table[1] /\ t[2] = p /\ (op.snap => snapshot[EncodeMetaKey(t)] # 0)
      BY <2>1, <2>3 DEF SetsReturned
    <3>3. ASSUME NEW t \in Tables, t[1] = op.table[1], snapshot[EncodeMetaKey(t)] # 0,
                 op.snap \/ EncodeMetaKey(t) \notin touched
          PROVE  t[2] \in got
      BY <2>1, <2>3, <3>3 DEF SetsReturned, WasThere
    <3> HIDE DEF keys
    <3> QED
      BY <3>1, <3>2, <3>3 DEF keys
  <2> QED
    BY <2>2, <2>3 DEF ScanComplete
<1> QED
  BY <1>1, ScanInvariant, PTL

\* DeleteTableData, called until the key to go on from is empty, and DropTable leave every
\* other table as it is; the one deletes every row of its table, the other every row but that
\* of the greatest document id.
THEOREM DeletesExact == ScanSpec => []DeleteExact
<1>1. ScanInv => DeleteExact
  <2> SUFFICES ASSUME ScanInv, NEW k \in StoredKeys \ touched
               PROVE  /\ op.name = "delete" => /\ ~InTable(k) => column[k] = snapshot[k]
                                               /\ state = "done" /\ InTable(k) => column[k] = 0
                      /\ op.name = "drop" =>
                           /\ ~InTable(k) => column[k] = snapshot[k]
                           /\ state = "done" /\ InTable(k) =>
                                column[k] = IF k = EncodeStoredFieldKey(op.table, UINT_MAX) THEN snapshot[k] ELSE 0
    BY DEF DeleteExact
  <2>1. RowsDeleted /\ RowsDropped
    BY DEF ScanInv
  <2> QED
    BY <2>1 DEF RowsDeleted, RowsDropped, Passed
<1> QED
  BY <1>1, ScanInvariant, PTL
=============================================================================
