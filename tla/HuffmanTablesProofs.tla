------------------------ MODULE HuffmanTablesProofs ------------------------
(***************************************************************************)
(* The decoder reads back what the coder wrote, whatever the table: codes  *)
(* are read to their last bit and no further, bit by bit or eight at once. *)
(***************************************************************************)
EXTENDS HuffmanTables, FiniteSetTheorems, TLAPS

-----------------------------------------------------------------------------
\* Numbers in their order: a set of numbers that is not empty has a least one,
\* and one that holds 0 and the successors of its members holds all.
Less == {ss \in Nat \X Nat : ss[1] < ss[2]}

\* There is no infinite descent in the numbers.
LEMMA LessWellFounded == IsWellFoundedOn(Less, Nat)
BY NatLessThanWellFounded, Zenon DEF OpToRel, Less

\* The least-number principle.
LEMMA LeastNat ==
  ASSUME NEW T, T \subseteq Nat, T # {}
  PROVE  \E n \in T : \A m \in T : n <= m
<1>1. PICK n \in T : \A m \in T : ~(<<m, n>> \in Less)
  BY LessWellFounded, WFMin
<1>2. \A m \in T : ~(m < n)
  BY <1>1 DEF Less
<1> QED
  BY <1>2

\* Induction.
LEMMA NatInduct ==
  ASSUME NEW T, 0 \in T, \A n \in T : n \in Nat => n + 1 \in T
  PROVE  Nat \subseteq T
<1> SUFFICES ASSUME Nat \ T # {} PROVE FALSE
  OBVIOUS
<1>1. PICK n \in Nat \ T : \A m \in Nat \ T : n <= m
  BY LeastNat
<1>2. n # 0 /\ n - 1 \in Nat /\ (n - 1) + 1 = n
  BY <1>1
<1>3. n - 1 \in T
  BY <1>1, <1>2
<1> QED
  BY <1>1, <1>2, <1>3

\* Powers of two: exponents of any size are not within arithmetic, subsets are.
LEMMA Powers ==
  ASSUME NEW n \in Nat
  PROVE  2^n \in Nat /\ 2^n > 0 /\ 2^(n + 1) = 2 * 2^n
<1> DEFINE Small == SUBSET (1..n)
           Large == {T \cup {n + 1} : T \in Small}
           add == [T \in Small |-> T \cup {n + 1}]
<1>1. n + 1 \in Nat /\ n \in Int /\ 1 \in Int /\ n + 1 \in Int
  OBVIOUS
<1>2. /\ IsFiniteSet(1..n) /\ Cardinality(1..n) = n
      /\ IsFiniteSet(1..(n + 1)) /\ Cardinality(1..(n + 1)) = n + 1
  BY <1>1, FS_Interval
<1>3. /\ IsFiniteSet(Small) /\ Cardinality(Small) = 2^n
      /\ Cardinality(SUBSET (1..(n + 1))) = 2^(n + 1)
  BY <1>2, FS_SUBSET
<1>4. IsFiniteSet(Large) /\ Cardinality(Large) = Cardinality(Small)
  <2>1. add \in Bijection(Small, Large)
    <3>1. add \in [Small -> Large]
      OBVIOUS
    <3>2. ASSUME NEW T \in Small, NEW U \in Small, add[T] = add[U]
          PROVE  T = U
      <4>1. n + 1 \notin T /\ n + 1 \notin U
        BY <1>1
      <4> QED BY <3>2, <4>1
    <3>3. \A V \in Large : \E T \in Small : add[T] = V
      OBVIOUS
    <3> QED BY <3>1, <3>2, <3>3 DEF Bijection, Injection, Surjection, IsInjective
  <2> QED BY <1>3, <2>1, FS_Bijection DEF ExistsBijection
<1>5. SUBSET (1..(n + 1)) = Small \cup Large
  <2>1. 1..(n + 1) = (1..n) \cup {n + 1}
    BY <1>1
  <2>2. ASSUME NEW V \in SUBSET (1..(n + 1)) PROVE V \in Small \cup Large
    <3>1. V \ {n + 1} \in Small
      BY <2>1
    <3>2. CASE n + 1 \in V
      <4>1. V = (V \ {n + 1}) \cup {n + 1}
        BY <3>2
      <4> QED BY <3>1, <4>1
    <3>3. CASE n + 1 \notin V
      BY <3>1, <3>3
    <3> QED BY <3>2, <3>3
  <2>3. \A V \in Small \cup Large : V \in SUBSET (1..(n + 1))
    BY <2>1
  <2> QED BY <2>2, <2>3
<1>6. Small \cap Large = {}
  BY <1>1
<1> HIDE DEF Small, Large
<1>7. 2^n \in Nat
  BY <1>3, FS_CardinalityType
<1>8. 2^(n + 1) = 2 * 2^n
  <2>1. Cardinality(Small \cup Large) = Cardinality(Small) + Cardinality(Large) - Cardinality({})
    BY <1>3, <1>4, <1>6, FS_Union
  <2>2. Cardinality({}) = 0
    BY FS_EmptySet
  <2>3. Cardinality(SUBSET (1..(n + 1))) = Cardinality(Small) + Cardinality(Small) - 0
    BY <1>4, <1>5, <2>1, <2>2, Zenon
  <2>4. 2^(n + 1) = 2^n + 2^n - 0
    BY <1>3, <2>3, Zenon
  <2> QED BY <1>7, <2>4
<1>9. 2^n # 0
  <2>1. Small # {}
    BY DEF Small
  <2> QED BY <1>3, <2>1, FS_EmptySet
<1> QED BY <1>7, <1>8, <1>9

\* Dividing twice.
LEMMA Halves ==
  ASSUME NEW x \in Nat, NEW m \in Nat, m > 0
  PROVE  x \div (2 * m) = (x \div m) \div 2
<1> DEFINE q == x \div m
           h == q \div 2
<1>1. q \in Nat /\ h \in Nat
  OBVIOUS
<1>2. m * q <= x /\ x < m * q + m
  OBVIOUS
<1>3. q = 2 * h \/ q = 2 * h + 1
  BY <1>1
<1> QED BY <1>1, <1>2, <1>3

\* Shifting by one bit more.
LEMMA Quotients ==
  ASSUME NEW x \in Nat, NEW n \in Nat
  PROVE  x \div 2^n \in Nat /\ x \div 2^(n + 1) = (x \div 2^n) \div 2
<1>1. 2^n \in Nat /\ 2^n > 0 /\ 2^(n + 1) = 2 * 2^n
  BY Powers
<1> DEFINE m == 2^n
<1>2. x \div (2 * m) = (x \div m) \div 2
  BY <1>1, Halves
<1>3. x \div m \in Nat
  BY <1>1
<1> QED BY <1>1, <1>2, <1>3

\* Shifting out the bit that came last.
LEMMA LastBitOut ==
  ASSUME NEW x \in Nat, NEW b \in {0, 1}
  PROVE  (2 * x + b) \div 2 = x
OBVIOUS

\* Shifting in two steps.
LEMMA QuotientsCompose ==
  ASSUME NEW x \in Nat, NEW m \in Nat, NEW n \in Nat
  PROVE  (x \div 2^m) \div 2^n = x \div 2^(m + n)
<1> DEFINE y == x \div 2^m
           T == {i \in Nat : y \div 2^i = x \div 2^(m + i)}
<1>1. y \in Nat
  BY Quotients
<1>2. 0 \in T
  <2> HIDE DEF y
  <2>1. 2^0 = 1 /\ y \div 1 = y /\ m + 0 = m
    BY <1>1
  <2> QED BY <2>1 DEF y
<1>3. ASSUME NEW i \in T, i \in Nat PROVE i + 1 \in T
  <2>1. m + i \in Nat /\ (m + i) + 1 = m + (i + 1)
    BY <1>3
  <2> DEFINE k == m + i
  <2>2. x \div 2^(k + 1) = (x \div 2^k) \div 2
    <3> HIDE DEF k
    <3>1. k \in Nat
      BY <2>1 DEF k
    <3> QED BY <3>1, Quotients
  <2> HIDE DEF y
  <2>3. y \div 2^(i + 1) = (y \div 2^i) \div 2
    BY <1>1, <1>3, Quotients
  <2>4. y \div 2^i = x \div 2^k
    BY <1>3
  <2>5. y \div 2^(i + 1) = x \div 2^(k + 1)
    BY <2>2, <2>3, <2>4
  <2>6. y \div 2^(i + 1) = x \div 2^(m + (i + 1))
    BY <2>1, <2>5
  <2> QED BY <1>3, <2>6
<1> HIDE DEF T
<1>4. n \in T
  BY <1>2, <1>3, NatInduct
<1> QED BY <1>4 DEF T

-----------------------------------------------------------------------------
(***************************************************************************)
(* What the two recursive functions of the module are.                     *)
(***************************************************************************)

IsReading(read, bits, n) ==
  read = [i \in 0..n |-> IF i = 0 THEN 0 ELSE 2 * read[i - 1] + bits[i]]

IsCoding(codes, htbl, n) ==
  codes = [l \in 1..n |->
             IF l = 1 THEN [first |-> 0, before |-> 0, number |-> htbl.bits[1]]
             ELSE [first |-> 2 * (codes[l - 1].first + codes[l - 1].number),
                   before |-> codes[l - 1].before + codes[l - 1].number,
                   number |-> htbl.bits[l]]]

\* Bits can be read, however many there are.
LEMMA ReadingExists == \A bits : \A n \in Nat : \E read : IsReading(read, bits, n)
<1> SUFFICES ASSUME NEW bits PROVE \A n \in Nat : \E read : IsReading(read, bits, n)
  OBVIOUS
<1> DEFINE T == {n \in Nat : \E read : IsReading(read, bits, n)}
<1>1. 0 \in T
  <2>1. IsReading([i \in 0..0 |-> 0], bits, 0)
    BY DEF IsReading
  <2> QED BY <2>1
<1>2. ASSUME NEW n \in T, n \in Nat PROVE n + 1 \in T
  <2>1. PICK read : IsReading(read, bits, n)
    BY <1>2
  <2> DEFINE next == [i \in 0..(n + 1) |-> IF i = n + 1 THEN 2 * read[n] + bits[n + 1] ELSE read[i]]
  <2>2. n + 1 \in Nat /\ n + 1 # 0
    BY <1>2
  <2>3. ASSUME NEW i \in 0..(n + 1)
        PROVE  next[i] = IF i = 0 THEN 0 ELSE 2 * next[i - 1] + bits[i]
    <3>1. CASE i = n + 1
      <4>1. n \in 0..(n + 1) /\ n # n + 1 /\ i - 1 = n
        BY <1>2, <3>1
      <4> QED BY <2>2, <3>1, <4>1
    <3>2. CASE i # n + 1
      <4>1. i \in 0..n /\ (i # 0 => i - 1 \in 0..(n + 1) /\ i - 1 # n + 1)
        BY <1>2, <3>2
      <4>2. read[i] = IF i = 0 THEN 0 ELSE 2 * read[i - 1] + bits[i]
        BY <2>1, <4>1, Zenon DEF IsReading
      <4> QED BY <3>2, <4>1, <4>2
    <3> QED BY <3>1, <3>2
  <2>4. IsReading(next, bits, n + 1)
    BY <2>3, Zenon DEF IsReading
  <2> QED BY <2>2, <2>4
<1> HIDE DEF T
<1>3. Nat \subseteq T
  BY <1>1, <1>2, NatInduct
<1> QED BY <1>3 DEF T

\* The first bits of a number are the number without its last ones.
LEMMA PrefixValue ==
  ASSUME NEW x \in Nat, NEW l \in Nat, x < 2^l, NEW k \in 0..l,
         NEW bits, Len(bits) = k, \A i \in 1..k : bits[i] = (x \div 2^(l - i)) % 2
  PROVE  Value(bits) = x \div 2^(l - k)
<1> DEFINE read == CHOOSE r : IsReading(r, bits, k)
<1>1. k \in Nat
  OBVIOUS
<1>2. Value(bits) = read[k]
  BY Zenon DEF Value, IsReading
<1>3. IsReading(read, bits, k)
  BY <1>1, ReadingExists
<1> HIDE DEF read
<1> DEFINE T == {n \in Nat : n <= k => read[n] = x \div 2^(l - n)}
<1>4. 0 \in T
  <2>1. read[0] = 0
    BY <1>1, <1>3 DEF IsReading
  <2>2. 2^l \in Nat /\ l - 0 = l
    BY Powers
  <2>3. x \div 2^l = 0
    BY <2>2
  <2> QED BY <2>1, <2>2, <2>3
<1>5. ASSUME NEW n \in T, n \in Nat PROVE n + 1 \in T
  <2>1. CASE n + 1 <= k
    <3> DEFINE m == l - (n + 1)
               y == x \div 2^m
    <3>1. n + 1 \in 1..k /\ (n + 1) - 1 = n /\ n + 1 # 0 /\ n + 1 \in 0..k
      BY <1>1, <1>5, <2>1
    <3>3. m \in Nat /\ m + 1 = l - n
      BY <1>1, <1>5, <2>1
    <3>2. read[n + 1] = 2 * read[n] + bits[n + 1]
      BY <1>3, <3>1 DEF IsReading
    <3>5. bits[n + 1] = y % 2
      BY <3>1
    <3>7. read[n] = x \div 2^(m + 1)
      BY <1>5, <2>1, <3>3
    <3> HIDE DEF m
    <3>4. y \in Nat /\ read[n] = y \div 2
      BY <3>3, <3>7, Quotients
    <3> HIDE DEF y
    <3>6. read[n + 1] = y
      BY <3>2, <3>4, <3>5
    <3> QED BY <3>6 DEF y, m
  <2> QED BY <1>5, <2>1
<1> HIDE DEF T
<1>6. k \in T
  BY <1>1, <1>4, <1>5, NatInduct
<1> QED BY <1>1, <1>2, <1>6 DEF T

\* The codes can be made, for any number of lengths.
LEMMA CodingExists == \A htbl : \A n \in Nat : \E codes : IsCoding(codes, htbl, n)
<1> SUFFICES ASSUME NEW htbl PROVE \A n \in Nat : \E codes : IsCoding(codes, htbl, n)
  OBVIOUS
<1> DEFINE T == {n \in Nat : \E codes : IsCoding(codes, htbl, n)}
           Shortest == [first |-> 0, before |-> 0, number |-> htbl.bits[1]]
           Next(shorter, l) == [first |-> 2 * (shorter.first + shorter.number),
                                before |-> shorter.before + shorter.number,
                                number |-> htbl.bits[l]]
<1>1. 0 \in T
  <2>1. IsCoding([l \in 1..0 |-> 0], htbl, 0)
    BY DEF IsCoding
  <2> QED BY <2>1
<1>2. ASSUME NEW n \in T, n \in Nat PROVE n + 1 \in T
  <2>1. PICK codes : IsCoding(codes, htbl, n)
    BY <1>2
  <2> DEFINE more == [l \in 1..(n + 1) |->
                        IF l = n + 1 THEN IF l = 1 THEN Shortest ELSE Next(codes[n], l) ELSE codes[l]]
  <2>2. n + 1 \in Nat
    BY <1>2
  <2>3. ASSUME NEW l \in 1..(n + 1)
        PROVE  more[l] = IF l = 1 THEN Shortest ELSE Next(more[l - 1], l)
    <3>1. CASE l = n + 1
      <4>1. l # 1 => n \in 1..(n + 1) /\ n # n + 1 /\ l - 1 = n
        BY <1>2, <3>1
      <4>2. l # 1 => more[l - 1] = codes[n]
        BY <4>1
      <4>3. more[l] = IF l = 1 THEN Shortest ELSE Next(codes[n], l)
        BY <3>1
      <4> QED BY <4>2, <4>3
    <3>2. CASE l # n + 1
      <4>1. l \in 1..n /\ (l # 1 => l - 1 \in 1..(n + 1) /\ l - 1 # n + 1)
        BY <1>2, <3>2
      <4>2. codes[l] = IF l = 1 THEN Shortest ELSE Next(codes[l - 1], l)
        BY <2>1, <4>1, Zenon DEF IsCoding
      <4> QED BY <3>2, <4>1, <4>2
    <3> QED BY <3>1, <3>2
  <2>4. IsCoding(more, htbl, n + 1)
    BY <2>3, Zenon DEF IsCoding
  <2> QED BY <2>2, <2>4
<1> HIDE DEF T
<1>3. Nat \subseteq T
  BY <1>1, <1>2, NatInduct
<1> QED BY <1>3 DEF T

\* Every length begins at twice where the one before it ended.
LEMMA CodesFacts ==
  ASSUME NEW htbl, htbl.bits \in [1..16 -> 0..255]
  PROVE  LET codes == CodesByLength(htbl)
         IN /\ codes[1].first = 0 /\ codes[1].before = 0
            /\ \A l \in 1..16 : codes[l].first \in Nat /\ codes[l].before \in Nat /\ codes[l].number \in Nat
            /\ \A l \in 1..15 : /\ codes[l + 1].first = 2 * (codes[l].first + codes[l].number)
                                /\ codes[l + 1].before = codes[l].before + codes[l].number
<1> DEFINE codes == CodesByLength(htbl)
<1>1. codes = CHOOSE c : IsCoding(c, htbl, 16)
  BY Zenon DEF CodesByLength, IsCoding
<1>2. IsCoding(codes, htbl, 16)
  <2>1. 16 \in Nat
    OBVIOUS
  <2> QED BY <1>1, <2>1, CodingExists, Zenon
<1> HIDE DEF codes
<1>3. codes[1] = [first |-> 0, before |-> 0, number |-> htbl.bits[1]]
  BY <1>2 DEF IsCoding
<1>4. ASSUME NEW l \in 1..15
      PROVE  codes[l + 1] = [first |-> 2 * (codes[l].first + codes[l].number),
                             before |-> codes[l].before + codes[l].number,
                             number |-> htbl.bits[l + 1]]
  <2>1. l + 1 \in 1..16 /\ l + 1 # 1 /\ (l + 1) - 1 = l
    OBVIOUS
  <2> QED BY <1>2, <2>1 DEF IsCoding
<1>11. \A l \in 1..16 : htbl.bits[l] \in Nat
  <2>1. \A l \in 1..16 : htbl.bits[l] \in 0..255
    BY Zenon
  <2>2. 0..255 \subseteq Nat
    OBVIOUS
  <2> QED BY <2>1, <2>2, Zenon
<1> DEFINE Ok(l) == codes[l].first \in Nat /\ codes[l].before \in Nat /\ codes[l].number \in Nat
           T == {n \in Nat : n + 1 <= 16 => Ok(n + 1)}
<1>5. 0 \in T
  BY <1>3, <1>11
<1>6. ASSUME NEW n \in T, n \in Nat PROVE n + 1 \in T
  <2>1. CASE (n + 1) + 1 <= 16
    <3>1. n + 1 \in 1..15 /\ (n + 1) + 1 \in 1..16 /\ n + 1 <= 16
      BY <1>6, <2>1
    <3>2. Ok(n + 1)
      BY <1>6, <3>1
    <3>4. codes[(n + 1) + 1] = [first |-> 2 * (codes[n + 1].first + codes[n + 1].number),
                                before |-> codes[n + 1].before + codes[n + 1].number,
                                number |-> htbl.bits[(n + 1) + 1]]
      BY <1>4, <3>1
    <3>5. htbl.bits[(n + 1) + 1] \in Nat
      BY <1>11, <3>1
    <3>3. Ok((n + 1) + 1)
      BY <3>2, <3>4, <3>5
    <3> QED BY <1>6, <3>3
  <2> QED BY <1>6, <2>1
<1> HIDE DEF T
<1>7. Nat \subseteq T
  BY <1>5, <1>6, NatInduct
<1>8. ASSUME NEW l \in 1..16 PROVE Ok(l)
  <2>1. l - 1 \in Nat /\ (l - 1) + 1 = l /\ l <= 16
    OBVIOUS
  <2>2. l - 1 \in T
    BY <1>7, <2>1
  <2> QED BY <2>1, <2>2 DEF T
<1>9. \A l \in 1..15 : /\ codes[l + 1].first = 2 * (codes[l].first + codes[l].number)
                       /\ codes[l + 1].before = codes[l].before + codes[l].number
  BY <1>4
<1>10. codes[1].first = 0 /\ codes[1].before = 0
  BY <1>3
<1> QED BY <1>8, <1>9, <1>10 DEF codes

-----------------------------------------------------------------------------
(***************************************************************************)
(* What the first bits of a code are not.                                  *)
(***************************************************************************)

\* Going from a code of length l to fewer bits, what is left lies above all
\* codes of that length.
LEMMA ShorterIsNoCode ==
  ASSUME NEW htbl, htbl.bits \in [1..16 -> 0..255],
         NEW l \in 1..16, NEW x \in Nat, x >= CodesByLength(htbl)[l].first,
         NEW k \in 1..(l - 1)
  PROVE  LET shorter == CodesByLength(htbl)[k]
         IN x \div 2^(l - k) >= shorter.first + shorter.number
<1> DEFINE codes == CodesByLength(htbl)
<1>1. /\ \A i \in 1..16 : codes[i].first \in Nat /\ codes[i].before \in Nat /\ codes[i].number \in Nat
      /\ \A i \in 1..15 : /\ codes[i + 1].first = 2 * (codes[i].first + codes[i].number)
                          /\ codes[i + 1].before = codes[i].before + codes[i].number
  BY CodesFacts, Zenon
<1>2. codes[l].first <= x
  OBVIOUS
<1> HIDE DEF codes
<1> DEFINE Above(i, n) == x \div 2^n >= codes[i].first + codes[i].number
           T == {n \in Nat : n + 1 < l => Above(l - (n + 1), n + 1)}
<1>3. ASSUME NEW n \in Nat, n + 1 < l, x \div 2^n >= codes[l - n].first
      PROVE  Above(l - (n + 1), n + 1)
  <2> DEFINE i == l - (n + 1)
  <2>1. i \in 1..15 /\ i \in 1..16 /\ i + 1 = l - n
    BY <1>3
  <2>2. x \div 2^n \in Nat /\ x \div 2^(n + 1) = (x \div 2^n) \div 2
    BY Quotients
  <2> HIDE DEF i
  <2>3. x \div 2^n >= 2 * (codes[i].first + codes[i].number)
    BY <1>1, <1>3, <2>1
  <2>4. codes[i].first \in Nat /\ codes[i].number \in Nat
    BY <1>1, <2>1
  <2>5. (x \div 2^n) \div 2 >= codes[i].first + codes[i].number
    <3> DEFINE m == codes[i].first + codes[i].number
               q == x \div 2^n
    <3>1. m \in Nat /\ q \in Nat /\ q >= 2 * m
      BY <2>2, <2>3, <2>4
    <3> HIDE DEF m, q
    <3>2. q \div 2 >= m
      BY <3>1
    <3> QED BY <3>2 DEF m, q
  <2>6. Above(i, n + 1)
    BY <2>2, <2>5
  <2> QED BY <2>6 DEF i
<1>4. 0 \in T
  <2>1. 2^0 = 1 /\ x \div 1 = x /\ l - 0 = l
    OBVIOUS
  <2>2. 0 + 1 < l => x \div 2^0 >= codes[l - 0].first
    BY <1>2, <2>1
  <2>3. 0 + 1 < l => Above(l - (0 + 1), 0 + 1)
    BY <1>3, <2>2
  <2> QED BY <2>3
<1>5. ASSUME NEW n \in T, n \in Nat PROVE n + 1 \in T
  <2>1. CASE (n + 1) + 1 < l
    <3> DEFINE i == l - (n + 1)
    <3>1. n + 1 < l /\ n + 1 \in Nat /\ i \in 1..16
      BY <1>5, <2>1
    <3>2. Above(i, n + 1)
      BY <1>5, <3>1
    <3>3. codes[i].first \in Nat /\ codes[i].number \in Nat /\ x \div 2^(n + 1) \in Nat
      BY <1>1, <3>1, Quotients
    <3>4. x \div 2^(n + 1) >= codes[i].first
      <4> HIDE DEF i
      <4> QED BY <3>2, <3>3
    <3>5. Above(l - ((n + 1) + 1), (n + 1) + 1)
      BY <1>3, <2>1, <3>1, <3>4
    <3> QED BY <3>1, <3>5
  <2> QED BY <1>5, <2>1
<1> HIDE DEF T
<1>6. Nat \subseteq T
  BY <1>4, <1>5, NatInduct
<1>7. l - (k + 1) \in Nat
  OBVIOUS
<1> DEFINE n == l - (k + 1)
<1>8. n \in Nat /\ n + 1 < l /\ l - (n + 1) = k /\ n + 1 = l - k
  OBVIOUS
<1>9. n \in T
  BY <1>6, <1>8
<1>10. Above(k, l - k)
  <2> HIDE DEF n
  <2>1. Above(l - (n + 1), n + 1)
    BY <1>8, <1>9 DEF T
  <2> QED BY <1>8, <2>1
<1> QED BY <1>10 DEF codes

-----------------------------------------------------------------------------
\* What a legal table gives.
LEMMA LegalFacts ==
  ASSUME NEW htbl, LegalTable(htbl)
  PROVE  LET codes == CodesByLength(htbl)
         IN /\ htbl.bits \in [1..16 -> 0..255]
            /\ htbl.huffval \in Seq(0..255)
            /\ Len(htbl.huffval) = codes[16].before + codes[16].number
            /\ \A l \in 1..16 : codes[l].number > 0 => codes[l].first + codes[l].number < 2^l
BY DEF LegalTable, CodesFit

\* The p-th symbol has a code of the length that the p-th code has.
LEMMA PlaceHasLength ==
  ASSUME NEW htbl, LegalTable(htbl), NEW p \in DOMAIN htbl.huffval
  PROVE  \E l \in 1..16 : p - CodesByLength(htbl)[l].before \in 1..CodesByLength(htbl)[l].number
<1> DEFINE codes == CodesByLength(htbl)
<1>1. /\ htbl.bits \in [1..16 -> 0..255]
      /\ htbl.huffval \in Seq(0..255)
      /\ Len(htbl.huffval) = codes[16].before + codes[16].number
  BY LegalFacts, Zenon
<1>2. /\ codes[1].before = 0
      /\ \A i \in 1..16 : codes[i].before \in Nat /\ codes[i].number \in Nat
      /\ \A i \in 1..15 : codes[i + 1].before = codes[i].before + codes[i].number
  BY <1>1, CodesFacts, Zenon
<1> HIDE DEF codes
<1>3. p \in Nat /\ p >= 1 /\ p <= codes[16].before + codes[16].number
  BY <1>1
<1> DEFINE T == {l \in 1..16 : p <= codes[l].before + codes[l].number}
<1>4. 16 \in T /\ T \subseteq Nat
  BY <1>3
<1>5. PICK l \in T : \A m \in T : l <= m
  BY <1>4, LeastNat
<1>6. l \in 1..16 /\ p <= codes[l].before + codes[l].number
  BY <1>5
<1>7. p > codes[l].before
  <2>1. CASE l = 1
    BY <1>2, <1>3, <2>1
  <2>2. CASE l # 1
    <3>1. l - 1 \in 1..15 /\ l - 1 \in 1..16 /\ (l - 1) + 1 = l /\ ~(l <= l - 1)
      BY <1>6, <2>2
    <3>2. l - 1 \notin T
      BY <1>5, <3>1
    <3>3. ~(p <= codes[l - 1].before + codes[l - 1].number)
      BY <3>1, <3>2
    <3>4. codes[l].before = codes[l - 1].before + codes[l - 1].number
      BY <1>2, <3>1
    <3> QED BY <1>2, <1>3, <1>6, <3>1, <3>3, <3>4
  <2> QED BY <2>1, <2>2
<1>8. codes[l].before \in Nat /\ codes[l].number \in Nat
  BY <1>2, <1>6
<1>9. p - codes[l].before \in 1..codes[l].number
  BY <1>3, <1>6, <1>7, <1>8
<1> QED BY <1>6, <1>9 DEF codes

\* The code of a symbol: its place among those of its length.
LEMMA CodeOfSymbol ==
  ASSUME NEW htbl, LegalTable(htbl), NEW symbol \in ToSet(htbl.huffval)
  PROVE  \E l \in 1..16, p \in DOMAIN htbl.huffval :
           LET codes == CodesByLength(htbl)
           IN /\ htbl.huffval[p] = symbol
              /\ p - codes[l].before \in 1..codes[l].number
              /\ jpeg_make_c_derived_tbl(htbl)[symbol] = LowBits(codes[l].first + p - codes[l].before - 1, l)
<1> DEFINE codes == CodesByLength(htbl)
           p == CHOOSE q \in DOMAIN htbl.huffval : htbl.huffval[q] = symbol
           l == CHOOSE n \in 1..16 : p - codes[n].before \in 1..codes[n].number
<1>1. \E q \in DOMAIN htbl.huffval : htbl.huffval[q] = symbol
  BY DEF ToSet
<1>2. p \in DOMAIN htbl.huffval /\ htbl.huffval[p] = symbol
  BY <1>1, Zenon
<1>3. \E n \in 1..16 : p - codes[n].before \in 1..codes[n].number
  BY <1>2, PlaceHasLength, Zenon
<1>4. l \in 1..16 /\ p - codes[l].before \in 1..codes[l].number
  BY <1>3, Zenon
<1>5. jpeg_make_c_derived_tbl(htbl)[symbol] = LowBits(codes[l].first + p - codes[l].before - 1, l)
  BY Zenon DEF jpeg_make_c_derived_tbl
<1> QED BY <1>2, <1>4, <1>5, Zenon

\* The first bits of what was written begin the code, whatever follows it.
LEMMA ReadsPrefix ==
  ASSUME NEW x \in Nat, NEW l \in 1..16, x < 2^l, NEW rest \in Seq({0, 1}), NEW k \in 0..l
  PROVE  Value(SubSeq(LowBits(x, l) \o rest, 1, k)) = x \div 2^(l - k)
<1> DEFINE code == LowBits(x, l)
           bits == SubSeq(code \o rest, 1, k)
<1>1. ASSUME NEW i \in 1..l PROVE code[i] \in Int /\ code[i] = (x \div 2^(l - i)) % 2
  <2>1. code[i] = (x \div 2^(l - i)) % 2
    BY DEF LowBits
  <2> DEFINE n == l - i
  <2>2. n \in Nat
    OBVIOUS
  <2> HIDE DEF n
  <2>3. x \div 2^n \in Nat
    BY <2>2, Quotients
  <2>4. (x \div 2^n) % 2 \in Int
    BY <2>3
  <2> QED BY <2>1, <2>4 DEF n
<1>2. code \in Seq(Int) /\ Len(code) = l
  <2>1. code = [i \in 1..l |-> (x \div 2^(l - i)) % 2]
    BY DEF LowBits
  <2> HIDE DEF code
  <2>2. code \in [1..l -> Int]
    BY <1>1, <2>1
  <2> QED BY <2>2
<1> HIDE DEF code
<1>3. rest \in Seq(Int)
  OBVIOUS
<1>4. Len(bits) = k /\ \A i \in 1..k : bits[i] = code[i]
  BY <1>2, <1>3
<1>5. \A i \in 1..k : bits[i] = (x \div 2^(l - i)) % 2
  <2>1. \A i \in 1..k : i \in 1..l
    OBVIOUS
  <2> QED BY <1>1, <1>4, <2>1
<1> HIDE DEF bits
<1>6. l \in Nat
  OBVIOUS
<1>7. Value(bits) = x \div 2^(l - k)
  BY <1>4, <1>5, <1>6, PrefixValue
<1> QED BY <1>7 DEF bits, code

\* The j-th code of a length, and where its symbol stands.
LEMMA Placement ==
  ASSUME NEW first \in Nat, NEW before \in Nat, NEW number \in Nat, NEW p \in Int, p - before \in 1..number
  PROVE  LET x == first + p - before - 1
         IN /\ x \in Nat /\ x >= first /\ x < first + number /\ x <= first + number - 1
            /\ number > 0 /\ number # 0
            /\ x + (before + 1 - first) = p
OBVIOUS

\* A code is read as the symbol it was written for, whatever follows it: the
\* loop of jpeg_huff_decode takes none of its beginnings for a code, stops at
\* its last bit and finds the symbol there.
THEOREM CodesAreRead ==
  ASSUME NEW htbl, LegalTable(htbl), NEW symbol \in ToSet(htbl.huffval), NEW rest \in Seq({0, 1})
  PROVE  LET code == jpeg_make_c_derived_tbl(htbl)[symbol]
             tbl == jpeg_make_d_derived_tbl(htbl)
             read(l) == Value(SubSeq(code \o rest, 1, l))
         IN /\ Len(code) \in 1..16
            /\ \A l \in 1..(Len(code) - 1) : ~IsCode(tbl, read(l), l)
            /\ IsCode(tbl, read(Len(code)), Len(code))
            /\ SymbolOf(tbl, read(Len(code)), Len(code)) = symbol
<1> DEFINE codes == CodesByLength(htbl)
           code == jpeg_make_c_derived_tbl(htbl)[symbol]
           tbl == jpeg_make_d_derived_tbl(htbl)
           read(k) == Value(SubSeq(code \o rest, 1, k))
<1>1. PICK l \in 1..16, p \in DOMAIN htbl.huffval :
        /\ htbl.huffval[p] = symbol
        /\ p - codes[l].before \in 1..codes[l].number
        /\ code = LowBits(codes[l].first + p - codes[l].before - 1, l)
  BY CodeOfSymbol, Zenon
<1>2. /\ htbl.bits \in [1..16 -> 0..255]
      /\ htbl.huffval \in Seq(0..255)
      /\ \A k \in 1..16 : codes[k].number > 0 => codes[k].first + codes[k].number < 2^k
  BY LegalFacts, Zenon
<1>3. \A k \in 1..16 : codes[k].first \in Nat /\ codes[k].before \in Nat /\ codes[k].number \in Nat
  BY <1>2, CodesFacts, Zenon
<1>4. /\ \A k \in 1..16 : tbl.maxcode[k] = IF codes[k].number = 0 THEN -1 ELSE codes[k].first + codes[k].number - 1
      /\ \A k \in 1..16 : tbl.valoffset[k] = codes[k].before + 1 - codes[k].first
      /\ tbl.huffval = htbl.huffval
  BY DEF jpeg_make_d_derived_tbl
<1> DEFINE x == codes[l].first + p - codes[l].before - 1
<1>5. /\ x \in Nat /\ x >= codes[l].first /\ x < codes[l].first + codes[l].number
      /\ x <= codes[l].first + codes[l].number - 1
      /\ codes[l].number > 0 /\ codes[l].number # 0
      /\ x + (codes[l].before + 1 - codes[l].first) = p
  <2>1. p \in Int
    BY <1>2
  <2>2. codes[l].first \in Nat /\ codes[l].before \in Nat /\ codes[l].number \in Nat
    BY <1>3
  <2>3. p - codes[l].before \in 1..codes[l].number
    BY <1>1
  <2> HIDE DEF codes
  <2> QED BY <2>1, <2>2, <2>3, Placement
<1>6. x < 2^l
  <2>1. codes[l].first + codes[l].number < 2^l
    BY <1>2, <1>5
  <2>2. 2^l \in Nat
    BY Powers
  <2>3. codes[l].first \in Nat /\ codes[l].number \in Nat
    BY <1>3
  <2> HIDE DEF codes, x
  <2> QED BY <1>5, <2>1, <2>2, <2>3
<1>7. code = LowBits(x, l)
  BY <1>1
<1>8. ASSUME NEW k \in 0..l PROVE read(k) = x \div 2^(l - k)
  <2> HIDE DEF x, code
  <2> QED BY <1>5, <1>6, <1>7, ReadsPrefix
<1>9. Len(code) = l
  BY <1>7 DEF LowBits
<1>10. ASSUME NEW k \in 1..(l - 1) PROVE ~IsCode(tbl, read(k), k)
  <2>1. x \div 2^(l - k) >= codes[k].first + codes[k].number
    <3> HIDE DEF x
    <3> QED BY <1>2, <1>5, ShorterIsNoCode
  <2>2. k \in 1..16 /\ k \in 0..l
    OBVIOUS
  <2>3. read(k) >= codes[k].first + codes[k].number
    BY <1>8, <2>1, <2>2
  <2> DEFINE r == read(k)
  <2>4. r \in Nat
    <3>1. l - k \in Nat
      OBVIOUS
    <3> QED BY <1>5, <1>8, <2>2, <3>1, Quotients
  <2> HIDE DEF r, codes, tbl
  <2>5. codes[k].first \in Nat /\ codes[k].number \in Nat
    BY <1>3, <2>2
  <2>6. ~(r <= tbl.maxcode[k])
    <3>1. tbl.maxcode[k] = IF codes[k].number = 0 THEN -1 ELSE codes[k].first + codes[k].number - 1
      BY <1>4, <2>2
    <3> QED BY <2>3, <2>4, <2>5, <3>1 DEF r
  <2> QED BY <2>6 DEF r, IsCode
<1>11. read(l) = x
  <2>1. l \in 0..l /\ l - l = 0 /\ 2^0 = 1 /\ x \div 1 = x
    BY <1>5
  <2> QED BY <1>8, <2>1
<1>12. IsCode(tbl, read(l), l)
  <2> HIDE DEF codes, tbl, x, read
  <2>1. tbl.maxcode[l] = codes[l].first + codes[l].number - 1
    BY <1>4, <1>5
  <2> QED BY <1>5, <1>11, <2>1 DEF IsCode
<1>13. SymbolOf(tbl, read(l), l) = symbol
  <2> HIDE DEF codes, tbl, x, read
  <2> QED BY <1>1, <1>4, <1>5, <1>11 DEF SymbolOf
<1> HIDE DEF code, tbl, read
<1>14. /\ Len(code) \in 1..16
       /\ \A k \in 1..(Len(code) - 1) : ~IsCode(tbl, read(k), k)
       /\ IsCode(tbl, read(Len(code)), Len(code))
       /\ SymbolOf(tbl, read(Len(code)), Len(code)) = symbol
  BY <1>9, <1>10, <1>12, <1>13
<1> QED BY <1>14 DEF code, tbl, read

\* What was written can be read in one way only: no code begins another one.
THEOREM Unambiguous ==
  ASSUME NEW htbl, LegalTable(htbl),
         NEW symbol1 \in ToSet(htbl.huffval), NEW rest1 \in Seq({0, 1}),
         NEW symbol2 \in ToSet(htbl.huffval), NEW rest2 \in Seq({0, 1}),
         jpeg_make_c_derived_tbl(htbl)[symbol1] \o rest1 = jpeg_make_c_derived_tbl(htbl)[symbol2] \o rest2
  PROVE  symbol1 = symbol2
<1> DEFINE bits == jpeg_make_c_derived_tbl(htbl)[symbol1] \o rest1
           tbl == jpeg_make_d_derived_tbl(htbl)
           read(l) == Value(SubSeq(bits, 1, l))
           Read(symbol, l) == /\ \A k \in 1..(l - 1) : ~IsCode(tbl, read(k), k)
                              /\ IsCode(tbl, read(l), l)
                              /\ SymbolOf(tbl, read(l), l) = symbol
<1>1. \E l \in 1..16 : Read(symbol1, l)
  <2> DEFINE code == jpeg_make_c_derived_tbl(htbl)[symbol1]
  <2>1. Len(code) \in 1..16 /\ Read(symbol1, Len(code))
    BY CodesAreRead, Zenon
  <2> QED BY <2>1, Zenon
<1>2. \E l \in 1..16 : Read(symbol2, l)
  <2> DEFINE code == jpeg_make_c_derived_tbl(htbl)[symbol2]
  <2>1. Len(code) \in 1..16 /\ Read(symbol2, Len(code))
    BY CodesAreRead, Zenon
  <2> QED BY <2>1, Zenon
<1> HIDE DEF bits, tbl, read
<1>3. PICK l1 \in 1..16 : Read(symbol1, l1)
  BY <1>1
<1>4. PICK l2 \in 1..16 : Read(symbol2, l2)
  BY <1>2
<1>5. l1 < l2 => l1 \in 1..(l2 - 1)
  OBVIOUS
<1>6. l2 < l1 => l2 \in 1..(l1 - 1)
  OBVIOUS
<1>7. l1 = l2
  BY <1>3, <1>4, <1>5, <1>6
<1> QED BY <1>3, <1>4, <1>7

-----------------------------------------------------------------------------
(***************************************************************************)
(* Eight bits at once.                                                     *)
(***************************************************************************)

\* While no beginning is a code, what is read lies where longer codes do.
LEMMA BeyondShorter ==
  ASSUME NEW htbl, htbl.bits \in [1..16 -> 0..255], NEW look \in Nat, look < 2^HUFF_LOOKAHEAD,
         NEW l \in 1..HUFF_LOOKAHEAD,
         \A k \in 1..(l - 1) : ~IsCode(jpeg_make_d_derived_tbl(htbl), look \div 2^(HUFF_LOOKAHEAD - k), k)
  PROVE  look \div 2^(HUFF_LOOKAHEAD - l) >= CodesByLength(htbl)[l].first
<1> DEFINE codes == CodesByLength(htbl)
           tbl == jpeg_make_d_derived_tbl(htbl)
           code(k) == look \div 2^(8 - k)
           T == {n \in Nat : n + 1 <= l => code(n + 1) >= codes[n + 1].first}
<1>1. /\ codes[1].first = 0
      /\ \A i \in 1..16 : codes[i].first \in Nat /\ codes[i].number \in Nat
      /\ \A i \in 1..15 : codes[i + 1].first = 2 * (codes[i].first + codes[i].number)
  BY CodesFacts, Zenon
<1>2. \A k \in 1..16 : tbl.maxcode[k] = IF codes[k].number = 0 THEN -1 ELSE codes[k].first + codes[k].number - 1
  BY DEF jpeg_make_d_derived_tbl
<1>3. l \in 1..8 /\ \A k \in 1..(l - 1) : ~IsCode(tbl, code(k), k)
  BY DEF HUFF_LOOKAHEAD
<1>4. ASSUME NEW k \in 1..8 PROVE code(k) \in Nat /\ (k < 8 => code(k) = code(k + 1) \div 2)
  <2> DEFINE n == 8 - k
             m == 8 - (k + 1)
  <2>1. n \in Nat /\ (k < 8 => m \in Nat /\ m + 1 = n)
    OBVIOUS
  <2> HIDE DEF n, m
  <2>2. look \div 2^n \in Nat /\ (k < 8 => look \div 2^n = (look \div 2^m) \div 2)
    BY <2>1, Quotients
  <2> QED BY <2>2 DEF n, m
<1> HIDE DEF codes, tbl, code
<1>5. 0 \in T
  <2>1. code(0 + 1) \in Nat /\ codes[0 + 1].first = 0
    BY <1>1, <1>4
  <2> QED BY <2>1
<1>6. ASSUME NEW n \in T, n \in Nat PROVE n + 1 \in T
  <2>1. CASE (n + 1) + 1 <= l
    <3> DEFINE k == n + 1
    <3>1. k \in 1..8 /\ k < 8 /\ k \in 1..15 /\ k \in 1..16 /\ k \in 1..(l - 1) /\ k + 1 \in 1..8 /\ k <= l
      BY <1>3, <1>6, <2>1
    <3>2. code(k) >= codes[k].first
      BY <1>6, <3>1
    <3> HIDE DEF k
    <3>3. ~(code(k) <= tbl.maxcode[k])
      BY <1>3, <3>1 DEF IsCode
    <3>4. code(k) \in Nat /\ code(k + 1) \in Nat /\ code(k) = code(k + 1) \div 2
      BY <1>4, <3>1
    <3>5. codes[k].first \in Nat /\ codes[k].number \in Nat
      BY <1>1, <3>1
    <3>6. code(k) >= codes[k].first + codes[k].number
      <4>1. tbl.maxcode[k] = IF codes[k].number = 0 THEN -1 ELSE codes[k].first + codes[k].number - 1
        BY <1>2, <3>1
      <4> QED BY <3>2, <3>3, <3>4, <3>5, <4>1
    <3>7. code(k + 1) >= codes[k + 1].first
      <4> DEFINE a == codes[k].first + codes[k].number
      <4>1. codes[k + 1].first = 2 * a /\ a \in Nat /\ code(k + 1) \div 2 >= a
        BY <1>1, <3>1, <3>4, <3>5, <3>6
      <4> HIDE DEF a
      <4> QED BY <3>4, <4>1
    <3> QED BY <1>6, <3>7 DEF k
  <2> QED BY <1>6, <2>1
<1> HIDE DEF T
<1>7. l - 1 \in Nat /\ (l - 1) + 1 = l
  BY <1>3
<1>8. l - 1 \in T
  BY <1>5, <1>6, <1>7, NatInduct
<1>9. code(l) >= codes[l].first
  BY <1>7, <1>8 DEF T
<1> QED BY <1>9 DEF code, codes, HUFF_LOOKAHEAD

\* The table of what eight bits begin with says what reading them one by one
\* would: the length at which they are a code, and its symbol, or 0 when they
\* are no code up to the eighth.
THEOREM LookaheadAgrees ==
  ASSUME NEW htbl, LegalTable(htbl), NEW look \in 0..255
  PROVE  LET tbl == jpeg_make_d_derived_tbl(htbl)
             nb == tbl.look_nbits[look]
             code(l) == look \div 2^(HUFF_LOOKAHEAD - l)
         IN /\ nb = 0 => \A l \in 1..HUFF_LOOKAHEAD : ~IsCode(tbl, code(l), l)
            /\ nb # 0 => /\ nb \in 1..HUFF_LOOKAHEAD
                         /\ \A l \in 1..(nb - 1) : ~IsCode(tbl, code(l), l)
                         /\ IsCode(tbl, code(nb), nb)
                         /\ tbl.look_sym[look] = SymbolOf(tbl, code(nb), nb)
<1> DEFINE codes == CodesByLength(htbl)
           tbl == jpeg_make_d_derived_tbl(htbl)
           nb == tbl.look_nbits[look]
           code(l) == look \div 2^(HUFF_LOOKAHEAD - l)
           short == {l \in 1..HUFF_LOOKAHEAD : code(l) - codes[l].first \in 0..(codes[l].number - 1)}
<1>1. htbl.bits \in [1..16 -> 0..255]
  BY LegalFacts, Zenon
<1>2. \A l \in 1..16 : codes[l].first \in Nat /\ codes[l].before \in Nat /\ codes[l].number \in Nat
  BY <1>1, CodesFacts, Zenon
<1>3. /\ \A l \in 1..16 : tbl.maxcode[l] = IF codes[l].number = 0 THEN -1 ELSE codes[l].first + codes[l].number - 1
      /\ \A l \in 1..16 : tbl.valoffset[l] = codes[l].before + 1 - codes[l].first
      /\ tbl.huffval = htbl.huffval
  BY DEF jpeg_make_d_derived_tbl
<1>4. nb = IF short = {} THEN 0 ELSE CHOOSE l \in short : TRUE
  BY DEF jpeg_make_d_derived_tbl
<1>5. nb # 0 => tbl.look_sym[look] = htbl.huffval[codes[nb].before + 1 + (code(nb) - codes[nb].first)]
  BY DEF jpeg_make_d_derived_tbl
<1>6. look \in Nat /\ look < 2^HUFF_LOOKAHEAD
  <2>1. 2^HUFF_LOOKAHEAD = 256
    BY DEF HUFF_LOOKAHEAD
  <2> QED BY <2>1
<1>7. ASSUME NEW l \in 1..8 PROVE code(l) \in Nat /\ l \in 1..16
  <2> DEFINE n == 8 - l
  <2>1. n \in Nat
    OBVIOUS
  <2> HIDE DEF n
  <2>2. look \div 2^n \in Nat
    BY <1>6, <2>1, Quotients
  <2> QED BY <2>2 DEF n, HUFF_LOOKAHEAD
<1>8. ASSUME NEW l \in short
      PROVE  /\ l \in 1..8 /\ IsCode(tbl, code(l), l)
             /\ \A k \in 1..(l - 1) : ~IsCode(tbl, code(k), k)
  <2>1. l \in 1..8 /\ code(l) - codes[l].first \in 0..(codes[l].number - 1)
    BY DEF HUFF_LOOKAHEAD
  <2>2. code(l) \in Nat /\ l \in 1..16 /\ codes[l].first \in Nat /\ codes[l].number \in Nat
    BY <1>2, <1>7, <2>1
  <2>3. tbl.maxcode[l] = IF codes[l].number = 0 THEN -1 ELSE codes[l].first + codes[l].number - 1
    BY <1>3, <2>2
  <2>4. code(l) >= codes[l].first /\ IsCode(tbl, code(l), l)
    <3> HIDE DEF code, codes, tbl, short
    <3> QED BY <2>1, <2>2, <2>3 DEF IsCode
  <2>5. ASSUME NEW k \in 1..(l - 1) PROVE ~IsCode(tbl, code(k), k)
    <3>1. k \in 1..8 /\ k \in 1..16 /\ l - k \in Nat /\ 8 - l \in Nat /\ (8 - l) + (l - k) = 8 - k
      BY <2>1
    <3>2. code(l) \div 2^(l - k) = code(k)
      <4> DEFINE m == 8 - l
                 n == l - k
      <4>1. m \in Nat /\ n \in Nat /\ m + n = 8 - k
        BY <3>1
      <4> HIDE DEF m, n
      <4>2. (look \div 2^m) \div 2^n = look \div 2^(m + n)
        BY <1>6, <4>1, QuotientsCompose
      <4> QED BY <4>1, <4>2 DEF m, n, HUFF_LOOKAHEAD
    <3>3. code(l) \div 2^(l - k) >= codes[k].first + codes[k].number
      <4> HIDE DEF code
      <4> QED BY <1>1, <2>2, <2>4, ShorterIsNoCode
    <3>4. code(k) >= codes[k].first + codes[k].number
      BY <3>2, <3>3
    <3>5. code(k) \in Nat /\ codes[k].first \in Nat /\ codes[k].number \in Nat
      BY <1>2, <1>7, <3>1
    <3>6. tbl.maxcode[k] = IF codes[k].number = 0 THEN -1 ELSE codes[k].first + codes[k].number - 1
      BY <1>3, <3>1
    <3> HIDE DEF code, codes, tbl, short
    <3> QED BY <3>4, <3>5, <3>6 DEF IsCode
  <2> QED BY <2>1, <2>4, <2>5
<1>9. ASSUME NEW l \in 1..8, IsCode(tbl, code(l), l) PROVE short # {}
  <2> DEFINE T == {k \in 1..8 : IsCode(tbl, code(k), k)}
  <2>1. l \in T /\ T \subseteq Nat
    BY <1>9
  <2> HIDE DEF T
  <2>2. PICK k \in T : \A j \in T : k <= j
    BY <2>1, LeastNat
  <2>3. k \in 1..8 /\ IsCode(tbl, code(k), k)
    BY DEF T
  <2>4. ASSUME NEW j \in 1..(k - 1) PROVE ~IsCode(tbl, code(j), j)
    <3>1. j \in 1..8 /\ ~(k <= j)
      BY <2>3
    <3> QED BY <2>2, <3>1 DEF T
  <2>5. code(k) >= codes[k].first
    <3>1. k \in 1..HUFF_LOOKAHEAD
      BY <2>3 DEF HUFF_LOOKAHEAD
    <3> QED BY <1>1, <1>6, <2>4, <3>1, BeyondShorter
  <2>6. code(k) \in Nat /\ k \in 1..16 /\ codes[k].first \in Nat /\ codes[k].number \in Nat
    BY <1>2, <1>7, <2>3
  <2>7. tbl.maxcode[k] = IF codes[k].number = 0 THEN -1 ELSE codes[k].first + codes[k].number - 1
    BY <1>3, <2>6
  <2>8. code(k) - codes[k].first \in 0..(codes[k].number - 1)
    <3> HIDE DEF code, codes, tbl, short
    <3> QED BY <2>3, <2>5, <2>6, <2>7 DEF IsCode
  <2>9. k \in short
    BY <2>3, <2>8 DEF HUFF_LOOKAHEAD
  <2> QED BY <2>9
<1> HIDE DEF codes, tbl, code, short, nb
<1>10. ASSUME nb = 0, NEW l \in 1..HUFF_LOOKAHEAD PROVE ~IsCode(tbl, code(l), l)
  <2>1. l \in 1..8
    BY DEF HUFF_LOOKAHEAD
  <2>2. nb \in short => nb # 0
    BY <1>8
  <2> QED BY <1>4, <1>9, <1>10, <2>1, <2>2
<1>11. ASSUME nb # 0
       PROVE  /\ nb \in 1..HUFF_LOOKAHEAD
              /\ \A l \in 1..(nb - 1) : ~IsCode(tbl, code(l), l)
              /\ IsCode(tbl, code(nb), nb)
              /\ tbl.look_sym[look] = SymbolOf(tbl, code(nb), nb)
  <2>1. nb \in short
    BY <1>4, <1>11
  <2>2. nb \in 1..8 /\ IsCode(tbl, code(nb), nb) /\ \A l \in 1..(nb - 1) : ~IsCode(tbl, code(l), l)
    BY <1>8, <2>1
  <2>3. code(nb) \in Nat /\ nb \in 1..16 /\ codes[nb].first \in Nat /\ codes[nb].before \in Nat
    BY <1>2, <1>7, <2>2
  <2>4. code(nb) + (codes[nb].before + 1 - codes[nb].first) = codes[nb].before + 1 + (code(nb) - codes[nb].first)
    BY <2>3
  <2>5. tbl.look_sym[look] = SymbolOf(tbl, code(nb), nb)
    BY <1>3, <1>5, <1>11, <2>3, <2>4 DEF SymbolOf
  <2> QED BY <2>2, <2>5 DEF HUFF_LOOKAHEAD
<1> QED BY <1>10, <1>11 DEF tbl, code, nb

\* Reading fewer bits, one reads what a reading of more had come to.
LEMMA ReadingOfPrefix ==
  ASSUME NEW bits \in Seq({0, 1}), NEW read, IsReading(read, bits, Len(bits)), NEW k \in 0..Len(bits)
  PROVE  Value(SubSeq(bits, 1, k)) = read[k]
<1> DEFINE prefix == SubSeq(bits, 1, k)
           less == CHOOSE r : IsReading(r, prefix, k)
           T == {n \in Nat : n <= k => less[n] = read[n]}
<1>1. k \in Nat /\ Len(bits) \in Nat /\ k <= Len(bits)
  OBVIOUS
<1>2. Len(prefix) = k /\ \A i \in 1..k : prefix[i] = bits[i]
  BY <1>1
<1> HIDE DEF prefix
<1>3. Value(prefix) = less[k]
  BY <1>2, Zenon DEF Value, IsReading
<1>4. IsReading(less, prefix, k)
  BY <1>1, ReadingExists
<1> HIDE DEF less
<1>5. 0 \in T
  <2>1. 0 \in 0..k /\ 0 \in 0..Len(bits)
    BY <1>1
  <2> QED BY <1>4, <2>1 DEF IsReading
<1>6. ASSUME NEW n \in T, n \in Nat PROVE n + 1 \in T
  <2>1. CASE n + 1 <= k
    <3>1. n + 1 \in 1..k /\ n + 1 \in 0..k /\ n + 1 \in 0..Len(bits) /\ n + 1 # 0 /\ (n + 1) - 1 = n
      BY <1>1, <1>6, <2>1
    <3>2. less[n + 1] = 2 * less[n] + prefix[n + 1]
      BY <1>4, <3>1 DEF IsReading
    <3>3. read[n + 1] = 2 * read[n] + bits[n + 1]
      BY <3>1 DEF IsReading
    <3>4. less[n] = read[n] /\ prefix[n + 1] = bits[n + 1]
      BY <1>1, <1>2, <1>6, <2>1, <3>1
    <3>5. less[n + 1] = read[n + 1]
      BY <3>2, <3>3, <3>4
    <3> QED BY <1>6, <3>5
  <2> QED BY <1>6, <2>1
<1> HIDE DEF T
<1>7. k \in T
  BY <1>1, <1>5, <1>6, NatInduct
<1> QED BY <1>1, <1>3, <1>7 DEF T, prefix

\* The number that n bits are is below 2^n, and its first bits are what shifting
\* the others out leaves.
LEMMA ValueFacts ==
  ASSUME NEW bits \in Seq({0, 1}), NEW n \in 0..Len(bits)
  PROVE  /\ Value(SubSeq(bits, 1, n)) \in Nat /\ Value(SubSeq(bits, 1, n)) < 2^n
         /\ \A k \in 0..n : Value(SubSeq(bits, 1, k)) = Value(SubSeq(bits, 1, n)) \div 2^(n - k)
<1>1. n \in Nat /\ Len(bits) \in Nat /\ n <= Len(bits)
  OBVIOUS
<1>2. PICK read : IsReading(read, bits, Len(bits))
  BY <1>1, ReadingExists
<1>3. \A k \in 0..Len(bits) : Value(SubSeq(bits, 1, k)) = read[k]
  BY <1>2, ReadingOfPrefix
<1>4. ASSUME NEW k \in Nat, k + 1 <= Len(bits)
      PROVE  read[k + 1] = 2 * read[k] + bits[k + 1] /\ bits[k + 1] \in {0, 1}
  <2>1. k + 1 \in 0..Len(bits) /\ k + 1 \in 1..Len(bits) /\ k + 1 # 0 /\ (k + 1) - 1 = k
    BY <1>1, <1>4
  <2> QED BY <1>2, <2>1 DEF IsReading
<1> DEFINE Bounded(k) == read[k] \in Nat /\ read[k] < 2^k
           T == {k \in Nat : k <= Len(bits) => Bounded(k)}
<1>5. 0 \in T
  <2>1. 0 \in 0..Len(bits) /\ 2^0 = 1
    BY <1>1
  <2>2. read[0] = 0
    BY <1>2, <2>1 DEF IsReading
  <2> QED BY <2>1, <2>2
<1>6. ASSUME NEW k \in T, k \in Nat PROVE k + 1 \in T
  <2>1. CASE k + 1 <= Len(bits)
    <3>1. Bounded(k)
      BY <1>1, <1>6, <2>1
    <3>2. 2^k \in Nat /\ 2^(k + 1) = 2 * 2^k
      BY <1>6, Powers
    <3>3. read[k + 1] = 2 * read[k] + bits[k + 1] /\ bits[k + 1] \in {0, 1}
      BY <1>4, <1>6, <2>1
    <3>4. Bounded(k + 1)
      <4> DEFINE p == 2^k
                 q == 2^(k + 1)
      <4>1. read[k] \in Nat /\ read[k] < p /\ p \in Nat /\ q = 2 * p
        BY <3>1, <3>2
      <4> HIDE DEF p, q
      <4>2. read[k + 1] \in Nat /\ read[k + 1] < q
        BY <3>3, <4>1
      <4> QED BY <4>2 DEF q
    <3> QED BY <1>6, <3>4
  <2> QED BY <1>6, <2>1
<1> HIDE DEF T
<1>7. ASSUME NEW k \in Nat, k <= Len(bits) PROVE Bounded(k)
  <2>1. k \in T
    BY <1>5, <1>6, NatInduct
  <2> QED BY <1>7, <2>1 DEF T
<1> DEFINE U == {i \in Nat : i <= n => read[n - i] = read[n] \div 2^i}
<1>8. 0 \in U
  <2>1. read[n] \in Nat /\ n - 0 = n /\ 2^0 = 1
    BY <1>1, <1>7
  <2>2. read[n] \div 1 = read[n]
    BY <2>1
  <2> QED BY <2>1, <2>2
<1>9. ASSUME NEW i \in U, i \in Nat PROVE i + 1 \in U
  <2>1. CASE i + 1 <= n
    <3> DEFINE k == n - (i + 1)
    <3>1. k \in Nat /\ k + 1 = n - i /\ k <= Len(bits) /\ k + 1 <= Len(bits) /\ i <= n
      BY <1>1, <1>9, <2>1
    <3>2. read[n - i] = read[n] \div 2^i
      BY <1>9, <3>1
    <3>3. read[n] \in Nat
      BY <1>1, <1>7
    <3> HIDE DEF k
    <3>4. read[k] \in Nat /\ read[k + 1] = 2 * read[k] + bits[k + 1] /\ bits[k + 1] \in {0, 1}
      BY <1>4, <1>7, <3>1
    <3>5. read[k] = read[k + 1] \div 2
      BY <3>4, LastBitOut
    <3>6. read[n] \div 2^(i + 1) = (read[n] \div 2^i) \div 2
      BY <1>9, <3>3, Quotients
    <3>7. read[k] = read[n] \div 2^(i + 1)
      BY <3>1, <3>2, <3>5, <3>6
    <3> QED BY <1>9, <3>7 DEF k
  <2> QED BY <1>9, <2>1
<1> HIDE DEF U
<1>10. ASSUME NEW k \in 0..n PROVE read[k] = read[n] \div 2^(n - k)
  <2> DEFINE i == n - k
  <2>1. i \in Nat /\ i <= n /\ n - i = k
    BY <1>1
  <2>2. i \in U
    BY <1>8, <1>9, <2>1, NatInduct
  <2> HIDE DEF i
  <2>3. read[n - i] = read[n] \div 2^i
    BY <2>1, <2>2 DEF U
  <2> QED BY <2>1, <2>3 DEF i
<1>11. \A k \in 0..n : k \in 0..Len(bits)
  BY <1>1
<1>12. n \in 0..n
  BY <1>1
<1> QED BY <1>1, <1>3, <1>7, <1>10, <1>11, <1>12

\* Looking a code up gives what reading it bit by bit gives (HUFF_DECODE): a
\* code of up to eight bits is found in the table with its length and symbol,
\* whatever follows it, and a longer one is not.
THEOREM CodesAreLookedUp ==
  ASSUME NEW htbl, LegalTable(htbl), NEW symbol \in ToSet(htbl.huffval), NEW rest \in Seq({0, 1}),
         Len(jpeg_make_c_derived_tbl(htbl)[symbol]) + Len(rest) >= HUFF_LOOKAHEAD
  PROVE  LET code == jpeg_make_c_derived_tbl(htbl)[symbol]
             tbl == jpeg_make_d_derived_tbl(htbl)
             look == Value(SubSeq(code \o rest, 1, HUFF_LOOKAHEAD))
         IN /\ look \in 0..255
            /\ Len(code) <= HUFF_LOOKAHEAD => tbl.look_nbits[look] = Len(code) /\ tbl.look_sym[look] = symbol
            /\ Len(code) > HUFF_LOOKAHEAD => tbl.look_nbits[look] = 0
<1> DEFINE code == jpeg_make_c_derived_tbl(htbl)[symbol]
           tbl == jpeg_make_d_derived_tbl(htbl)
           bits == code \o rest
           read(l) == Value(SubSeq(bits, 1, l))
           look == read(8)
           nb == tbl.look_nbits[look]
           n == Len(code)
<1>1. /\ n \in 1..16
      /\ \A l \in 1..(n - 1) : ~IsCode(tbl, read(l), l)
      /\ IsCode(tbl, read(n), n)
      /\ SymbolOf(tbl, read(n), n) = symbol
  BY CodesAreRead, Zenon
<1>2. code \in Seq({0, 1})
  <2>1. PICK l \in 1..16, x \in Nat : code = LowBits(x, l)
    <3>1. PICK l \in 1..16, p \in DOMAIN htbl.huffval :
            /\ p - CodesByLength(htbl)[l].before \in 1..CodesByLength(htbl)[l].number
            /\ code = LowBits(CodesByLength(htbl)[l].first + p - CodesByLength(htbl)[l].before - 1, l)
      BY CodeOfSymbol, Zenon
    <3>2. /\ htbl.bits \in [1..16 -> 0..255]
          /\ htbl.huffval \in Seq(0..255)
      BY LegalFacts, Zenon
    <3>3. /\ CodesByLength(htbl)[l].first \in Nat /\ CodesByLength(htbl)[l].before \in Nat
          /\ CodesByLength(htbl)[l].number \in Nat
      BY <3>2, CodesFacts, Zenon
    <3>4. p \in Int
      BY <3>2
    <3>5. CodesByLength(htbl)[l].first + p - CodesByLength(htbl)[l].before - 1 \in Nat
      BY <3>1, <3>3, <3>4, Placement
    <3> QED BY <3>1, <3>5
  <2>2. ASSUME NEW i \in 1..l PROVE (x \div 2^(l - i)) % 2 \in {0, 1}
    <3> DEFINE m == l - i
    <3>1. m \in Nat
      OBVIOUS
    <3> HIDE DEF m
    <3>2. x \div 2^m \in Nat
      BY <3>1, Quotients
    <3>3. (x \div 2^m) % 2 \in {0, 1}
      BY <3>2
    <3> QED BY <3>3 DEF m
  <2>3. code \in [1..l -> {0, 1}]
    BY <2>1, <2>2 DEF LowBits
  <2> QED BY <2>3
<1>3. bits \in Seq({0, 1}) /\ Len(bits) >= 8
  <2>1. n + Len(rest) >= 8
    BY DEF HUFF_LOOKAHEAD
  <2> HIDE DEF code
  <2> QED BY <1>2, <2>1
<1> HIDE DEF bits
<1>4. 8 \in 0..Len(bits)
  BY <1>3
<1>5. look \in Nat /\ look < 256 /\ \A k \in 0..8 : read(k) = look \div 2^(8 - k)
  <2>1. 2^8 = 256
    OBVIOUS
  <2>2. look \in Nat /\ look < 2^8 /\ \A k \in 0..8 : read(k) = look \div 2^(8 - k)
    BY <1>3, <1>4, ValueFacts, Zenon
  <2> QED BY <2>1, <2>2
<1> HIDE DEF code, read, look
<1>6. look \in 0..255
  BY <1>5
<1>7. \A k \in 1..8 : look \div 2^(8 - k) = read(k)
  <2>1. \A k \in 1..8 : k \in 0..8
    OBVIOUS
  <2> QED BY <1>5, <2>1, Zenon
<1>8. /\ nb = 0 => \A l \in 1..8 : ~IsCode(tbl, look \div 2^(8 - l), l)
      /\ nb # 0 => /\ nb \in 1..8
                   /\ \A l \in 1..(nb - 1) : ~IsCode(tbl, look \div 2^(8 - l), l)
                   /\ IsCode(tbl, look \div 2^(8 - nb), nb)
                   /\ tbl.look_sym[look] = SymbolOf(tbl, look \div 2^(8 - nb), nb)
  BY <1>6, LookaheadAgrees DEF HUFF_LOOKAHEAD
<1> HIDE DEF tbl, nb
<1>9. /\ nb = 0 => \A l \in 1..8 : ~IsCode(tbl, read(l), l)
      /\ nb # 0 => /\ nb \in 1..8
                   /\ \A l \in 1..(nb - 1) : ~IsCode(tbl, read(l), l)
                   /\ IsCode(tbl, read(nb), nb)
                   /\ tbl.look_sym[look] = SymbolOf(tbl, read(nb), nb)
  <2>1. nb \in 1..8 => \A l \in 1..(nb - 1) : l \in 1..8
    OBVIOUS
  <2> QED BY <1>7, <1>8, <2>1, Zenon
<1> HIDE DEF n
<1>10. ASSUME n <= 8 PROVE nb = n /\ tbl.look_sym[look] = symbol
  <2>1. n \in 1..8
    BY <1>1, <1>10
  <2>2. nb # 0
    BY <1>1, <1>9, <2>1
  <2>3. nb \in 1..8 /\ ~(n < nb) /\ ~(nb < n)
    <3>1. nb \in 1..8
      BY <1>9, <2>2
    <3>2. n < nb => n \in 1..(nb - 1)
      BY <2>1, <3>1
    <3>3. nb < n => nb \in 1..(n - 1)
      BY <2>1, <3>1
    <3> QED BY <1>1, <1>9, <2>2, <3>1, <3>2, <3>3
  <2>4. nb = n
    BY <2>1, <2>3
  <2> QED BY <1>1, <1>9, <2>2, <2>4
<1>11. ASSUME n > 8 PROVE nb = 0
  <2>1. SUFFICES ASSUME nb # 0 PROVE FALSE
    OBVIOUS
  <2>2. nb \in 1..(n - 1)
    BY <1>1, <1>9, <1>11, <2>1
  <2> QED BY <1>1, <1>9, <2>1, <2>2
<1> QED BY <1>6, <1>10, <1>11 DEF look, read, bits, code, tbl, nb, n, HUFF_LOOKAHEAD

=============================================================================
