---------------------------- MODULE Words_proofs ----------------------------
(***************************************************************************)
(* Numbers, powers of two and bits: what the proofs about counters of any  *)
(* width, sums of characters and words of any number of bits rest on; and  *)
(* what LLVM's operators do to words.                                      *)
(***************************************************************************)
EXTENDS LlvmInt, FiniteSetTheorems, TLAPS, WellFoundedInduction

-----------------------------------------------------------------------------
(* Quotients and remainders.                                               *)

\* Every nonempty set of natural numbers has a least element.
LEMMA LeastNat ==
  ASSUME NEW T, T \subseteq Nat, T # {}
  PROVE  \E x \in T : \A y \in T : x =< y
<1>1. PICK x \in T : \A y \in T : <<y, x>> \notin OpToRel(<, Nat)
  BY WFMin, NatLessThanWellFounded, Zenon
<1>2. \A y \in T : ~ (y < x)
  BY <1>1, Zenon DEF OpToRel
<1>3. QED BY <1>2

\* A number is its quotient and its remainder.
LEMMA Division ==
  ASSUME NEW W \in Nat \ {0}, NEW a \in Nat
  PROVE  /\ a % W \in 0 .. W - 1
         /\ a \div W \in Int
         /\ a = (a \div W) * W + (a % W)
OBVIOUS

\* A multiple of W that is not zero is at least W.
LEMMA MultipleAtLeast == \A k, W \in Nat : k >= 1 => k * W >= W
OBVIOUS

\* Remainders are unique.
LEMMA RemainderUnique ==
  ASSUME NEW W \in Nat \ {0}, NEW p \in Int, NEW q \in Int,
         NEW r \in 0 .. W - 1, NEW s \in 0 .. W - 1,
         p * W + r = q * W + s
  PROVE  r = s
<1>1. (p - q) * W = s - r /\ (q - p) * W = r - s
  OBVIOUS
<1>2. CASE p - q >= 1
  <2>1. (p - q) * W >= W
    BY <1>2, MultipleAtLeast
  <2>2. QED BY <1>1, <2>1
<1>3. CASE q - p >= 1
  <2>1. (q - p) * W >= W
    BY <1>3, MultipleAtLeast
  <2>2. QED BY <1>1, <2>1
<1>4. CASE p = q
  BY <1>4
<1>5. QED BY <1>2, <1>3, <1>4

\* A counter incremented after it was reduced has counted one more.
LEMMA ModSuccessor ==
  ASSUME NEW W \in Nat \ {0}, NEW a \in Nat
  PROVE  ((a % W) + 1) % W = (a + 1) % W
<1> DEFINE r == a % W
           x == (r + 1) % W
           y == (a + 1) % W
<1>1. a = (a \div W) * W + r /\ r \in 0 .. W - 1 /\ a \div W \in Int
  BY Division
<1>2. r + 1 = ((r + 1) \div W) * W + x /\ x \in 0 .. W - 1 /\ (r + 1) \div W \in Int
  BY <1>1, Division
<1>3. a + 1 = ((a + 1) \div W) * W + y /\ y \in 0 .. W - 1 /\ (a + 1) \div W \in Int
  BY <1>1, Division
<1> HIDE DEF r, x, y
<1>4. ASSUME NEW m \in Int, NEW n \in Int, NEW k \in Int,
             a = m * W + r, r + 1 = n * W + x, a + 1 = k * W + y
      PROVE  x = y
  <2>1. m * W + n * W = (m + n) * W
    OBVIOUS
  <2>2. (m + n) * W + x = k * W + y
    BY <1>1, <1>2, <1>3, <1>4, <2>1
  <2>3. QED BY <1>2, <1>3, <2>2, RemainderUnique
<1>5. QED BY <1>1, <1>2, <1>3, <1>4 DEF r, x, y

\* A counter in its range is its own remainder.
LEMMA ModInRange ==
  ASSUME NEW W \in Nat \ {0}, NEW a \in 0 .. W - 1
  PROVE  a % W = a
OBVIOUS

\* The same of an integer.
LEMMA DivisionInt ==
  ASSUME NEW W \in Nat \ {0}, NEW a \in Int
  PROVE  /\ a % W \in 0 .. W - 1
         /\ a \div W \in Int
         /\ a = (a \div W) * W + (a % W)
OBVIOUS

\* There is one quotient and one remainder.
LEMMA QuotientIs ==
  ASSUME NEW W \in Nat \ {0}, NEW q \in Int, NEW r \in 0 .. W - 1
  PROVE  (q * W + r) \div W = q /\ (q * W + r) % W = r
<1> DEFINE a == q * W + r
           p == a \div W
           s == a % W
<1>1. a \in Int
  OBVIOUS
<1>2. s \in 0 .. W - 1 /\ p \in Int /\ a = p * W + s
  BY <1>1, DivisionInt
<1> HIDE DEF p, s
<1>3. p * W + s = q * W + r
  BY <1>2
<1>4. s = r
  BY <1>2, <1>3, RemainderUnique
<1>5. (p - q) * W = 0
  BY <1>2, <1>3, <1>4
<1>6. p = q
  <2>1. CASE p - q >= 1
    BY <1>2, <1>5, <2>1, MultipleAtLeast
  <2>2. CASE q - p >= 1
    <3>1. (q - p) * W = 0
      BY <1>2, <1>5
    <3>2. QED BY <1>2, <2>2, <3>1, MultipleAtLeast
  <2>3. QED BY <1>2, <2>1, <2>2
<1>7. QED BY <1>4, <1>6 DEF p, s

\* The same of a number that is given otherwise.
LEMMA QuotientOf ==
  ASSUME NEW W \in Nat \ {0}, NEW a \in Int, NEW q \in Int, NEW r \in Int,
         0 =< r, r < W, a = q * W + r
  PROVE  a \div W = q /\ a % W = r
<1>1. r \in 0 .. W - 1
  OBVIOUS
<1>2. QED BY <1>1, QuotientIs

\* A multiple is added to the quotient.
LEMMA MultipleAdded ==
  ASSUME NEW W \in Nat \ {0}, NEW a \in Int, NEW k \in Int
  PROVE  (a + k * W) \div W = (a \div W) + k /\ (a + k * W) % W = a % W
<1> DEFINE q == a \div W
           r == a % W
<1>1. r \in 0 .. W - 1 /\ q \in Int /\ a = q * W + r
  BY DivisionInt
<1> HIDE DEF q, r
<1>2. a + k * W = (q + k) * W + r
  BY <1>1
<1>3. (a + k * W) \div W = q + k /\ (a + k * W) % W = r
  BY <1>1, <1>2, QuotientIs
<1>4. QED BY <1>3 DEF q, r

\* A quotient's quotient.
LEMMA QuotientOfQuotient ==
  ASSUME NEW M \in Nat \ {0}, NEW N \in Nat \ {0}, NEW a \in Int
  PROVE  M * N \in Nat \ {0} /\ (a \div M) \div N = a \div (M * N)
<1> DEFINE q == a \div M
           r == a % M
           p == q \div N
           s == q % N
           t == s * M + r
<1>1. r \in 0 .. M - 1 /\ q \in Int /\ a = q * M + r
  BY DivisionInt
<1>2. s \in 0 .. N - 1 /\ p \in Int /\ q = p * N + s
  BY <1>1, DivisionInt
<1> HIDE DEF q, r, p, s
<1>3. a = p * (M * N) + t
  BY <1>1, <1>2
<1>4. M * N \in Nat \ {0}
  OBVIOUS
<1>5. t \in 0 .. M * N - 1
  <2>1. s * M >= 0 /\ (N - 1 - s) * M >= 0
    BY <1>2
  <2>2. (N - 1 - s) * M = M * N - M - s * M
    BY <1>2
  <2>3. QED BY <1>1, <1>2, <2>1, <2>2
<1> HIDE DEF t
<1>6. a \div (M * N) = p
  BY <1>2, <1>3, <1>4, <1>5, QuotientIs
<1>7. QED BY <1>4, <1>6 DEF p, q

\* Integers less than W apart are not congruent.
LEMMA NotCongruent ==
  ASSUME NEW W \in Nat \ {0}, NEW x \in Int, NEW y \in Int, x # y, x - y < W, y - x < W
  PROVE  x % W # y % W
<1> DEFINE p == x \div W
           q == y \div W
           r == y % W
<1>1. p \in Int /\ q \in Int /\ r \in 0 .. W - 1 /\ y = q * W + r /\ x = p * W + (x % W)
  BY DivisionInt
<1>2. SUFFICES ASSUME x % W = r PROVE FALSE
  OBVIOUS
<1> HIDE DEF p, q, r
<1>3. x = p * W + r
  BY <1>1, <1>2
<1>4. x - y = (p - q) * W /\ y - x = (q - p) * W
  <2>1. (p - q) * W = p * W - q * W /\ (q - p) * W = q * W - p * W
        /\ p * W \in Int /\ q * W \in Int
    BY <1>1
  <2>2. QED BY <1>1, <1>3, <2>1
<1>5. CASE p - q >= 1
  <2>1. (p - q) * W >= W
    BY <1>1, <1>5, MultipleAtLeast
  <2>2. QED BY <1>1, <1>4, <2>1
<1>6. CASE q - p >= 1
  <2>1. (q - p) * W >= W
    BY <1>1, <1>6, MultipleAtLeast
  <2>2. QED BY <1>1, <1>4, <2>1
<1>7. CASE p = q
  BY <1>1, <1>3, <1>7
<1>8. QED BY <1>1, <1>5, <1>6, <1>7

-----------------------------------------------------------------------------
(* Powers of two.                                                          *)

\* The library knows a power of two as the number of subsets of a set.
LEMMA PowerZero == 2^0 = 1
<1>1. IsFiniteSet({}) /\ Cardinality({}) = 0
  BY FS_EmptySet
<1>2. Cardinality(SUBSET {}) = 2^0
  BY <1>1, FS_SUBSET
<1>3. SUBSET {} = {{}}
  OBVIOUS
<1>4. Cardinality({{}}) = 1
  BY FS_Singleton
<1>5. QED BY <1>2, <1>3, <1>4

\* One more element, twice as many subsets.
LEMMA PowerSuccessor ==
  ASSUME NEW n \in Nat
  PROVE  2^n \in Nat /\ 2^(n + 1) = 2 * 2^n
<1> DEFINE S == 1 .. n
           A == SUBSET S
           B == {T \cup {n + 1} : T \in SUBSET S}
           f == [T \in A |-> T \cup {n + 1}]
<1>1. IsFiniteSet(S) /\ Cardinality(S) = n
  BY FS_Interval
<1>2. IsFiniteSet(1 .. n + 1) /\ Cardinality(1 .. n + 1) = n + 1
  BY FS_Interval
<1>3. IsFiniteSet(A) /\ Cardinality(A) = 2^n
  BY <1>1, FS_SUBSET
<1>4. Cardinality(SUBSET (1 .. n + 1)) = 2^(n + 1)
  BY <1>2, FS_SUBSET
<1>5. f \in Bijection(A, B)
  <2>1. f \in Surjection(A, B)
    BY DEF Surjection
  <2>2. ASSUME NEW T \in A, NEW U \in A, f[T] = f[U] PROVE T = U
    <3>1. T \cup {n + 1} = U \cup {n + 1} /\ n + 1 \notin T /\ n + 1 \notin U
      BY <2>2
    <3>2. QED BY <3>1
  <2>3. QED BY <2>1, <2>2 DEF Surjection, Bijection, Injection, IsInjective
<1>6. IsFiniteSet(B) /\ Cardinality(B) = 2^n
  BY <1>3, <1>5, FS_Bijection DEF ExistsBijection
<1>7. SUBSET (1 .. n + 1) = A \cup B
  <2>1. ASSUME NEW T \in SUBSET (1 .. n + 1) PROVE T \in A \cup B
    <3>1. CASE n + 1 \in T
      <4>1. T \ {n + 1} \in A /\ T = (T \ {n + 1}) \cup {n + 1}
        BY <3>1
      <4>2. QED BY <4>1
    <3>2. CASE n + 1 \notin T
      BY <3>2
    <3>3. QED BY <3>1, <3>2
  <2>2. ASSUME NEW T \in A PROVE T \in SUBSET (1 .. n + 1) /\ T \cup {n + 1} \in SUBSET (1 .. n + 1)
    OBVIOUS
  <2>3. A \subseteq SUBSET (1 .. n + 1) /\ B \subseteq SUBSET (1 .. n + 1)
    BY <2>2
  <2> HIDE DEF A, B
  <2>4. QED BY <2>1, <2>3
<1>8. A \cap B = {}
  OBVIOUS
<1> HIDE DEF A, B
<1>9. Cardinality({}) = 0 /\ 2^n \in Nat
  BY <1>3, FS_EmptySet, FS_CardinalityType
<1>10. Cardinality(A \cup B) = 2^n + 2^n
  <2>1. Cardinality(A \cup B) = Cardinality(A) + Cardinality(B) - Cardinality(A \cap B)
    BY <1>3, <1>6, FS_Union
  <2>2. Cardinality(A \cap B) = 0 /\ Cardinality(A) = 2^n /\ Cardinality(B) = 2^n
    BY <1>3, <1>6, <1>8, <1>9
  <2>3. QED BY <2>1, <2>2, <1>9
<1>11. 2^(n + 1) = 2^n + 2^n
  BY <1>4, <1>7, <1>10
<1>12. QED BY <1>9, <1>11

\* Powers of two are positive, and those of a sum are products.
LEMMA Powers ==
  ASSUME NEW m \in Nat, NEW n \in Nat
  PROVE  /\ 2^n \in Nat \ {0}
         /\ 2^(m + n) = 2^m * 2^n
         /\ n < 2^n
<1> DEFINE Bad == {k \in Nat : ~ (/\ 2^k \in Nat \ {0}
                                 /\ 2^(m + k) = 2^m * 2^k
                                 /\ k < 2^k)}
<1>1. Bad = {}
  <2>1. SUFFICES ASSUME Bad # {} PROVE FALSE
    OBVIOUS
  <2>2. PICK k \in Bad : \A j \in Bad : k =< j
    BY <2>1, LeastNat
  <2>3. 2^m \in Nat
    BY PowerSuccessor
  <2>4. CASE k = 0
    <3>1. m + k = m
      BY <2>4
    <3>2. QED BY <2>2, <2>3, <2>4, <3>1, PowerZero
  <2>5. CASE k # 0
    <3> DEFINE j == k - 1
    <3>1. j \in Nat /\ k = j + 1 /\ j \notin Bad
      BY <2>2, <2>5
    <3> HIDE DEF j
    <3>2. 2^j \in Nat \ {0} /\ 2^(m + j) = 2^m * 2^j /\ j < 2^j
      BY <3>1
    <3>3. 2^k = 2 * 2^j
      BY <3>1, PowerSuccessor
    <3>4. 2^(m + k) = 2 * 2^(m + j)
      <4>1. m + j \in Nat /\ (m + j) + 1 = m + k
        BY <3>1
      <4>2. 2^((m + j) + 1) = 2 * 2^(m + j)
        BY <4>1, PowerSuccessor
      <4>3. QED BY <4>1, <4>2
    <3>5. 2^(m + k) = 2^m * 2^k
      BY <2>3, <3>2, <3>3, <3>4
    <3>6. 2^k \in Nat \ {0} /\ k < 2^k
      BY <3>1, <3>2, <3>3
    <3>7. QED BY <2>2, <3>5, <3>6
  <2>6. QED BY <2>4, <2>5
<1>2. QED BY <1>1

\* Larger exponents make larger powers.
LEMMA PowersGrow ==
  ASSUME NEW m \in Nat, NEW n \in Nat, m =< n
  PROVE  /\ n - m \in Nat
         /\ 2^n = 2^(n - m) * 2^m
         /\ 2^m =< 2^n
<1>1. n - m \in Nat /\ (n - m) + m = n
  OBVIOUS
<1>2. 2^((n - m) + m) = 2^(n - m) * 2^m /\ 2^m \in Nat \ {0} /\ 2^(n - m) \in Nat \ {0}
  BY <1>1, Powers
<1>3. 2^(n - m) * 2^m >= 2^m
  BY <1>2, MultipleAtLeast
<1>4. QED BY <1>1, <1>2, <1>3

\* The first powers.
LEMMA SmallPowers == 2^0 = 1 /\ 2^1 = 2 /\ 2^2 = 4 /\ 2^3 = 8 /\ 2^4 = 16
<1>1. 2^(0 + 1) = 2 * 2^0 /\ 2^(1 + 1) = 2 * 2^1
  BY PowerSuccessor
<1>2. 2^(2 + 1) = 2 * 2^2 /\ 2^(3 + 1) = 2 * 2^3
  BY PowerSuccessor
<1>3. 0 + 1 = 1 /\ 1 + 1 = 2 /\ 2 + 1 = 3 /\ 3 + 1 = 4
  OBVIOUS
<1>4. QED BY <1>1, <1>2, <1>3, PowerZero

-----------------------------------------------------------------------------
(* Bits of an integer, of which two's complement has infinitely many.      *)

\* A bit is zero or one, and with the bits above it makes up the rest of the
\* number.
LEMMA BitValue ==
  ASSUME NEW x \in Int, NEW p \in Nat
  PROVE  /\ 2^p \in Nat \ {0} /\ x \div 2^p \in Int
         /\ BitOf(x, p) \in {0, 1}
         /\ x \div 2^p = 2 * (x \div 2^(p + 1)) + BitOf(x, p)
<1>1. 2^p \in Nat \ {0} /\ 2^(p + 1) = 2^p * 2
  BY Powers, PowerSuccessor
<1>2. x \div 2^p \in Int
  BY <1>1, DivisionInt
<1>3. (x \div 2^p) \div 2 = x \div (2^p * 2)
  <2>1. 2 \in Nat \ {0}
    OBVIOUS
  <2>2. QED BY <1>1, <2>1, QuotientOfQuotient
<1>4. \A y \in Int : y % 2 \in {0, 1} /\ y = 2 * (y \div 2) + (y % 2)
  OBVIOUS
<1>5. QED BY <1>1, <1>2, <1>3, <1>4 DEF BitOf

\* A right shift moves the bits down, also those of a negative number.
LEMMA BitOfQuotient ==
  ASSUME NEW x \in Int, NEW k \in Nat, NEW p \in Nat
  PROVE  /\ x \div 2^k \in Int
         /\ (x \div 2^k) \div 2^p = x \div 2^(p + k)
         /\ BitOf(x \div 2^k, p) = BitOf(x, p + k)
<1>1. 2^k \in Nat \ {0} /\ 2^p \in Nat \ {0} /\ 2^(k + p) = 2^k * 2^p /\ k + p = p + k
  BY Powers
<1>2. (x \div 2^k) \div 2^p = x \div (2^k * 2^p)
  BY <1>1, QuotientOfQuotient
<1>3. QED BY <1>1, <1>2, DivisionInt DEF BitOf

\* A left shift moves them up.
LEMMA BitOfMultiple ==
  ASSUME NEW x \in Int, NEW k \in Nat, NEW p \in Nat
  PROVE  BitOf(x * 2^k, p) = IF p < k THEN 0 ELSE BitOf(x, p - k)
<1>1. CASE p < k
  <2> DEFINE j == k - (p + 1)
  <2>1. j \in Nat /\ 2^k = 2^j * 2^(p + 1) /\ 2^(p + 1) = 2 * 2^p
        /\ 2^j \in Nat \ {0} /\ 2^p \in Nat \ {0}
    BY <1>1, PowersGrow, PowerSuccessor, Powers
  <2> HIDE DEF j
  <2>2. x * 2^k = 0 + (2 * (x * 2^j)) * 2^p
    BY <2>1
  <2>3. (0 + (2 * (x * 2^j)) * 2^p) \div 2^p = (0 \div 2^p) + 2 * (x * 2^j)
    BY <2>1, MultipleAdded
  <2>4. 0 \div 2^p = 0
    BY <2>1
  <2>5. (x * 2^k) \div 2^p = 2 * (x * 2^j)
    BY <2>1, <2>2, <2>3, <2>4
  <2>6. \A y \in Int : (2 * y) % 2 = 0
    OBVIOUS
  <2>7. QED BY <1>1, <2>1, <2>5, <2>6 DEF BitOf
<1>2. CASE p >= k
  <2>1. p - k \in Nat /\ (p - k) + k = p /\ 2^k \in Nat \ {0}
    BY <1>2, Powers
  <2>2. BitOf((x * 2^k) \div 2^k, p - k) = BitOf(x * 2^k, p)
    <3>1. x * 2^k \in Int
      BY <2>1
    <3>2. BitOf((x * 2^k) \div 2^k, p - k) = BitOf(x * 2^k, (p - k) + k)
      BY <2>1, <3>1, BitOfQuotient
    <3>3. QED BY <2>1, <3>2
  <2>3. (0 + x * 2^k) \div 2^k = (0 \div 2^k) + x /\ 0 \div 2^k = 0
    BY <2>1, MultipleAdded
  <2>4. (x * 2^k) \div 2^k = x
    BY <2>1, <2>3
  <2>5. QED BY <1>2, <2>2, <2>4
<1>3. QED BY <1>1, <1>2

\* A word keeps the bits it has room for.
LEMMA BitOfRemainder ==
  ASSUME NEW x \in Int, NEW w \in Nat, NEW p \in Nat, p < w
  PROVE  BitOf(x % 2^w, p) = BitOf(x, p)
<1> DEFINE j == w - (p + 1)
           q == x \div 2^w
           r == x % 2^w
           m == q * 2^j
<1>1. j \in Nat /\ 2^w = 2^j * 2^(p + 1) /\ 2^(p + 1) = 2 * 2^p
      /\ 2^j \in Nat \ {0} /\ 2^p \in Nat \ {0} /\ 2^w \in Nat \ {0}
  BY PowersGrow, PowerSuccessor, Powers
<1>2. r \in 0 .. 2^w - 1 /\ q \in Int /\ x = q * 2^w + r
  BY <1>1, DivisionInt
<1> HIDE DEF j, q, r
<1>3. m \in Int /\ x = r + (2 * m) * 2^p
  BY <1>1, <1>2
<1> HIDE DEF m
<1>4. (r + (2 * m) * 2^p) \div 2^p = (r \div 2^p) + 2 * m
  BY <1>1, <1>2, <1>3, MultipleAdded
<1>5. \A y \in Int : (y + 2 * m) % 2 = y % 2
  BY <1>3
<1>6. r \div 2^p \in Int
  BY <1>1, <1>2, DivisionInt
<1>7. BitOf(x, p) = BitOf(r, p)
  BY <1>3, <1>4, <1>5, <1>6 DEF BitOf
<1>8. QED BY <1>7 DEF r

\* A word has no bits beyond its own.
LEMMA BitsBeyond ==
  ASSUME NEW n \in Nat, NEW x \in WordOf(n), NEW p \in Nat, n =< p
  PROVE  x \in Nat /\ x < 2^p /\ x \div 2^p = 0 /\ BitOf(x, p) = 0
<1>1. 2^n \in Nat \ {0} /\ 2^p \in Nat \ {0} /\ 2^n =< 2^p
  BY Powers, PowersGrow
<1>2. x \in 0 .. 2^p - 1
  BY <1>1 DEF WordOf
<1>3. (0 * 2^p + x) \div 2^p = 0
  BY <1>1, <1>2, QuotientIs
<1>4. x \div 2^p = 0
  BY <1>1, <1>2, <1>3
<1>5. QED BY <1>1, <1>2, <1>4 DEF BitOf

\* Two words with the same bits are the same.
LEMMA BitsDetermine ==
  ASSUME NEW n \in Nat, NEW x \in WordOf(n), NEW y \in WordOf(n),
         \A p \in 0 .. n - 1 : BitOf(x, p) = BitOf(y, p)
  PROVE  x = y
<1>1. x \in Int /\ y \in Int /\ 2^n \in Nat
  BY Powers DEF WordOf
<1> DEFINE Bad == {k \in Nat : k =< n /\ x \div 2^(n - k) # y \div 2^(n - k)}
<1>2. Bad = {}
  <2>1. SUFFICES ASSUME Bad # {} PROVE FALSE
    OBVIOUS
  <2>2. PICK k \in Bad : \A j \in Bad : k =< j
    BY <2>1, LeastNat
  <2>3. CASE k = 0
    <3>1. x \div 2^n = 0 /\ y \div 2^n = 0
      BY BitsBeyond
    <3>2. n - 0 = n
      OBVIOUS
    <3>3. QED BY <2>2, <2>3, <3>1, <3>2
  <2>4. CASE k # 0
    <3> DEFINE p == n - k
    <3>1. p \in Nat /\ k \in Nat /\ p + 1 = n - (k - 1) /\ k - 1 \in Nat /\ k - 1 =< n
          /\ p \in 0 .. n - 1 /\ k - 1 \notin Bad
      BY <2>2, <2>4
    <3>2. x \div 2^(p + 1) = y \div 2^(p + 1)
      BY <3>1
    <3>3. BitOf(x, p) = BitOf(y, p)
      BY <3>1
    <3>4. x \div 2^p = 2 * (x \div 2^(p + 1)) + BitOf(x, p)
      BY <1>1, <3>1, BitValue
    <3>5. y \div 2^p = 2 * (y \div 2^(p + 1)) + BitOf(y, p)
      BY <1>1, <3>1, BitValue
    <3>6. x \div 2^p = y \div 2^p
      BY <3>2, <3>3, <3>4, <3>5
    <3>7. QED BY <2>2, <3>6
  <2>5. QED BY <2>3, <2>4
<1>3. n \notin Bad
  BY <1>2, Zenon
<1>4. x \div 2^0 = y \div 2^0
  <2>1. n - n = 0
    OBVIOUS
  <2>2. QED BY <1>3, <2>1
<1>5. \A z \in Int : z \div 1 = z
  OBVIOUS
<1>6. QED BY <1>1, <1>4, <1>5, PowerZero

\* The integer a word stands for is the word with its sign bit repeated.
LEMMA BitOfInt ==
  ASSUME NEW n \in Nat \ {0}, NEW v \in WordOf(n), NEW p \in Nat
  PROVE  /\ 2^n = 2 * 2^(n - 1) /\ 2^(n - 1) \in Nat \ {0}
         /\ IntOf(v, n) \in -(2^(n - 1)) .. 2^(n - 1) - 1
         /\ IntOf(v, n) % 2^n = v
         /\ IntOf(v, n) < 0 <=> BitOf(v, n - 1) = 1
         /\ BitOf(IntOf(v, n), p) = BitOf(v, IF p < n THEN p ELSE n - 1)
<1> DEFINE h == n - 1
           x == IntOf(v, n)
<1>1. h \in Nat /\ n = h + 1 /\ 2^n = 2 * 2^h /\ 2^h \in Nat \ {0}
  <2>1. h \in Nat /\ n = h + 1
    OBVIOUS
  <2> HIDE DEF h
  <2>2. 2^(h + 1) = 2 * 2^h /\ 2^h \in Nat \ {0}
    BY <2>1, PowerSuccessor, Powers
  <2>3. QED BY <2>1, <2>2
<1>2. v \in Int /\ v >= 0 /\ v < 2^n /\ x = IF v < 2^h THEN v ELSE v - 2^n
  BY <1>1 DEF WordOf, IntOf
<1>3. x \in -(2^h) .. 2^h - 1
  <2> HIDE DEF h, x
  <2>1. QED BY <1>1, <1>2
<1>4. x % 2^n = v
  <2> HIDE DEF h, x
  <2>1. v = x + (IF v < 2^h THEN 0 ELSE 1) * 2^n
    BY <1>1, <1>2
  <2>2. (x + (IF v < 2^h THEN 0 ELSE 1) * 2^n) % 2^n = x % 2^n
    BY <1>1, <1>3, MultipleAdded
  <2>3. v % 2^n = v
    BY <1>1, <1>2, ModInRange
  <2>4. QED BY <2>1, <2>2, <2>3
<1>5. BitOf(v, h) = IF v < 2^h THEN 0 ELSE 1
  <2> HIDE DEF h, x
  <2>1. CASE v < 2^h
    <3>1. v \in WordOf(h)
      BY <1>1, <1>2, <2>1 DEF WordOf
    <3>2. QED BY <1>1, <2>1, <3>1, BitsBeyond
  <2>2. CASE ~ (v < 2^h)
    <3>1. v - 2^h \in 0 .. 2^h - 1 /\ v = 1 * 2^h + (v - 2^h)
      BY <1>1, <1>2, <2>2
    <3>2. v \div 2^h = 1
      BY <1>1, <1>2, <3>1, QuotientOf
    <3>3. 1 % 2 = 1
      OBVIOUS
    <3>4. QED BY <2>2, <3>1, <3>2, <3>3 DEF BitOf
  <2>3. QED BY <2>1, <2>2
<1>6. CASE p < n
  <2>1. BitOf(x % 2^n, p) = BitOf(x, p)
    BY <1>1, <1>3, <1>6, BitOfRemainder
  <2> HIDE DEF h, x
  <2>2. QED BY <1>1, <1>2, <1>3, <1>4, <1>5, <1>6, <2>1 DEF h, x
<1>7. CASE ~ (p < n)
  <2> HIDE DEF h, x
  <2>1. h =< p /\ 2^h =< 2^p /\ 2^p \in Nat \ {0}
    <3>1. h =< p
      BY <1>1, <1>7
    <3>2. QED BY <1>1, <3>1, PowersGrow, Powers
  <2>2. CASE v < 2^h
    <3>1. v \in WordOf(h) /\ x = v
      BY <1>1, <1>2, <2>2 DEF WordOf
    <3>2. BitOf(x, p) = 0
      BY <1>1, <2>1, <3>1, BitsBeyond
    <3>3. QED BY <1>1, <1>2, <1>3, <1>4, <1>5, <1>7, <2>2, <3>2 DEF h, x
  <2>3. CASE ~ (v < 2^h)
    <3>1. x + 2^p \in 0 .. 2^p - 1 /\ x = (-1) * 2^p + (x + 2^p)
      BY <1>1, <1>2, <1>3, <2>1, <2>3
    <3>2. x \div 2^p = -1
      BY <1>3, <2>1, <3>1, QuotientOf
    <3>3. \A y \in Int : (-1 - y) % 2 = 1 - (y % 2)
      OBVIOUS
    <3>4. -1 - 0 = -1 /\ 0 % 2 = 0
      OBVIOUS
    <3>5. BitOf(x, p) = 1
      BY <3>2, <3>3, <3>4 DEF BitOf
    <3>6. QED BY <1>1, <1>2, <1>3, <1>4, <1>5, <1>7, <2>3, <3>5 DEF h, x
  <2>4. QED BY <2>2, <2>3
<1>8. QED BY <1>6, <1>7

\* The bits of a complement are the other ones.
LEMMA BitOfComplement ==
  ASSUME NEW n \in Nat, NEW x \in WordOf(n), NEW p \in 0 .. n - 1
  PROVE  /\ 2^n - 1 - x \in WordOf(n)
         /\ BitOf(2^n - 1 - x, p) = 1 - BitOf(x, p)
<1> DEFINE y == -1 - x
           z == 2^n - 1 - x
           q == x \div 2^p
           r == x % 2^p
           s == 2^p - 1 - r
<1>1. 2^n \in Nat \ {0} /\ 2^p \in Nat \ {0} /\ x \in Int /\ 0 =< x /\ x < 2^n /\ p \in Nat
      /\ n \in Nat /\ p < n
  BY Powers DEF WordOf
<1>2. r \in 0 .. 2^p - 1 /\ q \in Int /\ x = q * 2^p + r
  BY <1>1, DivisionInt
<1>3. BitOf(x, p) = q % 2
  BY DEF BitOf
<1>4. z \in Int /\ y \in Int /\ 0 =< z /\ z < 2^n /\ y = (-1) * 2^n + z /\ z \in WordOf(n)
  BY <1>1 DEF WordOf
<1> HIDE DEF q, r
<1>5. s \in Int /\ 0 =< s /\ s < 2^p /\ -1 - q \in Int /\ y = (-1 - q) * 2^p + s
  BY <1>1, <1>2
<1> HIDE DEF s, y, z
<1>6. y \div 2^p = -1 - q
  BY <1>1, <1>4, <1>5, QuotientOf
<1>7. \A i \in Int : (-1 - i) % 2 = 1 - (i % 2)
  OBVIOUS
<1>8. BitOf(y, p) = 1 - BitOf(x, p)
  BY <1>2, <1>3, <1>6, <1>7 DEF BitOf
<1>9. y % 2^n = z
  BY <1>1, <1>4, QuotientOf
<1>10. BitOf(y % 2^n, p) = BitOf(y, p)
  BY <1>1, <1>4, BitOfRemainder
<1>11. QED BY <1>4, <1>8, <1>9, <1>10 DEF z

\* A power of two has one bit.
LEMMA BitOfPower ==
  ASSUME NEW q \in Nat, NEW p \in Nat
  PROVE  BitOf(2^q, p) = IF p = q THEN 1 ELSE 0
<1>1. 2^q = 1 * 2^q
  BY Powers
<1>2. BitOf(1 * 2^q, p) = IF p < q THEN 0 ELSE BitOf(1, p - q)
  BY BitOfMultiple
<1>3. BitOf(1, 0) = 1
  <2>1. (1 \div 1) % 2 = 1
    OBVIOUS
  <2>2. QED BY <2>1, PowerZero DEF BitOf
<1>4. ASSUME p > q PROVE BitOf(1, p - q) = 0
  <2>1. 1 \in WordOf(1) /\ 1 =< p - q /\ p - q \in Nat
    BY <1>4, SmallPowers DEF WordOf
  <2>2. QED BY <2>1, BitsBeyond
<1>5. p = q => p - q = 0
  OBVIOUS
<1>6. QED BY <1>1, <1>2, <1>3, <1>4, <1>5

-----------------------------------------------------------------------------
(* Bitwise.                                                                *)

\* A number can be put together from its last digit, here one of two.
LEMMA DigitsExist ==
  ASSUME NEW N \in Nat, NEW end \in SUBSET (0 .. N), NEW d \in [0 .. N -> {0, 1}],
         N \in end
  PROVE  \E f \in [0 .. N -> Nat] : \A p \in 0 .. N :
           f[p] = IF p \in end THEN 0 ELSE 2 * f[p + 1] + d[p]
<1> DEFINE Right(f, p) == f[p] = IF p \in end THEN 0 ELSE 2 * f[p + 1] + d[p]
           Bad == {k \in Nat : k =< N /\ ~ \E f \in [0 .. N -> Nat] :
                                            \A p \in N - k .. N : Right(f, p)}
<1>1. Bad = {}
  <2>1. SUFFICES ASSUME Bad # {} PROVE FALSE
    OBVIOUS
  <2>2. PICK k \in Bad : \A j \in Bad : k =< j
    BY <2>1, LeastNat
  <2>3. k \in Nat /\ k =< N
    OBVIOUS
  <2>4. CASE k = 0
    <3> DEFINE f == [p \in 0 .. N |-> 0]
    <3>1. f \in [0 .. N -> Nat] /\ f[N] = 0
      OBVIOUS
    <3> HIDE DEF f
    <3>2. \A p \in N - 0 .. N : p = N
      OBVIOUS
    <3>3. \A p \in N - 0 .. N : Right(f, p)
      BY <3>1, <3>2
    <3> HIDE DEF Right
    <3>4. QED BY <2>2, <2>4, <3>1, <3>3
  <2>5. CASE k # 0
    <3> DEFINE q == N - k
    <3>1. k - 1 \in Nat /\ k - 1 =< N /\ k - 1 < k /\ N - (k - 1) = q + 1
          /\ q \in 0 .. N /\ q + 1 \in 0 .. N /\ q \in Nat
      BY <2>3, <2>5
    <3>2. PICK g \in [0 .. N -> Nat] : \A p \in q + 1 .. N : Right(g, p)
      <4> HIDE DEF Right, q
      <4>1. k - 1 \notin Bad
        <5> HIDE DEF Bad
        <5>1. QED BY <2>2, <2>3, <3>1
      <4>2. QED BY <3>1, <4>1
    <3> DEFINE x == IF q \in end THEN 0 ELSE 2 * g[q + 1] + d[q]
               f == [p \in 0 .. N |-> IF p = q THEN x ELSE g[p]]
    <3> HIDE DEF q
    <3>3. x \in Nat
      <4>1. g[q + 1] \in Nat /\ d[q] \in {0, 1}
        BY <3>1
      <4>2. QED BY <4>1
    <3> HIDE DEF x
    <3>4. f \in [0 .. N -> Nat] /\ f[q] = x /\ \A p \in q + 1 .. N : f[p] = g[p]
      BY <3>1, <3>3
    <3> HIDE DEF f
    <3>5. ASSUME NEW p \in N - k .. N PROVE Right(f, p)
      <4>1. CASE p = q
        <5>1. f[q + 1] = g[q + 1]
          BY <3>1, <3>4
        <5>2. QED BY <3>4, <4>1, <5>1 DEF x
      <4>2. CASE p # q /\ p < N
        <5>1. p \in q + 1 .. N /\ p + 1 \in q + 1 .. N
          BY <2>3, <3>5, <4>2 DEF q
        <5>2. f[p] = g[p] /\ f[p + 1] = g[p + 1] /\ Right(g, p)
          BY <3>2, <3>4, <5>1
        <5>3. QED BY <5>2
      <4>3. CASE p # q /\ p = N
        <5>1. p \in q + 1 .. N
          BY <2>3, <3>5, <4>3 DEF q
        <5>2. f[p] = g[p] /\ Right(g, p) /\ p \in end
          BY <3>2, <3>4, <4>3, <5>1
        <5>3. QED BY <5>2
      <4>4. QED BY <2>3, <3>5, <4>1, <4>2, <4>3
    <3> HIDE DEF Right
    <3>6. QED BY <2>2, <3>4, <3>5
  <2>6. QED BY <2>4, <2>5
<1>2. N \notin Bad
  BY <1>1, Zenon
<1> HIDE DEF Right
<1>3. \E f \in [0 .. N -> Nat] : \A p \in 0 .. N : Right(f, p)
  <2>1. N - N = 0
    OBVIOUS
  <2>2. QED BY <1>2, <2>1
<1>4. QED BY <1>3 DEF Right

\* The tables of the operators: no bit is made of two that are not there.
Table(t) == t \in [0 .. 2 -> {0, 1}] /\ t[0] = 0

\* The bits of a combination are the combined bits.
LEMMA BitOfBitwise ==
  ASSUME NEW a \in Nat, NEW b \in Nat, NEW t, Table(t)
  PROVE  /\ Bitwise(a, b, t) \in Nat
         /\ \A p \in Nat : BitOf(Bitwise(a, b, t), p) = t[BitOf(a, p) + BitOf(b, p)]
         /\ \A n \in Nat : a \in WordOf(n) /\ b \in WordOf(n) => Bitwise(a, b, t) \in WordOf(n)
<1> DEFINE N == a + b
           over(p) == a \div 2^p = 0 /\ b \div 2^p = 0
           D(p) == t[BitOf(a, p) + BitOf(b, p)]
           F == CHOOSE from : from = [p \in 0 .. N |->
                                IF a \div 2^p = 0 /\ b \div 2^p = 0 THEN 0
                                ELSE 2 * from[p + 1] + t[BitOf(a, p) + BitOf(b, p)]]
           G(p) == IF p =< N THEN F[p] ELSE 0
<1>1. Bitwise(a, b, t) = F[0]
  BY DEF Bitwise
<1>2. N \in Nat
  OBVIOUS
<1>3. \A p \in Nat : D(p) \in {0, 1}
  <2>1. \A i, j \in {0, 1} : i + j \in 0 .. 2
    OBVIOUS
  <2>2. ASSUME NEW p \in Nat PROVE BitOf(a, p) \in {0, 1} /\ BitOf(b, p) \in {0, 1}
    BY BitValue
  <2>3. QED BY <2>1, <2>2 DEF Table
<1>4. \A p \in Nat : over(p) => over(p + 1) /\ D(p) = 0
  <2> SUFFICES ASSUME NEW p \in Nat, over(p) PROVE over(p + 1) /\ D(p) = 0
    OBVIOUS
  <2>1. /\ a \div 2^p = 2 * (a \div 2^(p + 1)) + BitOf(a, p) /\ BitOf(a, p) \in {0, 1}
        /\ b \div 2^p = 2 * (b \div 2^(p + 1)) + BitOf(b, p) /\ BitOf(b, p) \in {0, 1}
        /\ a \div 2^(p + 1) \in Int /\ b \div 2^(p + 1) \in Int
    BY BitValue
  <2>2. \A i \in Int, e \in {0, 1} : 0 = 2 * i + e => i = 0 /\ e = 0
    OBVIOUS
  <2>3. BitOf(a, p) = 0 /\ BitOf(b, p) = 0 /\ over(p + 1)
    BY <2>1, <2>2
  <2>4. 0 + 0 = 0
    OBVIOUS
  <2>5. QED BY <2>3, <2>4 DEF Table
<1>5. \A p \in Nat : p >= N => over(p)
  <2> SUFFICES ASSUME NEW p \in Nat, p >= N PROVE over(p)
    OBVIOUS
  <2>1. p < 2^p /\ 2^p \in Nat
    BY Powers
  <2>2. a \in WordOf(p) /\ b \in WordOf(p)
    BY <2>1 DEF WordOf
  <2>3. QED BY <2>2, BitsBeyond
<1>6. F = [p \in 0 .. N |-> IF over(p) THEN 0 ELSE 2 * F[p + 1] + D(p)]
  <2> DEFINE end == {p \in 0 .. N : over(p)}
             d == [p \in 0 .. N |-> D(p)]
  <2>1. end \in SUBSET (0 .. N) /\ d \in [0 .. N -> {0, 1}] /\ N \in end
        /\ \A p \in 0 .. N : (p \in end <=> over(p)) /\ d[p] = D(p)
    <3> HIDE DEF D
    <3>1. \A p \in 0 .. N : p \in Nat
      OBVIOUS
    <3>2. N \in 0 .. N /\ N >= N
      OBVIOUS
    <3> HIDE DEF over, N
    <3>3. QED BY <1>2, <1>3, <1>5, <3>1, <3>2
  <2> HIDE DEF end, d, over, D
  <2>2. PICK f \in [0 .. N -> Nat] : \A p \in 0 .. N :
          f[p] = IF p \in end THEN 0 ELSE 2 * f[p + 1] + d[p]
    <3> HIDE DEF N
    <3>1. QED BY <1>2, <2>1, DigitsExist
  <2>3. f = [p \in 0 .. N |-> IF over(p) THEN 0 ELSE 2 * f[p + 1] + D(p)]
    <3> HIDE DEF N
    <3>1. QED BY <2>1, <2>2
  <2>4. QED BY <2>3 DEF over, D
<1> HIDE DEF F, over, D
<1>7. \A p \in 0 .. N : F[p] = IF over(p) THEN 0 ELSE 2 * F[p + 1] + D(p)
  BY <1>6
<1> HIDE DEF N
<1>8. \A p \in Nat : G(p) \in Nat
  <2> DEFINE Bad == {k \in Nat : k =< N /\ F[N - k] \notin Nat}
  <2>1. Bad = {}
    <3>1. SUFFICES ASSUME Bad # {} PROVE FALSE
      OBVIOUS
    <3>2. PICK k \in Bad : \A j \in Bad : k =< j
      BY <3>1, LeastNat
    <3> DEFINE q == N - k
    <3>3. k \in Nat /\ k =< N /\ q \in 0 .. N /\ q \in Nat /\ F[q] \notin Nat
      BY <1>2, <3>2
    <3>4. ~ over(q) /\ q # N
      <4> HIDE DEF q
      <4>1. ~ over(q)
        BY <1>7, <3>3
      <4>2. N >= N
        BY <1>2
      <4>3. QED BY <1>2, <1>5, <4>1, <4>2
    <3>5. k - 1 \in Nat /\ k - 1 =< N /\ k - 1 < k /\ N - (k - 1) = q + 1
      BY <1>2, <3>3, <3>4
    <3>6. F[q + 1] \in Nat
      BY <3>2, <3>5
    <3> HIDE DEF q
    <3>7. D(q) \in {0, 1} /\ F[q] = 2 * F[q + 1] + D(q)
      BY <1>3, <1>7, <3>3, <3>4
    <3>8. QED BY <3>3, <3>6, <3>7
  <2>2. ASSUME NEW p \in Nat, p =< N PROVE F[p] \in Nat
    <3>1. N - p \in Nat /\ N - p =< N /\ N - (N - p) = p
      BY <1>2, <2>2
    <3>2. N - p \notin Bad
      BY <2>1, Zenon
    <3>3. QED BY <3>1, <3>2
  <2>3. QED BY <2>2
<1>9. \A p \in Nat : G(p) = 2 * G(p + 1) + D(p)
  <2> SUFFICES ASSUME NEW p \in Nat PROVE G(p) = 2 * G(p + 1) + D(p)
    OBVIOUS
  <2>1. CASE over(p)
    <3>1. over(p + 1) /\ D(p) = 0
      BY <1>4, <2>1
    <3>2. G(p) = 0 /\ G(p + 1) = 0
      BY <1>2, <1>7, <2>1, <3>1
    <3>3. QED BY <3>1, <3>2
  <2>2. CASE ~ over(p)
    <3>1. p \in 0 .. N /\ p + 1 =< N /\ p =< N
      BY <1>2, <1>5, <2>2
    <3>2. QED BY <1>7, <2>2, <3>1
  <2>3. QED BY <2>1, <2>2
<1>10. 0 =< N
  BY <1>2
<1>11. Bitwise(a, b, t) = G(0)
  BY <1>1, <1>10
<1>12. \A p \in Nat : over(p) => G(p) = 0
  BY <1>2, <1>7
<1> HIDE DEF G
<1>13. \A p \in Nat : G(0) \div 2^p = G(p)
  <2> DEFINE Bad == {k \in Nat : G(0) \div 2^k # G(k)}
  <2>1. Bad = {}
    <3>1. SUFFICES ASSUME Bad # {} PROVE FALSE
      OBVIOUS
    <3>2. PICK k \in Bad : \A j \in Bad : k =< j
      BY <3>1, LeastNat
    <3>3. CASE k = 0
      <4>1. \A y \in Nat : y \div 1 = y
        OBVIOUS
      <4>2. QED BY <1>8, <3>2, <3>3, <4>1, PowerZero
    <3>4. CASE k # 0
      <4> DEFINE j == k - 1
      <4>1. j \in Nat /\ k = j + 1 /\ j \notin Bad
        BY <3>2, <3>4
      <4> HIDE DEF j
      <4>2. G(0) \div 2^j = G(j) /\ G(j) = 2 * G(k) + D(j) /\ D(j) \in {0, 1}
            /\ G(0) \in Int /\ G(k) \in Nat /\ k \in Nat
        BY <1>3, <1>8, <1>9, <4>1
      <4>3. G(0) \div 2^j = 2 * (G(0) \div 2^(j + 1)) + BitOf(G(0), j)
            /\ BitOf(G(0), j) \in {0, 1}
        BY <4>1, <4>2, BitValue
      <4>4. G(0) \div 2^(j + 1) \in Int
        BY <4>1, <4>2, BitValue
      <4>5. G(0) \div 2^(j + 1) = G(k)
        BY <4>2, <4>3, <4>4
      <4>6. QED BY <3>2, <4>1, <4>5
    <3>5. QED BY <3>3, <3>4
  <2>2. QED BY <2>1
<1>14. ASSUME NEW p \in Nat PROVE BitOf(G(0), p) = D(p)
  <2>1. G(p) = 2 * G(p + 1) + D(p) /\ D(p) \in {0, 1} /\ G(p + 1) \in Nat /\ G(0) \div 2^p = G(p)
    BY <1>3, <1>8, <1>9, <1>13
  <2>2. \A y \in Nat, e \in {0, 1} : (2 * y + e) % 2 = e
    OBVIOUS
  <2>3. QED BY <2>1, <2>2 DEF BitOf
<1>15. ASSUME NEW n \in Nat, a \in WordOf(n), b \in WordOf(n)
       PROVE  G(0) \in WordOf(n)
  <2>1. over(n)
    <3>1. n =< n
      OBVIOUS
    <3>2. QED BY <1>15, <3>1, BitsBeyond DEF over
  <2>2. G(0) \div 2^n = 0 /\ G(0) \in Nat /\ 2^n \in Nat \ {0}
    BY <1>8, <1>12, <1>13, <2>1, Powers
  <2>3. G(0) \in Int
    BY <2>2
  <2>4. G(0) = (G(0) \div 2^n) * 2^n + (G(0) % 2^n) /\ G(0) % 2^n \in 0 .. 2^n - 1
    BY <2>2, <2>3, DivisionInt
  <2>5. QED BY <2>2, <2>4 DEF WordOf
<1>16. QED BY <1>8, <1>11, <1>14, <1>15 DEF D

\* The bits of a conjunction, a disjunction and an exclusive one.
LEMMA BitsCombine ==
  ASSUME NEW a \in Nat, NEW b \in Nat
  PROVE  /\ a & b \in Nat /\ a | b \in Nat /\ a ^^ b \in Nat
         /\ \A p \in Nat :
              /\ BitOf(a & b, p) = 1 <=> BitOf(a, p) = 1 /\ BitOf(b, p) = 1
              /\ BitOf(a | b, p) = 1 <=> BitOf(a, p) = 1 \/ BitOf(b, p) = 1
              /\ BitOf(a ^^ b, p) = 1 <=> BitOf(a, p) # BitOf(b, p)
         /\ \A n \in Nat : a \in WordOf(n) /\ b \in WordOf(n) =>
              a & b \in WordOf(n) /\ a | b \in WordOf(n) /\ a ^^ b \in WordOf(n)
<1> DEFINE and == [n \in 0 .. 2 |-> n \div 2]
           or  == [n \in 0 .. 2 |-> (n + 1) \div 2]
           xor == [n \in 0 .. 2 |-> n % 2]
<1>1. /\ and[0] = 0 /\ and[1] = 0 /\ and[2] = 1
      /\ or[0] = 0 /\ or[1] = 1 /\ or[2] = 1
      /\ xor[0] = 0 /\ xor[1] = 1 /\ xor[2] = 0
  OBVIOUS
<1>2. /\ and \in [0 .. 2 -> Int] /\ or \in [0 .. 2 -> Int] /\ xor \in [0 .. 2 -> Int]
  OBVIOUS
<1>3. a & b = Bitwise(a, b, and) /\ a | b = Bitwise(a, b, or) /\ a ^^ b = Bitwise(a, b, xor)
  BY DEF &, |, ^^
<1> HIDE DEF and, or, xor
<1>4. Table(and) /\ Table(or) /\ Table(xor)
  <2>1. 0 .. 2 = {0, 1, 2}
    OBVIOUS
  <2>2. \A f \in [0 .. 2 -> Int] :
          f[0] \in {0, 1} /\ f[1] \in {0, 1} /\ f[2] \in {0, 1} => f \in [0 .. 2 -> {0, 1}]
    BY <2>1
  <2>3. QED BY <1>1, <1>2, <2>2 DEF Table
<1>5. ASSUME NEW p \in Nat
      PROVE  /\ BitOf(a & b, p) = and[BitOf(a, p) + BitOf(b, p)]
             /\ BitOf(a | b, p) = or[BitOf(a, p) + BitOf(b, p)]
             /\ BitOf(a ^^ b, p) = xor[BitOf(a, p) + BitOf(b, p)]
  <2>1. ASSUME NEW t, Table(t)
        PROVE  BitOf(Bitwise(a, b, t), p) = t[BitOf(a, p) + BitOf(b, p)]
    <3>1. \A q \in Nat : BitOf(Bitwise(a, b, t), q) = t[BitOf(a, q) + BitOf(b, q)]
      BY <2>1, BitOfBitwise
    <3>2. QED BY <3>1
  <2>2. QED BY <1>3, <1>4, <2>1
<1>6. ASSUME NEW p \in Nat
      PROVE  BitOf(a, p) \in {0, 1} /\ BitOf(b, p) \in {0, 1}
  BY BitValue
<1>7. 0 + 0 = 0 /\ 0 + 1 = 1 /\ 1 + 0 = 1 /\ 1 + 1 = 2
  OBVIOUS
<1>8. ASSUME NEW p \in Nat
      PROVE  /\ BitOf(a & b, p) = 1 <=> BitOf(a, p) = 1 /\ BitOf(b, p) = 1
             /\ BitOf(a | b, p) = 1 <=> BitOf(a, p) = 1 \/ BitOf(b, p) = 1
             /\ BitOf(a ^^ b, p) = 1 <=> BitOf(a, p) # BitOf(b, p)
  BY <1>1, <1>5, <1>6, <1>7
<1>9. QED BY <1>3, <1>4, <1>8, BitOfBitwise

\* The conjunction alone.
LEMMA AndBits ==
  ASSUME NEW a \in Nat, NEW b \in Nat
  PROVE  /\ a & b \in Nat
         /\ \A p \in Nat : BitOf(a & b, p) = 1 <=> BitOf(a, p) = 1 /\ BitOf(b, p) = 1
         /\ \A n \in Nat : a \in WordOf(n) /\ b \in WordOf(n) => a & b \in WordOf(n)
<1>1. a & b \in Nat
  BY BitsCombine
<1>2. ASSUME NEW p \in Nat PROVE BitOf(a & b, p) = 1 <=> BitOf(a, p) = 1 /\ BitOf(b, p) = 1
  <2>1. \A q \in Nat : /\ BitOf(a & b, q) = 1 <=> BitOf(a, q) = 1 /\ BitOf(b, q) = 1
                       /\ BitOf(a | b, q) = 1 <=> BitOf(a, q) = 1 \/ BitOf(b, q) = 1
                       /\ BitOf(a ^^ b, q) = 1 <=> BitOf(a, q) # BitOf(b, q)
    BY BitsCombine, Zenon
  <2>2. QED BY <2>1, Zenon
<1>3. ASSUME NEW n \in Nat, a \in WordOf(n), b \in WordOf(n) PROVE a & b \in WordOf(n)
  BY <1>3, BitsCombine
<1>4. QED BY <1>1, <1>2, <1>3

\* The disjunction alone.
LEMMA OrBits ==
  ASSUME NEW a \in Nat, NEW b \in Nat
  PROVE  /\ a | b \in Nat
         /\ \A p \in Nat : BitOf(a | b, p) = 1 <=> BitOf(a, p) = 1 \/ BitOf(b, p) = 1
         /\ \A n \in Nat : a \in WordOf(n) /\ b \in WordOf(n) => a | b \in WordOf(n)
<1>1. a | b \in Nat
  BY BitsCombine
<1>2. ASSUME NEW p \in Nat PROVE BitOf(a | b, p) = 1 <=> BitOf(a, p) = 1 \/ BitOf(b, p) = 1
  <2>1. \A q \in Nat : /\ BitOf(a & b, q) = 1 <=> BitOf(a, q) = 1 /\ BitOf(b, q) = 1
                       /\ BitOf(a | b, q) = 1 <=> BitOf(a, q) = 1 \/ BitOf(b, q) = 1
                       /\ BitOf(a ^^ b, q) = 1 <=> BitOf(a, q) # BitOf(b, q)
    BY BitsCombine, Zenon
  <2>2. QED BY <2>1, Zenon
<1>3. ASSUME NEW n \in Nat, a \in WordOf(n), b \in WordOf(n) PROVE a | b \in WordOf(n)
  BY <1>3, BitsCombine
<1>4. QED BY <1>1, <1>2, <1>3

\* Words of which the same bits are set are the same.
LEMMA SameBits ==
  ASSUME NEW n \in Nat, NEW x \in WordOf(n), NEW y \in WordOf(n),
         \A p \in 0 .. n - 1 : BitOf(x, p) = 1 <=> BitOf(y, p) = 1
  PROVE  x = y
<1>1. x \in Int /\ y \in Int
  BY Powers DEF WordOf
<1>2. ASSUME NEW p \in 0 .. n - 1 PROVE BitOf(x, p) = BitOf(y, p)
  <2>1. BitOf(x, p) \in {0, 1} /\ BitOf(y, p) \in {0, 1}
    BY <1>1, BitValue
  <2>2. QED BY <2>1
<1>3. QED BY <1>2, BitsDetermine

\* A remainder is a word.
LEMMA RemainderIsWord ==
  ASSUME NEW n \in Nat, NEW x \in Int
  PROVE  x % 2^n \in WordOf(n)
BY Powers, DivisionInt DEF WordOf

\* How many words there are.
LEMMA WordSize ==
  \A w \in Nat \ {0} : 2^w \in Nat \ {0} /\ \A v \in WordOf(w) : v \in Nat /\ v < 2^w
BY Powers DEF WordOf

\* A word with no bits from some on is a smaller one.
LEMMA WordWithin ==
  ASSUME NEW m \in Nat, NEW n \in Nat, n =< m, NEW x \in WordOf(m),
         \A p \in n .. m - 1 : BitOf(x, p) # 1
  PROVE  x \in WordOf(n)
<1> DEFINE y == x % 2^n
<1>1. x \in Int
  BY Powers DEF WordOf
<1>2. y \in WordOf(n)
  BY <1>1, RemainderIsWord
<1>3. y \in WordOf(m)
  BY <1>2, Powers, PowersGrow DEF WordOf
<1>4. ASSUME NEW p \in 0 .. m - 1 PROVE BitOf(y, p) = 1 <=> BitOf(x, p) = 1
  <2>1. CASE p < n
    BY <1>1, <2>1, BitOfRemainder
  <2>2. CASE ~ (p < n)
    <3>1. BitOf(y, p) = 0
      <4> HIDE DEF y
      <4>1. QED BY <1>2, <2>2, BitsBeyond
    <3>2. QED BY <2>2, <3>1
  <2>3. QED BY <2>1, <2>2
<1> HIDE DEF y
<1>5. x = y
  BY <1>3, <1>4, SameBits
<1>6. QED BY <1>2, <1>5

-----------------------------------------------------------------------------
(* Remainders of powers of two.                                            *)

\* A multiple has no remainder.
LEMMA NoRemainder ==
  ASSUME NEW W \in Nat \ {0}, NEW d \in Int, NEW k \in Int, d = k * W
  PROVE  d % W = 0
<1>1. 0 =< 0 /\ 0 < W /\ d = k * W + 0
  OBVIOUS
<1>2. QED BY <1>1, QuotientOf

\* What truncation takes away is a multiple.
LEMMA Truncated ==
  ASSUME NEW x \in Int, NEW n \in Nat
  PROVE  \E q \in Int : x % 2^n = x - q * 2^n
<1> DEFINE W == 2^n
<1>1. W \in Nat \ {0}
  BY Powers
<1> HIDE DEF W
<1>2. x % W \in 0 .. W - 1 /\ x \div W \in Int /\ x = (x \div W) * W + (x % W)
  BY <1>1, DivisionInt
<1>3. x % W = x - (x \div W) * W
  BY <1>1, <1>2
<1>4. QED BY <1>2, <1>3 DEF W

\* A congruence.
LEMMA Congruent ==
  ASSUME NEW w \in Nat \ {0}, NEW v \in Int, NEW r, NEW k \in Int, r = v - k * 2^w
  PROVE  (v - r) % 2^w = 0
<1> DEFINE M == 2^w
<1>1. M \in Nat \ {0}
  BY WordSize
<1> HIDE DEF M
<1>2. v - r \in Int /\ v - r = k * M
  BY <1>1 DEF M
<1>3. QED BY <1>1, <1>2, NoRemainder DEF M

-----------------------------------------------------------------------------
(* LLVM's operators.                                                       *)

\* Extension makes a word, and so does truncation to less.
LEMMA WordsMade ==
  ASSUME NEW w \in Nat \ {0}, NEW x \in Int, NEW n \in Nat \ {0}, n =< w
  PROVE  /\ IntOf(x, n) \in Int /\ SExt(x, n, w) \in WordOf(w)
         /\ Trunc(x, n) \in WordOf(n) /\ WordOf(n) \subseteq WordOf(w)
         /\ Trunc(x, w) \in WordOf(w)
<1>1. n - 1 \in Nat /\ 2^n \in Nat \ {0} /\ 2^(n - 1) \in Nat \ {0} /\ 2^n =< 2^w
  <2>1. n - 1 \in Nat
    OBVIOUS
  <2>2. QED BY <2>1, WordSize, Powers, PowersGrow
<1>2. IntOf(x, n) \in Int
  BY <1>1 DEF IntOf
<1>3. IntOf(x, n) % 2^w \in WordOf(w) /\ x % 2^n \in WordOf(n) /\ x % 2^w \in WordOf(w)
  BY <1>2, WordSize, RemainderIsWord
<1>4. WordOf(n) \subseteq WordOf(w)
  BY <1>1, WordSize DEF WordOf
<1>5. QED BY <1>2, <1>3, <1>4 DEF SExt, Trunc

\* Shifts make words.
LEMMA ShiftsMade ==
  ASSUME NEW w \in Nat \ {0}, NEW a \in WordOf(w), NEW k \in Nat
  PROVE  LShr(a, k) \in WordOf(w) /\ Shl(a, k, w) \in WordOf(w) /\ AShr(a, k, w) \in WordOf(w)
<1>1. a \in Nat /\ a \in Int /\ a < 2^w /\ 2^w \in Nat /\ 2^k \in Nat \ {0}
  BY WordSize, Powers DEF WordOf
<1>2. LShr(a, k) \in WordOf(w)
  <2> DEFINE q == a \div 2^k
             r == a % 2^k
  <2>1. r \in 0 .. 2^k - 1 /\ q \in Int /\ a = q * 2^k + r
    BY <1>1, DivisionInt
  <2> HIDE DEF q, r
  <2>2. q >= 0
    <3>1. SUFFICES ASSUME -q >= 1 PROVE FALSE
      BY <2>1
    <3>2. (-q) * 2^k >= 2^k
      BY <1>1, <2>1, <3>1, MultipleAtLeast
    <3>3. (-q) * 2^k = -(q * 2^k)
      BY <1>1, <2>1
    <3>4. QED BY <1>1, <2>1, <3>2, <3>3
  <2>3. q * 2^k >= q
    BY <1>1, <2>1, <2>2
  <2>4. q \in 0 .. 2^w - 1
    BY <1>1, <2>1, <2>2, <2>3
  <2>5. QED BY <2>4, WordSize DEF LShr, WordOf, q
<1>3. a * 2^k \in Int /\ IntOf(a, w) \div 2^k \in Int
  <2>1. IntOf(a, w) \in Int
    BY <1>1, WordSize, WordsMade
  <2>2. QED BY <1>1, <2>1, DivisionInt
<1>4. QED BY <1>2, <1>3, WordSize, RemainderIsWord DEF Shl, AShr

\* An integer that is zero is the word that is.
LEMMA IntOfWord ==
  ASSUME NEW w \in Nat \ {0}, NEW a \in WordOf(w)
  PROVE  IntOf(a, w) \in Int /\ (IntOf(a, w) = 0 <=> a = 0)
<1>1. 2^w = 2 * 2^(w - 1) /\ 2^(w - 1) \in Nat \ {0} /\ a \in Nat /\ a < 2^w
  BY WordSize, BitOfInt DEF WordOf
<1>2. QED BY <1>1 DEF IntOf

\* A word differs from the integer it stands for by a multiple.
LEMMA IntIsWord ==
  ASSUME NEW w \in Nat \ {0}, NEW a \in WordOf(w)
  PROVE  IntOf(a, w) \in Int /\ \E q \in Int : IntOf(a, w) = a - q * 2^w
<1>1. a \in Int /\ 2^w \in Int /\ IntOf(a, w) \in Int
  BY WordSize, IntOfWord
<1>2. CASE IntOf(a, w) = a
  <2>1. IntOf(a, w) = a - 0 * 2^w
    BY <1>1, <1>2
  <2>2. QED BY <1>1, <2>1
<1>3. CASE IntOf(a, w) # a
  <2>1. IntOf(a, w) = a - 1 * 2^w
    BY <1>1, <1>3 DEF IntOf
  <2>2. QED BY <1>1, <2>1
<1>4. QED BY <1>2, <1>3

-----------------------------------------------------------------------------
(* Sets of bits.                                                           *)

\* Words are the same if their sets of bits are.
LEMMA SameSets ==
  ASSUME NEW w \in Nat \ {0}, NEW a \in WordOf(w), NEW b \in WordOf(w)
  PROVE  a = b <=> BitsOf(a, w) = BitsOf(b, w)
<1>1. w \in Nat /\ a \in WordOf(w) /\ b \in WordOf(w)
  BY WordSize
<1>2. ASSUME BitsOf(a, w) = BitsOf(b, w) PROVE a = b
  <2>1. \A p \in 0 .. w - 1 : p \in BitsOf(a, w) <=> BitOf(a, p) = 1
    BY DEF BitsOf
  <2>2. \A p \in 0 .. w - 1 : p \in BitsOf(b, w) <=> BitOf(b, p) = 1
    BY DEF BitsOf
  <2>3. \A p \in 0 .. w - 1 : BitOf(a, p) = 1 <=> BitOf(b, p) = 1
    BY <1>2, <2>1, <2>2
  <2>4. QED BY <1>1, <2>3, SameBits
<1>3. QED BY <1>2

\* What is in the set of a word's bits.
LEMMA BitSets ==
  ASSUME NEW w, NEW v
  PROVE  /\ BitsOf(v, w) \subseteq 0 .. w - 1
         /\ \A p \in 0 .. w - 1 : p \in BitsOf(v, w) <=> BitOf(v, p) = 1
BY DEF BitsOf

\* The bits of an extended pattern are those of the pattern, the last repeated.
LEMMA ExtensionBits ==
  ASSUME NEW w \in Nat \ {0}, NEW v \in Nat, NEW n \in Nat \ {0}, n =< w
  PROVE  LET Extended == {p \in 0 .. w - 1 : (IF p < n THEN p ELSE n - 1) \in BitsOf(v, w)}
         IN  /\ BitsOf(SExt(Trunc(v, n), n, w), w) = Extended
             /\ v \in WordOf(n) => BitsOf(SExt(v, n, w), w) = Extended
<1> DEFINE Place(p) == IF p < n THEN p ELSE n - 1
           Extended == {p \in 0 .. w - 1 : Place(p) \in BitsOf(v, w)}
<1>1. 2^n \in Nat \ {0} /\ v \in Int /\ w \in Nat
  BY Powers
<1>2. \A p \in 0 .. w - 1 : Place(p) \in 0 .. w - 1 /\ Place(p) \in Nat /\ Place(p) < n
  BY <1>1
<1>3. ASSUME NEW u \in WordOf(n), NEW p \in 0 .. w - 1
      PROVE  BitOf(SExt(u, n, w), p) = BitOf(u, Place(p))
  <2> DEFINE x == IntOf(u, n)
  <2>1. /\ x \in -(2^(n - 1)) .. 2^(n - 1) - 1 /\ 2^(n - 1) \in Nat \ {0}
        /\ BitOf(x, p) = BitOf(u, IF p < n THEN p ELSE n - 1)
    BY BitOfInt
  <2>2. x \in Int /\ p \in Nat /\ p < w
    BY <1>1, <2>1
  <2> HIDE DEF x
  <2>3. BitOf(x % 2^w, p) = BitOf(x, p)
    BY <1>1, <2>2, BitOfRemainder
  <2>4. QED BY <2>1, <2>3 DEF SExt, x
<1> HIDE DEF Place
<1>4. v % 2^n \in WordOf(n)
  BY <1>1, RemainderIsWord
<1>5. \A q \in Nat : q < n => BitOf(v % 2^n, q) = BitOf(v, q)
  BY <1>1, BitOfRemainder
<1>6. \A p \in 0 .. w - 1 : p \in Extended <=> BitOf(v, Place(p)) = 1
  BY <1>2, BitSets
<1>7. ASSUME NEW u \in WordOf(n), \A q \in Nat : q < n => BitOf(u, q) = BitOf(v, q)
      PROVE  BitsOf(SExt(u, n, w), w) = Extended
  <2>1. \A p \in 0 .. w - 1 :
          p \in BitsOf(SExt(u, n, w), w) <=> BitOf(u, Place(p)) = 1
    <3>1. \A p \in 0 .. w - 1 :
            p \in BitsOf(SExt(u, n, w), w) <=> BitOf(SExt(u, n, w), p) = 1
      BY BitSets
    <3>2. QED BY <1>3, <3>1
  <2>2. \A p \in 0 .. w - 1 : BitOf(u, Place(p)) = BitOf(v, Place(p))
    BY <1>2, <1>7
  <2>3. BitsOf(SExt(u, n, w), w) \subseteq 0 .. w - 1 /\ Extended \subseteq 0 .. w - 1
    BY BitSets
  <2> HIDE DEF Extended
  <2>4. QED BY <1>6, <2>1, <2>2, <2>3
<1>8. QED BY <1>4, <1>5, <1>7 DEF Trunc, Place

\* What the logical operators make of them.
LEMMA LogicSets ==
  ASSUME NEW w \in Nat \ {0}, NEW u \in Nat, NEW v \in Nat
  PROVE  /\ BitsOf(u & v, w) = BitsOf(u, w) \cap BitsOf(v, w)
         /\ BitsOf(u | v, w) = BitsOf(u, w) \cup BitsOf(v, w)
         /\ \A p \in 0 .. w - 1 :
              p \in BitsOf(u ^^ v, w) <=> (p \in BitsOf(u, w)) # (p \in BitsOf(v, w))
<1> DEFINE R == 0 .. w - 1
<1>1. \A p \in Nat :
        /\ BitOf(u & v, p) = 1 <=> BitOf(u, p) = 1 /\ BitOf(v, p) = 1
        /\ BitOf(u | v, p) = 1 <=> BitOf(u, p) = 1 \/ BitOf(v, p) = 1
        /\ BitOf(u ^^ v, p) = 1 <=> BitOf(u, p) # BitOf(v, p)
  BY BitsCombine
<1>2. \A p \in Nat : BitOf(u, p) \in {0, 1} /\ BitOf(v, p) \in {0, 1}
  <2>1. u \in Int /\ v \in Int
    OBVIOUS
  <2>2. QED BY <2>1, BitValue
<1>3. \A x : BitsOf(x, w) \subseteq R /\ \A p \in R : p \in BitsOf(x, w) <=> BitOf(x, p) = 1
  BY BitSets
<1>4. \A p \in R : p \in Nat
  OBVIOUS
<1> HIDE DEF R
<1>5. BitsOf(u & v, w) = BitsOf(u, w) \cap BitsOf(v, w)
  BY <1>1, <1>3, <1>4
<1>6. BitsOf(u | v, w) = BitsOf(u, w) \cup BitsOf(v, w)
  BY <1>1, <1>3, <1>4
<1>7. \A p \in R : p \in BitsOf(u ^^ v, w) <=> ~ (p \in BitsOf(u, w) <=> p \in BitsOf(v, w))
  BY <1>1, <1>2, <1>3, <1>4
<1>8. QED BY <1>5, <1>6, <1>7 DEF R

\* The bits of a shifted word, one by one.
LEMMA ShiftedBits ==
  ASSUME NEW w \in Nat \ {0}, NEW a \in WordOf(w), NEW k \in 0 .. w, NEW p \in 0 .. w - 1
  PROVE  /\ BitOf(Shl(a, k, w), p) = IF p < k THEN 0 ELSE BitOf(a, p - k)
         /\ BitOf(LShr(a, k), p) = BitOf(a, p + k)
         /\ w =< p + k => BitOf(a, p + k) = 0
         /\ BitOf(AShr(a, k, w), p) =
              BitOf(a, IF p + k < w THEN p + k ELSE w - 1)
         /\ IntOf(a, w) < 0 <=> BitOf(a, w - 1) = 1
<1>1. a \in Int /\ k \in Nat /\ p \in Nat /\ p < w /\ w \in Nat \ {0} /\ a \in WordOf(w)
      /\ 2^k \in Nat \ {0} /\ p + k \in Nat
  BY WordSize, Powers
<1>2. BitOf(Shl(a, k, w), p) = IF p < k THEN 0 ELSE BitOf(a, p - k)
  <2> DEFINE x == a * 2^k
  <2>1. x \in Int
    BY <1>1
  <2>2. BitOf(x, p) = IF p < k THEN 0 ELSE BitOf(a, p - k)
    BY <1>1, BitOfMultiple
  <2> HIDE DEF x
  <2>3. BitOf(x % 2^w, p) = BitOf(x, p)
    BY <1>1, <2>1, BitOfRemainder
  <2>4. QED BY <2>2, <2>3 DEF Shl, x
<1>3. BitOf(LShr(a, k), p) = BitOf(a, p + k)
  BY <1>1, BitOfQuotient DEF LShr
<1>4. w =< p + k => BitOf(a, p + k) = 0
  BY <1>1, BitsBeyond
<1>5. BitOf(AShr(a, k, w), p) = BitOf(a, IF p + k < w THEN p + k ELSE w - 1)
  <2> DEFINE x == IntOf(a, w)
             y == x \div 2^k
  <2>1. x \in Int
    BY IntOfWord
  <2>2. BitOf(x, p + k) = BitOf(a, IF p + k < w THEN p + k ELSE w - 1)
    BY <1>1, BitOfInt
  <2> HIDE DEF x
  <2>3. y \in Int /\ BitOf(y, p) = BitOf(x, p + k)
    BY <1>1, <2>1, BitOfQuotient
  <2> HIDE DEF y
  <2>4. BitOf(y % 2^w, p) = BitOf(y, p)
    BY <1>1, <2>3, BitOfRemainder
  <2>5. QED BY <2>2, <2>3, <2>4 DEF AShr, x, y
<1>6. IntOf(a, w) < 0 <=> BitOf(a, w - 1) = 1
  BY <1>1, BitOfInt
<1>7. QED BY <1>2, <1>3, <1>4, <1>5, <1>6

\* The set of them.
LEMMA ShiftedSets ==
  ASSUME NEW w \in Nat \ {0}, NEW a \in WordOf(w), NEW k \in 0 .. w - 1
  PROVE  LET R == 0 .. w - 1
             Signs == IF IntOf(a, w) < 0 THEN w - k .. w - 1 ELSE {}
         IN  /\ BitsOf(Shl(a, k, w), w) = {p + k : p \in BitsOf(a, w)} \cap R
             /\ BitsOf(LShr(a, k), w) = {p + (-k) : p \in BitsOf(a, w)} \cap R
             /\ BitsOf(AShr(a, k, w), w) = ({p + (-k) : p \in BitsOf(a, w)} \cap R) \cup Signs
<1> DEFINE R == 0 .. w - 1
           Signs == IF IntOf(a, w) < 0 THEN w - k .. w - 1 ELSE {}
<1>1. k \in R /\ k \in 0 .. w /\ w \in Nat \ {0} /\ BitsOf(a, w) \subseteq R
      /\ w - 1 \in R /\ k \in Nat
  BY WordSize, BitSets
<1>2. \A v : BitsOf(v, w) \subseteq R /\ \A p \in R : p \in BitsOf(v, w) <=> BitOf(v, p) = 1
  BY BitSets
<1>3. ASSUME NEW p \in R
      PROVE  /\ p \in {q + k : q \in BitsOf(a, w)} <=> p - k \in BitsOf(a, w)
             /\ p \in {q + (-k) : q \in BitsOf(a, w)} <=> p + k \in BitsOf(a, w)
             /\ p \in Signs <=> IntOf(a, w) < 0 /\ w =< p + k
  <2>1. \A q \in R : (p = q + k <=> q = p - k) /\ (p = q + (-k) <=> q = p + k)
    BY <1>1
  <2>2. p \in w - k .. w - 1 <=> w =< p + k
    BY <1>1
  <2>3. QED BY <1>1, <2>1, <2>2
<1>4. ASSUME NEW p \in R
      PROVE  /\ p \in BitsOf(Shl(a, k, w), w) <=> p - k \in BitsOf(a, w)
             /\ p \in BitsOf(LShr(a, k), w) <=> p + k \in BitsOf(a, w)
             /\ p \in BitsOf(AShr(a, k, w), w) <=>
                  \/ p + k \in BitsOf(a, w)
                  \/ IntOf(a, w) < 0 /\ w =< p + k
  <2>1. /\ BitOf(Shl(a, k, w), p) = IF p < k THEN 0 ELSE BitOf(a, p - k)
        /\ BitOf(LShr(a, k), p) = BitOf(a, p + k)
        /\ w =< p + k => BitOf(a, p + k) = 0
        /\ BitOf(AShr(a, k, w), p) =
             BitOf(a, IF p + k < w THEN p + k ELSE w - 1)
        /\ IntOf(a, w) < 0 <=> BitOf(a, w - 1) = 1
    BY <1>1, ShiftedBits
  <2>2. /\ p - k \in R <=> ~ (p < k)
        /\ p + k \in R <=> p + k < w
        /\ w =< p + k <=> ~ (p + k < w)
    BY <1>1
  <2>3. p \in BitsOf(Shl(a, k, w), w) <=> p - k \in BitsOf(a, w)
    <3>1. CASE p < k
      BY <1>1, <1>2, <2>1, <2>2, <3>1
    <3>2. CASE ~ (p < k)
      BY <1>2, <2>1, <2>2, <3>2
    <3>3. QED BY <3>1, <3>2
  <2>4. p \in BitsOf(LShr(a, k), w) <=> p + k \in BitsOf(a, w)
    <3>1. CASE p + k < w
      BY <1>2, <2>1, <2>2, <3>1
    <3>2. CASE ~ (p + k < w)
      BY <1>1, <1>2, <2>1, <2>2, <3>2
    <3>3. QED BY <3>1, <3>2
  <2>5. p \in BitsOf(AShr(a, k, w), w) <=>
          \/ p + k \in BitsOf(a, w)
          \/ IntOf(a, w) < 0 /\ w =< p + k
    <3>1. CASE p + k < w
      BY <1>2, <2>1, <2>2, <3>1
    <3>2. CASE ~ (p + k < w)
      BY <1>1, <1>2, <2>1, <2>2, <3>2
    <3>3. QED BY <3>1, <3>2
  <2>6. QED BY <2>3, <2>4, <2>5
<1>5. Signs \subseteq R
  BY <1>1
<1> HIDE DEF R, Signs
<1>6. BitsOf(Shl(a, k, w), w) = {p + k : p \in BitsOf(a, w)} \cap R
  BY <1>2, <1>3, <1>4
<1>7. BitsOf(LShr(a, k), w) = {p + (-k) : p \in BitsOf(a, w)} \cap R
  BY <1>2, <1>3, <1>4
<1>8. BitsOf(AShr(a, k, w), w) = ({p + (-k) : p \in BitsOf(a, w)} \cap R) \cup Signs
  BY <1>2, <1>3, <1>4, <1>5
<1>9. QED BY <1>6, <1>7, <1>8 DEF R, Signs

-----------------------------------------------------------------------------
(* Quotients rounded towards zero.                                         *)

\* A quotient that is rounded to zero is a quotient of absolute values.
LEMMA SDivType ==
  ASSUME NEW x \in Int, NEW y \in Int, y # 0
  PROVE  /\ AbsOf(x) \in Nat /\ AbsOf(y) \in Nat \ {0}
         /\ AbsOf(x) \div AbsOf(y) \in Int /\ SDiv(x, y) \in Int
<1>1. AbsOf(x) \in Nat /\ AbsOf(y) \in Nat \ {0}
  BY DEF AbsOf
<1>2. AbsOf(x) \div AbsOf(y) \in Int
  BY <1>1, DivisionInt
<1>3. QED BY <1>1, <1>2 DEF SDiv

\* A square is smaller only if the number is.
LEMMA SquareLess ==
  ASSUME NEW r \in Int, NEW d \in Nat \ {0}
  PROVE  r * r < d * d <=> -d < r /\ r < d
<1>1. ASSUME NEW u \in Nat, NEW v \in Nat, u =< v PROVE u * u =< v * v
  <2>1. PICK e \in Nat : v = u + e
    BY <1>1
  <2>2. v * v = u * u + u * e + e * v
    BY <2>1
  <2>3. u * e >= 0 /\ e * v >= 0 /\ u * e \in Int /\ e * v \in Int /\ u * u \in Int
    BY <2>1
  <2>4. QED BY <2>2, <2>3
<1>2. ASSUME NEW u \in Nat PROVE u * u < d * d <=> u < d
  <2>1. CASE d =< u
    <3>1. d * d =< u * u /\ d * d \in Int /\ u * u \in Int
      BY <1>1, <2>1
    <3>2. QED BY <2>1, <3>1
  <2>2. CASE u < d
    <3>1. u =< d - 1 /\ d - 1 \in Nat
      BY <2>2
    <3>2. u * u =< (d - 1) * (d - 1)
      BY <1>1, <3>1
    <3>3. (d - 1) * (d - 1) = d * d - 2 * d + 1
      OBVIOUS
    <3>4. d * d \in Int /\ u * u \in Int /\ d >= 1
      OBVIOUS
    <3>5. QED BY <2>2, <3>2, <3>3, <3>4
  <2>3. QED BY <2>1, <2>2
<1>3. CASE r >= 0
  BY <1>2, <1>3
<1>4. CASE r < 0
  <2>1. -r \in Nat /\ (-r) * (-r) = r * r
    BY <1>4
  <2>2. (-r) * (-r) < d * d <=> -r < d
    BY <1>2, <2>1
  <2>3. QED BY <1>4, <2>1, <2>2
<1>5. QED BY <1>3, <1>4

\* A quotient that is rounded towards zero leaves a remainder that has the sign
\* of the dividend and is smaller than the divisor.
LEMMA SDivRemainder ==
  ASSUME NEW x \in Int, NEW y \in Int, y # 0
  PROVE  LET r == x - SDiv(x, y) * y
         IN  /\ SDiv(x, y) \in Int
             /\ -AbsOf(y) < r /\ r < AbsOf(y)
             /\ (x >= 0 => r >= 0) /\ (x <= 0 => r <= 0)
<1> DEFINE q == AbsOf(x) \div AbsOf(y)
           s == AbsOf(x) % AbsOf(y)
           z == SDiv(x, y)
           r == x - z * y
<1>1. AbsOf(x) \in Nat /\ AbsOf(y) \in Nat \ {0} /\ q \in Int /\ z \in Int
  BY SDivType
<1>2. s \in 0 .. AbsOf(y) - 1 /\ AbsOf(x) = q * AbsOf(y) + s
  <2> DEFINE u == AbsOf(x)
             v == AbsOf(y)
  <2>1. u \in Int /\ v \in Nat \ {0}
    BY <1>1
  <2> HIDE DEF u, v
  <2>2. u % v \in 0 .. v - 1 /\ u = (u \div v) * v + (u % v)
    BY <2>1, DivisionInt
  <2>3. QED BY <2>2 DEF u, v
<1>3. z = IF (x < 0) = (y < 0) THEN q ELSE -q
  BY DEF SDiv
<1> HIDE DEF q, s, z
<1>4. AbsOf(x) = (IF x < 0 THEN -x ELSE x) /\ AbsOf(y) = (IF y < 0 THEN -y ELSE y)
  BY DEF AbsOf
<1>5. q * (-y) = -(q * y) /\ (-q) * y = -(q * y) /\ q * y \in Int
  BY <1>1
<1>6. s \in Int /\ 0 =< s /\ s < AbsOf(y)
  BY <1>1, <1>2
<1>7. r = IF x < 0 THEN -s ELSE s
  <2>1. CASE x < 0 /\ y < 0
    <3>1. -x = q * (-y) + s /\ z = q
      BY <1>2, <1>3, <1>4, <2>1
    <3>2. QED BY <1>5, <1>6, <2>1, <3>1
  <2>2. CASE x < 0 /\ ~ (y < 0)
    <3>1. -x = q * y + s /\ z = -q
      BY <1>2, <1>3, <1>4, <2>2
    <3>2. z * y = -(q * y)
      BY <1>5, <3>1
    <3>3. \A t \in Int : -x = t + s => x - (-t) = -s
      BY <1>6
    <3>4. x - (-(q * y)) = -s
      BY <1>5, <3>1, <3>3
    <3>5. QED BY <2>2, <3>2, <3>4
  <2>3. CASE ~ (x < 0) /\ y < 0
    <3>1. x = q * (-y) + s /\ z = -q
      BY <1>2, <1>3, <1>4, <2>3
    <3>2. QED BY <1>5, <1>6, <2>3, <3>1
  <2>4. CASE ~ (x < 0) /\ ~ (y < 0)
    <3>1. x = q * y + s /\ z = q
      BY <1>2, <1>3, <1>4, <2>4
    <3>2. QED BY <1>5, <1>6, <2>4, <3>1
  <2>5. QED BY <2>1, <2>2, <2>3, <2>4
<1>9. x = 0 => r = 0
  <2>1. ASSUME x = 0 PROVE r = 0
    <3>1. AbsOf(x) = 0 /\ 0 = q * AbsOf(y) + s /\ r = s
      BY <1>2, <1>4, <1>7, <2>1
    <3>2. 0 = 0 * AbsOf(y) + 0
      BY <1>1
    <3>3. 0 \in 0 .. AbsOf(y) - 1
      BY <1>1
    <3>4. s = 0
      <4> DEFINE d == AbsOf(y)
      <4>1. d \in Nat \ {0} /\ q \in Int /\ 0 \in Int /\ s \in 0 .. d - 1
            /\ 0 \in 0 .. d - 1 /\ q * d + s = 0 * d + 0
        BY <1>1, <1>2, <3>1, <3>2, <3>3
      <4> HIDE DEF d
      <4>2. QED BY <4>1, RemainderUnique
    <3>5. QED BY <3>1, <3>4
  <2>2. QED BY <2>1
<1>10. QED BY <1>1, <1>6, <1>7, <1>9 DEF z

\* There is one such quotient.
LEMMA QuotientUnique ==
  ASSUME NEW x \in Int, NEW y \in Int, y # 0, NEW p \in Int, NEW q \in Int,
         LET r == x - p * y
         IN  -AbsOf(y) < r /\ r < AbsOf(y) /\ (x >= 0 => r >= 0) /\ (x <= 0 => r <= 0),
         LET r == x - q * y
         IN  -AbsOf(y) < r /\ r < AbsOf(y) /\ (x >= 0 => r >= 0) /\ (x <= 0 => r <= 0)
  PROVE  p = q
<1> DEFINE u == x - p * y
           v == x - q * y
           d == AbsOf(y)
           e == IF y < 0 THEN q - p ELSE p - q
<1>1. u \in Int /\ v \in Int /\ e \in Int /\ d \in Nat \ {0} /\ d = (IF y < 0 THEN -y ELSE y)
  BY DEF AbsOf
<1>2. v - u = e * d
  <2>1. v - u = (p - q) * y
    OBVIOUS
  <2>2. (p - q) * y = (q - p) * (-y)
    OBVIOUS
  <2>3. QED BY <1>1, <2>1, <2>2
<1>3. -d < u /\ u < d /\ -d < v /\ v < d
      /\ \/ u >= 0 /\ v >= 0
         \/ u <= 0 /\ v <= 0
  BY <1>1
<1> HIDE DEF u, v, d
<1>4. -d < v - u /\ v - u < d
  BY <1>1, <1>3
<1>5. e = 0
  <2> HIDE DEF e
  <2>1. CASE e >= 1
    <3>1. e * d >= d
      BY <1>1, <2>1, MultipleAtLeast
    <3>2. QED BY <1>1, <1>2, <1>4, <3>1
  <2>2. CASE -e >= 1
    <3>1. (-e) * d >= d
      BY <1>1, <2>2, MultipleAtLeast
    <3>2. (-e) * d = -(e * d) /\ e * d \in Int
      BY <1>1
    <3>3. QED BY <1>1, <1>2, <1>4, <3>1, <3>2
  <2>3. QED BY <1>1, <2>1, <2>2
<1>6. QED BY <1>5
=============================================================================
