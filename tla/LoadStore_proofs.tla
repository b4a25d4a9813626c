-------------------------- MODULE LoadStore_proofs --------------------------
(***************************************************************************)
(* Bytes keep their places and their order between the registers and the   *)
(* memory: proofs about LoadStore, for every size of a byte, a memory and  *)
(* an offset.                                                              *)
(***************************************************************************)
EXTENDS LoadStore, Words_proofs

-----------------------------------------------------------------------------
(* The bytes of a number.                                                  *)

\* Byte k, from the low end.
Field(v, k) == Trunc(LShr(v, k * ByteBits), ByteBits)

\* The sizes of words and registers.
LEMMA Sizes ==
  /\ ByteBits \in Nat \ {0} /\ NWords \in Nat \ {0} /\ MemSize = 4 * NWords /\ MemSize \in Nat
  /\ WordBits = 4 * ByteBits /\ WordBits \in Nat \ {0} /\ LowBits \in Nat \ {0}
  /\ ImmBits \in Nat \ {0} /\ LowBits =< ImmBits /\ ImmBits =< WordBits
  /\ RegBits \in Nat \ {0} /\ WordBits =< RegBits
  /\ RegBits = IF target = "openrisc" THEN 4 * ByteBits ELSE 8 * ByteBits
BY LoadStoreAssumption DEF MemSize, WordBits, RegBits

\* Byte k is made of the bits from k * ByteBits on.
LEMMA FieldBits ==
  ASSUME NEW v \in Int, NEW k \in Nat
  PROVE  /\ Field(v, k) \in WordOf(ByteBits)
         /\ \A p \in 0 .. ByteBits - 1 : BitOf(Field(v, k), p) = BitOf(v, p + k * ByteBits)
<1> DEFINE s == k * ByteBits
           q == LShr(v, s)
<1>1. ByteBits \in Nat /\ s \in Nat
  BY Sizes
<1>2. q \in Int /\ \A p \in Nat : BitOf(q, p) = BitOf(v, p + s)
  BY <1>1, BitOfQuotient DEF LShr
<1> HIDE DEF q, s
<1>3. Trunc(q, ByteBits) \in WordOf(ByteBits)
  BY <1>1, <1>2, RemainderIsWord DEF Trunc
<1>4. ASSUME NEW p \in 0 .. ByteBits - 1 PROVE BitOf(Trunc(q, ByteBits), p) = BitOf(v, p + s)
  <2>1. p \in Nat /\ p < ByteBits
    BY <1>1
  <2>2. QED BY <1>1, <1>2, <2>1, BitOfRemainder DEF Trunc
<1>5. QED BY <1>3, <1>4 DEF Field, q, s

\* Bytes with the same bits are the same.
LEMMA SameFields ==
  ASSUME NEW v \in Int, NEW k \in Nat, NEW x \in Int, NEW j \in Nat,
         \A p \in 0 .. ByteBits - 1 : BitOf(v, p + k * ByteBits) = BitOf(x, p + j * ByteBits)
  PROVE  Field(v, k) = Field(x, j)
<1>1. Field(v, k) \in WordOf(ByteBits) /\ Field(x, j) \in WordOf(ByteBits) /\ ByteBits \in Nat
  BY FieldBits, Sizes
<1>2. \A p \in 0 .. ByteBits - 1 : BitOf(Field(v, k), p) = BitOf(Field(x, j), p)
  BY FieldBits
<1>3. QED BY <1>1, <1>2, BitsDetermine

\* The bits of the first n bytes are below n * ByteBits.
LEMMA Within ==
  ASSUME NEW n \in Nat, NEW k \in 0 .. n - 1, NEW p \in 0 .. ByteBits - 1
  PROVE  /\ p + k * ByteBits \in Nat /\ p + k * ByteBits < n * ByteBits
         /\ n * ByteBits \in Nat
<1>1. ByteBits \in Nat
  BY Sizes
<1>2. PICK e \in Nat : n = k + 1 + e
  OBVIOUS
<1>3. (k + 1 + e) * ByteBits = k * ByteBits + ByteBits + e * ByteBits
  BY <1>1
<1>4. k * ByteBits \in Nat /\ e * ByteBits \in Nat
  BY <1>1
<1>5. QED BY <1>1, <1>2, <1>3, <1>4

\* Cutting a number to n bytes keeps them.
LEMMA FieldOfTrunc ==
  ASSUME NEW v \in Int, NEW n \in Nat, NEW k \in 0 .. n - 1
  PROVE  Trunc(v, n * ByteBits) \in Int /\ Field(Trunc(v, n * ByteBits), k) = Field(v, k)
<1> DEFINE w == n * ByteBits
           x == Trunc(v, w)
<1>1. w \in Nat /\ k \in Nat
  BY Sizes
<1> HIDE DEF w
<1>2. x \in Int
  BY <1>1, Powers, DivisionInt DEF Trunc
<1>3. ASSUME NEW p \in 0 .. ByteBits - 1
      PROVE  BitOf(x, p + k * ByteBits) = BitOf(v, p + k * ByteBits)
  <2>1. p + k * ByteBits \in Nat /\ p + k * ByteBits < w
    BY Within DEF w
  <2>2. QED BY <1>1, <2>1, BitOfRemainder DEF Trunc
<1> HIDE DEF x
<1>4. Field(x, k) = Field(v, k)
  BY <1>1, <1>2, <1>3, SameFields
<1>5. QED BY <1>2, <1>4 DEF w, x

\* Taking the low bytes away moves the others down.
LEMMA FieldOfShift ==
  ASSUME NEW v \in Int, NEW j \in Nat, NEW k \in Nat
  PROVE  LShr(v, j * ByteBits) \in Int /\ Field(LShr(v, j * ByteBits), k) = Field(v, k + j)
<1> DEFINE s == j * ByteBits
           x == LShr(v, s)
<1>1. s \in Nat /\ k + j \in Nat /\ ByteBits \in Nat
  BY Sizes
<1>2. x \in Int /\ \A p \in Nat : BitOf(x, p) = BitOf(v, p + s)
  BY <1>1, BitOfQuotient DEF LShr
<1> HIDE DEF x
<1>3. ASSUME NEW p \in 0 .. ByteBits - 1
      PROVE  BitOf(x, p + k * ByteBits) = BitOf(v, p + (k + j) * ByteBits)
  <2>1. p + k * ByteBits \in Nat /\ (p + k * ByteBits) + s = p + (k + j) * ByteBits
    <3>1. (k + j) * ByteBits = k * ByteBits + j * ByteBits
      BY <1>1
    <3>2. k * ByteBits \in Nat /\ j * ByteBits \in Nat /\ p \in Nat
      BY <1>1
    <3>3. QED BY <3>1, <3>2
  <2>2. QED BY <1>2, <2>1
<1>4. Field(x, k) = Field(v, k + j)
  BY <1>1, <1>2, <1>3, SameFields
<1>5. QED BY <1>2, <1>4 DEF x

\* A number of one byte is its byte.
LEMMA FieldOfByte ==
  ASSUME NEW v \in Int
  PROVE  Field(v, 0) = Trunc(v, ByteBits) /\ (v \in WordOf(ByteBits) => Field(v, 0) = v)
<1>1. v \div 1 = v /\ 0 * ByteBits = 0 /\ ByteBits \in Nat
  BY Sizes
<1>2. Field(v, 0) = Trunc(v, ByteBits)
  BY <1>1, PowerZero DEF Field, LShr
<1>3. v \in WordOf(ByteBits) => v % 2^ByteBits = v
  BY <1>1, Powers, ModInRange DEF WordOf
<1>4. QED BY <1>2, <1>3 DEF Trunc

\* Words whose four bytes are the same are the same.
LEMMA FieldsDetermine ==
  ASSUME NEW v \in WordOf(WordBits), NEW x \in WordOf(WordBits),
         \A k \in 0 .. 3 : Field(v, k) = Field(x, k)
  PROVE  v = x
<1>1. v \in Int /\ x \in Int /\ WordBits \in Nat
  BY Sizes, Powers DEF WordOf
<1>2. ASSUME NEW p \in 0 .. WordBits - 1 PROVE BitOf(v, p) = BitOf(x, p)
  <2>1. PICK k \in 0 .. 3 : p - k * ByteBits \in 0 .. ByteBits - 1
    <3>1. ByteBits \in Nat \ {0} /\ p \in Nat /\ p < 4 * ByteBits
      BY Sizes
    <3>2. CASE p < ByteBits
      <4>1. p - 0 * ByteBits \in 0 .. ByteBits - 1
        BY <3>1, <3>2
      <4>2. QED BY <4>1
    <3>3. CASE ByteBits =< p /\ p < 2 * ByteBits
      <4>1. p - 1 * ByteBits \in 0 .. ByteBits - 1
        BY <3>1, <3>3
      <4>2. QED BY <4>1
    <3>4. CASE 2 * ByteBits =< p /\ p < 3 * ByteBits
      <4>1. p - 2 * ByteBits \in 0 .. ByteBits - 1
        BY <3>1, <3>4
      <4>2. QED BY <4>1
    <3>5. CASE 3 * ByteBits =< p
      <4>1. p - 3 * ByteBits \in 0 .. ByteBits - 1
        BY <3>1, <3>5
      <4>2. QED BY <4>1
    <3>6. QED BY <3>1, <3>2, <3>3, <3>4, <3>5
  <2> DEFINE r == p - k * ByteBits
  <2>2. k \in Nat /\ r \in 0 .. ByteBits - 1 /\ r + k * ByteBits = p
    BY <2>1, Sizes
  <2> HIDE DEF r
  <2>3. BitOf(Field(v, k), r) = BitOf(v, p) /\ BitOf(Field(x, k), r) = BitOf(x, p)
    BY <1>1, <2>2, FieldBits
  <2>4. QED BY <2>1, <2>3
<1>3. QED BY <1>1, <1>2, BitsDetermine

\* The bytes of a number that is a byte behind another number.
LEMMA FieldBehind ==
  ASSUME NEW y \in Nat, NEW u \in WordOf(ByteBits), NEW x, x = y * 2^ByteBits + u
  PROVE  /\ x \in Nat /\ Field(x, 0) = u
         /\ \A k \in Nat : Field(x, k + 1) = Field(y, k)
<1> DEFINE W == 2^ByteBits
<1>1. W \in Nat \ {0} /\ u \in Nat /\ u < W /\ ByteBits \in Nat /\ ByteBits = 1 * ByteBits
  <2>1. ByteBits \in Nat
    BY Sizes
  <2>2. W \in Nat \ {0}
    BY <2>1, Powers
  <2>3. QED BY <2>1, <2>2 DEF WordOf
<1> HIDE DEF W
<1>2. x \in Nat /\ x \in Int /\ y \in Int /\ u \in Int /\ 0 =< u /\ x = y * W + u
  <2>1. y * W \in Nat
    BY <1>1
  <2>2. QED BY <1>1, <2>1 DEF W
<1>3. x \div W = y /\ x % W = u
  BY <1>1, <1>2, QuotientOf
<1>4. Field(x, 0) = u
  BY <1>2, <1>3, FieldOfByte DEF Trunc, W
<1>5. ASSUME NEW k \in Nat PROVE Field(x, k + 1) = Field(y, k)
  <2>1. 1 \in Nat
    OBVIOUS
  <2>2. Field(LShr(x, 1 * ByteBits), k) = Field(x, k + 1)
    BY <1>2, <2>1, FieldOfShift
  <2>3. LShr(x, 1 * ByteBits) = y
    BY <1>1, <1>3 DEF LShr, W
  <2>4. QED BY <2>2, <2>3
<1>6. QED BY <1>2, <1>4, <1>5

\* A word is swapped by taking its bytes in the other order.
LEMMA Swapped ==
  ASSUME NEW v \in Nat
  PROVE  /\ swap_endian(v) \in WordOf(WordBits)
         /\ \A k \in 0 .. 3 : Field(swap_endian(v), k) = Field(v, 3 - k)
<1> DEFINE W == 2^ByteBits
           M == 2^WordBits
           u0 == Field(v, 0)
           u1 == Field(v, 1)
           u2 == Field(v, 2)
           u3 == Field(v, 3)
           y1 == u0 * W + u1
           y2 == y1 * W + u2
           y3 == y2 * W + u3
<1>1. /\ W \in Nat \ {0} /\ M \in Nat
      /\ 2^(2 * ByteBits) = W * W /\ 2^(3 * ByteBits) = W * (W * W) /\ M = W * (W * (W * W))
  <2>1. /\ ByteBits \in Nat /\ 2 * ByteBits \in Nat /\ 3 * ByteBits \in Nat
        /\ 2 * ByteBits = ByteBits + ByteBits /\ 3 * ByteBits = ByteBits + 2 * ByteBits
        /\ WordBits = ByteBits + 3 * ByteBits /\ WordBits \in Nat
    BY Sizes
  <2>2. /\ 2^(ByteBits + ByteBits) = W * W /\ W \in Nat \ {0} /\ M \in Nat
        /\ 2^(ByteBits + 2 * ByteBits) = W * 2^(2 * ByteBits)
        /\ 2^(ByteBits + 3 * ByteBits) = W * 2^(3 * ByteBits)
    BY <2>1, Powers
  <2>3. QED BY <2>1, <2>2
<1>2. ASSUME NEW k \in 0 .. 3
      PROVE  Field(v, k) \in WordOf(ByteBits) /\ Field(v, k) \in Nat /\ Field(v, k) < W
  <2>1. v \in Int /\ k \in Nat
    OBVIOUS
  <2>2. Field(v, k) \in WordOf(ByteBits)
    BY <2>1, FieldBits
  <2>3. QED BY <2>2, Sizes, WordSize
<1>3. swap_endian(v) = ((u0 * 2^(3 * ByteBits)) % M) + ((u1 * 2^(2 * ByteBits)) % M)
                         + ((u2 * 2^ByteBits) % M) + u3
  <2>1. 0 * ByteBits = 0 * ByteBits /\ 1 * ByteBits = ByteBits
    BY Sizes
  <2>2. QED BY <2>1 DEF swap_endian, Field, Shl
<1>4. /\ u0 \in Nat /\ u0 < W /\ u1 \in Nat /\ u1 < W /\ u2 \in Nat /\ u2 < W /\ u3 \in Nat /\ u3 < W
      /\ u0 \in WordOf(ByteBits) /\ u1 \in WordOf(ByteBits)
      /\ u2 \in WordOf(ByteBits) /\ u3 \in WordOf(ByteBits)
  BY <1>2
<1> HIDE DEF u0, u1, u2, u3
<1>5. y1 \in Nat /\ Field(y1, 0) = u1 /\ \A k \in Nat : Field(y1, k + 1) = Field(u0, k)
  BY <1>4, FieldBehind
<1> HIDE DEF y1
<1>6. y2 \in Nat /\ Field(y2, 0) = u2 /\ \A k \in Nat : Field(y2, k + 1) = Field(y1, k)
  BY <1>4, <1>5, FieldBehind
<1> HIDE DEF y2
<1>7. y3 \in Nat /\ Field(y3, 0) = u3 /\ \A k \in Nat : Field(y3, k + 1) = Field(y2, k)
  BY <1>4, <1>6, FieldBehind
<1>8. Field(u0, 0) = u0
  BY <1>4, FieldOfByte
<1>9. Field(y3, 0) = u3 /\ Field(y3, 1) = u2 /\ Field(y3, 2) = u1 /\ Field(y3, 3) = u0
  <2>1. Field(y3, 0 + 1) = Field(y2, 0) /\ Field(y3, 1 + 1) = Field(y2, 1) /\ Field(y3, 2 + 1) = Field(y2, 2)
    BY <1>7
  <2>2. Field(y2, 0 + 1) = Field(y1, 0) /\ Field(y2, 1 + 1) = Field(y1, 1)
    BY <1>6
  <2>3. Field(y1, 0 + 1) = Field(u0, 0)
    BY <1>5
  <2>4. 0 + 1 = 1 /\ 1 + 1 = 2 /\ 2 + 1 = 3
    OBVIOUS
  <2>5. QED BY <1>5, <1>6, <1>7, <1>8, <2>1, <2>2, <2>3, <2>4
<1> HIDE DEF y3, W, M
<1>10. ASSUME NEW u \in Nat, NEW N \in Nat, u < W
       PROVE  u * N =< W * N - N /\ u * N \in Nat /\ W * N \in Nat
  <2>1. PICK e \in Nat : W = u + 1 + e
    BY <1>1, <1>10
  <2>2. (u + 1 + e) * N = u * N + N + e * N /\ e * N \in Nat /\ u * N \in Nat /\ W * N \in Nat
    BY <1>1
  <2>3. QED BY <2>1, <2>2
<1>11. /\ u0 * (W * (W * W)) < M /\ u1 * (W * W) < M /\ u2 * W < M
       /\ u0 * (W * (W * W)) \in Nat /\ u1 * (W * W) \in Nat /\ u2 * W \in Nat
       /\ u0 * (W * (W * W)) + u1 * (W * W) + u2 * W + u3 < M
  <2> DEFINE P == W * W
             Q == W * P
  <2>1. P \in Nat \ {0} /\ W \in Nat
    BY <1>1
  <2> HIDE DEF P
  <2>2. Q \in Nat \ {0}
    BY <1>1, <2>1
  <2> HIDE DEF Q
  <2>3. u0 * Q =< W * Q - Q /\ u0 * Q \in Nat /\ W * Q = M
    BY <1>1, <1>4, <1>10, <2>2 DEF P, Q
  <2>4. u1 * P =< Q - P /\ u1 * P \in Nat
    BY <1>4, <1>10, <2>1 DEF Q
  <2>5. u2 * W =< P - W /\ u2 * W \in Nat
    BY <1>4, <1>10, <2>1 DEF P
  <2>6. QED BY <1>1, <1>4, <2>1, <2>2, <2>3, <2>4, <2>5 DEF P, Q
<1>12. swap_endian(v) = u0 * (W * (W * W)) + u1 * (W * W) + u2 * W + u3
  <2> DEFINE a == u0 * (W * (W * W))
             b == u1 * (W * W)
             d == u2 * W
  <2>1. swap_endian(v) = (a % M) + (b % M) + (d % M) + u3
    BY <1>1, <1>3 DEF W
  <2>2. a \in 0 .. M - 1 /\ b \in 0 .. M - 1 /\ d \in 0 .. M - 1 /\ M \in Nat \ {0}
    BY <1>1, <1>11
  <2> HIDE DEF a, b, d
  <2>3. a % M = a /\ b % M = b /\ d % M = d
    BY <2>2, ModInRange
  <2>4. QED BY <1>4, <2>1, <2>2, <2>3 DEF a, b, d
<1>13. y3 = u0 * (W * (W * W)) + u1 * (W * W) + u2 * W + u3
  <2>1. (u0 * W + u1) * W = u0 * (W * W) + u1 * W
    BY <1>1, <1>4
  <2>2. y2 = u0 * (W * W) + u1 * W + u2
    BY <2>1 DEF y1, y2
  <2>3. (u0 * (W * W) + u1 * W + u2) * W = u0 * (W * (W * W)) + u1 * (W * W) + u2 * W
    BY <1>1, <1>4
  <2>4. QED BY <2>2, <2>3 DEF y3
<1>14. swap_endian(v) = y3 /\ y3 \in WordOf(WordBits)
  <2>1. y3 < M
    BY <1>11, <1>13
  <2>2. QED BY <1>1, <1>7, <1>12, <1>13, <2>1 DEF WordOf, M
<1>15. ASSUME NEW k \in 0 .. 3 PROVE Field(y3, k) = Field(v, 3 - k)
  <2>1. k = 0 \/ k = 1 \/ k = 2 \/ k = 3
    OBVIOUS
  <2>2. 3 - 0 = 3 /\ 3 - 1 = 2 /\ 3 - 2 = 1 /\ 3 - 3 = 0
    OBVIOUS
  <2>3. QED BY <1>9, <2>1, <2>2 DEF u0, u1, u2, u3
<1>16. QED BY <1>14, <1>15

-----------------------------------------------------------------------------
(* Loads.                                                                  *)

\* What an extension puts above the bits of a pattern.
LEMMA ExtendedParts ==
  ASSUME NEW n \in Nat \ {0}, NEW w \in Nat \ {0}, n =< w, NEW v \in WordOf(n)
  PROVE  /\ SExt(v, n, w) \in Nat /\ Trunc(SExt(v, n, w), n) = v
         /\ LShr(SExt(v, n, w), n) = IF v >= 2^(n - 1) THEN 2^(w - n) - 1 ELSE 0
<1> DEFINE N == 2^n
           M == 2^w
           K == 2^(w - n)
           H == 2^(n - 1)
           x == SExt(v, n, w)
           k == IF v >= H THEN K - 1 ELSE 0
<1>1. /\ N \in Nat \ {0} /\ M \in Nat \ {0} /\ K \in Nat \ {0} /\ M = K * N /\ H \in Nat
      /\ v \in Nat /\ v < N
  <2>1. n \in Nat /\ w \in Nat /\ n - 1 \in Nat /\ w - n \in Nat
    OBVIOUS
  <2>2. N \in Nat \ {0} /\ M \in Nat \ {0} /\ K \in Nat \ {0} /\ M = K * N /\ H \in Nat
    BY <2>1, Powers, PowersGrow
  <2>3. QED BY <2>2, WordSize
<1>2. x = (IF v < H THEN v ELSE v - N) % M
  BY DEF SExt, IntOf
<1> HIDE DEF x, N, M, K, H
<1>3. x = k * N + v
  <2>1. N =< M
    <3>1. K >= 1 /\ K \in Nat /\ N \in Nat
      BY <1>1
    <3>2. QED BY <1>1, <3>1, MultipleAtLeast
  <2>2. CASE v < H
    <3>1. v \in 0 .. M - 1
      BY <1>1, <2>1
    <3>2. x = v /\ k = 0
      BY <1>1, <1>2, <2>2, <3>1, ModInRange
    <3>3. QED BY <1>1, <3>2
  <2>3. CASE ~ (v < H)
    <3> DEFINE r == v - N + M
    <3>1. 0 =< r /\ r < M /\ r \in Int /\ v - N \in Int /\ v - N = (-1) * M + r /\ -1 \in Int
      BY <1>1, <2>1
    <3> HIDE DEF r
    <3>2. (v - N) % M = r
      BY <1>1, <3>1, QuotientOf
    <3>3. k = K - 1
      BY <1>1, <2>3
    <3>4. (K - 1) * N = M - N
      BY <1>1
    <3>5. QED BY <1>1, <1>2, <2>3, <3>2, <3>3, <3>4 DEF r
  <2>4. QED BY <2>2, <2>3
<1>4. k \in Nat
  BY <1>1
<1> HIDE DEF k
<1>5. x \in Nat
  <2>1. k * N \in Nat
    BY <1>1, <1>4
  <2>2. QED BY <1>1, <1>3, <2>1
<1>6. x \div N = k /\ x % N = v
  <2>1. x \in Int /\ k \in Int /\ v \in Int /\ 0 =< v
    BY <1>1, <1>4, <1>5
  <2>2. QED BY <1>1, <1>3, <2>1, QuotientOf
<1>7. QED BY <1>5, <1>6 DEF x, N, K, H, k, Trunc, LShr

\* What a pattern has above its bits when it is not extended.
LEMMA UnextendedParts ==
  ASSUME NEW n \in Nat \ {0}, NEW v \in WordOf(n)
  PROVE  v \in Nat /\ Trunc(v, n) = v /\ LShr(v, n) = 0
<1>1. 2^n \in Nat \ {0} /\ v \in 0 .. 2^n - 1 /\ v \in Nat
  BY WordSize DEF WordOf
<1>2. v % 2^n = v
  BY <1>1, ModInRange
<1>3. n \in Nat /\ n =< n
  OBVIOUS
<1>4. v \div 2^n = 0
  BY <1>3, BitsBeyond
<1>5. QED BY <1>1, <1>2, <1>4 DEF Trunc, LShr

\* The sign of n bytes is that of the last.
LEMMA SignOfTop ==
  ASSUME NEW n \in Nat \ {0}, NEW v \in WordOf(n * ByteBits)
  PROVE  v >= 2^(n * ByteBits - 1) <=> Field(v, n - 1) >= 2^(ByteBits - 1)
<1> DEFINE m == n * ByteBits
           top == Field(v, n - 1)
<1>1. m \in Nat \ {0} /\ m - 1 \in Nat /\ ByteBits \in Nat \ {0} /\ n - 1 \in Nat
      /\ m = (n - 1) * ByteBits + ByteBits
  <2>1. ByteBits \in Nat \ {0} /\ n - 1 \in Nat
    BY Sizes
  <2>2. (n - 1) * ByteBits \in Nat /\ m = (n - 1) * ByteBits + ByteBits
    BY <2>1
  <2>3. QED BY <2>1, <2>2
<1>2. v \in Int /\ v \in Nat
  BY <1>1, WordSize
<1>3. top \in WordOf(ByteBits) /\ BitOf(top, ByteBits - 1) = BitOf(v, (ByteBits - 1) + (n - 1) * ByteBits)
  <2>1. ByteBits - 1 \in 0 .. ByteBits - 1
    BY <1>1
  <2>2. QED BY <1>1, <1>2, <2>1, FieldBits
<1>4. (ByteBits - 1) + (n - 1) * ByteBits = m - 1
  <2> DEFINE s == (n - 1) * ByteBits
  <2>1. s \in Nat /\ m = s + ByteBits
    BY <1>1
  <2> HIDE DEF s, m
  <2>2. (ByteBits - 1) + s = m - 1
    BY <1>1, <2>1
  <2>3. QED BY <2>2 DEF s
<1> HIDE DEF m, top
<1>5. ASSUME NEW w \in Nat \ {0}, NEW x \in WordOf(w)
      PROVE  x >= 2^(w - 1) <=> BitOf(x, w - 1) = 1
  <2>1. 0 \in Nat /\ w - 1 \in Nat
    OBVIOUS
  <2>2. IntOf(x, w) < 0 <=> BitOf(x, w - 1) = 1
    BY <2>1, BitOfInt
  <2>3. 2^(w - 1) \in Nat /\ 2^w \in Nat /\ x \in Nat /\ x < 2^w
    BY <2>1, Powers, WordSize
  <2>4. QED BY <2>2, <2>3 DEF IntOf
<1>6. v \in WordOf(m)
  BY DEF m
<1>7. QED BY <1>1, <1>3, <1>4, <1>5, <1>6 DEF m, top

\* What a load leaves in a register of the bytes that came: those bytes, and above
\* them the sign or nothing.
LEMMA LoadedParts ==
  ASSUME NEW op, NEW n \in {1, 2, 4}, Bytes(op) = n, NEW dat \in Nat
  PROVE  /\ Loaded(op, dat) \in Nat
         /\ \A j \in 0 .. n - 1 : Field(Loaded(op, dat), j) = Field(dat, j)
         /\ LShr(Loaded(op, dat), n * ByteBits) =
              IF SignExtends(op) /\ Field(dat, n - 1) >= 2^(ByteBits - 1)
              THEN 2^(RegBits - n * ByteBits) - 1 ELSE 0
<1> DEFINE m == n * ByteBits
           v == Trunc(dat, m)
           r == Loaded(op, dat)
<1>1. m \in Nat \ {0} /\ RegBits \in Nat \ {0} /\ m =< RegBits /\ n \in Nat \ {0} /\ n - 1 \in 0 .. n - 1
  BY Sizes
<1>2. v \in WordOf(m)
  <2>1. m \in Nat /\ dat \in Int
    BY <1>1
  <2> HIDE DEF m
  <2>2. QED BY <2>1, RemainderIsWord DEF Trunc
<1>3. r = IF SignExtends(op) THEN SExt(v, m, RegBits) ELSE v
  BY DEF Loaded
<1>4. \A j \in 0 .. n - 1 : Field(v, j) = Field(dat, j)
  BY <1>1, FieldOfTrunc
<1>5. v >= 2^(m - 1) <=> Field(dat, n - 1) >= 2^(ByteBits - 1)
  BY <1>1, <1>2, <1>4, SignOfTop
<1> HIDE DEF m, v, r
<1>6. r \in Nat /\ Trunc(r, m) = v
      /\ LShr(r, m) = IF SignExtends(op) /\ v >= 2^(m - 1) THEN 2^(RegBits - m) - 1 ELSE 0
  <2>1. CASE SignExtends(op)
    BY <1>1, <1>2, <1>3, <2>1, ExtendedParts
  <2>2. CASE ~ SignExtends(op)
    BY <1>1, <1>2, <1>3, <2>2, UnextendedParts
  <2>3. QED BY <2>1, <2>2
<1>7. \A j \in 0 .. n - 1 : Field(Trunc(r, m), j) = Field(r, j)
  <2>1. r \in Int /\ n \in Nat
    BY <1>1, <1>6
  <2>2. QED BY <2>1, FieldOfTrunc DEF m
<1>8. QED BY <1>4, <1>5, <1>6, <1>7 DEF m, r

-----------------------------------------------------------------------------
(* The invariant.                                                          *)

\* An access by op at the address that base and offset give.
At(op) ==
  /\ access.op = op /\ access.base \in Bases /\ access.imm \in WordOf(ImmBits)
  /\ access.addr = EA(op, access.base, access.imm)

\* The last access was a load: rD has what memory still gives.
LoadDone ==
  \E op \in Loads, addr \in Nat :
    /\ At(op) /\ access.addr = addr
    /\ mem_read(addr, Bytes(op)) \notin {Abort, Overrun}
    /\ rD = Loaded(op, mem_read(addr, Bytes(op)))

\* It was a store: if of a word or two, the first is in memory.
StoreDone ==
  \E op \in Stores :
    /\ At(op)
    /\ access.val \in WordOf(RegBits) /\ rD = None
    /\ op \in {"sw", "sd"} /\ access.addr < MemSize =>
         tmp_mem[access.addr \div 4] =
           IF op = "sw" THEN Stored(Trunc(access.val, WordBits)) ELSE Trunc(access.val, WordBits)

\* Memory holds words, and the register and memory are as the last access left them.
IInv ==
  /\ target \in {"openrisc", "riscv"}
  /\ tmp_mem \in [0 .. NWords - 1 -> WordOf(WordBits)]
  /\ \/ access = None /\ rD = None
     \/ LoadDone
     \/ StoreDone

\* The helpers find the functions they are named after.
LEMMA Helpers ==
  /\ \A addr, size : helper_mem_read(addr, size) = mem_read(addr, size)
  /\ \A addr, size, val : helper_mem_write(addr, size, val) <=> mem_write(addr, size, val)
<1>1. Slot(0) = "mem_read" /\ Slot(1) = "mem_write"
  <2>1. 0 + 1 = 1 /\ 1 + 1 = 2
    OBVIOUS
  <2>2. QED BY <2>1 DEF Slot, jcpu_ext_if
<1>2. QED BY <1>1 DEF helper_mem_read, helper_mem_write

\* An address is a word, and in memory it is in one of its words.
LEMMA Addresses ==
  ASSUME NEW op, NEW base \in Bases, NEW imm \in WordOf(ImmBits)
  PROVE  /\ EA(op, base, imm) \in Nat
         /\ EA(op, base, imm) < MemSize =>
              /\ EA(op, base, imm) \div 4 \in 0 .. NWords - 1
              /\ EA(op, base, imm) % 4 \in 0 .. 3
              /\ EA(op, base, imm) = 4 * (EA(op, base, imm) \div 4) + (EA(op, base, imm) % 4)
<1>1. base \in Int /\ imm \in Int
  BY Sizes, WordSize, LoadStoreAssumption
<1>2. Offset(op, imm) \in Int
  <2>1. Trunc(imm, LowBits) \in Int
    BY <1>1, Sizes, Powers, DivisionInt DEF Trunc
  <2>2. \A x \in Int, n \in Nat \ {0} : n =< RegBits => SExt(x, n, RegBits) \in WordOf(RegBits)
    BY Sizes, WordsMade
  <2>3. \A x \in WordOf(RegBits) : x \in Int
    BY Sizes, WordSize
  <2>4. LowBits \in Nat \ {0} /\ ImmBits \in Nat \ {0} /\ LowBits =< RegBits /\ ImmBits =< RegBits
    BY Sizes
  <2>5. QED BY <1>1, <2>1, <2>2, <2>3, <2>4 DEF Offset
<1> DEFINE x == EA(op, base, imm)
<1>3. x \in Nat
  <2>1. base + Offset(op, imm) \in Int /\ RegBits \in Nat \ {0}
    BY <1>1, <1>2, Sizes
  <2>2. x \in WordOf(RegBits)
    BY <2>1, RemainderIsWord DEF EA, Add
  <2>3. QED BY <2>1, <2>2, WordSize
<1> HIDE DEF x
<1>4. x < MemSize => x \div 4 \in 0 .. NWords - 1 /\ x % 4 \in 0 .. 3 /\ x = 4 * (x \div 4) + (x % 4)
  <2>1. MemSize = 4 * NWords /\ NWords \in Nat
    BY Sizes
  <2>2. QED BY <1>3, <2>1
<1>5. QED BY <1>3, <1>4 DEF x

\* What is written is words.
LEMMA WordsWritten ==
  ASSUME target \in {"openrisc", "riscv"}, NEW val \in WordOf(RegBits), NEW v \in WordOf(WordBits),
         NEW k \in 0 .. 3
  PROVE  /\ Trunc(val, WordBits) \in WordOf(WordBits) /\ Stored(Trunc(val, WordBits)) \in WordOf(WordBits)
         /\ WithByte(v, k, val) \in WordOf(WordBits)
         /\ target = "riscv" => LShr(val, WordBits) \in WordOf(WordBits)
<1>1. /\ WordBits \in Nat \ {0} /\ RegBits \in Nat \ {0} /\ val \in Int /\ val \in Nat /\ v \in Nat
      /\ \A x \in WordOf(WordBits) : x \in Nat
  BY Sizes, WordSize
<1>2. Trunc(val, WordBits) \in WordOf(WordBits)
  BY <1>1, RemainderIsWord DEF Trunc
<1>3. Stored(Trunc(val, WordBits)) \in WordOf(WordBits)
  BY <1>1, <1>2, Swapped DEF Stored
<1>4. \A x \in Int, s \in Nat : Shl(x, s, WordBits) \in WordOf(WordBits)
  <2>1. \A x \in Int, s \in Nat : x * 2^s \in Int
    BY Powers
  <2>2. WordBits \in Nat
    BY <1>1
  <2>3. QED BY <2>1, <2>2, RemainderIsWord DEF Shl
<1>5. WithByte(v, k, val) \in WordOf(WordBits)
  <2> DEFINE s == k * ByteBits
             x == Shl(2^ByteBits - 1, s, WordBits)
             y == Shl(val, s, WordBits)
             z == AllOnes - x
  <2>1. s \in Nat /\ 2^ByteBits - 1 \in Int
    BY Sizes, Powers
  <2>2. x \in WordOf(WordBits) /\ y \in WordOf(WordBits)
    BY <1>1, <1>4, <2>1
  <2>3. z \in WordOf(WordBits)
    <3>1. 2^WordBits \in Nat \ {0}
      BY <1>1, WordSize
    <3> HIDE DEF x
    <3>2. QED BY <2>2, <3>1 DEF WordOf, AllOnes
  <2> HIDE DEF x, y, z
  <2>4. v & z \in WordOf(WordBits) /\ z \in Nat /\ WordBits \in Nat
    BY <1>1, <2>3, BitsCombine
  <2>5. (v & z) | y \in WordOf(WordBits)
    BY <1>1, <2>2, <2>4, BitsCombine
  <2>6. QED BY <2>5 DEF WithByte, x, y, z
<1>6. target = "riscv" => LShr(val, WordBits) \in WordOf(WordBits)
  <2> DEFINE q == LShr(val, WordBits)
  <2>1. SUFFICES ASSUME target = "riscv" PROVE q \in WordOf(WordBits)
    OBVIOUS
  <2>2. RegBits = 2 * WordBits
    BY <2>1 DEF RegBits
  <2>3. q \in WordOf(RegBits)
    BY <1>1, ShiftsMade
  <2>4. ASSUME NEW p \in WordBits .. RegBits - 1 PROVE BitOf(q, p) # 1
    <3>1. p \in Nat /\ RegBits =< p + WordBits /\ p + WordBits \in Nat /\ RegBits \in Nat /\ WordBits \in Nat
      BY <1>1, <2>2
    <3>2. BitOf(val, p + WordBits) = 0
      BY <3>1, BitsBeyond
    <3>3. BitOf(q, p) = BitOf(val, p + WordBits)
      BY <1>1, <3>1, BitOfQuotient DEF LShr
    <3>4. QED BY <3>2, <3>3
  <2> HIDE DEF q
  <2>5. RegBits \in Nat /\ WordBits \in Nat /\ WordBits =< RegBits
    BY <1>1, <2>2
  <2>6. QED BY <2>3, <2>4, <2>5, WordWithin
<1>7. QED BY <1>2, <1>3, <1>5, <1>6

\* What a store leaves in memory.
LEMMA StoreLeaves ==
  ASSUME NEW op \in Stores, NEW addr \in Nat, NEW val, mem_write(addr, Bytes(op), val)
  PROVE  LET w == addr \div 4
             low == [tmp_mem EXCEPT ![w] = Trunc(val, WordBits)]
         IN  /\ ~ (addr < MemSize) => tmp_mem' = tmp_mem
             /\ addr < MemSize =>
                  /\ op = "sw" => tmp_mem' = [tmp_mem EXCEPT ![w] = Stored(Trunc(val, WordBits))]
                  /\ op = "sb" => tmp_mem' = [tmp_mem EXCEPT ![w] = WithByte(tmp_mem[w], addr % 4, val)]
                  /\ op = "sh" => tmp_mem' = tmp_mem /\ state' = "aborted"
                  /\ op = "sd" =>
                       /\ target = "riscv"
                       /\ \/ w + 1 < NWords /\ tmp_mem' = [low EXCEPT ![w + 1] = LShr(val, WordBits)]
                          \/ w + 1 >= NWords /\ tmp_mem' = low /\ state' = "overrun"
<1> DEFINE w == addr \div 4
           low == [tmp_mem EXCEPT ![w] = Trunc(val, WordBits)]
<1>1. op \in {"sb", "sh", "sw", "sd"} /\ (op = "sd" => target = "riscv")
  BY DEF Stores
<1>2. ~ (addr < MemSize) => tmp_mem' = tmp_mem
  BY DEF mem_write, End
<1>3. ASSUME addr < MemSize
      PROVE  \/ Bytes(op) = 4 /\ Put(w, Stored(Trunc(val, WordBits)))
             \/ Bytes(op) = 1 /\ Put(w, WithByte(tmp_mem[w], addr % 4, val))
             \/ Bytes(op) = 2 /\ End("aborted")
             \/ Bytes(op) = 8 /\ WriteBoth(w, val)
  <2>1. addr # PutChar /\ addr # Exit /\ ~ (addr >= MemSize)
    BY <1>3, Sizes, LoadStoreAssumption
  <2>2. QED BY <1>3, <2>1 DEF mem_write
<1>4. /\ op = "sw" => Bytes(op) = 4
      /\ op = "sb" => Bytes(op) = 1
      /\ op = "sh" => Bytes(op) = 2
      /\ op = "sd" => Bytes(op) = 8
  BY DEF Bytes
<1> HIDE DEF w
<1>5. ASSUME addr < MemSize, op = "sw" PROVE tmp_mem' = [tmp_mem EXCEPT ![w] = Stored(Trunc(val, WordBits))]
  BY <1>3, <1>4, <1>5 DEF Put
<1>6. ASSUME addr < MemSize, op = "sb"
      PROVE  tmp_mem' = [tmp_mem EXCEPT ![w] = WithByte(tmp_mem[w], addr % 4, val)]
  BY <1>3, <1>4, <1>6 DEF Put
<1>7. ASSUME addr < MemSize, op = "sh" PROVE tmp_mem' = tmp_mem /\ state' = "aborted"
  BY <1>3, <1>4, <1>7 DEF End
<1>8. ASSUME addr < MemSize, op = "sd"
      PROVE  \/ w + 1 < NWords /\ tmp_mem' = [low EXCEPT ![w + 1] = LShr(val, WordBits)]
             \/ w + 1 >= NWords /\ tmp_mem' = low /\ state' = "overrun"
  BY <1>3, <1>4, <1>8 DEF WriteBoth
<1>9. QED BY <1>1, <1>2, <1>5, <1>6, <1>7, <1>8 DEF w

\* What depends on the target only.
LEMMA Steady ==
  ASSUME target' = target
  PROVE  /\ RegBits' = RegBits /\ Loads' = Loads /\ Stores' = Stores
         /\ \A op, base, imm : EA(op, base, imm)' = EA(op, base, imm)
         /\ \A op, dat : Loaded(op, dat)' = Loaded(op, dat)
         /\ \A v : Stored(v)' = Stored(v)
         /\ tmp_mem' = tmp_mem => \A addr, size : mem_read(addr, size)' = mem_read(addr, size)
<1>1. RegBits' = RegBits /\ Loads' = Loads /\ Stores' = Stores
  BY DEF RegBits, Loads, Stores
<1>2. \A op, base, imm : EA(op, base, imm)' = EA(op, base, imm)
  BY <1>1 DEF EA, Offset
<1>3. \A op, dat : Loaded(op, dat)' = Loaded(op, dat)
  BY <1>1 DEF Loaded
<1>4. \A v : Stored(v)' = Stored(v)
  BY DEF Stored
<1>5. tmp_mem' = tmp_mem => \A addr, size : mem_read(addr, size)' = mem_read(addr, size)
  BY <1>4 DEF mem_read
<1>6. QED BY <1>1, <1>2, <1>3, <1>4, <1>5

\* An access makes memory and the register what it says.
LEMMA StepInv == IInv /\ [Next]_vars => IInv'
<1> SUFFICES ASSUME IInv, [Next]_vars PROVE IInv'
  OBVIOUS
<1>1. target' = target /\ target \in {"openrisc", "riscv"}
      /\ tmp_mem \in [0 .. NWords - 1 -> WordOf(WordBits)]
  BY DEF IInv, Next, disas_insn_load, disas_insn_store, Accesses, vars
<1>2. ASSUME UNCHANGED <<tmp_mem, rD, access>> PROVE IInv'
  <2>1. LoadDone => LoadDone'
    <3>1. SUFFICES ASSUME NEW op \in Loads, NEW addr \in Nat, At(op), access.addr = addr,
                          mem_read(addr, Bytes(op)) \notin {Abort, Overrun},
                          rD = Loaded(op, mem_read(addr, Bytes(op)))
                   PROVE  LoadDone'
      BY DEF LoadDone
    <3>2. At(op)' /\ op \in Loads' /\ access'.addr = addr
      BY <1>1, <1>2, <3>1, Steady DEF At
    <3> DEFINE dat == mem_read(addr, Bytes(op))
    <3>3. dat' = dat
      BY <1>1, <1>2, Steady
    <3> HIDE DEF dat
    <3>4. rD' = Loaded(op, dat)' /\ dat' \notin {Abort, Overrun}
      <4>1. Loaded(op, dat)' = Loaded(op, dat)
        BY <1>1, <3>3, Steady DEF Loaded
      <4>2. QED BY <1>2, <3>1, <3>3, <4>1 DEF dat
    <3>5. QED BY <3>2, <3>4 DEF LoadDone, dat, Abort, Overrun
  <2>2. StoreDone => StoreDone'
    <3>1. SUFFICES ASSUME NEW op \in Stores, At(op), access.val \in WordOf(RegBits), rD = None,
                          op \in {"sw", "sd"} /\ access.addr < MemSize =>
                            tmp_mem[access.addr \div 4] =
                              IF op = "sw" THEN Stored(Trunc(access.val, WordBits))
                              ELSE Trunc(access.val, WordBits)
                   PROVE  StoreDone'
      BY DEF StoreDone
    <3>2. At(op)' /\ op \in Stores' /\ access'.val \in WordOf(RegBits') /\ rD' = None
      BY <1>1, <1>2, <3>1, Steady DEF At
    <3>3. Stored(Trunc(access.val, WordBits))' = Stored(Trunc(access.val, WordBits))
      BY <1>1, <1>2, Steady
    <3>4. QED BY <1>2, <3>1, <3>2, <3>3 DEF StoreDone
  <2>3. QED BY <1>1, <1>2, <2>1, <2>2 DEF IInv
<1>3. CASE UNCHANGED vars
  BY <1>2, <1>3 DEF vars
<1>4. ASSUME NEW base \in Bases, NEW imm \in WordOf(ImmBits), NEW op \in Loads,
             disas_insn_load(op, base, imm)
      PROVE  IInv'
  <2>0. PICK a \in Nat : a = EA(op, base, imm)
    BY Addresses
  <2> DEFINE dat == mem_read(a, Bytes(op))
  <2>1. helper_mem_read(EA(op, base, imm), Bytes(op)) = dat
    BY <2>0, Helpers
  <2>2. CASE dat \in {Abort, Overrun}
    BY <1>2, <1>4, <2>1, <2>2 DEF disas_insn_load
  <2>3. CASE dat \notin {Abort, Overrun}
    <3>1. /\ access' = [op |-> op, base |-> base, imm |-> imm, addr |-> a, val |-> None]
          /\ rD' = Loaded(op, dat) /\ tmp_mem' = tmp_mem
      BY <1>4, <2>0, <2>1, <2>3 DEF disas_insn_load, Accesses
    <3>2. At(op)' /\ op \in Loads' /\ access'.addr = a
      BY <1>1, <2>0, <3>1, Steady DEF At
    <3>3. dat' = dat
      BY <1>1, <3>1, Steady
    <3>4. rD' = Loaded(op, dat)' /\ dat' \notin {Abort, Overrun}
      <4> HIDE DEF dat
      <4>1. Loaded(op, dat)' = Loaded(op, dat)
        BY <1>1, <3>3, Steady DEF Loaded
      <4>2. QED BY <2>3, <3>1, <3>3, <4>1
    <3>5. LoadDone'
      BY <3>2, <3>4 DEF LoadDone, Abort, Overrun
    <3>6. QED BY <1>1, <3>1, <3>5 DEF IInv
  <2>4. QED BY <2>2, <2>3
<1>5. ASSUME NEW base \in Bases, NEW imm \in WordOf(ImmBits), NEW op \in Stores,
             NEW val \in WordOf(RegBits), disas_insn_store(op, base, imm, val)
      PROVE  IInv'
  <2> DEFINE a == EA(op, base, imm)
             w == a \div 4
  <2>1. /\ access' = [op |-> op, base |-> base, imm |-> imm, addr |-> a, val |-> val]
        /\ rD' = None /\ mem_write(a, Bytes(op), val)
    BY <1>5, Helpers DEF disas_insn_store, Accesses
  <2>2. At(op)' /\ op \in Stores' /\ access'.addr = a /\ access'.val \in WordOf(RegBits')
        /\ access'.val = val
    BY <1>1, <2>1, Steady DEF At
  <2>3. a \in Nat /\ (a < MemSize => w \in 0 .. NWords - 1 /\ a % 4 \in 0 .. 3)
    BY Addresses
  <2> HIDE DEF a, w
  <2>4. op \in {"sb", "sh", "sw", "sd"}
    BY DEF Stores
  <2>5. /\ Trunc(val, WordBits) \in WordOf(WordBits) /\ Stored(Trunc(val, WordBits)) \in WordOf(WordBits)
        /\ target = "riscv" => LShr(val, WordBits) \in WordOf(WordBits)
    <3>1. tmp_mem[0] \in WordOf(WordBits) /\ 0 \in 0 .. 3
      BY <1>1, Sizes
    <3>2. QED BY <1>1, <3>1, WordsWritten
  <2>6. a < MemSize => WithByte(tmp_mem[w], a % 4, val) \in WordOf(WordBits)
    BY <1>1, <2>3, WordsWritten
  <2>7. /\ tmp_mem' \in [0 .. NWords - 1 -> WordOf(WordBits)]
        /\ op \in {"sw", "sd"} /\ a < MemSize =>
             tmp_mem'[w] = IF op = "sw" THEN Stored(Trunc(val, WordBits)) ELSE Trunc(val, WordBits)
    <3>1. CASE ~ (a < MemSize)
      BY <1>1, <2>1, <2>3, <3>1, StoreLeaves
    <3>2. CASE a < MemSize /\ op = "sw"
      <4>1. tmp_mem' = [tmp_mem EXCEPT ![w] = Stored(Trunc(val, WordBits))]
        BY <2>1, <2>3, <3>2, StoreLeaves DEF w
      <4>2. QED BY <1>1, <2>3, <2>5, <3>2, <4>1
    <3>3. CASE a < MemSize /\ op = "sb"
      <4>1. tmp_mem' = [tmp_mem EXCEPT ![w] = WithByte(tmp_mem[w], a % 4, val)]
        BY <2>1, <2>3, <3>3, StoreLeaves DEF w
      <4>2. QED BY <1>1, <2>3, <2>6, <3>3, <4>1
    <3>4. CASE a < MemSize /\ op = "sh"
      BY <1>1, <2>1, <2>3, <3>4, StoreLeaves
    <3>5. CASE a < MemSize /\ op = "sd"
      <4> DEFINE low == [tmp_mem EXCEPT ![w] = Trunc(val, WordBits)]
      <4>1. /\ target = "riscv"
            /\ \/ w + 1 < NWords /\ tmp_mem' = [low EXCEPT ![w + 1] = LShr(val, WordBits)]
               \/ tmp_mem' = low
        BY <2>1, <2>3, <3>5, StoreLeaves DEF w
      <4>2. low \in [0 .. NWords - 1 -> WordOf(WordBits)] /\ low[w] = Trunc(val, WordBits)
        BY <1>1, <2>3, <2>5, <3>5
      <4> HIDE DEF low
      <4>3. CASE tmp_mem' = low
        BY <3>5, <4>2, <4>3
      <4>4. CASE w + 1 < NWords /\ tmp_mem' = [low EXCEPT ![w + 1] = LShr(val, WordBits)]
        <5>1. w + 1 \in 0 .. NWords - 1 /\ w + 1 # w /\ w \in 0 .. NWords - 1
          BY <2>3, <3>5, <4>4, Sizes
        <5>2. QED BY <2>5, <3>5, <4>1, <4>2, <4>4, <5>1
      <4>5. QED BY <4>1, <4>3, <4>4
    <3>6. QED BY <2>4, <3>1, <3>2, <3>3, <3>4, <3>5
  <2>8. Stored(Trunc(access.val, WordBits))' = Stored(Trunc(val, WordBits))
    BY <1>1, <2>2, Steady DEF Stored
  <2>9. StoreDone'
    <3>1. ASSUME op \in {"sw", "sd"} /\ access'.addr < MemSize
          PROVE  tmp_mem'[access'.addr \div 4] =
                   IF op = "sw" THEN Stored(Trunc(access.val, WordBits))'
                   ELSE Trunc(access'.val, WordBits)
      BY <2>2, <2>7, <2>8, <3>1 DEF w
    <3>2. QED BY <2>1, <2>2, <3>1 DEF StoreDone
  <2>10. QED BY <1>1, <2>7, <2>9 DEF IInv
<1>6. QED BY <1>3, <1>4, <1>5 DEF Next

\* The inductive invariant of loads and stores, on both targets, for every size of
\* a byte, of a memory, of an offset and every number of accesses.
THEOREM Invariance == Spec => []IInv
<1>1. Init => IInv
  BY LoadStoreAssumption DEF Init, IInv
<1>2. QED BY <1>1, StepInv, PTL DEF Spec

-----------------------------------------------------------------------------
(* What is loaded.                                                         *)

\* What mem_read returns has the bytes of memory, in the target's order.
LEMMA ReadsBytes ==
  ASSUME IInv, NEW op \in Loads, NEW addr \in Nat, addr < MemSize,
         NEW n \in {1, 2, 4}, Bytes(op) = n, n = 4 => addr % 4 = 0,
         mem_read(addr, n) # Abort
  PROVE  LET from == IF n = 2 /\ addr = 0 THEN 2 ELSE addr
         IN  /\ mem_read(addr, n) \in Nat
             /\ n = 2 => addr \in {0, 4}
             /\ \A k \in 0 .. n - 1 :
                  Field(mem_read(addr, n), IF target = "openrisc" THEN n - 1 - k ELSE k)
                    = Byte(tmp_mem, from + k)
<1> DEFINE w == addr \div 4
           v == tmp_mem[w]
           dat == mem_read(addr, n)
<1>1. /\ target \in {"openrisc", "riscv"} /\ w \in 0 .. NWords - 1 /\ addr % 4 \in 0 .. 3
      /\ v \in WordOf(WordBits) /\ v \in Nat /\ v \in Int
  <2>1. MemSize = 4 * NWords /\ NWords \in Nat
    BY Sizes
  <2>2. w \in 0 .. NWords - 1 /\ addr % 4 \in 0 .. 3
    BY <2>1
  <2>3. v \in WordOf(WordBits) /\ target \in {"openrisc", "riscv"}
    BY <2>2 DEF IInv
  <2>4. QED BY <2>2, <2>3, Sizes, WordSize
<1>2. \A p \in Nat : Byte(tmp_mem, p) = Field(tmp_mem[p \div 4], p % 4)
  BY DEF Byte, Field
<1>3. ~ (addr >= MemSize)
  BY Sizes
<1>4. CASE n = 1
  <2>1. dat = Field(v, addr % 4)
    BY <1>3, <1>4 DEF mem_read, Field
  <2>2. dat \in WordOf(ByteBits) /\ dat \in Nat /\ dat \in Int
    <3>1. addr % 4 \in Nat
      BY <1>1
    <3>2. dat \in WordOf(ByteBits)
      BY <1>1, <2>1, <3>1, FieldBits
    <3>3. QED BY <3>2, Sizes, WordSize
  <2> HIDE DEF dat
  <2>3. Field(dat, 0) = dat
    BY <2>2, FieldOfByte
  <2>4. ASSUME NEW k \in 0 .. n - 1 PROVE k = 0 /\ n - 1 - k = 0 /\ addr + k = addr
    <3>1. k = 0
      BY <1>4
    <3>2. QED BY <1>4, <3>1
  <2>5. QED BY <1>2, <1>4, <2>1, <2>2, <2>3, <2>4 DEF dat
<1>5. CASE n = 2
  <2>1. target = "riscv"
    <3>1. CASE target = "openrisc"
      BY <1>5, <3>1 DEF Loads, Bytes
    <3>2. QED BY <1>1, <3>1
  <2>2. addr = 0 \/ addr = 4
    BY <1>3, <1>5 DEF mem_read
  <2>3. CASE addr = 0
    <3>1. dat = LShr(v, 2 * ByteBits) /\ w = 0
      BY <1>3, <1>5, <2>3 DEF mem_read
    <3>2. dat \in Nat
      <4>1. LShr(v, 2 * ByteBits) \in WordOf(WordBits)
        BY <1>1, Sizes, ShiftsMade
      <4>2. QED BY <3>1, <4>1, Sizes, WordSize
    <3>3. ASSUME NEW k \in 0 .. n - 1 PROVE Field(dat, k) = Byte(tmp_mem, 2 + k)
      <4>1. Field(LShr(v, 2 * ByteBits), k) = Field(v, k + 2)
        <5>1. k \in Nat /\ 2 \in Nat
          OBVIOUS
        <5>2. QED BY <1>1, <5>1, FieldOfShift
      <4>2. (2 + k) \div 4 = 0 /\ (2 + k) % 4 = k + 2 /\ 2 + k \in Nat
        BY <1>5
      <4>3. Byte(tmp_mem, 2 + k) = Field(tmp_mem[0], k + 2)
        BY <1>2, <4>2
      <4>4. QED BY <3>1, <4>1, <4>3
    <3> HIDE DEF dat
    <3>4. QED BY <1>5, <2>1, <2>3, <3>2, <3>3 DEF dat
  <2>4. CASE addr = 4
    <3>1. dat = Trunc(v, 2 * ByteBits) /\ w = 1
      BY <1>3, <1>5, <2>4 DEF mem_read
    <3>2. dat \in Nat
      <4>1. 2 * ByteBits \in Nat \ {0}
        BY Sizes
      <4>2. Trunc(v, 2 * ByteBits) \in WordOf(2 * ByteBits)
        BY <1>1, <4>1, RemainderIsWord DEF Trunc
      <4>3. QED BY <3>1, <4>1, <4>2, WordSize
    <3>3. ASSUME NEW k \in 0 .. n - 1 PROVE Field(dat, k) = Byte(tmp_mem, 4 + k)
      <4>1. Field(Trunc(v, 2 * ByteBits), k) = Field(v, k)
        <5>1. k \in 0 .. 2 - 1 /\ 2 \in Nat
          BY <1>5
        <5>2. QED BY <1>1, <5>1, FieldOfTrunc
      <4>2. (4 + k) \div 4 = 1 /\ (4 + k) % 4 = k /\ 4 + k \in Nat
        BY <1>5
      <4>3. Byte(tmp_mem, 4 + k) = Field(tmp_mem[1], k)
        BY <1>2, <4>2
      <4>4. QED BY <3>1, <4>1, <4>3
    <3> HIDE DEF dat
    <3>4. QED BY <1>5, <2>1, <2>4, <3>2, <3>3 DEF dat
  <2>5. QED BY <2>2, <2>3, <2>4
<1>6. CASE n = 4
  <2>1. dat = Stored(v)
    BY <1>3, <1>6 DEF mem_read
  <2>2. ASSUME NEW k \in 0 .. 3
        PROVE  Byte(tmp_mem, addr + k) = Field(v, k) /\ 3 - k \in 0 .. 3 /\ 3 - (3 - k) = k
               /\ n - 1 - k = 3 - k
    <3>1. (addr + k) \div 4 = w /\ (addr + k) % 4 = k /\ addr + k \in Nat
      BY <1>6
    <3>2. QED BY <1>2, <1>6, <3>1
  <2>3. /\ dat \in Nat
        /\ \A k \in 0 .. 3 : Field(dat, IF target = "openrisc" THEN 3 - k ELSE k) = Field(v, k)
    <3>1. CASE target = "openrisc"
      <4>1. dat = swap_endian(v)
        BY <2>1, <3>1 DEF Stored
      <4>2. dat \in WordOf(WordBits) /\ \A k \in 0 .. 3 : Field(dat, k) = Field(v, 3 - k)
        BY <1>1, <4>1, Swapped
      <4> HIDE DEF dat
      <4>3. dat \in Nat
        BY <4>2, Sizes, WordSize
      <4>4. QED BY <2>2, <3>1, <4>2, <4>3
    <3>2. CASE target # "openrisc"
      BY <1>1, <2>1, <3>2 DEF Stored
    <3>3. QED BY <3>1, <3>2
  <2> HIDE DEF dat
  <2>4. QED BY <1>6, <2>2, <2>3 DEF dat
<1>7. QED BY <1>4, <1>5, <1>6

\* A load has done what it says.
LEMMA InvLoads == IInv => LoadsBytes
<1> SUFFICES ASSUME IInv, rD # None PROVE LoadsBytes
  BY DEF LoadsBytes
<1>1. PICK op \in Loads, addr \in Nat :
        /\ access.op = op /\ access.addr = addr
        /\ mem_read(addr, Bytes(op)) # Abort /\ rD = Loaded(op, mem_read(addr, Bytes(op)))
  BY DEF IInv, LoadDone, StoreDone, At
<1> DEFINE n == Bytes(op)
           dat == mem_read(addr, n)
           from == IF n = 2 /\ addr = 0 THEN 2 ELSE addr
           J(k) == IF target = "openrisc" THEN n - 1 - k ELSE k
           top == Byte(tmp_mem, from + IF target = "openrisc" THEN 0 ELSE n - 1)
           negative == SignExtends(op) /\ top >= 2^(ByteBits - 1)
<1>2. SUFFICES ASSUME addr < MemSize, n \in {1, 2, 4}, n = 4 => addr % 4 = 0
               PROVE  /\ n = 2 => addr \in {0, 4}
                      /\ \A k \in 0 .. n - 1 : ByteOf(rD, k, n) = Byte(tmp_mem, from + k)
                      /\ LShr(rD, n * ByteBits) =
                           IF negative THEN 2^(RegBits - n * ByteBits) - 1 ELSE 0
  BY <1>1 DEF LoadsBytes
<1>3. /\ dat \in Nat /\ (n = 2 => addr \in {0, 4})
      /\ \A k \in 0 .. n - 1 : Field(dat, J(k)) = Byte(tmp_mem, from + k)
  BY <1>1, <1>2, ReadsBytes
<1> HIDE DEF from
<1>4. /\ \A j \in 0 .. n - 1 : Field(rD, j) = Field(dat, j)
      /\ LShr(rD, n * ByteBits) =
           IF SignExtends(op) /\ Field(dat, n - 1) >= 2^(ByteBits - 1)
           THEN 2^(RegBits - n * ByteBits) - 1 ELSE 0
  BY <1>1, <1>2, <1>3, LoadedParts
<1>5. \A k \in 0 .. n - 1 : J(k) \in 0 .. n - 1
  BY <1>2
<1>6. \A k \in 0 .. n - 1 : ByteOf(rD, k, n) = Field(rD, J(k))
  BY DEF ByteOf, Field
<1>7. top = Field(dat, n - 1)
  <2>1. CASE target = "openrisc"
    <3>1. 0 \in 0 .. n - 1 /\ n - 1 - 0 = n - 1
      BY <1>2
    <3>2. Field(dat, n - 1 - 0) = Byte(tmp_mem, from + 0)
      BY <1>3, <2>1, <3>1
    <3>3. QED BY <2>1, <3>1, <3>2
  <2>2. CASE target # "openrisc"
    <3>1. n - 1 \in 0 .. n - 1
      BY <1>2
    <3>2. QED BY <1>3, <2>2, <3>1
  <2>3. QED BY <2>1, <2>2
<1> HIDE DEF dat, top, J, n
<1>8. \A k \in 0 .. n - 1 : ByteOf(rD, k, n) = Byte(tmp_mem, from + k)
  BY <1>3, <1>4, <1>5, <1>6
<1>9. QED BY <1>3, <1>4, <1>7, <1>8

\* For every size of a byte and every memory, a byte or an aligned word is loaded
\* as the bytes memory holds, in the target's order and extended as the mnemonic
\* says; a half word is found at 0 and at 4 only (gen_lw, dummy_mem::mem_read).
THEOREM LoadsRight == Spec => []LoadsBytes
BY Invariance, InvLoads, PTL

-----------------------------------------------------------------------------
(* What is stored.                                                         *)

\* The bits of a word of which byte k is replaced.
LEMMA ReplacedBits ==
  ASSUME NEW v \in WordOf(WordBits), NEW k \in 0 .. 3, NEW val \in Nat,
         NEW p \in 0 .. WordBits - 1
  PROVE  LET s == k * ByteBits
             new == IF p < s THEN 0 ELSE BitOf(val, p - s)
         IN  BitOf(WithByte(v, k, val), p) = 1
               <=> (BitOf(v, p) = 1 /\ ~ (s =< p /\ p < s + ByteBits)) \/ new = 1
<1> DEFINE s == k * ByteBits
           ones == 2^ByteBits - 1
           x == Shl(ones, s, WordBits)
           y == Shl(val, s, WordBits)
           z == AllOnes - x
<1>1. /\ s \in Nat /\ ByteBits \in Nat \ {0} /\ ByteBits \in Nat /\ WordBits \in Nat \ {0}
      /\ WordBits \in Nat /\ p \in Nat /\ p < WordBits /\ v \in Nat /\ val \in Int
  BY Sizes, WordSize
<1>2. ones \in WordOf(ByteBits) /\ ones \in Int
      /\ \A q \in Nat : BitOf(ones, q) = IF q < ByteBits THEN 1 ELSE 0
  <2>1. 0 \in WordOf(ByteBits) /\ 0 \in WordOf(0) /\ 0 \in Nat /\ ones = 2^ByteBits - 1 - 0
    BY <1>1, Powers, PowerZero DEF WordOf
  <2>2. ones \in WordOf(ByteBits) /\ ones \in Int
    BY <1>1, Powers DEF WordOf
  <2>3. ASSUME NEW q \in Nat PROVE BitOf(ones, q) = IF q < ByteBits THEN 1 ELSE 0
    <3>1. CASE q < ByteBits
      <4>1. q \in 0 .. ByteBits - 1 /\ 0 =< q
        BY <1>1, <3>1
      <4>2. BitOf(2^ByteBits - 1 - 0, q) = 1 - BitOf(0, q)
        BY <1>1, <2>1, <4>1, BitOfComplement
      <4>3. BitOf(0, q) = 0
        BY <2>1, <4>1, BitsBeyond
      <4>4. QED BY <2>1, <3>1, <4>2, <4>3
    <3>2. CASE ~ (q < ByteBits)
      <4>1. ByteBits =< q
        BY <1>1, <3>2
      <4>2. QED BY <1>1, <2>2, <3>2, <4>1, BitsBeyond
    <3>3. QED BY <3>1, <3>2
  <2>4. QED BY <2>2, <2>3
<1> HIDE DEF ones, s
<1>3. ASSUME NEW u \in Int
      PROVE  /\ Shl(u, s, WordBits) \in WordOf(WordBits)
             /\ BitOf(Shl(u, s, WordBits), p) = IF p < s THEN 0 ELSE BitOf(u, p - s)
  <2> DEFINE m == u * 2^s
  <2>1. m \in Int /\ BitOf(m, p) = IF p < s THEN 0 ELSE BitOf(u, p - s)
    <3>1. 2^s \in Nat \ {0}
      BY <1>1, Powers
    <3>2. u * 2^s \in Int
      BY <1>3, <3>1
    <3>3. BitOf(u * 2^s, p) = IF p < s THEN 0 ELSE BitOf(u, p - s)
      BY <1>1, <1>3, BitOfMultiple
    <3>4. QED BY <3>2, <3>3
  <2> HIDE DEF m
  <2>2. m % 2^WordBits \in WordOf(WordBits)
    BY <1>1, <2>1, RemainderIsWord
  <2>3. BitOf(m % 2^WordBits, p) = BitOf(m, p)
    BY <1>1, <2>1, BitOfRemainder
  <2>4. QED BY <2>1, <2>2, <2>3 DEF Shl, m
<1>4. x \in WordOf(WordBits) /\ y \in WordOf(WordBits)
      /\ BitOf(x, p) = (IF p < s THEN 0 ELSE BitOf(ones, p - s))
      /\ BitOf(y, p) = (IF p < s THEN 0 ELSE BitOf(val, p - s))
  BY <1>1, <1>2, <1>3
<1> HIDE DEF x, y
<1>5. z \in WordOf(WordBits) /\ BitOf(z, p) = 1 - BitOf(x, p)
  BY <1>1, <1>4, BitOfComplement DEF AllOnes
<1>6. BitOf(x, p) = IF s =< p /\ p < s + ByteBits THEN 1 ELSE 0
  <2>1. CASE p < s
    BY <1>1, <1>4, <2>1
  <2>2. CASE ~ (p < s)
    <3>1. p - s \in Nat /\ (p - s < ByteBits <=> p < s + ByteBits) /\ s =< p
      BY <1>1, <2>2
    <3>2. QED BY <1>2, <1>4, <2>2, <3>1
  <2>3. QED BY <2>1, <2>2
<1> HIDE DEF z
<1>7. z \in Nat /\ y \in Nat
  BY <1>1, <1>4, <1>5, WordSize
<1>8. v & z \in Nat /\ (BitOf(v & z, p) = 1 <=> BitOf(v, p) = 1 /\ BitOf(z, p) = 1)
  <2>1. v & z \in Nat
    BY <1>1, <1>7, BitsCombine
  <2>2. \A q \in Nat : BitOf(v & z, q) = 1 <=> BitOf(v, q) = 1 /\ BitOf(z, q) = 1
    <3>1. v \in Nat /\ z \in Nat
      BY <1>1, <1>7
    <3>2. \A q \in Nat : /\ BitOf(v & z, q) = 1 <=> BitOf(v, q) = 1 /\ BitOf(z, q) = 1
                         /\ BitOf(v | z, q) = 1 <=> BitOf(v, q) = 1 \/ BitOf(z, q) = 1
                         /\ BitOf(v ^^ z, q) = 1 <=> BitOf(v, q) # BitOf(z, q)
      BY <3>1, BitsCombine, Zenon
    <3>3. QED BY <3>2
  <2>3. QED BY <1>1, <2>1, <2>2, Zenon
<1>9. BitOf((v & z) | y, p) = 1 <=> BitOf(v & z, p) = 1 \/ BitOf(y, p) = 1
  <2> DEFINE a == v & z
  <2> HIDE DEF a
  <2>1. a \in Nat
    BY <1>8 DEF a
  <2>2. \A q \in Nat : BitOf(a | y, q) = 1 <=> BitOf(a, q) = 1 \/ BitOf(y, q) = 1
    BY <1>7, <2>1, BitsCombine
  <2>3. QED BY <1>1, <2>2, Zenon DEF a
<1>10. WithByte(v, k, val) = (v & z) | y
  BY DEF WithByte, x, y, z, s, ones
<1>11. BitOf(z, p) = 1 <=> ~ (s =< p /\ p < s + ByteBits)
  BY <1>5, <1>6
<1>12. QED BY <1>4, <1>8, <1>9, <1>10, <1>11 DEF s

\* Replacing a byte of a word leaves those below it. It adds what the value has
\* beyond a byte to those above.
LEMMA ReplacedFields ==
  ASSUME target \in {"openrisc", "riscv"}, NEW v \in WordOf(WordBits), NEW k \in 0 .. 3,
         NEW val \in WordOf(RegBits), NEW j \in 0 .. 3
  PROVE  LET x == WithByte(v, k, val)
         IN  /\ j = k => Field(x, j) = Field(val, 0)
             /\ j < k => Field(x, j) = Field(v, j)
             /\ j > k => /\ Field(x, j) = (Field(v, j) | Field(x, j))
                         /\ val < 2^ByteBits => Field(x, j) = Field(v, j)
<1> DEFINE x == WithByte(v, k, val)
           R == 0 .. ByteBits - 1
           s == k * ByteBits
           t == j * ByteBits
<1>1. /\ x \in WordOf(WordBits) /\ x \in Int /\ v \in Int /\ val \in Nat /\ val \in Int
      /\ j \in Nat /\ k \in Nat /\ ByteBits \in Nat \ {0} /\ ByteBits \in Nat /\ WordBits = 4 * ByteBits
      /\ s \in Nat /\ t \in Nat
  <2>1. x \in WordOf(WordBits)
    BY WordsWritten
  <2>2. QED BY <2>1, Sizes, WordSize
<1>2. /\ j < k => t + ByteBits =< s
      /\ j > k => s + ByteBits =< t
      /\ t + ByteBits =< 4 * ByteBits
  <2>1. \A a, b \in 0 .. 4 : a < b => a * ByteBits + ByteBits =< b * ByteBits
    <3>1. ASSUME NEW a \in 0 .. 4, NEW b \in 0 .. 4, a < b
          PROVE  a * ByteBits + ByteBits =< b * ByteBits
      <4>1. PICK e \in Nat : b = a + 1 + e
        BY <3>1
      <4>2. (a + 1 + e) * ByteBits = a * ByteBits + ByteBits + e * ByteBits
            /\ e * ByteBits \in Nat /\ a * ByteBits \in Nat
        BY <1>1
      <4>3. QED BY <1>1, <4>1, <4>2
    <3>2. QED BY <3>1
  <2>2. j < 4 /\ 4 \in 0 .. 4 /\ j \in 0 .. 4 /\ k \in 0 .. 4
    OBVIOUS
  <2>3. QED BY <2>1, <2>2
<1> HIDE DEF x, s, t
<1>3. \A p \in R : /\ p + t \in 0 .. WordBits - 1 /\ p + t \in Nat
                   /\ BitOf(x, p + t) \in {0, 1} /\ BitOf(v, p + t) \in {0, 1}
                   /\ BitOf(val, p) \in {0, 1}
  <2>1. ASSUME NEW p \in R
        PROVE  p + t \in 0 .. WordBits - 1 /\ p + t \in Nat /\ p \in Nat
    BY <1>1, <1>2
  <2>2. QED BY <1>1, <2>1, BitValue
<1>4. ASSUME NEW p \in R
      PROVE  BitOf(x, p + t) = 1
               <=> (BitOf(v, p + t) = 1 /\ ~ (s =< p + t /\ p + t < s + ByteBits))
                     \/ (IF p + t < s THEN 0 ELSE BitOf(val, (p + t) - s)) = 1
  BY <1>1, <1>3, ReplacedBits DEF x, s
<1>5. ASSUME j = k PROVE Field(x, j) = Field(val, 0)
  <2>1. ASSUME NEW p \in R PROVE BitOf(x, p + j * ByteBits) = BitOf(val, p + 0 * ByteBits)
    <3>1. s = t /\ (p + t) - s = p /\ p + 0 * ByteBits = p /\ s =< p + t /\ p + t < s + ByteBits
          /\ ~ (p + t < s)
      BY <1>1, <1>5 DEF s, t
    <3>2. BitOf(x, p + t) = 1 <=> BitOf(val, p) = 1
      BY <1>4, <3>1
    <3>3. BitOf(x, p + t) = BitOf(val, p)
      BY <1>3, <3>2
    <3>4. QED BY <3>1, <3>3 DEF t
  <2>2. 0 \in Nat
    OBVIOUS
  <2>3. QED BY <1>1, <2>1, <2>2, SameFields
<1>6. ASSUME j < k PROVE Field(x, j) = Field(v, j)
  <2>1. ASSUME NEW p \in R PROVE BitOf(x, p + j * ByteBits) = BitOf(v, p + j * ByteBits)
    <3>1. p + t < s /\ ~ (s =< p + t)
      BY <1>1, <1>2, <1>6
    <3>2. BitOf(x, p + t) = 1 <=> BitOf(v, p + t) = 1
      BY <1>4, <3>1
    <3>3. QED BY <1>3, <3>2 DEF t
  <2>2. \A p \in 0 .. ByteBits - 1 : BitOf(x, p + j * ByteBits) = BitOf(v, p + j * ByteBits)
    BY <2>1
  <2>3. x \in Int /\ v \in Int /\ j \in Nat
    BY <1>1
  <2>4. QED BY <2>2, <2>3, SameFields
<1>7. ASSUME j > k
      PROVE  /\ Field(x, j) = (Field(v, j) | Field(x, j))
             /\ val < 2^ByteBits => Field(x, j) = Field(v, j)
  <2>1. ASSUME NEW p \in R
        PROVE  /\ ~ (p + t < s) /\ ~ (p + t < s + ByteBits)
               /\ (p + t) - s \in Nat /\ ByteBits =< (p + t) - s
    BY <1>1, <1>2, <1>7
  <2>2. ASSUME NEW p \in R
        PROVE  BitOf(x, p + t) = 1 <=> BitOf(v, p + t) = 1 \/ BitOf(val, (p + t) - s) = 1
    BY <1>4, <2>1
  <2>3. ASSUME val < 2^ByteBits PROVE Field(x, j) = Field(v, j)
    <3>1. val \in WordOf(ByteBits)
      BY <1>1, <2>3, Powers DEF WordOf
    <3>2. ASSUME NEW p \in R PROVE BitOf(x, p + j * ByteBits) = BitOf(v, p + j * ByteBits)
      <4>1. BitOf(val, (p + t) - s) = 0
        BY <1>1, <2>1, <3>1, BitsBeyond
      <4>2. BitOf(x, p + t) = 1 <=> BitOf(v, p + t) = 1
        BY <2>2, <4>1
      <4>3. QED BY <1>3, <4>2 DEF t
    <3>3. \A p \in 0 .. ByteBits - 1 : BitOf(x, p + j * ByteBits) = BitOf(v, p + j * ByteBits)
      BY <3>2
    <3>4. x \in Int /\ v \in Int /\ j \in Nat
      BY <1>1
    <3>5. QED BY <3>3, <3>4, SameFields
  <2>4. Field(x, j) = (Field(v, j) | Field(x, j))
    <3> DEFINE f == Field(x, j)
               g == Field(v, j)
    <3>1. f \in WordOf(ByteBits) /\ g \in WordOf(ByteBits)
          /\ \A p \in R : BitOf(f, p) = BitOf(x, p + t) /\ BitOf(g, p) = BitOf(v, p + t)
      BY <1>1, FieldBits DEF t
    <3> HIDE DEF f, g
    <3>2. f \in Nat /\ g \in Nat
      BY <1>1, <3>1, WordSize
    <3>3. /\ (g | f) \in WordOf(ByteBits)
          /\ \A p \in Nat : BitOf(g | f, p) = 1 <=> BitOf(g, p) = 1 \/ BitOf(f, p) = 1
      BY <1>1, <3>1, <3>2, BitsCombine
    <3>4. ASSUME NEW p \in R PROVE BitOf(f, p) = 1 <=> BitOf(g | f, p) = 1
      <4>1. p \in Nat
        BY <1>1
      <4>2. BitOf(g, p) = 1 => BitOf(f, p) = 1
        BY <2>2, <3>1
      <4>3. QED BY <3>3, <4>1, <4>2
    <3>5. f = (g | f)
      BY <1>1, <3>1, <3>3, <3>4, SameBits
    <3>6. QED BY <3>5 DEF f, g
  <2>5. QED BY <2>3, <2>4
<1>8. QED BY <1>5, <1>6, <1>7 DEF x

\* Where a byte of memory is.
LEMMA Places ==
  ASSUME NEW p \in 0 .. MemSize - 1
  PROVE  /\ p \div 4 \in 0 .. NWords - 1 /\ p % 4 \in 0 .. 3 /\ p = 4 * (p \div 4) + (p % 4)
         /\ \A m : Byte(m, p) = Field(m[p \div 4], p % 4)
<1>1. MemSize = 4 * NWords /\ NWords \in Nat
  BY Sizes
<1>2. p \div 4 \in 0 .. NWords - 1 /\ p % 4 \in 0 .. 3 /\ p = 4 * (p \div 4) + (p % 4)
  BY <1>1
<1>3. QED BY <1>2 DEF Byte, Field

\* What a store of each size writes, byte for byte.
LEMMA StorePuts ==
  ASSUME IInv, NEW op \in Stores, NEW addr \in Nat, addr < MemSize, NEW val \in WordOf(RegBits),
         Aligned(op, addr), mem_write(addr, Bytes(op), val), state' = "running",
         NEW p \in 0 .. MemSize - 1
  PROVE  LET n == Bytes(op)
             old == Byte(tmp_mem, p)
             new == Byte(tmp_mem', p)
             spills == n = 1 /\ val >= 2^ByteBits
         IN  IF p \in addr .. addr + n - 1 THEN new = ByteOf(val, p - addr, n)
             ELSE \/ new = old
                  \/ spills /\ p > addr /\ p \div 4 = addr \div 4 /\ new = (old | new)
<1> DEFINE n == Bytes(op)
           w == addr \div 4
           k == addr % 4
           pw == p \div 4
           pk == p % 4
           old == Byte(tmp_mem, p)
           new == Byte(tmp_mem', p)
<1>1. /\ addr \in 0 .. MemSize - 1 /\ target \in {"openrisc", "riscv"}
      /\ tmp_mem \in [0 .. NWords - 1 -> WordOf(WordBits)]
      /\ val \in Nat /\ val \in Int /\ NWords \in Nat /\ 2^ByteBits \in Nat
  <2>1. RegBits \in Nat \ {0} /\ MemSize \in Nat /\ NWords \in Nat /\ ByteBits \in Nat
    BY Sizes
  <2>2. val \in Nat /\ 2^ByteBits \in Nat
    BY <2>1, WordSize, Powers
  <2>3. QED BY <2>1, <2>2 DEF IInv
<1>2. /\ w \in 0 .. NWords - 1 /\ k \in 0 .. 3 /\ addr = 4 * w + k
      /\ pw \in 0 .. NWords - 1 /\ pk \in 0 .. 3 /\ p = 4 * pw + pk
      /\ old = Field(tmp_mem[pw], pk) /\ new = Field(tmp_mem'[pw], pk)
  BY <1>1, Places
<1>3. \A i, m : ByteOf(val, i, m) = Field(val, IF target = "openrisc" THEN m - 1 - i ELSE i)
  BY DEF ByteOf, Field
<1>4. op \in {"sb", "sh", "sw", "sd"} /\ op # "sh"
  <2>1. op \in {"sb", "sh", "sw", "sd"}
    BY DEF Stores
  <2>2. op = "sh" => state' = "aborted"
    BY StoreLeaves
  <2>3. QED BY <2>1, <2>2
<1>5. CASE op = "sw"
  <2> DEFINE x == Stored(Trunc(val, WordBits))
  <2>1. n = 4 /\ k = 0
    BY <1>5 DEF Bytes, Aligned
  <2>2. tmp_mem' = [tmp_mem EXCEPT ![w] = x]
    BY <1>5, StoreLeaves
  <2>3. \A i \in 0 .. 3 : Field(x, i) = Field(val, IF target = "openrisc" THEN 3 - i ELSE i)
    <3> DEFINE t == Trunc(val, WordBits)
    <3>1. t \in WordOf(WordBits)
      <4>1. tmp_mem[w] \in WordOf(WordBits)
        BY <1>1, <1>2
      <4>2. QED BY <1>1, <1>2, <4>1, WordsWritten
    <3>2. t \in Nat /\ \A i \in 0 .. 3 : Field(t, i) = Field(val, i)
      <4>1. WordBits = 4 * ByteBits /\ WordBits \in Nat \ {0} /\ 4 \in Nat
        BY Sizes
      <4>2. \A i \in 0 .. 4 - 1 : Field(Trunc(val, 4 * ByteBits), i) = Field(val, i)
        BY <1>1, <4>1, FieldOfTrunc
      <4>3. QED BY <3>1, <4>1, <4>2, WordSize
    <3> HIDE DEF t
    <3>3. CASE target = "openrisc"
      <4>1. \A i \in 0 .. 3 : Field(swap_endian(t), i) = Field(t, 3 - i) /\ 3 - i \in 0 .. 3
        BY <3>2, Swapped
      <4>2. QED BY <3>2, <3>3, <4>1 DEF Stored, t
    <3>4. CASE target # "openrisc"
      BY <3>2, <3>4 DEF Stored, t
    <3>5. QED BY <3>3, <3>4
  <2> HIDE DEF x, w, k, pw, pk
  <2>4. CASE pw = w
    <3>1. p - addr = pk /\ n - 1 - pk = 3 - pk /\ p \in addr .. addr + n - 1
      BY <1>2, <2>1, <2>4
    <3>2. tmp_mem'[pw] = x
      BY <1>1, <1>2, <2>2, <2>4
    <3>3. QED BY <1>2, <1>3, <2>3, <3>1, <3>2
  <2>5. CASE pw # w
    <3>1. tmp_mem'[pw] = tmp_mem[pw]
      BY <1>1, <1>2, <2>2, <2>5
    <3>2. p \notin addr .. addr + n - 1
      BY <1>2, <2>1, <2>5
    <3>3. QED BY <1>2, <3>1, <3>2
  <2>6. QED BY <2>4, <2>5
<1>6. CASE op = "sb"
  <2> DEFINE x == WithByte(tmp_mem[w], k, val)
  <2>1. n = 1
    BY <1>6 DEF Bytes
  <2>2. tmp_mem' = [tmp_mem EXCEPT ![w] = x]
    BY <1>6, StoreLeaves
  <2>3. /\ pk = k => Field(x, pk) = Field(val, 0)
        /\ pk < k => Field(x, pk) = Field(tmp_mem[w], pk)
        /\ pk > k => /\ Field(x, pk) = (Field(tmp_mem[w], pk) | Field(x, pk))
                     /\ val < 2^ByteBits => Field(x, pk) = Field(tmp_mem[w], pk)
    <3>1. tmp_mem[w] \in WordOf(WordBits)
      BY <1>1, <1>2
    <3>2. QED BY <1>1, <1>2, <3>1, ReplacedFields
  <2> HIDE DEF x, w, k, pw, pk
  <2>4. CASE pw = w
    <3>1. tmp_mem'[pw] = x
      BY <1>1, <1>2, <2>2, <2>4
    <3>2. CASE pk = k
      <4>1. p - addr = 0 /\ n - 1 - 0 = 0 /\ p \in addr .. addr + n - 1
        BY <1>2, <2>1, <2>4, <3>2
      <4>2. QED BY <1>2, <1>3, <2>3, <3>1, <3>2, <4>1
    <3>3. CASE pk < k
      <4>1. p \notin addr .. addr + n - 1
        BY <1>2, <2>1, <2>4, <3>3
      <4>2. QED BY <1>2, <2>3, <2>4, <3>1, <3>3, <4>1
    <3>4. CASE pk > k
      <4>1. p \notin addr .. addr + n - 1 /\ p > addr
        BY <1>2, <2>1, <2>4, <3>4
      <4>2. new = (old | new) /\ (val < 2^ByteBits => new = old)
        BY <1>2, <2>3, <2>4, <3>1, <3>4
      <4>3. val < 2^ByteBits \/ val >= 2^ByteBits
        BY <1>1
      <4> HIDE DEF old, new, n
      <4>4. QED BY <2>1, <2>4, <4>1, <4>2, <4>3 DEF old, new, n, w, pw
    <3>5. QED BY <1>2, <3>2, <3>3, <3>4
  <2>5. CASE pw # w
    <3>1. tmp_mem'[pw] = tmp_mem[pw]
      BY <1>1, <1>2, <2>2, <2>5
    <3>2. p \notin addr .. addr + n - 1
      BY <1>2, <2>1, <2>5
    <3>3. QED BY <1>2, <3>1, <3>2
  <2>6. QED BY <2>4, <2>5
<1>7. CASE op = "sd"
  <2> DEFINE x == Trunc(val, WordBits)
             y == LShr(val, WordBits)
             low == [tmp_mem EXCEPT ![w] = x]
  <2>1. n = 8 /\ k = 0
    BY <1>7 DEF Bytes, Aligned
  <2>2. target = "riscv" /\ w + 1 < NWords /\ tmp_mem' = [low EXCEPT ![w + 1] = y]
    BY <1>7, StoreLeaves
  <2>3. \A i \in 0 .. 3 : Field(x, i) = Field(val, i) /\ Field(y, i) = Field(val, i + 4)
    <3>1. WordBits = 4 * ByteBits /\ 4 \in Nat
      BY Sizes
    <3>2. \A i \in 0 .. 4 - 1 : Field(Trunc(val, 4 * ByteBits), i) = Field(val, i)
      BY <1>1, <3>1, FieldOfTrunc
    <3>3. \A i \in Nat : Field(LShr(val, 4 * ByteBits), i) = Field(val, i + 4)
      BY <1>1, <3>1, FieldOfShift
    <3>4. QED BY <3>1, <3>2, <3>3
  <2> HIDE DEF x, y, w, k, pw, pk
  <2>4. CASE pw = w
    <3>1. p - addr = pk /\ p \in addr .. addr + n - 1 /\ pw # w + 1
      BY <1>2, <2>1, <2>4
    <3>2. tmp_mem'[pw] = x
      BY <1>1, <1>2, <2>2, <2>4, <3>1
    <3>3. QED BY <1>2, <1>3, <2>2, <2>3, <3>1, <3>2
  <2>5. CASE pw = w + 1
    <3>1. p - addr = pk + 4 /\ p \in addr .. addr + n - 1
      BY <1>2, <2>1, <2>5
    <3>2. tmp_mem'[pw] = y
      BY <1>1, <1>2, <2>2, <2>5
    <3>3. QED BY <1>2, <1>3, <2>2, <2>3, <3>1, <3>2
  <2>6. CASE pw # w /\ pw # w + 1
    <3>1. tmp_mem'[pw] = tmp_mem[pw]
      BY <1>1, <1>2, <2>2, <2>6
    <3>2. p \notin addr .. addr + n - 1
      BY <1>2, <2>1, <2>6
    <3>3. QED BY <1>2, <3>1, <3>2
  <2>7. QED BY <2>4, <2>5, <2>6
<1>8. QED BY <1>4, <1>5, <1>6, <1>7

\* For every size of a byte and every memory, an aligned store puts the register's
\* bytes at its address and disturbs no other, but that a byte store of a register
\* that holds more sets bits above it in its word (gen_sw, dummy_mem::mem_write).
THEOREM StoresRight == Spec => StoresBytes
<1> DEFINE A == LET op == access'.op
                    at == access'.addr
                    n  == Bytes(op)
                    spills == n = 1 /\ access'.val >= 2^ByteBits
                IN  accesses' # accesses /\ op \in Stores /\ at < MemSize
                      /\ Aligned(op, at) /\ state' = "running" =>
                    \A p \in 0 .. MemSize - 1 :
                      LET old == Byte(tmp_mem, p)
                          new == Byte(tmp_mem', p)
                      IN  IF p \in at .. at + n - 1 THEN new = ByteOf(access'.val, p - at, n)
                          ELSE \/ new = old
                               \/ /\ spills /\ p > at /\ p \div 4 = at \div 4
                                  /\ new = (old | new)
<1>1. IInv /\ [Next]_vars => [A]_vars
  <2> SUFFICES ASSUME IInv, Next, accesses' # accesses, access'.op \in Stores,
                      access'.addr < MemSize, Aligned(access'.op, access'.addr),
                      state' = "running"
               PROVE  A
    BY DEF vars
  <2>1. PICK base \in Bases, imm \in WordOf(ImmBits), op \in Stores, val \in WordOf(RegBits) :
          disas_insn_store(op, base, imm, val)
    <3>1. ASSUME NEW base \in Bases, NEW imm \in WordOf(ImmBits), NEW op \in Loads,
                 disas_insn_load(op, base, imm)
          PROVE  FALSE
      <4>1. access'.op = op
        BY <3>1 DEF disas_insn_load, Accesses
      <4>2. Loads \cap Stores = {}
        BY DEF Loads, Stores
      <4>3. QED BY <4>1, <4>2
    <3>2. QED BY <3>1 DEF Next
  <2>2. PICK a \in Nat : a = EA(op, base, imm)
    BY Addresses
  <2>3. /\ access' = [op |-> op, base |-> base, imm |-> imm, addr |-> a, val |-> val]
        /\ mem_write(a, Bytes(op), val)
    BY <2>1, <2>2, Helpers DEF disas_insn_store, Accesses
  <2>4. access'.op = op /\ access'.addr = a /\ access'.val = val
    BY <2>3
  <2>5. a < MemSize /\ Aligned(op, a)
    BY <2>4
  <2>6. ASSUME NEW p \in 0 .. MemSize - 1
        PROVE  LET n == Bytes(op)
                   old == Byte(tmp_mem, p)
                   new == Byte(tmp_mem', p)
                   spills == n = 1 /\ val >= 2^ByteBits
               IN  IF p \in a .. a + n - 1 THEN new = ByteOf(val, p - a, n)
                   ELSE \/ new = old
                        \/ spills /\ p > a /\ p \div 4 = a \div 4 /\ new = (old | new)
    BY <2>3, <2>5, StorePuts
  <2>7. QED BY <2>4, <2>6
<1>2. QED BY <1>1, Invariance, PTL DEF Spec, StoresBytes

-----------------------------------------------------------------------------
(* What is stored is loaded again.                                         *)

\* A word swapped twice is itself.
LEMMA SwappedTwice ==
  ASSUME NEW v \in WordOf(WordBits) PROVE swap_endian(swap_endian(v)) = v
<1> DEFINE x == swap_endian(v)
           y == swap_endian(x)
<1>1. v \in Nat
  BY Sizes, WordSize
<1>2. x \in WordOf(WordBits) /\ \A k \in 0 .. 3 : Field(x, k) = Field(v, 3 - k)
  BY <1>1, Swapped
<1> HIDE DEF x
<1>3. x \in Nat
  BY <1>2, Sizes, WordSize
<1>4. y \in WordOf(WordBits) /\ \A k \in 0 .. 3 : Field(y, k) = Field(x, 3 - k)
  BY <1>3, Swapped
<1> HIDE DEF y
<1>5. ASSUME NEW k \in 0 .. 3 PROVE Field(y, k) = Field(v, k)
  <2>1. 3 - k \in 0 .. 3 /\ 3 - (3 - k) = k
    OBVIOUS
  <2>2. QED BY <1>2, <1>4, <2>1
<1>6. QED BY <1>4, <1>5, FieldsDetermine DEF x, y

\* An immediate and its low bits stand for the same integer exactly if it fits them.
LEMMA FitsLow ==
  ASSUME NEW imm \in WordOf(ImmBits)
  PROVE  LET x == IntOf(imm, ImmBits)
             y == IntOf(Trunc(imm, LowBits), LowBits)
         IN  /\ x \in Int /\ y \in Int /\ x - y < 2^RegBits /\ y - x < 2^RegBits
             /\ x = y <=> x \in -(2^(LowBits - 1)) .. 2^(LowBits - 1) - 1
<1> DEFINE low == Trunc(imm, LowBits)
           x == IntOf(imm, ImmBits)
           y == IntOf(low, LowBits)
           L == 2^LowBits
           H == 2^(LowBits - 1)
           K == 2^(ImmBits - LowBits)
<1>1. /\ imm \in Nat /\ imm \in Int /\ low \in WordOf(LowBits)
      /\ L \in Nat \ {0} /\ 2^ImmBits = K * L /\ K \in Nat
  <2>1. LowBits \in Nat \ {0} /\ ImmBits \in Nat \ {0} /\ LowBits \in Nat /\ ImmBits \in Nat
        /\ LowBits =< ImmBits
    BY Sizes
  <2>2. imm \in Nat /\ imm \in Int
    BY <2>1, WordSize
  <2>3. low \in WordOf(LowBits)
    BY <2>1, <2>2, RemainderIsWord DEF Trunc
  <2>4. L \in Nat \ {0} /\ 2^ImmBits = K * L /\ ImmBits - LowBits \in Nat
    BY <2>1, Powers, PowersGrow
  <2>5. K \in Nat
    BY <2>4, Powers
  <2>6. QED BY <2>2, <2>3, <2>4, <2>5
<1>2. /\ L = 2 * H /\ H \in Nat \ {0} /\ y \in -H .. H - 1 /\ y % L = low
  <2>1. LowBits \in Nat \ {0} /\ 0 \in Nat
    BY Sizes
  <2> HIDE DEF low
  <2>2. QED BY <1>1, <2>1, BitOfInt
<1>3. /\ 2^ImmBits = 2 * 2^(ImmBits - 1) /\ 2^(ImmBits - 1) \in Nat \ {0}
      /\ x \in -(2^(ImmBits - 1)) .. 2^(ImmBits - 1) - 1
  <2>1. ImmBits \in Nat \ {0} /\ 0 \in Nat
    BY Sizes
  <2>2. QED BY <2>1, BitOfInt
<1>4. x = imm \/ x = imm - K * L
  BY <1>1 DEF IntOf
<1> HIDE DEF x, y, K
<1>5. x % L = low
  <2>1. imm % L = low
    BY DEF Trunc
  <2>2. CASE x = imm
    BY <2>1, <2>2
  <2>3. CASE x = imm - K * L
    <3>1. x = imm + (-K) * L /\ -K \in Int
      BY <1>1, <2>3
    <3>2. (imm + (-K) * L) % L = imm % L
      BY <1>1, <3>1, MultipleAdded
    <3>3. QED BY <2>1, <3>1, <3>2
  <2>4. QED BY <1>4, <2>2, <2>3
<1>6. L =< 2^ImmBits /\ 2^ImmBits =< 2^RegBits /\ 2^RegBits \in Nat
  <2>1. LowBits \in Nat /\ ImmBits \in Nat /\ RegBits \in Nat /\ LowBits =< ImmBits /\ ImmBits =< RegBits
    BY Sizes
  <2>2. QED BY <2>1, PowersGrow, Powers
<1> HIDE DEF L, H, low
<1>7. x \in Int /\ y \in Int /\ x - y < 2^RegBits /\ y - x < 2^RegBits
  <2>1. x \in Int /\ y \in Int
    BY <1>2, <1>3
  <2>2. H =< 2^(ImmBits - 1)
    BY <1>2, <1>3, <1>6
  <2>3. QED BY <1>2, <1>3, <1>6, <2>1, <2>2
<1>8. x \in -H .. H - 1 => x = y
  <2>1. SUFFICES ASSUME x \in -H .. H - 1, x # y PROVE FALSE
    OBVIOUS
  <2>2. x - y < L /\ y - x < L
    BY <1>2, <1>7, <2>1
  <2>3. x % L # y % L
    BY <1>1, <1>7, <2>1, <2>2, NotCongruent
  <2>4. QED BY <1>2, <1>5, <2>3
<1>9. QED BY <1>2, <1>7, <1>8 DEF x, y, H, low

\* What was stored is loaded from its address exactly if the offset fits.
LEMMA AddressesMeet ==
  ASSUME NEW op, op # "lwz", NEW base \in Bases, NEW imm \in WordOf(ImmBits)
  PROVE  EA(op, base, imm) = EA("lwz", base, imm)
           <=> IntOf(imm, ImmBits) \in -(2^(LowBits - 1)) .. 2^(LowBits - 1) - 1
<1> DEFINE M == 2^RegBits
           x == IntOf(imm, ImmBits)
           y == IntOf(Trunc(imm, LowBits), LowBits)
<1>1. /\ x \in Int /\ y \in Int /\ x - y < M /\ y - x < M
      /\ x = y <=> x \in -(2^(LowBits - 1)) .. 2^(LowBits - 1) - 1
  BY FitsLow
<1>2. base \in Int /\ M \in Nat \ {0}
  <2>1. RegBits \in Nat \ {0} /\ base \in Nat
    BY Sizes, LoadStoreAssumption
  <2>2. QED BY <2>1, WordSize
<1>3. EA(op, base, imm) = (base + (x % M)) % M /\ EA("lwz", base, imm) = (base + (y % M)) % M
  BY DEF EA, Add, Offset, SExt
<1> HIDE DEF M, x, y
<1>4. ASSUME NEW z \in Int PROVE (base + (z % M)) % M = (base + z) % M
  <2> DEFINE q == z \div M
  <2>1. q \in Int /\ z = q * M + (z % M) /\ (z % M) \in Int
    BY <1>2, DivisionInt
  <2> HIDE DEF q
  <2>2. base + z = (base + (z % M)) + q * M /\ base + (z % M) \in Int
    BY <1>2, <2>1
  <2>3. ((base + (z % M)) + q * M) % M = (base + (z % M)) % M
    BY <1>2, <2>1, <2>2, MultipleAdded
  <2>4. QED BY <2>2, <2>3
<1>5. x # y => (base + x) % M # (base + y) % M
  <2>1. SUFFICES ASSUME x # y PROVE (base + x) % M # (base + y) % M
    OBVIOUS
  <2> DEFINE a == base + x
             b == base + y
  <2>2. a \in Int /\ b \in Int /\ a # b /\ a - b < M /\ b - a < M
    BY <1>1, <1>2, <2>1
  <2> HIDE DEF a, b
  <2>3. a % M # b % M
    BY <1>2, <2>2, NotCongruent
  <2>4. QED BY <2>3 DEF a, b
<1>6. EA(op, base, imm) = EA("lwz", base, imm) <=> x = y
  BY <1>1, <1>3, <1>4, <1>5
<1>7. QED BY <1>1, <1>6 DEF x

\* A register that was stored survives being loaded exactly as said.
LEMMA ReloadSurvives ==
  ASSUME target \in {"openrisc", "riscv"}, NEW op \in Loads, Bytes(op) \in {4, 8},
         NEW val \in WordOf(RegBits), NEW dat,
         dat = Trunc(val, WordBits)
  PROVE  (Loaded(op, dat) = val) = Survives(op, val)
<1> DEFINE W == 2^WordBits
<1>1. /\ WordBits \in Nat \ {0} /\ RegBits \in Nat \ {0} /\ W \in Nat \ {0} /\ val \in Nat
      /\ WordBits = 4 * ByteBits /\ ByteBits \in Nat \ {0}
  BY Sizes, WordSize
<1>2. dat \in Nat /\ dat < W /\ dat = val % W
  <2>1. dat \in WordOf(WordBits)
    BY <1>1, RemainderIsWord DEF Trunc
  <2>2. QED BY <1>1, <2>1, WordSize DEF Trunc
<1>3. Trunc(dat, 4 * ByteBits) = dat /\ Trunc(dat, 8 * ByteBits) = dat
  <2>1. 4 * ByteBits \in Nat /\ 8 * ByteBits \in Nat /\ WordBits =< 8 * ByteBits
    BY <1>1
  <2>2. W =< 2^(8 * ByteBits) /\ 2^(8 * ByteBits) \in Nat \ {0}
    BY <1>1, <2>1, PowersGrow, Powers
  <2>3. dat \in 0 .. W - 1 /\ dat \in 0 .. 2^(8 * ByteBits) - 1
    BY <1>1, <1>2, <2>2
  <2>4. dat % W = dat /\ dat % 2^(8 * ByteBits) = dat
    BY <1>1, <2>2, <2>3, ModInRange
  <2>5. QED BY <1>1, <2>4 DEF Trunc
<1>4. dat = val <=> val < W
  <2>1. val < W => val % W = val
    <3>1. val < W => val \in 0 .. W - 1
      BY <1>1
    <3>2. QED BY <1>1, <3>1, ModInRange
  <2>2. QED BY <1>2, <2>1
<1>5. op \in {"lwz", "lw", "lwu", "ld"} /\ (op = "lwz" => target = "openrisc")
  BY DEF Loads, Bytes
<1> HIDE DEF W
<1>6. CASE op = "lwz"
  <2>1. Bytes(op) = 4 /\ ~ SignExtends(op)
    BY <1>6 DEF Bytes, SignExtends
  <2>2. RegBits = WordBits
    BY <1>5, <1>6 DEF RegBits
  <2>3. val < W
    BY <1>1, <2>2, WordSize DEF W
  <2>4. Loaded(op, dat) = val
    BY <1>3, <1>4, <2>1, <2>3 DEF Loaded
  <2>5. Survives(op, val)
    BY <1>6 DEF Survives
  <2>6. Survives(op, val) = TRUE
    BY <1>6 DEF Survives
  <2>7. QED BY <2>4, <2>6
<1>7. CASE op = "lw"
  <2>1. Bytes(op) = 4 /\ SignExtends(op)
    BY <1>7 DEF Bytes, SignExtends
  <2>2. Loaded(op, dat) = SExt(dat, WordBits, RegBits)
    BY <1>1, <1>3, <2>1 DEF Loaded
  <2>3. Survives(op, val) = (val = SExt(dat, WordBits, RegBits))
    BY <1>7 DEF Survives
  <2>4. QED BY <2>2, <2>3
<1>8. CASE op = "lwu"
  <2>1. Bytes(op) = 4 /\ ~ SignExtends(op)
    BY <1>8 DEF Bytes, SignExtends
  <2>2. Loaded(op, dat) = dat
    BY <1>3, <2>1 DEF Loaded
  <2>3. Survives(op, val) = (val < W)
    BY <1>8 DEF Survives, W
  <2>4. QED BY <1>4, <2>2, <2>3
<1>9. CASE op = "ld"
  <2>1. Bytes(op) = 8 /\ ~ SignExtends(op)
    BY <1>9 DEF Bytes, SignExtends
  <2>2. Loaded(op, dat) = dat
    BY <1>3, <2>1 DEF Loaded
  <2>3. Survives(op, val) = (val < W)
    BY <1>9 DEF Survives, W
  <2>4. QED BY <1>4, <2>2, <2>3
<1>10. QED BY <1>5, <1>6, <1>7, <1>8, <1>9

\* For every size of a byte, memory and offset, a register that is stored and loaded
\* again comes back exactly if it survives; l.lwz finds the word l.sw wrote only if
\* the offset fits I11 (gen_sw, gen_lw, dummy_mem).
THEOREM Reloads == Spec => SpillReload
<1> DEFINE A == LET op == access'.op
                IN  /\ access # None /\ accesses' # accesses /\ rD = None /\ rD' # None
                    /\ access.op \in {"sw", "sd"} /\ Bytes(access.op) = Bytes(op)
                    /\ access.base = access'.base /\ access.imm = access'.imm
                    /\ access.addr < MemSize
                    => LET fits == op = "lwz" => IntOf(access.imm, ImmBits)
                                                  \in -(2^(LowBits - 1)) .. 2^(LowBits - 1) - 1
                       IN  /\ fits = (access.addr = access'.addr)
                           /\ fits => (rD' = access.val) = Survives(op, access.val)
<1>1. IInv /\ [Next]_vars => [A]_vars
  <2> SUFFICES ASSUME IInv, Next, access # None, accesses' # accesses, rD = None, rD' # None,
                      access.op \in {"sw", "sd"}, Bytes(access.op) = Bytes(access'.op),
                      access.base = access'.base, access.imm = access'.imm,
                      access.addr < MemSize
               PROVE  A
    BY DEF vars
  <2>1. PICK sop \in Stores :
          /\ access.op = sop /\ access.base \in Bases /\ access.imm \in WordOf(ImmBits)
          /\ access.addr = EA(sop, access.base, access.imm)
          /\ access.val \in WordOf(RegBits)
          /\ tmp_mem[access.addr \div 4] =
               IF sop = "sw" THEN Stored(Trunc(access.val, WordBits))
               ELSE Trunc(access.val, WordBits)
    <3>1. ~ LoadDone
      <4>1. LoadDone => access.op \in Loads
        BY DEF LoadDone, At
      <4>2. Loads \cap {"sw", "sd"} = {}
        BY DEF Loads
      <4>3. QED BY <4>1, <4>2
    <3>2. StoreDone
      BY <3>1 DEF IInv
    <3>3. QED BY <3>2 DEF StoreDone, At
  <2>2. PICK base \in Bases, imm \in WordOf(ImmBits), op \in Loads :
          disas_insn_load(op, base, imm)
    BY DEF Next, disas_insn_store
  <2>3. PICK a \in Nat : a = EA(op, base, imm)
    BY Addresses
  <2> DEFINE dat == mem_read(a, Bytes(op))
  <2>4. /\ access' = [op |-> op, base |-> base, imm |-> imm, addr |-> a, val |-> None]
        /\ rD' = Loaded(op, dat) /\ dat # Overrun
    <3>1. helper_mem_read(EA(op, base, imm), Bytes(op)) = dat
      BY <2>3, Helpers
    <3>2. QED BY <2>2, <2>3, <3>1 DEF disas_insn_load, Accesses
  <2>5. access'.op = op /\ access'.base = base /\ access'.imm = imm /\ access'.addr = a
    BY <2>4
  <2>6. PICK sa \in Nat, sval \in WordOf(RegBits) : sa = access.addr /\ sval = access.val
    BY <2>1, Addresses
  <2>7. /\ sa = EA(sop, base, imm) /\ sa < MemSize /\ sop \in {"sw", "sd"}
        /\ Bytes(sop) = Bytes(op) /\ access.imm = imm
        /\ tmp_mem[sa \div 4] = IF sop = "sw" THEN Stored(Trunc(sval, WordBits))
                                ELSE Trunc(sval, WordBits)
    BY <2>1, <2>5, <2>6
  <2> DEFINE fits == op = "lwz" => IntOf(imm, ImmBits)
                                     \in -(2^(LowBits - 1)) .. 2^(LowBits - 1) - 1
  <2>8. fits <=> sa = a
    <3>1. CASE op = "lwz"
      BY <2>3, <2>7, <3>1, AddressesMeet
    <3>2. CASE op # "lwz"
      <4>1. EA(sop, base, imm) = EA(op, base, imm)
        BY <2>7, <3>2 DEF EA, Offset
      <4>2. QED BY <2>3, <2>7, <3>2, <4>1
    <3>3. QED BY <3>1, <3>2
  <2>9. ASSUME sa = a PROVE (rD' = sval) = Survives(op, sval)
    <3> DEFINE t == Trunc(sval, WordBits)
    <3>1. Bytes(op) \in {4, 8} /\ (sop = "sw" => Bytes(op) = 4) /\ (sop = "sd" => Bytes(op) = 8)
      BY <2>7 DEF Bytes
    <3>2. /\ target \in {"openrisc", "riscv"} /\ t \in WordOf(WordBits)
      <4>1. sval \in Int /\ WordBits \in Nat
        BY Sizes, WordSize
      <4>2. t \in WordOf(WordBits)
        BY <4>1, RemainderIsWord DEF Trunc
      <4>3. QED BY <4>2 DEF IInv
    <3>3. ~ (a >= MemSize)
      BY <2>7, <2>9, Sizes
    <3> HIDE DEF t
    <3>4. dat = IF sop = "sw" THEN Stored(tmp_mem[a \div 4]) ELSE tmp_mem[a \div 4]
      BY <2>4, <2>7, <3>1, <3>3 DEF mem_read
    <3>5. Stored(Stored(t)) = t
      BY <3>2, SwappedTwice DEF Stored
    <3>6. dat = t
      BY <2>7, <2>9, <3>4, <3>5 DEF t
    <3> HIDE DEF dat
    <3>7. (Loaded(op, dat) = sval) = Survives(op, sval)
      BY <3>1, <3>2, <3>6, ReloadSurvives DEF t
    <3>8. QED BY <2>4, <3>7 DEF dat
  <2> HIDE DEF fits
  <2>10. fits = (sa = a) /\ (fits => (rD' = sval) = Survives(op, sval))
    BY <2>8, <2>9 DEF fits
  <2>11. QED BY <2>5, <2>6, <2>7, <2>10 DEF fits
<1>2. QED BY <1>1, Invariance, PTL DEF Spec, SpillReload
=============================================================================
