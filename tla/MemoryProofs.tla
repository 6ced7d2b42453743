------------------------------ MODULE MemoryProofs ------------------------------
(***************************************************************************)
(* The memory store holds what the image and the program file say, and a   *)
(* dump shows it, for every size of the memory and of the files.           *)
(*                                                                         *)
(* Both simulators construct the store with startAddr 0 (sim_funct.cpp:23, *)
(* sim_cycle.cpp:84), and so do the theorems about loading.                *)
(***************************************************************************)
EXTENDS MemoryStore, WellFoundedInduction, TLAPS

(* An offset is an offset, and small addresses are their own. *)
LEMMA Offsets ==
  /\ \A a \in Nat : relativeAddr(a) \in Nat
  /\ startAddr = 0 => \A a \in 0 .. AddrMod - 1 : relativeAddr(a) = a
<1>1. AddrMod \in Nat \ {0} /\ startAddr \in Nat
  BY MemoryAssumption
<1>2. ASSUME NEW a \in Nat PROVE relativeAddr(a) \in Nat
  BY <1>1 DEF relativeAddr
<1>3. ASSUME startAddr = 0, NEW a \in 0 .. AddrMod - 1 PROVE relativeAddr(a) = a
  BY <1>1, <1>3 DEF relativeAddr
<1>. QED
  BY <1>2, <1>3

(* An access that reports no error has moved every byte of its entry. *)
LEMMA MovedFacts ==
  ASSUME NEW a \in Nat, NEW size \in Nat \ {0}
  PROVE  /\ Moved(a, size) \in 0 .. size
         /\ Ret(a, size) = 0 <=> Moved(a, size) = size
         /\ Moved(a, size) = size <=> relativeAddr(a) + size <= numEntries
         /\ Moved(a, size) = IF relativeAddr(a) >= numEntries THEN 0
                             ELSE IF size <= numEntries - relativeAddr(a) THEN size
                             ELSE numEntries - relativeAddr(a)
<1>1. relativeAddr(a) \in Nat /\ numEntries \in Nat
  BY Offsets, MemoryAssumption
<1>2. ASSUME NEW x \in Int, NEW y \in Int
      PROVE  Min({x, y}) = IF x <= y THEN x ELSE y
  <2>1. (IF x <= y THEN x ELSE y) \in {x, y} /\ \A z \in {x, y} : (IF x <= y THEN x ELSE y) <= z
    OBVIOUS
  <2>2. \A u \in {x, y} : (\A z \in {x, y} : u <= z) => u = IF x <= y THEN x ELSE y
    OBVIOUS
  <2>. QED
    BY <2>1, <2>2 DEF Min
<1>3. Moved(a, size) = IF relativeAddr(a) >= numEntries THEN 0
                       ELSE IF size <= numEntries - relativeAddr(a) THEN size
                       ELSE numEntries - relativeAddr(a)
  BY <1>1, <1>2 DEF Moved
<1>4. /\ Moved(a, size) \in 0 .. size
      /\ Moved(a, size) = size <=> relativeAddr(a) + size <= numEntries
  BY <1>1, <1>3
<1>5. Ret(a, size) = 0 <=> Moved(a, size) = size
  BY DEF Ret, EINVAL
<1>. QED
  BY <1>3, <1>4, <1>5

------------------------------------------------------------------------------
(* Numbers made of bytes. *)

(* A set that holds 0 and with every number the next holds all of them. *)
LEMMA Induction ==
  ASSUME NEW S, 0 \in S, \A n \in Nat : n \in S => n + 1 \in S
  PROVE  \A n \in Nat : n \in S
<1>. DEFINE Less == {ss \in Nat \X Nat : ss[1] < ss[2]}
            T == Nat \ S
<1>1. IsWellFoundedOn(Less, Nat)
  BY NatLessThanWellFounded DEF OpToRel
<1>2. \A x, y \in Nat : y < x => <<y, x>> \in Less
  OBVIOUS
<1>. HIDE DEF Less
<1>3. ASSUME T # {} PROVE FALSE
  <2>1. PICK x \in T : \A y \in T : ~(<<y, x>> \in Less)
    BY <1>1, <1>3, WFMin, Zenon
  <2>2. x \in Nat /\ x # 0 /\ x - 1 \in Nat
    BY <2>1
  <2>3. <<x - 1, x>> \in Less
    BY <1>2, <2>2
  <2>4. x - 1 \in S
    BY <2>1, <2>2, <2>3
  <2>. QED
    BY <2>1, <2>2, <2>4
<1>. QED
  BY <1>3

(* A sum over the numbers below n is defined for every n. *)
LEMMA SumExists ==
  ASSUME NEW t
  PROVE  \E g : g = [n \in Nat |-> IF n = 0 THEN 0 ELSE g[n - 1] + t[n - 1]]
<1>. DEFINE Sums(g, k) == \A n \in 0 .. k : g[n] = IF n = 0 THEN 0 ELSE g[n - 1] + t[n - 1]
            Some(n) == CHOOSE g : Sums(g, n)
            G == [n \in Nat |-> Some(n)[n]]
<1>1. \A k \in Nat : \E g : Sums(g, k)
  <2>. DEFINE S == {k \in Nat : \E g : Sums(g, k)}
  <2>1. 0 \in S
    <3>1. Sums([n \in {0} |-> 0], 0)
      OBVIOUS
    <3>. QED
      BY <3>1
  <2>2. ASSUME NEW k \in Nat, k \in S PROVE k + 1 \in S
    <3>1. PICK g : Sums(g, k)
      BY <2>2
    <3>. DEFINE h == [n \in 0 .. k + 1 |-> IF n <= k THEN g[n] ELSE g[k] + t[k]]
    <3>2. ASSUME NEW n \in 0 .. k + 1
          PROVE  h[n] = IF n = 0 THEN 0 ELSE h[n - 1] + t[n - 1]
      <4>1. CASE n = k + 1
        <5>1. n # 0 /\ n - 1 = k /\ h[n] = g[k] + t[k] /\ h[k] = g[k]
          BY <4>1
        <5>. HIDE DEF h
        <5>. QED
          BY <5>1
      <4>2. CASE n \in 0 .. k
        <5>1. h[n] = g[n] /\ (n # 0 => n - 1 \in 0 .. k /\ h[n - 1] = g[n - 1])
          BY <4>2
        <5>. HIDE DEF h
        <5>. QED
          BY <5>1, <4>2, <3>1
      <4>. QED
        BY <4>1, <4>2
    <3>. HIDE DEF h
    <3>3. Sums(h, k + 1)
      BY <3>2
    <3>. QED
      BY <3>3
  <2>. HIDE DEF S
  <2>3. \A k \in Nat : k \in S
    BY <2>1, <2>2, Induction
  <2>. QED
    BY <2>3 DEF S
<1>2. \A k \in Nat : Sums(Some(k), k)
  BY <1>1
<1>3. ASSUME NEW k \in Nat
      PROVE  Some(k + 1)[k] = Some(k)[k]
  <2>. DEFINE a == Some(k + 1)
              b == Some(k)
              S == {n \in Nat : n <= k => a[n] = b[n]}
  <2>1. Sums(a, k + 1) /\ Sums(b, k)
    BY <1>2
  <2>. HIDE DEF a, b
  <2>2. 0 \in S
    BY <2>1
  <2>3. ASSUME NEW n \in Nat, n \in S PROVE n + 1 \in S
    <3>. SUFFICES ASSUME n + 1 <= k PROVE a[n + 1] = b[n + 1]
      OBVIOUS
    <3>1. n + 1 \in 0 .. k + 1 /\ n + 1 \in 0 .. k /\ n + 1 # 0 /\ (n + 1) - 1 = n
      OBVIOUS
    <3>2. a[n] = b[n]
      BY <2>3
    <3>3. a[n + 1] = a[n] + t[n]
      BY <2>1, <3>1
    <3>4. b[n + 1] = b[n] + t[n]
      BY <2>1, <3>1
    <3>. QED
      BY <3>2, <3>3, <3>4
  <2>. HIDE DEF S
  <2>4. \A n \in Nat : n \in S
    BY <2>2, <2>3, Induction
  <2>5. a[k] = b[k]
    BY <2>4 DEF S
  <2>. QED
    BY <2>5 DEF a, b
<1>4. ASSUME NEW n \in Nat
      PROVE  G[n] = IF n = 0 THEN 0 ELSE G[n - 1] + t[n - 1]
  <2>. HIDE DEF Some
  <2>1. Sums(Some(n), n)
    BY <1>2
  <2>2. Some(n)[n] = IF n = 0 THEN 0 ELSE Some(n)[n - 1] + t[n - 1]
    BY <2>1
  <2>3. n # 0 => Some(n)[n - 1] = Some(n - 1)[n - 1]
    <3>1. n # 0 => n - 1 \in Nat /\ (n - 1) + 1 = n
      OBVIOUS
    <3>. QED
      BY <3>1, <1>3
  <2>. QED
    BY <2>2, <2>3
<1>. HIDE DEF Some
<1>5. G = [n \in Nat |-> IF n = 0 THEN 0 ELSE G[n - 1] + t[n - 1]]
  <2>. DEFINE H == [n \in Nat |-> IF n = 0 THEN 0 ELSE G[n - 1] + t[n - 1]]
  <2>1. \A n \in Nat : G[n] = H[n]
    BY <1>4
  <2>2. G = [n \in Nat |-> G[n]] /\ H = [n \in Nat |-> H[n]]
    OBVIOUS
  <2>. HIDE DEF G, H
  <2>3. [n \in Nat |-> G[n]] = [n \in Nat |-> H[n]]
    BY <2>1
  <2>4. G = H
    BY <2>2, <2>3
  <2>. QED
    BY <2>4 DEF H
<1>. HIDE DEF G
<1>. QED
  BY <1>5

(* A number of one more byte. *)
LEMMA NumberSteps ==
  ASSUME NEW mem, NEW first
  PROVE  /\ Number(mem, first, 0) = 0
         /\ \A n \in Nat : Number(mem, first, n + 1)
                             = Number(mem, first, n) + mem[first + n] * Base ^ n
<1>. DEFINE t == [i \in Nat |-> mem[first + i] * Base ^ i]
            Sum(g) == [n \in Nat |->
                         IF n = 0 THEN 0 ELSE g[n - 1] + mem[first + (n - 1)] * Base ^ (n - 1)]
            sum == CHOOSE g : g = Sum(g)
<1>1. \E g : g = Sum(g)
  <2>1. PICK g : g = [n \in Nat |-> IF n = 0 THEN 0 ELSE g[n - 1] + t[n - 1]]
    BY SumExists, Zenon
  <2>2. ASSUME NEW n \in Nat
        PROVE  (IF n = 0 THEN 0 ELSE g[n - 1] + t[n - 1])
                 = IF n = 0 THEN 0 ELSE g[n - 1] + mem[first + (n - 1)] * Base ^ (n - 1)
    <3>1. n # 0 => n - 1 \in Nat
      OBVIOUS
    <3>. QED
      BY <3>1, Zenon
  <2>3. g = Sum(g)
    BY <2>1, <2>2, Zenon
  <2>. QED
    BY <2>3
<1>2. sum = Sum(sum)
  BY <1>1, Zenon
<1>3. \A n : Number(mem, first, n) = sum[n]
  BY Zenon DEF Number
<1>. HIDE DEF sum
<1>4. sum[0] = 0 /\ \A n \in Nat : sum[n + 1] = sum[n] + mem[first + n] * Base ^ n
  <2>1. ASSUME NEW n \in Nat
        PROVE  sum[n] = IF n = 0 THEN 0 ELSE sum[n - 1] + mem[first + (n - 1)] * Base ^ (n - 1)
    BY <1>2, Zenon
  <2>2. \A n \in Nat : n + 1 \in Nat /\ n + 1 # 0 /\ (n + 1) - 1 = n
    OBVIOUS
  <2>3. ASSUME NEW n \in Nat
        PROVE  sum[n + 1] = sum[n] + mem[first + n] * Base ^ n
    <3>1. sum[n + 1] = IF n + 1 = 0 THEN 0
                       ELSE sum[(n + 1) - 1] + mem[first + ((n + 1) - 1)] * Base ^ ((n + 1) - 1)
      BY <2>1, <2>2, Zenon
    <3>. QED
      BY <3>1, <2>2, Zenon
  <2>4. sum[0] = 0
    BY <2>1
  <2>. QED
    BY <2>3, <2>4
<1>. QED
  BY <1>3, <1>4, Zenon
(* Quotient and remainder are the only ones. *)
LEMMA Remainder ==
  ASSUME NEW q \in Int, NEW m \in Nat \ {0}, NEW r \in 0 .. m - 1
  PROVE  (q * m + r) % m = r /\ (q * m + r) \div m = q
<1>. DEFINE z == q * m + r
            p == z \div m
            o == z % m
<1>1. z \in Int /\ q * m \in Int
  OBVIOUS
<1>2. p \in Int /\ o \in 0 .. m - 1 /\ z = m * p + o
  <2>. HIDE DEF z
  <2>. QED
    BY <1>1
<1>3. z = q * m + r
  OBVIOUS
<1>. HIDE DEF z, p, o
<1>4. ASSUME NEW x \in Int, NEW y \in Int, x < y
      PROVE  m * x + m <= m * y
  <2>1. m * (x + 1) <= m * y
    BY <1>4
  <2>2. m * (x + 1) = m * x + m
    OBVIOUS
  <2>. QED
    BY <2>1, <2>2
<1>5. m * p \in Int /\ m * q \in Int /\ q * m = m * q
  BY <1>2
<1>6. ~(p < q) /\ ~(q < p)
  BY <1>2, <1>3, <1>4, <1>5
<1>7. p = q
  BY <1>2, <1>6
<1>8. o = r
  BY <1>2, <1>3, <1>5, <1>7
<1>. QED
  BY <1>7, <1>8 DEF z, p, o

(* Cutting a number at two places, and at the first of them alone. *)
LEMMA CutTwice ==
  ASSUME NEW v \in Nat, NEW d \in Nat \ {0}, NEW b \in Nat \ {0}
  PROVE  /\ v % (b * d) = (v % d) + (((v \div d) % b) * d)
         /\ v \div (b * d) = (v \div d) \div b
<1>. DEFINE q == v \div d
            r == v % d
            qq == q \div b
            rr == q % b
<1>1. q \in Nat /\ r \in 0 .. d - 1 /\ v = d * q + r
  OBVIOUS
<1>2. qq \in Nat /\ rr \in 0 .. b - 1 /\ q = b * qq + rr
  <2>. HIDE DEF q
  <2>. QED
    BY <1>1
<1>. HIDE DEF q, r, qq, rr
<1>3. d * rr \in Nat /\ d * rr <= d * (b - 1) /\ d * (b - 1) = b * d - d
  BY <1>2
<1>4. d * rr + r \in 0 .. b * d - 1 /\ b * d \in Nat \ {0}
  BY <1>1, <1>3
<1>5. v = qq * (b * d) + (d * rr + r)
  <2>1. d * q = d * (b * qq) + d * rr /\ d * (b * qq) = qq * (b * d)
    BY <1>1, <1>2
  <2>. QED
    BY <2>1, <1>1, <1>2, <1>3
<1>6. v % (b * d) = d * rr + r /\ v \div (b * d) = qq
  <2>. DEFINE m == b * d
              o == d * rr + r
  <2>1. m \in Nat \ {0} /\ o \in 0 .. m - 1 /\ qq \in Int /\ v = qq * m + o
    BY <1>2, <1>4, <1>5
  <2>. HIDE DEF m, o
  <2>2. v % m = o /\ v \div m = qq
    BY <2>1, Remainder
  <2>. QED
    BY <2>2 DEF m, o
<1>7. d * rr + r = r + rr * d
  BY <1>1, <1>2
<1>. QED
  BY <1>6, <1>7 DEF q, r, qq, rr

(* Powers of the base up to the length of the memory and of a register.     *)
Exponent == (0 .. numEntries) \cup (0 .. DOUBLE_SIZE)

LEMMA BasePowers ==
  /\ Base \in Nat \ {0}
  /\ \A i \in Exponent : Base ^ i \in Nat \ {0}
  /\ \A i, j \in Nat : i + j \in Exponent => Base ^ (i + j) = Base ^ i * Base ^ j
<1>1. /\ Base \in Nat \ {0} /\ Base ^ 0 = 1 /\ numEntries \in Nat /\ DOUBLE_SIZE \in Nat
      /\ \A i \in Nat : i + 1 \in Exponent => i \in Exponent /\ Base ^ (i + 1) = Base * Base ^ i
  <2>1. /\ Base = 2 * 2 ^ (ByteBits - 1) /\ 2 ^ (ByteBits - 1) \in Nat \ {0} /\ Base ^ 0 = 1
        /\ \A i \in (1 .. numEntries) \cup (1 .. DOUBLE_SIZE) : Base ^ i = Base * Base ^ (i - 1)
        /\ numEntries \in Nat /\ DOUBLE_SIZE \in Nat
    BY MemoryAssumption DEF DOUBLE_SIZE
  <2>2. ASSUME NEW i \in Nat, i + 1 \in Exponent
        PROVE  i \in Exponent /\ Base ^ (i + 1) = Base * Base ^ i
    <3>1. i \in Exponent /\ i + 1 \in (1 .. numEntries) \cup (1 .. DOUBLE_SIZE) /\ (i + 1) - 1 = i
      BY <2>1, <2>2 DEF Exponent
    <3>2. Base ^ (i + 1) = Base * Base ^ ((i + 1) - 1)
      BY <2>1, <3>1
    <3>. QED
      BY <3>1, <3>2
  <2>. QED
    BY <2>1, <2>2
<1>. DEFINE P(i) == Base ^ i
            b == Base
<1>2. /\ b \in Nat \ {0} /\ P(0) = 1
      /\ \A i \in Nat : i + 1 \in Exponent => i \in Exponent /\ P(i + 1) = b * P(i)
  BY <1>1
<1>. HIDE DEF P, b
<1>3. \A i \in Exponent : P(i) \in Nat \ {0}
  <2>. DEFINE S == {i \in Nat : i \in Exponent => P(i) \in Nat \ {0}}
  <2>1. 0 \in S
    BY <1>2
  <2>2. ASSUME NEW i \in Nat, i \in S PROVE i + 1 \in S
    <3>. SUFFICES ASSUME i + 1 \in Exponent PROVE P(i + 1) \in Nat \ {0}
      OBVIOUS
    <3>1. P(i) \in Nat \ {0} /\ P(i + 1) = b * P(i)
      BY <1>2, <2>2
    <3>. QED
      BY <3>1, <1>2
  <2>. HIDE DEF S
  <2>3. \A i \in Nat : i \in S
    BY <2>1, <2>2, Induction
  <2>4. \A i \in Exponent : i \in Nat
    BY <1>1 DEF Exponent
  <2>. QED
    BY <2>3, <2>4 DEF S
<1>4. \A i, j \in Nat : i + j \in Exponent => P(i + j) = P(i) * P(j)
  <2>. TAKE i \in Nat
  <2>. DEFINE S == {j \in Nat : i + j \in Exponent => j \in Exponent /\ P(i + j) = P(i) * P(j)}
  <2>1. 0 \in S
    <3>1. i + 0 = i /\ 0 \in Exponent
      BY <1>1 DEF Exponent
    <3>. QED
      BY <3>1, <1>2, <1>3
  <2>2. ASSUME NEW j \in Nat, j \in S PROVE j + 1 \in S
    <3>. SUFFICES ASSUME i + (j + 1) \in Exponent
                  PROVE  j + 1 \in Exponent /\ P(i + (j + 1)) = P(i) * P(j + 1)
      OBVIOUS
    <3>1. j + 1 \in Exponent /\ i \in Exponent
      BY <1>1 DEF Exponent
    <3>2. i + (j + 1) = (i + j) + 1 /\ i + j \in Nat
      OBVIOUS
    <3>3. i + j \in Exponent /\ P(i + (j + 1)) = b * P(i + j)
      BY <3>2, <1>2
    <3>4. P(i + j) = P(i) * P(j) /\ P(j + 1) = b * P(j)
      BY <3>1, <3>3, <2>2, <1>2
    <3>5. P(i) \in Nat /\ P(j) \in Nat
      BY <3>1, <1>2, <1>3
    <3>6. b * (P(i) * P(j)) = P(i) * (b * P(j))
      BY <3>5, <1>2
    <3>. QED
      BY <3>1, <3>3, <3>4, <3>6
  <2>. HIDE DEF S
  <2>3. \A j \in Nat : j \in S
    BY <2>1, <2>2, Induction
  <2>. QED
    BY <2>3 DEF S
<1>. QED
  BY <1>1, <1>3, <1>4 DEF P


(* A number of n bytes is below the n-th power of the base. *)
LEMMA NumberRange ==
  ASSUME NEW mem \in [Cell -> Byte], NEW first \in Nat, NEW count \in Nat,
         first + count <= numEntries
  PROVE  Number(mem, first, count) \in 0 .. Base ^ count - 1
<1>. DEFINE N(n) == Number(mem, first, n)
            P(n) == Base ^ n
            b == Base
            S == {n \in Nat : n <= count => N(n) \in 0 .. P(n) - 1}
<1>1. /\ N(0) = 0
      /\ \A n \in Nat : N(n + 1) = N(n) + mem[first + n] * P(n)
  BY NumberSteps
<1>2. ASSUME NEW n \in Nat, n <= count
      PROVE  P(n) \in Nat \ {0} /\ (n + 1 <= count => P(n + 1) = b * P(n))
  <2>1. n \in Exponent /\ (n + 1 <= count => 1 + n \in Exponent /\ 1 + n = n + 1)
    BY <1>2, MemoryAssumption DEF Exponent
  <2>2. Base ^ 1 = Base
    <3>1. 1 \in (1 .. numEntries) \cup (1 .. DOUBLE_SIZE) /\ 1 - 1 = 0
      BY DEF DOUBLE_SIZE
    <3>2. Base ^ 1 = Base * Base ^ (1 - 1) /\ Base ^ 0 = 1
      BY <3>1, MemoryAssumption
    <3>. QED
      BY <3>1, <3>2, BasePowers
  <2>3. n + 1 <= count => Base ^ (1 + n) = Base ^ 1 * Base ^ n
    BY <2>1, BasePowers
  <2>. QED
    BY <2>1, <2>2, <2>3, BasePowers
<1>3. ASSUME NEW n \in Nat, n + 1 <= count
      PROVE  mem[first + n] \in 0 .. b - 1
  <2>1. first + n \in Cell
    BY <1>3, MemoryAssumption DEF Cell
  <2>. QED
    BY <2>1 DEF Byte
<1>4. b \in Nat \ {0} /\ Base ^ 0 = 1
  BY BasePowers, MemoryAssumption
<1>5. 0 \in S
  BY <1>1, <1>4
<1>6. ASSUME NEW n \in Nat, n \in S PROVE n + 1 \in S
  <2>. SUFFICES ASSUME n + 1 <= count PROVE N(n + 1) \in 0 .. P(n + 1) - 1
    OBVIOUS
  <2>. DEFINE x == N(n)
              d == mem[first + n]
              p == P(n)
  <2>. HIDE DEF N, P, b
  <2>1. /\ x \in 0 .. p - 1 /\ d \in 0 .. b - 1 /\ p \in Nat \ {0}
        /\ N(n + 1) = x + d * p /\ P(n + 1) = b * p
    BY <1>1, <1>2, <1>3, <1>6
  <2>. DEFINE y == d * p
              z == b * p
  <2>. HIDE DEF x, d, p
  <2>2. y \in Nat /\ y <= (b - 1) * p /\ (b - 1) * p = z - p /\ z \in Nat
    BY <1>4, <2>1
  <2>3. N(n + 1) = x + y /\ P(n + 1) = z
    BY <2>1
  <2>. HIDE DEF y, z
  <2>. QED
    BY <2>1, <2>2, <2>3
<1>. HIDE DEF S
<1>7. count \in S
  BY <1>5, <1>6, Induction
<1>. QED
  BY <1>7 DEF S

(* A number is cut between two of its bytes. *)
LEMMA NumberSplit ==
  ASSUME NEW mem \in [Cell -> Byte], NEW first \in Nat, NEW low \in Nat, NEW high \in Nat,
         first + low + high <= numEntries
  PROVE  Number(mem, first, low + high)
           = Number(mem, first, low) + Base ^ low * Number(mem, first + low, high)
<1>. DEFINE N(n) == Number(mem, first, n)
            M(n) == Number(mem, first + low, n)
            P(n) == Base ^ n
            S == {n \in Nat : n <= high => N(low + n) = N(low) + P(low) * M(n)}
<1>1. /\ M(0) = 0
      /\ \A n \in Nat : N(n + 1) = N(n) + mem[first + n] * P(n)
      /\ \A n \in Nat : M(n + 1) = M(n) + mem[first + low + n] * P(n)
  BY NumberSteps
<1>2. ASSUME NEW n \in Nat, n <= high
      PROVE  P(n) \in Nat /\ P(low + n) = P(low) * P(n)
  <2>1. n \in Exponent /\ low + n \in Exponent
    BY <1>2, MemoryAssumption DEF Exponent
  <2>. QED
    BY <2>1, BasePowers
<1>3. ASSUME NEW n \in Nat, n + 1 <= high
      PROVE  mem[first + low + n] \in Int
  <2>1. first + low + n \in Cell
    BY <1>3, MemoryAssumption DEF Cell
  <2>2. Byte \subseteq Int
    BY BasePowers DEF Byte
  <2>. QED
    BY <2>1, <2>2
<1>4. \A n \in Nat : n <= high => M(n) \in Int
  <2>. TAKE n \in Nat
  <2>. HAVE n <= high
  <2>1. first + low \in Nat /\ first + low + n <= numEntries
    BY MemoryAssumption
  <2>2. M(n) \in 0 .. P(n) - 1
    BY <2>1, NumberRange
  <2>. HIDE DEF M, P
  <2>. QED
    BY <2>2
<1>5. N(low) \in Int /\ P(low) \in Int
  <2>1. first + low <= numEntries /\ low \in Exponent
    BY MemoryAssumption DEF Exponent
  <2>2. N(low) \in 0 .. P(low) - 1
    BY <2>1, NumberRange
  <2>3. P(low) \in Nat
    BY <2>1, BasePowers
  <2>. HIDE DEF N, P
  <2>. QED
    BY <2>2, <2>3
<1>6. 0 \in S
  <2>1. low + 0 = low
    OBVIOUS
  <2>. HIDE DEF N, M, P
  <2>. QED
    BY <2>1, <1>1, <1>5
<1>7. ASSUME NEW n \in Nat, n \in S PROVE n + 1 \in S
  <2>. SUFFICES ASSUME n + 1 <= high PROVE N(low + (n + 1)) = N(low) + P(low) * M(n + 1)
    OBVIOUS
  <2>. DEFINE d == mem[first + low + n]
  <2>. HIDE DEF N, M, P
  <2>1. /\ N(low + n) = N(low) + P(low) * M(n)
        /\ d \in Int /\ M(n) \in Int /\ P(n) \in Int /\ P(low + n) = P(low) * P(n)
        /\ M(n + 1) = M(n) + d * P(n)
    BY <1>1, <1>2, <1>3, <1>4, <1>7
  <2>2. N(low + (n + 1)) = N(low + n) + d * P(low + n)
    <3>1. low + (n + 1) = (low + n) + 1 /\ first + (low + n) = first + low + n /\ low + n \in Nat
      OBVIOUS
    <3>. QED
      BY <3>1, <1>1
  <2>. HIDE DEF d
  <2>3. d * (P(low) * P(n)) = P(low) * (d * P(n))
    BY <1>5, <2>1
  <2>4. P(low) * (M(n) + d * P(n)) = P(low) * M(n) + P(low) * (d * P(n))
    BY <1>5, <2>1
  <2>5. P(low) * M(n) \in Int /\ P(low) * (d * P(n)) \in Int
    BY <1>5, <2>1
  <2>. QED
    BY <1>5, <2>1, <2>2, <2>3, <2>4, <2>5
<1>. HIDE DEF S
<1>8. high \in S
  BY <1>6, <1>7, Induction
<1>. QED
  BY <1>8 DEF S

(* The same bytes are the same number. *)
LEMMA NumberSame ==
  ASSUME NEW mem, NEW other, NEW first \in Nat, NEW count \in Nat,
         \A i \in 0 .. count - 1 : mem[first + i] = other[first + i]
  PROVE  Number(mem, first, count) = Number(other, first, count)
<1>. DEFINE N(n) == Number(mem, first, n)
            M(n) == Number(other, first, n)
            S == {n \in Nat : n <= count => N(n) = M(n)}
<1>1. /\ N(0) = 0 /\ M(0) = 0
      /\ \A n \in Nat : N(n + 1) = N(n) + mem[first + n] * Base ^ n
      /\ \A n \in Nat : M(n + 1) = M(n) + other[first + n] * Base ^ n
  BY NumberSteps
<1>. HIDE DEF N, M
<1>2. 0 \in S
  BY <1>1
<1>3. ASSUME NEW n \in Nat, n \in S PROVE n + 1 \in S
  <2>. SUFFICES ASSUME n + 1 <= count PROVE N(n + 1) = M(n + 1)
    OBVIOUS
  <2>1. N(n) = M(n) /\ mem[first + n] = other[first + n]
    BY <1>3
  <2>. QED
    BY <2>1, <1>1
<1>. HIDE DEF S
<1>4. count \in S
  BY <1>2, <1>3, Induction
<1>. QED
  BY <1>4 DEF S, N, M

(* The bytes of a value are the low ones of it. *)
Holds(mem, first, count, value) ==
  \A i \in 0 .. count - 1 : mem[first + i] = ByteOf(value, i)

LEMMA NumberOfValue ==
  ASSUME NEW mem, NEW first \in Nat, NEW value \in Nat, NEW count \in 0 .. DOUBLE_SIZE,
         Holds(mem, first, count, value)
  PROVE  Number(mem, first, count) = value % Base ^ count
<1>. DEFINE N(n) == Number(mem, first, n)
            P(n) == Base ^ n
            b == Base
            S == {n \in Nat : n <= count => N(n) = value % P(n)}
<1>1. /\ N(0) = 0
      /\ \A n \in Nat : N(n + 1) = N(n) + mem[first + n] * P(n)
  BY NumberSteps
<1>2. ASSUME NEW n \in Nat, n + 1 <= count
      PROVE  P(n) \in Nat \ {0} /\ P(n + 1) = b * P(n)
  <2>1. n \in Exponent /\ n + 1 \in 1 .. DOUBLE_SIZE /\ (n + 1) - 1 = n
    BY <1>2 DEF Exponent, DOUBLE_SIZE
  <2>2. P(n) \in Nat \ {0}
    BY <2>1, BasePowers
  <2>3. P(n + 1) = b * P((n + 1) - 1)
    BY <2>1, MemoryAssumption
  <2>. QED
    BY <2>1, <2>2, <2>3
<1>3. b \in Nat \ {0} /\ P(0) = 1 /\ DOUBLE_SIZE = 8
  BY BasePowers, MemoryAssumption DEF DOUBLE_SIZE
<1>4. 0 \in S
  <2>1. value % 1 = 0
    OBVIOUS
  <2>. HIDE DEF N, P
  <2>. QED
    BY <2>1, <1>1, <1>3
<1>5. ASSUME NEW n \in Nat, n \in S PROVE n + 1 \in S
  <2>. SUFFICES ASSUME n + 1 <= count PROVE N(n + 1) = value % P(n + 1)
    OBVIOUS
  <2>1. N(n) = value % P(n) /\ n \in 0 .. count - 1
    BY <1>5
  <2>2. mem[first + n] = (value \div P(n)) % b
    BY <2>1 DEF Holds, ByteOf
  <2>3. P(n) \in Nat \ {0} /\ P(n + 1) = b * P(n)
    BY <1>2
  <2>. HIDE DEF N, P, b
  <2>4. value % (b * P(n)) = (value % P(n)) + (((value \div P(n)) % b) * P(n))
    BY <1>3, <2>3, CutTwice
  <2>. QED
    BY <2>1, <2>2, <2>3, <2>4, <1>1
<1>. HIDE DEF S
<1>6. count \in S
  BY <1>4, <1>5, Induction
<1>. QED
  BY <1>6 DEF S

------------------------------------------------------------------------------
(* Loading. *)

Entries == (Len(image) + 1) \div 2
Covers(k, c) == c - relativeAddr(Token(2 * k - 1)) \in 0 .. WORD_SIZE - 1

(* Cell c is what the first n entries of the image make of it. *)
ImageByte(n, c) ==
  \/ (\A k \in 1 .. n : ~Covers(k, c)) /\ memArr[c] = 0
  \/ \E k \in 1 .. n :
       /\ Covers(k, c) /\ \A j \in k + 1 .. n : ~Covers(j, c)
       /\ memArr[c] = ByteOf(Token(2 * k), c - relativeAddr(Token(2 * k - 1)))

Whole(n) == \A k \in 1 .. n : Ret(Token(2 * k - 1), WORD_SIZE) = 0

(* While the image is read, its first entries are in the memory; while the  *)
(* program is loaded, the first bytes of it, over all of the image.  The    *)
(* first word may be cleared at any time.                                   *)
LoadInv ==
  /\ image \in Seq(Nat) /\ file \in Seq(Byte) /\ Len(file) <= AddrMod
  /\ calls \in Nat /\ loaded \in 0 .. Len(file) /\ read \in Nat
  /\ phase \in {"prepare", "load", "ready", "aborted"}
  /\ phase = "prepare" =>
       /\ loaded = 0
       /\ \E n \in 0 .. read : /\ read = 2 * n /\ 2 * n <= Len(image) /\ Whole(n)
                              /\ \A c \in Cell : c >= WORD_SIZE => ImageByte(n, c)
  /\ phase \in {"load", "ready"} /\ calls = 0 =>
       /\ Whole(Entries)
       /\ \A c \in Cell :
            /\ c < loaded => memArr[c] = file[c + 1]
            /\ c >= loaded /\ c >= WORD_SIZE => ImageByte(Entries, c)
  /\ phase = "ready" => loaded = Len(file)

(* Tokens are numbers, those that cannot be read included. *)
LEMMA Tokens ==
  ASSUME image \in Seq(Nat), NEW i \in Nat \ {0}
  PROVE  Token(i) \in Nat
BY DEF Token

(* An entry that is written whole comes over the entries before it. *)
LEMMA EntryWritten ==
  ASSUME image \in Seq(Nat), UNCHANGED image, NEW n \in Nat, NEW c \in Cell,
         ImageByte(n, c),
         memArr' = Written(memArr, Token(2 * n + 1), Token(2 * n + 2), WORD_SIZE),
         Ret(Token(2 * n + 1), WORD_SIZE) = 0
  PROVE  ImageByte(n + 1, c)'
<1>1. 2 * (n + 1) - 1 = 2 * n + 1 /\ 2 * (n + 1) = 2 * n + 2
  OBVIOUS
<1>2. Token(2 * n + 1) \in Nat /\ WORD_SIZE \in Nat \ {0} /\ WORD_SIZE = 4
  BY Tokens DEF WORD_SIZE
<1>3. Moved(Token(2 * n + 1), WORD_SIZE) = WORD_SIZE
  BY <1>2, MovedFacts
<1>4. memArr'[c] = IF Covers(n + 1, c)
                   THEN ByteOf(Token(2 * (n + 1)), c - relativeAddr(Token(2 * (n + 1) - 1)))
                   ELSE memArr[c]
  <2>. DEFINE a == Token(2 * n + 1)
              v == Token(2 * n + 2)
  <2>1. a = Token(2 * (n + 1) - 1) /\ v = Token(2 * (n + 1))
    BY <1>1
  <2>2. /\ a \in Nat /\ Moved(a, WORD_SIZE) = WORD_SIZE
        /\ memArr' = Written(memArr, a, v, WORD_SIZE)
    BY <1>2, <1>3
  <2>. HIDE DEF a, v
  <2>3. Written(memArr, a, v, WORD_SIZE)[c] =
          IF c - relativeAddr(a) \in 0 .. Moved(a, WORD_SIZE) - 1
          THEN ByteOf(v, c - relativeAddr(a)) ELSE memArr[c]
    BY DEF Written
  <2>4. memArr'[c] = IF c - relativeAddr(a) \in 0 .. WORD_SIZE - 1
                     THEN ByteOf(v, c - relativeAddr(a)) ELSE memArr[c]
    BY <2>2, <2>3
  <2>. QED
    BY <2>1, <2>4 DEF Covers
<1>5. /\ \A k, d : Covers(k, d)' <=> Covers(k, d)
      /\ \A i : Token(i)' = Token(i)
  BY DEF Covers, Token
<1>6. CASE Covers(n + 1, c)
  <2>1. n + 1 \in 1 .. n + 1 /\ \A j \in (n + 1) + 1 .. n + 1 : ~Covers(j, c)
    OBVIOUS
  <2>. QED
    BY <2>1, <1>4, <1>5, <1>6 DEF ImageByte
<1>7. CASE ~Covers(n + 1, c)
  <2>1. memArr'[c] = memArr[c]
    BY <1>4, <1>7
  <2>2. CASE (\A k \in 1 .. n : ~Covers(k, c)) /\ memArr[c] = 0
    <3>1. \A k \in 1 .. n + 1 : ~Covers(k, c)
      BY <2>2, <1>7
    <3>. QED
      BY <3>1, <2>1, <2>2, <1>5 DEF ImageByte
  <2>3. ASSUME NEW k \in 1 .. n, Covers(k, c), \A j \in k + 1 .. n : ~Covers(j, c),
               memArr[c] = ByteOf(Token(2 * k), c - relativeAddr(Token(2 * k - 1)))
        PROVE  ImageByte(n + 1, c)'
    <3>1. k \in 1 .. n + 1 /\ \A j \in k + 1 .. n + 1 : ~Covers(j, c)
      BY <2>3, <1>7
    <3>. QED
      BY <3>1, <2>1, <2>3, <1>5 DEF ImageByte
  <2>. QED
    BY <2>2, <2>3 DEF ImageByte
<1>. QED
  BY <1>6, <1>7

(* An iteration of prepareMemory, the one that reads nothing included.      *)
LEMMA PrepareKeepsLoadInv ==
  ASSUME startAddr = 0, LoadInv, prepareMemory
  PROVE  LoadInv'
<1>1. PICK n \in 0 .. read : /\ read = 2 * n /\ 2 * n <= Len(image) /\ Whole(n)
                            /\ \A c \in Cell : c >= WORD_SIZE => ImageByte(n, c)
  BY DEF LoadInv, prepareMemory
<1>2. /\ image \in Seq(Nat) /\ file \in Seq(Byte) /\ Len(file) <= AddrMod /\ calls \in Nat
      /\ read \in Nat /\ n \in Nat /\ Len(image) \in Nat /\ loaded = 0 /\ Len(file) \in Nat
  BY DEF LoadInv, prepareMemory
<1>3. /\ read' = 2 * (n + 1) /\ read + 1 = 2 * n + 1 /\ read + 2 = 2 * n + 2
      /\ UNCHANGED <<image, file, loaded, calls>>
  BY <1>1, <1>2 DEF prepareMemory, files
<1>4. memArr' = Written(memArr, Token(2 * n + 1), Token(2 * n + 2), WORD_SIZE)
  BY <1>3 DEF prepareMemory
<1>5. phase' = IF Ret(Token(2 * n + 1), WORD_SIZE) # 0 THEN "aborted"
               ELSE IF read' > Len(image) THEN "load" ELSE "prepare"
  BY <1>3 DEF prepareMemory
<1>6. CASE Ret(Token(2 * n + 1), WORD_SIZE) # 0
  <2>1. phase' = "aborted"
    BY <1>5, <1>6
  <2>. QED
    BY <2>1, <1>2, <1>3 DEF LoadInv
<1>7. CASE Ret(Token(2 * n + 1), WORD_SIZE) = 0
  <2>1. Whole(n + 1)'
    <3>1. \A k \in 1 .. n + 1 : Ret(Token(2 * k - 1), WORD_SIZE) = 0
      <4>. TAKE k \in 1 .. n + 1
      <4>1. k = n + 1 => 2 * k - 1 = 2 * n + 1
        BY <1>2
      <4>2. k # n + 1 => k \in 1 .. n
        BY <1>2
      <4>. QED
        BY <4>1, <4>2, <1>1, <1>7 DEF Whole
    <3>. QED
      BY <3>1, <1>3 DEF Whole, Token
  <2>2. \A c \in Cell : c >= WORD_SIZE => ImageByte(n + 1, c)'
    BY <1>1, <1>2, <1>3, <1>4, <1>7, EntryWritten
  <2>3. CASE read' <= Len(image)
    <3>1. phase' = "prepare" /\ n + 1 \in 0 .. read' /\ 2 * (n + 1) <= Len(image)'
      BY <2>3, <1>2, <1>3, <1>5, <1>7
    <3>. QED
      BY <3>1, <2>1, <2>2, <1>2, <1>3 DEF LoadInv
  <2>4. CASE read' > Len(image)
    <3>1. phase' = "load"
      BY <2>4, <1>5, <1>7
    <3>2. \A c \in Cell : c \in Nat
      BY MemoryAssumption DEF Cell
    <3>3. CASE Len(image) = 2 * n + 1
      <4>1. Entries' = n + 1
        BY <3>3, <1>2, <1>3 DEF Entries
      <4>2. Whole(Entries)' /\ \A c \in Cell : c >= WORD_SIZE => ImageByte(Entries, c)'
        BY <4>1, <2>1, <2>2
      <4>3. loaded' = 0 /\ \A c \in Cell : ~(c < loaded')
        BY <3>2, <1>2, <1>3
      <4>4. /\ image' \in Seq(Nat) /\ file' \in Seq(Byte) /\ Len(file') <= AddrMod
            /\ calls' \in Nat /\ loaded' \in 0 .. Len(file') /\ read' \in Nat
        BY <1>2, <1>3
      <4>. QED
        BY <4>2, <4>3, <4>4, <3>1 DEF LoadInv
    <3>4. CASE Len(image) = 2 * n
      <4>1. Entries' = n
        BY <3>4, <1>2, <1>3 DEF Entries
      <4>2. Whole(n)'
        BY <1>1, <1>3 DEF Whole, Token
      <4>3. relativeAddr(Token(2 * n + 1)) = 0
        <5>1. Token(2 * n + 1) = 0
          BY <3>4, <1>2 DEF Token
        <5>2. 0 \in 0 .. AddrMod - 1
          BY MemoryAssumption
        <5>. QED
          BY <5>1, <5>2, Offsets
      <4>4. ASSUME NEW c \in Cell, c >= WORD_SIZE
            PROVE  ImageByte(n, c)'
        <5>1. Token(2 * n + 1) \in Nat /\ WORD_SIZE \in Nat \ {0} /\ WORD_SIZE = 4
          BY <1>2, Tokens DEF WORD_SIZE
        <5>2. memArr'[c] = memArr[c]
          BY <5>1, <4>3, <4>4, <3>2, <1>4, MovedFacts DEF Written
        <5>. QED
          BY <5>2, <4>4, <1>1, <1>3 DEF ImageByte, Covers, Token
      <4>. QED
        BY <4>1, <4>2, <4>4, <3>1, <3>2, <1>2, <1>3 DEF LoadInv
    <3>. QED
      BY <3>3, <3>4, <2>4, <1>1, <1>2, <1>3
  <2>. QED
    BY <2>3, <2>4, <1>2, <1>3
<1>. QED
  BY <1>6, <1>7

(* An iteration of loadFromFile puts one byte into its place, if it has one.*)
LEMMA FileKeepsLoadInv ==
  ASSUME startAddr = 0, LoadInv, loadFromFile
  PROVE  LoadInv'
<1>1. /\ image \in Seq(Nat) /\ file \in Seq(Byte) /\ Len(file) <= AddrMod /\ calls \in Nat
      /\ read \in Nat /\ loaded \in 0 .. Len(file) /\ Len(file) \in Nat /\ phase = "load"
      /\ UNCHANGED <<image, file, read, calls>>
  BY DEF LoadInv, loadFromFile, files
<1>2. CASE loaded < Len(file)
  <2>. DEFINE v == file[loaded + 1]
  <2>1. /\ memArr' = Written(memArr, loaded, v, BYTE_SIZE)
        /\ loaded' = loaded + 1 /\ phase' = "load"
    BY <1>1, <1>2 DEF loadFromFile
  <2>2. v \in Byte /\ loaded \in 0 .. AddrMod - 1 /\ BYTE_SIZE = 1
    BY <1>1, <1>2, MemoryAssumption DEF BYTE_SIZE
  <2>3. relativeAddr(loaded) = loaded
    BY <2>2, Offsets
  <2>4. /\ Moved(loaded, BYTE_SIZE) \in 0 .. 1
        /\ Moved(loaded, BYTE_SIZE) = 1 <=> loaded + 1 <= numEntries
    <3>1. loaded \in Nat /\ BYTE_SIZE \in Nat \ {0}
      BY <2>2, <1>1
    <3>2. /\ Moved(loaded, BYTE_SIZE) \in 0 .. BYTE_SIZE
          /\ Moved(loaded, BYTE_SIZE) = BYTE_SIZE <=> relativeAddr(loaded) + BYTE_SIZE <= numEntries
      BY <3>1, MovedFacts
    <3>. QED
      BY <3>2, <2>2, <2>3
  <2>5. ByteOf(v, 0) = v
    <3>1. Base \in Nat /\ Base ^ 0 = 1
      BY MemoryAssumption
    <3>. QED
      BY <3>1, <2>2 DEF ByteOf, Byte
  <2>. HIDE DEF v
  <2>6. ASSUME NEW c \in Cell
        PROVE  memArr'[c] = IF c = loaded THEN v ELSE memArr[c]
    <3>1. memArr'[c] = IF c - loaded \in 0 .. Moved(loaded, BYTE_SIZE) - 1
                       THEN ByteOf(v, c - loaded) ELSE memArr[c]
      BY <2>1, <2>3 DEF Written
    <3>2. c \in Nat /\ c < numEntries /\ numEntries \in Nat
      BY MemoryAssumption DEF Cell
    <3>3. c - loaded \in 0 .. Moved(loaded, BYTE_SIZE) - 1 <=> c = loaded
      BY <3>2, <2>4, <1>1
    <3>4. c = loaded => c - loaded = 0
      BY <3>2
    <3>. QED
      BY <3>1, <3>3, <3>4, <2>5
  <2>7. \A c \in Cell : c \in Nat
    BY MemoryAssumption DEF Cell
  <2>8. calls = 0 =>
          /\ Whole(Entries)'
          /\ \A c \in Cell :
               /\ c < loaded' => memArr'[c] = file'[c + 1]
               /\ c >= loaded' /\ c >= WORD_SIZE => ImageByte(Entries, c)'
    <3>. SUFFICES ASSUME calls = 0 PROVE
          /\ Whole(Entries)'
          /\ \A c \in Cell :
               /\ c < loaded' => memArr'[c] = file'[c + 1]
               /\ c >= loaded' /\ c >= WORD_SIZE => ImageByte(Entries, c)'
      OBVIOUS
    <3>1. Whole(Entries)'
      BY <1>1 DEF LoadInv, Whole, Entries, Token
    <3>2. ASSUME NEW c \in Cell, c < loaded'
          PROVE  memArr'[c] = file'[c + 1]
      <4>1. c = loaded => memArr'[c] = file[c + 1]
        BY <2>6 DEF v
      <4>2. c # loaded => c < loaded /\ memArr'[c] = memArr[c]
        BY <2>1, <2>6, <2>7, <3>2, <1>1
      <4>3. c < loaded => memArr[c] = file[c + 1]
        BY <1>1 DEF LoadInv
      <4>. QED
        BY <4>1, <4>2, <4>3, <1>1
    <3>3. ASSUME NEW c \in Cell, c >= loaded', c >= WORD_SIZE
          PROVE  ImageByte(Entries, c)'
      <4>1. c # loaded /\ c >= loaded
        BY <2>1, <2>7, <3>3, <1>1
      <4>2. memArr'[c] = memArr[c] /\ ImageByte(Entries, c)
        BY <4>1, <2>6, <3>3, <1>1 DEF LoadInv
      <4>. QED
        BY <4>2, <1>1 DEF ImageByte, Entries, Covers, Token
    <3>. QED
      BY <3>1, <3>2, <3>3
  <2>9. loaded' \in 0 .. Len(file)
    BY <2>1, <1>1, <1>2
  <2>. QED
    BY <2>1, <2>8, <2>9, <1>1 DEF LoadInv
<1>3. CASE ~(loaded < Len(file))
  <2>1. phase' = "ready" /\ UNCHANGED <<memArr, loaded>> /\ loaded = Len(file)
    BY <1>1, <1>3 DEF loadFromFile
  <2>2. calls = 0 => Whole(Entries)'
    BY <1>1 DEF LoadInv, Whole, Entries, Token
  <2>3. calls = 0 => \A c \in Cell :
          /\ c < loaded' => memArr'[c] = file'[c + 1]
          /\ c >= loaded' /\ c >= WORD_SIZE => ImageByte(Entries, c)'
    BY <2>1, <1>1 DEF LoadInv, ImageByte, Entries, Covers, Token
  <2>. QED
    BY <2>1, <2>2, <2>3, <1>1 DEF LoadInv
<1>. QED
  BY <1>2, <1>3

(* A memory that is used got every entry of the image whole, and holds the  *)
(* program and behind it the image (MemoryStore.cpp:16, 33-56), for every   *)
(* image, every program and every size of the memory.                       *)
THEOREM MemoryLoadedAsGiven ==
  ASSUME startAddr = 0
  PROVE  Spec => []LoadedAsGiven
<1>1. Init => LoadInv
  <2>. SUFFICES ASSUME Init PROVE LoadInv
    OBVIOUS
  <2>1. image \in Seq(Nat) /\ file \in Seq(Byte) /\ Len(file) <= AddrMod
    BY MemoryAssumption DEF Init
  <2>2. \A c \in Cell : memArr[c] = 0 /\ c \in Nat
    BY MemoryAssumption DEF Init, Cell
  <2>3. read = 0 /\ loaded = 0 /\ calls = 0 /\ Len(file) \in Nat /\ Len(image) \in Nat
    BY <2>1 DEF Init
  <2>4. Whole(0) /\ \A c \in Cell : ImageByte(0, c)
    BY <2>2 DEF Whole, ImageByte
  <2>5. CASE image = <<>>
    <3>1. Entries = 0 /\ phase = "load"
      BY <2>5 DEF Entries, Init
    <3>. QED
      BY <3>1, <2>1, <2>2, <2>3, <2>4 DEF LoadInv
  <2>6. CASE image # <<>>
    <3>1. phase = "prepare" /\ read = 2 * 0 /\ 2 * 0 <= Len(image) /\ 0 \in 0 .. read
      BY <2>3, <2>6 DEF Init
    <3>. QED
      BY <3>1, <2>1, <2>3, <2>4 DEF LoadInv
  <2>. QED
    BY <2>5, <2>6
<1>2. LoadInv /\ [Next]_vars => LoadInv'
  <2>. SUFFICES ASSUME LoadInv, [Next]_vars PROVE LoadInv'
    OBVIOUS
  <2>1. CASE prepareMemory
    BY <2>1, PrepareKeepsLoadInv
  <2>2. CASE loadFromFile
    BY <2>2, FileKeepsLoadInv
  <2>3. CASE Called /\ UNCHANGED <<files, read, loaded, phase>>
    <3>1. calls' \in Nat /\ calls' # 0 /\ phase' = "ready"
      BY <2>3 DEF Called, LoadInv
    <3>. QED
      BY <2>3, <3>1 DEF LoadInv, files
  <2>4. CASE UNCHANGED vars
    BY <2>4 DEF vars, files, LoadInv, Whole, Entries, ImageByte, Covers, Token
  <2>5. Next => \/ prepareMemory \/ loadFromFile \/ UNCHANGED vars
                \/ Called /\ UNCHANGED <<files, read, loaded, phase>>
    BY DEF Next, Load, Store, dumpMemoryState, Idle
  <2>. QED
    BY <2>1, <2>2, <2>3, <2>4, <2>5
<1>3. LoadInv => LoadedAsGiven
  <2>. SUFFICES ASSUME LoadInv, phase = "ready", calls = 0
                PROVE  /\ Whole(Entries)
                       /\ \A c \in Cell :
                            \/ c >= Len(file) /\ c < WORD_SIZE
                            \/ memArr[c] =
                                 IF c < Len(file) THEN file[c + 1]
                                 ELSE IF Covering(c) = 0 THEN 0
                                 ELSE ByteOf(Token(2 * Covering(c)),
                                        c - relativeAddr(Token(2 * Covering(c) - 1)))
    BY DEF LoadedAsGiven, Whole, Entries
  <2>1. /\ Whole(Entries) /\ loaded = Len(file) /\ Len(file) \in Nat
        /\ \A c \in Cell :
             /\ c < loaded => memArr[c] = file[c + 1]
             /\ c >= loaded /\ c >= WORD_SIZE => ImageByte(Entries, c)
    BY DEF LoadInv
  <2>2. ASSUME NEW c \in Cell, ImageByte(Entries, c)
        PROVE  memArr[c] = IF Covering(c) = 0 THEN 0
                           ELSE ByteOf(Token(2 * Covering(c)),
                                       c - relativeAddr(Token(2 * Covering(c) - 1)))
    <3>. DEFINE S == {0} \cup {k \in 1 .. Entries : Covers(k, c)}
    <3>1. Covering(c) = Max(S)
      BY DEF Covering, Entries, Covers
    <3>2. Entries \in Nat
      BY DEF Entries, LoadInv
    <3>3. ASSUME NEW x \in S, \A y \in S : y <= x
          PROVE  Max(S) = x
      <4>1. x \in Nat /\ \A y \in S : y \in Nat
        BY <3>2
      <4>. HIDE DEF S
      <4>2. \A u \in S : (\A y \in S : u >= y) => u = x
        BY <4>1, <3>3
      <4>. QED
        BY <4>1, <4>2, <3>3 DEF Max
    <3>4. CASE (\A k \in 1 .. Entries : ~Covers(k, c)) /\ memArr[c] = 0
      <4>1. 0 \in S /\ \A y \in S : y <= 0
        BY <3>4
      <4>. QED
        BY <4>1, <3>1, <3>3, <3>4
    <3>5. ASSUME NEW k \in 1 .. Entries, Covers(k, c),
                 \A j \in k + 1 .. Entries : ~Covers(j, c),
                 memArr[c] = ByteOf(Token(2 * k), c - relativeAddr(Token(2 * k - 1)))
          PROVE  Covering(c) = k /\ k # 0
      <4>1. k \in S /\ \A y \in S : y <= k
        BY <3>2, <3>5
      <4>. QED
        BY <4>1, <3>1, <3>3
    <3>. QED
      BY <3>4, <3>5, <2>2 DEF ImageByte
  <2>3. \A c \in Cell : c \in Nat
    BY MemoryAssumption DEF Cell
  <2>4. WORD_SIZE = 4
    BY DEF WORD_SIZE
  <2>. QED
    BY <2>1, <2>2, <2>3, <2>4
<1>. QED
  BY <1>1, <1>2, <1>3, PTL DEF Spec

------------------------------------------------------------------------------
(* The dump. *)

(* Offsets add up as long as they stay below the number of addresses. *)
LEMMA OffsetAdds ==
  ASSUME NEW a \in Nat, NEW k \in Nat, relativeAddr(a) + k < AddrMod
  PROVE  relativeAddr((a + k) % AddrMod) = relativeAddr(a) + k
<1>. DEFINE M == AddrMod
            q1 == (a + k) \div M
            b == (a + k) % M
            q2 == (a - startAddr) \div M
            o == relativeAddr(a)
<1>1. M \in Nat \ {0} /\ startAddr \in Nat
  BY MemoryAssumption
<1>2. /\ q1 \in Int /\ b \in 0 .. M - 1 /\ a + k = M * q1 + b
      /\ q2 \in Int /\ o \in 0 .. M - 1 /\ a - startAddr = M * q2 + o
  BY <1>1 DEF relativeAddr
<1>. HIDE DEF M, q1, b, q2, o
<1>3. b - startAddr = (q2 - q1) * M + (o + k)
  BY <1>1, <1>2
<1>4. o + k \in 0 .. M - 1 /\ q2 - q1 \in Int
  BY <1>1, <1>2 DEF o, M
<1>5. (b - startAddr) % M = o + k
  <2>. DEFINE q == q2 - q1
              t == o + k
  <2>1. q \in Int /\ t \in 0 .. M - 1 /\ b - startAddr = q * M + t
    BY <1>3, <1>4
  <2>. HIDE DEF q, t
  <2>2. (q * M + t) % M = t
    BY <2>1, <1>1, Remainder
  <2>. QED
    BY <2>1, <2>2 DEF t
<1>. QED
  BY <1>5 DEF relativeAddr, b, o, M

(* Entries show byte c of a memory, under the address it has. *)
Shown(entries, mem, c) ==
  \E entry \in entries : \E j \in DOMAIN entry.bytes :
    /\ relativeAddr(entry.address) + WORD_SIZE * entry.column + j = c
    /\ entry.bytes[j] = mem[c]

(* Every byte of a range is printed, under the address it has. *)
LEMMA RangePrinted ==
  ASSUME NEW start \in Nat, NEW end \in Nat, NEW mem, NEW c \in Cell,
         relativeAddr(start) <= c, c < relativeAddr(end)
  PROVE  Shown(printMemArray(mem, start, end, WORD_SIZE), mem, c)
<1>. DEFINE o == relativeAddr(start)
            j == (c - o) % 4
            x == (c - o) \div 4
            r == o + 4 * x
            row == x \div PerRow
            col == x % PerRow
            first == (start + row * (4 * PerRow)) % AddrMod
            bytes == [i \in 0 .. Moved(r + startAddr, 4) - 1 |-> mem[r + i]]
            entry == [address |-> first, column |-> col, bytes |-> bytes]
<1>1. /\ o \in Nat /\ c \in Nat /\ c < numEntries /\ numEntries < AddrMod
      /\ numEntries \in Nat /\ AddrMod \in Nat /\ PerRow \in Nat \ {0} /\ startAddr \in Nat
  BY MemoryAssumption, Offsets DEF Cell
<1>2. /\ j \in 0 .. 3 /\ x \in Nat /\ c - o = 4 * x + j
      /\ o <= c /\ c < relativeAddr(end) /\ relativeAddr(end) \in Nat
  BY <1>1, Offsets
<1>3. row \in Nat /\ col \in 0 .. PerRow - 1 /\ x = PerRow * row + col
  <2>. HIDE DEF x
  <2>. QED
    BY <1>1, <1>2
<1>. HIDE DEF o, j, x, row, col
<1>4. /\ r \in Cell /\ o <= r /\ r < relativeAddr(end) /\ r - o = 4 * x /\ r + j = c
      /\ r \in Nat /\ r < numEntries
  BY <1>1, <1>2 DEF Cell
<1>5. (r - o) % 4 = 0 /\ (r - o) \div 4 = x
  BY <1>2, <1>4
<1>6. (r - o) \div (4 * PerRow) = row
  <2>1. r - o = row * (4 * PerRow) + 4 * col
    BY <1>1, <1>3, <1>4
  <2>2. 4 * PerRow \in Nat \ {0} /\ 4 * col \in 0 .. 4 * PerRow - 1
    BY <1>1, <1>3
  <2>. QED
    BY <2>1, <2>2, <1>3, Remainder
<1>7. relativeAddr(first) = o + row * (4 * PerRow)
  <2>1. row * (4 * PerRow) \in Nat /\ o + row * (4 * PerRow) <= r
    <3>1. row * (4 * PerRow) \in Nat /\ 4 * x = row * (4 * PerRow) + 4 * col
      BY <1>1, <1>3
    <3>. QED
      BY <3>1, <1>1, <1>3, <1>4
  <2>2. o + row * (4 * PerRow) < AddrMod
    BY <2>1, <1>1, <1>4
  <2>. QED
    BY <2>1, <2>2, OffsetAdds DEF o
<1>8. relativeAddr(first) + 4 * col + j = c
  BY <1>1, <1>2, <1>3, <1>4, <1>7
<1>9. j \in 0 .. Moved(r + startAddr, 4) - 1
  <2>1. relativeAddr(r + startAddr) = r
    <3>1. (r + startAddr) - startAddr = r /\ r % AddrMod = r
      BY <1>1, <1>4
    <3>. QED
      BY <3>1 DEF relativeAddr
  <2>2. Moved(r + startAddr, 4) = IF 4 <= numEntries - r THEN 4 ELSE numEntries - r
    BY <2>1, <1>1, <1>4, MovedFacts
  <2>. QED
    BY <2>2, <1>1, <1>2, <1>4
<1>10. entry \in printMemArray(mem, start, end, WORD_SIZE)
  BY <1>4, <1>5, <1>6 DEF printMemArray, WORD_SIZE, RowBytes, o, col
<1>11. j \in DOMAIN entry.bytes /\ entry.bytes[j] = mem[c]
  BY <1>4, <1>9
<1>12. entry.address = first /\ entry.column = col
  OBVIOUS
<1>. HIDE DEF entry
<1>. QED
  BY <1>8, <1>10, <1>11, <1>12 DEF Shown, WORD_SIZE

(* The dump at the end shows every byte of its range that exists, under its *)
(* address, for every range and every length of a row (printMemArray).      *)
THEOREM MemoryDumpShowsRange == Spec => DumpShowsRange
<1>. DEFINE Shows ==
       \A range \in DumpRanges : dumpMemoryState(range[1], range[2]) =>
         \A c \in Cell :
           relativeAddr(range[1]) <= c /\ c < relativeAddr(range[2]) =>
             \E entry \in dump'.entries : \E j \in DOMAIN entry.bytes :
               /\ relativeAddr(entry.address) + WORD_SIZE * entry.column + j = c
               /\ entry.bytes[j] = memArr[c]
<1>1. Shows
  <2>. SUFFICES ASSUME NEW range \in DumpRanges, dumpMemoryState(range[1], range[2]),
                       NEW c \in Cell,
                       relativeAddr(range[1]) <= c, c < relativeAddr(range[2])
                PROVE  Shown(dump'.entries, memArr, c)
    BY DEF Shown
  <2>1. range[1] \in Nat /\ range[2] \in Nat
    BY MemoryAssumption
  <2>2. Shown(printMemArray(memArr, range[1], range[2], WORD_SIZE), memArr, c)
    BY <2>1, RangePrinted
  <2>3. dump'.entries = printMemArray(memArr, range[1], range[2], WORD_SIZE)
    BY DEF dumpMemoryState
  <2>. QED
    BY <2>2, <2>3
<1>. HIDE DEF Shows
<1>2. Spec => [][Shows]_vars
  BY <1>1, PTL DEF Spec
<1>. QED
  BY <1>2 DEF DumpShowsRange, Shows

------------------------------------------------------------------------------
(* Types, and the number that the memory is. *)

Memory == [Cell -> Byte]

(* Higher powers are not smaller. *)
LEMMA PowersGrow ==
  ASSUME NEW i \in Nat, NEW j \in Exponent, i <= j
  PROVE  i \in Exponent /\ Base ^ i \in Nat \ {0} /\ Base ^ j \in Nat /\ Base ^ i <= Base ^ j
<1>1. i \in Exponent /\ j - i \in Exponent /\ j - i \in Nat /\ i + (j - i) = j
  BY MemoryAssumption DEF Exponent, DOUBLE_SIZE
<1>. DEFINE a == Base ^ i
            c == Base ^ (j - i)
            d == Base ^ j
<1>2. a \in Nat \ {0} /\ c \in Nat \ {0} /\ d \in Nat /\ d = a * c
  BY <1>1, BasePowers
<1>. HIDE DEF a, c, d
<1>3. a * 1 <= a * c
  BY <1>2
<1>. QED
  BY <1>1, <1>2, <1>3 DEF a, d

(* Numbers of the length of a register. *)
LEMMA RegisterFacts ==
  /\ Register \subseteq Nat /\ Byte \subseteq Register
  /\ DOUBLE_SIZE = 8 /\ DOUBLE_SIZE \in Exponent
  /\ \A n \in 0 .. DOUBLE_SIZE : 0 .. Base ^ n - 1 \subseteq Register
<1>1. DOUBLE_SIZE = 8 /\ DOUBLE_SIZE \in Exponent
  BY DEF DOUBLE_SIZE, Exponent
<1>. DEFINE R == Base ^ DOUBLE_SIZE
<1>2. R \in Nat \ {0}
  BY <1>1, BasePowers
<1>3. ASSUME NEW n \in 0 .. DOUBLE_SIZE
      PROVE  0 .. Base ^ n - 1 \subseteq 0 .. R - 1
  <2>1. n \in Nat /\ n <= DOUBLE_SIZE
    BY <1>1
  <2>2. Base ^ n \in Nat \ {0} /\ Base ^ n <= R
    BY <2>1, <1>1, PowersGrow
  <2>. HIDE DEF R
  <2>. QED
    BY <2>2, <1>2
<1>4. Byte \subseteq 0 .. R - 1
  <2>1. 1 \in 0 .. DOUBLE_SIZE /\ 1 \in 1 .. DOUBLE_SIZE /\ 1 - 1 = 0
    BY <1>1
  <2>2. Base ^ 1 = Base * Base ^ (1 - 1) /\ Base ^ 0 = 1
    BY <2>1, MemoryAssumption
  <2>3. Base ^ 1 = Base
    BY <2>1, <2>2, BasePowers
  <2>. QED
    BY <2>1, <2>3, <1>3 DEF Byte
<1>5. 0 .. R - 1 \subseteq Nat
  <2>. HIDE DEF R
  <2>. QED
    BY <1>2
<1>. QED
  BY <1>1, <1>3, <1>4, <1>5 DEF Register

(* A write leaves bytes. *)
LEMMA WrittenIsMemory ==
  ASSUME NEW mem \in Memory, NEW address \in Nat, NEW value \in Nat,
         NEW size \in 1 .. DOUBLE_SIZE
  PROVE  Written(mem, address, value, size) \in Memory
<1>1. size \in Nat \ {0} /\ DOUBLE_SIZE = 8
  BY RegisterFacts
<1>2. Moved(address, size) \in 0 .. size
  BY <1>1, MovedFacts
<1>3. ASSUME NEW i \in 0 .. Moved(address, size) - 1
      PROVE  ByteOf(value, i) \in Byte
  <2>1. i \in Exponent
    BY <1>1, <1>2, <1>3 DEF Exponent
  <2>. DEFINE p == Base ^ i
              b == Base
  <2>2. p \in Nat \ {0} /\ b \in Nat \ {0}
    BY <2>1, BasePowers
  <2>. HIDE DEF p, b
  <2>3. (value \div p) % b \in 0 .. b - 1
    <3>. DEFINE q == value \div p
    <3>1. q \in Nat
      BY <2>2
    <3>. HIDE DEF q
    <3>. QED
      BY <3>1, <2>2 DEF q
  <2>. QED
    BY <2>3 DEF ByteOf, Byte, p, b
<1>. QED
  BY <1>3 DEF Written, Memory

(* What a read returns fits the access. *)
LEMMA AssembledRange ==
  ASSUME NEW mem \in Memory, NEW address \in Nat, NEW size \in 1 .. DOUBLE_SIZE
  PROVE  Assembled(mem, address, size) \in 0 .. Base ^ size - 1
<1>. DEFINE m == Moved(address, size)
            o == relativeAddr(address)
<1>1. size \in Nat \ {0} /\ size \in Exponent
  BY RegisterFacts DEF Exponent
<1>2. /\ m \in 0 .. size /\ o \in Nat /\ numEntries \in Nat
      /\ m = IF o >= numEntries THEN 0 ELSE IF size <= numEntries - o THEN size
             ELSE numEntries - o
  <2>1. o \in Nat /\ numEntries \in Nat
    BY Offsets, MemoryAssumption
  <2>. QED
    BY <1>1, <2>1, MovedFacts
<1>3. Assembled(mem, address, size) = Number(mem, o, m)
  BY DEF Assembled
<1>. HIDE DEF m, o
<1>4. m \in Nat /\ m <= size
  BY <1>1, <1>2
<1>5. Number(mem, o, m) \in 0 .. Base ^ m - 1
  <2>1. CASE o + m <= numEntries
    BY <2>1, <1>2, <1>4, NumberRange DEF Memory
  <2>2. CASE m = 0
    <3>1. Number(mem, o, 0) = 0 /\ Base ^ 0 = 1
      BY NumberSteps, MemoryAssumption
    <3>. QED
      BY <2>2, <3>1
  <2>. QED
    BY <2>1, <2>2, <1>2
<1>6. Base ^ m \in Nat /\ Base ^ size \in Nat /\ Base ^ m <= Base ^ size
  BY <1>1, <1>4, PowersGrow
<1>. DEFINE p == Base ^ m
            q == Base ^ size
            v == Number(mem, o, m)
<1>7. v \in 0 .. q - 1
  <2>1. v \in 0 .. p - 1 /\ p \in Nat /\ q \in Nat /\ p <= q
    BY <1>5, <1>6
  <2>. HIDE DEF p, q, v
  <2>. QED
    BY <2>1
<1>. QED
  BY <1>3, <1>7

(* The sizes of the accesses. *)
LEMMA Sizes ==
  ASSUME NEW funct3 \in LoadFunct3
  PROVE  /\ SizeOf(funct3) \in 1 .. DOUBLE_SIZE /\ StoreFunct3 \subseteq LoadFunct3
         /\ DOMAIN Flat!Width = LoadFunct3 /\ SizeOf(funct3) = Flat!Width[funct3]
BY DEF LoadFunct3, StoreFunct3, SizeOf, BYTE_SIZE, HALF_SIZE, WORD_SIZE, DOUBLE_SIZE, Flat!Width

(* Extending a number of an access, in the two ways of writing it.          *)
LEMMA ExtendedFacts ==
  ASSUME NEW size \in 1 .. DOUBLE_SIZE, NEW value \in 0 .. Base ^ size - 1
  PROVE  sext64(value, size) \in Register /\ sext64(value, size) = Flat!Extended(value, size)
<1>. DEFINE p == Base ^ size
            r == Base ^ DOUBLE_SIZE
            b == Base ^ (size - 1)
            c == 2 ^ (ByteBits - 1)
            h == c * b
<1>1. size \in Nat /\ size - 1 \in Nat /\ size - 1 \in Exponent
  BY RegisterFacts DEF Exponent
<1>2. p \in Nat \ {0} /\ r \in Nat /\ p <= r
  BY <1>1, RegisterFacts, PowersGrow
<1>3. b \in Nat \ {0}
  BY <1>1, BasePowers
<1>4. c \in Nat \ {0} /\ Base = 2 * c /\ p = Base * b
  BY MemoryAssumption
<1>5. value \in 0 .. p - 1
  OBVIOUS
<1>6. sext64(value, size) = IF value >= p \div 2 THEN value + (r - p) ELSE value
  BY DEF sext64
<1>7. Flat!Extended(value, size) = IF 2 * value < p THEN value ELSE r - (p - value)
  BY RegisterFacts DEF Flat!Extended, Flat!Base, Base
<1>. HIDE DEF p, r, b, c
<1>8. h \in Nat /\ p = 2 * h
  BY <1>3, <1>4
<1>. HIDE DEF h
<1>9. p \div 2 = h
  BY <1>8
<1>. QED
  BY <1>2, <1>5, <1>6, <1>7, <1>8, <1>9 DEF Register, r

(* Types are kept, and files never change. *)
TypeInv == TypeOK /\ image \in Seq(Nat) /\ file \in Seq(Byte)

LEMMA TypeInductive == Spec => []TypeInv
<1>1. Init => TypeInv
  <2>. SUFFICES ASSUME Init PROVE TypeInv
    OBVIOUS
  <2>1. image \in Seq(Nat) /\ file \in Seq(Byte) /\ MaxCalls \in Nat
    BY MemoryAssumption DEF Init
  <2>2. 0 \in Byte /\ 0 \in Register
    BY BasePowers, RegisterFacts DEF Byte
  <2>. QED
    BY <2>1, <2>2 DEF Init, TypeInv, TypeOK, NoCall
<1>2. TypeInv /\ [Next]_vars => TypeInv'
  <2>. SUFFICES ASSUME TypeInv, [Next]_vars PROVE TypeInv'
    OBVIOUS
  <2>1. /\ memArr \in Memory /\ read \in Nat /\ loaded \in 0 .. Len(file)
        /\ phase \in {"prepare", "load", "ready", "aborted"}
        /\ last.value \in Register /\ last.ret \in {0, -EINVAL} /\ calls \in 0 .. MaxCalls
        /\ image \in Seq(Nat) /\ file \in Seq(Byte) /\ Len(file) \in Nat /\ MaxCalls \in Nat
    BY MemoryAssumption DEF TypeInv, TypeOK, Memory
  <2>2. CASE prepareMemory
    <3>1. Token(read + 1) \in Nat /\ Token(read + 2) \in Nat
      BY <2>1, Tokens
    <3>2. memArr' \in Memory
      BY <2>1, <2>2, <3>1, WrittenIsMemory DEF prepareMemory, WORD_SIZE, DOUBLE_SIZE
    <3>3. read' \in Nat /\ phase' \in {"prepare", "load", "ready", "aborted"}
      BY <2>1, <2>2 DEF prepareMemory
    <3>. QED
      BY <2>1, <2>2, <3>2, <3>3 DEF prepareMemory, files, TypeInv, TypeOK, Memory
  <2>3. CASE loadFromFile /\ loaded < Len(file)
    <3>1. file[loaded + 1] \in Nat /\ loaded \in Nat
      <4>1. loaded + 1 \in 1 .. Len(file)
        BY <2>1, <2>3
      <4>2. file[loaded + 1] \in Byte
        BY <2>1, <4>1
      <4>3. Byte \subseteq Nat
        BY RegisterFacts
      <4>4. loaded \in Nat
        BY <2>1
      <4>. QED
        BY <4>2, <4>3, <4>4
    <3>2. memArr' \in Memory
      <4>1. memArr' = Written(memArr, loaded, file[loaded + 1], BYTE_SIZE)
        BY <2>3 DEF loadFromFile
      <4>2. BYTE_SIZE \in 1 .. DOUBLE_SIZE
        BY DEF BYTE_SIZE, DOUBLE_SIZE
      <4>. QED
        BY <2>1, <3>1, <4>1, <4>2, WrittenIsMemory
    <3>3. loaded' \in 0 .. Len(file)
      BY <2>1, <2>3 DEF loadFromFile
    <3>. QED
      BY <2>1, <2>3, <3>2, <3>3 DEF loadFromFile, files, TypeInv, TypeOK, Memory
  <2>4. CASE loadFromFile /\ ~(loaded < Len(file))
    BY <2>1, <2>4 DEF loadFromFile, files, TypeInv, TypeOK, Memory
  <2>5. ASSUME NEW funct3 \in LoadFunct3, NEW address \in Addresses, Load(funct3, address)
        PROVE  TypeInv'
    <3>1. address \in Nat /\ SizeOf(funct3) \in 1 .. DOUBLE_SIZE
      BY MemoryAssumption, Sizes
    <3>2. Assembled(memArr, address, SizeOf(funct3)) \in 0 .. Base ^ SizeOf(funct3) - 1
      BY <2>1, <3>1, AssembledRange
    <3>3. memResult(memArr, funct3, address) \in Register
      <4>1. SizeOf(funct3) \in 0 .. DOUBLE_SIZE
        BY <3>1, RegisterFacts
      <4>2. Assembled(memArr, address, SizeOf(funct3)) \in Register
        BY <4>1, <3>2, RegisterFacts
      <4>3. sext64(Assembled(memArr, address, SizeOf(funct3)), SizeOf(funct3)) \in Register
        BY <3>1, <3>2, ExtendedFacts
      <4>. QED
        BY <4>2, <4>3 DEF memResult
    <3>4. last'.value \in Register /\ last'.ret \in {0, -EINVAL} /\ calls' \in 0 .. MaxCalls
      BY <2>1, <2>5, <3>3 DEF Load, Called, Ret
    <3>. QED
      BY <2>1, <2>5, <3>4 DEF Load, files, TypeInv, TypeOK, Memory
  <2>6. ASSUME NEW funct3 \in StoreFunct3, NEW address \in Addresses, NEW value \in StoreValues,
               Store(funct3, address, value)
        PROVE  TypeInv'
    <3>1. /\ address \in Nat /\ value \in Register /\ value \in Nat
          /\ SizeOf(funct3) \in 1 .. DOUBLE_SIZE
      <4>1. funct3 \in LoadFunct3
        BY DEF StoreFunct3, LoadFunct3
      <4>. QED
        BY <4>1, MemoryAssumption, Sizes, RegisterFacts
    <3>2. memArr' \in Memory
      BY <2>1, <2>6, <3>1, WrittenIsMemory DEF Store
    <3>3. last'.value \in Register /\ last'.ret \in {0, -EINVAL} /\ calls' \in 0 .. MaxCalls
      BY <2>1, <2>6, <3>1 DEF Store, Called, Ret
    <3>. QED
      BY <2>1, <2>6, <3>2, <3>3 DEF Store, files, TypeInv, TypeOK, Memory
  <2>7. ASSUME NEW range \in DumpRanges, dumpMemoryState(range[1], range[2])
        PROVE  TypeInv'
    <3>1. calls' \in 0 .. MaxCalls
      BY <2>1, <2>7 DEF dumpMemoryState, Called
    <3>. QED
      BY <2>1, <2>7, <3>1 DEF dumpMemoryState, files, TypeInv, TypeOK, Memory
  <2>8. CASE UNCHANGED vars
    BY <2>1, <2>8 DEF vars, files, TypeInv, TypeOK, Memory
  <2>. QED
    BY <2>2, <2>3, <2>4, <2>5, <2>6, <2>7, <2>8 DEF Next, Idle
<1>. QED
  BY <1>1, <1>2, PTL DEF Spec

(* Cells hold bytes, a load returns a value of a register, extended or not, *)
(* and an error is -EINVAL, whatever the files say, whatever the accesses.  *)
THEOREM MemoryTypeCorrect == Spec => []TypeOK
<1>1. TypeInv => TypeOK
  BY DEF TypeInv
<1>. QED
  BY <1>1, TypeInductive, PTL

------------------------------------------------------------------------------
(* The refinement of FlatMemory. *)

(* The field of an access is what getOrSetValue moves.                      *)
LEMMA FieldPlace ==
  ASSUME NEW address \in 0 .. AddrMod - 1, NEW size \in 1 .. DOUBLE_SIZE
  PROVE  /\ Flat!From(address) \in 0 .. numEntries
         /\ Flat!To(address, size) - Flat!From(address) = Moved(address, size)
         /\ Flat!From(address) + Moved(address, size) <= numEntries
         /\ Moved(address, size) \in 0 .. size
         /\ Moved(address, size) # 0 => Flat!From(address) = relativeAddr(address)
         /\ relativeAddr(address) >= numEntries => Moved(address, size) = 0
         /\ relativeAddr(address) < numEntries => Flat!From(address) = relativeAddr(address)
         /\ Flat!Error(address, size) = Ret(address, size)
<1>. DEFINE o == relativeAddr(address)
            m == Moved(address, size)
            f == Flat!From(address)
<1>1. /\ AddrMod \in Nat \ {0} /\ startAddr \in 0 .. AddrMod - 1 /\ numEntries \in Nat
      /\ address \in Nat /\ size \in Nat \ {0}
  BY MemoryAssumption, RegisterFacts
<1>2. (address + AddrMod - startAddr) % AddrMod = o
  <2>. DEFINE x == address - startAddr
              q == x \div AddrMod
              r == x % AddrMod
  <2>1. q \in Int /\ r \in 0 .. AddrMod - 1 /\ x = AddrMod * q + r
    BY <1>1
  <2>2. address + AddrMod - startAddr = x + AddrMod
    BY <1>1
  <2>. HIDE DEF x, q, r
  <2>3. x + AddrMod = (q + 1) * AddrMod + r
    BY <1>1, <2>1
  <2>4. ((q + 1) * AddrMod + r) % AddrMod = r
    BY <1>1, <2>1, Remainder
  <2>. QED
    BY <2>2, <2>3, <2>4 DEF r, x, relativeAddr
<1>3. /\ o \in Nat /\ m \in 0 .. size
      /\ m = IF o >= numEntries THEN 0 ELSE IF size <= numEntries - o THEN size
             ELSE numEntries - o
      /\ Ret(address, size) = IF m = size THEN 0 ELSE -22
  BY <1>1, Offsets, MovedFacts DEF Ret, EINVAL
<1>4. f = IF o < numEntries THEN o ELSE numEntries
  BY <1>2 DEF Flat!From
<1>. HIDE DEF o, m, f
<1>5. Flat!To(address, size) = IF f + size <= numEntries THEN f + size ELSE numEntries
  BY DEF Flat!To, f
<1>6. Flat!Error(address, size) = IF Flat!To(address, size) - f < size THEN -22 ELSE 0
  BY DEF Flat!Error, f
<1>7. /\ f \in 0 .. numEntries /\ Flat!To(address, size) - f = m /\ f + m <= numEntries
      /\ m # 0 => f = o
      /\ o >= numEntries => m = 0
      /\ o < numEntries => f = o
  BY <1>1, <1>3, <1>4, <1>5
<1>8. Flat!Error(address, size) = Ret(address, size)
  BY <1>1, <1>3, <1>6, <1>7
<1>. QED
  BY <1>3, <1>7, <1>8 DEF o, m, f

(* The number below a field, the field, and the number above it. *)
Above(mem, from, count) == Number(mem, from + count, numEntries - (from + count))

LEMMA Thirds ==
  ASSUME NEW mem \in Memory, NEW from \in Nat, NEW count \in Nat, from + count <= numEntries
  PROVE  /\ Number(mem, 0, from) \in 0 .. Base ^ from - 1
         /\ Number(mem, from, count) \in 0 .. Base ^ count - 1
         /\ Above(mem, from, count) \in Nat
         /\ Base ^ from \in Nat \ {0} /\ Base ^ count \in Nat \ {0}
         /\ Number(mem, 0, numEntries)
              = Number(mem, 0, from)
                + Base ^ from * (Number(mem, from, count)
                                 + Base ^ count * Above(mem, from, count))
<1>. DEFINE rest == numEntries - (from + count)
<1>1. /\ rest \in Nat /\ numEntries \in Nat /\ mem \in [Cell -> Byte]
      /\ from \in Exponent /\ count \in Exponent /\ rest \in Exponent
      /\ count + rest \in Nat /\ from + (count + rest) = numEntries
      /\ 0 + from <= numEntries /\ 0 + from = from /\ (from + count) + rest <= numEntries
      /\ from + count + rest <= numEntries /\ 0 + from + (count + rest) <= numEntries
      /\ from + count \in Nat
  BY MemoryAssumption DEF Exponent, Memory
<1>2. /\ Number(mem, 0, from) \in 0 .. Base ^ from - 1
      /\ Number(mem, from, count) \in 0 .. Base ^ count - 1
      /\ Number(mem, from + count, rest) \in 0 .. Base ^ rest - 1
  BY <1>1, NumberRange
<1>3. Number(mem, 0, from + (count + rest))
        = Number(mem, 0, from) + Base ^ from * Number(mem, 0 + from, count + rest)
  BY <1>1, NumberSplit
<1>4. Number(mem, from, count + rest)
        = Number(mem, from, count) + Base ^ count * Number(mem, from + count, rest)
  BY <1>1, NumberSplit
<1>5. Base ^ from \in Nat \ {0} /\ Base ^ count \in Nat \ {0} /\ Base ^ rest \in Nat \ {0}
  BY <1>1, BasePowers
<1>6. Above(mem, from, count) \in Nat
  <2>. DEFINE p == Base ^ rest
              v == Number(mem, from + count, rest)
  <2>1. v \in 0 .. p - 1 /\ p \in Nat
    BY <1>2, <1>5
  <2>2. Above(mem, from, count) = v
    BY DEF Above
  <2>. HIDE DEF p, v
  <2>. QED
    BY <2>1, <2>2
<1>7. Number(mem, 0, numEntries)
        = Number(mem, 0, from)
          + Base ^ from * (Number(mem, from, count) + Base ^ count * Above(mem, from, count))
  BY <1>1, <1>3, <1>4, Zenon DEF Above
<1>. QED
  BY <1>2, <1>5, <1>6, <1>7

(* A load of a field of digits is a read of its bytes. *)
LEMMA FieldIsRead ==
  ASSUME memArr \in Memory, NEW address \in 0 .. AddrMod - 1, NEW size \in 1 .. DOUBLE_SIZE
  PROVE  /\ Flat!Field(address, size) = Assembled(memArr, address, size)
         /\ Flat!Field(address, size) = Number(memArr, Flat!From(address), Moved(address, size))
<1>. DEFINE f == Flat!From(address)
            m == Moved(address, size)
            low == Number(memArr, 0, f)
            mid == Number(memArr, f, m)
            top == Above(memArr, f, m)
            P == Base ^ f
            Q == Base ^ m
<1>1. /\ f \in 0 .. numEntries /\ m \in 0 .. size /\ f + m <= numEntries /\ numEntries \in Nat
      /\ Flat!To(address, size) - f = m
  BY FieldPlace, MemoryAssumption
<1>2. Number(memArr, relativeAddr(address), m) = mid
  <2>1. CASE m = 0
    <3>1. Number(memArr, relativeAddr(address), 0) = 0 /\ Number(memArr, f, 0) = 0
      BY NumberSteps
    <3>. QED
      BY <3>1, <2>1
  <2>2. CASE m # 0
    BY <2>2, FieldPlace
  <2>. QED
    BY <2>1, <2>2
<1>3. Flat!Field(address, size) = (Digits \div P) % Q
  BY <1>1 DEF Flat!Field, Flat!Base, Base
<1>4. f \in Nat /\ m \in Nat
  BY <1>1
<1>. HIDE DEF f, m
<1>5. /\ low \in 0 .. P - 1 /\ mid \in 0 .. Q - 1 /\ top \in Nat
      /\ P \in Nat \ {0} /\ Q \in Nat \ {0}
      /\ Digits = low + P * (mid + Q * top)
  BY <1>1, <1>4, Thirds DEF Digits
<1>. HIDE DEF low, mid, top, P, Q
<1>6. Digits = (mid + Q * top) * P + low
  BY <1>5
<1>7. mid + Q * top \in Int /\ mid + Q * top = top * Q + mid
  BY <1>5
<1>8. Digits \div P = mid + Q * top
  BY <1>5, <1>6, <1>7, Remainder
<1>9. (top * Q + mid) % Q = mid
  BY <1>5, Remainder
<1>. QED
  BY <1>2, <1>3, <1>7, <1>8, <1>9 DEF Assembled, mid, m, f

(* A store puts the low digits of its value in the field. *)
LEMMA FieldIsWritten ==
  ASSUME memArr \in Memory, NEW address \in 0 .. AddrMod - 1, NEW size \in 1 .. DOUBLE_SIZE,
         NEW value \in Nat, memArr' = Written(memArr, address, value, size)
  PROVE  Digits' = Digits + ((value % (Base ^ Moved(address, size))) - Flat!Field(address, size))
                              * Base ^ Flat!From(address)
<1>. DEFINE f == Flat!From(address)
            m == Moved(address, size)
            new == Written(memArr, address, value, size)
<1>1. /\ f \in Nat /\ m \in Nat /\ m \in 0 .. DOUBLE_SIZE /\ f + m <= numEntries
      /\ numEntries \in Nat
      /\ m # 0 => f = relativeAddr(address)
      /\ Flat!Field(address, size) = Number(memArr, f, m)
      /\ address \in Nat
  <2>1. address \in Nat /\ numEntries \in Nat /\ DOUBLE_SIZE = 8
    BY MemoryAssumption, RegisterFacts
  <2>2. Flat!Field(address, size) = Number(memArr, f, m)
    BY FieldIsRead
  <2>3. f \in 0 .. numEntries /\ f + m <= numEntries /\ m \in 0 .. size
    BY FieldPlace
  <2>4. m # 0 => f = relativeAddr(address)
    BY FieldPlace
  <2>. HIDE DEF f, m
  <2>. QED
    BY <2>1, <2>2, <2>3, <2>4
<1>2. new \in Memory
  BY <1>1, WrittenIsMemory
<1>3. ASSUME NEW c \in Cell
      PROVE  /\ c \in Nat
             /\ c - f \in 0 .. m - 1 => new[c] = ByteOf(value, c - f)
             /\ c - f \notin 0 .. m - 1 => new[c] = memArr[c]
  <2>1. c \in Nat
    BY MemoryAssumption DEF Cell
  <2>2. new[c] = IF c - relativeAddr(address) \in 0 .. m - 1
                 THEN ByteOf(value, c - relativeAddr(address)) ELSE memArr[c]
    BY DEF Written
  <2>3. CASE m = 0
    <3>1. 0 .. m - 1 = {}
      BY <2>3
    <3>. QED
      BY <3>1, <2>1, <2>2
  <2>4. CASE m # 0
    <3>1. f = relativeAddr(address)
      BY <2>4, <1>1
    <3>. QED
      BY <3>1, <2>1, <2>2
  <2>. QED
    BY <2>3, <2>4
<1>. HIDE DEF f, m, new
<1>4. Number(new, 0, f) = Number(memArr, 0, f)
  <2>1. ASSUME NEW i \in 0 .. f - 1
        PROVE  new[0 + i] = memArr[0 + i]
    <3>1. 0 + i \in Cell /\ (0 + i) - f \notin 0 .. m - 1
      BY <1>1 DEF Cell
    <3>. QED
      BY <3>1, <1>3
  <2>. QED
    BY <2>1, <1>1, NumberSame
<1>5. Number(new, f, m) = value % Base ^ m
  <2>1. ASSUME NEW i \in 0 .. m - 1
        PROVE  new[f + i] = ByteOf(value, i)
    <3>1. f + i \in Cell /\ (f + i) - f = i
      BY <1>1 DEF Cell
    <3>2. (f + i) - f \in 0 .. m - 1
      BY <3>1
    <3>. QED
      BY <3>1, <3>2, <1>3
  <2>2. Holds(new, f, m, value)
    BY <2>1 DEF Holds
  <2>3. f \in Nat /\ value \in Nat /\ m \in 0 .. DOUBLE_SIZE
    BY <1>1
  <2>. QED
    BY <2>2, <2>3, NumberOfValue
<1>6. Above(new, f, m) = Above(memArr, f, m)
  <2>. DEFINE rest == numEntries - (f + m)
  <2>1. rest \in Nat /\ f + m \in Nat
    BY <1>1
  <2>2. ASSUME NEW i \in 0 .. rest - 1
        PROVE  new[f + m + i] = memArr[f + m + i]
    <3>1. f + m + i \in Cell /\ (f + m + i) - f \notin 0 .. m - 1
      BY <1>1 DEF Cell
    <3>. QED
      BY <3>1, <1>3
  <2>3. Number(new, f + m, rest) = Number(memArr, f + m, rest)
    BY <2>1, <2>2, NumberSame
  <2>. QED
    BY <2>3 DEF Above
<1>. DEFINE low == Number(memArr, 0, f)
            mid == Number(memArr, f, m)
            top == Above(memArr, f, m)
            put == value % Base ^ m
            P == Base ^ f
            Q == Base ^ m
<1>7. /\ low \in 0 .. P - 1 /\ mid \in 0 .. Q - 1 /\ top \in Nat
      /\ P \in Nat \ {0} /\ Q \in Nat \ {0}
      /\ Digits = low + P * (mid + Q * top)
  BY <1>1, Thirds DEF Digits
<1>8. Digits' = low + P * (put + Q * top)
  <2>1. Number(new, 0, numEntries)
          = Number(new, 0, f) + P * (Number(new, f, m) + Q * Above(new, f, m))
    BY <1>1, <1>2, Thirds
  <2>2. Digits' = Number(new, 0, numEntries)
    BY DEF Digits, new
  <2>. QED
    BY <2>1, <2>2, <1>4, <1>5, <1>6, Zenon
<1>9. put \in Int
  <2>1. put = value % Q
    OBVIOUS
  <2>. HIDE DEF put, Q
  <2>. QED
    BY <2>1, <1>7
<1>10. Digits' = Digits + (put - mid) * P
  <2>. HIDE DEF low, mid, top, put, P, Q
  <2>. DEFINE t == Q * top
  <2>1. /\ t \in Int /\ P \in Int /\ mid \in Int /\ low \in Int
        /\ Digits = low + P * (mid + t) /\ Digits' = low + P * (put + t)
    BY <1>7, <1>8
  <2>. HIDE DEF t
  <2>2. /\ P * (mid + t) = P * mid + P * t /\ P * (put + t) = P * put + P * t
        /\ (put - mid) * P = P * put - P * mid
        /\ P * mid \in Int /\ P * put \in Int /\ P * t \in Int
    BY <2>1, <1>9
  <2>. QED
    BY <2>1, <2>2
<1>. QED
  BY <1>1, <1>10 DEF f, m

(* Loads and stores through bytes, with extensions and with accesses that   *)
(* cross the end, take and replace digits of one number (getOrSetValue and  *)
(* simMemAccess), for every size of a byte, of the memory and of addresses. *)
THEOREM MemoryImplementsFlat == Spec => ImplementsFlat
<1>1. \A mem \in Memory : Number(mem, 0, numEntries) \in Flat!Contents
  <2>. TAKE mem \in Memory
  <2>1. numEntries \in Nat /\ 0 + numEntries <= numEntries
    BY MemoryAssumption
  <2>2. Number(mem, 0, numEntries) \in 0 .. Base ^ numEntries - 1
    BY <2>1, NumberRange DEF Memory
  <2>. QED
    BY <2>2 DEF Flat!Contents, Flat!Base, Base
<1>2. TypeInv /\ Init => Flat!Init
  BY <1>1 DEF Init, NoCall, Flat!Init, Digits, TypeInv, TypeOK, Memory
<1>3. TypeInv /\ TypeInv' /\ [Next]_vars => [Flat!Next]_Flat!vars
  <2>. SUFFICES ASSUME TypeInv, TypeInv', [Next]_vars
                PROVE  Flat!Next \/ UNCHANGED Flat!vars
    OBVIOUS
  <2>1. memArr \in Memory /\ memArr' \in Memory /\ Digits' \in Flat!Contents
    BY <1>1 DEF TypeInv, TypeOK, Memory, Digits
  <2>2. CASE prepareMemory \/ loadFromFile
    BY <2>1, <2>2 DEF prepareMemory, loadFromFile, Flat!Next, Flat!Prepare
  <2>3. ASSUME NEW funct3 \in LoadFunct3, NEW address \in Addresses, Load(funct3, address)
        PROVE  Flat!Next
    <3>. DEFINE size == SizeOf(funct3)
    <3>1. /\ size \in 1 .. DOUBLE_SIZE /\ size = Flat!Width[funct3]
          /\ DOMAIN Flat!Width = LoadFunct3 /\ address \in 0 .. AddrMod - 1
      BY Sizes, MemoryAssumption
    <3>. HIDE DEF size
    <3>2. /\ Flat!Field(address, size) = Assembled(memArr, address, size)
          /\ Flat!Error(address, size) = Ret(address, size)
      BY <2>1, <3>1, FieldIsRead, FieldPlace
    <3>3. sext64(Assembled(memArr, address, size), size)
            = Flat!Extended(Assembled(memArr, address, size), size)
      <4>1. address \in Nat
        BY <3>1, MemoryAssumption
      <4>2. Assembled(memArr, address, size) \in 0 .. Base ^ size - 1
        BY <2>1, <3>1, <4>1, AssembledRange
      <4>. QED
        BY <3>1, <4>2, ExtendedFacts
    <3>4. memResult(memArr, funct3, address)
            = IF funct3 \in Flat!Signed THEN Flat!Extended(Flat!Field(address, size), size)
              ELSE Flat!Field(address, size)
      BY <3>2, <3>3 DEF memResult, Flat!Signed, size
    <3>5. /\ phase = "ready" /\ UNCHANGED <<memArr, phase>>
          /\ last' = [op |-> "load", funct3 |-> funct3, address |-> address,
                      value |-> memResult(memArr, funct3, address),
                      ret |-> Ret(address, size)]
      BY <2>3 DEF Load, Called, size
    <3>6. UNCHANGED Digits
      BY <3>5 DEF Digits
    <3>7. Flat!Load(funct3, address)
      BY <3>1, <3>2, <3>4, <3>5, <3>6 DEF Flat!Load
    <3>. QED
      BY <3>1, <3>7 DEF Flat!Next
  <2>4. ASSUME NEW funct3 \in StoreFunct3, NEW address \in Addresses, NEW value \in StoreValues,
               Store(funct3, address, value)
        PROVE  Flat!Next
    <3>. DEFINE size == SizeOf(funct3)
    <3>1. /\ size \in 1 .. DOUBLE_SIZE /\ size = Flat!Width[funct3]
          /\ address \in 0 .. AddrMod - 1 /\ value \in Nat
      <4>1. funct3 \in LoadFunct3
        BY DEF StoreFunct3, LoadFunct3
      <4>. QED
        BY <4>1, Sizes, MemoryAssumption, RegisterFacts
    <3>. HIDE DEF size
    <3>2. /\ Flat!Error(address, size) = Ret(address, size)
          /\ Flat!To(address, size) - Flat!From(address) = Moved(address, size)
      BY <3>1, FieldPlace
    <3>3. /\ phase = "ready" /\ UNCHANGED phase
          /\ memArr' = Written(memArr, address, value, size)
          /\ last' = [op |-> "store", funct3 |-> funct3, address |-> address,
                      value |-> value, ret |-> Ret(address, size)]
      BY <2>4 DEF Store, Called, size
    <3>4. Digits' = Digits + ((value % (Base ^ Moved(address, size)))
                                - Flat!Field(address, size)) * Base ^ Flat!From(address)
      BY <2>1, <3>1, <3>3, FieldIsWritten
    <3>5. Flat!Store(funct3, address, value)
      BY <3>1, <3>2, <3>3, <3>4 DEF Flat!Store, Flat!Base, Base
    <3>6. funct3 \in {"B", "H", "W", "D"}
      BY DEF StoreFunct3
    <3>. QED
      BY <3>5, <3>6 DEF Flat!Next
  <2>5. ASSUME NEW range \in DumpRanges, dumpMemoryState(range[1], range[2])
        PROVE  UNCHANGED Flat!vars
    BY <2>5 DEF dumpMemoryState, Digits, Flat!vars
  <2>6. CASE UNCHANGED vars
    BY <2>6 DEF vars, Digits, Flat!vars
  <2>. QED
    BY <2>2, <2>3, <2>4, <2>5, <2>6 DEF Next, Idle
<1>. QED
  BY <1>2, <1>3, TypeInductive, PTL DEF Spec, ImplementsFlat, Flat!Spec
==============================================================================
