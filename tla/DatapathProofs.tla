---------------------------- MODULE DatapathProofs ----------------------------
(***************************************************************************)
(* One instruction word on its way through decoder, execution and dump,    *)
(* for every word there is, every width of the registers and every content *)
(* of theirs.                                                              *)
(***************************************************************************)
EXTENDS Datapath, WellFoundedInduction, TLAPS

------------------------------------------------------------------------------
(* What the stages leave: flags from the decoder, a branch decided on the   *)
(* operands read, the text of the disassembler.                             *)

Register == 0 .. 2^XLEN - 1

DInv ==
  /\ word \in EncodedWord
  /\ stage \in {"IF", "ID", "EX", "WB"}
  /\ inst = simDecode(IF stage = "IF" THEN HALT ELSE word)
  /\ {op1Val, op2Val, arithResult} \subseteq Register
  /\ stage = "IF" => taken = FALSE
  /\ stage # "IF" =>
       taken = (inst.isLegal /\ word.opcode = "BRANCH" /\ BranchTaken(word, op1Val, op2Val))
  /\ shown = IF stage = "WB" THEN printInstr(word) ELSE IllegalText

(* Powers of two up to the width of a register. *)
LEMMA Powers ==
  /\ \A n \in 0 .. XLEN : 2^n \in Nat \ {0} /\ 2^n <= 2^XLEN
  /\ XLEN - 1 \in 0 .. XLEN /\ 2^XLEN = 2 * 2^(XLEN - 1)
  /\ WLEN \in 0 .. XLEN /\ WLEN - 1 \in 0 .. XLEN /\ 2^WLEN = 2 * 2^(WLEN - 1)
BY DatapathAssumption

(* A cast to unsigned is a number of that many bits. *)
LEMMA UnsignedRange ==
  ASSUME NEW a \in Int, NEW bits \in 0 .. XLEN
  PROVE  Unsigned(a, bits) \in 0 .. 2^bits - 1
<1>. DEFINE M == 2^bits
<1>1. M \in Nat \ {0}
  BY Powers
<1>. HIDE DEF M
<1>2. a % M \in 0 .. M - 1
  BY <1>1
<1>. QED
  BY <1>2 DEF Unsigned, M

(* A number seen as signed is a number. *)
LEMMA SignedRange ==
  ASSUME NEW bits \in 1 .. XLEN, NEW a \in 0 .. 2^bits - 1
  PROVE  /\ Signed(a, bits) \in -(2^(bits - 1)) .. 2^(bits - 1) - 1
         /\ Signed(a, bits) = a \/ Signed(a, bits) = a - 2^bits
<1>. DEFINE M == 2^bits
            H == 2^(bits - 1)
<1>1. M \in Nat \ {0} /\ H \in Nat \ {0} /\ M = 2 * H
  BY DatapathAssumption
<1>2. a \in 0 .. M - 1 /\ Signed(a, bits) = IF a >= H THEN a - M ELSE a
  BY DEF Signed
<1>. HIDE DEF M, H
<1>3. Signed(a, bits) \in -H .. H - 1 /\ (Signed(a, bits) = a \/ Signed(a, bits) = a - M)
  BY <1>1, <1>2
<1>. QED
  BY <1>3 DEF M, H

Operations  == {"add", "sub", "sll", "xor", "srl", "sra", "or", "and"}
Comparisons == {"slt", "sltu"}

(* Every case of the switches, cast to its width, is a number of that width.*)
LEMMA ComputedRange ==
  ASSUME NEW operation \in Operations, NEW bits \in {WLEN, XLEN},
         NEW a \in 0 .. 2^bits - 1, NEW b \in 0 .. 2^bits - 1
  PROVE  Computed(operation, a, b, bits) \in 0 .. 2^bits - 1
<1>. DEFINE n == b % bits
            result ==
              CASE operation = "add"  -> a + b
                [] operation = "sub"  -> a - b
                [] operation = "sll"  -> Unsigned(a, bits - n) * 2^n
                [] operation = "xor"  -> BitXor(a, b)
                [] operation = "srl"  -> a \div 2^n
                [] operation = "sra"  -> Signed(a, bits) \div 2^n
                [] operation = "or"   -> BitOr(a, b)
                [] operation = "and"  -> BitAnd(a, b)
<1>1. /\ bits \in 1 .. XLEN /\ bits \in Nat /\ XLEN \in Nat
      /\ 2^bits \in Nat \ {0} /\ 2^bits <= 2^XLEN /\ 2^XLEN \in Nat
  BY DatapathAssumption, Powers
<1>2. /\ a \in Int /\ b \in Int /\ n \in 0 .. bits - 1
      /\ a \in 0 .. 2^XLEN - 1 /\ b \in 0 .. 2^XLEN - 1
  BY <1>1
<1>. HIDE DEF n
<1>3. n \in 0 .. XLEN /\ bits - n \in 0 .. XLEN
  BY <1>1, <1>2
<1>4. 2^n \in Nat \ {0}
  BY <1>3, Powers
<1>5. Unsigned(a, bits - n) * 2^n \in Int
  <2>1. Unsigned(a, bits - n) \in 0 .. 2^(bits - n) - 1
    BY <1>2, <1>3, UnsignedRange
  <2>2. Unsigned(a, bits - n) \in Int
    BY <2>1
  <2>. QED
    BY <2>2, <1>4
<1>6. Signed(a, bits) \in Int
  BY <1>1, <1>2, SignedRange
<1>7. a \div 2^n \in Int /\ Signed(a, bits) \div 2^n \in Int
  BY <1>2, <1>4, <1>6
<1>8. BitXor(a, b) \in Int /\ BitOr(a, b) \in Int /\ BitAnd(a, b) \in Int
  BY <1>2, DatapathAssumption
<1>9. result \in Int
  BY <1>2, <1>5, <1>7, <1>8 DEF Operations
<1>10. Computed(operation, a, b, bits) = Unsigned(result, bits)
  BY DEF Computed, n
<1>. HIDE DEF result
<1>. QED
  BY <1>1, <1>9, <1>10, UnsignedRange

(* The names of the function codes. *)
LEMMA FunctNames ==
  ASSUME NEW w \in EncodedWord
  PROVE  /\ IntFunct(w.funct3) \in {"add", "sll", "slt", "sltu", "xor", "sr", "or", "and"}
         /\ w.funct3 # 7 => AccessFunct(w.funct3) \in {"b", "h", "w", "d", "bu", "hu", "wu"}
         /\ w.funct3 \notin {2, 3} =>
              BranchFunct(w.funct3) \in {"eq", "ne", "lt", "ge", "ltu", "geu"}
<1>1. w.funct3 \in {0, 1, 2, 3, 4, 5, 6, 7}
  BY DEF EncodedWord
<1>. QED
  BY <1>1, SMTT(30) DEF IntFunct, AccessFunct, BranchFunct

(* A word of integer arithmetic has one of the cases of the switches; none  *)
(* compares words.                                                          *)
LEMMA OperationKnown ==
  ASSUME NEW w \in EncodedWord
  PROVE  /\ Operation(w) \in Operations \cup Comparisons
         /\ LegalInt(w) /\ Narrow(w) => Operation(w) \in Operations
<1>1. IntFunct(w.funct3) \in {"add", "sll", "slt", "sltu", "xor", "sr", "or", "and"}
  BY FunctNames
<1>2. Operation(w) \in Operations \cup Comparisons
  BY <1>1 DEF Operation, Operations, Comparisons
<1>3. LegalInt(w) /\ Narrow(w) => IntFunct(w.funct3) \in {"add", "sll", "sr"}
  BY DEF LegalInt, Narrow
<1>4. IntFunct(w.funct3) \in {"add", "sll", "sr"} => Operation(w) \in Operations
  BY DEF Operation, Operations
<1>. QED
  BY <1>2, <1>3, <1>4

(* An immediate is a number. *)
LEMMA ImmediateRange ==
  ASSUME NEW w \in EncodedWord
  PROVE  imm12(w) \in 0 .. 4095 /\ sextImm12(w) \in Int
<1>1. imm12(w) \in 0 .. 4095
  BY SMTT(30) DEF imm12, EncodedWord
<1>. DEFINE i == imm12(w)
<1>. HIDE DEF i
<1>2. sext64(i, 11) \in Int
  <2>1. i \in 0 .. 4095
    BY <1>1 DEF i
  <2>. QED
    BY <2>1 DEF sext64
<1>. QED
  BY <1>1, <1>2 DEF sextImm12, i

LEMMA SecondRange ==
  ASSUME NEW w \in EncodedWord, NEW b \in Register
  PROVE  SecondOperand(w, b) \in Register
<1>1. sextImm12(w) \in Int
  BY ImmediateRange
<1>2. XLEN \in 0 .. XLEN
  BY DatapathAssumption
<1>3. Unsigned(sextImm12(w), XLEN) \in Register
  BY <1>1, <1>2, UnsignedRange DEF Register
<1>. QED
  BY <1>3 DEF SecondOperand

(* A result fits its register, the extended one of a word too. *)
LEMMA ResultRange ==
  ASSUME NEW w \in EncodedWord, LegalInt(w), NEW a \in Register, NEW b \in Register
  PROVE  simArithLogic(w, a, b) \in Register
<1>1. XLEN \in 0 .. XLEN /\ WLEN \in 0 .. XLEN /\ WLEN - 1 + 1 = WLEN /\ 2^XLEN \in Nat
  BY DatapathAssumption
<1>2. CASE ~Narrow(w)
  <2>1. Operation(w) \notin Comparisons => Computed(Operation(w), a, b, XLEN) \in Register
    BY OperationKnown, ComputedRange DEF Register
  <2>2. 0 \in Register /\ 1 \in Register
    <3>1. 2^XLEN = 2 * 2^(XLEN - 1) /\ 2^(XLEN - 1) \in Nat \ {0}
      BY Powers
    <3>. QED
      BY <3>1 DEF Register
  <2>3. /\ SetIfLess(w, a, b) = 0 \/ SetIfLess(w, a, b) = 1
        /\ SetIfLessImmediate(w, a) = 0 \/ SetIfLessImmediate(w, a) = 1
    BY DEF SetIfLess, SetIfLessImmediate, Flag
  <2>4. Wide(w, a, b) \in Register
    BY <2>1, <2>2, <2>3 DEF Wide, Comparisons
  <2>. QED
    BY <1>2, <2>4 DEF simArithLogic
<1>3. CASE Narrow(w)
  <2>. DEFINE v == Computed(Operation(w), Unsigned(a, WLEN), Unsigned(b, WLEN), WLEN)
  <2>1. Unsigned(a, WLEN) \in 0 .. 2^WLEN - 1 /\ Unsigned(b, WLEN) \in 0 .. 2^WLEN - 1
    BY <1>1, UnsignedRange DEF Register
  <2>2. v \in 0 .. 2^WLEN - 1
    BY <1>3, <2>1, OperationKnown, ComputedRange
  <2>3. 2^WLEN \in Nat \ {0}
    BY <1>1, Powers
  <2>. HIDE DEF v
  <2>4. sext64(v, WLEN - 1) \in Int
    <3>1. v \in Int /\ v % 2^WLEN \in Int
      BY <2>2, <2>3
    <3>2. sext64(v, WLEN - 1) \in {v, (v % 2^WLEN) - 2^WLEN}
      BY <1>1 DEF sext64
    <3>. QED
      BY <2>3, <3>1, <3>2
  <2>5. Unsigned(sext64(v, WLEN - 1), XLEN) \in Register
    BY <1>1, <2>4, UnsignedRange DEF Register
  <2>6. simArithLogic(w, a, b) = Unsigned(sext64(v, WLEN - 1), XLEN)
    BY <1>3 DEF simArithLogic, v
  <2>. QED
    BY <2>5, <2>6
<1>. QED
  BY <1>2, <1>3

------------------------------------------------------------------------------
(* Bits of numbers. *)

(* A set that holds 0 and with every number the next holds all of them. *)
LEMMA Induction ==
  ASSUME NEW S, 0 \in S, \A n \in Nat : n \in S => n + 1 \in S
  PROVE  \A n \in Nat : n \in S
<1>. DEFINE Less == {ss \in Nat \X Nat : ss[1] < ss[2]}
            T == Nat \ S
<1>1. IsWellFoundedOn(Less, Nat)
  BY NatLessThanWellFounded DEF OpToRel
<1>2. \A x, y \in Nat : y < x => <<y, x>> \in Less
  OBVIOUS
<1>. HIDE DEF Less
<1>3. ASSUME T # {} PROVE FALSE
  <2>1. PICK x \in T : \A y \in T : ~(<<y, x>> \in Less)
    BY <1>1, <1>3, WFMin, Zenon
  <2>2. x \in Nat /\ x # 0 /\ x - 1 \in Nat
    BY <2>1
  <2>3. <<x - 1, x>> \in Less
    BY <1>2, <2>2
  <2>4. x - 1 \in S
    BY <2>1, <2>2, <2>3
  <2>. QED
    BY <2>1, <2>2, <2>4
<1>. QED
  BY <1>3

(* Quotient and remainder are the only ones. *)
LEMMA Remainder ==
  ASSUME NEW q \in Int, NEW m \in Nat \ {0}, NEW r \in 0 .. m - 1
  PROVE  (q * m + r) % m = r /\ (q * m + r) \div m = q
<1>. DEFINE z == q * m + r
            p == z \div m
            o == z % m
<1>1. z \in Int /\ q * m \in Int
  OBVIOUS
<1>2. p \in Int /\ o \in 0 .. m - 1 /\ z = m * p + o
  <2>. HIDE DEF z
  <2>. QED
    BY <1>1
<1>3. z = q * m + r
  OBVIOUS
<1>. HIDE DEF z, p, o
<1>4. ASSUME NEW x \in Int, NEW y \in Int, x < y
      PROVE  m * x + m <= m * y
  <2>1. m * (x + 1) <= m * y
    BY <1>4
  <2>2. m * (x + 1) = m * x + m
    OBVIOUS
  <2>. QED
    BY <2>1, <2>2
<1>5. m * p \in Int /\ m * q \in Int /\ q * m = m * q
  BY <1>2
<1>6. ~(p < q) /\ ~(q < p)
  BY <1>2, <1>3, <1>4, <1>5
<1>7. p = q
  BY <1>2, <1>6
<1>8. o = r
  BY <1>2, <1>3, <1>5, <1>7
<1>. QED
  BY <1>7, <1>8 DEF z, p, o

(* Division is one of the whole. *)
LEMMA Divided ==
  ASSUME NEW v \in Int, NEW d \in Nat \ {0}
  PROVE  /\ v \div d \in Int /\ v % d \in 0 .. d - 1 /\ v = ((v \div d) * d) + (v % d)
         /\ v \in Nat => v \div d \in Nat
OBVIOUS

(* Cutting a number at two places, and at the first of them alone. *)
LEMMA CutTwice ==
  ASSUME NEW v \in Int, NEW d \in Nat \ {0}, NEW b \in Nat \ {0}
  PROVE  /\ b * d \in Nat \ {0}
         /\ v % (b * d) = (v % d) + (((v \div d) % b) * d)
         /\ v \div (b * d) = (v \div d) \div b
<1>. DEFINE q == v \div d
            r == v % d
            qq == q \div b
            rr == q % b
            m == b * d
            o == d * rr + r
<1>1. q \in Int /\ r \in 0 .. d - 1 /\ v = q * d + r
  BY Divided
<1>2. qq \in Int /\ rr \in 0 .. b - 1 /\ q = qq * b + rr
  <2>. HIDE DEF q
  <2>. QED
    BY <1>1, Divided
<1>. HIDE DEF q, r, qq, rr
<1>3. d * rr \in Nat /\ d * rr <= d * (b - 1) /\ d * (b - 1) = b * d - d
  BY <1>2
<1>4. m \in Nat \ {0} /\ o \in 0 .. m - 1
  BY <1>1, <1>3
<1>5. v = qq * m + o
  <2>1. q * d = (qq * b) * d + rr * d /\ (qq * b) * d = qq * (b * d) /\ rr * d = d * rr
    BY <1>1, <1>2
  <2>. QED
    BY <2>1, <1>1, <1>2, <1>3
<1>6. o = r + rr * d
  BY <1>1, <1>2
<1>. HIDE DEF m, o
<1>7. v % m = o /\ v \div m = qq
  BY <1>2, <1>4, <1>5, Remainder
<1>. QED
  BY <1>4, <1>6, <1>7 DEF q, r, qq, rr, m

LEMMA CutAgain ==
  ASSUME NEW v \in Int, NEW d \in Nat \ {0}, NEW b \in Nat \ {0}, NEW m, m = b * d
  PROVE  v \div m = (v \div d) \div b
<1>1. v \div (b * d) = (v \div d) \div b
  BY CutTwice, ZenonT(40)
<1>. QED
  BY <1>1, Zenon

(* Powers of two add up. *)
LEMMA TwoPowers ==
  /\ XLEN \in Nat /\ 2^0 = 1 /\ 2^1 = 2
  /\ \A i \in Nat : i <= XLEN => 2^i \in Nat \ {0}
  /\ \A i, j \in Nat : i + j <= XLEN => 2^(i + j) = 2^i * 2^j
<1>. DEFINE P(i) == 2^i
<1>1. /\ XLEN \in Nat /\ 2 <= XLEN
      /\ \A i \in 0 .. XLEN : P(i) \in 1 .. P(XLEN) /\ P(i) = IF i = 0 THEN 1 ELSE 2 * P(i - 1)
  BY DatapathAssumption
<1>. HIDE DEF P
<1>2. P(0) = 1
  BY <1>1
<1>3. \A i \in Nat : i + 1 <= XLEN => P(i + 1) = 2 * P(i)
  <2>. TAKE i \in Nat
  <2>. HAVE i + 1 <= XLEN
  <2>1. i + 1 \in 0 .. XLEN /\ i + 1 # 0 /\ (i + 1) - 1 = i
    BY <1>1
  <2>2. P(i + 1) = 2 * P((i + 1) - 1)
    BY <1>1, <2>1
  <2>. QED
    BY <2>1, <2>2
<1>4. P(1) = 2
  <2>1. P(0 + 1) = 2 * P(0) /\ 0 + 1 = 1
    BY <1>1, <1>3
  <2>. QED
    BY <2>1, <1>2
<1>5. \A i \in Nat : i <= XLEN => P(i) \in Nat \ {0}
  <2>. TAKE i \in Nat
  <2>. HAVE i <= XLEN
  <2>1. i \in 0 .. XLEN /\ XLEN \in 0 .. XLEN
    BY <1>1
  <2>2. P(i) \in 1 .. P(XLEN)
    BY <1>1, <2>1
  <2>. QED
    BY <2>2
<1>6. \A i, j \in Nat : i + j <= XLEN => P(i + j) = P(i) * P(j)
  <2>. TAKE i \in Nat
  <2>. DEFINE S == {j \in Nat : i + j <= XLEN => P(i + j) = P(i) * P(j)}
  <2>1. 0 \in S
    <3>1. i + 0 = i /\ (i <= XLEN => P(i) = P(i) * 1)
      BY <1>5
    <3>. QED
      BY <3>1, <1>2
  <2>2. ASSUME NEW j \in Nat, j \in S PROVE j + 1 \in S
    <3>. SUFFICES ASSUME i + (j + 1) <= XLEN PROVE P(i + (j + 1)) = P(i) * P(j + 1)
      OBVIOUS
    <3>1. /\ i + (j + 1) = (i + j) + 1 /\ i + j \in Nat /\ i + j <= XLEN
          /\ j + 1 <= XLEN /\ i <= XLEN /\ j <= XLEN
      BY <1>1
    <3>2. P(i + j) = P(i) * P(j)
      BY <2>2, <3>1
    <3>3. P((i + j) + 1) = 2 * P(i + j) /\ P(j + 1) = 2 * P(j)
      BY <1>3, <3>1
    <3>4. P(i) \in Nat /\ P(j) \in Nat
      BY <1>5, <3>1
    <3>5. 2 * (P(i) * P(j)) = P(i) * (2 * P(j))
      BY <3>4
    <3>. QED
      BY <3>1, <3>2, <3>3, <3>5
  <2>. HIDE DEF S
  <2>3. \A j \in Nat : j \in S
    BY <2>1, <2>2, Induction
  <2>. QED
    BY <2>3 DEF S
<1>. QED
  BY <1>1, <1>2, <1>4, <1>5, <1>6 DEF P

(* Bit i is the parity of what is left above the bits below it. *)
LEMMA BitIs ==
  ASSUME NEW v \in Int, NEW i \in Nat, i <= XLEN
  PROVE  Bit(v, i) = (v \div 2^i) % 2 /\ Bit(v, i) \in 0 .. 1 /\ v \div 2^i \in Int
<1>1. i - i + 1 = 1
  OBVIOUS
<1>2. 2^(i - i + 1) = 2
  BY <1>1, TwoPowers, Zenon
<1>3. Bit(v, i) = (v \div 2^i) % 2
  BY <1>2 DEF Bit, extractBits
<1>4. v \div 2^i \in Int
  BY TwoPowers, Divided
<1>. DEFINE q == v \div 2^i
<1>. HIDE DEF q
<1>5. q % 2 \in 0 .. 1
  BY <1>4 DEF q
<1>. QED
  BY <1>3, <1>4, <1>5 DEF q

(* Parity is not changed by an even part. *)
LEMMA EvenPart ==
  ASSUME NEW x \in Int, NEW y \in Int
  PROVE  (2 * x + y) % 2 = y % 2 /\ (2 * x) % 2 = 0
OBVIOUS

(* Nor by cutting at an even place. *)
LEMMA EvenCut ==
  ASSUME NEW q \in Int, NEW h \in Nat \ {0}
  PROVE  (q % (2 * h)) % 2 = q % 2
<1>. DEFINE e == (q \div 2) % h
<1>1. 2 \in Nat \ {0} /\ 2 * h = h * 2 /\ q % 2 \in 0 .. 1
  OBVIOUS
<1>2. q % (h * 2) = (q % 2) + (e * 2)
  BY <1>1, CutTwice, Zenon
<1>3. e \in Int
  <2>1. q \div 2 \in Int
    OBVIOUS
  <2>. QED
    BY <2>1, Divided
<1>. HIDE DEF e
<1>. QED
  BY <1>1, <1>2, <1>3

(* A cast keeps the bits of its width. *)
LEMMA LowBits ==
  ASSUME NEW v \in Int, NEW k \in Nat, k <= XLEN, NEW i \in 0 .. k - 1
  PROVE  Bit(Unsigned(v, k), i) = Bit(v, i)
<1>1. /\ i \in Nat /\ k - i \in Nat /\ i <= XLEN /\ k - i <= XLEN /\ i + (k - i) = k
      /\ k - i - 1 \in Nat /\ 1 + (k - i - 1) = k - i /\ k - i - 1 <= XLEN
  BY TwoPowers
<1>. DEFINE d == 2^i
            b == 2^(k - i)
            h == 2^(k - i - 1)
<1>2. /\ d \in Nat \ {0} /\ b \in Nat \ {0} /\ h \in Nat \ {0}
      /\ 2^(i + (k - i)) = d * b /\ 2^(1 + (k - i - 1)) = 2^1 * h /\ 2^1 = 2
  BY <1>1, TwoPowers
<1>3. 2^k = d * b /\ b = 2 * h
  BY <1>1, <1>2
<1>4. Unsigned(v, k) = v % 2^k /\ Bit(v, i) = (v \div d) % 2
  BY <1>1, BitIs DEF Unsigned
<1>5. Unsigned(v, k) \in Int
  <2>1. 2^k \in Nat \ {0}
    BY TwoPowers
  <2>. QED
    BY <1>4, <2>1, Divided
<1>6. Bit(Unsigned(v, k), i) = (Unsigned(v, k) \div d) % 2
  BY <1>1, <1>5, BitIs
<1>. HIDE DEF d, b, h
<1>7. 2^k = b * d
  BY <1>2, <1>3
<1>8. v % (b * d) = (v % d) + (((v \div d) % b) * d)
  BY <1>2, CutTwice, Zenon
<1>. DEFINE q == v \div d
            r == v % d
            z == q % b
<1>9. q \in Int /\ r \in 0 .. d - 1
  BY <1>2, Divided
<1>10. z \in Int
  <2>. HIDE DEF q
  <2>. QED
    BY <1>2, <1>9, Divided
<1>11. Unsigned(v, k) = z * d + r
  <2>1. Unsigned(v, k) = r + z * d
    BY <1>4, <1>7, <1>8
  <2>. HIDE DEF r, z
  <2>. QED
    BY <2>1, <1>2, <1>9, <1>10
<1>12. Unsigned(v, k) \div d = z
  <2>. HIDE DEF r, z
  <2>. QED
    BY <1>2, <1>9, <1>10, <1>11, Remainder
<1>13. z % 2 = q % 2
  <2>. HIDE DEF q
  <2>. QED
    BY <1>2, <1>3, <1>9, EvenCut
<1>. QED
  BY <1>4, <1>6, <1>12, <1>13

(* A shift to the right, arithmetic on a negative number. *)
LEMMA ShiftedDown ==
  ASSUME NEW v \in Int, NEW n \in Nat, NEW i \in Nat, i + n <= XLEN
  PROVE  Bit(v \div 2^n, i) = Bit(v, i + n)
<1>1. n <= XLEN /\ i <= XLEN /\ i + n \in Nat
  BY TwoPowers
<1>. DEFINE d == 2^n
            b == 2^i
<1>2. d \in Nat \ {0} /\ b \in Nat \ {0} /\ 2^(i + n) = b * d
  BY <1>1, TwoPowers
<1>. HIDE DEF d, b
<1>3. v \div d \in Int /\ v \div (b * d) = (v \div d) \div b
  <2>1. v \div d \in Int
    BY <1>2, Divided
  <2>2. d \in Nat \ {0} /\ b \in Nat \ {0}
    BY <1>2
  <2>3. \A m : m = b * d => v \div m = (v \div d) \div b
    BY <2>2, CutAgain, ZenonT(30)
  <2>. QED
    BY <2>1, <2>3
<1>4. Bit(v, i + n) = (v \div 2^(i + n)) % 2 /\ Bit(v \div d, i) = ((v \div d) \div b) % 2
  BY <1>1, <1>3, BitIs DEF d, b
<1>. QED
  BY <1>2, <1>3, <1>4 DEF d

(* A shift to the left. *)
LEMMA ShiftedUp ==
  ASSUME NEW v \in Int, NEW n \in Nat, n <= XLEN, NEW i \in Nat, i <= XLEN
  PROVE  Bit(v * 2^n, i) = IF i < n THEN 0 ELSE Bit(v, i - n)
<1>. DEFINE d == 2^n
            b == 2^i
<1>1. d \in Nat \ {0} /\ b \in Nat \ {0} /\ v * d \in Int
  BY TwoPowers
<1>2. Bit(v * d, i) = ((v * d) \div b) % 2
  BY <1>1, BitIs
<1>3. CASE i < n
  <2>. DEFINE e == 2^(n - i - 1)
  <2>1. /\ n - i \in Nat /\ n - i <= XLEN /\ i + (n - i) = n
        /\ n - i - 1 \in Nat /\ n - i - 1 <= XLEN /\ 1 + (n - i - 1) = n - i
    BY <1>3, TwoPowers
  <2>2. /\ e \in Nat \ {0} /\ 2^(i + (n - i)) = b * 2^(n - i)
        /\ 2^(1 + (n - i - 1)) = 2^1 * e /\ 2^1 = 2
    BY <2>1, TwoPowers
  <2>3. d = b * (2 * e)
    BY <2>1, <2>2
  <2>. HIDE DEF d, b, e
  <2>4. v * d = (2 * (v * e)) * b + 0 /\ 2 * (v * e) \in Int /\ v * e \in Int
    <3>1. v * (b * (2 * e)) = (2 * (v * e)) * b
      BY <1>1, <2>2
    <3>2. v * e \in Int
      BY <2>2
    <3>. QED
      BY <3>1, <3>2, <2>3, <1>1
  <2>5. (v * d) \div b = 2 * (v * e)
    <3>1. 0 \in 0 .. b - 1
      BY <1>1
    <3>. DEFINE x == 2 * (v * e)
    <3>2. x \in Int
      BY <2>4
    <3>. HIDE DEF x
    <3>3. (x * b + 0) \div b = x
      BY <1>1, <3>1, <3>2, Remainder
    <3>. QED
      BY <2>4, <3>3 DEF x
  <2>6. (2 * (v * e)) % 2 = 0
    BY <2>4, EvenPart
  <2>. QED
    BY <1>2, <1>3, <2>5, <2>6 DEF d, b
<1>4. CASE ~(i < n)
  <2>. DEFINE e == 2^(i - n)
  <2>1. i - n \in Nat /\ i - n <= XLEN /\ (i - n) + n = i
    BY <1>4, TwoPowers
  <2>2. e \in Nat \ {0} /\ b = e * d
    <3>1. 2^((i - n) + n) = e * d /\ e \in Nat \ {0}
      BY <2>1, TwoPowers
    <3>. QED
      BY <3>1, <2>1
  <2>3. Bit(v, i - n) = (v \div e) % 2
    BY <2>1, BitIs
  <2>. HIDE DEF d, b, e
  <2>4. (v * d) \div d = v
    <3>1. 0 \in 0 .. d - 1 /\ v * d + 0 = v * d
      BY <1>1
    <3>. QED
      BY <1>1, <3>1, Remainder
  <2>5. (v * d) \div (e * d) = ((v * d) \div d) \div e
    BY <1>1, <2>2, CutTwice
  <2>. QED
    BY <1>2, <1>4, <2>2, <2>3, <2>4, <2>5 DEF d, b
<1>. QED
  BY <1>3, <1>4

(* The bits above a number are those of its sign. *)
LEMMA HighBits ==
  ASSUME NEW i \in Nat, i <= XLEN
  PROVE  /\ \A v \in 0 .. 2^i - 1 : Bit(v, i) = 0
         /\ \A v \in -(2^i) .. -1 : Bit(v, i) = 1
<1>. DEFINE d == 2^i
<1>1. d \in Nat \ {0}
  BY TwoPowers
<1>2. ASSUME NEW v \in 0 .. d - 1 PROVE Bit(v, i) = 0
  <2>1. v \in Int /\ v = 0 * d + v
    BY <1>1
  <2>2. Bit(v, i) = (v \div d) % 2
    BY <2>1, BitIs
  <2>. HIDE DEF d
  <2>3. (0 * d + v) \div d = 0
    BY <1>1, Remainder
  <2>. QED
    BY <2>1, <2>2, <2>3
<1>3. ASSUME NEW v \in -d .. -1 PROVE Bit(v, i) = 1
  <2>1. v \in Int /\ v = (-1) * d + (v + d) /\ v + d \in 0 .. d - 1 /\ -1 \in Int
    BY <1>1
  <2>2. Bit(v, i) = (v \div d) % 2
    BY <2>1, BitIs
  <2>. HIDE DEF d
  <2>3. ((-1) * d + (v + d)) \div d = -1
    BY <1>1, <2>1, Remainder
  <2>4. (-1) % 2 = 1
    <3>1. (-1) * 2 + 1 = -1 /\ -1 \in Int /\ 2 \in Nat \ {0} /\ 1 \in 0 .. 2 - 1
      OBVIOUS
    <3>2. ((-1) * 2 + 1) % 2 = 1
      BY <3>1, Remainder
    <3>. QED
      BY <3>1, <3>2
  <2>. QED
    BY <2>1, <2>2, <2>3, <2>4
<1>. QED
  BY <1>2, <1>3

(* The bits above those of a signed number are those of its sign. *)
LEMMA SignBits ==
  ASSUME NEW j \in Nat, NEW v \in -(2^j) .. 2^j - 1, NEW i \in Nat, j <= i, i <= XLEN
  PROVE  Bit(v, i) = IF v < 0 THEN 1 ELSE 0
<1>1. j <= XLEN /\ i - j \in Nat /\ i - j <= XLEN /\ (i - j) + j = i /\ XLEN \in Nat
  BY TwoPowers
<1>. DEFINE d == 2^j
            e == 2^i
            f == 2^(i - j)
<1>2. d \in Nat \ {0} /\ e \in Nat \ {0} /\ f \in Nat \ {0} /\ 2^((i - j) + j) = f * d
  BY <1>1, TwoPowers
<1>3. e = f * d
  BY <1>1, <1>2
<1>4. v \in -d .. d - 1
  OBVIOUS
<1>5. (\A x \in 0 .. e - 1 : Bit(x, i) = 0) /\ (\A x \in -e .. -1 : Bit(x, i) = 1)
  BY HighBits
<1>. HIDE DEF d, e, f
<1>6. d <= e
  <2>1. f = 1 + (f - 1) /\ f - 1 \in Nat /\ f * d = 1 * d + (f - 1) * d
    BY <1>2
  <2>2. (f - 1) * d \in Nat
    BY <1>2, <2>1
  <2>. QED
    BY <1>2, <1>3, <2>1, <2>2
<1>7. v \in 0 .. e - 1 \/ v \in -e .. -1
  BY <1>2, <1>4, <1>6
<1>. QED
  BY <1>2, <1>5, <1>7

(* A cast to signed keeps the bits of its width. *)
LEMMA SignedBits ==
  ASSUME NEW bits \in 1 .. XLEN, NEW a \in 0 .. 2^bits - 1
  PROVE  /\ Signed(a, bits) \in -(2^(bits - 1)) .. 2^(bits - 1) - 1
         /\ \A i \in 0 .. bits - 1 : Bit(Signed(a, bits), i) = Bit(a, i)
         /\ Signed(a, bits) < 0 <=> Bit(a, bits - 1) = 1
         /\ Bit(a, bits - 1) \in 0 .. 1
<1>. DEFINE s == Signed(a, bits)
            m == 2^bits
<1>1. /\ bits \in Nat /\ bits <= XLEN /\ bits - 1 \in Nat /\ bits - 1 <= XLEN
      /\ bits - 1 <= bits - 1 /\ bits - 1 \in 0 .. bits - 1
  BY TwoPowers
<1>2. m \in Nat \ {0} /\ 2^(bits - 1) \in Nat \ {0}
  BY <1>1, TwoPowers
<1>3. s \in -(2^(bits - 1)) .. 2^(bits - 1) - 1 /\ (s = a \/ s = a - m)
  BY SignedRange
<1>4. s \in Int
  BY <1>2, <1>3
<1>5. Unsigned(s, bits) = a
  <2>1. a \in 0 .. m - 1
    OBVIOUS
  <2>. HIDE DEF m, s
  <2>2. s = 0 * m + a \/ s = (-1) * m + a
    BY <1>2, <1>3, <2>1
  <2>3. (0 * m + a) % m = a /\ ((-1) * m + a) % m = a
    <3>1. 0 \in Int /\ -1 \in Int
      OBVIOUS
    <3>. QED
      BY <1>2, <2>1, <3>1, Remainder
  <2>4. s % m = a
    BY <2>2, <2>3
  <2>. QED
    BY <2>4 DEF Unsigned, m
<1>6. \A i \in 0 .. bits - 1 : Bit(s, i) = Bit(a, i)
  <2>. HIDE DEF s
  <2>1. \A i \in 0 .. bits - 1 : Bit(Unsigned(s, bits), i) = Bit(s, i)
    BY <1>1, <1>4, LowBits
  <2>. QED
    BY <1>5, <2>1
<1>7. Bit(s, bits - 1) = IF s < 0 THEN 1 ELSE 0
  <2>. HIDE DEF s
  <2>. QED
    BY <1>1, <1>3, SignBits
<1>. QED
  BY <1>1, <1>3, <1>6, <1>7

(* A shift to the right shortens a number, and keeps its sign. *)
LEMMA Shortened ==
  ASSUME NEW j \in Nat, NEW n \in Nat, j + n <= XLEN, NEW v \in -(2^(j + n)) .. 2^(j + n) - 1
  PROVE  v \div 2^n \in -(2^j) .. 2^j - 1 /\ (v \div 2^n < 0 <=> v < 0)
<1>1. j <= XLEN /\ n <= XLEN /\ j + n \in Nat
  BY TwoPowers
<1>. DEFINE c == 2^j
            d == 2^n
            q == v \div d
            r == v % d
<1>2. c \in Nat \ {0} /\ d \in Nat \ {0} /\ 2^(j + n) = c * d
  BY <1>1, TwoPowers
<1>3. v \in -(c * d) .. c * d - 1 /\ c * d \in Nat
  BY <1>2
<1>4. q \in Int /\ r \in 0 .. d - 1 /\ v = q * d + r
  <2>. HIDE DEF c, d
  <2>1. v \in Int
    BY <1>2, <1>3
  <2>. QED
    BY <1>2, <2>1, Divided
<1>. HIDE DEF c, d, q, r
<1>5. ASSUME NEW x \in Int, NEW y \in Int, x < y
      PROVE  x * d + d <= y * d
  <2>1. y - x \in Nat \ {0} /\ (y - x) * d = y * d - x * d /\ y - x = 1 + (y - x - 1)
        /\ y - x - 1 \in Nat
    BY <1>2, <1>5
  <2>2. (1 + (y - x - 1)) * d = d + (y - x - 1) * d
    BY <1>2, <2>1
  <2>3. (y - x - 1) * d \in Nat /\ x * d \in Int /\ y * d \in Int
    BY <1>2, <2>1
  <2>. QED
    BY <1>2, <2>1, <2>2, <2>3
<1>6. q * d \in Int /\ -c \in Int /\ (-c) * d = -(c * d) /\ 0 * d = 0
  BY <1>2, <1>4
<1>7. ~(q < -c)
  BY <1>2, <1>3, <1>4, <1>5, <1>6
<1>8. ~(c - 1 < q)
  <2>1. CASE c = q
    BY <1>2, <1>3, <1>4, <1>6, <2>1
  <2>2. CASE c < q
    BY <1>2, <1>3, <1>4, <1>5, <1>6, <2>2
  <2>. QED
    BY <1>2, <1>4, <2>1, <2>2
<1>9. q < 0 <=> v < 0
  <2>1. CASE q < 0
    BY <1>2, <1>3, <1>4, <1>5, <1>6, <2>1
  <2>2. CASE 0 < q
    BY <1>2, <1>3, <1>4, <1>5, <1>6, <2>2
  <2>3. CASE q = 0
    BY <1>2, <1>3, <1>4, <1>6, <2>3
  <2>. QED
    BY <1>4, <2>1, <2>2, <2>3
<1>. QED
  BY <1>2, <1>4, <1>7, <1>8, <1>9 DEF c, d, q

Moving == {"sll", "srl", "sra", "xor", "or", "and"}

(* The bit that an operation moves to a place or makes there. *)
BitMade(operation, a, b, n, bits, i) ==
  CASE operation = "sll" -> IF i < n THEN 0 ELSE Bit(a, i - n)
    [] operation = "srl" -> IF i + n < bits THEN Bit(a, i + n) ELSE 0
    [] operation = "sra" -> Bit(a, IF i + n < bits THEN i + n ELSE bits - 1)
    [] operation = "xor" -> (Bit(a, i) + Bit(b, i)) % 2
    [] operation = "or"  -> 1 - (1 - Bit(a, i)) * (1 - Bit(b, i))
    [] operation = "and" -> Bit(a, i) * Bit(b, i)

(* It is the bit of every case of the switches, whatever the width. *)
LEMMA ComputedBits ==
  ASSUME NEW operation \in Moving, NEW bits \in {WLEN, XLEN},
         NEW a \in 0 .. 2^bits - 1, NEW b \in 0 .. 2^bits - 1, NEW i \in 0 .. bits - 1
  PROVE  Bit(Computed(operation, a, b, bits), i) = BitMade(operation, a, b, b % bits, bits, i)
<1>. DEFINE n == b % bits
            made(x) == Bit(Computed(operation, a, b, bits), i) = Bit(x, i)
<1>1. /\ bits \in 1 .. XLEN /\ bits \in Nat \ {0} /\ XLEN \in Nat /\ bits <= XLEN
      /\ 2^bits \in Nat \ {0} /\ 2^bits <= 2^XLEN /\ 2^XLEN \in Nat
  BY DatapathAssumption, Powers
<1>2. /\ a \in Int /\ b \in Int /\ a \in 0 .. 2^XLEN - 1 /\ b \in 0 .. 2^XLEN - 1
      /\ i \in 0 .. XLEN - 1 /\ i \in Nat /\ i <= XLEN /\ i < bits
  BY <1>1
<1>3. n \in 0 .. bits - 1
  BY <1>1, <1>2, Divided
<1>4. \A x \in Int : Bit(Unsigned(x, bits), i) = Bit(x, i)
  BY <1>1, LowBits
<1>. HIDE DEF n
<1>5. /\ n \in Nat /\ n <= XLEN /\ bits - n \in Nat /\ bits - n <= XLEN /\ bits - n \in 0 .. XLEN
      /\ (bits - n) + n = bits /\ bits - n <= XLEN
  BY <1>1, <1>3
<1>6. 2^n \in Nat \ {0} /\ 2^(bits - n) \in Nat \ {0}
  BY <1>5, TwoPowers
<1>7. CASE operation = "sll"
  <2>. DEFINE u == Unsigned(a, bits - n)
  <2>1. u \in Int /\ u * 2^n \in Int
    <3>1. u \in 0 .. 2^(bits - n) - 1
      BY <1>2, <1>5, UnsignedRange
    <3>. HIDE DEF u
    <3>. QED
      BY <1>6, <3>1
  <2>2. Computed(operation, a, b, bits) = Unsigned(u * 2^n, bits)
    BY <1>7 DEF Computed, n
  <2>3. made(u * 2^n)
    BY <1>4, <2>1, <2>2
  <2>4. i >= n => i - n \in 0 .. (bits - n) - 1
    BY <1>2, <1>5
  <2>5. i >= n => Bit(u, i - n) = Bit(a, i - n)
    BY <1>2, <1>5, <2>4, LowBits
  <2>. HIDE DEF u
  <2>6. Bit(u * 2^n, i) = IF i < n THEN 0 ELSE Bit(u, i - n)
    <3>1. u \in Int /\ n \in Nat /\ n <= XLEN /\ i \in Nat /\ i <= XLEN
      BY <1>2, <1>5, <2>1
    <3>. QED
      BY <3>1, ShiftedUp, ZenonT(30)
  <2>7. BitMade(operation, a, b, n, bits, i) = IF i < n THEN 0 ELSE Bit(a, i - n)
    BY <1>7 DEF BitMade
  <2>. QED
    BY <1>2, <1>5, <2>3, <2>5, <2>6, <2>7 DEF n
<1>8. CASE operation = "srl"
  <2>. DEFINE q == a \div 2^n
  <2>1. q \in Int
    BY <1>2, <1>6, Divided
  <2>2. Computed(operation, a, b, bits) = Unsigned(q, bits)
    BY <1>8 DEF Computed, n
  <2>3. made(q)
    BY <1>4, <2>1, <2>2
  <2>4. i + n < bits => Bit(q, i) = Bit(a, i + n)
    BY <1>1, <1>2, <1>5, ShiftedDown
  <2>5. ~(i + n < bits) => Bit(q, i) = 0
    <3>1. SUFFICES ASSUME bits - n <= i PROVE Bit(q, i) = 0
      BY <1>1, <1>2, <1>5
    <3>2. a \in -(2^((bits - n) + n)) .. 2^((bits - n) + n) - 1 /\ ~(a < 0)
      BY <1>1, <1>2, <1>5
    <3>3. (bits - n) + n <= XLEN
      BY <1>1, <1>5
    <3>4. q \in -(2^(bits - n)) .. 2^(bits - n) - 1 /\ ~(q < 0)
      BY <1>5, <3>2, <3>3, Shortened
    <3>. HIDE DEF q
    <3>. QED
      BY <1>2, <1>5, <3>1, <3>4, SignBits
  <2>6. BitMade(operation, a, b, n, bits, i) = IF i + n < bits THEN Bit(a, i + n) ELSE 0
    BY <1>8 DEF BitMade
  <2>. HIDE DEF q
  <2>. QED
    BY <2>3, <2>4, <2>5, <2>6 DEF n
<1>9. CASE operation = "sra"
  <2>. DEFINE s == Signed(a, bits)
              q == s \div 2^n
  <2>1. /\ s \in -(2^(bits - 1)) .. 2^(bits - 1) - 1
        /\ \A k \in 0 .. bits - 1 : Bit(s, k) = Bit(a, k)
        /\ s < 0 <=> Bit(a, bits - 1) = 1
        /\ Bit(a, bits - 1) \in 0 .. 1
    BY <1>1, SignedBits
  <2>2. /\ bits - 1 - n \in Nat /\ (bits - 1 - n) + n = bits - 1 /\ bits - 1 \in Nat
        /\ bits - 1 <= XLEN /\ bits - 1 - n <= XLEN
    BY <1>1, <1>3, <1>5
  <2>3. s \in Int
    <3>1. 2^(bits - 1) \in Nat
      BY <2>2, TwoPowers
    <3>. QED
      BY <2>1, <3>1
  <2>4. Computed(operation, a, b, bits) = Unsigned(q, bits)
    BY <1>9 DEF Computed, n
  <2>. HIDE DEF s
  <2>5. q \in Int
    BY <2>3, <1>6, Divided
  <2>6. made(q)
    BY <1>4, <2>4, <2>5
  <2>7. i + n < bits => Bit(q, i) = Bit(a, i + n)
    <3>1. SUFFICES ASSUME i + n < bits PROVE Bit(q, i) = Bit(a, i + n)
      OBVIOUS
    <3>2. i + n \in 0 .. bits - 1 /\ i + n <= XLEN
      BY <1>1, <1>2, <1>5, <3>1
    <3>3. Bit(q, i) = Bit(s, i + n)
      BY <1>2, <1>5, <2>3, <3>2, ShiftedDown
    <3>. QED
      BY <2>1, <3>2, <3>3
  <2>8. ~(i + n < bits) => Bit(q, i) = Bit(a, bits - 1)
    <3>1. SUFFICES ASSUME bits - 1 - n <= i PROVE Bit(q, i) = Bit(a, bits - 1)
      BY <1>1, <1>2, <1>5
    <3>2. s \in -(2^((bits - 1 - n) + n)) .. 2^((bits - 1 - n) + n) - 1
          /\ (bits - 1 - n) + n <= XLEN
      BY <2>1, <2>2
    <3>3. q \in -(2^(bits - 1 - n)) .. 2^(bits - 1 - n) - 1 /\ (q < 0 <=> s < 0)
      BY <1>5, <2>2, <3>2, Shortened
    <3>. HIDE DEF q
    <3>4. Bit(q, i) = IF q < 0 THEN 1 ELSE 0
      BY <1>2, <2>2, <3>1, <3>3, SignBits
    <3>. QED
      BY <2>1, <3>3, <3>4
  <2>9. BitMade(operation, a, b, n, bits, i) = Bit(a, IF i + n < bits THEN i + n ELSE bits - 1)
    BY <1>9 DEF BitMade
  <2>. HIDE DEF q
  <2>. QED
    BY <2>6, <2>7, <2>8, <2>9 DEF n
<1>10. CASE operation \in {"xor", "or", "and"}
  <2>1. /\ {BitXor(a, b), BitOr(a, b), BitAnd(a, b)} \subseteq Nat
        /\ Bit(BitXor(a, b), i) = (Bit(a, i) + Bit(b, i)) % 2
        /\ Bit(BitOr(a, b), i)  = 1 - (1 - Bit(a, i)) * (1 - Bit(b, i))
        /\ Bit(BitAnd(a, b), i) = Bit(a, i) * Bit(b, i)
    BY <1>2, DatapathAssumption
  <2>2. BitXor(a, b) \in Int /\ BitOr(a, b) \in Int /\ BitAnd(a, b) \in Int
    BY <2>1
  <2>3. CASE operation = "xor"
    <3>1. Computed(operation, a, b, bits) = Unsigned(BitXor(a, b), bits)
      BY <2>3 DEF Computed
    <3>2. BitMade(operation, a, b, n, bits, i) = (Bit(a, i) + Bit(b, i)) % 2
      BY <2>3 DEF BitMade
    <3>. QED
      BY <1>4, <2>1, <2>2, <3>1, <3>2 DEF n
  <2>4. CASE operation = "or"
    <3>1. Computed(operation, a, b, bits) = Unsigned(BitOr(a, b), bits)
      BY <2>4 DEF Computed
    <3>2. BitMade(operation, a, b, n, bits, i) = 1 - (1 - Bit(a, i)) * (1 - Bit(b, i))
      BY <2>4 DEF BitMade
    <3>. QED
      BY <1>4, <2>1, <2>2, <3>1, <3>2 DEF n
  <2>5. CASE operation = "and"
    <3>1. Computed(operation, a, b, bits) = Unsigned(BitAnd(a, b), bits)
      BY <2>5 DEF Computed
    <3>2. BitMade(operation, a, b, n, bits, i) = Bit(a, i) * Bit(b, i)
      BY <2>5 DEF BitMade
    <3>. QED
      BY <1>4, <2>1, <2>2, <3>1, <3>2 DEF n
  <2>. QED
    BY <1>10, <2>3, <2>4, <2>5
<1>. QED
  BY <1>7, <1>8, <1>9, <1>10 DEF Moving

(* Numbers that a modulus takes for the same. *)
Multiple(x, m) == \E q \in Int : x = q * m

LEMMA Multiples ==
  ASSUME NEW m \in Nat \ {0}
  PROVE  /\ \A x, y \in Int : Multiple(x, m) /\ Multiple(y, m) => Multiple(x + y, m) /\ Multiple(x - y, m)
         /\ \A x \in Int : Multiple(x, m) => x % m = 0
         /\ \A x \in Int : Multiple(x - (x % m), m)
<1>1. ASSUME NEW x \in Int, NEW y \in Int, Multiple(x, m), Multiple(y, m)
      PROVE  Multiple(x + y, m) /\ Multiple(x - y, m)
  <2>1. PICK p \in Int : x = p * m
    BY <1>1 DEF Multiple
  <2>2. PICK q \in Int : y = q * m
    BY <1>1 DEF Multiple
  <2>3. x + y = (p + q) * m /\ x - y = (p - q) * m /\ p + q \in Int /\ p - q \in Int
    BY <2>1, <2>2
  <2>. QED
    BY <2>3 DEF Multiple
<1>2. ASSUME NEW x \in Int, Multiple(x, m)
      PROVE  x % m = 0
  <2>1. PICK q \in Int : x = q * m
    BY <1>2 DEF Multiple
  <2>2. 0 \in 0 .. m - 1 /\ q * m + 0 = x
    BY <2>1
  <2>3. (q * m + 0) % m = 0
    BY <2>2, Remainder
  <2>. QED
    BY <2>2, <2>3
<1>3. ASSUME NEW x \in Int
      PROVE  Multiple(x - (x % m), m)
  <2>. DEFINE q == x \div m
              r == x % m
  <2>1. q \in Int /\ r \in 0 .. m - 1 /\ x = (q * m) + r
    BY Divided
  <2>. HIDE DEF q, r
  <2>2. x - r = q * m
    BY <2>1
  <2>. QED
    BY <2>1, <2>2 DEF Multiple, r
<1>. QED
  BY <1>1, <1>2, <1>3

(* A multiple of a large power of two is one of a smaller. *)
LEMMA MultiplesNest ==
  ASSUME NEW k \in Nat, NEW l \in Nat, k <= l, l <= XLEN, NEW x \in Int, Multiple(x, 2^l)
  PROVE  Multiple(x, 2^k)
<1>. DEFINE g == 2^(l - k)
            m == 2^k
<1>1. l - k \in Nat /\ (l - k) + k = l /\ k <= XLEN /\ l - k <= XLEN
  BY TwoPowers
<1>2. g \in Nat /\ m \in Nat /\ 2^((l - k) + k) = g * m
  BY <1>1, TwoPowers
<1>3. PICK q \in Int : x = q * 2^l
  BY DEF Multiple
<1>4. x = q * (g * m)
  BY <1>1, <1>2, <1>3
<1>. HIDE DEF g, m
<1>5. q * (g * m) = (q * g) * m /\ q * g \in Int
  BY <1>2
<1>6. \E p \in Int : x = p * m
  BY <1>4, <1>5
<1>. QED
  BY <1>6 DEF Multiple, m

(* The mask of a shift's count does not see what the cast of the count to a *)
(* word has cut off: the width of a word is a power of two.                 *)
LEMMA CountKept ==
  ASSUME NEW b \in Int
  PROVE  Unsigned(b, WLEN) % WLEN = b % WLEN
<1>1. PICK k \in 0 .. WLEN : WLEN = 2^k
  BY DatapathAssumption
<1>2. /\ k \in Nat /\ WLEN - k \in Nat /\ (WLEN - k) + k = WLEN /\ WLEN <= XLEN /\ k <= XLEN
      /\ WLEN - k <= XLEN /\ WLEN \in Nat \ {0}
  BY DatapathAssumption
<1>. DEFINE g == 2^(WLEN - k)
            e == (b \div WLEN) % g
<1>3. g \in Nat \ {0} /\ 2^((WLEN - k) + k) = g * 2^k
  BY <1>2, TwoPowers
<1>4. 2^WLEN = g * WLEN
  BY <1>1, <1>2, <1>3
<1>. HIDE DEF g
<1>5. b % (g * WLEN) = (b % WLEN) + (e * WLEN)
  BY <1>2, <1>3, CutTwice
<1>6. b \div WLEN \in Int /\ b % WLEN \in 0 .. WLEN - 1
  BY <1>2, Divided
<1>7. e \in Int
  BY <1>3, <1>6, Divided
<1>8. Unsigned(b, WLEN) = (b % WLEN) + (e * WLEN)
  BY <1>4, <1>5 DEF Unsigned
<1>. DEFINE r == b % WLEN
<1>. HIDE DEF e, r
<1>9. r \in 0 .. WLEN - 1 /\ Unsigned(b, WLEN) = (e * WLEN) + r
  <2>1. r \in 0 .. WLEN - 1 /\ Unsigned(b, WLEN) = r + (e * WLEN)
    BY <1>6, <1>8 DEF r
  <2>. QED
    BY <1>2, <1>7, <2>1
<1>10. ((e * WLEN) + r) % WLEN = r
  BY <1>2, <1>7, <1>9, Remainder
<1>. QED
  BY <1>9, <1>10 DEF r

(* Extending the sign of a word is the cast of it to signed. *)
LEMMA WordExtended ==
  ASSUME NEW v \in 0 .. 2^WLEN - 1
  PROVE  sext64(v, WLEN - 1) = Signed(v, WLEN)
<1>1. WLEN \in 1 .. XLEN /\ WLEN - 1 + 1 = WLEN /\ 2^WLEN \in Nat \ {0}
      /\ WLEN \in Nat /\ WLEN <= XLEN /\ WLEN - 1 \in Nat /\ WLEN - 1 <= XLEN
  BY DatapathAssumption, Powers
<1>2. /\ Signed(v, WLEN) \in -(2^(WLEN - 1)) .. 2^(WLEN - 1) - 1
      /\ Signed(v, WLEN) < 0 <=> Bit(v, WLEN - 1) = 1
  BY <1>1, SignedBits
<1>. DEFINE m == 2^WLEN
            h == 2^(WLEN - 1)
<1>3. h \in Nat \ {0} /\ m \in Nat \ {0} /\ v \in 0 .. m - 1 /\ m = 2 * h
  BY <1>1, Powers, TwoPowers
<1>4. Signed(v, WLEN) = IF v >= h THEN v - m ELSE v
  BY DEF Signed
<1>5. sext64(v, WLEN - 1) = IF Bit(v, WLEN - 1) = 1 THEN (v % m) - m ELSE v
  BY <1>1 DEF sext64, Bit
<1>. HIDE DEF m, h
<1>6. v % m = v
  <2>1. v = 0 * m + v
    BY <1>3
  <2>2. (0 * m + v) % m = v
    BY <1>3, Remainder
  <2>. QED
    BY <2>1, <2>2
<1>7. Signed(v, WLEN) < 0 <=> v >= h
  BY <1>3, <1>4
<1>. QED
  BY <1>2, <1>4, <1>5, <1>6, <1>7

(* Any case of the switches, cast to its width, differs from the sum or the *)
(* difference by a multiple of the modulus of that width.                   *)
LEMMA ComputedSums ==
  ASSUME NEW bits \in {WLEN, XLEN}, NEW a \in 0 .. 2^bits - 1, NEW b \in 0 .. 2^bits - 1
  PROVE  /\ Multiple(a + b - Computed("add", a, b, bits), 2^bits)
         /\ Multiple(a - b - Computed("sub", a, b, bits), 2^bits)
<1>1. bits \in 0 .. XLEN /\ 2^bits \in Nat \ {0}
  BY DatapathAssumption, Powers
<1>2. a + b \in Int /\ a - b \in Int
  BY <1>1
<1>3. /\ Computed("add", a, b, bits) = (a + b) % 2^bits
      /\ Computed("sub", a, b, bits) = (a - b) % 2^bits
  BY DEF Computed, Unsigned
<1>4. /\ Multiple((a + b) - ((a + b) % 2^bits), 2^bits)
      /\ Multiple((a - b) - ((a - b) % 2^bits), 2^bits)
  BY <1>1, <1>2, Multiples
<1>5. /\ a \in Int /\ b \in Int
      /\ Computed("add", a, b, bits) \in Int /\ Computed("sub", a, b, bits) \in Int
  <2>1. \A x \in 0 .. 2^bits - 1 : x \in Int
    BY <1>1
  <2>2. /\ Computed("add", a, b, bits) \in 0 .. 2^bits - 1
        /\ Computed("sub", a, b, bits) \in 0 .. 2^bits - 1
    BY ComputedRange DEF Operations
  <2>. QED
    BY <2>1, <2>2
<1>6. /\ a + b - Computed("add", a, b, bits) = (a + b) - Computed("add", a, b, bits)
      /\ a - b - Computed("sub", a, b, bits) = (a - b) - Computed("sub", a, b, bits)
  BY <1>5
<1>. QED
  BY <1>3, <1>4, <1>6

(* What holds of the results of integer arithmetic, whatever the word: the  *)
(* sign fills the register, each bit is in its place, sums and differences  *)
(* are right modulo the width.                                              *)
ResultsRight(w, a, b, result) ==
  LET width == IF Narrow(w) THEN WLEN ELSE XLEN IN
  /\ \A i \in width .. XLEN - 1 : Bit(result, i) = Bit(result, width - 1)
  /\ Operation(w) \in Moving =>
       \A i \in 0 .. width - 1 :
         Bit(result, i) = BitMade(Operation(w), a, b, b % width, width, i)
  /\ Operation(w) = "add" => (a + b - result) % 2^width = 0
  /\ Operation(w) = "sub" => (a - b - result) % 2^width = 0

LEMMA WideResult ==
  ASSUME NEW w \in EncodedWord, LegalInt(w), ~Narrow(w), NEW a \in Register, NEW b \in Register
  PROVE  ResultsRight(w, a, b, simArithLogic(w, a, b))
<1>. DEFINE v == simArithLogic(w, a, b)
<1>1. Operation(w) \in Moving \cup {"add", "sub"} => v = Computed(Operation(w), a, b, XLEN)
  <2>1. Operation(w) \in Moving \cup {"add", "sub"} => Operation(w) \notin {"slt", "sltu"}
    BY DEF Moving
  <2>. QED
    BY <2>1, Zenon DEF simArithLogic, Wide
<1>2. a \in 0 .. 2^XLEN - 1 /\ b \in 0 .. 2^XLEN - 1 /\ v \in 0 .. 2^XLEN - 1
  BY ResultRange DEF Register
<1>3. 2^XLEN \in Nat \ {0} /\ XLEN \in Nat
  BY DatapathAssumption, Powers
<1>4. Operation(w) \in Moving =>
        \A i \in 0 .. XLEN - 1 : Bit(v, i) = BitMade(Operation(w), a, b, b % XLEN, XLEN, i)
  BY <1>1, <1>2, ComputedBits
<1>5. /\ Operation(w) = "add" => Multiple(a + b - v, 2^XLEN)
      /\ Operation(w) = "sub" => Multiple(a - b - v, 2^XLEN)
  BY <1>1, <1>2, ComputedSums
<1>6. a + b - v \in Int /\ a - b - v \in Int
  BY <1>2, <1>3
<1>. HIDE DEF v
<1>7. /\ Operation(w) = "add" => (a + b - v) % 2^XLEN = 0
      /\ Operation(w) = "sub" => (a - b - v) % 2^XLEN = 0
  BY <1>3, <1>5, <1>6, Multiples
<1>8. XLEN .. XLEN - 1 = {}
  BY <1>3
<1>. QED
  BY <1>4, <1>7, <1>8 DEF ResultsRight, v

(* The bits an operation moves are within the width, where the cast of an   *)
(* operand to a word has changed none.                                      *)
LEMMA MadeOfWords ==
  ASSUME NEW operation \in Moving, NEW a \in Int, NEW b \in Int,
         NEW n \in 0 .. WLEN - 1, NEW i \in 0 .. WLEN - 1
  PROVE  BitMade(operation, Unsigned(a, WLEN), Unsigned(b, WLEN), n, WLEN, i)
           = BitMade(operation, a, b, n, WLEN, i)
<1>1. WLEN \in Nat /\ WLEN <= XLEN /\ 0 < WLEN
  BY DatapathAssumption
<1>2. \A k \in 0 .. WLEN - 1 : /\ Bit(Unsigned(a, WLEN), k) = Bit(a, k)
                               /\ Bit(Unsigned(b, WLEN), k) = Bit(b, k)
  BY <1>1, LowBits
<1>3. /\ ~(i < n) => i - n \in 0 .. WLEN - 1
      /\ i + n < WLEN => i + n \in 0 .. WLEN - 1
      /\ WLEN - 1 \in 0 .. WLEN - 1
  BY <1>1
<1>. DEFINE x == Unsigned(a, WLEN)
            y == Unsigned(b, WLEN)
<1>4. CASE operation = "sll"
  <2>1. ~(i < n) => Bit(x, i - n) = Bit(a, i - n)
    BY <1>2, <1>3
  <2>. QED
    BY <1>4, <2>1 DEF BitMade
<1>5. CASE operation = "srl"
  <2>1. i + n < WLEN => Bit(x, i + n) = Bit(a, i + n)
    BY <1>2, <1>3
  <2>. QED
    BY <1>5, <2>1 DEF BitMade
<1>6. CASE operation = "sra"
  <2>1. /\ i + n < WLEN => Bit(x, i + n) = Bit(a, i + n)
        /\ Bit(x, WLEN - 1) = Bit(a, WLEN - 1)
    BY <1>2, <1>3
  <2>. QED
    BY <1>6, <2>1 DEF BitMade
<1>7. CASE operation \in {"xor", "or", "and"}
  <2>1. Bit(x, i) = Bit(a, i) /\ Bit(y, i) = Bit(b, i)
    BY <1>2
  <2>. HIDE DEF x, y
  <2>2. BitMade(operation, x, y, n, WLEN, i) = BitMade(operation, a, b, n, WLEN, i)
    BY <1>7, <2>1 DEF BitMade
  <2>. QED
    BY <2>2 DEF x, y
<1>. QED
  BY <1>4, <1>5, <1>6, <1>7 DEF Moving

LEMMA NarrowResult ==
  ASSUME NEW w \in EncodedWord, LegalInt(w), Narrow(w), NEW a \in Register, NEW b \in Register
  PROVE  ResultsRight(w, a, b, simArithLogic(w, a, b))
<1>. DEFINE x == Unsigned(a, WLEN)
            y == Unsigned(b, WLEN)
            v == Computed(Operation(w), x, y, WLEN)
            s == Signed(v, WLEN)
            u == Unsigned(s, XLEN)
            m == 2^WLEN
<1>1. /\ WLEN \in Nat \ {0} /\ WLEN \in 1 .. XLEN /\ WLEN \in 0 .. XLEN /\ XLEN \in Nat
      /\ WLEN < XLEN /\ WLEN - 1 \in Nat /\ WLEN - 1 \in 0 .. WLEN - 1 /\ WLEN - 1 \in 0 .. XLEN - 1
      /\ 2^XLEN \in Nat \ {0} /\ 2^(WLEN - 1) \in Nat /\ XLEN \in 0 .. XLEN
  BY DatapathAssumption, Powers
<1>2. m \in Nat \ {0} /\ a \in Int /\ b \in Int
  BY <1>1, Powers DEF Register
<1>3. x \in 0 .. 2^WLEN - 1 /\ y \in 0 .. 2^WLEN - 1
  BY <1>1, <1>2, UnsignedRange
<1>4. v \in 0 .. 2^WLEN - 1
  BY <1>3, OperationKnown, ComputedRange
<1>5. simArithLogic(w, a, b) = u
  BY <1>4, WordExtended DEF simArithLogic
<1>6. /\ s \in -(2^(WLEN - 1)) .. 2^(WLEN - 1) - 1
      /\ \A i \in 0 .. WLEN - 1 : Bit(s, i) = Bit(v, i)
  BY <1>1, <1>4, SignedBits
<1>7. s = v \/ s = v - m
  BY <1>1, <1>4, SignedRange
<1>8. x \in Int /\ y \in Int /\ v \in Int
  BY <1>2, <1>3, <1>4
<1>9. Operation(w) \in Moving =>
        \A i \in 0 .. WLEN - 1 : Bit(v, i) = BitMade(Operation(w), a, b, b % WLEN, WLEN, i)
  <2>1. y % WLEN = b % WLEN
    BY <1>2, CountKept
  <2>2. b % WLEN \in 0 .. WLEN - 1
    BY <1>1, <1>2, Divided
  <2>3. SUFFICES ASSUME Operation(w) \in Moving, NEW i \in 0 .. WLEN - 1
                 PROVE  Bit(v, i) = BitMade(Operation(w), a, b, b % WLEN, WLEN, i)
    OBVIOUS
  <2>4. Bit(v, i) = BitMade(Operation(w), x, y, y % WLEN, WLEN, i)
    BY <1>3, <2>3, ComputedBits
  <2>5. BitMade(Operation(w), x, y, b % WLEN, WLEN, i)
          = BitMade(Operation(w), a, b, b % WLEN, WLEN, i)
    BY <1>2, <2>2, <2>3, MadeOfWords
  <2>. QED
    BY <2>1, <2>4, <2>5
<1>10. /\ Operation(w) = "add" => Multiple(x + y - v, m)
       /\ Operation(w) = "sub" => Multiple(x - y - v, m)
  BY <1>3, ComputedSums
<1>11. Multiple(a - x, m) /\ Multiple(b - y, m)
  BY <1>2, Multiples DEF Unsigned
<1>. HIDE DEF x, y, v
<1>12. s \in Int
  BY <1>1, <1>6
<1>13. Multiple(v - s, m)
  <2>1. v - s = 0 * m \/ v - s = 1 * m
    BY <1>2, <1>7, <1>8
  <2>. HIDE DEF s, m
  <2>. QED
    BY <2>1 DEF Multiple
<1>14. Multiple(s - u, m)
  <2>1. s - u \in Int /\ u \in Int
    <3>1. u \in 0 .. 2^XLEN - 1
      BY <1>1, <1>12, UnsignedRange
    <3>. HIDE DEF u, s
    <3>. QED
      BY <1>1, <1>12, <3>1
  <2>2. Multiple(s - u, 2^XLEN)
    BY <1>1, <1>12, Multiples DEF Unsigned
  <2>. HIDE DEF s, u
  <2>. QED
    BY <1>1, <2>1, <2>2, MultiplesNest
<1>15. u \in Int
  <2>1. u \in 0 .. 2^XLEN - 1
    BY <1>1, <1>12, UnsignedRange
  <2>. HIDE DEF u
  <2>. QED
    BY <1>1, <2>1
<1>16. \A i \in 0 .. XLEN - 1 : Bit(u, i) = Bit(s, i)
  <2>. HIDE DEF s
  <2>. QED
    BY <1>1, <1>12, LowBits
<1>17. \A i \in WLEN .. XLEN - 1 : Bit(u, i) = Bit(u, WLEN - 1)
  <2>. TAKE i \in WLEN .. XLEN - 1
  <2>1. /\ i \in Nat /\ i <= XLEN /\ WLEN - 1 <= i /\ i \in 0 .. XLEN - 1
        /\ WLEN - 1 <= WLEN - 1 /\ WLEN - 1 <= XLEN
    BY <1>1
  <2>. HIDE DEF s, u
  <2>2. Bit(s, i) = (IF s < 0 THEN 1 ELSE 0) /\ Bit(s, WLEN - 1) = (IF s < 0 THEN 1 ELSE 0)
    BY <1>1, <1>6, <2>1, SignBits
  <2>. QED
    BY <1>1, <1>16, <2>1, <2>2
<1>18. Operation(w) \in Moving =>
         \A i \in 0 .. WLEN - 1 : Bit(u, i) = BitMade(Operation(w), a, b, b % WLEN, WLEN, i)
  <2>1. \A i \in 0 .. WLEN - 1 : i \in 0 .. XLEN - 1
    BY <1>1
  <2>. HIDE DEF s, u
  <2>. QED
    BY <1>6, <1>9, <1>16, <2>1
<1>. HIDE DEF s, u, m
<1>19. (a - x) + (b - y) \in Int /\ (a - x) - (b - y) \in Int /\ (v - s) + (s - u) = v - u
       /\ v - u \in Int /\ v - s \in Int /\ s - u \in Int /\ x + y - v \in Int /\ x - y - v \in Int
       /\ a - x \in Int /\ b - y \in Int
  BY <1>2, <1>8, <1>12, <1>15
<1>20. /\ Multiple((a - x) + (b - y), m) /\ Multiple((a - x) - (b - y), m)
       /\ Multiple(v - u, m)
  <2>1. Multiple((v - s) + (s - u), m)
    BY <1>2, <1>13, <1>14, <1>19, Multiples
  <2>. QED
    BY <1>2, <1>11, <1>19, <2>1, Multiples
<1>21. Operation(w) = "add" => (a + b - u) % m = 0
  <2>. SUFFICES ASSUME Operation(w) = "add" PROVE (a + b - u) % m = 0
    OBVIOUS
  <2>. DEFINE p == (a - x) + (b - y)
              q == x + y - v
              t == v - u
  <2>1. /\ p \in Int /\ q \in Int /\ t \in Int /\ p + q \in Int /\ (p + q) + t \in Int
        /\ (p + q) + t = a + b - u
    BY <1>2, <1>8, <1>15, <1>19
  <2>2. Multiple(p, m) /\ Multiple(q, m) /\ Multiple(t, m)
    BY <1>10, <1>20
  <2>. HIDE DEF p, q, t
  <2>3. Multiple(p + q, m)
    BY <1>2, <2>1, <2>2, Multiples
  <2>4. Multiple((p + q) + t, m)
    BY <1>2, <2>1, <2>2, <2>3, Multiples
  <2>. QED
    BY <1>2, <2>1, <2>4, Multiples
<1>22. Operation(w) = "sub" => (a - b - u) % m = 0
  <2>. SUFFICES ASSUME Operation(w) = "sub" PROVE (a - b - u) % m = 0
    OBVIOUS
  <2>. DEFINE p == (a - x) - (b - y)
              q == x - y - v
              t == v - u
  <2>1. /\ p \in Int /\ q \in Int /\ t \in Int /\ p + q \in Int /\ (p + q) + t \in Int
        /\ (p + q) + t = a - b - u
    BY <1>2, <1>8, <1>15, <1>19
  <2>2. Multiple(p, m) /\ Multiple(q, m) /\ Multiple(t, m)
    BY <1>10, <1>20
  <2>. HIDE DEF p, q, t
  <2>3. Multiple(p + q, m)
    BY <1>2, <2>1, <2>2, Multiples
  <2>4. Multiple((p + q) + t, m)
    BY <1>2, <2>1, <2>2, <2>3, Multiples
  <2>. QED
    BY <1>2, <2>1, <2>4, Multiples
<1>. QED
  BY <1>5, <1>17, <1>18, <1>21, <1>22 DEF ResultsRight, m

------------------------------------------------------------------------------
(* What decoder and disassembler make of a word. *)

LEMMA DecodedFlags ==
  ASSUME NEW w \in EncodedWord
  PROVE  simDecode(w) \in [Flags -> BOOLEAN]
<1>1. simDecode(w) = [f \in Flags |-> simDecode(w)[f]]
  BY DEF simDecode, Flags
<1>2. /\ simDecode(w).isHalt \in BOOLEAN /\ simDecode(w).isNop \in BOOLEAN
      /\ simDecode(w).isLegal \in BOOLEAN /\ simDecode(w).readsMem \in BOOLEAN
      /\ simDecode(w).writesMem \in BOOLEAN /\ simDecode(w).doesArithLogic \in BOOLEAN
      /\ simDecode(w).writesRd \in BOOLEAN /\ simDecode(w).readsRs1 \in BOOLEAN
      /\ simDecode(w).readsRs2 \in BOOLEAN
  BY Zenon DEF simDecode
<1>3. \A f \in Flags : simDecode(w)[f] \in BOOLEAN
  BY <1>2 DEF Flags
<1>. QED
  BY <1>1, <1>3

(* A bit field is a number. *)
LEMMA FieldRange ==
  /\ \A x \in Nat : /\ extractBits(x, 6, 6) \in Nat /\ extractBits(x, 5, 0) \in Nat
                   /\ extractBits(x, 4, 1) \in Nat /\ extractBits(x, 0, 0) \in Nat
                   /\ extractBits(x, 19, 19) \in Nat /\ extractBits(x, 18, 9) \in Nat
                   /\ extractBits(x, 8, 8) \in Nat /\ extractBits(x, 7, 0) \in Nat
  /\ \A x \in Nat : /\ sext64(x, 11) \in Int /\ sext64(x, 12) \in Int
                   /\ sext64(x, 20) \in Int /\ sext64(x, 19 - 12) \in Int
                   /\ sext64(x, 31 - 12) \in Int
BY DEF extractBits, sext64

Tidy(t) == t.registers \subseteq {"rd", "rs1", "rs2"} /\ t.imm \subseteq Int

LEMMA ShownTidy ==
  ASSUME NEW m, NEW registers \in SUBSET {"rd", "rs1", "rs2"}, NEW imm \in SUBSET Int
  PROVE  Tidy(Text(m, registers, imm)) /\ Tidy(Shown(m, registers, imm))
BY DEF Tidy, Shown, Text, IllegalText, NoImm

(* The fields put together are numbers. *)
LEMMA NumbersOf ==
  ASSUME NEW w \in EncodedWord
  PROVE  /\ w.rd \in Nat /\ w.funct7 \in Nat /\ w.funct7 * 2^5 + w.rd \in Nat
         /\ imm12(w) \in Nat /\ imm12(w) % 64 \in Nat /\ imm20(w) \in Nat
<1>1. /\ w.rd \in Nat /\ w.rs1 \in Nat /\ w.rs2 \in Nat /\ w.funct3 \in Nat /\ w.funct7 \in Nat
  BY DEF EncodedWord
<1>2. w.funct7 * 2^5 + w.rd \in Nat /\ imm12(w) \in Nat
  BY <1>1 DEF imm12
<1>3. imm12(w) % 64 \in Nat /\ imm20(w) \in Nat
  BY <1>1, <1>2 DEF imm20
<1>. QED
  BY <1>1, <1>2, <1>3

LEMMA PrintedTidy ==
  ASSUME NEW w \in EncodedWord
  PROVE  Tidy(printInstr(w))
<1>1. /\ w.rd \in Nat /\ w.funct7 \in Nat /\ w.funct7 * 2^5 + w.rd \in Nat
      /\ imm12(w) \in Nat /\ imm12(w) % 64 \in Nat /\ imm20(w) \in Nat
  BY NumbersOf
<1>2. Tidy(handleIAndR(w))
  <2>1. {IF IsShift(w) THEN imm12(w) % 64 ELSE sext64(imm12(w), 11)} \subseteq Int
    BY <1>1, FieldRange
  <2>. QED
    BY <2>1, ShownTidy DEF handleIAndR, NoImm
<1>3. Tidy(handleLAndS(w))
  BY <1>1, FieldRange, ShownTidy DEF handleLAndS
<1>4. Tidy(handleBranch(w))
  <2>. DEFINE offset == extractBits(w.funct7, 6, 6) * 2^12 + extractBits(w.funct7, 5, 0) * 2^5
                + extractBits(w.rd, 4, 1) * 2 + extractBits(w.rd, 0, 0) * 2^11
  <2>1. offset \in Nat
    <3>1. /\ extractBits(w.funct7, 6, 6) \in Nat /\ extractBits(w.funct7, 5, 0) \in Nat
          /\ extractBits(w.rd, 4, 1) \in Nat /\ extractBits(w.rd, 0, 0) \in Nat
      BY <1>1, FieldRange
    <3>. QED
      BY <3>1
  <2>. HIDE DEF offset
  <2>2. {sext64(offset, 12)} \subseteq Int
    BY <2>1, FieldRange
  <2>. QED
    BY <2>2, ShownTidy DEF handleBranch, offset
<1>5. Tidy(handleSpecial(w))
  <2>. DEFINE i == imm20(w)
              offset == extractBits(i, 19, 19) * 2^20 + extractBits(i, 18, 9) * 2
                + extractBits(i, 8, 8) * 2^11 + extractBits(i, 7, 0) * 2^12
  <2>1. i \in Nat
    BY <1>1
  <2>. HIDE DEF i
  <2>2. offset \in Nat
    BY <2>1, FieldRange
  <2>. HIDE DEF offset
  <2>3. {IF w.opcode = "JAL" THEN sext64(offset, 20) ELSE sext64(i, 19 - 12)} \subseteq Int
    BY <2>1, <2>2, FieldRange
  <2>. QED
    BY <2>3, ShownTidy DEF handleSpecial, offset, i
<1>6. /\ Tidy(Text("HALT", {}, NoImm)) /\ Tidy(Text("NOP", {}, NoImm))
      /\ Tidy(IllegalText)
  BY ShownTidy DEF NoImm, IllegalText
<1>7. \/ w.opcode \in {"INT", "INTW", "INTIMM", "INTIMMW", "JALR"}
      \/ w.opcode \in {"LOAD", "STORE"} \/ w.opcode = "BRANCH"
      \/ w.opcode \in {"JAL", "LUI", "AUIPC"} \/ w.opcode = "OTHER"
  BY DEF EncodedWord, Opcodes
<1>. HIDE DEF Tidy, Text, IllegalText, handleIAndR, handleLAndS, handleBranch, handleSpecial
<1>. QED
  BY <1>2, <1>3, <1>4, <1>5, <1>6, <1>7 DEF printInstr

------------------------------------------------------------------------------
(* Every step keeps what the stages leave. *)

(* EX computes for legal words only. *)
LEMMA ArithmeticLegal ==
  ASSUME NEW w, simDecode(w).doesArithLogic, Immediate(w) \/ w.opcode \in {"INT", "INTW"}
  PROVE  LegalInt(w)
<1>1. Legal(w)
  BY DEF simDecode
<1>2. w.opcode \in {"INT", "INTW", "INTIMM", "INTIMMW"}
  BY DEF Immediate
<1>. QED
  BY <1>1, <1>2 DEF Legal

LEMMA DInvInductive == Spec => []DInv
<1>1. Init => DInv
  <2>. SUFFICES ASSUME Init PROVE DInv
    OBVIOUS
  <2>1. 0 \in Register /\ word \in EncodedWord
    BY DatapathAssumption, Powers DEF Init, Register
  <2>. QED
    BY <2>1, Zenon DEF Init, DInv
<1>2. DInv /\ [Next]_vars => DInv'
  <2>. SUFFICES ASSUME DInv, [Next]_vars PROVE DInv'
    OBVIOUS
  <2>. USE DEF DInv
  <2>1. CASE ID
    <3>1. op1Val' \in Register /\ op2Val' \in Register /\ arithResult' \in Register
      <4>1. 0 \in Register /\ Operands \subseteq Register
        BY DatapathAssumption, Powers DEF Register
      <4>. QED
        BY <2>1, <4>1 DEF ID
    <3>2. /\ stage = "IF" /\ stage' = "ID" /\ word' = word /\ inst' = simDecode(word)
          /\ shown' = shown
          /\ taken' = (inst'.isLegal /\ word.opcode = "BRANCH"
                        /\ BranchTaken(word, op1Val', op2Val'))
      BY <2>1, Zenon DEF ID
    <3>. QED
      BY <3>1, <3>2
  <2>2. CASE EX
    <3>1. arithResult' \in Register
      <4>1. SecondOperand(word, op2Val) \in Register
        BY SecondRange
      <4>2. LegalInt(word) =>
              simArithLogic(word, op1Val, SecondOperand(word, op2Val)) \in Register
        BY <4>1, ResultRange
      <4>3. inst.doesArithLogic /\ (Immediate(word) \/ word.opcode \in {"INT", "INTW"})
              => LegalInt(word)
        <5>1. inst = simDecode(word)
          BY <2>2 DEF EX
        <5>. QED
          BY <5>1, ArithmeticLegal
      <4>. QED
        BY <2>2, <4>2, <4>3 DEF EX
    <3>. QED
      BY <2>2, <3>1 DEF EX
  <2>3. CASE Dump
    BY <2>3 DEF Dump
  <2>4. CASE Retired \/ UNCHANGED vars
    BY <2>4 DEF Retired, vars
  <2>. QED
    BY <2>1, <2>2, <2>3, <2>4 DEF Next
<1>. QED
  BY <1>1, <1>2, PTL DEF Spec

(* Flags, operands, results and texts keep their types through every step of*)
(* every word (struct Instruction): a register never holds a number wider   *)
(* than it, whichever casts the result has gone through.                    *)
THEOREM DatapathTypeCorrect == Spec => []TypeOK
<1>1. DInv => TypeOK
  <2>. SUFFICES ASSUME DInv PROVE TypeOK
    OBVIOUS
  <2>1. inst \in [Flags -> BOOLEAN]
    <3>1. HALT \in EncodedWord
      BY DEF HALT, Fields, EncodedWord, Opcodes
    <3>. QED
      BY <3>1, DecodedFlags DEF DInv
  <2>2. taken \in BOOLEAN
    BY Zenon DEF DInv
  <2>3. Tidy(shown)
    <3>1. Tidy(IllegalText)
      BY DEF Tidy, IllegalText, Text, NoImm
    <3>. QED
      BY <3>1, PrintedTidy DEF DInv
  <2>. QED
    BY <2>1, <2>2, <2>3 DEF DInv, TypeOK, Tidy, Register
<1>. QED
  BY <1>1, DInvInductive, PTL

------------------------------------------------------------------------------
(* The opcode and legality tell a word's class. *)
LEMMA ClassTold ==
  ASSUME word \in EncodedWord
  PROVE  LET D == word \notin {HALT, NOP} /\ Legal(word) IN
         /\ Class = "halt" <=> word = HALT
         /\ Class = "nop" <=> word = NOP
         /\ Class = "illegal" <=> word \notin {HALT, NOP} /\ ~Legal(word)
         /\ Class = "add" <=> D /\ word.opcode \in {"INT", "INTW"}
         /\ Class = "addi" <=> D /\ word.opcode \in {"INTIMM", "INTIMMW"}
         /\ Class = "lui" <=> D /\ word.opcode \in {"LUI", "AUIPC"}
         /\ Class = "lw" <=> D /\ word.opcode = "LOAD"
         /\ Class = "sw" <=> D /\ word.opcode = "STORE"
         /\ Class = "beq" <=> D /\ word.opcode = "BRANCH"
         /\ Class = "jal" <=> D /\ word.opcode = "JAL"
         /\ Class = "jalr" <=> D /\ word.opcode = "JALR"
         /\ Class # "bne"
<1>1. HALT # NOP
  BY DEF HALT, NOP, Fields
<1>2. CASE word \in {HALT, NOP}
  BY <1>1, <1>2 DEF Class
<1>3. CASE word \notin {HALT, NOP} /\ ~Legal(word)
  BY <1>3 DEF Class
<1>4. CASE word \notin {HALT, NOP} /\ Legal(word)
  <2>1. word.opcode \in Opcodes \ {"OTHER"}
    BY <1>4 DEF EncodedWord, Legal, LegalInt, Opcodes
  <2>. QED
    BY <1>4, <2>1 DEF Class, Opcodes
<1>. QED
  BY <1>2, <1>3, <1>4

(* A word's flags are those of the class that all other modules take for it *)
(* (simDecode), whatever its function codes.                                *)
THEOREM DatapathDecodesByClass == Spec => []DecodesByClass
<1>1. DInv => DecodesByClass
  <2>. SUFFICES ASSUME DInv, stage # "IF"
                PROVE  inst =
    [isHalt |-> Classes!isHalt(OfClass), isNop |-> Class = "nop",
     isLegal |-> Classes!isLegal(OfClass),
     readsMem |-> Classes!readsMem(OfClass), writesMem |-> Classes!writesMem(OfClass),
     doesArithLogic |-> Classes!doesArithLogic(OfClass),
     writesRd |-> Classes!writesRd(OfClass),
     readsRs1 |-> Classes!readsRs1(OfClass), readsRs2 |-> Classes!readsRs2(OfClass)]
    BY DEF DecodesByClass
  <2>. DEFINE D == word \notin {HALT, NOP} /\ Legal(word)
  <2>1. word \in EncodedWord /\ word.opcode \in Opcodes /\ inst = simDecode(word)
    BY DEF DInv, EncodedWord
  <2>2. OfClass.word.op = Class
    BY DEF OfClass
  <2>3. (word = HALT) = Classes!isHalt(OfClass) /\ (word = NOP) = (Class = "nop")
    BY <2>1, <2>2, ClassTold DEF Classes!isHalt
  <2>4. (word \notin {HALT, NOP} => Legal(word)) = Classes!isLegal(OfClass)
    BY <2>1, <2>2, ClassTold DEF Classes!isLegal
  <2>5. /\ (D /\ word.opcode \in {"LOAD"}) = Classes!readsMem(OfClass)
        /\ (D /\ word.opcode \in {"STORE"}) = Classes!writesMem(OfClass)
    BY <2>1, <2>2, ClassTold DEF Classes!readsMem, Classes!writesMem
  <2>6. (D /\ word.opcode \in {"INT", "INTW", "INTIMM", "INTIMMW", "JALR", "AUIPC", "LUI", "JAL"})
           = Classes!doesArithLogic(OfClass)
    BY <2>1, <2>2, ClassTold DEF Classes!doesArithLogic
  <2>7. (D /\ word.opcode \in Opcodes \ {"STORE", "BRANCH", "OTHER"}) = Classes!writesRd(OfClass)
    BY <2>1, <2>2, ClassTold DEF Classes!writesRd, Opcodes
  <2>8. (D /\ word.opcode \in Opcodes \ {"AUIPC", "LUI", "JAL", "OTHER"})
           = Classes!readsRs1(OfClass)
    BY <2>1, <2>2, ClassTold DEF Classes!readsRs1, Opcodes
  <2>9. (D /\ word.opcode \in TwoRegisters) = Classes!readsRs2(OfClass)
    BY <2>1, <2>2, ClassTold DEF Classes!readsRs2, TwoRegisters
  <2>. QED
    BY <2>1, <2>3, <2>4, <2>5, <2>6, <2>7, <2>8, <2>9, Zenon DEF simDecode
<1>. QED
  BY <1>1, DInvInductive, PTL

------------------------------------------------------------------------------
(* The disassembler's switches find every word illegal that the decoder     *)
(* does.                                                                    *)
LEMMA IllegalPrinted ==
  ASSUME NEW w \in EncodedWord, w \notin {HALT, NOP}, ~Legal(w)
  PROVE  printInstr(w) = IllegalText
<1>1. IntFunct(w.funct3) \in {"add", "sll", "slt", "sltu", "xor", "sr", "or", "and"}
  BY FunctNames
<1>2. w.funct7 \in 0 .. 127 /\ w.funct3 \in 0 .. 7
  BY DEF EncodedWord
<1>3. w.opcode \in {"INT", "INTW", "INTIMM", "INTIMMW", "LOAD", "STORE", "BRANCH", "OTHER"}
  BY DEF EncodedWord, Opcodes, Legal
<1>4. CASE w.opcode \in {"INT", "INTW", "INTIMM", "INTIMMW"}
  <2>1. ~LegalInt(w)
    BY DEF Legal
  <2>2. IntBody(w.opcode, w.funct3, w.funct7) = "ILLEGAL"
    BY <1>1, <1>2, <1>4, <2>1 DEF IntBody, LegalInt, FUNCT7_ADD, FUNCT7_SUB, FUNCT7_LOGICAL,
       FUNCT7_ARITH, UPPERIMM_LOGICAL, UPPERIMM_ARITH
  <2>3. getOpString(w.opcode, w.funct3, w.funct7) = ILLEGAL
    BY <1>4, <2>2 DEF getOpString
  <2>. QED
    BY <1>4, <2>3 DEF printInstr, handleIAndR, Shown
<1>5. CASE w.opcode \in {"LOAD", "STORE"}
  <2>1. getOpString(w.opcode, w.funct3, 0) = ILLEGAL
    BY <1>2, <1>5 DEF getOpString, Legal
  <2>. QED
    BY <1>5, <2>1 DEF printInstr, handleLAndS, Shown
<1>6. CASE w.opcode = "BRANCH"
  <2>1. getOpString("BRANCH", w.funct3, 0) = ILLEGAL
    BY <1>2, <1>6 DEF getOpString, Legal
  <2>. QED
    BY <1>6, <2>1 DEF printInstr, handleBranch, Shown
<1>7. CASE w.opcode = "OTHER"
  BY <1>7 DEF printInstr
<1>. QED
  BY <1>3, <1>4, <1>5, <1>6, <1>7

(* The dump never makes an illegal word look like an instruction            *)
(* (getOpString, IntBody: legality decided a second time).                  *)
THEOREM DatapathIllegalShown == Spec => []IllegalShown
<1>1. DInv => IllegalShown
  <2>. SUFFICES ASSUME DInv, stage = "WB", ~inst.isLegal PROVE shown = IllegalText
    BY DEF IllegalShown
  <2>1. word \notin {HALT, NOP} /\ ~Legal(word)
    BY DEF DInv, simDecode
  <2>. QED
    BY <2>1, IllegalPrinted DEF DInv
<1>. QED
  BY <1>1, DInvInductive, PTL

------------------------------------------------------------------------------
(* Texts against words: the immediates first. *)

(* A number of twelve bits, its sign bit overwritten or not. *)
LEMMA Extended12 ==
  ASSUME NEW x \in 0 .. 2^12 - 1
  PROVE  sext64(x, 11) = IF x >= 2^11 THEN x - 2^12 ELSE x
<1>1. extractBits(x, 11, 11) = (x \div 2^11) % 2
  BY DEF extractBits
<1>2. (x \div 2^11) % 2 = IF x >= 2^11 THEN 1 ELSE 0
  OBVIOUS
<1>3. sext64(x, 11) = IF extractBits(x, 11, 11) = 1 THEN (x % 2^12) - 2^12 ELSE x
  BY DEF sext64
<1>4. x % 2^12 = x
  OBVIOUS
<1>. QED
  BY <1>1, <1>2, <1>3, <1>4

(* Six bits of it are the number itself only when it is as small. *)
LEMMA CutTo6 ==
  ASSUME NEW x \in 0 .. 2^12 - 1
  PROVE  x % 64 = sext64(x, 11) <=> sext64(x, 11) \in 0 .. 63
<1>1. sext64(x, 11) = IF x >= 2^11 THEN x - 2^12 ELSE x
  BY Extended12
<1>2. x % 64 \in 0 .. 63 /\ (x \in 0 .. 63 => x % 64 = x)
  OBVIOUS
<1>. QED
  BY <1>1, <1>2

(* Six bits of a shift's immediate are its five bits only without bit 5,    *)
(* the lowest of funct7.                                                    *)
LEMMA SixBitsOrFive ==
  ASSUME NEW w \in EncodedWord
  PROVE  /\ imm12(w) \in 0 .. 2^12 - 1
         /\ imm12(w) % 64 = imm12(w) % 32 <=> extractBits(w.funct7, 0, 0) # 1
<1>. DEFINE f == w.funct7
            r == w.rs2
            b == f % 2
            h == f \div 2
<1>1. f \in 0 .. 127 /\ r \in 0 .. 31
  BY DEF EncodedWord
<1>2. imm12(w) = f * 32 + r
  BY DEF imm12
<1>. HIDE DEF f, r
<1>3. b \in 0 .. 1 /\ h \in Nat /\ f = 2 * h + b
  BY <1>1
<1>4. extractBits(f, 0, 0) = b
  <2>1. extractBits(f, 0, 0) = (f \div 1) % 2 /\ f \div 1 = f
    BY <1>1 DEF extractBits
  <2>. QED
    BY <2>1
<1>. HIDE DEF b, h
<1>5. (f * 32 + r) % 64 = 32 * b + r /\ (f * 32 + r) % 32 = r
  <2>1. f * 32 + r = 64 * h + (32 * b + r) /\ 32 * b + r \in 0 .. 63
    BY <1>1, <1>3
  <2>. QED
    BY <2>1, <1>1, <1>3
<1>6. f * 32 + r \in 0 .. 2^12 - 1
  BY <1>1
<1>7. 32 * b + r = r <=> b # 1
  BY <1>1, <1>3
<1>. QED
  BY <1>2, <1>4, <1>5, <1>6, <1>7 DEF f

(* Of twenty bits, bit 19 - 12 is the sign of small negative numbers only.  *)
LEMMA UpperSigns ==
  ASSUME NEW x \in 0 .. 2^20 - 1
  PROVE  sext64(x, 19 - 12) = sext64(x, 31 - 12) <=>
         ~(/\ sext64(x, 31 - 12) \notin -128 .. -1
           /\ sext64(x, 31 - 12) < 0 \/ extractBits(x, 19 - 12, 19 - 12) = 1)
<1>. DEFINE bit == (x \div 128) % 2
            low == x % 256
            u   == IF x >= 2^19 THEN x - 2^20 ELSE x
            v   == IF bit = 1 THEN low - 256 ELSE x
<1>0. 19 - 12 = 7 /\ 31 - 12 = 19
  OBVIOUS
<1>1. extractBits(x, 7, 7) = bit
  BY DEF extractBits
<1>2. sext64(x, 7) = v
  <2>1. sext64(x, 7) = IF extractBits(x, 7, 7) = 1 THEN (x % 256) - 256 ELSE x
    BY DEF sext64
  <2>. QED
    BY <1>1, <2>1
<1>3. sext64(x, 19) = u
  <2>1. extractBits(x, 19, 19) = (x \div 2^19) % 2
    BY DEF extractBits
  <2>2. (x \div 2^19) % 2 = IF x >= 2^19 THEN 1 ELSE 0
    OBVIOUS
  <2>3. sext64(x, 19) = IF extractBits(x, 19, 19) = 1 THEN (x % 2^20) - 2^20 ELSE x
    BY DEF sext64
  <2>4. x % 2^20 = x
    OBVIOUS
  <2>. QED
    BY <2>1, <2>2, <2>3, <2>4
<1>4. /\ bit \in 0 .. 1 /\ low \in 0 .. 255
      /\ bit = 1 <=> low >= 128
      /\ x \in Nat /\ \E q \in Nat : x = 256 * q + low
      /\ 2^19 = 256 * 2048 /\ 2^20 = 2 * 2^19
  <2>. DEFINE q == x \div 256
  <2>1. q \in Nat /\ low \in 0 .. 255 /\ x = 256 * q + low
    OBVIOUS
  <2>2. bit = IF low >= 128 THEN 1 ELSE 0
    <3>. HIDE DEF q, low
    <3>1. x \div 128 = IF low >= 128 THEN 2 * q + 1 ELSE 2 * q
      BY <2>1
    <3>. QED
      BY <2>1, <3>1
  <2>. QED
    BY <2>1, <2>2
<1>. HIDE DEF bit, low
<1>5. v = u <=> ~(u \notin -128 .. -1 /\ (u < 0 \/ bit = 1))
  BY <1>4
<1>. HIDE DEF u, v
<1>6. sext64(x, 7) = sext64(x, 19) <=>
        ~(sext64(x, 19) \notin -128 .. -1 /\ (sext64(x, 19) < 0 \/ extractBits(x, 7, 7) = 1))
  BY <1>1, <1>2, <1>3, <1>5
<1>. QED
  BY <1>0, <1>6, Zenon

(* Texts are equal when their parts are. *)
LEMMA TextsEqual ==
  ASSUME NEW m1, NEW r1, NEW i1, NEW m2, NEW r2, NEW i2
  PROVE  /\ Text(m1, r1, i1) = Text(m2, r2, i2) <=> m1 = m2 /\ r1 = r2 /\ i1 = i2
         /\ m1 # ILLEGAL => Shown(m1, r1, i1) = Text(m1, r1, i1)
         /\ m1 = ILLEGAL => Shown(m1, r1, i1) = IllegalText
BY DEF Text, Shown

(* The mnemonic of a legal word of integer arithmetic: that of the case     *)
(* executed, but for addiw with bits in the place of funct7.                *)
LEMMA MnemonicRuns ==
  ASSUME NEW w \in EncodedWord, LegalInt(w)
  PROVE  LET body == IntBody(w.opcode, w.funct3, w.funct7)
             odd  == /\ w.opcode = "INTIMMW" /\ IntFunct(w.funct3) = "add"
                     /\ w.funct7 # FUNCT7_ADD
         IN  /\ ~odd => body = Operation(w) /\ body # "ILLEGAL"
             /\ odd => body \in {"sub", "ILLEGAL"} /\ Operation(w) = "add"
<1>1. IntFunct(w.funct3) \in {"add", "sll", "slt", "sltu", "xor", "sr", "or", "and"}
  BY FunctNames
<1>2. w.funct7 \in 0 .. 127
  BY DEF EncodedWord
<1>3. CASE IntFunct(w.funct3) = "add"
  BY <1>2, <1>3 DEF IntBody, Operation, LegalInt, Immediate, FUNCT7_ADD, FUNCT7_SUB
<1>4. CASE IntFunct(w.funct3) = "sr"
  <2>1. /\ w.opcode \in {"INTW", "INTIMMW"} => w.funct7 \in {0, 32}
        /\ w.opcode \in {"INT", "INTIMM"} => w.funct7 \div 2 \in {0, 16}
        /\ w.opcode \in {"INT", "INTIMM", "INTW", "INTIMMW"}
    BY <1>4 DEF LegalInt, FUNCT7_LOGICAL, FUNCT7_ARITH, UPPERIMM_LOGICAL, UPPERIMM_ARITH
  <2>2. Operation(w) = IF w.funct7 \div 2 = 16 THEN "sra" ELSE "srl"
    BY <1>4 DEF Operation, upperImm12, UPPERIMM_ARITH
  <2>. QED
    BY <1>2, <1>4, <2>1, <2>2 DEF IntBody, FUNCT7_LOGICAL, FUNCT7_ARITH
<1>5. CASE IntFunct(w.funct3) \in {"sll", "slt", "sltu", "xor", "or", "and"}
  BY <1>5 DEF IntBody, Operation, LegalInt
<1>. QED
  BY <1>1, <1>3, <1>4, <1>5

(* The sets of registers that flags make. *)
Registers == (IF inst.writesRd THEN {"rd"} ELSE {}) \cup (IF inst.readsRs1 THEN {"rs1"} ELSE {})
               \cup (IF inst.readsRs2 THEN {"rs2"} ELSE {})

UpperNames == [JALR |-> "jalr", JAL |-> "jal", LUI |-> "lui", AUIPC |-> "auipc"]

Accesses   == {"b", "h", "w", "d", "bu", "hu", "wu"}
Conditions == {"eq", "ne", "lt", "ge", "ltu", "geu"}

LEMMA FunctNamesOf ==
  ASSUME NEW w \in EncodedWord
  PROVE  /\ w.funct3 # 7 => AccessFunct(w.funct3) \in Accesses
         /\ w.funct3 <= 3 => AccessFunct(w.funct3) \in {"b", "h", "w", "d"}
         /\ w.funct3 \notin {2, 3} => BranchFunct(w.funct3) \in Conditions
<1>1. w.funct3 \in {0, 1, 2, 3, 4, 5, 6, 7}
  BY DEF EncodedWord
<1>. QED
  BY <1>1 DEF AccessFunct, BranchFunct, Accesses, Conditions

(* The names of Utilities.h are what getOpString joins, but one. *)
LEMMA Joins ==
  /\ \A f \in Accesses : Joined("l", f, "") = LoadNames[f] /\ LoadNames[f] # ILLEGAL
  /\ \A f \in {"b", "h", "w", "d"} :
       Joined("s", f, "") = StoreNames[f] /\ StoreNames[f] # ILLEGAL
  /\ \A f \in Conditions : Joined("b", f, "") = BranchNames[f] /\ BranchNames[f] # ILLEGAL
<1>1. /\ Joined("l", "b", "") = "lb" /\ Joined("l", "h", "") = "lh"
      /\ Joined("l", "w", "") = "lw" /\ Joined("l", "d", "") = "ld"
      /\ Joined("l", "bu", "") = "lbu" /\ Joined("l", "hu", "") = "lhu"
      /\ Joined("l", "wu", "") = "lwu"
  BY JoinedAssumption DEF JoinedL, Prefixed
<1>2. /\ Joined("s", "b", "") = "sb" /\ Joined("s", "h", "") = "sh"
      /\ Joined("s", "w", "") = "sw" /\ Joined("s", "d", "") = "sd"
  BY JoinedAssumption DEF JoinedS, Prefixed
<1>3. /\ Joined("b", "eq", "") = "beq" /\ Joined("b", "ne", "") = "bne"
      /\ Joined("b", "lt", "") = "blt" /\ Joined("b", "ge", "") = "bge"
      /\ Joined("b", "ltu", "") = "bltu" /\ Joined("b", "geu", "") = "bgeu"
  BY JoinedAssumption DEF JoinedB, Prefixed
<1>4. /\ LoadNames["b"] = "lb" /\ LoadNames["h"] = "lh" /\ LoadNames["w"] = "lw"
      /\ LoadNames["d"] = "ld" /\ LoadNames["bu"] = "lbu" /\ LoadNames["hu"] = "lhu"
      /\ LoadNames["wu"] = "lwu"
  BY DEF LoadNames
<1>5. /\ StoreNames["b"] = "sb" /\ StoreNames["h"] = "sh" /\ StoreNames["w"] = "sw"
      /\ StoreNames["d"] = "sd"
  BY DEF StoreNames
<1>6. /\ BranchNames["eq"] = "beq" /\ BranchNames["ne"] = "bne" /\ BranchNames["lt"] = "blt"
      /\ BranchNames["ge"] = "bge" /\ BranchNames["ltu"] = "bltu" /\ BranchNames["geu"] = "bgeu"
  BY DEF BranchNames
<1>7. ASSUME NEW f \in Accesses PROVE Joined("l", f, "") = LoadNames[f] /\ LoadNames[f] # ILLEGAL
  BY <1>1, <1>4 DEF Accesses, ILLEGAL
<1>8. ASSUME NEW f \in {"b", "h", "w", "d"}
      PROVE  Joined("s", f, "") = StoreNames[f] /\ StoreNames[f] # ILLEGAL
  BY <1>2, <1>5 DEF ILLEGAL
<1>9. ASSUME NEW f \in Conditions
      PROVE  Joined("b", f, "") = BranchNames[f] /\ BranchNames[f] # ILLEGAL
  BY <1>3, <1>6 DEF Conditions, ILLEGAL
<1>. QED
  BY <1>7, <1>8, <1>9

LEMMA IntJoins ==
  /\ \A f \in Operations \cup Comparisons : Joined("", f, "") = f /\ f # ILLEGAL
  /\ \A f \in (Operations \cup Comparisons) \ {"sub", "sltu"} :
       Joined("", f, "i") = ImmediateNames[f] /\ ImmediateNames[f] # ILLEGAL
  /\ \A f \in {"add", "sub", "sll", "srl", "sra"} :
       Joined("", f, "w") = NarrowNames[f] /\ NarrowNames[f] # ILLEGAL
  /\ \A f \in {"add", "sll", "srl", "sra"} :
       /\ Joined("", f, "iw") = NarrowImmediateNames[f] /\ NarrowImmediateNames[f] # ILLEGAL
       /\ Joined("", "sub", "iw") # NarrowImmediateNames[f]
  /\ Joined("", "sltu", "i") # ImmediateNames["sltu"] /\ Joined("", "sltu", "i") # ILLEGAL
  /\ ImmediateNames["sltu"] # ILLEGAL
<1>1. /\ Joined("", "add", "") = "add" /\ Joined("", "sub", "") = "sub"
      /\ Joined("", "sll", "") = "sll" /\ Joined("", "slt", "") = "slt"
      /\ Joined("", "sltu", "") = "sltu" /\ Joined("", "xor", "") = "xor"
      /\ Joined("", "srl", "") = "srl" /\ Joined("", "sra", "") = "sra"
      /\ Joined("", "or", "") = "or" /\ Joined("", "and", "") = "and"
  BY JoinedAssumption DEF JoinedPlain
<1>2. /\ Joined("", "add", "i") = "addi" /\ Joined("", "sll", "i") = "slli"
      /\ Joined("", "slt", "i") = "slti" /\ Joined("", "sltu", "i") = "sltui"
      /\ Joined("", "xor", "i") = "xori" /\ Joined("", "srl", "i") = "srli"
      /\ Joined("", "sra", "i") = "srai" /\ Joined("", "or", "i") = "ori"
      /\ Joined("", "and", "i") = "andi"
  BY JoinedAssumption DEF JoinedI, Suffixed
<1>3. /\ Joined("", "add", "w") = "addw" /\ Joined("", "sub", "w") = "subw"
      /\ Joined("", "sll", "w") = "sllw" /\ Joined("", "srl", "w") = "srlw"
      /\ Joined("", "sra", "w") = "sraw"
  BY JoinedAssumption DEF JoinedW, Suffixed
<1>4. /\ Joined("", "add", "iw") = "addiw" /\ Joined("", "sub", "iw") = "subiw"
      /\ Joined("", "sll", "iw") = "slliw" /\ Joined("", "srl", "iw") = "srliw"
      /\ Joined("", "sra", "iw") = "sraiw"
  BY JoinedAssumption DEF JoinedIW, Suffixed
<1>5. /\ ImmediateNames["add"] = "addi" /\ ImmediateNames["sll"] = "slli"
      /\ ImmediateNames["slt"] = "slti" /\ ImmediateNames["sltu"] = "sltiu"
      /\ ImmediateNames["xor"] = "xori" /\ ImmediateNames["srl"] = "srli"
      /\ ImmediateNames["sra"] = "srai" /\ ImmediateNames["or"] = "ori"
      /\ ImmediateNames["and"] = "andi"
  BY DEF ImmediateNames
<1>6. /\ NarrowNames["add"] = "addw" /\ NarrowNames["sub"] = "subw"
      /\ NarrowNames["sll"] = "sllw" /\ NarrowNames["srl"] = "srlw"
      /\ NarrowNames["sra"] = "sraw"
  BY DEF NarrowNames
<1>7. /\ NarrowImmediateNames["add"] = "addiw" /\ NarrowImmediateNames["sll"] = "slliw"
      /\ NarrowImmediateNames["srl"] = "srliw" /\ NarrowImmediateNames["sra"] = "sraiw"
  BY DEF NarrowImmediateNames
<1>8. \A f \in Operations \cup Comparisons : Joined("", f, "") = f /\ f # ILLEGAL
  BY <1>1 DEF Operations, Comparisons, ILLEGAL
<1>9. \A f \in (Operations \cup Comparisons) \ {"sub", "sltu"} :
        Joined("", f, "i") = ImmediateNames[f] /\ ImmediateNames[f] # ILLEGAL
  <2>1. ASSUME NEW f \in {"add", "sll", "slt", "xor", "srl", "sra", "or", "and"}
        PROVE  Joined("", f, "i") = ImmediateNames[f] /\ ImmediateNames[f] # ILLEGAL
    BY <1>2, <1>5 DEF ILLEGAL
  <2>2. \A f \in (Operations \cup Comparisons) \ {"sub", "sltu"} :
          f \in {"add", "sll", "slt", "xor", "srl", "sra", "or", "and"}
    BY DEF Operations, Comparisons
  <2>. QED
    BY <2>1, <2>2, Zenon
<1>10. \A f \in {"add", "sub", "sll", "srl", "sra"} :
        Joined("", f, "w") = NarrowNames[f] /\ NarrowNames[f] # ILLEGAL
  BY <1>3, <1>6 DEF ILLEGAL
<1>11. \A f \in {"add", "sll", "srl", "sra"} :
         /\ Joined("", f, "iw") = NarrowImmediateNames[f] /\ NarrowImmediateNames[f] # ILLEGAL
         /\ Joined("", "sub", "iw") # NarrowImmediateNames[f]
  BY <1>4, <1>7 DEF ILLEGAL
<1>. QED
  BY <1>2, <1>5, <1>8, <1>9, <1>10, <1>11 DEF ILLEGAL

(* Each word has its handle function, and its immediate.                    *)
LEMMA HandledBy ==
  ASSUME NEW w \in EncodedWord, w \notin {HALT, NOP}
  PROVE  /\ w.opcode \in {"INT", "INTW", "INTIMM", "INTIMMW", "JALR"} =>
              printInstr(w) = handleIAndR(w)
         /\ w.opcode \in {"LOAD", "STORE"} => printInstr(w) = handleLAndS(w)
         /\ w.opcode = "BRANCH" => printInstr(w) = handleBranch(w)
         /\ w.opcode \in {"JAL", "LUI", "AUIPC"} => printInstr(w) = handleSpecial(w)
<1>. HIDE DEF handleIAndR, handleLAndS, handleBranch, handleSpecial
<1>. QED
  BY DEF printInstr

LEMMA ImmediateOf ==
  ASSUME NEW w \in EncodedWord
  PROVE  /\ w.opcode = "STORE" => ImmediateUsed(w) = {storeImm(w)}
         /\ w.opcode = "BRANCH" => ImmediateUsed(w) = {branchOffset(w)}
         /\ w.opcode = "JAL" => ImmediateUsed(w) = {jalOffset(w)}
         /\ w.opcode \in {"LUI", "AUIPC"} => ImmediateUsed(w) = {upperImm(w)}
         /\ w.opcode \in {"LOAD", "JALR"} => ImmediateUsed(w) = {sextImm12(w)}
         /\ w.opcode \in {"INT", "INTW"} => ImmediateUsed(w) = NoImm
         /\ w.opcode \in {"INTIMM", "INTIMMW"} =>
              ImmediateUsed(w) = {IF IsShift(w) THEN shiftAmount(w) ELSE sextImm12(w)}
BY DEF ImmediateUsed, Immediate

(* What the disassembler calls words without function codes. *)
LEMMA UpperMnemonic ==
  ASSUME NEW opcode \in {"JALR", "JAL", "LUI", "AUIPC"}, NEW funct3, NEW funct7
  PROVE  getOpString(opcode, funct3, funct7) = UpperNames[opcode] /\ UpperNames[opcode] # ILLEGAL
<1>1. /\ UpperNames["JALR"] = "jalr" /\ UpperNames["JAL"] = "jal"
      /\ UpperNames["LUI"] = "lui" /\ UpperNames["AUIPC"] = "auipc"
  BY DEF UpperNames
<1>2. /\ opcode = "JALR" => getOpString(opcode, funct3, funct7) = "jalr"
      /\ opcode = "JAL" => getOpString(opcode, funct3, funct7) = "jal"
      /\ opcode = "LUI" => getOpString(opcode, funct3, funct7) = "lui"
      /\ opcode = "AUIPC" => getOpString(opcode, funct3, funct7) = "auipc"
  BY DEF getOpString
<1>. QED
  BY <1>1, <1>2 DEF ILLEGAL

(* The name of an instruction of integer arithmetic is joined of its        *)
(* operation and its opcode's suffix, but that of sltiu.                    *)
LEMMA NamedInt ==
  ASSUME DInv, word \notin {HALT, NOP}, LegalInt(word)
  PROVE  LET joined == Joined("", Operation(word), Suffix(word.opcode))
             swapped == word.opcode = "INTIMM" /\ IntFunct(word.funct3) = "sltu"
         IN  /\ joined # ILLEGAL /\ Named # ILLEGAL
             /\ swapped => Named # joined
             /\ ~swapped => Named = joined
             /\ word.opcode = "INTIMMW" => Named # Joined("", "sub", "iw")
<1>. DEFINE f == Operation(word)
<1>1. word \in EncodedWord /\ ~inst.readsMem /\ ~inst.writesMem
  BY DEF DInv, simDecode, LegalInt
<1>2. f \in Operations \cup Comparisons
  BY <1>1, OperationKnown
<1>3. CASE word.opcode = "INT"
  <2>1. Named = f /\ Suffix(word.opcode) = ""
    BY <1>1, <1>3 DEF Named, Suffix
  <2>. HIDE DEF f
  <2>. QED
    BY <1>2, <1>3, <2>1, IntJoins DEF f
<1>4. CASE word.opcode = "INTIMM"
  <2>1. Named = ImmediateNames[f]
    BY <1>1, <1>4 DEF Named
  <2>2. Suffix(word.opcode) = "i"
    BY <1>4 DEF Suffix
  <2>3. f # "sub" /\ (f = "sltu" <=> IntFunct(word.funct3) = "sltu")
    <3>1. IntFunct(word.funct3) \in {"add", "sll", "slt", "sltu", "xor", "sr", "or", "and"}
      BY <1>1, FunctNames
    <3>. QED
      BY <1>4, <3>1 DEF Operation, Immediate
  <2>. HIDE DEF f
  <2>4. CASE f = "sltu"
    <3>1. Named # Joined("", f, "i") /\ Joined("", f, "i") # ILLEGAL /\ Named # ILLEGAL
      BY <2>1, <2>4, IntJoins
    <3>. QED
      BY <1>4, <2>2, <2>3, <2>4, <3>1 DEF f
  <2>5. CASE f # "sltu"
    <3>1. Named = Joined("", f, "i") /\ Joined("", f, "i") # ILLEGAL
      BY <1>2, <2>1, <2>3, <2>5, IntJoins
    <3>. QED
      BY <1>4, <2>2, <2>3, <2>5, <3>1 DEF f
  <2>. QED
    BY <2>4, <2>5
<1>5. CASE word.opcode = "INTW"
  <2>1. Named = NarrowNames[f]
    BY <1>1, <1>5 DEF Named
  <2>2. Suffix(word.opcode) = "w"
    BY <1>5 DEF Suffix
  <2>3. f \in {"add", "sub", "sll", "srl", "sra"}
    BY <1>5 DEF Operation, LegalInt
  <2>. HIDE DEF f
  <2>4. Named = Joined("", f, "w") /\ Joined("", f, "w") # ILLEGAL
    BY <2>1, <2>3, IntJoins
  <2>. QED
    BY <1>5, <2>2, <2>4 DEF f
<1>6. CASE word.opcode = "INTIMMW"
  <2>1. Named = NarrowImmediateNames[f]
    BY <1>1, <1>6 DEF Named
  <2>2. Suffix(word.opcode) = "iw"
    BY <1>6 DEF Suffix
  <2>3. f \in {"add", "sll", "srl", "sra"}
    BY <1>6 DEF Operation, LegalInt, Immediate
  <2>. HIDE DEF f
  <2>4. Named = Joined("", f, "iw") /\ Joined("", f, "iw") # ILLEGAL
    BY <2>1, <2>3, IntJoins
  <2>5. Named # Joined("", "sub", "iw")
    BY <2>1, <2>3, IntJoins
  <2>. QED
    BY <1>6, <2>2, <2>4, <2>5 DEF f
<1>. QED
  BY <1>3, <1>4, <1>5, <1>6 DEF LegalInt

(* The text of a legal word is the one of its execution exactly if it is    *)
(* none of the misprinted words (Utilities.cpp:75, 209-342).                *)
LEMMA ShowsLegal ==
  ASSUME DInv, stage = "WB", word \notin {HALT, NOP}, Legal(word)
  PROVE  printInstr(word) = Text(Named, Registers, ImmediateUsed(word)) <=> ~Misprinted
<1>. DEFINE opcode == word.opcode
<1>1. /\ word \in EncodedWord /\ opcode \in Opcodes \ {"OTHER"}
      /\ LegalInt(word) <=> opcode \in {"INT", "INTW", "INTIMM", "INTIMMW"}
      /\ opcode = "LOAD" => word.funct3 # 7
      /\ opcode = "STORE" => word.funct3 <= 3
      /\ opcode = "BRANCH" => word.funct3 \notin {2, 3}
  BY DEF DInv, EncodedWord, Legal, LegalInt, Opcodes
<1>2. /\ inst.readsMem <=> opcode = "LOAD"
      /\ inst.writesMem <=> opcode = "STORE"
      /\ inst.writesRd <=> opcode \in Opcodes \ {"STORE", "BRANCH", "OTHER"}
      /\ inst.readsRs1 <=> opcode \in Opcodes \ {"AUIPC", "LUI", "JAL", "OTHER"}
      /\ inst.readsRs2 <=> opcode \in TwoRegisters
  BY DEF DInv, simDecode
<1>3. /\ opcode \in {"INT", "INTW"} => Registers = {"rd", "rs1", "rs2"}
      /\ opcode \in {"INTIMM", "INTIMMW", "LOAD", "JALR"} => Registers = {"rd", "rs1"}
      /\ opcode \in {"STORE", "BRANCH"} => Registers = {"rs1", "rs2"}
      /\ opcode \in {"JAL", "LUI", "AUIPC"} => Registers = {"rd"}
  BY <1>2 DEF Registers, TwoRegisters, Opcodes
<1>4. opcode \in {"JALR", "JAL", "LUI", "AUIPC"} =>
         Named = UpperNames[opcode] /\ opcode \in {"JALR", "JAL", "LUI", "AUIPC"}
  BY <1>2 DEF Named, UpperNames
<1>5. CASE opcode \in {"LOAD", "STORE"}
  <2>1. getOpString(opcode, word.funct3, 0) = Named /\ Named # ILLEGAL
    <3>. DEFINE f == AccessFunct(word.funct3)
    <3>1. /\ opcode = "LOAD" => f \in Accesses
          /\ opcode = "STORE" => f \in {"b", "h", "w", "d"}
      BY <1>1, FunctNamesOf
    <3>2. getOpString(opcode, word.funct3, 0) =
            IF opcode = "LOAD" THEN Joined("l", f, "") ELSE Joined("s", f, "")
      BY <1>1, <1>5 DEF getOpString
    <3>3. Named = IF opcode = "LOAD" THEN LoadNames[f] ELSE StoreNames[f]
      BY <1>2, <1>5 DEF Named
    <3>. HIDE DEF f
    <3>. QED
      BY <1>5, <3>1, <3>2, <3>3, Joins
  <2>2. printInstr(word) = Text(Named, Registers, ImmediateUsed(word))
    <3>1. printInstr(word) = handleLAndS(word)
      BY <1>1, <1>5, HandledBy
    <3>2. handleLAndS(word) = Text(Named, Registers, {IF opcode = "LOAD" THEN sextImm12(word)
                                                         ELSE storeImm(word)})
      BY <1>3, <1>5, <2>1, Zenon DEF handleLAndS, Shown, sextImm12, storeImm
    <3>. QED
      BY <1>1, <1>5, <3>1, <3>2, ImmediateOf
  <2>3. ~Misprinted
    BY <1>5 DEF Misprinted
  <2>. QED
    BY <2>2, <2>3
<1>6. CASE opcode = "BRANCH"
  <2>1. getOpString("BRANCH", word.funct3, 0) = Named /\ Named # ILLEGAL
    <3>. DEFINE f == BranchFunct(word.funct3)
    <3>1. f \in Conditions /\ getOpString("BRANCH", word.funct3, 0) = Joined("b", f, "")
      BY <1>1, <1>6, FunctNamesOf DEF getOpString
    <3>2. Named = BranchNames[f]
      BY <1>2, <1>6 DEF Named
    <3>. HIDE DEF f
    <3>. QED
      BY <3>1, <3>2, Joins
  <2>2. printInstr(word) = Text(Named, Registers, ImmediateUsed(word))
    <3>1. printInstr(word) = handleBranch(word) /\ ImmediateUsed(word) = {branchOffset(word)}
      BY <1>1, <1>6, HandledBy, ImmediateOf
    <3>. QED
      BY <1>3, <1>6, <2>1, <3>1, Zenon DEF handleBranch, Shown, branchOffset
  <2>3. ~Misprinted
    BY <1>6 DEF Misprinted
  <2>. QED
    BY <2>2, <2>3
<1>7. CASE opcode = "JAL"
  <2>1. getOpString(opcode, 0, 0) = Named /\ Named # ILLEGAL
    BY <1>7, <1>4, UpperMnemonic
  <2>2. printInstr(word) = Text(Named, Registers, ImmediateUsed(word))
    <3>1. printInstr(word) = handleSpecial(word) /\ ImmediateUsed(word) = {jalOffset(word)}
      BY <1>1, <1>7, HandledBy, ImmediateOf
    <3>. QED
      BY <1>3, <1>7, <2>1, <3>1, Zenon DEF handleSpecial, Shown, jalOffset
  <2>3. ~Misprinted
    BY <1>7 DEF Misprinted
  <2>. QED
    BY <2>2, <2>3
<1>8. CASE opcode \in {"LUI", "AUIPC"}
  <2>. DEFINE x == imm20(word)
  <2>1. getOpString(opcode, 0, 0) = Named /\ Named # ILLEGAL
    BY <1>8, <1>4, UpperMnemonic
  <2>2. printInstr(word) = Text(Named, Registers, {sext64(x, 19 - 12)})
    <3>1. printInstr(word) = handleSpecial(word)
      BY <1>1, <1>8, HandledBy
    <3>. QED
      BY <1>3, <1>8, <2>1, <3>1, Zenon DEF handleSpecial, Shown
  <2>3. ImmediateUsed(word) = {sext64(x, 31 - 12)}
    BY <1>1, <1>8, ImmediateOf DEF upperImm
  <2>4. Misprinted <=> /\ sext64(x, 31 - 12) \notin -128 .. -1
                       /\ sext64(x, 31 - 12) < 0 \/ extractBits(x, 19 - 12, 19 - 12) = 1
    <3>1. opcode # "INTIMMW" /\ opcode # "INTIMM" /\ opcode # "JALR"
      BY <1>8
    <3>. QED
      BY <1>8, <3>1, Zenon DEF Misprinted, upperImm
  <2>5. x \in 0 .. 2^20 - 1
    <3>1. imm12(word) \in 0 .. 2^12 - 1 /\ word.rs1 \in 0 .. 31 /\ word.funct3 \in 0 .. 7
      BY <1>1, SixBitsOrFive DEF EncodedWord
    <3>2. x = imm12(word) * 256 + word.rs1 * 8 + word.funct3
      BY DEF imm20
    <3>3. 2^12 * 256 = 2^20
      OBVIOUS
    <3>. QED
      BY <3>1, <3>2, <3>3
  <2>. HIDE DEF x
  <2>6. sext64(x, 19 - 12) = sext64(x, 31 - 12) <=> ~Misprinted
    BY <2>4, <2>5, UpperSigns
  <2>. QED
    BY <2>2, <2>3, <2>6, TextsEqual
<1>9. CASE opcode = "JALR"
  <2>. DEFINE x == imm12(word)
  <2>1. getOpString(opcode, word.funct3, word.funct7) = Named /\ Named # ILLEGAL
    BY <1>9, <1>4, UpperMnemonic
  <2>2. printInstr(word) = Text(Named, Registers,
                                {IF IsShift(word) THEN x % 64 ELSE sext64(x, 11)})
    <3>1. printInstr(word) = handleIAndR(word)
      BY <1>1, <1>9, HandledBy
    <3>. QED
      BY <1>3, <1>9, <2>1, <3>1, Zenon DEF handleIAndR, Shown
  <2>3. ImmediateUsed(word) = {sext64(x, 11)}
    BY <1>1, <1>9, ImmediateOf DEF sextImm12
  <2>4. Misprinted <=> IsShift(word) /\ sext64(x, 11) \notin 0 .. 63
    BY <1>9, Zenon DEF Misprinted, sextImm12
  <2>5. x \in 0 .. 2^12 - 1
    BY <1>1, SixBitsOrFive
  <2>6. x % 64 = sext64(x, 11) <=> sext64(x, 11) \in 0 .. 63
    BY <2>5, CutTo6
  <2>. HIDE DEF x
  <2>. QED
    BY <2>2, <2>3, <2>4, <2>6, TextsEqual
<1>10. CASE opcode \in {"INT", "INTW", "INTIMM", "INTIMMW"}
  <2>. DEFINE body == IntBody(opcode, word.funct3, word.funct7)
              swapped == opcode = "INTIMM" /\ IntFunct(word.funct3) = "sltu"
              joined == Joined("", Operation(word), Suffix(opcode))
              odd  == opcode = "INTIMMW" /\ IntFunct(word.funct3) = "add" /\ word.funct7 # FUNCT7_ADD
              text == getOpString(opcode, word.funct3, word.funct7)
              imm  == IF opcode \in {"INT", "INTW"} THEN NoImm
                      ELSE {IF IsShift(word) THEN imm12(word) % 64 ELSE sext64(imm12(word), 11)}
  <2>1. LegalInt(word)
    BY <1>1, <1>10
  <2>2. (~odd => body = Operation(word) /\ body # "ILLEGAL") /\ (odd => body \in {"sub", "ILLEGAL"})
    BY <1>1, <2>1, MnemonicRuns
  <2>. HIDE DEF body
  <2>3. /\ joined # ILLEGAL /\ Named # ILLEGAL
        /\ swapped => Named # joined
        /\ ~swapped => Named = joined
        /\ opcode = "INTIMMW" => Named # Joined("", "sub", "iw")
    BY <2>1, NamedInt
  <2>4. text = IF body = "ILLEGAL" THEN ILLEGAL ELSE Joined("", body, Suffix(opcode))
    BY <1>10 DEF getOpString, body
  <2>5. printInstr(word) = Shown(text, Registers, imm)
    <3>1. printInstr(word) = handleIAndR(word)
      BY <1>1, <1>10, HandledBy
    <3>. QED
      BY <1>3, <1>10, <3>1 DEF handleIAndR
  <2>6. ImmediateUsed(word) =
          IF opcode \in {"INT", "INTW"} THEN NoImm
          ELSE {IF IsShift(word) THEN shiftAmount(word) ELSE sext64(imm12(word), 11)}
    BY <1>1, <1>10, ImmediateOf DEF sextImm12
  <2>7. shiftAmount(word) = imm12(word) % (IF opcode \in {"INTW", "INTIMMW"} THEN 32 ELSE 64)
    BY DEF shiftAmount, Narrow
  <2>8. Misprinted <=> swapped \/ odd \/ (/\ opcode = "INTIMMW" /\ IntFunct(word.funct3) = "sll"
                                          /\ extractBits(word.funct7, 0, 0) = 1)
    <3>1. opcode # "JALR" /\ opcode \notin {"LUI", "AUIPC"}
      BY <1>10
    <3>. QED
      BY <3>1, Zenon DEF Misprinted
  <2>9. imm12(word) % 64 = imm12(word) % 32 <=> extractBits(word.funct7, 0, 0) # 1
    BY <1>1, SixBitsOrFive
  <2>10. IntFunct(word.funct3) = "sr" /\ opcode = "INTIMMW" => extractBits(word.funct7, 0, 0) # 1
    <3>1. SUFFICES ASSUME IntFunct(word.funct3) = "sr", opcode = "INTIMMW"
                   PROVE  extractBits(word.funct7, 0, 0) # 1
      OBVIOUS
    <3>2. word.funct7 \in {0, 32}
      BY <2>1, <3>1 DEF LegalInt, FUNCT7_ARITH, FUNCT7_LOGICAL
    <3>. QED
      BY <3>2 DEF extractBits
  <2>11. imm = ImmediateUsed(word) <=>
           ~(/\ opcode = "INTIMMW" /\ IntFunct(word.funct3) = "sll"
             /\ extractBits(word.funct7, 0, 0) = 1)
    BY <1>10, <2>6, <2>7, <2>9, <2>10 DEF IsShift
  <2>12. ~(odd /\ swapped) /\ (odd => opcode = "INTIMMW" /\ Suffix(opcode) = "iw")
    BY DEF Suffix
  <2>. HIDE DEF text, imm, odd, swapped, joined
  <2>13. CASE ~odd /\ ~swapped
    <3>1. text = Named /\ text # ILLEGAL
      BY <2>2, <2>3, <2>4, <2>13 DEF joined
    <3>. QED
      BY <2>5, <2>8, <2>11, <2>13, <3>1, TextsEqual
  <2>14. CASE odd \/ swapped
    <3>1. text # Named
      BY <2>2, <2>3, <2>4, <2>12, <2>14 DEF joined
    <3>2. printInstr(word) # Text(Named, Registers, ImmediateUsed(word))
      <4>1. CASE text = ILLEGAL
        <5>1. printInstr(word) = Text(ILLEGAL, {}, NoImm)
          BY <2>5, <4>1, TextsEqual DEF IllegalText
        <5>2. Text(ILLEGAL, {}, NoImm).mnemonic # Text(Named, Registers, ImmediateUsed(word)).mnemonic
          BY <2>3 DEF Text
        <5>. QED
          BY <5>1, <5>2
      <4>2. CASE text # ILLEGAL
        BY <2>5, <3>1, <4>2, TextsEqual
      <4>. QED
        BY <4>1, <4>2
    <3>. QED
      BY <2>8, <2>14, <3>2
  <2>. QED
    BY <2>13, <2>14
<1>. QED
  BY <1>1, <1>5, <1>6, <1>7, <1>8, <1>9, <1>10 DEF Opcodes

(* Of every legal word, halt and nop included, the dump tells what is       *)
(* executed, but of the misprinted ones (printInstr, dumpPipeState).        *)
THEOREM DatapathShowsWhatRuns == Spec => []ShowsWhatRuns
<1>1. DInv => ShowsWhatRuns
  <2>. SUFFICES ASSUME DInv, stage = "WB", inst.isLegal
                PROVE  shown = Executed <=> ~Misprinted
    BY Zenon DEF ShowsWhatRuns
  <2>1. shown = printInstr(word) /\ (word \notin {HALT, NOP} => Legal(word))
    BY DEF DInv, simDecode
  <2>2. CASE word \notin {HALT, NOP}
    <3>1. Executed = Text(Named, Registers, ImmediateUsed(word))
      BY <2>2, Zenon DEF Executed, Registers
    <3>. QED
      BY <2>1, <2>2, <3>1, ShowsLegal
  <2>3. CASE word \in {HALT, NOP}
    <3>1. HALT # NOP
      BY DEF HALT, NOP, Fields
    <3>2. /\ word.opcode \in {"OTHER", "INTIMM"}
      BY <2>3 DEF HALT, NOP, Fields
    <3>3. ~Misprinted
      BY <2>3, <3>2 DEF Misprinted, HALT, NOP, Fields, IntFunct
    <3>4. Registers = {}
      BY <2>3 DEF Registers, DInv, simDecode
    <3>5. CASE word = HALT
      BY <2>1, <3>3, <3>4, <3>5 DEF Executed, Named, printInstr, Registers
    <3>6. CASE word = NOP
      BY <2>1, <3>1, <3>3, <3>4, <3>6 DEF Executed, Named, printInstr, Registers
    <3>. QED
      BY <2>3, <3>5, <3>6
  <2>. QED
    BY <2>2, <2>3
<1>. QED
  BY <1>1, DInvInductive, PTL
------------------------------------------------------------------------------
(* Each bit of a result is where the operation moves it. *)

(* A right result is one that BitsMoved takes. *)
LEMMA RightMoves ==
  ASSUME ResultsRight(word, op1Val, Second, arithResult), word \in EncodedWord
  PROVE  BitsMoved
<1>1. Width = IF Narrow(word) THEN WLEN ELSE XLEN
  BY DEF Width
<1>2. /\ \A i \in Width .. XLEN - 1 : Bit(arithResult, i) = Bit(arithResult, Width - 1)
      /\ Operation(word) \in Moving =>
           \A i \in 0 .. Width - 1 :
             Bit(arithResult, i) = BitMade(Operation(word), op1Val, Second, Shift, Width, i)
      /\ Operation(word) = "add" => (op1Val + Second - arithResult) % 2^Width = 0
      /\ Operation(word) = "sub" => (op1Val - Second - arithResult) % 2^Width = 0
  BY <1>1 DEF ResultsRight, Shift
<1>. HIDE DEF Width, Second, Shift
<1>3. \A operations : Executes(operations) => Operation(word) \in operations
  BY DEF Executes
<1>4. ASSUME NEW i \in 0 .. Width - 1
      PROVE
       /\ Executes({"sll"}) => Bit(arithResult, i) = IF i < Shift THEN 0 ELSE Bit(op1Val, i - Shift)
       /\ Executes({"srl"}) =>
            Bit(arithResult, i) = IF i + Shift < Width THEN Bit(op1Val, i + Shift) ELSE 0
       /\ Executes({"sra"}) =>
            Bit(arithResult, i) = Bit(op1Val, IF i + Shift < Width THEN i + Shift ELSE Width - 1)
       /\ Executes({"xor"}) => Bit(arithResult, i) = (Bit(op1Val, i) + Bit(Second, i)) % 2
       /\ Executes({"or"})  => Bit(arithResult, i) = 1 - (1 - Bit(op1Val, i)) * (1 - Bit(Second, i))
       /\ Executes({"and"}) => Bit(arithResult, i) = Bit(op1Val, i) * Bit(Second, i)
  <2>1. Operation(word) \in Moving =>
          Bit(arithResult, i) = BitMade(Operation(word), op1Val, Second, Shift, Width, i)
    BY <1>2
  <2>2. \A operation \in Moving :
          Executes({operation}) => /\ Operation(word) = operation
                                   /\ Bit(arithResult, i) =
                                        BitMade(operation, op1Val, Second, Shift, Width, i)
    BY <1>3, <2>1
  <2>3. Moving = {"sll", "srl", "sra", "xor", "or", "and"}
    BY DEF Moving
  <2>. HIDE DEF Moving
  <2>4. Executes({"sll"}) => Bit(arithResult, i) = IF i < Shift THEN 0 ELSE Bit(op1Val, i - Shift)
    BY <2>2, <2>3 DEF BitMade
  <2>5. Executes({"srl"}) =>
          Bit(arithResult, i) = IF i + Shift < Width THEN Bit(op1Val, i + Shift) ELSE 0
    BY <2>2, <2>3 DEF BitMade
  <2>6. Executes({"sra"}) =>
          Bit(arithResult, i) = Bit(op1Val, IF i + Shift < Width THEN i + Shift ELSE Width - 1)
    BY <2>2, <2>3 DEF BitMade
  <2>7. /\ Executes({"xor"}) => Bit(arithResult, i) = (Bit(op1Val, i) + Bit(Second, i)) % 2
        /\ Executes({"or"})  => Bit(arithResult, i) = 1 - (1 - Bit(op1Val, i)) * (1 - Bit(Second, i))
        /\ Executes({"and"}) => Bit(arithResult, i) = Bit(op1Val, i) * Bit(Second, i)
    BY <2>2, <2>3 DEF BitMade
  <2>. QED
    BY <2>4, <2>5, <2>6, <2>7
<1>5. /\ Executes({"add"}) => Operation(word) = "add"
      /\ Executes({"sub"}) => Operation(word) = "sub"
  BY <1>3
<1>. QED
  BY <1>2, <1>4, <1>5, Zenon DEF BitsMoved

(* Behind EX the result is that of the operands. *)
AInv ==
  stage \in {"EX", "WB"} /\ LegalInt(word) /\ word # NOP =>
    arithResult = simArithLogic(word, op1Val, SecondOperand(word, op2Val))

LEMMA AInvInductive == Spec => []AInv
<1>1. Init => AInv
  BY DEF Init, AInv
<1>2. DInv /\ AInv /\ [Next]_vars => AInv'
  <2>. SUFFICES ASSUME DInv, AInv, [Next]_vars PROVE AInv'
    OBVIOUS
  <2>1. CASE ID
    <3>1. stage' = "ID"
      BY <2>1 DEF ID
    <3>. QED
      BY <3>1 DEF AInv
  <2>2. CASE EX
    <3>. SUFFICES ASSUME LegalInt(word), word # NOP
                  PROVE  arithResult' = simArithLogic(word, op1Val, SecondOperand(word, op2Val))
      BY <2>2 DEF EX, AInv
    <3>1. word.opcode \in {"INT", "INTW", "INTIMM", "INTIMMW"} /\ Legal(word)
      BY DEF LegalInt, Legal
    <3>2. word # HALT
      BY <3>1 DEF HALT, Fields
    <3>3. inst = simDecode(word)
      BY <2>2 DEF DInv, EX
    <3>4. inst.doesArithLogic
      BY <3>1, <3>2, <3>3 DEF simDecode
    <3>5. Immediate(word) \/ word.opcode \in {"INT", "INTW"}
      BY <3>1 DEF Immediate
    <3>. QED
      BY <2>2, <3>4, <3>5 DEF EX
  <2>3. CASE Dump
    BY <2>3 DEF Dump, AInv
  <2>4. CASE Retired \/ UNCHANGED vars
    BY <2>4 DEF Retired, vars, AInv
  <2>. QED
    BY <2>1, <2>2, <2>3, <2>4 DEF Next
<1>. QED
  BY <1>1, <1>2, DInvInductive, PTL DEF Spec

(* Whatever the width of registers and words, the operands and the count of *)
(* a shift: through all the casts of simArithLogic (simulator.cpp:262-368)  *)
(* each bit of a shift's result comes from its place, each bit of a logical *)
(* operation from the two bits at its place, a sum or a difference is right *)
(* modulo the width, and the sign of a word fills the register above it.    *)
THEOREM DatapathBitsMoved == Spec => []BitsMoved
<1>1. DInv /\ AInv => BitsMoved
  <2>. SUFFICES ASSUME DInv, AInv PROVE BitsMoved
    OBVIOUS
  <2>1. word \in EncodedWord /\ op1Val \in Register /\ op2Val \in Register
    BY DEF DInv
  <2>2. CASE stage \in {"EX", "WB"} /\ LegalInt(word) /\ word # NOP
    <3>1. arithResult = simArithLogic(word, op1Val, Second)
      BY <2>2 DEF AInv, Second
    <3>2. Second \in Register
      BY <2>1, SecondRange DEF Second
    <3>3. ResultsRight(word, op1Val, Second, arithResult)
      BY <2>1, <2>2, <3>1, <3>2, WideResult, NarrowResult
    <3>. QED
      BY <2>1, <3>3, RightMoves
  <2>3. CASE ~(stage \in {"EX", "WB"} /\ LegalInt(word) /\ word # NOP)
    <3>1. \A operations : ~Executes(operations)
      BY <2>3 DEF Executes
    <3>. QED
      BY <3>1, Zenon DEF BitsMoved
  <2>. QED
    BY <2>2, <2>3
<1>. QED
  BY <1>1, DInvInductive, AInvInductive, PTL
------------------------------------------------------------------------------
(* Bits order numbers. *)

(* A number is twice what is left above a bit, and the bit. *)
LEMMA Halved ==
  ASSUME NEW v \in Int, NEW i \in 0 .. XLEN - 1
  PROVE  /\ v \div 2^i \in Int /\ v \div 2^(i + 1) \in Int /\ Bit(v, i) \in 0 .. 1
         /\ v \div 2^i = 2 * (v \div 2^(i + 1)) + Bit(v, i)
<1>1. i \in Nat /\ i + 1 \in Nat /\ i <= XLEN /\ i + 1 <= XLEN /\ 1 + i = i + 1 /\ 1 + i <= XLEN
  BY TwoPowers
<1>. DEFINE d == 2^i
            q == v \div d
            m == 2^(i + 1)
<1>2. d \in Nat \ {0} /\ m \in Nat \ {0} /\ 2^(1 + i) = 2^1 * d /\ 2^1 = 2
  BY <1>1, TwoPowers
<1>3. m = 2 * d
  BY <1>1, <1>2
<1>4. q \in Int /\ v \div m \in Int
  BY <1>2, Divided
<1>5. Bit(v, i) = q % 2 /\ Bit(v, i) \in 0 .. 1
  BY <1>1, BitIs
<1>. HIDE DEF d, m
<1>6. v \div m = q \div 2
  <2>1. 2 \in Nat \ {0}
    OBVIOUS
  <2>2. \A x : x = 2 * d => v \div x = (v \div d) \div 2
    BY <1>2, <2>1, CutAgain, ZenonT(30)
  <2>. QED
    BY <1>3, <2>2
<1>7. q = ((q \div 2) * 2) + (q % 2) /\ q \div 2 \in Int
  <2>1. 2 \in Nat \ {0}
    OBVIOUS
  <2>. HIDE DEF q
  <2>. QED
    BY <1>4, <2>1, Divided
<1>8. q = 2 * (v \div m) + Bit(v, i)
  <2>. DEFINE h == q \div 2
              e == q % 2
  <2>1. h \in Int /\ e \in Int /\ q = (h * 2) + e /\ v \div m = h /\ Bit(v, i) = e
    BY <1>5, <1>6, <1>7
  <2>. HIDE DEF q, h, e
  <2>2. q = 2 * h + e
    BY <2>1
  <2>. QED
    BY <2>1, <2>2
<1>. QED
  BY <1>4, <1>5, <1>8 DEF d, m

EqualFrom(a, b, k) == \A i \in k .. XLEN - 1 : Bit(a, i) = Bit(b, i)

(* The highest bit that differs is b's. *)
BelowFrom(a, b, k) ==
  \E i \in k .. XLEN - 1 : Bit(a, i) # Bit(b, i) /\ EqualFrom(a, b, i + 1) /\ Bit(b, i) = 1

LEMMA BitsOrder ==
  ASSUME NEW a \in Register, NEW b \in Register
  PROVE  (a < b <=> BelowFrom(a, b, 0)) /\ (a = b <=> EqualFrom(a, b, 0))
<1>. DEFINE A(k) == a \div 2^k
            B(k) == b \div 2^k
            S == {n \in Nat : n <= XLEN =>
                   /\ A(XLEN - n) < B(XLEN - n) <=> BelowFrom(a, b, XLEN - n)
                   /\ A(XLEN - n) = B(XLEN - n) <=> EqualFrom(a, b, XLEN - n)}
<1>1. /\ XLEN \in Nat /\ 2^XLEN \in Nat \ {0} /\ 2^0 = 1
      /\ a \in 0 .. 2^XLEN - 1 /\ b \in 0 .. 2^XLEN - 1
  BY TwoPowers DEF Register
<1>2. a \in Int /\ b \in Int
  BY <1>1
<1>3. A(0) = a /\ B(0) = b
  <2>1. \A x \in Int : x \div 1 = x
    OBVIOUS
  <2>. QED
    BY <1>1, <1>2, <2>1
<1>4. A(XLEN) = 0 /\ B(XLEN) = 0
  <2>. DEFINE m == 2^XLEN
  <2>1. m \in Nat \ {0} /\ a \in 0 .. m - 1 /\ b \in 0 .. m - 1
    BY <1>1
  <2>. HIDE DEF m
  <2>2. 0 \in Int /\ 0 * m + a = a /\ 0 * m + b = b
    BY <1>2, <2>1
  <2>3. (0 * m + a) \div m = 0 /\ (0 * m + b) \div m = 0
    BY <2>1, <2>2, Remainder
  <2>. QED
    BY <2>2, <2>3 DEF m
<1>5. \A k \in 0 .. XLEN - 1 :
        /\ A(k) \in Int /\ A(k + 1) \in Int /\ Bit(a, k) \in 0 .. 1 /\ A(k) = 2 * A(k + 1) + Bit(a, k)
        /\ B(k) \in Int /\ B(k + 1) \in Int /\ Bit(b, k) \in 0 .. 1 /\ B(k) = 2 * B(k + 1) + Bit(b, k)
  BY <1>2, Halved
<1>. HIDE DEF A, B
<1>6. 0 \in S
  <2>1. XLEN - 0 = XLEN /\ XLEN .. XLEN - 1 = {}
    BY <1>1
  <2>2. EqualFrom(a, b, XLEN) /\ ~BelowFrom(a, b, XLEN)
    BY <2>1 DEF EqualFrom, BelowFrom
  <2>. QED
    BY <1>4, <2>1, <2>2
<1>7. ASSUME NEW n \in Nat, n \in S PROVE n + 1 \in S
  <2>. SUFFICES ASSUME n + 1 <= XLEN
                PROVE  /\ A(XLEN - (n + 1)) < B(XLEN - (n + 1)) <=> BelowFrom(a, b, XLEN - (n + 1))
                       /\ A(XLEN - (n + 1)) = B(XLEN - (n + 1)) <=> EqualFrom(a, b, XLEN - (n + 1))
    OBVIOUS
  <2>. DEFINE k == XLEN - (n + 1)
  <2>1. k \in 0 .. XLEN - 1 /\ k + 1 = XLEN - n /\ n <= XLEN
    BY <1>1
  <2>2. /\ A(k + 1) < B(k + 1) <=> BelowFrom(a, b, k + 1)
        /\ A(k + 1) = B(k + 1) <=> EqualFrom(a, b, k + 1)
    BY <1>7, <2>1
  <2>. HIDE DEF k
  <2>3. \A i : i \in k .. XLEN - 1 <=> i = k \/ i \in k + 1 .. XLEN - 1
    BY <1>1, <2>1
  <2>4. EqualFrom(a, b, k) <=> Bit(a, k) = Bit(b, k) /\ EqualFrom(a, b, k + 1)
    BY <2>3, Zenon DEF EqualFrom
  <2>5. BelowFrom(a, b, k) <=>
          \/ Bit(a, k) # Bit(b, k) /\ EqualFrom(a, b, k + 1) /\ Bit(b, k) = 1
          \/ BelowFrom(a, b, k + 1)
    BY <2>3, Zenon DEF BelowFrom
  <2>6. /\ A(k) \in Int /\ A(k + 1) \in Int /\ Bit(a, k) \in 0 .. 1 /\ A(k) = 2 * A(k + 1) + Bit(a, k)
        /\ B(k) \in Int /\ B(k + 1) \in Int /\ Bit(b, k) \in 0 .. 1 /\ B(k) = 2 * B(k + 1) + Bit(b, k)
    BY <1>5, <2>1
  <2>7. /\ A(k) < B(k) <=> \/ A(k + 1) < B(k + 1)
                           \/ A(k + 1) = B(k + 1) /\ Bit(a, k) # Bit(b, k) /\ Bit(b, k) = 1
        /\ A(k) = B(k) <=> A(k + 1) = B(k + 1) /\ Bit(a, k) = Bit(b, k)
    BY <2>6
  <2>. QED
    BY <2>2, <2>4, <2>5, <2>7 DEF k
<1>. HIDE DEF S
<1>8. \A n \in Nat : n \in S
  BY <1>6, <1>7, Induction
<1>9. XLEN \in S /\ XLEN <= XLEN /\ XLEN - XLEN = 0
  BY <1>1, <1>8
<1>. QED
  BY <1>3, <1>9 DEF S

(* b's highest bit that differs is what it is in the greater number, in the *)
(* sign bit of signed ones what it is in the nonnegative.                   *)
BitsBelow(a, b, signed) ==
  \E i \in 0 .. XLEN - 1 :
    /\ Bit(a, i) # Bit(b, i) /\ EqualFrom(a, b, i + 1)
    /\ Bit(b, i) = IF signed /\ i = XLEN - 1 THEN 0 ELSE 1

LEMMA SignedOrder ==
  ASSUME NEW a \in Register, NEW b \in Register
  PROVE  /\ a < b <=> BitsBelow(a, b, FALSE)
         /\ Signed(a, XLEN) < Signed(b, XLEN) <=> BitsBelow(a, b, TRUE)
         /\ Signed(a, XLEN) \in Int /\ Signed(b, XLEN) \in Int
<1>. DEFINE t == XLEN - 1
            sa == Signed(a, XLEN)
            sb == Signed(b, XLEN)
            m == 2^XLEN
<1>1. a < b <=> BelowFrom(a, b, 0)
  BY BitsOrder
<1>2. BelowFrom(a, b, 0) <=> BitsBelow(a, b, FALSE)
  BY DEF BelowFrom, BitsBelow
<1>3. XLEN \in 1 .. XLEN /\ t \in 0 .. t /\ m \in Nat \ {0} /\ 2^t \in Nat \ {0}
  BY DatapathAssumption, Powers
<1>4. a \in 0 .. m - 1 /\ b \in 0 .. m - 1
  BY DEF Register
<1>5. /\ sa \in -(2^t) .. 2^t - 1 /\ sb \in -(2^t) .. 2^t - 1
      /\ sa = a \/ sa = a - m
      /\ sb = b \/ sb = b - m
  BY <1>3, <1>4, SignedRange
<1>6. /\ sa < 0 <=> Bit(a, t) = 1
      /\ sb < 0 <=> Bit(b, t) = 1
      /\ Bit(a, t) \in 0 .. 1 /\ Bit(b, t) \in 0 .. 1
  BY <1>3, <1>4, SignedBits
<1>. HIDE DEF sa, sb, m
<1>7. sa \in Int /\ sb \in Int /\ a \in Int /\ b \in Int
  BY <1>3, <1>4, <1>5
<1>8. CASE Bit(a, t) = Bit(b, t)
  <2>1. sa < sb <=> a < b
    BY <1>3, <1>4, <1>5, <1>6, <1>7, <1>8
  <2>2. BitsBelow(a, b, TRUE) <=> BitsBelow(a, b, FALSE)
    BY <1>8 DEF BitsBelow
  <2>. QED
    BY <1>1, <1>2, <1>7, <2>1, <2>2 DEF sa, sb
<1>9. CASE Bit(a, t) # Bit(b, t)
  <2>1. sa < sb <=> Bit(b, t) = 0
    BY <1>6, <1>7, <1>9
  <2>2. BitsBelow(a, b, TRUE) <=> Bit(b, t) = 0
    <3>1. ASSUME Bit(b, t) = 0 PROVE BitsBelow(a, b, TRUE)
      <4>1. EqualFrom(a, b, t + 1)
        <5>1. t + 1 .. XLEN - 1 = {}
          BY <1>3
        <5>. QED
          BY <5>1 DEF EqualFrom
      <4>. QED
        BY <1>3, <1>9, <3>1, <4>1 DEF BitsBelow
    <3>2. ASSUME BitsBelow(a, b, TRUE) PROVE Bit(b, t) = 0
      <4>1. PICK i \in 0 .. XLEN - 1 : EqualFrom(a, b, i + 1) /\ Bit(b, i) = IF i = t THEN 0 ELSE 1
        BY <3>2, Zenon DEF BitsBelow
      <4>2. i = t \/ t \in i + 1 .. XLEN - 1
        BY <1>3
      <4>3. i = t
        BY <1>9, <4>1, <4>2 DEF EqualFrom
      <4>. QED
        BY <4>1, <4>3
    <3>. QED
      BY <3>1, <3>2
  <2>. QED
    BY <1>1, <1>2, <1>7, <2>1, <2>2 DEF sa, sb
<1>. QED
  BY <1>8, <1>9

(* The low bits of an immediate are its own, those above its twelve are its *)
(* sign.                                                                    *)
LEMMA ImmediateBits ==
  ASSUME NEW w \in EncodedWord, NEW i \in 0 .. XLEN - 1
  PROVE  Bit(Unsigned(sextImm12(w), XLEN), i) = Bit(imm12(w), IF i < 11 THEN i ELSE 11)
<1>. DEFINE x == imm12(w)
            v == sextImm12(w)
<1>1. x \in 0 .. 4095 /\ v \in Int
  BY ImmediateRange
<1>2. v = IF x >= 2048 THEN x - 4096 ELSE x
  <2>1. x \in 0 .. 2^12 - 1
    BY SixBitsOrFive
  <2>2. v = sext64(x, 11)
    BY DEF sextImm12
  <2>. HIDE DEF x, v
  <2>3. v = IF x >= 2^11 THEN x - 2^12 ELSE x
    BY <2>1, <2>2, Extended12
  <2>. QED
    BY <2>3
<1>3. XLEN \in Nat /\ XLEN <= XLEN /\ i \in Nat /\ i <= XLEN /\ i + 1 <= XLEN
  BY DatapathAssumption
<1>. HIDE DEF x, v
<1>4. Bit(Unsigned(v, XLEN), i) = Bit(v, i)
  BY <1>1, <1>3, LowBits
<1>5. CASE i < 11
  <2>. DEFINE k == i + 1
  <2>1. k \in Nat /\ k <= XLEN /\ i \in 0 .. k - 1
    BY <1>3
  <2>2. k \in {1, 2, 3, 4, 5, 6, 7, 8, 9, 10, 11}
    BY <1>3, <1>5
  <2>. HIDE DEF k
  <2>3. Unsigned(v, k) = Unsigned(x, k)
    <3>. DEFINE y == x - 4096
    <3>1. /\ y % 2 = x % 2 /\ y % 4 = x % 4 /\ y % 8 = x % 8 /\ y % 16 = x % 16
          /\ y % 32 = x % 32 /\ y % 64 = x % 64 /\ y % 128 = x % 128
          /\ y % 256 = x % 256 /\ y % 512 = x % 512 /\ y % 1024 = x % 1024
          /\ y % 2048 = x % 2048
      BY <1>1
    <3>. DEFINE P(n) == 2^n
    <3>2. /\ P(1) = 2 /\ P(2) = 4 /\ P(3) = 8 /\ P(4) = 16 /\ P(5) = 32 /\ P(6) = 64
          /\ P(7) = 128 /\ P(8) = 256 /\ P(9) = 512 /\ P(10) = 1024 /\ P(11) = 2048
      OBVIOUS
    <3>. HIDE DEF y, P
    <3>3. P(k) \in {2, 4, 8, 16, 32, 64, 128, 256, 512, 1024, 2048}
      BY <2>2, <3>2
    <3>4. y % P(k) = x % P(k)
      BY <3>1, <3>3
    <3>. QED
      BY <1>2, <3>4 DEF Unsigned, P, y
  <2>4. Bit(Unsigned(v, k), i) = Bit(v, i) /\ Bit(Unsigned(x, k), i) = Bit(x, i)
    <3>1. x \in Int
      BY <1>1
    <3>. QED
      BY <1>1, <2>1, <3>1, LowBits
  <2>. QED
    BY <1>4, <1>5, <2>3, <2>4 DEF x, v
<1>6. CASE ~(i < 11)
  <2>. DEFINE j == 11
  <2>1. j \in Nat /\ j <= i /\ i <= XLEN /\ j <= XLEN /\ 2^j = 2048
    BY <1>3, <1>6
  <2>2. x \in Int /\ v \in -2048 .. 2047
    BY <1>1, <1>2
  <2>. HIDE DEF j
  <2>3. v \in -(2^j) .. 2^j - 1
    BY <2>1, <2>2
  <2>4. Bit(v, i) = IF v < 0 THEN 1 ELSE 0
    BY <1>3, <2>1, <2>3, SignBits
  <2>7. Bit(x, j) = (x \div 2^j) % 2
    BY <2>1, <2>2, BitIs
  <2>5. (x \div 2048) % 2 = IF x >= 2048 THEN 1 ELSE 0
    BY <1>1
  <2>6. v < 0 <=> x >= 2048
    BY <1>1, <1>2
  <2>. QED
    BY <1>4, <1>6, <2>1, <2>4, <2>5, <2>6, <2>7 DEF j, x, v
<1>. QED
  BY <1>5, <1>6

(* What is said of SecondBit is said of the operand executed. *)
LEMMA SecondBits ==
  ASSUME DInv
  PROVE  /\ \A i \in 0 .. XLEN - 1 : Same(i) <=> Bit(op1Val, i) = Bit(Second, i)
         /\ \A signed \in BOOLEAN : Lower(signed) <=> BitsBelow(op1Val, Second, signed)
<1>1. word \in EncodedWord
  BY DEF DInv
<1>2. \A i \in 0 .. XLEN - 1 : SecondBit(i) = Bit(Second, i)
  BY <1>1, ImmediateBits DEF SecondBit, Second, SecondOperand
<1>. HIDE DEF Second
<1>3. \A i \in 0 .. XLEN - 1 : Same(i) <=> Bit(op1Val, i) = Bit(Second, i)
  BY <1>2 DEF Same
<1>4. ASSUME NEW i \in 0 .. XLEN - 1
      PROVE  (\A j \in i + 1 .. XLEN - 1 : Same(j)) <=> EqualFrom(op1Val, Second, i + 1)
  <2>1. \A j \in i + 1 .. XLEN - 1 : j \in 0 .. XLEN - 1
    BY DatapathAssumption
  <2>. QED
    BY <1>3, <2>1, Zenon DEF EqualFrom
<1>5. ASSUME NEW signed \in BOOLEAN
      PROVE  Lower(signed) <=> BitsBelow(op1Val, Second, signed)
  BY <1>2, <1>3, <1>4, Zenon DEF Lower, BitsBelow
<1>. QED
  BY <1>3, <1>5

(* For every width and all operands, slt and sltu, slti and sltiu, and the  *)
(* six branches order their operands as bits do: the highest bit in which   *)
(* they differ decides, the sign bit the other way round, and above its     *)
(* twelve bits an immediate counts with its sign (simNextPCResolution,      *)
(* simArithLogic).                                                          *)
THEOREM DatapathOrdersByBits == Spec => []OrdersByBits
<1>1. DInv /\ AInv => OrdersByBits
  <2>. SUFFICES ASSUME DInv, AInv PROVE OrdersByBits
    OBVIOUS
  <2>1. /\ word \in EncodedWord /\ op1Val \in Register /\ op2Val \in Register /\ Second \in Register
    BY SecondRange DEF DInv, Second
  <2>2. /\ op1Val < Second <=> Lower(FALSE)
        /\ Signed(op1Val, XLEN) < Signed(Second, XLEN) <=> Lower(TRUE)
    BY <2>1, SignedOrder, SecondBits
  <2>3. op1Val = Second <=> \A i \in 0 .. XLEN - 1 : Same(i)
    BY <2>1, BitsOrder, SecondBits DEF EqualFrom
  <2>4. ASSUME NEW operation \in Comparisons, Executes({operation})
        PROVE  arithResult = Flag(Lower(operation = "slt"))
    <3>1. LegalInt(word) /\ word # NOP /\ Operation(word) = operation /\ stage \in {"EX", "WB"}
      BY <2>4 DEF Executes
    <3>2. ~Narrow(word)
      BY <2>1, <3>1, OperationKnown DEF Operations, Comparisons
    <3>3. arithResult = IF Immediate(word) THEN SetIfLessImmediate(word, op1Val)
                                           ELSE SetIfLess(word, op1Val, Second)
      BY <3>1, <3>2 DEF AInv, simArithLogic, Wide, Second, Comparisons
    <3>4. Immediate(word) => SetIfLessImmediate(word, op1Val) = SetIfLess(word, op1Val, Second)
      BY Zenon DEF SetIfLess, SetIfLessImmediate, Second, SecondOperand
    <3>5. arithResult = Flag(IF operation = "slt" THEN Signed(op1Val, XLEN) < Signed(Second, XLEN)
                                                  ELSE op1Val < Second)
      BY <3>1, <3>3, <3>4 DEF SetIfLess
    <3>. QED
      BY <2>2, <2>4, <3>5 DEF Flag, Comparisons
  <2>5. ASSUME stage # "IF", inst.isLegal, word.opcode = "BRANCH"
        PROVE  LET f == BranchFunct(word.funct3) IN
               /\ f = "eq" => (taken <=> \A i \in 0 .. XLEN - 1 : Same(i))
               /\ f = "ne" => (taken <=> \E i \in 0 .. XLEN - 1 : ~Same(i))
               /\ f \in {"lt", "ltu"} => (taken <=> Lower(f = "lt"))
               /\ f \in {"ge", "geu"} => (taken <=> ~Lower(f = "ge"))
    <3>. DEFINE f == BranchFunct(word.funct3)
    <3>1. taken <=> BranchTaken(word, op1Val, op2Val)
      BY <2>5, Zenon DEF DInv
    <3>2. Second = op2Val
      BY <2>5 DEF Second, SecondOperand, Immediate
    <3>3. /\ f = "eq" => (taken <=> op1Val = Second)
          /\ f = "ne" => (taken <=> op1Val # Second)
          /\ f = "lt" => (taken <=> Signed(op1Val, XLEN) < Signed(Second, XLEN))
          /\ f = "ge" => (taken <=> Signed(op1Val, XLEN) >= Signed(Second, XLEN))
          /\ f = "ltu" => (taken <=> op1Val < Second)
          /\ f = "geu" => (taken <=> op1Val >= Second)
      BY <3>1, <3>2 DEF BranchTaken
    <3>4. /\ Signed(op1Val, XLEN) >= Signed(Second, XLEN) <=> ~Lower(TRUE)
          /\ op1Val >= Second <=> ~Lower(FALSE)
      <4>1. Signed(op1Val, XLEN) \in Int /\ Signed(Second, XLEN) \in Int
        BY <2>1, SignedOrder
      <4>2. op1Val \in Int /\ Second \in Int
        BY <2>1, Powers DEF Register
      <4>3. \A x, y \in Int : x >= y <=> ~(x < y)
        OBVIOUS
      <4>. QED
        BY <2>2, <4>1, <4>2, <4>3, Zenon
    <3>. HIDE DEF f, Second
    <3>5. /\ f = "eq" => (taken <=> \A i \in 0 .. XLEN - 1 : Same(i))
          /\ f = "ne" => (taken <=> \E i \in 0 .. XLEN - 1 : ~Same(i))
          /\ f = "lt" => (taken <=> Lower(TRUE))
          /\ f = "ge" => (taken <=> ~Lower(TRUE))
          /\ f = "ltu" => (taken <=> Lower(FALSE))
          /\ f = "geu" => (taken <=> ~Lower(FALSE))
      BY <2>2, <2>3, <3>3, <3>4
    <3>6. /\ f \in {"lt", "ltu"} => (taken <=> Lower(f = "lt"))
          /\ f \in {"ge", "geu"} => (taken <=> ~Lower(f = "ge"))
      BY <3>5
    <3>. QED
      BY <3>5, <3>6 DEF f
  <2>. QED
    BY <2>4, <2>5 DEF OrdersByBits, Comparisons
<1>. QED
  BY <1>1, DInvInductive, AInvInductive, PTL
==============================================================================
