-------------------------------- MODULE Cache --------------------------------
(***************************************************************************)
(* The set-associative cache of src/cache.cpp.  It holds no data: it keeps *)
(* a valid bit, a tag and an LRU rank per way, and tells a hit from a      *)
(* miss.  The rank of the most recently used way is 0.                     *)
(*                                                                         *)
(* The geometry is the code's: index and offset widths are base-2          *)
(* logarithms rounded down, whatever the sizes are.                        *)
(***************************************************************************)
EXTENDS FiniteSetsExt

CONSTANTS
  cacheSize, blockSize, ways,   (* CacheConfig, sizes in bytes               *)
  Addresses,                    (* the addresses that are accessed           *)
  MaxAccesses                   (* bound on the accesses of a behaviour      *)

NumSets == (cacheSize \div blockSize) \div ways

VARIABLES sets, hits, misses
vars == <<sets, hits, misses>>

SetIndex == 0 .. NumSets - 1
Way      == 0 .. ways - 1

------------------------------------------------------------------------------
(* The fields of an address. *)

log2(n) == CHOOSE k \in 0 .. n : 2^k <= n /\ n < 2^(k + 1)

index_bits  == log2(NumSets)
offset_bits == log2(blockSize)

(* With no set at all the constructor allocates nothing and access indexes  *)
(* past the end of the vector, so a geometry has at least one set.  The last *)
(* three conjuncts hold of every such geometry: they say what a logarithm   *)
(* rounded down and a power are, which TLC computes and no prover here can. *)
Geometry ==
  /\ cacheSize \in Nat /\ blockSize \in Nat \ {0} /\ ways \in Nat \ {0}
  /\ NumSets \in Nat \ {0}
  /\ Addresses \subseteq Nat
  /\ MaxAccesses \in Nat
  /\ 2^index_bits \in 1 .. NumSets
  /\ 2^offset_bits \in 1 .. blockSize
  /\ 2^(offset_bits + index_bits) = 2^offset_bits * 2^index_bits

ASSUME CacheAssumption == Geometry

index(address) == (address \div 2^offset_bits) % 2^index_bits
tag(address)   == address \div 2^(offset_bits + index_bits)

Tags  == {tag(a) : a \in Addresses}
Block == [isValid : BOOLEAN, tag : Tags \cup {0}, lru : Way]

------------------------------------------------------------------------------
(* Hit, replacement and rank update within one set. *)

HitWays(set, t) == {w \in Way : set[w].isValid /\ set[w].tag = t}
Invalid(set)    == {w \in Way : ~set[w].isValid}
(* Mutant of MaxRank: the comparison is the wrong way round. *)
MinRank(set)    == {w \in Way : \A v \in Way : set[v].lru >= set[w].lru}
MaxRank(set)    == {w \in Way : \A v \in Way : set[v].lru <= set[w].lru}

(* Mutant of Victim: the search for an invalid way does not stop. *)
LastInvalid(set) == IF Invalid(set) # {} THEN Max(Invalid(set)) ELSE Max(MaxRank(set))

(* The first invalid way, or else the last one of the highest rank. *)
Victim(set) == IF Invalid(set) # {} THEN Min(Invalid(set)) ELSE Max(MaxRank(set))

(* Mutant of Touch: the other ways do not age. *)
TouchWithoutAging(set, w, t) == [set EXCEPT ![w] = [isValid |-> TRUE, tag |-> t, lru |-> 0]]

(* Mutant of Touch: every other way ages, more recent or not. *)
TouchAgesAll(set, w, t) ==
  [v \in Way |-> IF v = w THEN [isValid |-> TRUE, tag |-> t, lru |-> 0]
                         ELSE [set[v] EXCEPT !.lru = @ + 1]]

(* Way w becomes the most recent; the ways that were more recent age by one. *)
Touch(set, w, t) ==
  [v \in Way |->
     IF v = w THEN [isValid |-> TRUE, tag |-> t, lru |-> 0]
     ELSE IF set[v].lru < set[w].lru THEN [set[v] EXCEPT !.lru = @ + 1]
     ELSE set[v]]

(* Mutant of Accessed: a hit does not return before the replacement. *)
HitReplaces(set, t) == Touch(set, Victim(set), t)

(* Mutant of Accessed: a hit does not update the ranks, which is FIFO. *)
HitKeepsRanks(set, t) ==
  IF HitWays(set, t) # {} THEN set ELSE Touch(set, Victim(set), t)

(* The set after an access to tag t. *)
Accessed(set, t) ==
  Touch(set, IF HitWays(set, t) # {} THEN Min(HitWays(set, t)) ELSE Victim(set), t)

------------------------------------------------------------------------------
Hit(address) == HitWays(sets[index(address)], tag(address)) # {}

Init ==
  /\ sets = [s \in SetIndex |->
               [w \in Way |-> [isValid |-> FALSE, tag |-> 0, lru |-> w]]]
  /\ hits = 0
  /\ misses = 0

(* Reads and writes are treated alike: the operation is not an input. *)
access(address) ==
  /\ sets' = [sets EXCEPT ![index(address)] = Accessed(@, tag(address))]
  /\ hits' = IF Hit(address) THEN hits + 1 ELSE hits
  /\ misses' = IF Hit(address) THEN misses ELSE misses + 1

Next == /\ hits + misses < MaxAccesses
        /\ \E a \in Addresses : access(a)

Spec == Init /\ [][Next]_vars

------------------------------------------------------------------------------
(* Type correctness: every way has a rank below the associativity. *)
TypeOK ==
  /\ sets \in [SetIndex -> [Way -> Block]]
  /\ hits \in Nat
  /\ misses \in Nat

(* The LRU order of access (cache.cpp:67-117): the ranks of a set are       *)
(* distinct after any sequence of hits and misses, so "the LRU block" is    *)
(* one block.                                                               *)
RanksDistinct ==
  \A s \in SetIndex : \A v, w \in Way :
    v # w => sets[s][v].lru # sets[s][w].lru

(* A set fills from its first way and an unfilled way keeps the rank the    *)
(* constructor gave it (cache.cpp:24), above every rank in use: the aging   *)
(* loops never make an empty way look recent.                               *)
InvalidWaysUntouched ==
  \A s \in SetIndex : \A w \in Way :
    ~sets[s][w].isValid =>
      /\ sets[s][w].lru = w
      /\ \A v \in Way : v > w => ~sets[s][v].isValid
      /\ \A v \in Way : sets[s][v].isValid => sets[s][v].lru < w

(* A block is cached in one way at most: the search of access, which stops  *)
(* at the first match, is never hiding a second one.                        *)
NoDuplicateTags ==
  \A s \in SetIndex : \A v, w \in Way :
    (v # w /\ sets[s][v].isValid /\ sets[s][w].isValid) =>
      sets[s][v].tag # sets[s][w].tag

(* An access never throws out the block of the access before it when the    *)
(* set has another way: the victim is the oldest block, not the newest.     *)
NewestSurvives ==
  [][\A s \in SetIndex : \A w \in Way :
       (ways > 1 /\ sets[s][w].isValid /\ sets[s][w].lru = 0) =>
         sets'[s][w].isValid /\ sets'[s][w].tag = sets[s][w].tag]_vars

------------------------------------------------------------------------------
(* The cache implements a per-set list of the blocks used most recently.    *)

(* The number of the block that way w of set number s holds. *)
BlockIn(s, set, w) == set[w].tag * 2^index_bits + s

WayOfRank(set, r) == CHOOSE w \in Way : set[w].lru = r

(* The blocks of set number s in the order of their ranks. *)
ByRank(s, set) ==
  [r \in 1 .. Cardinality({w \in Way : set[w].isValid}) |->
     BlockIn(s, set, WayOfRank(set, r - 1))]

Recency == INSTANCE RecencyCache WITH
  numSets <- 2^index_bits, blockSize <- 2^offset_bits,
  recent <- [s \in 0 .. 2^index_bits - 1 |-> ByRank(s, sets[s])]

(* LRU replacement as the project asks for it: a hit is a block among the   *)
(* `ways` blocks of its set used last, hits and misses are counted so, and  *)
(* an access to an address is the list's access to the same address.  Sizes *)
(* that are no powers of two (cache.cpp:35) act as the next smaller powers: *)
(* the fields cut out of an address still tell all blocks apart.            *)
ImplementsRecency ==
  /\ Recency!Spec
  /\ [][\A a \in Addresses : access(a) => Recency!Access(a)]_vars
==============================================================================
