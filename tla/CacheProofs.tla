------------------------------ MODULE CacheProofs ------------------------------
(***************************************************************************)
(* The cache keeps its LRU order and its contents consistent, for every    *)
(* geometry and every sequence of accesses of any length.                  *)
(*                                                                         *)
(* The invariants are inductive only together and set by set: SetOK is     *)
(* what one set satisfies, and an access changes one set.                  *)
(***************************************************************************)
EXTENDS Cache, FiniteSetTheorems, SequenceTheorems, WellFoundedInduction, TLAPS

(* Minimum and maximum, for sets of numbers. *)
LEMMA LeastElement ==
  ASSUME NEW S, S \subseteq Nat, S # {}
  PROVE  \E x \in S : \A y \in S : x <= y
<1>. DEFINE Less == {ss \in Nat \X Nat : ss[1] < ss[2]}
<1>1. IsWellFoundedOn(Less, Nat)
  BY NatLessThanWellFounded DEF OpToRel
<1>2. \A x, y \in Nat : y < x => <<y, x>> \in Less
  OBVIOUS
<1>. HIDE DEF Less
<1>3. PICK x \in S : \A y \in S : ~(<<y, x>> \in Less)
  BY <1>1, WFMin, Zenon
<1>4. \A y \in S : x <= y
  <2>. TAKE y \in S
  <2>1. x \in Nat /\ y \in Nat /\ ~(y < x)
    BY <1>2, <1>3
  <2>. QED
    BY <2>1
<1>. QED
  BY <1>4, Zenon

(* The Min of a nonempty set of naturals is its least element. *)
LEMMA MinFacts ==
  ASSUME NEW S, S \subseteq Nat, S # {}
  PROVE  Min(S) \in S /\ \A y \in S : Min(S) <= y
BY LeastElement, Zenon DEF Min

(* The Max of a nonempty bounded set of naturals is its greatest element. *)
LEMMA MaxFacts ==
  ASSUME NEW n \in Nat, NEW S, S \subseteq 0 .. n, S # {}
  PROVE  Max(S) \in S /\ \A y \in S : Max(S) >= y
<1>. DEFINE T == {n - y : y \in S}
<1>1. T \subseteq Nat /\ T # {}
  <2>1. PICK y \in S : TRUE
    OBVIOUS
  <2>2. n - y \in T
    OBVIOUS
  <2>. QED
    BY <2>2
<1>2. PICK t \in T : \A u \in T : t <= u
  BY <1>1, LeastElement
<1>3. PICK x \in S : t = n - x
  BY <1>2
<1>4. \A y \in S : x >= y
  <2>. TAKE y \in S
  <2>1. n - y \in T /\ n - y \in Nat /\ n - x \in Nat
    OBVIOUS
  <2>2. n - x <= n - y
    BY <2>1, <1>2, <1>3
  <2>. QED
    BY <2>1, <2>2
<1>. QED
  BY <1>3, <1>4 DEF Max

------------------------------------------------------------------------------
(* One set. *)

SetDistinct(set) == \A v, w \in Way : v # w => set[v].lru # set[w].lru
SetUntouched(set) ==
  \A w \in Way : ~set[w].isValid =>
    /\ set[w].lru = w
    /\ \A v \in Way : v > w => ~set[v].isValid
    /\ \A v \in Way : set[v].isValid => set[v].lru < w
SetUnique(set) ==
  \A v, w \in Way : (v # w /\ set[v].isValid /\ set[w].isValid) => set[v].tag # set[w].tag

SetRanked(set) == \A r \in Way : \E w \in Way : set[w].lru = r

SetOK(set) == /\ set \in [Way -> Block]
              /\ SetDistinct(set) /\ SetUntouched(set) /\ SetUnique(set)
              /\ SetRanked(set)

(* The ways of a set are numbered from 0 and there is at least one. *)
LEMMA WayFacts == /\ Way = 0 .. ways - 1 /\ ways \in Nat /\ ways > 0
                  /\ Way \subseteq Nat /\ 0 \in Way
BY CacheAssumption DEF Way, Geometry

(* The way an access goes to: the way of the tag, or the victim. *)
Chosen(set, t) == IF HitWays(set, t) # {} THEN Min(HitWays(set, t)) ELSE Victim(set)

(* Some way has the highest rank. *)
LEMMA MaxRankExists ==
  ASSUME NEW set, set \in [Way -> Block]
  PROVE  MaxRank(set) # {}
<1>. DEFINE R == {set[w].lru : w \in Way}
<1>1. R \subseteq 0 .. ways - 1 /\ R # {} /\ ways - 1 \in Nat
  BY WayFacts DEF Block
<1>2. Max(R) \in R /\ \A r \in R : Max(R) >= r
  BY <1>1, MaxFacts
<1>3. PICK w \in Way : set[w].lru = Max(R)
  BY <1>2
<1>4. \A v \in Way : set[v].lru <= set[w].lru
  <2>. TAKE v \in Way
  <2>1. set[v].lru \in R /\ set[v].lru \in Nat /\ set[w].lru \in Nat
    BY WayFacts DEF Block
  <2>. QED
    BY <2>1, <1>2, <1>3
<1>. QED
  BY <1>4 DEF MaxRank

(* The chosen way holds the tag, or is the first invalid way, or replaces a *)
(* way of the highest rank in a full set.                                   *)
LEMMA ChosenFacts ==
  ASSUME NEW set, set \in [Way -> Block], NEW t
  PROVE  /\ Chosen(set, t) \in Way
         /\ \/ Chosen(set, t) \in HitWays(set, t)
            \/ /\ HitWays(set, t) = {}
               /\ ~set[Chosen(set, t)].isValid
               /\ \A w \in Way : ~set[w].isValid => Chosen(set, t) <= w
            \/ /\ HitWays(set, t) = {}
               /\ \A w \in Way : set[w].isValid
               /\ \A w \in Way : set[w].lru <= set[Chosen(set, t)].lru
<1>1. CASE HitWays(set, t) # {}
  <2>1. HitWays(set, t) \subseteq Way
    BY DEF HitWays
  <2>2. Min(HitWays(set, t)) \in HitWays(set, t)
    BY <1>1, <2>1, WayFacts, MinFacts
  <2>. QED
    BY <1>1, <2>1, <2>2 DEF Chosen
<1>2. CASE HitWays(set, t) = {} /\ Invalid(set) # {}
  <2>1. Invalid(set) \subseteq Way
    BY DEF Invalid
  <2>2. Min(Invalid(set)) \in Invalid(set) /\ \A w \in Invalid(set) : Min(Invalid(set)) <= w
    BY <1>2, <2>1, WayFacts, MinFacts
  <2>3. Chosen(set, t) = Min(Invalid(set))
    BY <1>2 DEF Chosen, Victim
  <2>. QED
    BY <1>2, <2>2, <2>3 DEF Invalid
<1>3. CASE HitWays(set, t) = {} /\ Invalid(set) = {}
  <2>1. MaxRank(set) \subseteq Way /\ MaxRank(set) # {}
    BY MaxRankExists DEF MaxRank
  <2>2. Max(MaxRank(set)) \in MaxRank(set)
    BY <2>1, WayFacts, MaxFacts
  <2>3. Chosen(set, t) = Max(MaxRank(set))
    BY <1>3 DEF Chosen, Victim
  <2>. QED
    BY <1>3, <2>2, <2>3 DEF MaxRank, Invalid
<1>. QED
  BY <1>1, <1>2, <1>3

(* Ranks after a touch: 0 for the touched way, one more for the ways that   *)
(* were more recent, the same for the others.                               *)
LEMMA TouchFacts ==
  ASSUME NEW set, set \in [Way -> Block], NEW w \in Way, NEW t \in Tags \cup {0},
         NEW new, new = Touch(set, w, t)
  PROVE  /\ new \in [Way -> Block]
         /\ new[w].isValid /\ new[w].tag = t /\ new[w].lru = 0
         /\ \A v \in Way \ {w} :
              /\ new[v].isValid = set[v].isValid /\ new[v].tag = set[v].tag
              /\ set[v].lru < set[w].lru => new[v].lru = set[v].lru + 1
              /\ ~(set[v].lru < set[w].lru) => new[v].lru = set[v].lru
<1>1. [isValid |-> TRUE, tag |-> t, lru |-> 0] \in Block
  BY WayFacts DEF Block
<1>2. \A v \in Way : set[v].lru < set[w].lru =>
        /\ [set[v] EXCEPT !.lru = @ + 1] \in Block
        /\ [set[v] EXCEPT !.lru = @ + 1].lru = set[v].lru + 1
        /\ [set[v] EXCEPT !.lru = @ + 1].tag = set[v].tag
        /\ [set[v] EXCEPT !.lru = @ + 1].isValid = set[v].isValid
  <2>. TAKE v \in Way
  <2>. HAVE set[v].lru < set[w].lru
  <2>1. set[v] \in Block /\ set[w] \in Block
    OBVIOUS
  <2>2. set[v].lru \in 0 .. ways - 1 /\ set[w].lru \in 0 .. ways - 1
    BY <2>1, WayFacts DEF Block
  <2>3. set[v].lru + 1 \in Way
    BY <2>2, WayFacts
  <2>. QED
    BY <2>1, <2>3 DEF Block
<1>3. \A v \in Way : new[v] = IF v = w THEN [isValid |-> TRUE, tag |-> t, lru |-> 0]
                               ELSE IF set[v].lru < set[w].lru
                               THEN [set[v] EXCEPT !.lru = @ + 1] ELSE set[v]
  BY DEF Touch
<1>4. new \in [Way -> Block]
  BY <1>1, <1>2 DEF Touch
<1>5. new[w].isValid /\ new[w].tag = t /\ new[w].lru = 0
  <2>1. new[w] = [isValid |-> TRUE, tag |-> t, lru |-> 0]
    BY <1>3
  <2>. QED
    BY <2>1
<1>6. ASSUME NEW v \in Way \ {w}
      PROVE  /\ new[v].isValid = set[v].isValid /\ new[v].tag = set[v].tag
             /\ set[v].lru < set[w].lru => new[v].lru = set[v].lru + 1
             /\ ~(set[v].lru < set[w].lru) => new[v].lru = set[v].lru
  <2>1. CASE set[v].lru < set[w].lru
    <3>1. new[v] = [set[v] EXCEPT !.lru = @ + 1]
      BY <2>1, <1>3, Zenon
    <3>2. /\ [set[v] EXCEPT !.lru = @ + 1].lru = set[v].lru + 1
          /\ [set[v] EXCEPT !.lru = @ + 1].tag = set[v].tag
          /\ [set[v] EXCEPT !.lru = @ + 1].isValid = set[v].isValid
      BY <2>1, <1>2
    <3>. QED
      BY <2>1, <3>1, <3>2, Zenon
  <2>2. CASE ~(set[v].lru < set[w].lru)
    <3>1. new[v] = set[v]
      BY <2>2, <1>3, Zenon
    <3>. QED
      BY <2>2, <3>1
  <2>. QED
    BY <2>1, <2>2
<1>. QED
  BY <1>4, <1>5, <1>6, Zenon

(* An access keeps a set consistent. *)
LEMMA AccessKeepsSet ==
  ASSUME NEW set, SetOK(set), NEW t \in Tags \cup {0}
  PROVE  SetOK(Accessed(set, t))
<1>. DEFINE w == Chosen(set, t)
            new == Touch(set, w, t)
<1>1. w \in Way
  BY ChosenFacts DEF SetOK
<1>2. \/ set[w].isValid /\ set[w].tag = t
      \/ /\ \A v \in Way : ~(set[v].isValid /\ set[v].tag = t)
         /\ ~set[w].isValid
         /\ \A v \in Way : ~set[v].isValid => w <= v
      \/ /\ \A v \in Way : ~(set[v].isValid /\ set[v].tag = t)
         /\ \A v \in Way : set[v].isValid
  BY ChosenFacts DEF SetOK, HitWays
<1>3. /\ new \in [Way -> Block]
      /\ new[w].isValid /\ new[w].tag = t /\ new[w].lru = 0
      /\ \A v \in Way \ {w} :
           /\ new[v].isValid = set[v].isValid /\ new[v].tag = set[v].tag
           /\ set[v].lru < set[w].lru => new[v].lru = set[v].lru + 1
           /\ ~(set[v].lru < set[w].lru) => new[v].lru = set[v].lru
  BY <1>1, TouchFacts DEF SetOK
<1>4. Accessed(set, t) = new
  BY DEF Accessed, Chosen
<1>. HIDE DEF w, new
<1>5. \A v \in Way : set[v].lru \in Nat /\ set[v].lru <= ways - 1 /\ v \in Nat
  BY WayFacts DEF SetOK, Block
<1>6. SetDistinct(new)
  <2>. SUFFICES ASSUME NEW u \in Way, NEW v \in Way, u # v
                PROVE  new[u].lru # new[v].lru
    BY DEF SetDistinct
  <2>1. set[u].lru # set[v].lru /\ (u # w => set[u].lru # set[w].lru)
        /\ (v # w => set[v].lru # set[w].lru)
    BY <1>1 DEF SetOK, SetDistinct
  <2>. QED
    BY <2>1, <1>1, <1>3, <1>5
<1>7. SetUntouched(new)
  <2>. SUFFICES ASSUME NEW u \in Way, ~new[u].isValid
                PROVE  /\ new[u].lru = u
                       /\ \A v \in Way : v > u => ~new[v].isValid
                       /\ \A v \in Way : new[v].isValid => new[v].lru < u
    BY DEF SetUntouched
  <2>1. u # w /\ ~set[u].isValid
    BY <1>1, <1>3
  <2>2. /\ set[u].lru = u
        /\ \A v \in Way : v > u => ~set[v].isValid
        /\ \A v \in Way : set[v].isValid => set[v].lru < u
    BY <2>1 DEF SetOK, SetUntouched
  <2>3. set[w].lru < u /\ w < u
    <3>1. CASE set[w].isValid
      BY <3>1, <2>1, <2>2, <1>1, <1>5
    <3>2. CASE ~set[w].isValid
      <4>1. w <= u
        BY <3>2, <2>1, <1>2
      <4>2. set[w].lru = w
        BY <3>2, <1>1 DEF SetOK, SetUntouched
      <4>. QED
        BY <4>1, <4>2, <2>1, <1>1, <1>5
    <3>. QED
      BY <3>1, <3>2
  <2>4. new[u].lru = u
    BY <2>1, <2>2, <2>3, <1>1, <1>3, <1>5
  <2>5. ASSUME NEW v \in Way, v > u
        PROVE  ~new[v].isValid
    <3>1. v # w /\ ~set[v].isValid
      BY <2>2, <2>3, <2>5, <1>1, <1>5
    <3>. QED
      BY <3>1, <1>3
  <2>6. ASSUME NEW v \in Way, new[v].isValid
        PROVE  new[v].lru < u
    <3>1. CASE v = w
      BY <3>1, <2>3, <1>1, <1>3, <1>5
    <3>2. CASE v # w
      <4>1. set[v].isValid /\ set[v].lru < u
        BY <3>2, <2>2, <2>6, <1>3
      <4>. QED
        BY <4>1, <3>2, <2>3, <1>1, <1>3, <1>5
    <3>. QED
      BY <3>1, <3>2
  <2>. QED
    BY <2>4, <2>5, <2>6
<1>8. SetUnique(new)
  <2>. SUFFICES ASSUME NEW u \in Way, NEW v \in Way, u # v, new[u].isValid, new[v].isValid
                PROVE  new[u].tag # new[v].tag
    BY DEF SetUnique
  <2>1. \A x \in Way \ {w} : set[x].isValid => set[x].tag # t
    BY <1>1, <1>2 DEF SetOK, SetUnique
  <2>2. u # w /\ v # w => set[u].tag # set[v].tag
    BY <1>3 DEF SetOK, SetUnique
  <2>. QED
    BY <2>1, <2>2, <1>1, <1>3
<1>9. SetRanked(new)
  <2>. SUFFICES ASSUME NEW r \in Way PROVE \E u \in Way : new[u].lru = r
    BY DEF SetRanked
  <2>1. \A q \in Way : \E u \in Way : set[u].lru = q
    BY DEF SetOK, SetRanked
  <2>2. r \in 0 .. ways - 1 /\ set[w].lru \in Nat
    BY <1>1, <1>5, WayFacts
  <2>3. CASE r = 0
    BY <2>3, <1>1, <1>3
  <2>4. CASE r # 0 /\ r <= set[w].lru
    <3>1. r - 1 \in Way
      BY <2>2, <2>4, WayFacts
    <3>2. PICK u \in Way : set[u].lru = r - 1
      BY <2>1, <3>1
    <3>3. set[u].lru < set[w].lru /\ u # w
      BY <2>2, <2>4, <3>2
    <3>4. new[u].lru = set[u].lru + 1
      BY <3>3, <1>3
    <3>. QED
      BY <2>2, <3>2, <3>4
  <2>5. CASE r > set[w].lru
    <3>1. PICK u \in Way : set[u].lru = r
      BY <2>1
    <3>2. ~(set[u].lru < set[w].lru) /\ u # w
      BY <2>2, <2>5, <3>1
    <3>. QED
      BY <3>1, <3>2, <1>3
  <2>. QED
    BY <2>2, <2>3, <2>4, <2>5
<1>. QED
  BY <1>3, <1>4, <1>6, <1>7, <1>8, <1>9 DEF SetOK

------------------------------------------------------------------------------
(* The cache. *)

Inv == /\ \A s \in SetIndex : SetOK(sets[s])
       /\ sets \in [SetIndex -> [Way -> Block]] /\ hits \in Nat /\ misses \in Nat

(* An address falls into a set that there is: the index is cut to a power   *)
(* of two that the number of sets is not below.                             *)
LEMMA IndexInRange ==
  ASSUME NEW a \in Nat
  PROVE  index(a) \in SetIndex
<1>. DEFINE blocks == 2^offset_bits
            n == 2^index_bits
<1>1. blocks \in Nat \ {0} /\ n \in 1 .. NumSets /\ NumSets \in Nat
  BY CacheAssumption DEF Geometry
<1>. HIDE DEF blocks, n
<1>2. a \div blocks \in Nat
  BY <1>1
<1>3. (a \div blocks) % n \in 0 .. n - 1
  BY <1>1, <1>2
<1>4. (a \div blocks) % n \in SetIndex
  BY <1>1, <1>3 DEF SetIndex
<1>. QED
  BY <1>4 DEF index, blocks, n

(* The empty cache is consistent. *)
LEMMA InitInv == Init => Inv
<1>. SUFFICES ASSUME Init PROVE Inv
  OBVIOUS
<1>1. \A w \in Way : [isValid |-> FALSE, tag |-> 0, lru |-> w] \in Block
  BY DEF Block
<1>. QED
  BY <1>1 DEF Init, Inv, SetOK, SetDistinct, SetUntouched, SetUnique, SetRanked

(* An access keeps the cache consistent, and the block it asked for is      *)
(* there afterwards.                                                        *)
LEMMA AccessKeepsInv ==
  ASSUME Inv, NEW a \in Addresses, access(a)
  PROVE  Inv' /\ Hit(a)'
<1>1. tag(a) \in Tags \cup {0}
  BY DEF Tags
<1>2. index(a) \in SetIndex
  BY IndexInRange, CacheAssumption DEF Geometry
<1>3. sets' = [sets EXCEPT ![index(a)] = Accessed(sets[index(a)], tag(a))]
  BY DEF access
<1>4. \A s \in SetIndex : SetOK(sets'[s])
  <2>. TAKE s \in SetIndex
  <2>1. CASE s = index(a)
    <3>1. sets'[s] = Accessed(sets[s], tag(a))
      BY <2>1, <1>3 DEF Inv
    <3>. QED
      BY <3>1, <1>1, AccessKeepsSet DEF Inv
  <2>2. CASE s # index(a)
    <3>1. sets'[s] = sets[s]
      BY <2>2, <1>3 DEF Inv
    <3>. QED
      BY <3>1 DEF Inv
  <2>. QED
    BY <2>1, <2>2
<1>5. sets' \in [SetIndex -> [Way -> Block]]
  <2>1. \A s \in SetIndex : sets'[s] \in [Way -> Block]
    BY <1>4 DEF SetOK
  <2>. QED
    BY <2>1, <1>3 DEF Inv
<1>6. hits' \in Nat /\ misses' \in Nat
  BY DEF access, Inv
<1>7. Hit(a)'
  <2>. DEFINE set == sets[index(a)]
              w == Chosen(set, tag(a))
  <2>1. set \in [Way -> Block]
    BY <1>2 DEF Inv
  <2>2. sets'[index(a)] = Touch(set, w, tag(a))
    BY <1>2, <1>3 DEF Inv, Accessed, Chosen
  <2>3. w \in Way
    BY <2>1, ChosenFacts
  <2>. HIDE DEF set, w
  <2>4. sets'[index(a)][w].isValid /\ sets'[index(a)][w].tag = tag(a)
    BY <2>1, <2>2, <2>3, <1>1, TouchFacts
  <2>5. w \in HitWays(sets'[index(a)], tag(a))
    BY <2>3, <2>4 DEF HitWays
  <2>. QED
    BY <2>5 DEF Hit
<1>. QED
  BY <1>4, <1>5, <1>6, <1>7 DEF Inv

(* The inductive invariant holds after any sequence of accesses. *)
LEMMA InvInductive == Spec => []Inv
<1>1. Inv /\ [Next]_vars => Inv'
  <2>1. ASSUME Inv, UNCHANGED vars PROVE Inv'
    BY <2>1 DEF vars, Inv
  <2>. QED
    BY <2>1, AccessKeepsInv DEF Next
<1>. QED
  BY <1>1, InitInv, PTL DEF Spec

(* The state stays well typed, every rank below the associativity.          *)
THEOREM CacheTypeCorrect == Spec => []TypeOK
<1>1. Inv => TypeOK
  BY DEF Inv, TypeOK
<1>. QED
  BY <1>1, InvInductive, PTL

(* The ranks of a set are a strict order: no sequence of hits and misses    *)
(* gives two ways the same rank (cache.cpp:67-117).                         *)
THEOREM CacheRanksDistinct == Spec => []RanksDistinct
<1>1. Inv => RanksDistinct
  BY DEF Inv, SetOK, SetDistinct, RanksDistinct
<1>. QED
  BY <1>1, InvInductive, PTL

(* Empty ways are filled in order and never age (cache.cpp:24, 67-117).     *)
THEOREM CacheInvalidWaysUntouched == Spec => []InvalidWaysUntouched
<1>1. Inv => InvalidWaysUntouched
  BY DEF Inv, SetOK, SetUntouched, InvalidWaysUntouched
<1>. QED
  BY <1>1, InvInductive, PTL

(* A block is in one way at most (the search of cache.cpp:49-65).           *)
THEOREM CacheNoDuplicateTags == Spec => []NoDuplicateTags
<1>1. Inv => NoDuplicateTags
  BY DEF Inv, SetOK, SetUnique, NoDuplicateTags
<1>. QED
  BY <1>1, InvInductive, PTL

(* The block used last is never the victim of the next access: the way      *)
(* chosen in a full set has the highest rank, and with two ways or more     *)
(* that is not 0 (cache.cpp:86-102).                                        *)
THEOREM CacheNewestSurvives == Spec => NewestSurvives
<1>. DEFINE Survives == \A s \in SetIndex : \A w \in Way :
              (ways > 1 /\ sets[s][w].isValid /\ sets[s][w].lru = 0) =>
                sets'[s][w].isValid /\ sets'[s][w].tag = sets[s][w].tag
<1>1. Inv /\ [Next]_vars => Survives
  <2>. SUFFICES ASSUME Inv, [Next]_vars,
                       NEW s \in SetIndex, NEW w \in Way,
                       ways > 1, sets[s][w].isValid, sets[s][w].lru = 0
                PROVE  sets'[s][w].isValid /\ sets'[s][w].tag = sets[s][w].tag
    OBVIOUS
  <2>1. ASSUME NEW a \in Addresses, access(a), s = index(a)
        PROVE  sets'[s][w].isValid /\ sets'[s][w].tag = sets[s][w].tag
    <3>. DEFINE set == sets[s]
                t == tag(a)
                c == Chosen(set, t)
                new == Touch(set, c, t)
    <3>1. SetOK(set) /\ set \in [Way -> Block] /\ t \in Tags \cup {0}
      BY DEF Inv, SetOK, Tags
    <3>2. sets'[s] = new
      BY <2>1 DEF access, Accessed, Chosen, Inv
    <3>3. /\ c \in Way
          /\ \/ set[c].isValid /\ set[c].tag = t
             \/ ~set[c].isValid
             \/ \A v \in Way : set[v].lru <= set[c].lru
      BY <3>1, ChosenFacts DEF HitWays
    <3>4. /\ new[c].isValid /\ new[c].tag = t
          /\ \A v \in Way \ {c} : new[v].isValid = set[v].isValid /\ new[v].tag = set[v].tag
      BY <3>1, <3>3, TouchFacts
    <3>5. ~(\A v \in Way : set[v].lru <= 0)
      <4>1. 0 \in Way /\ 1 \in Way /\ 0 # 1
        BY WayFacts
      <4>2. set[0].lru # set[1].lru /\ set[0].lru \in Nat /\ set[1].lru \in Nat
        BY <3>1, <4>1, WayFacts DEF SetOK, SetDistinct, Block
      <4>. QED
        BY <4>1, <4>2
    <3>6. set[w].isValid /\ set[w].lru = 0
      OBVIOUS
    <3>. HIDE DEF set, t, c, new
    <3>7. c = w => set[c].isValid /\ set[c].tag = t
      BY <3>3, <3>5, <3>6
    <3>8. new[w].isValid /\ new[w].tag = set[w].tag
      BY <3>4, <3>6, <3>7
    <3>. QED
      BY <3>2, <3>8 DEF set
  <2>2. ASSUME NEW a \in Addresses, access(a), s # index(a)
        PROVE  sets'[s] = sets[s]
    BY <2>2 DEF access, Inv
  <2>3. CASE UNCHANGED vars
    BY <2>3 DEF vars
  <2>. QED
    BY <2>1, <2>2, <2>3 DEF Next
<1>2. Inv /\ [Next]_vars => [Survives]_vars
  BY <1>1
<1>. HIDE DEF Survives
<1>3. Spec => [][Survives]_vars
  BY <1>2, InvInductive, PTL DEF Spec
<1>. QED
  BY <1>3 DEF NewestSurvives, Survives
------------------------------------------------------------------------------
(* The recency lists. *)

(* Division undoes a product and a remainder. *)
LEMMA DivOf ==
  ASSUME NEW n \in Nat, NEW m \in Nat, NEW r \in Nat, r < m
  PROVE  (n * m + r) \div m = n
<1>1. n * m \in Nat /\ m > 0
  OBVIOUS
<1>. DEFINE q == (n * m + r) \div m
<1>2. q \in Int /\ m * q <= n * m + r /\ n * m + r < m * q + m
  BY <1>1
<1>. HIDE DEF q
<1>3. ~(q < n)
  <2>. SUFFICES ASSUME q < n PROVE FALSE
    OBVIOUS
  <2>1. m * (q + 1) <= m * n
    BY <1>1, <1>2
  <2>. QED
    BY <2>1, <1>1, <1>2
<1>4. ~(q > n)
  <2>. SUFFICES ASSUME q > n PROVE FALSE
    OBVIOUS
  <2>1. m * (n + 1) <= m * q
    BY <1>1, <1>2
  <2>. QED
    BY <2>1, <1>1, <1>2
<1>. QED
  BY <1>2, <1>3, <1>4 DEF q

(* Two divisions are one. *)
LEMMA DivDiv ==
  ASSUME NEW a \in Nat, NEW m \in Nat \ {0}, NEW n \in Nat \ {0}
  PROVE  (a \div m) \div n = a \div (m * n)
<1>. DEFINE q == a \div m
            r == a % m
            p == q \div n
            o == q % n
<1>1. /\ q \in Nat /\ r \in Nat /\ r < m /\ a = m * q + r
      /\ p \in Nat /\ o \in Nat /\ o < n /\ q = n * p + o
  <2>1. q \in Nat /\ r \in Nat /\ r < m /\ a = m * q + r
    OBVIOUS
  <2>. HIDE DEF q, r
  <2>. QED
    BY <2>1
<1>. HIDE DEF q, r, p, o
<1>2. a = p * (m * n) + (m * o + r)
  BY <1>1
<1>3. m * o + r \in Nat /\ m * o + r < m * n /\ m * n \in Nat
  <2>1. m * (o + 1) <= m * n
    BY <1>1
  <2>2. m * (o + 1) = m * o + m /\ m * o \in Nat /\ m * n \in Nat
    BY <1>1
  <2>. QED
    BY <2>1, <2>2, <1>1
<1>4. (p * (m * n) + (m * o + r)) \div (m * n) = p
  BY <1>1, <1>3, DivOf
<1>. QED
  BY <1>2, <1>4 DEF p, q

(* Tag and index together are the number of the block. *)
LEMMA BlockFacts ==
  ASSUME NEW a \in Nat
  PROVE  /\ Recency!SetOf(a) = index(a)
         /\ Recency!BlockOf(a) = tag(a) * 2^index_bits + index(a)
         /\ index(a) \in 0 .. 2^index_bits - 1 /\ tag(a) \in Nat
<1>. DEFINE m == 2^offset_bits
            n == 2^index_bits
            q == a \div m
<1>1. m \in Nat \ {0} /\ n \in Nat \ {0} /\ 2^(offset_bits + index_bits) = m * n
  BY CacheAssumption DEF Geometry
<1>. HIDE DEF m, n
<1>2. q \in Nat
  BY <1>1
<1>3. tag(a) = q \div n
  <2>1. tag(a) = a \div (m * n)
    BY <1>1 DEF tag
  <2>2. (a \div m) \div n = a \div (m * n)
    BY <1>1, DivDiv
  <2>. QED
    BY <2>1, <2>2
<1>4. index(a) = q % n
  BY DEF index, m, n
<1>. HIDE DEF q
<1>5. q = (q \div n) * n + (q % n) /\ q % n \in 0 .. n - 1 /\ q \div n \in Nat
  <2>1. q = n * (q \div n) + (q % n) /\ q % n \in 0 .. n - 1 /\ q \div n \in Nat
    BY <1>1, <1>2
  <2>2. n * (q \div n) = (q \div n) * n
    BY <2>1, <1>1
  <2>. QED
    BY <2>1, <2>2
<1>6. Recency!BlockOf(a) = q /\ Recency!SetOf(a) = q % n
  BY DEF Recency!BlockOf, Recency!SetOf, q, m, n
<1>7. Recency!BlockOf(a) = tag(a) * n + index(a)
  BY <1>3, <1>4, <1>5, <1>6
<1>8. Recency!SetOf(a) = index(a) /\ index(a) \in 0 .. n - 1 /\ tag(a) \in Nat
  BY <1>3, <1>4, <1>5, <1>6
<1>. QED
  BY <1>7, <1>8 DEF n

(* Every rank belongs to one way. *)
LEMMA RankFacts ==
  ASSUME NEW set, SetOK(set), NEW r \in Way
  PROVE  /\ WayOfRank(set, r) \in Way /\ set[WayOfRank(set, r)].lru = r
         /\ \A w \in Way : set[w].lru = r => w = WayOfRank(set, r)
<1>1. \E w \in Way : set[w].lru = r
  BY DEF SetOK, SetRanked
<1>2. WayOfRank(set, r) \in Way /\ set[WayOfRank(set, r)].lru = r
  BY <1>1 DEF WayOfRank
<1>. QED
  BY <1>2 DEF SetOK, SetDistinct

(* The valid ways are the first ones, and theirs are the lowest ranks. *)
Valid(set) == {w \in Way : set[w].isValid}
LEMMA ValidFacts ==
  ASSUME NEW set, SetOK(set), NEW n, n = Cardinality(Valid(set))
  PROVE  /\ n \in 0 .. ways
         /\ \A w \in Way : set[w].isValid <=> w < n
         /\ \A w \in Way : set[w].isValid <=> set[w].lru < n
<1>1. PICK m \in 0 .. ways : \A w \in Way : set[w].isValid <=> w < m
  <2>1. CASE Invalid(set) = {}
    BY <2>1, WayFacts DEF Invalid
  <2>2. CASE Invalid(set) # {}
    <3>1. Min(Invalid(set)) \in Invalid(set) /\ \A w \in Invalid(set) : Min(Invalid(set)) <= w
      BY <2>2, WayFacts, MinFacts DEF Invalid
    <3>2. PICK m \in Way : ~set[m].isValid /\ \A w \in Way : ~set[w].isValid => m <= w
      BY <3>1 DEF Invalid
    <3>3. \A w \in Way : w > m => ~set[w].isValid
      BY <3>2 DEF SetOK, SetUntouched
    <3>4. \A w \in Way : set[w].isValid <=> w < m
      BY <3>2, <3>3, WayFacts
    <3>5. m \in 0 .. ways
      BY <3>2, WayFacts
    <3>. QED
      BY <3>4, <3>5, Zenon
  <2>. QED
    BY <2>1, <2>2
<1>2. Valid(set) = 0 .. m - 1
  BY <1>1, WayFacts DEF Valid
<1>3. n = m
  BY <1>2, FS_Interval
<1>4. ASSUME NEW w \in Way
      PROVE  set[w].isValid <=> set[w].lru < n
  <2>1. CASE ~set[w].isValid
    BY <2>1, <1>1, <1>3, WayFacts DEF SetOK, SetUntouched
  <2>2. CASE set[w].isValid /\ m \in Way
    BY <2>2, <1>1, <1>3, WayFacts DEF SetOK, SetUntouched
  <2>3. CASE m \notin Way
    BY <2>3, <1>1, <1>3, WayFacts DEF SetOK, Block
  <2>. QED
    BY <2>1, <2>2, <2>3
<1>. QED
  BY <1>1, <1>3, <1>4

(* Within a set, blocks differ where their tags do. *)
LEMMA SameBlock ==
  ASSUME NEW x \in Nat, NEW y \in Nat, NEW m \in Nat \ {0}, NEW s \in Nat
  PROVE  x * m + s = y * m + s <=> x = y
<1>1. x * m \in Nat /\ y * m \in Nat
  OBVIOUS
<1>2. ASSUME NEW p \in Nat, NEW q \in Nat, p < q
      PROVE  p * m < q * m
  <2>1. (p + 1) * m <= q * m
    BY <1>2
  <2>2. (p + 1) * m = p * m + m
    OBVIOUS
  <2>3. p * m \in Nat /\ q * m \in Nat
    OBVIOUS
  <2>. QED
    BY <2>1, <2>2, <2>3
<1>3. x < y => x * m < y * m
  BY <1>2
<1>4. y < x => y * m < x * m
  BY <1>2
<1>. QED
  BY <1>1, <1>3, <1>4

(* The tags of a set's blocks are numbers. *)
LEMMA TagsAreNumbers == Tags \cup {0} \subseteq Nat
<1>1. Addresses \subseteq Nat
  BY CacheAssumption DEF Geometry
<1>. QED
  BY <1>1, BlockFacts DEF Tags

(* A list by rank has one entry per valid way. *)
LEMMA ByRankFacts ==
  ASSUME NEW set, SetOK(set), NEW s \in Nat, NEW n, n = Cardinality(Valid(set))
  PROVE  /\ ByRank(s, set) \in Seq(Nat) /\ Len(ByRank(s, set)) = n
         /\ DOMAIN ByRank(s, set) = 1 .. n
         /\ \A r \in 1 .. n : /\ r - 1 \in Way
                              /\ ByRank(s, set)[r] = BlockIn(s, set, WayOfRank(set, r - 1))
<1>. DEFINE L == ByRank(s, set)
<1>1. n \in 0 .. ways
  BY ValidFacts
<1>2. L = [r \in 1 .. n |-> BlockIn(s, set, WayOfRank(set, r - 1))]
  BY DEF ByRank, Valid
<1>3. \A r \in 1 .. n : r - 1 \in Way
  BY <1>1, WayFacts
<1>4. ASSUME NEW w \in Way
      PROVE  BlockIn(s, set, w) \in Nat
  <2>1. set[w].tag \in Nat
    BY TagsAreNumbers DEF SetOK, Block
  <2>2. 2^index_bits \in Nat
    BY CacheAssumption DEF Geometry
  <2>. QED
    BY <2>1, <2>2 DEF BlockIn
<1>5. \A r \in 1 .. n : BlockIn(s, set, WayOfRank(set, r - 1)) \in Nat
  BY <1>3, <1>4, RankFacts
<1>6. L \in [1 .. n -> Nat]
  BY <1>2, <1>5
<1>. HIDE DEF L
<1>7. L \in Seq(Nat)
  BY <1>1, <1>6
<1>8. Len(L) = n
  BY <1>1, <1>6, <1>7, LenProperties
<1>. QED
  BY <1>2, <1>3, <1>6, <1>7, <1>8 DEF L

(* A block is listed exactly if a way holds its tag. *)
LEMMA ListedFacts ==
  ASSUME NEW set, SetOK(set), NEW s \in Nat, NEW t \in Tags \cup {0}, NEW b,
         b = t * 2^index_bits + s, NEW n, n = Cardinality(Valid(set))
  PROVE  /\ \A r \in 1 .. n : ByRank(s, set)[r] = b <=> WayOfRank(set, r - 1) \in HitWays(set, t)
         /\ \A w \in HitWays(set, t) : /\ set[w].lru + 1 \in 1 .. n
                                       /\ WayOfRank(set, set[w].lru) = w
<1>1. ASSUME NEW r \in 1 .. n
      PROVE  ByRank(s, set)[r] = b <=> WayOfRank(set, r - 1) \in HitWays(set, t)
  <2>. DEFINE u == WayOfRank(set, r - 1)
  <2>1. r - 1 \in Way /\ ByRank(s, set)[r] = BlockIn(s, set, u)
    BY ByRankFacts
  <2>2. u \in Way /\ set[u].lru = r - 1
    BY <2>1, RankFacts
  <2>3. set[u].isValid
    BY <2>2, ValidFacts
  <2>. HIDE DEF u
  <2>4. set[u].tag \in Nat /\ t \in Nat /\ 2^index_bits \in Nat \ {0}
    <3>1. set[u].tag \in Nat /\ t \in Nat
      BY <2>2, TagsAreNumbers DEF SetOK, Block
    <3>2. 2^index_bits \in Nat \ {0}
      BY CacheAssumption DEF Geometry
    <3>. QED
      BY <3>1, <3>2
  <2>5. BlockIn(s, set, u) = b <=> set[u].tag = t
    <3>. DEFINE x == set[u].tag
                m == 2^index_bits
    <3>1. BlockIn(s, set, u) = x * m + s /\ b = t * m + s
      BY DEF BlockIn
    <3>2. x \in Nat /\ t \in Nat /\ m \in Nat \ {0}
      BY <2>4
    <3>. HIDE DEF x, m
    <3>3. x * m + s = t * m + s <=> x = t
      BY <3>2, SameBlock
    <3>. QED
      BY <3>1, <3>3 DEF x
  <2>6. u \in HitWays(set, t) <=> set[u].tag = t
    BY <2>2, <2>3 DEF HitWays
  <2>. QED
    BY <2>1, <2>5, <2>6 DEF u
<1>2. ASSUME NEW w \in HitWays(set, t)
      PROVE  set[w].lru + 1 \in 1 .. n /\ WayOfRank(set, set[w].lru) = w
  <2>1. w \in Way /\ set[w].isValid
    BY DEF HitWays
  <2>2. set[w].lru \in Way /\ set[w].lru < n /\ n \in Nat
    BY <2>1, ValidFacts DEF SetOK, Block
  <2>. QED
    <3>1. set[w].lru + 1 \in 1 .. n
      BY <2>2, WayFacts
    <3>2. WayOfRank(set, set[w].lru) = w
      BY <2>1, <2>2, RankFacts, Zenon
    <3>. QED
      BY <3>1, <3>2
<1>. QED
  BY <1>1, <1>2

(* What an access does to the ranks of a set it does to the list: the block *)
(* is resident exactly if it is a hit, its place is its rank, and the ranks *)
(* below move up by one.                                                    *)
LEMMA AccessedRecently ==
  ASSUME NEW set, SetOK(set), NEW s \in Nat, NEW t \in Tags \cup {0}, NEW b,
         b = t * 2^index_bits + s
  PROVE  /\ Recency!Contains(ByRank(s, set), b) <=> HitWays(set, t) # {}
         /\ ByRank(s, Accessed(set, t)) = Recency!MostRecent(ByRank(s, set), b)
<1>. DEFINE w == Chosen(set, t)
            new == Touch(set, w, t)
            L == ByRank(s, set)
            n == Cardinality(Valid(set))
            n2 == Cardinality(Valid(new))
            k == set[w].lru
            place == Recency!Place(L, b)
<1>1. /\ w \in Way
      /\ \/ w \in HitWays(set, t)
         \/ HitWays(set, t) = {} /\ ~set[w].isValid /\ \A v \in Way : ~set[v].isValid => w <= v
         \/ /\ HitWays(set, t) = {}
            /\ \A v \in Way : set[v].isValid
            /\ \A v \in Way : set[v].lru <= k
  BY ChosenFacts DEF SetOK
<1>2. /\ new[w].isValid /\ new[w].tag = t /\ new[w].lru = 0
      /\ \A v \in Way \ {w} :
           /\ new[v].isValid = set[v].isValid /\ new[v].tag = set[v].tag
           /\ set[v].lru < k => new[v].lru = set[v].lru + 1
           /\ ~(set[v].lru < k) => new[v].lru = set[v].lru
  BY <1>1, TouchFacts DEF SetOK
<1>3. Accessed(set, t) = new /\ SetOK(new)
  BY AccessKeepsSet DEF Accessed, Chosen
<1>4. /\ n \in 0 .. ways /\ n2 \in 0 .. ways /\ k \in Way /\ ways \in Nat \ {0} /\ Way = 0 .. ways - 1
      /\ \A v \in Way : set[v].lru \in Way
  <2>1. n \in 0 .. ways /\ n2 \in 0 .. ways
    BY <1>3, ValidFacts
  <2>2. \A v \in Way : set[v].lru \in Way
    BY DEF SetOK, Block
  <2>. QED
    BY <1>1, <2>1, <2>2, WayFacts
<1>5. \A v \in Way : /\ set[v].isValid <=> v < n
                     /\ set[v].isValid <=> set[v].lru < n
                     /\ new[v].isValid <=> v < n2
  BY <1>3, ValidFacts, Zenon
<1>6. /\ Len(L) = n /\ DOMAIN L = 1 .. n
      /\ \A r \in 1 .. n : r - 1 \in Way /\ L[r] = BlockIn(s, set, WayOfRank(set, r - 1))
  BY ByRankFacts
<1>7. /\ \A r \in 1 .. n : L[r] = b <=> WayOfRank(set, r - 1) \in HitWays(set, t)
      /\ \A v \in HitWays(set, t) : set[v].lru + 1 \in 1 .. n /\ WayOfRank(set, set[v].lru) = v
  BY ListedFacts
<1>8. /\ \A r \in Way : WayOfRank(set, r) \in Way /\ set[WayOfRank(set, r)].lru = r
      /\ \A v \in Way : \A r \in Way : new[v].lru = r => v = WayOfRank(new, r)
  BY <1>3, RankFacts
<1>9. ByRank(s, new) = [r \in 1 .. n2 |-> BlockIn(s, new, WayOfRank(new, r - 1))]
  BY DEF ByRank, Valid
<1>. HIDE DEF w, new, L, n, n2, k
<1>10. Recency!Contains(L, b) <=> HitWays(set, t) # {}
  <2>1. ASSUME NEW v \in HitWays(set, t) PROVE Recency!Contains(L, b)
    <3>1. set[v].lru + 1 \in 1 .. n /\ WayOfRank(set, set[v].lru) = v /\ set[v].lru \in Nat
      BY <1>7, <1>4 DEF HitWays
    <3>2. (set[v].lru + 1) - 1 = set[v].lru
      BY <3>1
    <3>3. L[set[v].lru + 1] = b
      BY <3>1, <3>2, <1>7
    <3>. QED
      BY <3>1, <3>3, <1>6 DEF Recency!Contains
  <2>2. Recency!Contains(L, b) => HitWays(set, t) # {}
    BY <1>6, <1>7 DEF Recency!Contains
  <2>. QED
    BY <2>1, <2>2
<1>11. place = k + 1 /\ n2 = (IF k + 1 > n THEN k + 1 ELSE n) /\ k <= n
  <2>1. place = IF Recency!Contains(L, b) THEN CHOOSE i \in 1 .. n : L[i] = b
                ELSE IF n < ways THEN n + 1 ELSE n
    BY <1>6 DEF Recency!Place
  <2>2. CASE w \in HitWays(set, t)
    <3>1. k + 1 \in 1 .. n /\ WayOfRank(set, k) = w
      BY <2>2, <1>7 DEF k
    <3>2. L[k + 1] = b
      <4>1. (k + 1) - 1 = k
        BY <1>4
      <4>. QED
        BY <2>2, <3>1, <4>1, <1>7
    <3>3. ASSUME NEW i \in 1 .. n, L[i] = b
          PROVE  i = k + 1
      <4>1. WayOfRank(set, i - 1) \in HitWays(set, t) /\ i - 1 \in Way
        BY <3>3, <1>6, <1>7
      <4>2. set[WayOfRank(set, i - 1)].lru = i - 1
        BY <4>1, <1>8
      <4>3. WayOfRank(set, i - 1) = w
        BY <4>1, <2>2 DEF HitWays, SetOK, SetUnique
      <4>. QED
        BY <4>1, <4>2, <4>3, <1>4 DEF k
    <3>4. (CHOOSE i \in 1 .. n : L[i] = b) = k + 1
      BY <3>1, <3>2, <3>3
    <3>5. Recency!Contains(L, b)
      BY <2>2, <1>10
    <3>6. n2 = n
      <4>1. set[w].isValid
        BY <2>2 DEF HitWays
      <4>2. \A v \in Way : v < n2 <=> v < n
        BY <4>1, <1>2, <1>5
      <4>. QED
        BY <4>2, <1>4, SMTT(30)
    <3>7. place = k + 1
      BY <2>1, <3>4, <3>5, Zenon
    <3>. QED
      BY <3>1, <3>6, <3>7, <1>4
  <2>3. CASE /\ HitWays(set, t) = {} /\ ~set[w].isValid
             /\ \A v \in Way : ~set[v].isValid => w <= v
    <3>1. ~Recency!Contains(L, b)
      BY <2>3, <1>10
    <3>2. k = w
      BY <2>3, <1>1 DEF k, SetOK, SetUntouched
    <3>3. w = n
      BY <2>3, <1>1, <1>4, <1>5
    <3>4. \A v \in Way : v < n2 <=> v < n \/ v = n
      BY <3>3, <1>1, <1>2, <1>5
    <3>5. n2 = n + 1
      <4>1. n \in Way /\ n < n2
        BY <3>3, <3>4, <1>1
      <4>2. ~(n + 1 < n2)
        <5>1. ASSUME NEW v \in Way, v = n + 1 PROVE ~(v < n2)
          <6>1. ~(v < n \/ v = n)
            BY <5>1, <1>4
          <6>. QED
            BY <6>1, <3>4
        <5>2. n + 1 < n2 => n + 1 \in Way
          BY <1>4
        <5>. QED
          BY <5>1, <5>2
      <4>. QED
        BY <4>1, <4>2, <1>4
    <3>. QED
      BY <2>1, <3>1, <3>2, <3>3, <3>5, <1>1, <1>4
  <2>4. CASE /\ HitWays(set, t) = {} /\ \A v \in Way : set[v].isValid
             /\ \A v \in Way : set[v].lru <= k
    <3>1. ~Recency!Contains(L, b)
      BY <2>4, <1>10
    <3>2. n = ways
      <4>1. ways - 1 \in Way
        BY <1>4
      <4>2. ways - 1 < n
        BY <4>1, <2>4, <1>5
      <4>. QED
        BY <4>2, <1>4
    <3>3. k = ways - 1
      <4>1. ways - 1 \in Way
        BY <1>4
      <4>2. ways - 1 <= k
        BY <4>1, <2>4, <1>8
      <4>. QED
        BY <4>2, <1>4
    <3>4. n2 = n
      <4>1. \A v \in Way : v < n2 <=> v < n
        BY <2>4, <1>1, <1>2, <1>5
      <4>. QED
        BY <4>1, <1>4, SMTT(30)
    <3>. QED
      BY <2>1, <3>1, <3>2, <3>3, <3>4, <1>4
  <2>. QED
    BY <2>2, <2>3, <2>4, <1>1
<1>12. ASSUME NEW r \in 1 .. n2
       PROVE  BlockIn(s, new, WayOfRank(new, r - 1)) =
                IF r = 1 THEN b ELSE IF r <= k + 1 THEN L[r - 1] ELSE L[r]
  <2>1. r - 1 \in Way
    BY <1>4
  <2>2. CASE r = 1
    <3>1. WayOfRank(new, r - 1) = w
      BY <2>1, <2>2, <1>1, <1>2, <1>8
    <3>. QED
      BY <3>1, <2>2, <1>2 DEF BlockIn
  <2>3. CASE r # 1 /\ r <= k + 1
    <3>. DEFINE u == WayOfRank(set, r - 2)
    <3>1. r - 2 \in Way /\ r - 2 < k
      BY <2>1, <2>3, <1>4
    <3>2. u \in Way /\ set[u].lru = r - 2
      BY <3>1, <1>8
    <3>. HIDE DEF u
    <3>3. u # w
      BY <3>1, <3>2, <1>4 DEF k
    <3>4. new[u].lru = r - 1 /\ new[u].tag = set[u].tag
      BY <3>1, <3>2, <3>3, <1>2
    <3>5. WayOfRank(new, r - 1) = u
      BY <2>1, <3>2, <3>4, <1>8
    <3>6. r - 1 \in 1 .. n /\ (r - 1) - 1 = r - 2
      BY <2>3, <3>1, <1>4, <1>11
    <3>7. L[r - 1] = BlockIn(s, set, u)
      BY <3>6, <1>6 DEF u
    <3>. QED
      BY <2>3, <3>4, <3>5, <3>7 DEF BlockIn
  <2>4. CASE r > k + 1
    <3>. DEFINE u == WayOfRank(set, r - 1)
    <3>1. u \in Way /\ set[u].lru = r - 1
      BY <2>1, <1>8
    <3>. HIDE DEF u
    <3>2. u # w /\ ~(set[u].lru < k)
      BY <2>4, <3>1, <1>4 DEF k
    <3>3. new[u].lru = r - 1 /\ new[u].tag = set[u].tag
      BY <3>1, <3>2, <1>2
    <3>4. WayOfRank(new, r - 1) = u
      BY <2>1, <3>1, <3>3, <1>8
    <3>5. r \in 1 .. n /\ r # 1
      BY <2>4, <1>4, <1>11
    <3>6. L[r] = BlockIn(s, set, u)
      BY <3>5, <1>6 DEF u
    <3>. QED
      BY <2>4, <3>3, <3>4, <3>5, <3>6, <1>4 DEF BlockIn
  <2>. QED
    BY <2>2, <2>3, <2>4, <1>4
<1>13. Recency!MostRecent(L, b) =
         [r \in 1 .. n2 |-> IF r = 1 THEN b ELSE IF r <= k + 1 THEN L[r - 1] ELSE L[r]]
  BY <1>6, <1>11, Zenon DEF Recency!MostRecent
<1>14. ByRank(s, new) = Recency!MostRecent(L, b)
  BY <1>9, <1>12, <1>13
<1>. QED
  BY <1>3, <1>10, <1>14 DEF L

Lists == [s \in 0 .. 2^index_bits - 1 |-> ByRank(s, sets[s])]

(* An access to the cache is the same access to the lists. *)
LEMMA AccessIsRecent ==
  ASSUME Inv, NEW a \in Addresses, access(a)
  PROVE  Recency!Access(a)
<1>. DEFINE i == index(a)
            t == tag(a)
            b == Recency!BlockOf(a)
            m == 2^index_bits
<1>1. a \in Nat /\ m \in 1 .. NumSets /\ NumSets \in Nat
  BY CacheAssumption DEF Geometry
<1>2. /\ Recency!SetOf(a) = i /\ b = t * m + i /\ i \in 0 .. m - 1
      /\ t \in Tags \cup {0} /\ i \in Nat
  BY <1>1, BlockFacts DEF Tags
<1>3. i \in SetIndex /\ SetOK(sets[i]) /\ sets \in [SetIndex -> [Way -> Block]]
  BY <1>1, IndexInRange DEF Inv
<1>4. /\ Recency!Contains(ByRank(i, sets[i]), b) <=> HitWays(sets[i], t) # {}
      /\ ByRank(i, Accessed(sets[i], t)) = Recency!MostRecent(ByRank(i, sets[i]), b)
  BY <1>2, <1>3, AccessedRecently
<1>5. /\ sets' = [sets EXCEPT ![i] = Accessed(sets[i], t)]
      /\ hits' = IF HitWays(sets[i], t) # {} THEN hits + 1 ELSE hits
      /\ misses' = IF HitWays(sets[i], t) # {} THEN misses ELSE misses + 1
  BY DEF access, Hit
<1>6. hits \in Nat /\ misses \in Nat
  BY DEF Inv
<1>. HIDE DEF i, t, b, m
<1>7. Recency!Resident(a) <=> HitWays(sets[i], t) # {}
  <2>1. Recency!Resident(a) <=> Recency!Contains(Lists[i], b)
    BY <1>2 DEF Recency!Resident, Lists, b
  <2>2. Lists[i] = ByRank(i, sets[i])
    BY <1>2 DEF Lists, m
  <2>. QED
    BY <2>1, <2>2, <1>4
<1>8. Lists' = [Lists EXCEPT ![i] = Recency!MostRecent(Lists[i], b)]
  <2>1. Lists' = [s \in 0 .. m - 1 |-> ByRank(s, sets'[s])]
    BY DEF Lists, m
  <2>2. ASSUME NEW s \in 0 .. m - 1
        PROVE  ByRank(s, sets'[s]) =
                 IF s = i THEN Recency!MostRecent(Lists[i], b) ELSE Lists[s]
    <3>1. Lists[s] = ByRank(s, sets[s])
      BY DEF Lists, m
    <3>2. CASE s = i
      <4>1. sets'[s] = Accessed(sets[i], t)
        BY <3>2, <1>3, <1>5
      <4>. QED
        BY <4>1, <3>1, <3>2, <1>4
    <3>3. CASE s # i
      <4>1. s \in SetIndex
        BY <1>1 DEF SetIndex
      <4>2. sets'[s] = sets[s]
        BY <4>1, <3>3, <1>3, <1>5
      <4>. QED
        BY <4>2, <3>1, <3>3
    <3>. QED
      BY <3>2, <3>3
  <2>3. Lists \in [0 .. m - 1 -> {Lists[s] : s \in 0 .. m - 1}] /\ DOMAIN Lists = 0 .. m - 1
    BY DEF Lists, m
  <2>. QED
    BY <2>1, <2>2, <2>3
<1>9. /\ hits' = hits + (IF Recency!Resident(a) THEN 1 ELSE 0)
      /\ misses' = misses + (IF Recency!Resident(a) THEN 0 ELSE 1)
  BY <1>5, <1>6, <1>7
<1>. QED
  BY <1>2, <1>8, <1>9 DEF Recency!Access, Lists, b

(* The empty cache is the empty lists. *)
LEMMA EmptyLists == Init => Recency!Init
<1>. SUFFICES ASSUME Init PROVE Recency!Init
  OBVIOUS
<1>1. ASSUME NEW s \in 0 .. 2^index_bits - 1
      PROVE  ByRank(s, sets[s]) = <<>>
  <2>1. s \in SetIndex
    BY CacheAssumption DEF Geometry, SetIndex
  <2>2. {w \in Way : sets[s][w].isValid} = {}
    BY <2>1 DEF Init
  <2>3. ByRank(s, sets[s]) = [r \in 1 .. 0 |-> BlockIn(s, sets[s], WayOfRank(sets[s], r - 1))]
    BY <2>2, FS_EmptySet DEF ByRank
  <2>. QED
    BY <2>3
<1>. QED
  BY <1>1 DEF Init, Recency!Init

(* LRU replacement (cache.cpp:67-117): the cache answers every access as    *)
(* the list of the blocks of the set used last would, for every geometry,   *)
(* sizes that are no powers of two included, and every sequence of accesses.*)
THEOREM CacheImplementsRecency == Spec => ImplementsRecency
<1>1. Inv /\ [Next]_vars => [Recency!Next]_Recency!vars
  <2>. SUFFICES ASSUME Inv, [Next]_vars
                PROVE  Recency!Next \/ UNCHANGED Recency!vars
    OBVIOUS
  <2>1. CASE UNCHANGED vars
    <3>1. UNCHANGED Recency!vars
      BY <2>1 DEF vars, Recency!vars
    <3>. QED
      BY <3>1
  <2>2. CASE Next
    BY <2>2, AccessIsRecent DEF Next, Recency!Next
  <2>. QED
    BY <2>1, <2>2
<1>2. Inv /\ [Next]_vars => [\A a \in Addresses : access(a) => Recency!Access(a)]_vars
  BY AccessIsRecent
<1>. QED
  BY <1>1, <1>2, EmptyLists, InvInductive, PTL DEF Spec, ImplementsRecency, Recency!Spec
==============================================================================
