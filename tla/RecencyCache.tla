----------------------------- MODULE RecencyCache -----------------------------
(***************************************************************************)
(* What an LRU cache promises, without ways, tags, ranks or bit fields:    *)
(* each set remembers the last `ways` distinct blocks accessed, the most   *)
(* recent first, and an access hits when its block is among them.          *)
(***************************************************************************)
EXTENDS SequencesExt, Integers

CONSTANTS numSets, blockSize, ways, Addresses, MaxAccesses

VARIABLES recent, hits, misses
vars == <<recent, hits, misses>>

BlockOf(address) == address \div blockSize
SetOf(address)   == BlockOf(address) % numSets

Resident(address) == Contains(recent[SetOf(address)], BlockOf(address))

(* Where a block is, or else the place it gets: behind the last one while   *)
(* there is room, the last one's otherwise.                                 *)
Place(seq, b) ==
  IF Contains(seq, b) THEN CHOOSE i \in 1 .. Len(seq) : seq[i] = b
  ELSE IF Len(seq) < ways THEN Len(seq) + 1 ELSE Len(seq)

(* Block b comes to the front; those in front of its place move back by one.*)
MostRecent(seq, b) ==
  LET place == Place(seq, b)
  IN  [i \in 1 .. (IF place > Len(seq) THEN place ELSE Len(seq)) |->
         IF i = 1 THEN b ELSE IF i <= place THEN seq[i - 1] ELSE seq[i]]

Init == /\ recent = [s \in 0 .. numSets - 1 |-> <<>>]
        /\ hits = 0
        /\ misses = 0

Access(address) ==
  /\ hits' = hits + (IF Resident(address) THEN 1 ELSE 0)
  /\ misses' = misses + (IF Resident(address) THEN 0 ELSE 1)
  /\ recent' = [recent EXCEPT ![SetOf(address)] = MostRecent(@, BlockOf(address))]

Next == /\ hits + misses < MaxAccesses
        /\ \E a \in Addresses : Access(a)

Spec == Init /\ [][Next]_vars
==============================================================================
