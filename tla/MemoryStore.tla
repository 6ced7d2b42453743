------------------------------ MODULE MemoryStore ------------------------------
(***************************************************************************)
(* The memory of src/MemoryStore.cpp byte by byte: its construction from   *)
(* the memory image and the program file, the accesses simMemAccess makes  *)
(* for loads and stores, and the dump at the end.                          *)
(*                                                                         *)
(* A byte has ByteBits bits (8 in the code), so a register, DOUBLE_SIZE    *)
(* bytes, is a number below Base^8.  The files are sequences of numbers:   *)
(* init_mem_image holds an address and a value by turns, up to the first   *)
(* token that is no number, and the program file holds bytes.              *)
(***************************************************************************)
EXTENDS Integers, Sequences, FiniteSetsExt

CONSTANTS
  ByteBits,
  startAddr, numEntries,   (* the constructor's arguments                   *)
  AddrMod,                 (* addresses are numbers modulo AddrMod          *)
  Images,                  (* contents of init_mem_image; empty: no file    *)
  Files,                   (* contents of the program file; empty: no file  *)
  Addresses, StoreValues,  (* the accesses made                             *)
  DumpRanges, PerRow,      (* print_mem_range, and entries per row (5)      *)
  MaxCalls                 (* bound on the calls of a behaviour             *)

Base == 2 ^ ByteBits
Byte == 0 .. Base - 1
Cell == 0 .. numEntries - 1

BYTE_SIZE   == 1
HALF_SIZE   == 2
WORD_SIZE   == 4
DOUBLE_SIZE == 8

Register == 0 .. Base ^ DOUBLE_SIZE - 1

(* No file is longer than there are addresses.  The last two conjuncts hold *)
(* of every base: TLC computes powers, and no prover here knows of them.    *)
ASSUME MemoryAssumption ==
  /\ ByteBits \in Nat \ {0}
  /\ AddrMod \in Nat \ {0}
  /\ startAddr \in 0 .. AddrMod - 1
  /\ numEntries \in 1 .. AddrMod - 1
  /\ Images \subseteq Seq(Nat)
  /\ Files \subseteq Seq(Byte) /\ \A f \in Files : Len(f) <= AddrMod
  /\ Addresses \subseteq 0 .. AddrMod - 1
  /\ StoreValues \subseteq Register
  /\ DumpRanges \subseteq (0 .. AddrMod - 1) \X (0 .. AddrMod - 1)
  /\ PerRow \in Nat \ {0}
  /\ MaxCalls \in Nat
  /\ Base = 2 * 2 ^ (ByteBits - 1) /\ 2 ^ (ByteBits - 1) \in Nat \ {0}
  /\ /\ Base ^ 0 = 1
     /\ \A i \in (1 .. numEntries) \cup (1 .. DOUBLE_SIZE) : Base ^ i = Base * Base ^ (i - 1)

VARIABLES
  memArr,        (* the vector of bytes                                      *)
  image, read,   (* init_mem_image, and how many of its tokens have been read*)
  file, loaded,  (* the program file, and how many of its bytes are loaded   *)
  phase,         (* "prepare", "load", "ready", or "aborted" by the assertion*)
  last,          (* the last load or store and what it returned              *)
  dump,          (* the last dump                                            *)
  calls
files == <<image, file>>
vars == <<memArr, files, read, loaded, phase, last, dump, calls>>

------------------------------------------------------------------------------
(* getOrSetValue *)

EINVAL == 22

relativeAddr(address) == (address - startAddr) % AddrMod

ByteOf(value, i) == (value \div Base ^ i) % Base

(* Mutant of Moved: an access that does not fit moves nothing. *)
AllOrNothing(address, size) ==
  IF relativeAddr(address) + size <= numEntries THEN size ELSE 0

(* The bytes moved before at() throws, from the first one on. *)
Moved(address, size) ==
  IF relativeAddr(address) >= numEntries THEN 0
  ELSE Min({size, numEntries - relativeAddr(address)})

(* Mutant of Ret: the sign of the error code is lost. *)
PositiveError(address, size) == IF Moved(address, size) = size THEN 0 ELSE EINVAL

Ret(address, size) == IF Moved(address, size) = size THEN 0 ELSE -EINVAL

(* So many bytes or'ed into their places, from the cell first on. *)
Number(mem, first, count) ==
  LET sum[n \in Nat] ==
        IF n = 0 THEN 0 ELSE sum[n - 1] + mem[first + (n - 1)] * Base ^ (n - 1)
  IN  sum[count]

(* What a read returns: the bytes not moved read as zero. *)
Assembled(mem, address, size) == Number(mem, relativeAddr(address), Moved(address, size))

(* A write leaves what it has written when at() throws. *)
Written(mem, address, value, size) ==
  [c \in Cell |->
     IF c - relativeAddr(address) \in 0 .. Moved(address, size) - 1
     THEN ByteOf(value, c - relativeAddr(address)) ELSE mem[c]]

------------------------------------------------------------------------------
(* simMemAccess *)

LoadFunct3  == {"B", "H", "W", "D", "BU", "HU", "WU"}
StoreFunct3 == {"B", "H", "W", "D"}

SizeOf(funct3) ==
  CASE funct3 \in {"B", "BU"} -> BYTE_SIZE
    [] funct3 \in {"H", "HU"} -> HALF_SIZE
    [] funct3 \in {"W", "WU"} -> WORD_SIZE
    [] OTHER -> DOUBLE_SIZE

(* sext64(value, size * 8 - 1): ones above the sign bit when it is set.     *)
sext64(value, size) ==
  IF value >= Base ^ size \div 2
  THEN value + (Base ^ DOUBLE_SIZE - Base ^ size) ELSE value

memResult(mem, funct3, address) ==
  LET size  == SizeOf(funct3)
      value == Assembled(mem, address, size)
  IN  IF funct3 \in {"B", "H", "W"} THEN sext64(value, size) ELSE value

------------------------------------------------------------------------------
(* printMemArray *)

(* Mutant of RowBytes: a row's address advances by its entries. *)
RowEntries(entrySize) == PerRow

(* What curAddr advances by from row to row. *)
RowBytes(entrySize) == entrySize * PerRow

(* The entries printed, each with the address at the head of its row, its   *)
(* column, and the bytes printed of it before at() throws.                  *)
printMemArray(mem, start, end, entrySize) ==
  LET relStart == relativeAddr(start)
      printed  == {r \in Cell : /\ relStart <= r /\ r < relativeAddr(end)
                                /\ (r - relStart) % entrySize = 0}
      row(r)   == (r - relStart) \div (entrySize * PerRow)
  IN  {[address |-> (start + row(r) * RowBytes(entrySize)) % AddrMod,
        column  |-> ((r - relStart) \div entrySize) % PerRow,
        bytes   |-> [j \in 0 .. Moved(r + startAddr, entrySize) - 1 |-> mem[r + j]]] :
         r \in printed}

------------------------------------------------------------------------------
NoCall == [op |-> "none", funct3 |-> "D", address |-> 0, value |-> 0, ret |-> 0]
NoDump == [start |-> 0, end |-> 0, entries |-> {}]

(* The constructor's first lines. *)
Init ==
  /\ memArr = [c \in Cell |-> 0]
  /\ image \in Images /\ read = 0
  /\ file \in Files /\ loaded = 0
  /\ phase = IF image = <<>> THEN "load" ELSE "prepare"
  /\ last = NoCall /\ dump = NoDump
  /\ calls = 0

(* The i-th number of the image; 0 when nothing can be read. *)
Token(i) == IF i <= Len(image) THEN image[i] ELSE 0

(* Mutant of prepareMemory: a failed entry does not stop the program. *)
IgnoresBadEntry ==
  /\ phase = "prepare"
  /\ memArr' = Written(memArr, Token(read + 1), Token(read + 2), WORD_SIZE)
  /\ read' = read + 2
  /\ phase' = IF read' > Len(image) THEN "load" ELSE phase
  /\ UNCHANGED <<files, loaded, last, dump, calls>>

(* One iteration of prepareMemory.  The stream fails only when a read finds *)
(* nothing, so after the last pair one more word is written, 0 at 0.  An    *)
(* entry outside the memory fails the assertion of the constructor.         *)
prepareMemory ==
  /\ phase = "prepare"
  /\ memArr' = Written(memArr, Token(read + 1), Token(read + 2), WORD_SIZE)
  /\ read' = read + 2
  /\ phase' = IF Ret(Token(read + 1), WORD_SIZE) # 0 THEN "aborted"
              ELSE IF read' > Len(image) THEN "load" ELSE phase
  /\ UNCHANGED <<files, loaded, last, dump, calls>>

(* One iteration of loadFromFile; a byte that does not fit is dropped. *)
loadFromFile ==
  /\ phase = "load"
  /\ IF loaded < Len(file)
     THEN /\ memArr' = Written(memArr, loaded, file[loaded + 1], BYTE_SIZE)
          /\ loaded' = loaded + 1
          /\ UNCHANGED phase
     ELSE phase' = "ready" /\ UNCHANGED <<memArr, loaded>>
  /\ UNCHANGED <<files, read, last, dump, calls>>

Called == phase = "ready" /\ calls < MaxCalls /\ calls' = calls + 1

Load(funct3, address) ==
  /\ Called
  /\ last' = [op |-> "load", funct3 |-> funct3, address |-> address,
              value |-> memResult(memArr, funct3, address),
              ret |-> Ret(address, SizeOf(funct3))]
  /\ UNCHANGED <<memArr, files, read, loaded, phase, dump>>

Store(funct3, address, value) ==
  /\ Called
  /\ memArr' = Written(memArr, address, value, SizeOf(funct3))
  /\ last' = [op |-> "store", funct3 |-> funct3, address |-> address,
              value |-> value, ret |-> Ret(address, SizeOf(funct3))]
  /\ UNCHANGED <<files, read, loaded, phase, dump>>

dumpMemoryState(start, end) ==
  /\ Called
  /\ dump' = [start |-> start, end |-> end,
              entries |-> printMemArray(memArr, start, end, WORD_SIZE)]
  /\ UNCHANGED <<memArr, files, read, loaded, phase, last>>

(* The program has aborted, or makes no more calls. *)
Idle == /\ phase = "aborted" \/ (phase = "ready" /\ calls = MaxCalls)
        /\ UNCHANGED vars

Next ==
  \/ prepareMemory
  \/ loadFromFile
  \/ \E funct3 \in LoadFunct3, address \in Addresses : Load(funct3, address)
  \/ \E funct3 \in StoreFunct3, address \in Addresses, value \in StoreValues :
       Store(funct3, address, value)
  \/ \E range \in DumpRanges : dumpMemoryState(range[1], range[2])
  \/ Idle

Spec == Init /\ [][Next]_vars

------------------------------------------------------------------------------
(* Type correctness; an error is always -EINVAL. *)
TypeOK ==
  /\ memArr \in [Cell -> Byte]
  /\ read \in Nat /\ loaded \in 0 .. Len(file)
  /\ phase \in {"prepare", "load", "ready", "aborted"}
  /\ last.value \in Register /\ last.ret \in {0, -EINVAL}
  /\ calls \in 0 .. MaxCalls

(* The memory is one little-endian number: an access takes or replaces some *)
(* of its digits, and of an access that crosses the end (MemoryStore.cpp:72)*)
(* the digits inside, with the error reported.                              *)
Digits == Number(memArr, 0, numEntries)

Flat == INSTANCE FlatMemory WITH contents <- Digits
ImplementsFlat == Flat!Spec

(* The image's entry that covers cell c last, 0 when there is none.         *)
Covering(c) ==
  Max({0} \cup {k \in 1 .. (Len(image) + 1) \div 2 :
                  c - relativeAddr(Token(2 * k - 1)) \in 0 .. WORD_SIZE - 1})

(* "If we can't initialise memory appropriately, don't return a MemoryStore *)
(* at all" (MemoryStore.cpp:16): a memory that is used got every entry of   *)
(* the image whole.  A byte of the program is then the program's, any other *)
(* byte outside the first word that of the last entry for it, or zero.  The *)
(* first word is left out: prepareMemory's last iteration clears it.        *)
LoadedAsGiven ==
  phase = "ready" /\ calls = 0 =>
    /\ \A k \in 1 .. (Len(image) + 1) \div 2 : Ret(Token(2 * k - 1), WORD_SIZE) = 0
    /\ \A c \in Cell :
         \/ c >= Len(file) /\ c < WORD_SIZE
         \/ memArr[c] =
              IF c < Len(file) THEN file[c + 1]
              ELSE IF Covering(c) = 0 THEN 0
              ELSE ByteOf(Token(2 * Covering(c)),
                          c - relativeAddr(Token(2 * Covering(c) - 1)))

(* A dump shows every byte of its range that exists, under the address at   *)
(* the head of its row plus its place in the row (printMemArray).           *)
DumpShowsRange ==
  [][\A range \in DumpRanges : dumpMemoryState(range[1], range[2]) =>
       \A c \in Cell :
         relativeAddr(range[1]) <= c /\ c < relativeAddr(range[2]) =>
           \E entry \in dump'.entries : \E j \in DOMAIN entry.bytes :
             /\ relativeAddr(entry.address) + WORD_SIZE * entry.column + j = c
             /\ entry.bytes[j] = memArr[c]]_vars
==============================================================================
