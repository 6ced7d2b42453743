------------------------------ MODULE FlatMemory ------------------------------
(***************************************************************************)
(* What the memory promises to loads and stores, without bytes: it is one  *)
(* number of numEntries digits to the base 2^ByteBits, the digit at the    *)
(* lowest address being the lowest.  A load takes a field of digits, a     *)
(* store puts one in; of a field that reaches beyond the end only the part *)
(* inside is moved, and the call returns an error.                         *)
(***************************************************************************)
EXTENDS Integers

CONSTANTS ByteBits, startAddr, numEntries, AddrMod, Addresses, StoreValues

VARIABLES contents, phase, last
vars == <<contents, phase, last>>

Base     == 2 ^ ByteBits
Contents == 0 .. Base ^ numEntries - 1

Width == [B |-> 1, H |-> 2, W |-> 4, D |-> 8, BU |-> 1, HU |-> 2, WU |-> 4]
Signed == {"B", "H", "W"}

(* The field of an access: from digit From up to, and without, digit To. *)
From(address) == LET offset == (address + AddrMod - startAddr) % AddrMod
                 IN  IF offset < numEntries THEN offset ELSE numEntries
To(address, width) == IF From(address) + width <= numEntries
                      THEN From(address) + width ELSE numEntries

Error(address, width) == IF To(address, width) - From(address) < width THEN -22 ELSE 0

Field(address, width) ==
  (contents \div Base ^ From(address)) % (Base ^ (To(address, width) - From(address)))

(* A number of 8 digits that stands for a negative one: its complement.     *)
Extended(value, width) ==
  IF 2 * value < Base ^ width THEN value ELSE Base ^ 8 - (Base ^ width - value)

------------------------------------------------------------------------------
Init == contents \in Contents /\ phase # "ready" /\ last.op = "none"

(* Anything may happen to the memory before the simulator starts. *)
Prepare == phase # "ready" /\ contents' \in Contents /\ UNCHANGED last

Load(funct3, address) ==
  /\ phase = "ready"
  /\ last' = [op |-> "load", funct3 |-> funct3, address |-> address,
              value |-> IF funct3 \in Signed
                        THEN Extended(Field(address, Width[funct3]), Width[funct3])
                        ELSE Field(address, Width[funct3]),
              ret |-> Error(address, Width[funct3])]
  /\ UNCHANGED <<contents, phase>>

Store(funct3, address, value) ==
  LET width == Width[funct3]
      taken == To(address, width) - From(address)
  IN  /\ phase = "ready"
      /\ contents' = contents + ((value % (Base ^ taken)) - Field(address, width))
                                  * Base ^ From(address)
      /\ last' = [op |-> "store", funct3 |-> funct3, address |-> address,
                  value |-> value, ret |-> Error(address, width)]
      /\ UNCHANGED phase

Next ==
  \/ Prepare
  \/ \E funct3 \in DOMAIN Width, address \in Addresses : Load(funct3, address)
  \/ \E funct3 \in {"B", "H", "W", "D"}, address \in Addresses, value \in StoreValues :
       Store(funct3, address, value)

Spec == Init /\ [][Next]_vars
==============================================================================
