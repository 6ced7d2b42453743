------------------------------- MODULE MCMemory -------------------------------
(***************************************************************************)
(* Instances of MemoryStore for TLC: two-bit bytes and a memory one byte   *)
(* longer than the widest access.                                          *)
(***************************************************************************)
EXTENDS MemoryStore

(* No image; one entry; entries that overlap; a missing last value; one     *)
(* that only the program hides; one that crosses the end.                   *)
MCImages == {<<>>, <<5, 228>>, <<4, 228, 5, 27, 1, 57>>, <<4, 255, 5>>, <<0, 57>>, <<1, 57, 7, 228>>}

(* No program, one shorter and one longer than the memory. *)
MCFiles == {<<>>, <<1, 2, 3>>, <<3, 2, 1, 0, 3, 2, 1, 0, 3, 2>>}

(* The first and the last bytes, accesses that cross the end, outside, and  *)
(* -1, from which offsets would wrap to 0.                                  *)
MCAddresses == {0, 5, 8, 9, 15}

(* Every digit different from its neighbours, and all digits at their most. *)
MCStoreValues == {228 * 256 + 57, 65535}

(* The whole memory, beyond its end, and a range that ends within a word.   *)
MCDumpRanges == {<<0, 9>>, <<4, 15>>, <<1, 6>>}
==============================================================================
