------------------------------- MODULE MCCache -------------------------------
(***************************************************************************)
(* Instances of Cache for TLC.  A behaviour is any sequence of at most     *)
(* MaxAccesses accesses to Addresses.                                      *)
(***************************************************************************)
EXTENDS Cache

(* Four blocks fall into each of the two sets in use. *)
MCAddresses == 0 .. 15
==============================================================================
