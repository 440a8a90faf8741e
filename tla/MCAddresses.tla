----------------------------- MODULE MCAddresses -----------------------------
(* Model-checking values for Addresses: the program's own sizes.           *)
EXTENDS Addresses
Base == 16 * PAGE_SIZE
==============================================================================
