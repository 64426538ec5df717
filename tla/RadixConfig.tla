---------------------------- MODULE RadixConfig ----------------------------
(***************************************************************************)
(* The machine parameters that septa/common/config.py derives from a base, *)
(* a word width and a representation, and the one address that             *)
(* septa/codegen/addresses.py derives from the memory size.  The modules   *)
(* that are model-checked extend this one, and their configurations give   *)
(* the parameters of the other modules these values.                       *)
(***************************************************************************)
EXTENDS Words

CONSTANTS Base, WordWidth

ASSUME RadixAssumption ==
    /\ Base \in Nat /\ Base >= 2
    /\ WordWidth \in Nat /\ WordWidth >= 1
    /\ Balanced => Base % 2 = 1

RadixModulus    == Base ^ WordWidth
RadixMemorySize == Base ^ 5
RadixBoolTrue   == IF Balanced THEN (Base - 1) \div 2 ELSE Base - 1

\* First address of the compiler's static slots; store[] owns those below.
RadixDataBase ==
    IF RadixMemorySize >= 200 THEN 100
    ELSE IF RadixMemorySize \div 4 > 4 THEN RadixMemorySize \div 4 ELSE 4
=============================================================================
