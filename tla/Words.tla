------------------------------- MODULE Words -------------------------------
(***************************************************************************)
(* Machine words of the SeptaVM: the integers a register or a memory cell  *)
(* can hold, and the wrap-around of every value stored into one.           *)
(* (septa/common/config.py, class RadixConfig.)                            *)
(*                                                                         *)
(* RadixConfig derives the modulus from a base and a word width; here the  *)
(* modulus is a parameter, so that what is proved holds of every radix.    *)
(* Module RadixConfig computes the modulus for the instances TLC checks.   *)
(***************************************************************************)
EXTENDS Integers

CONSTANTS
    Modulus,     \* base ^ word_width
    Balanced     \* TRUE for the balanced representation, FALSE for unsigned

\* RadixConfig.__post_init__ demands base >= 2, word_width >= 1 and, for the
\* balanced representation, an odd base: its powers are odd as well.
ASSUME WordsAssumption ==
    /\ Modulus \in Nat
    /\ Modulus >= 2
    /\ Balanced \in BOOLEAN
    /\ Balanced => Modulus % 2 = 1

Half == (Modulus - 1) \div 2

WordMin == IF Balanced THEN -Half ELSE 0
WordMax == IF Balanced THEN Half ELSE Modulus - 1

Word == WordMin .. WordMax

\* Mutant: the balanced representation is forgotten.
WrapWord_Unsigned(v) == v % Modulus

\* The word an arbitrary integer becomes when it is stored.
WrapWord(v) ==
    IF Balanced THEN ((v + Half) % Modulus) - Half ELSE v % Modulus
=============================================================================
