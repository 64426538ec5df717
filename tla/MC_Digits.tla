----------------------------- MODULE MC_Digits -----------------------------
(***************************************************************************)
(* An instance of Digits for TLC: every word and some numbers beyond, and  *)
(* every text of a few characters, one of them longer than a word.         *)
(***************************************************************************)
EXTENDS Digits, SequencesExt

\* The digits of the base, the first that is none, and letters: A, B, K, T.
AllChars ==
    {Char("digit", n) : n \in 0 .. Base} \cup {Char("letter", n) : n \in {1, 2, 11, 20}}

MCNumbers  == (-Modulus - 2) .. (Modulus + 2)
MCDecimals == -1 .. (Modulus + 1)
MCTexts    == BoundedSeq(AllChars, WordWidth + 1)
=============================================================================
