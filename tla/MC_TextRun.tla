----------------------------- MODULE MC_TextRun -----------------------------
(***************************************************************************)
(* An instance of TextRun for TLC: every text of a few characters, chosen  *)
(* so that each stands for one case of the scanner, and some programs; the *)
(* token lists of MC_TokenLists; the syntax trees of MC_SourcePrograms.    *)
(***************************************************************************)
EXTENDS TextRun, RadixConfig, SequencesExt

\* 3 is no digit of base 3, ~ is no character of the language.
AllChars == {"d", ":", "1", "3", "i", "f", "_", "=", "-", ">", "/", " ", "\n", "~"}

\* Longer ones, of the characters that comments, lines and prefixes are made of.
FewChars == {"/", "\n", " ", "d", ":", "1", "="}

\* Whole programs: a decimal and a number of base 3 are added and printed; a
\* main with a wrong type, a name that is not declared, a body that ends in a
\* comment, a literal beyond the largest word, a program without a main.
ProgramTexts ==
    {"fn main()->void{print(d:9+12);}", "fn main()->bool7{}", "fn main()->void{g=1;}",
     "fn main()->void{//}\n}", "let a:word=d:243;", "let a:word=d:242;"}

Chars(s) == [k \in 1 .. Len(s) |-> SubSeq(s, k, k)]

MCTexts ==
    BoundedSeq(AllChars, 4) \cup [1 .. 5 -> FewChars] \cup {Chars(t) : t \in ProgramTexts}

MCCharacters == AllChars \cup UNION {ToSet(Chars(t)) : t \in ProgramTexts}

MCLetters ==
    MCCharacters \cap {"a", "b", "d", "e", "f", "g", "i", "l", "m", "n", "o", "p", "r",
                       "t", "v", "w"}

Lists == INSTANCE MC_TokenLists

MCTokenLists == Lists!TokenFamilies

Written == INSTANCE MC_SourcePrograms

MCSources == Written!SourcePrograms

\* max_word, with which parse_base_n and parse_decimal compare.
MCMaxLiteral == RadixModulus - 1
=============================================================================
