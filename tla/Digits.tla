------------------------------- MODULE Digits -------------------------------
(***************************************************************************)
(* Numerals of the active radix (septa/common/base7.py): the loops of      *)
(* format_base_n, format_balanced, parse_base_n and parse_balanced, one    *)
(* step for each digit, and parse_decimal.  A number is formatted and its  *)
(* numeral parsed; or a text is parsed, and what it stands for formatted   *)
(* and parsed again.  format_base_n and parse_base_n are there in every    *)
(* configuration, their balanced counterparts in a balanced one.           *)
(***************************************************************************)
EXTENDS RadixConfig, Sequences

CONSTANTS
    Numbers,    \* integers to format
    Texts,      \* sequences of characters to parse
    Decimals    \* what the digits after d: stand for in decimal

\* Characters: a decimal digit, or the nth letter of the alphabet.
Characters == [kind : {"digit"}, n : 0 .. 9] \cup [kind : {"letter"}, n : 1 .. 26]

\* The command line takes the bases 2 to 10: one character is one digit.
ASSUME DigitsAssumption ==
    /\ Base <= 10
    /\ Numbers \subseteq Int /\ Decimals \subseteq Int
    /\ Texts \subseteq Seq(Characters)

HalfBase == (Base - 1) \div 2

-----------------------------------------------------------------------------
(* Digits as characters.                                                   *)

Char(kind, n) == [kind |-> kind, n |-> n]

LetterT == Char("letter", 20)

\* str(d), or _digit_to_char: -1 is A, but T in base 3.
CharOf(d) ==
    IF d >= 0 THEN Char("digit", d)
    ELSE IF Base = 3 /\ d = -1 THEN LetterT
    ELSE Char("letter", -d)

\* Mutant: a positive digit may be any digit of the base.
IsBalancedDigit_Any(c) ==
    \/ c.kind = "digit" /\ c.n < Base
    \/ c.kind = "letter" /\ c.n <= 10
    \/ Base = 3 /\ c = LetterT

\* _char_to_digit finds the letters A to J in every base.
IsBalancedDigit(c) ==
    \/ c.kind = "digit" /\ c.n <= HalfBase
    \/ c.kind = "letter" /\ c.n <= 10
    \/ Base = 3 /\ c = LetterT

IsDigit(notation, c) ==
    IF notation = "balanced" THEN IsBalancedDigit(c)
    ELSE c.kind = "digit" /\ c.n < Base

DigitOf(c) == IF c.kind = "digit" THEN c.n ELSE IF c = LetterT THEN -1 ELSE -c.n

-----------------------------------------------------------------------------
VARIABLES
    stage,      \* "format", "parse", "decimal", "done" or "error"
    notation,   \* "base_n" or "balanced": which functions are at work
    number,     \* what is formatted
    values,     \* the values the loop of format has had; the last is current
    digits,     \* the digits it has found, the lowest first
    text,       \* what is parsed
    at,         \* the position of its next character
    result,     \* what the characters before it stand for
    source      \* the text that was given, if it is not made from number

vars == <<stage, notation, number, values, digits, text, at, result, source>>

Notations == {"base_n"} \cup (IF Balanced THEN {"balanced"} ELSE {})

Abs(n) == IF n < 0 THEN -n ELSE n

\* Entering format with a number, and parse with a text.
Format(n) ==
    /\ stage = "format"
    /\ number = n /\ values = <<Abs(n)>> /\ digits = <<>>

Init ==
    /\ notation \in Notations
    /\ \/ \E n \in Numbers :
             /\ Format(n) /\ text = <<>> /\ source = <<>>
       \/ /\ stage = "parse"
          /\ text \in Texts /\ source = text
          /\ number = 0 /\ values = <<>> /\ digits = <<>>
       \/ /\ stage = "decimal" /\ notation = "base_n" /\ number \in Decimals
          /\ values = <<>> /\ digits = <<>> /\ text = <<>> /\ source = <<>>
    /\ at = 1 /\ result = 0

\* Mutant: a digit of half the base is carried as well.
Carries_AtHalf(nt, rem) == nt = "balanced" /\ rem >= HalfBase

\* Mutant: unsigned digits are carried as well.
Carries_Always(nt, rem) == rem > HalfBase

\* More than half the base becomes a negative digit and a carry.
Carries(nt, rem) == nt = "balanced" /\ rem > HalfBase

NextDigit(nt, value) ==
    IF Carries(nt, value % Base) THEN (value % Base) - Base ELSE value % Base

Value == values[Len(values)]

\* format_base_n raises ValueError for a negative number.
Formattable == notation = "balanced" \/ number >= 0

RefuseNegative ==
    /\ stage = "format" /\ ~ Formattable
    /\ stage' = "error"
    /\ UNCHANGED <<notation, number, values, digits, text, at, result, source>>

\* Bound of the model, never reached: a word has at most WordWidth digits.
MaxDigits == WordWidth + 2

FormatDigit ==
    /\ stage = "format" /\ Formattable /\ Value > 0 /\ Len(digits) < MaxDigits
    /\ digits' = Append(digits, NextDigit(notation, Value))
    /\ values' = Append(values, (Value - NextDigit(notation, Value)) \div Base)
    /\ UNCHANGED <<stage, notation, number, text, at, result, source>>

\* Mutant: the numeral of a negative number is that of its magnitude.
Signed_Never(d) == d

Signed(d) == IF number < 0 THEN -d ELSE d

\* The digits, the highest first; a numeral is never empty.
Numeral ==
    IF number = 0 THEN <<CharOf(0)>>
    ELSE [k \in DOMAIN digits |-> CharOf(Signed(digits[Len(digits) + 1 - k]))]

EndFormat ==
    /\ stage = "format" /\ Formattable /\ Value = 0
    /\ stage' = "parse" /\ text' = Numeral /\ at' = 1 /\ result' = 0
    /\ UNCHANGED <<notation, number, values, digits, source>>

ParseDigit ==
    /\ stage = "parse" /\ at <= Len(text)
    /\ IF IsDigit(notation, text[at])
       THEN /\ result' = result * Base + DigitOf(text[at])
            /\ at' = at + 1
            /\ UNCHANGED stage
       ELSE stage' = "error" /\ UNCHANGED <<at, result>>
    /\ UNCHANGED <<notation, number, values, digits, text, source>>

\* Mutant: one largest word for both notations.
InRange_OneMaximum(n) == n \in Word

\* parse_base_n knows the largest unsigned word only.
InRange(n) ==
    IF notation = "balanced" THEN n \in Word ELSE n <= Modulus - 1

\* What a given text stands for is formatted and parsed again.
EndParse ==
    /\ stage = "parse" /\ at > Len(text)
    /\ UNCHANGED <<notation, text, at, result, source>>
    /\ IF text = <<>> \/ ~ InRange(result)
       THEN stage' = "error" /\ UNCHANGED <<number, values, digits>>
       ELSE IF values = <<>>
       THEN /\ stage' = "format" /\ number' = result
            /\ values' = <<Abs(result)>> /\ digits' = <<>>
       ELSE stage' = "done" /\ UNCHANGED <<number, values, digits>>

ParseDecimal ==
    /\ stage = "decimal"
    /\ IF number < 0 \/ number > Modulus - 1
       THEN stage' = "error" /\ UNCHANGED result
       ELSE stage' = "done" /\ result' = number
    /\ UNCHANGED <<notation, number, values, digits, text, at, source>>

Next ==
    \/ RefuseNegative \/ FormatDigit \/ EndFormat
    \/ ParseDigit \/ EndParse \/ ParseDecimal

Spec == Init /\ [][Next]_vars /\ WF_vars(Next)

-----------------------------------------------------------------------------
Formatted == values # <<>>

\* The words of the configuration each notation writes.
Representable(n) ==
    IF notation = "balanced" THEN n \in Word ELSE n \in 0 .. Modulus - 1

\* The numeral of a word is accepted and stands for that word, in either
\* notation, whatever digits and carries it takes.
RoundTrip ==
    Formatted /\ Representable(number) =>
        stage # "error" /\ (stage = "done" => result = number)

\* The digits of a notation and what each of them stands for: in a balanced
\* base up to half the base either way, -1, -2, ... being A, B, ..., and T in
\* base 3.
DigitTable ==
    IF notation = "base_n" THEN [c \in {Char("digit", d) : d \in 0 .. Base - 1} |-> c.n]
    ELSE [c \in {Char("digit", d) : d \in 0 .. HalfBase} \cup
                (IF Base = 3 THEN {LetterT} ELSE {Char("letter", k) : k \in 1 .. HalfBase}) |->
             IF c.kind = "digit" THEN c.n ELSE IF Base = 3 THEN -1 ELSE -c.n]

Power[n \in Nat] == IF n = 0 THEN 1 ELSE Base * Power[n - 1]

\* The sums of the digits of t from the left, each times the power of its place.
Sums(t) ==
    LET S[k \in 0 .. Len(t)] ==
            IF k = 0 THEN 0 ELSE S[k - 1] + DigitTable[t[k]] * Power[Len(t) - k]
    IN  S

Positional(t) == Sums(t)[Len(t)]

AllDigits(t) == \A k \in DOMAIN t : t[k] \in DOMAIN DigitTable

\* Letters from A to J that are digits of a larger balanced base only.
ForeignLetter(c) ==
    /\ notation = "balanced" /\ c.kind = "letter" /\ c.n <= 10
    /\ c \notin DOMAIN DigitTable

NoForeignLetter(t) == \A k \in DOMAIN t : ~ ForeignLetter(t[k])

\* A text is accepted exactly if it consists of digits and what they stand for
\* by position is a word, an unsigned one for parse_base_n in a balanced
\* configuration too; and it is read as that.  Texts with a letter of a larger
\* base are left to the next two properties.
ReadByPosition ==
    source # <<>> /\ stage \in {"done", "error"} /\ NoForeignLetter(source) =>
        /\ Formatted <=> AllDigits(source) /\ Representable(Positional(source))
        /\ Formatted => number = Positional(source)

\* Which of the texts that are accepted are the numeral of what they stand
\* for, but for zeros in front: all without a letter of a larger base, so
\* these give no number two numerals, and none with such a letter.
NumeralsUnique ==
    stage = "done" /\ source # <<>> =>
        (NoForeignLetter(source) <=>
            \E k \in 1 .. Len(source) :
               /\ text = SubSeq(source, k, Len(source))
               /\ \A j \in 1 .. k - 1 : source[j] = CharOf(0))

\* What the design document says of the digits of balanced base 3, that they
\* are T, 0 and 1, and of those of the bases 5 and 7: no text with another
\* character is accepted.
OnlyDigitsAccepted == stage = "done" /\ source # <<>> => AllDigits(source)

\* Both loops come to an end, the carries of balanced digits included.
Terminates == <>(stage \in {"done", "error"})
=============================================================================
