--------------------------- MODULE Digits_proofs ---------------------------
(***************************************************************************)
(* What holds of numerals, for every base from 2 to 10, every word width   *)
(* and both notations.                                                     *)
(*                                                                         *)
(* The numeral of a word stands for that word: the two loops are matched   *)
(* step by step.  format has the values v1, ..., vn, 0, each of them the   *)
(* next one times the base plus a digit, and parse goes through the same   *)
(* values backwards.  No power of the base is needed.                      *)
(*                                                                         *)
(* Digits of the base give a number one numeral: format takes from a       *)
(* number that was parsed the digits it was parsed from, the last first,   *)
(* because a digit is known from its remainder.  A letter of a larger base *)
(* is accepted but never written, so a text with one is no numeral.        *)
(*                                                                         *)
(* A text is read by position: what parse has read so far, moved to its    *)
(* place by a power of the base, is the sum of the digits up to there.     *)
(***************************************************************************)
EXTENDS Digits, Induction

DigitSet(nt) == IF nt = "balanced" THEN -HalfBase .. HalfBase ELSE 0 .. Base - 1

Chars == [kind : {"digit", "letter"}, n : Nat]

TypeInv ==
    /\ number \in Int /\ result \in Int /\ at \in Nat \ {0}
    /\ notation \in Notations
    /\ values \in Seq(Nat) /\ digits \in Seq(DigitSet(notation)) /\ text \in Seq(Chars)
    /\ stage \in {"format", "parse", "decimal", "done", "error"}

\* What format has done: each value is the next one with a digit behind it.
Traced ==
    /\ Len(values) = Len(digits) + 1
    /\ values[1] = Abs(number)
    /\ \A k \in DOMAIN digits : values[k] = values[k + 1] * Base + digits[k]

\* What parse has done: it is at the value the loop of format had when the
\* digits that follow were not yet found.
Retraced ==
    /\ Value = 0 /\ Formattable
    /\ text = Numeral
    /\ at <= Len(text) + 1
    /\ result = IF number = 0 THEN 0 ELSE Signed(values[Len(digits) + 2 - at])

IInv ==
    /\ TypeInv
    /\ stage = "format" => Formatted
    /\ stage = "decimal" => ~ Formatted
    /\ Formatted => Traced
    /\ Formatted /\ stage = "parse" => Retraced
    /\ Formatted /\ stage = "done" => result = number
    /\ Formatted /\ stage = "error" => ~ Representable(number)
-----------------------------------------------------------------------------
\* The bases are few: what division does is computed for each.
LEMMA Bases == Base \in {2, 3, 4, 5, 6, 7, 8, 9, 10} /\ (Balanced => Base \in {3, 5, 7, 9})
  BY RadixAssumption, DigitsAssumption

LEMMA Division ==
    ASSUME NEW v \in Nat
    PROVE  \E q \in Nat, r \in 0 .. Base - 1 :
              v \div Base = q /\ v % Base = r /\ v = q * Base + r
<1> DEFINE q == v \div Base
           r == v % Base
<1>1. q \in Nat /\ r \in 0 .. Base - 1 /\ v = q * Base + r
  <2>1. CASE Base = 2 BY <2>1
  <2>2. CASE Base = 3 BY <2>2
  <2>3. CASE Base = 4 BY <2>3
  <2>4. CASE Base = 5 BY <2>4
  <2>5. CASE Base = 6 BY <2>5
  <2>6. CASE Base = 7 BY <2>6
  <2>7. CASE Base = 8 BY <2>7
  <2>8. CASE Base = 9 BY <2>8
  <2>9. CASE Base = 10 BY <2>9
  <2> QED
    BY Bases, <2>1, <2>2, <2>3, <2>4, <2>5, <2>6, <2>7, <2>8, <2>9
<1> QED
  BY <1>1

LEMMA Quotient ==
    ASSUME NEW n \in Nat
    PROVE  (n * Base) \div Base = n
<1>1. CASE Base = 2 BY <1>1
<1>2. CASE Base = 3 BY <1>2
<1>3. CASE Base = 4 BY <1>3
<1>4. CASE Base = 5 BY <1>4
<1>5. CASE Base = 6 BY <1>5
<1>6. CASE Base = 7 BY <1>6
<1>7. CASE Base = 8 BY <1>7
<1>8. CASE Base = 9 BY <1>8
<1>9. CASE Base = 10 BY <1>9
<1> QED
  BY Bases, <1>1, <1>2, <1>3, <1>4, <1>5, <1>6, <1>7, <1>8, <1>9

\* One step of format loses nothing, and its digit is one of the base.
LEMMA DigitStep ==
    ASSUME NEW nt \in Notations, NEW v \in Nat
    PROVE  /\ NextDigit(nt, v) \in DigitSet(nt)
           /\ (v - NextDigit(nt, v)) \div Base \in Nat
           /\ v = ((v - NextDigit(nt, v)) \div Base) * Base + NextDigit(nt, v)
<1>1. PICK q \in Nat, r \in 0 .. Base - 1 : v % Base = r /\ v = q * Base + r
  BY Division
<1>2. NextDigit(nt, v) = IF nt = "balanced" /\ r > HalfBase THEN r - Base ELSE r
  BY <1>1 DEF NextDigit, Carries
<1>3. Base \in Nat /\ HalfBase \in Nat /\ (nt = "balanced" => Base = 2 * HalfBase + 1)
  BY Bases DEF HalfBase, Notations
<1>4. NextDigit(nt, v) \in DigitSet(nt)
  BY <1>2, <1>3 DEF DigitSet
<1>5. PICK n \in Nat : v - NextDigit(nt, v) = n * Base
  <2>1. CASE nt = "balanced" /\ r > HalfBase
    <3>1. v - NextDigit(nt, v) = q * Base + Base
      BY <2>1, <1>1, <1>2, <1>3
    <3>2. q * Base + Base = (q + 1) * Base
      BY <1>3
    <3> QED
      BY <3>1, <3>2
  <2>2. CASE ~ (nt = "balanced" /\ r > HalfBase)
    BY <2>2, <1>1, <1>2, <1>3
  <2> QED
    BY <2>1, <2>2
<1>6. (v - NextDigit(nt, v)) \div Base = n
  BY <1>5, Quotient
<1>7. NextDigit(nt, v) \in Int
  BY <1>2, <1>3
<1>8. v = n * Base + NextDigit(nt, v)
  BY <1>5, <1>7, <1>3
<1> QED
  BY <1>4, <1>6, <1>8

-----------------------------------------------------------------------------
\* The character of a digit is read back as that digit.
LEMMA CharacterOfDigit ==
    ASSUME NEW nt \in Notations, NEW d \in DigitSet(nt)
    PROVE  CharOf(d) \in Chars /\ IsDigit(nt, CharOf(d)) /\ DigitOf(CharOf(d)) = d
<1>1. Base \in Nat /\ HalfBase \in 0 .. 4 /\ HalfBase < Base /\ d \in Int
  BY Bases DEF HalfBase, DigitSet
<1>2. CASE d >= 0
  <2>1. CharOf(d) = Char("digit", d)
    BY <1>2 DEF CharOf
  <2>2. IF nt = "balanced" THEN d <= HalfBase ELSE d < Base
    BY <1>1 DEF DigitSet
  <2> QED
    BY <2>1, <2>2, <1>1, <1>2 DEF Char, Chars, IsDigit, IsBalancedDigit, DigitOf
<1>3. CASE d < 0
  <2>1. nt = "balanced" /\ -d \in 1 .. 4
    BY <1>3, <1>1 DEF DigitSet
  <2>2. CASE Base = 3 /\ d = -1
    BY <2>1, <2>2, <1>3 DEF CharOf, Char, LetterT, Chars, IsDigit, IsBalancedDigit, DigitOf
  <2>3. CASE ~ (Base = 3 /\ d = -1)
    <3>1. PICK m \in 1 .. 4 : m = -d
      BY <2>1
    <3>2. CharOf(d) = Char("letter", m)
      BY <2>3, <3>1, <1>1, <1>3 DEF CharOf
    <3>3. Char("letter", m) \in Chars /\ Char("letter", m) # LetterT
      BY <3>1 DEF Char, Chars, LetterT
    <3>4. IsDigit(nt, Char("letter", m))
      BY <2>1, <3>1 DEF IsDigit, IsBalancedDigit, Char
    <3>5. DigitOf(Char("letter", m)) = -m
      BY <3>3 DEF DigitOf, Char
    <3> QED
      BY <3>1, <3>2, <3>3, <3>4, <3>5, <1>1
  <2> QED
    BY <2>2, <2>3
<1> QED
  BY <1>1, <1>2, <1>3

\* A digit with the sign of the number is a digit of the numeral.
LEMMA SignedDigit ==
    ASSUME number \in Int, Formattable, NEW d \in DigitSet(notation)
    PROVE  Signed(d) \in DigitSet(notation)
<1>1. HalfBase \in Nat
  BY Bases DEF HalfBase
<1>2. CASE notation = "balanced"
  BY <1>1, <1>2 DEF DigitSet, Signed
<1>3. CASE notation # "balanced"
  BY <1>3 DEF Formattable, DigitSet, Signed
<1> QED
  BY <1>1, <1>2, <1>3

\* The characters of the numeral, one by one.
LEMMA NumeralDigits ==
    ASSUME TypeInv, Formattable, number # 0
    PROVE  /\ Numeral \in Seq(Chars) /\ Len(Numeral) = Len(digits)
           /\ \A k \in 1 .. Len(digits) :
                 /\ IsDigit(notation, Numeral[k])
                 /\ DigitOf(Numeral[k]) = Signed(digits[Len(digits) + 1 - k])
<1> DEFINE n == Len(digits)
           d(k) == Signed(digits[n + 1 - k])
<1>1. n \in Nat /\ DOMAIN digits = 1 .. n /\ number \in Int /\ notation \in Notations
  BY DEF TypeInv
<1>2. \A k \in 1 .. n : digits[n + 1 - k] \in DigitSet(notation)
  BY <1>1 DEF TypeInv
<1>3. \A k \in 1 .. n : d(k) \in DigitSet(notation)
  BY <1>1, <1>2, SignedDigit
<1>4. Numeral = [k \in 1 .. n |-> CharOf(d(k))]
  BY <1>1 DEF Numeral
<1>5. \A k \in 1 .. n : CharOf(d(k)) \in Chars
  BY <1>1, <1>3, CharacterOfDigit
<1>6. Numeral \in Seq(Chars) /\ Len(Numeral) = n
  <2> HIDE DEF d
  <2> QED
    BY <1>1, <1>4, <1>5
<1> QED
  BY <1>1, <1>3, <1>4, <1>6, CharacterOfDigit

-----------------------------------------------------------------------------
LEMMA Magnitude ==
    ASSUME NEW i \in Int
    PROVE  Abs(i) \in Nat
  BY DEF Abs

\* A format that begins has nothing behind it but its number.
LEMMA FormatBegins ==
    ASSUME number' \in Int, values' = <<Abs(number')>>, digits' = <<>>
    PROVE  values' \in Seq(Nat) /\ digits' \in Seq(DigitSet(notation')) /\ Formatted' /\ Traced'
<1>1. Abs(number') \in Nat
  BY Magnitude
<1> QED
  BY <1>1 DEF Formatted, Traced

LEMMA TextsGiven == Texts \subseteq Seq(Chars)
<1> SUFFICES ASSUME NEW t \in Texts PROVE t \in Seq(Chars)
  OBVIOUS
<1>1. t \in Seq(Characters)
  BY DigitsAssumption
<1>2. \A c \in Characters : c \in Chars
  BY DEF Characters, Chars
<1>3. \A k \in 1 .. Len(t) : t[k] \in Chars
  BY <1>1, <1>2
<1> QED
  BY <1>1, <1>3

LEMMA InitIInv == Init => IInv
<1> SUFFICES ASSUME Init PROVE IInv
  OBVIOUS
<1>1. at = 1 /\ result = 0 /\ notation \in Notations
  BY DEF Init
<1>2. CASE \E n \in Numbers : Format(n) /\ text = <<>> /\ source = <<>>
  <2>1. PICK n \in Numbers : Format(n) /\ text = <<>>
    BY <1>2
  <2>2. Abs(n) \in Nat /\ n \in Int
    BY <2>1, DigitsAssumption DEF Abs
  <2> QED
    BY <1>1, <2>1, <2>2 DEF Format, IInv, TypeInv, Formatted, Traced
<1>3. CASE stage = "parse" /\ text \in Texts /\ number = 0 /\ values = <<>> /\ digits = <<>>
  BY <1>1, <1>3, TextsGiven DEF IInv, TypeInv, Formatted
<1>4. CASE stage = "decimal" /\ number \in Decimals /\ values = <<>> /\ digits = <<>> /\ text = <<>>
  BY <1>1, <1>4, DigitsAssumption DEF IInv, TypeInv, Formatted, Chars
<1> QED
  BY <1>2, <1>3, <1>4 DEF Init

LEMMA FormatDigitIInv == IInv /\ FormatDigit => IInv'
<1> SUFFICES ASSUME IInv, FormatDigit PROVE IInv'
  OBVIOUS
<1> DEFINE n == Len(digits)
           d == NextDigit(notation, Value)
           v == (Value - d) \div Base
<1>1. /\ TypeInv /\ Formatted /\ Traced /\ stage = "format" /\ n \in Nat
      /\ digits' = Append(digits, d) /\ values' = Append(values, v)
      /\ notation \in Notations /\ UNCHANGED <<stage, notation, number, text, at, result>>
  BY DEF IInv, FormatDigit, TypeInv
<1>2. Len(values) = n + 1 /\ Value = values[n + 1] /\ Value \in Nat
  BY <1>1 DEF Traced, TypeInv, Value
<1>3. d \in DigitSet(notation) /\ v \in Nat /\ Value = v * Base + d
  BY <1>1, <1>2, DigitStep
<1>9. n \in Nat /\ \A k \in 1 .. n : values[k] = values[k + 1] * Base + digits[k]
  <2>1. n \in Nat /\ DOMAIN digits = 1 .. n
    BY <1>1 DEF TypeInv
  <2>2. \A k \in DOMAIN digits : values[k] = values[k + 1] * Base + digits[k]
    BY <1>1 DEF Traced
  <2> QED
    BY <2>1, <2>2
<1>4. values' \in Seq(Nat) /\ Len(values') = n + 2 /\ digits' \in Seq(DigitSet(notation)) /\ Len(digits') = n + 1
  <2> HIDE DEF d, v
  <2> QED
    BY <1>1, <1>2, <1>3 DEF TypeInv
<1>5. \A k \in 1 .. n + 1 : values'[k] = values[k]
  <2> HIDE DEF d, v
  <2> QED
    BY <1>1, <1>2 DEF TypeInv
<1>6. values'[n + 2] = v /\ digits'[n + 1] = d /\ \A k \in 1 .. n : digits'[k] = digits[k]
  <2> HIDE DEF d, v
  <2> QED
    BY <1>1, <1>2, <1>3 DEF TypeInv
<1>7. \A k \in 1 .. n + 1 : values'[k] = values'[k + 1] * Base + digits'[k]
  <2> HIDE DEF n, d, v
  <2> SUFFICES ASSUME NEW k \in 1 .. n + 1 PROVE values'[k] = values'[k + 1] * Base + digits'[k]
    OBVIOUS
  <2>1. CASE k = n + 1
    <3>1. values'[k] = Value /\ values'[k + 1] = v /\ digits'[k] = d
      BY <2>1, <1>1, <1>2, <1>5, <1>6
    <3> QED
      BY <3>1, <1>3
  <2>2. CASE k \in 1 .. n
    <3>1. values[k] = values[k + 1] * Base + digits[k]
      BY <2>2, <1>9
    <3>2. k \in 1 .. n + 1 /\ k + 1 \in 1 .. n + 1
      BY <2>2, <1>9
    <3> QED
      BY <2>2, <3>1, <3>2, <1>5, <1>6
  <2> QED
    BY <2>1, <2>2, <1>9
<1>8. Traced' /\ Formatted'
  <2>1. values'[1] = Abs(number')
    BY <1>1, <1>5 DEF Traced
  <2> QED
    BY <2>1, <1>1, <1>4, <1>7 DEF Traced, Formatted
<1> HIDE DEF d, v
<1> QED
  BY <1>1, <1>4, <1>8 DEF IInv, TypeInv, Formatted

LEMMA EndFormatIInv == IInv /\ EndFormat => IInv'
<1> SUFFICES ASSUME IInv, EndFormat PROVE IInv'
  OBVIOUS
<1> DEFINE n == Len(digits)
<1>1. /\ TypeInv /\ Formatted /\ Traced /\ n \in Nat
      /\ Formattable /\ Value = 0 /\ stage' = "parse" /\ text' = Numeral
      /\ at' = 1 /\ result' = 0 /\ UNCHANGED <<notation, number, values, digits>>
  BY DEF IInv, EndFormat, TypeInv
<1>2. Len(values) = n + 1 /\ values[n + 1] = 0
  BY <1>1 DEF Traced, Value
<1>3. Numeral \in Seq(Chars)
  <2>1. CASE number = 0
    <3>1. CharOf(0) \in Chars
      BY DEF CharOf, Char, Chars
    <3> QED
      BY <2>1, <3>1 DEF Numeral
  <2>2. CASE number # 0
    BY <2>2, <1>1, NumeralDigits
  <2> QED
    BY <2>1, <2>2
<1>4. TypeInv'
  BY <1>1, <1>3 DEF TypeInv
<1>5. Retraced'
  <2>1. text' = Numeral' /\ Value' = 0 /\ Formattable'
    BY <1>1 DEF Numeral, Signed, Value, Formattable
  <2>2. at' <= Len(text') + 1
    BY <1>1, <1>3
  <2>3. values'[Len(digits') + 2 - at'] = 0
    BY <1>1, <1>2
  <2>4. (Signed(values[Len(digits) + 2 - at]))' = 0
    <3>1. PICK e : e = values[Len(digits) + 2 - 1]
      OBVIOUS
    <3>2. e = 0
      BY <3>1, <1>1, <1>2
    <3>3. (Signed(values[Len(digits) + 2 - at]))' = Signed(e)
      BY <3>1, <1>1 DEF Signed
    <3> QED
      BY <3>2, <3>3 DEF Signed
  <2> QED
    BY <2>1, <2>2, <2>4, <1>1 DEF Retraced
<1> QED
  BY <1>1, <1>4, <1>5 DEF IInv, Formatted, Traced

-----------------------------------------------------------------------------
LEMMA CharacterValue ==
    ASSUME NEW c \in Chars
    PROVE  DigitOf(c) \in Int
  BY DEF DigitOf, Chars, LetterT, Char

\* Going one digit further is the same with the sign of the number.
LEMMA SignedStep ==
    ASSUME number \in Int, NEW v \in Int, NEW w \in Int, NEW d \in Int, v = w * Base + d
    PROVE  Signed(v) = Signed(w) * Base + Signed(d)
<1>1. Base \in Nat
  BY RadixAssumption
<1>2. CASE number < 0
  <2>1. (-w) * Base = -(w * Base)
    BY <1>1
  <2>2. w * Base \in Int
    BY <1>1
  <2> QED
    BY <1>2, <2>1, <2>2 DEF Signed
<1>3. CASE ~ (number < 0)
  BY <1>3 DEF Signed
<1> QED
  BY <1>2, <1>3

LEMMA SignedMagnitude ==
    ASSUME number \in Int
    PROVE  Signed(Abs(number)) = number
  BY DEF Signed, Abs

\* A numeral that is parsed has only digits, and each of them undoes a step
\* of format.
LEMMA ParsedDigit ==
    ASSUME TypeInv, Traced, Retraced, at <= Len(text)
    PROVE  /\ IsDigit(notation, text[at])
           /\ result * Base + DigitOf(text[at])
                = IF number = 0 THEN 0 ELSE Signed(values[Len(digits) + 2 - (at + 1)])
<1> DEFINE n == Len(digits)
<1>1. Base \in Nat /\ number \in Int /\ at \in Nat \ {0} /\ n \in Nat /\ DOMAIN digits = 1 .. n
  BY RadixAssumption DEF TypeInv
<1>2. CASE number = 0
  <2>1. text = <<CharOf(0)>> /\ at = 1 /\ result = 0
    BY <1>2, <1>1 DEF Retraced, Numeral
  <2>2. 0 \in DigitSet(notation)
    BY Bases DEF DigitSet, HalfBase
  <2> QED
    BY <2>1, <2>2, <1>1, <1>2, CharacterOfDigit DEF TypeInv
<1>3. CASE number # 0
  <2>1. Formattable /\ text = Numeral /\ Len(text) = n
    BY <1>3, NumeralDigits DEF Retraced
  <2>2. at \in 1 .. n
    BY <2>1, <1>1
  <2>3. IsDigit(notation, text[at]) /\ DigitOf(text[at]) = Signed(digits[n + 1 - at])
    BY <2>1, <2>2, <1>3, NumeralDigits
  <2> DEFINE k == n + 1 - at
  <2>4. k \in 1 .. n /\ k + 1 = n + 2 - at /\ n + 2 - (at + 1) = k
    BY <2>2, <1>1
  <2>5. values[k] \in Nat /\ values[k + 1] \in Nat /\ digits[k] \in Int
    <3>1. Len(values) = n + 1
      BY DEF Traced
    <3>2. k \in 1 .. n + 1 /\ k + 1 \in 1 .. n + 1
      BY <2>4, <1>1
    <3>3. digits[k] \in DigitSet(notation)
      BY <2>4, <1>1 DEF TypeInv
    <3>4. digits[k] \in Int
      BY <3>3, Bases DEF DigitSet, HalfBase
    <3> HIDE DEF k
    <3> QED
      BY <3>1, <3>2, <3>4 DEF TypeInv
  <2>6. values[k] = values[k + 1] * Base + digits[k]
    BY <2>4, <1>1 DEF Traced
  <2>7. Signed(values[k]) = Signed(values[k + 1]) * Base + Signed(digits[k])
    <3>1. values[k] \in Int /\ values[k + 1] \in Int
      BY <2>5
    <3> HIDE DEF k
    <3> QED
      BY <3>1, <2>5, <2>6, <1>1, SignedStep
  <2>8. result = Signed(values[k + 1])
    BY <2>4, <1>3 DEF Retraced
  <2> QED
    BY <2>3, <2>4, <2>7, <2>8, <1>3
<1> QED
  BY <1>2, <1>3

\* What has been parsed to its end is the number that was formatted.
LEMMA ParsedNumber ==
    ASSUME TypeInv, Traced, Retraced, at > Len(text)
    PROVE  result = number /\ text # <<>>
<1> DEFINE n == Len(digits)
<1>1. number \in Int /\ at \in Nat \ {0} /\ n \in Nat
  BY DEF TypeInv
<1>2. CASE number = 0
  BY <1>2 DEF Retraced, Numeral
<1>3. CASE number # 0
  <2>1. Formattable /\ text = Numeral /\ Len(text) = n
    BY <1>3, NumeralDigits DEF Retraced
  <2>2. n + 2 - at = 1
    BY <2>1, <1>1 DEF Retraced
  <2>3. result = Signed(values[1])
    BY <2>2, <1>3 DEF Retraced
  <2>4. values[1] = Abs(number)
    BY DEF Traced
  <2>5. result = number
    BY <2>3, <2>4, <1>1, SignedMagnitude
  <2>6. n # 0
    <3>1. SUFFICES ASSUME n = 0 PROVE FALSE
      OBVIOUS
    <3>2. values[1] = 0
      BY <3>1 DEF Traced, Retraced, Value
    <3> QED
      BY <3>2, <2>4, <1>1, <1>3 DEF Abs
  <2> QED
    BY <2>1, <2>5, <2>6
<1> QED
  BY <1>2, <1>3

LEMMA ParseDigitIInv == IInv /\ ParseDigit => IInv'
<1> SUFFICES ASSUME IInv, ParseDigit PROVE IInv'
  OBVIOUS
<1>1. /\ TypeInv /\ stage = "parse" /\ at <= Len(text)
      /\ UNCHANGED <<notation, number, values, digits, text, source>>
  BY DEF IInv, ParseDigit
<1>2. at \in Nat \ {0} /\ text[at] \in Chars /\ Base \in Nat /\ result \in Int
  BY <1>1, RadixAssumption DEF TypeInv
<1>3. DigitOf(text[at]) \in Int
  BY <1>2, CharacterValue
<1>4. TypeInv'
  <2>1. stage' \in {"parse", "error"} /\ at' \in Nat \ {0} /\ result' \in Int
    BY <1>1, <1>2, <1>3 DEF ParseDigit
  <2> QED
    BY <2>1, <1>1 DEF TypeInv
<1>5. CASE ~ Formatted
  BY <1>1, <1>4, <1>5 DEF IInv, Formatted, ParseDigit
<1>6. CASE Formatted
  <2>1. Traced /\ Retraced
    BY <1>1, <1>6 DEF IInv
  <2>2. /\ stage' = stage /\ at' = at + 1
        /\ result' = IF number = 0 THEN 0 ELSE Signed(values[Len(digits) + 2 - (at + 1)])
    BY <2>1, <1>1, ParsedDigit DEF ParseDigit
  <2>3. Traced'
    BY <2>1, <1>1 DEF Traced
  <2>4. Retraced'
    <3>1. at' <= Len(text') + 1
      BY <2>2, <1>1, <1>2 DEF TypeInv
    <3>2. text' = Numeral' /\ Value' = 0 /\ Formattable'
      BY <2>1, <1>1 DEF Retraced, Numeral, Signed, Value, Formattable
    <3>3. result' = (IF number = 0 THEN 0 ELSE Signed(values[Len(digits) + 2 - at]))'
      BY <2>2, <1>1 DEF Signed
    <3> QED
      BY <3>1, <3>2, <3>3 DEF Retraced
  <2> QED
    BY <2>1, <2>2, <2>3, <2>4, <1>1, <1>4 DEF IInv, Formatted
<1> QED
  BY <1>5, <1>6

LEMMA EndParseIInv == IInv /\ EndParse => IInv'
<1> SUFFICES ASSUME IInv, EndParse PROVE IInv'
  OBVIOUS
<1>1. /\ TypeInv /\ stage = "parse" /\ at > Len(text)
      /\ UNCHANGED <<notation, text, at, result, source>>
  BY DEF IInv, EndParse
<1>2. CASE values = <<>> /\ stage' = "format"
  <2>1. number' = result /\ result \in Int /\ values' = <<Abs(number')>> /\ digits' = <<>>
    BY <1>2, <1>1 DEF EndParse, TypeInv, Abs
  <2>2. values' \in Seq(Nat) /\ digits' \in Seq(DigitSet(notation')) /\ Formatted' /\ Traced'
    BY <2>1, FormatBegins
  <2> QED
    BY <2>1, <2>2, <1>1, <1>2 DEF IInv, TypeInv
<1>3. CASE ~ (values = <<>> /\ stage' = "format")
  <2>1. UNCHANGED <<number, values, digits>> /\ stage' \in {"done", "error"}
    BY <1>3 DEF EndParse
  <2>2. TypeInv'
    BY <2>1, <1>1 DEF TypeInv
  <2>3. CASE ~ Formatted
    BY <2>1, <2>2, <2>3, <1>1 DEF IInv, Formatted
  <2>4. CASE Formatted
    <3>1. Traced /\ Retraced
      BY <2>4, <1>1 DEF IInv
    <3>2. result = number /\ text # <<>>
      BY <3>1, <1>1, ParsedNumber
    <3>3. stage' = "error" => ~ Representable(number)
      BY <3>1, <3>2, <2>1, <1>1 DEF EndParse, InRange, Representable, TypeInv
    <3>5. stage' = "error" => ~ Representable(number)'
      BY <3>3, <2>1, <1>1 DEF Representable
    <3>4. Traced'
      BY <3>1, <2>1 DEF Traced
    <3> QED
      BY <3>1, <3>2, <3>5, <3>4, <2>1, <2>2, <2>4, <1>1 DEF IInv, Formatted
  <2> QED
    BY <2>3, <2>4
<1> QED
  BY <1>2, <1>3

LEMMA NextIInv == IInv /\ [Next]_vars => IInv'
<1> SUFFICES ASSUME IInv, [Next]_vars PROVE IInv'
  OBVIOUS
<1>1. CASE RefuseNegative
  <2>1. /\ stage' = "error" /\ ~ Formattable
        /\ UNCHANGED <<notation, number, values, digits, text, at, result, source>>
    BY <1>1 DEF RefuseNegative
  <2>2. TypeInv' /\ (Traced => Traced') /\ (Formatted' => Traced)
    BY <2>1 DEF IInv, TypeInv, Traced, Formatted
  <2>3. ~ Representable(number)'
    BY <2>1 DEF IInv, TypeInv, Formattable, Representable
  <2> QED
    BY <2>1, <2>2, <2>3 DEF IInv
<1>2. CASE FormatDigit
  BY <1>2, FormatDigitIInv
<1>3. CASE EndFormat
  BY <1>3, EndFormatIInv
<1>4. CASE ParseDigit
  BY <1>4, ParseDigitIInv
<1>5. CASE EndParse
  BY <1>5, EndParseIInv
<1>6. CASE ParseDecimal
  BY <1>6, DigitsAssumption DEF ParseDecimal, IInv, TypeInv, Formatted
<1>7. CASE UNCHANGED vars
  <2>1. /\ stage' = stage
        /\ UNCHANGED <<notation, number, values, digits, text, at, result, source>>
    BY <1>7 DEF vars
  <2> QED
    BY <2>1 DEF IInv, TypeInv, Formatted, Traced, Retraced, Value, Formattable,
                Numeral, Signed, Representable
<1> QED
  BY <1>1, <1>2, <1>3, <1>4, <1>5, <1>6, <1>7 DEF Next

\* The numeral of a word is accepted and stands for that word (base7.py:
\* format_base_n and parse_base_n, format_balanced and parse_balanced).
THEOREM NumeralsRoundTrip == Spec => []RoundTrip
<1>1. IInv => RoundTrip
  BY DEF IInv, RoundTrip
<1> QED
  BY InitIInv, NextIInv, <1>1, PTL DEF Spec
-----------------------------------------------------------------------------
(* A text without letters of a larger base that is accepted is the numeral *)
(* of what it stands for.  Parsing it goes through values of its own, and  *)
(* formatting the last of them goes through these backwards.               *)

\* The values parse has had after each of the first n characters.
Reads(r, n) ==
    /\ n \in 0 .. Len(source)
    /\ r \in [0 .. n -> Int] /\ r[0] = 0
    /\ \A k \in 1 .. n : /\ IsDigit(notation, source[k])
                         /\ r[k] = r[k - 1] * Base + DigitOf(source[k])

\* What format has found are these values and digits, from the last one on.
Matched(r) ==
    LET n == Len(source)
    IN  /\ Len(digits) <= n
        /\ \A i \in 1 .. Len(values) : Signed(values[i]) = r[n + 1 - i]
        /\ \A i \in 1 .. Len(digits) : Signed(digits[i]) = DigitOf(source[n + 1 - i])

GivenText ==
    /\ stage # "decimal"
    /\ stage = "format" => Formatted
    /\ stage = "done" => Formatted /\ Value = 0 /\ text = Numeral
    /\ stage = "parse" /\ ~ Formatted =>
          text = source /\ \E r : Reads(r, at - 1) /\ r[at - 1] = result
    /\ Formatted => \E r : Reads(r, Len(source)) /\ Matched(r)

UInv ==
    /\ IInv
    /\ source \in Seq(Chars)
    /\ source # <<>> /\ NoForeignLetter(source) => GivenText

\* No letter becomes one of a larger base.
LEMMA SameLetters ==
    ASSUME notation' = notation, source' = source
    PROVE  NoForeignLetter(source)' = NoForeignLetter(source)
<1>1. DigitTable' = DigitTable
  BY DEF DigitTable
<1> QED
  BY <1>1 DEF NoForeignLetter, ForeignLetter

LEMMA ProperCharacter ==
    ASSUME notation \in Notations, NEW c \in Chars, IsDigit(notation, c), ~ ForeignLetter(c)
    PROVE  DigitOf(c) \in DigitSet(notation) /\ CharOf(DigitOf(c)) = c
<1>1. HalfBase \in 0 .. 4 /\ Base \in Nat /\ HalfBase < Base
  BY Bases DEF HalfBase
<1>2. CASE c.kind = "digit"
  <2>1. DigitOf(c) = c.n /\ c.n \in Nat /\ c = Char("digit", c.n)
    BY <1>2 DEF DigitOf, Chars, Char
  <2>2. IF notation = "balanced" THEN c.n <= HalfBase ELSE c.n < Base
    BY <1>2 DEF IsDigit, IsBalancedDigit, LetterT, Char
  <2> QED
    BY <2>1, <2>2, <1>1 DEF DigitSet, CharOf
<1>3. CASE c.kind # "digit"
  <2>1. c.kind = "letter" /\ notation = "balanced"
    BY <1>3 DEF Chars, IsDigit
  <2>2. c.n <= 10 \/ (Base = 3 /\ c = LetterT)
    BY <2>1 DEF IsDigit, IsBalancedDigit
  <2>3. CASE Base = 3
    <3>1. HalfBase = 1
      BY <2>3 DEF HalfBase
    <3>2. c = LetterT
      BY <2>1, <2>2, <2>3 DEF ForeignLetter, DigitTable, Char
    <3> QED
      BY <3>1, <3>2, <2>1, <2>3 DEF DigitOf, DigitSet, CharOf, LetterT, Char
  <2>4. CASE Base # 3
    <3>1. PICK k \in 1 .. HalfBase : c = Char("letter", k)
      BY <2>1, <2>2, <2>4 DEF ForeignLetter, DigitTable, Char
    <3>2. k \in 1 .. 4 /\ k <= HalfBase
      BY <3>1, <1>1
    <3>3. DigitOf(c) = -k
      BY <3>1, <3>2 DEF DigitOf, LetterT, Char
    <3>4. CharOf(-k) = c
      BY <3>1, <3>2, <2>4 DEF CharOf
    <3> QED
      BY <3>2, <3>3, <3>4, <2>1, <1>1 DEF DigitSet
  <2> QED
    BY <2>3, <2>4
<1> QED
  BY <1>2, <1>3

\* A number is one multiple of the base and one digit: format finds those.
LEMMA OneDigit ==
    ASSUME NEW nt \in Notations, NEW v \in Nat, NEW w \in Int, NEW d \in DigitSet(nt),
           v = w * Base + d
    PROVE  NextDigit(nt, v) = d /\ (v - d) \div Base = w /\ w \in Nat
<1>1. Base \in Nat /\ HalfBase \in Nat /\ d \in Int /\ (nt = "balanced" => Base = 2 * HalfBase + 1)
  BY Bases DEF HalfBase, Notations, DigitSet
<1>2. w \in Nat
  <2>1. d < Base
    BY <1>1 DEF DigitSet
  <2>2. w * Base > -Base
    BY <2>1, <1>1
  <2>3. SUFFICES ASSUME w <= -1 PROVE FALSE
    OBVIOUS
  <2>4. w * Base <= -Base
    <3>1. CASE Base = 2 BY <3>1, <2>3
    <3>2. CASE Base = 3 BY <3>2, <2>3
    <3>3. CASE Base = 4 BY <3>3, <2>3
    <3>4. CASE Base = 5 BY <3>4, <2>3
    <3>5. CASE Base = 6 BY <3>5, <2>3
    <3>6. CASE Base = 7 BY <3>6, <2>3
    <3>7. CASE Base = 8 BY <3>7, <2>3
    <3>8. CASE Base = 9 BY <3>8, <2>3
    <3>9. CASE Base = 10 BY <3>9, <2>3
    <3> QED
      BY Bases, <3>1, <3>2, <3>3, <3>4, <3>5, <3>6, <3>7, <3>8, <3>9
  <2>5. w * Base \in Int
    BY <1>1
  <2> QED
    BY <2>2, <2>4, <2>5, <1>1
<1>3. v - d = w * Base
  <2>1. w * Base \in Int
    BY <1>1
  <2> QED
    BY <2>1, <1>1
<1>4. (v - d) \div Base = w
  BY <1>2, <1>3, Quotient
<1>5. v % Base = IF d < 0 THEN d + Base ELSE d
  <2>1. CASE Base = 2 BY <2>1, <1>1 DEF DigitSet
  <2>2. CASE Base = 3 BY <2>2, <1>1 DEF DigitSet
  <2>3. CASE Base = 4 BY <2>3, <1>1 DEF DigitSet
  <2>4. CASE Base = 5 BY <2>4, <1>1 DEF DigitSet
  <2>5. CASE Base = 6 BY <2>5, <1>1 DEF DigitSet
  <2>6. CASE Base = 7 BY <2>6, <1>1 DEF DigitSet
  <2>7. CASE Base = 8 BY <2>7, <1>1 DEF DigitSet
  <2>8. CASE Base = 9 BY <2>8, <1>1 DEF DigitSet
  <2>9. CASE Base = 10 BY <2>9, <1>1 DEF DigitSet
  <2> QED
    BY Bases, <2>1, <2>2, <2>3, <2>4, <2>5, <2>6, <2>7, <2>8, <2>9
<1>6. NextDigit(nt, v) = d
  BY <1>1, <1>5 DEF NextDigit, Carries, DigitSet
<1> QED
  BY <1>2, <1>4, <1>6

LEMMA TwiceSigned ==
    ASSUME number \in Int, NEW v \in Int
    PROVE  Signed(v) \in Int /\ Signed(Signed(v)) = v
  BY DEF Signed

\* The next digit of a number that is a text's is the text's next character.
LEMMA MatchedDigit ==
    ASSUME TypeInv, Traced, Formattable, Value > 0, source \in Seq(Chars), NoForeignLetter(source),
           NEW r, Reads(r, Len(source)), Matched(r)
    PROVE  LET d == NextDigit(notation, Value)
               k == Len(source) - Len(digits)
           IN  /\ k \in 1 .. Len(source)
               /\ Signed(d) = DigitOf(source[k])
               /\ Signed((Value - d) \div Base) = r[k - 1]
<1> DEFINE n == Len(source)
           m == Len(digits)
           k == n - m
           D == DigitOf(source[k])
<1>1. n \in Nat /\ m \in Nat /\ m <= n /\ Len(values) = m + 1 /\ k \in 0 .. n
      /\ number \in Int /\ notation \in Notations /\ Base \in Nat
  BY RadixAssumption DEF TypeInv, Traced, Matched
<1>2. Value \in Nat /\ Signed(Value) = r[k]
  <2>1. values[m + 1] \in Nat /\ Signed(values[m + 1]) = r[n + 1 - (m + 1)]
    BY <1>1 DEF TypeInv, Matched
  <2> QED
    BY <2>1, <1>1 DEF Value
<1>3. k \in 1 .. n
  <2>1. Signed(Value) # 0
    BY <1>2 DEF Signed
  <2>2. k # 0
    BY <2>1, <1>2 DEF Reads
  <2> QED
    BY <2>2, <1>1
<1>4. /\ IsDigit(notation, source[k]) /\ source[k] \in Chars
      /\ r[k] = r[k - 1] * Base + D /\ r[k - 1] \in Int /\ r[k] \in Int
      /\ ~ ForeignLetter(source[k])
  <2>1. k \in DOMAIN source /\ k \in 0 .. n /\ k - 1 \in 0 .. n
    BY <1>1, <1>3
  <2> HIDE DEF k
  <2> QED
    BY <2>1, <1>1, <1>3 DEF Reads, NoForeignLetter
<1> HIDE DEF k
<1>5. D \in DigitSet(notation) /\ D \in Int
  <2>1. D \in DigitSet(notation)
    BY <1>1, <1>4, ProperCharacter
  <2> QED
    BY <2>1, <1>4, CharacterValue
<1>6. Signed(D) \in DigitSet(notation)
  BY <1>1, <1>5, SignedDigit
<1> HIDE DEF D
<1>7. Value = Signed(r[k - 1]) * Base + Signed(D)
  <2>1. Signed(r[k]) = Signed(r[k - 1]) * Base + Signed(D)
    BY <1>1, <1>4, <1>5, SignedStep
  <2>2. Signed(r[k]) = Value
    <3>1. Value \in Int
      BY <1>2
    <3> QED
      BY <1>1, <1>2, <3>1, TwiceSigned
  <2> QED
    BY <2>1, <2>2
<1>8. Signed(r[k - 1]) \in Int
  BY <1>1, <1>4, TwiceSigned
<1>9. NextDigit(notation, Value) = Signed(D)
      /\ (Value - Signed(D)) \div Base = Signed(r[k - 1])
  BY <1>1, <1>2, <1>6, <1>7, <1>8, OneDigit
<1>10. Signed(Signed(D)) = D /\ Signed(Signed(r[k - 1])) = r[k - 1]
  BY <1>1, <1>4, <1>5, TwiceSigned
<1> QED
  BY <1>3, <1>9, <1>10 DEF k, D

\* Reads, Matched and the rest say nothing of the other variables.
LEMMA SameReads ==
    ASSUME source' = source, notation' = notation, NEW r, NEW n, Reads(r, n)
    PROVE  Reads(r, n)'
  BY DEF Reads

LEMMA FormatDigitUInv == UInv /\ FormatDigit => UInv'
<1> SUFFICES ASSUME UInv, FormatDigit PROVE UInv'
  OBVIOUS
<1> DEFINE n == Len(source)
           m == Len(digits)
           d == NextDigit(notation, Value)
           v == (Value - d) \div Base
<1>1. /\ IInv' /\ source' = source /\ source \in Seq(Chars) /\ TypeInv /\ Traced /\ Formatted
      /\ Formattable /\ Value > 0 /\ stage = "format" /\ stage' = stage
      /\ number' = number /\ notation' = notation
      /\ digits' = Append(digits, d) /\ values' = Append(values, v)
  BY FormatDigitIInv DEF UInv, IInv, FormatDigit
<1>2. SUFFICES ASSUME source # <<>>, NoForeignLetter(source) PROVE GivenText'
  BY <1>1, SameLetters DEF UInv
<1>3. PICK r : Reads(r, n) /\ Matched(r)
  BY <1>1, <1>2 DEF UInv, GivenText
<1>4. n - m \in 1 .. n /\ Signed(d) = DigitOf(source[n - m]) /\ Signed(v) = r[n - m - 1]
  BY <1>1, <1>2, <1>3, MatchedDigit
<1>5. n \in Nat /\ m \in Nat /\ Len(values) = m + 1 /\ Len(digits') = m + 1 /\ Len(values') = m + 2
      /\ digits \in Seq(DigitSet(notation)) /\ values \in Seq(Nat)
  <2> HIDE DEF d, v
  <2> QED
    BY <1>1 DEF TypeInv, Traced
<1> HIDE DEF d, v
<1>6. \A i \in 1 .. m + 2 : (Signed(values[i]))' = r[n + 1 - i]
  <2> SUFFICES ASSUME NEW i \in 1 .. m + 2 PROVE (Signed(values[i]))' = r[n + 1 - i]
    OBVIOUS
  <2>1. CASE i = m + 2
    <3>1. values'[i] = v
      BY <2>1, <1>1, <1>5
    <3>2. n + 1 - i = n - m - 1
      BY <2>1, <1>5
    <3> QED
      BY <3>1, <3>2, <1>1, <1>4 DEF Signed
  <2>2. CASE i \in 1 .. m + 1
    <3>1. values'[i] = values[i]
      BY <2>2, <1>1, <1>5
    <3>2. Signed(values[i]) = r[n + 1 - i]
      BY <2>2, <1>3, <1>5 DEF Matched
    <3> QED
      BY <3>1, <3>2, <1>1 DEF Signed
  <2> QED
    BY <2>1, <2>2, <1>5
<1>7. \A i \in 1 .. m + 1 : (Signed(digits[i]))' = DigitOf(source[n + 1 - i])
  <2> SUFFICES ASSUME NEW i \in 1 .. m + 1 PROVE (Signed(digits[i]))' = DigitOf(source[n + 1 - i])
    OBVIOUS
  <2>1. CASE i = m + 1
    <3>1. digits'[i] = d
      BY <2>1, <1>1, <1>5
    <3>2. n + 1 - i = n - m
      BY <2>1, <1>5
    <3> QED
      BY <3>1, <3>2, <1>1, <1>4 DEF Signed
  <2>2. CASE i \in 1 .. m
    <3>1. digits'[i] = digits[i]
      BY <2>2, <1>1, <1>5
    <3>2. Signed(digits[i]) = DigitOf(source[n + 1 - i])
      BY <2>2, <1>3, <1>5 DEF Matched
    <3> QED
      BY <3>1, <3>2, <1>1 DEF Signed
  <2> QED
    BY <2>1, <2>2, <1>5
<1>8. Matched(r)'
  <2>1. m + 1 <= n
    BY <1>4, <1>5
  <2>2. Len(source') = n /\ source' = source
    BY <1>1
  <2>3. \A i \in 1 .. Len(values') : (Signed(values[i]))' = r[Len(source') + 1 - i]
    BY <2>2, <1>5, <1>6
  <2>4. \A i \in 1 .. Len(digits') : (Signed(digits[i]))' = DigitOf(source'[Len(source') + 1 - i])
    BY <2>2, <1>5, <1>7
  <2> QED
    BY <2>1, <2>2, <2>3, <2>4, <1>5 DEF Matched
<1>9. Reads(r, n)'
  BY <1>1, <1>3, SameReads
<1>10. Formatted'
  BY <1>5 DEF Formatted
<1> QED
  BY <1>1, <1>8, <1>9, <1>10 DEF GivenText

\* A step that leaves what format has found as it is.
LEMMA SameMatched ==
    ASSUME UNCHANGED <<source, number, values, digits>>, NEW r, Matched(r)
    PROVE  Matched(r)'
  BY DEF Matched, Signed

LEMMA ParseDigitUInv == UInv /\ ParseDigit => UInv'
<1> SUFFICES ASSUME UInv, ParseDigit PROVE UInv'
  OBVIOUS
<1>1. /\ IInv' /\ stage = "parse" /\ at <= Len(text) /\ TypeInv
      /\ UNCHANGED <<notation, number, values, digits, text, source>>
      /\ source \in Seq(Chars) /\ stage' \in {"parse", "error"}
  BY ParseDigitIInv DEF UInv, IInv, ParseDigit
<1>2. SUFFICES ASSUME source # <<>>, NoForeignLetter(source) PROVE GivenText'
  BY <1>1, SameLetters DEF UInv
<1>3. GivenText
  BY <1>2 DEF UInv
<1>4. Formatted' => \E r : (Reads(r, Len(source)) /\ Matched(r))'
  <2> SUFFICES ASSUME Formatted' PROVE \E r : (Reads(r, Len(source)) /\ Matched(r))'
    OBVIOUS
  <2>1. PICK r : Reads(r, Len(source)) /\ Matched(r)
    BY <1>1, <1>3 DEF GivenText, Formatted
  <2> QED
    BY <2>1, <1>1, SameReads, SameMatched
<1>5. stage' = "parse" /\ ~ Formatted' =>
        text' = source' /\ \E r : Reads(r, at - 1)' /\ r[at' - 1] = result'
  <2> SUFFICES ASSUME stage' = "parse", ~ Formatted'
               PROVE  text' = source' /\ \E r : Reads(r, at - 1)' /\ r[at' - 1] = result'
    OBVIOUS
  <2>1. PICK r : Reads(r, at - 1) /\ r[at - 1] = result /\ text = source
    BY <1>1, <1>3 DEF GivenText, Formatted
  <2>2. /\ IsDigit(notation, source[at]) /\ at' = at + 1
        /\ result' = result * Base + DigitOf(source[at])
    BY <2>1, <1>1 DEF ParseDigit
  <2>3. at \in Nat \ {0} /\ source[at] \in Chars /\ at \in 1 .. Len(source) /\ result \in Int
    BY <2>1, <1>1 DEF TypeInv
  <2>4. DigitOf(source[at]) \in Int /\ result' \in Int
    BY <2>3, <1>1, CharacterValue DEF IInv, TypeInv
  <2> DEFINE t == [k \in 0 .. at |-> IF k = at THEN result' ELSE r[k]]
  <2>5. t \in [0 .. at -> Int] /\ t[0] = 0 /\ t[at] = result'
    BY <2>1, <2>3, <2>4 DEF Reads
  <2>6. \A k \in 1 .. at : IsDigit(notation, source[k]) /\ t[k] = t[k - 1] * Base + DigitOf(source[k])
    <3> SUFFICES ASSUME NEW k \in 1 .. at
                 PROVE  IsDigit(notation, source[k]) /\ t[k] = t[k - 1] * Base + DigitOf(source[k])
      OBVIOUS
    <3>1. CASE k = at
      BY <3>1, <2>1, <2>2, <2>3
    <3>2. CASE k \in 1 .. at - 1
      <4>1. t[k] = r[k] /\ t[k - 1] = r[k - 1]
        BY <3>2, <2>3
      <4>2. IsDigit(notation, source[k]) /\ r[k] = r[k - 1] * Base + DigitOf(source[k])
        BY <3>2, <2>1 DEF Reads
      <4> QED
        BY <4>1, <4>2
    <3> QED
      BY <3>1, <3>2, <2>3
  <2> HIDE DEF t
  <2>7. PICK s : Reads(s, at) /\ s[at] = result'
    BY <2>3, <2>5, <2>6 DEF Reads
  <2>8. at' - 1 = at
    BY <2>2, <2>3
  <2>9. PICK n : n = at
    OBVIOUS
  <2>10. Reads(s, n)'
    BY <2>7, <2>9, <1>1, SameReads
  <2>11. Reads(s, at - 1)'
    BY <2>8, <2>9, <2>10
  <2> QED
    BY <2>1, <2>7, <2>8, <2>11, <1>1
<1> QED
  BY <1>1, <1>4, <1>5 DEF GivenText

LEMMA EndParseUInv == UInv /\ EndParse => UInv'
<1> SUFFICES ASSUME UInv, EndParse PROVE UInv'
  OBVIOUS
<1>1. /\ IInv' /\ stage = "parse" /\ at > Len(text) /\ IInv /\ TypeInv
      /\ UNCHANGED <<notation, text, at, result, source>>
      /\ source \in Seq(Chars)
  BY EndParseIInv DEF UInv, IInv, EndParse
<1>2. SUFFICES ASSUME source # <<>>, NoForeignLetter(source) PROVE GivenText'
  BY <1>1, SameLetters DEF UInv
<1>3. GivenText
  BY <1>2 DEF UInv
<1>4. CASE values = <<>>
  <2>1. PICK r : Reads(r, at - 1) /\ r[at - 1] = result /\ text = source
    BY <1>1, <1>3, <1>4 DEF GivenText, Formatted
  <2>2. at - 1 = Len(source)
    BY <2>1, <1>1 DEF Reads, TypeInv
  <2>3. Reads(r, Len(source))'
    BY <2>1, <2>2, <1>1, SameReads
  <2>4. CASE stage' = "error"
    BY <2>4, <1>4 DEF GivenText, Formatted, EndParse
  <2>5. CASE stage' # "error"
    <3>1. number' = result /\ values' = <<Abs(result)>> /\ digits' = <<>> /\ stage' = "format"
      BY <2>5, <1>4 DEF EndParse
    <3>2. result \in Int /\ Len(source) \in Nat /\ r[Len(source)] = result
      BY <2>1, <2>2, <1>1 DEF TypeInv
    <3>3. (Signed(values[1]))' = result
      BY <3>1, <3>2 DEF Signed, Abs
    <3>4. Matched(r)'
      <4>1. Len(values') = 1 /\ Len(digits') = 0 /\ source' = source
        BY <3>1, <1>1
      <4>2. \A i \in 1 .. 1 : (Signed(values[i]))' = r[Len(source) + 1 - i]
        <5>1. Len(source) + 1 - 1 = Len(source)
          BY <3>2
        <5>2. (Signed(values[1]))' = r[Len(source) + 1 - 1]
          BY <3>2, <3>3, <5>1
        <5>3. \A i \in 1 .. 1 : i = 1
          OBVIOUS
        <5> QED
          BY <5>2, <5>3
      <4> QED
        BY <4>1, <4>2, <3>2 DEF Matched
    <3>5. Formatted'
      BY <3>1 DEF Formatted
    <3> QED
      BY <3>1, <3>4, <3>5, <2>3 DEF GivenText
  <2> QED
    BY <2>4, <2>5
<1>5. CASE values # <<>>
  <2>1. UNCHANGED <<number, values, digits>> /\ stage' \in {"done", "error"}
    BY <1>5 DEF EndParse
  <2>2. PICK r : Reads(r, Len(source)) /\ Matched(r)
    BY <1>3, <1>5 DEF GivenText, Formatted
  <2>3. Reads(r, Len(source))' /\ Matched(r)'
    BY <2>1, <2>2, <1>1, SameReads, SameMatched
  <2>4. Value' = 0 /\ text' = Numeral'
    BY <2>1, <1>1, <1>5 DEF IInv, Formatted, Retraced, Value, Numeral, Signed
  <2>5. Formatted'
    BY <2>1, <1>5 DEF Formatted
  <2> QED
    BY <2>1, <2>3, <2>4, <2>5 DEF GivenText
<1> QED
  BY <1>4, <1>5

\* The other steps do not change what format has found.
LEMMA OtherUInv ==
    ASSUME UInv, IInv', UNCHANGED <<source, notation, number, values, digits>>,
           \/ stage' = "error" /\ UNCHANGED <<text, at, result>>
           \/ stage = "format" /\ stage' = "parse"
           \/ stage = "decimal" /\ stage' # "decimal"
           \/ UNCHANGED <<stage, text, at, result>>
    PROVE  UInv'
<1>1. SUFFICES ASSUME source # <<>>, NoForeignLetter(source) PROVE GivenText'
  BY SameLetters DEF UInv
<1>2. GivenText
  BY <1>1 DEF UInv
<1>3. Formatted' => \E r : (Reads(r, Len(source)) /\ Matched(r))'
  <2> SUFFICES ASSUME Formatted' PROVE \E r : (Reads(r, Len(source)) /\ Matched(r))'
    OBVIOUS
  <2>1. PICK r : Reads(r, Len(source)) /\ Matched(r)
    BY <1>2 DEF GivenText, Formatted
  <2> QED
    BY <2>1, SameReads, SameMatched
<1>4. CASE stage' = "error" /\ UNCHANGED <<text, at, result>>
  BY <1>3, <1>4 DEF GivenText
<1>5. CASE stage = "format" /\ stage' = "parse"
  BY <1>2, <1>3, <1>5 DEF GivenText, Formatted
<1>6. CASE stage = "decimal" /\ stage' # "decimal"
  BY <1>2, <1>6 DEF GivenText
<1>7. CASE UNCHANGED <<stage, text, at, result>>
  <2>1. (stage = "format" => Formatted)' /\ (stage # "decimal")'
    BY <1>2, <1>7 DEF GivenText, Formatted
  <2>2. (stage = "done" => Formatted /\ Value = 0 /\ text = Numeral)'
    BY <1>2, <1>7 DEF GivenText, Formatted, Value, Numeral, Signed
  <2>3. ASSUME (stage = "parse" /\ ~ Formatted)'
        PROVE  text' = source' /\ \E r : Reads(r, at - 1)' /\ r[at' - 1] = result'
    <3>1. PICK r : Reads(r, at - 1) /\ r[at - 1] = result /\ text = source
      BY <2>3, <1>2, <1>7 DEF GivenText, Formatted
    <3>2. PICK n : n = at - 1
      OBVIOUS
    <3>3. Reads(r, n)'
      BY <3>1, <3>2, SameReads
    <3> QED
      BY <3>1, <3>2, <3>3, <1>7
  <2> QED
    BY <1>3, <2>1, <2>2, <2>3 DEF GivenText
<1> QED
  BY <1>4, <1>5, <1>6, <1>7

LEMMA InitUInv == Init => UInv
<1> SUFFICES ASSUME Init PROVE UInv
  OBVIOUS
<1>1. IInv /\ at = 1 /\ result = 0
  BY InitIInv DEF Init
<1>2. source \in Seq(Chars)
  <2>1. source = <<>> \/ source \in Texts
    BY DEF Init
  <2>2. Texts \subseteq Seq(Chars)
    BY TextsGiven
  <2>3. <<>> \in Seq(Chars)
    OBVIOUS
  <2> QED
    BY <2>1, <2>2, <2>3
<1>3. SUFFICES ASSUME source # <<>> PROVE GivenText
  BY <1>1, <1>2 DEF UInv
<1>4. stage = "parse" /\ text = source /\ values = <<>>
  BY <1>3 DEF Init
<1> DEFINE r == [k \in 0 .. 0 |-> 0]
<1>5. Reads(r, 0) /\ r[0] = 0
  <2>1. r \in [0 .. 0 -> Int] /\ r[0] = 0
    OBVIOUS
  <2> HIDE DEF r
  <2> QED
    BY <2>1, <1>2 DEF Reads
<1>6. Reads(r, at - 1) /\ r[at - 1] = result
  <2>1. at - 1 = 0
    BY <1>1
  <2> HIDE DEF r
  <2> QED
    BY <2>1, <1>1, <1>5
<1> HIDE DEF r
<1> QED
  BY <1>4, <1>6 DEF GivenText, Formatted

LEMMA NextUInv == UInv /\ [Next]_vars => UInv'
<1> SUFFICES ASSUME UInv, [Next]_vars PROVE UInv'
  OBVIOUS
<1>1. IInv'
  BY NextIInv DEF UInv
<1>2. CASE FormatDigit
  BY <1>2, FormatDigitUInv
<1>3. CASE ParseDigit
  BY <1>3, ParseDigitUInv
<1>4. CASE EndParse
  BY <1>4, EndParseUInv
<1>5. CASE RefuseNegative
  BY <1>1, <1>5, OtherUInv DEF RefuseNegative
<1>6. CASE EndFormat
  BY <1>1, <1>6, OtherUInv DEF EndFormat
<1>7. CASE ParseDecimal
  BY <1>1, <1>7, OtherUInv DEF ParseDecimal
<1>8. CASE UNCHANGED vars
  BY <1>1, <1>8, OtherUInv DEF vars
<1> QED
  BY <1>2, <1>3, <1>4, <1>5, <1>6, <1>7, <1>8 DEF Next

\* In front of the first digit that is not zero there are only zeros.
LEMMA LeadingZeros ==
    ASSUME TypeInv, source \in Seq(Chars), NoForeignLetter(source), NEW r, Reads(r, Len(source)),
           NEW m \in 0 .. Len(source), r[m] = 0
    PROVE  \A j \in 1 .. m : source[j] = CharOf(0)
<1> DEFINE bad == {j \in 0 .. m : r[j] # 0}
<1>1. Base \in Nat /\ notation \in Notations /\ Len(source) \in Nat /\ m \in Nat
  BY RadixAssumption DEF TypeInv
<1>2. ASSUME NEW j \in 1 .. m, r[j] = 0
      PROVE  r[j - 1] = 0 /\ source[j] = CharOf(0)
  <2> DEFINE D == DigitOf(source[j])
  <2>1. /\ IsDigit(notation, source[j]) /\ source[j] \in Chars /\ r[j - 1] \in Int
        /\ 0 = r[j - 1] * Base + D
        /\ ~ ForeignLetter(source[j])
    <3>1. j \in DOMAIN source /\ j \in 1 .. Len(source) /\ j - 1 \in 0 .. Len(source)
      BY <1>1
    <3> QED
      BY <3>1, <1>2 DEF Reads, NoForeignLetter
  <2>2. D \in DigitSet(notation) /\ CharOf(D) = source[j]
    BY <1>1, <2>1, ProperCharacter
  <2> HIDE DEF D
  <2>3. NextDigit(notation, 0) = D /\ (0 - D) \div Base = r[j - 1]
    BY <1>1, <2>1, <2>2, OneDigit
  <2>4. 0 \in DigitSet(notation) /\ 0 = 0 * Base + 0
    BY Bases DEF DigitSet, HalfBase
  <2>5. NextDigit(notation, 0) = 0 /\ (0 - 0) \div Base = 0
    BY <1>1, <2>4, OneDigit
  <2> QED
    BY <2>2, <2>3, <2>5
<1>3. bad = {}
  <2>1. SUFFICES ASSUME bad # {} PROVE FALSE
    OBVIOUS
  <2>2. bad \in SUBSET Nat /\ \A j \in bad : j <= m
    BY <1>1
  <2>3. PICK x \in bad : \A y \in bad : y <= x
    <3> HIDE DEF bad
    <3> QED
      BY <2>1, <2>2, <1>1, NatMaximum
  <2>4. x \in 0 .. m - 1 /\ x + 1 \in 1 .. m /\ r[x + 1] = 0
    BY <2>3, <1>1
  <2>5. r[x] = 0
    BY <2>4, <1>2
  <2> QED
    BY <2>3, <2>5
<1> QED
  <2> SUFFICES ASSUME NEW j \in 1 .. m PROVE source[j] = CharOf(0)
    OBVIOUS
  <2>1. r[j] = 0
    BY <1>1, <1>3
  <2> QED
    BY <2>1, <1>2

\* Which zeros are in front, and where the numeral begins.
LEMMA UInvUnique ==
    ASSUME UInv, stage = "done", source # <<>>, NoForeignLetter(source)
    PROVE  \E k \in 1 .. Len(source) :
              /\ text = SubSeq(source, k, Len(source))
              /\ \A j \in 1 .. k - 1 : source[j] = CharOf(0)
<1> DEFINE n == Len(source)
           m == Len(digits)
<1>1. /\ TypeInv /\ Traced /\ source \in Seq(Chars) /\ Formatted /\ Value = 0 /\ text = Numeral
      /\ number \in Int /\ n \in Nat \ {0} /\ m \in Nat /\ Len(values) = m + 1
  BY DEF UInv, GivenText, IInv, TypeInv, Traced
<1>2. PICK r : Reads(r, n) /\ Matched(r)
  BY <1>1 DEF UInv, GivenText
<1>3. n - m \in 0 .. n /\ r[n - m] = 0
  <2>1. m <= n
    BY <1>2 DEF Matched
  <2>2. Signed(values[m + 1]) = r[n + 1 - (m + 1)] /\ n + 1 - (m + 1) = n - m
    BY <1>1, <1>2 DEF Matched
  <2>3. values[m + 1] = 0
    BY <1>1 DEF Value
  <2> QED
    BY <2>1, <2>2, <2>3, <1>1 DEF Signed
<1>4. CASE number = 0
  <2>1. r[n] = 0
    <3>1. Signed(values[1]) = r[n + 1 - 1]
      BY <1>1, <1>2 DEF Matched
    <3>2. values[1] = 0
      BY <1>1, <1>4 DEF Traced, Abs
    <3> QED
      BY <3>1, <3>2, <1>1 DEF Signed
  <2>2. \A j \in 1 .. n : source[j] = CharOf(0)
    <3>1. n \in 0 .. Len(source)
      BY <1>1
    <3> QED
      BY <3>1, <2>1, <1>1, <1>2, LeadingZeros
  <2>3. SubSeq(source, n, n) = <<source[n]>>
    <3>1. PICK N : N = n
      OBVIOUS
    <3>2. N \in Nat \ {0} /\ N = Len(source)
      BY <3>1, <1>1
    <3> HIDE DEF n
    <3>3. SubSeq(source, N, N) = [i \in 1 .. 1 |-> source[N]]
      BY <3>2, <1>1
    <3> QED
      BY <3>1, <3>3
  <2> QED
    BY <2>2, <2>3, <1>1, <1>4 DEF Numeral
<1>5. CASE number # 0
  <2>1. m # 0
    <3>1. values[1] # 0
      BY <1>1, <1>5 DEF Traced, Abs
    <3> QED
      BY <3>1, <1>1 DEF Value
  <2> DEFINE k == n - m + 1
  <2>2. k \in 1 .. n /\ k - 1 = n - m
    BY <2>1, <1>1, <1>3
  <2>3. \A i \in 1 .. m : CharOf(Signed(digits[m + 1 - i])) = source[k - 1 + i]
    <3> SUFFICES ASSUME NEW i \in 1 .. m
                 PROVE  CharOf(Signed(digits[m + 1 - i])) = source[k - 1 + i]
      OBVIOUS
    <3> DEFINE j == k - 1 + i
    <3>1. j \in 1 .. n /\ m + 1 - i \in 1 .. m /\ n + 1 - (m + 1 - i) = j
      BY <1>1, <1>3
    <3>2. Signed(digits[m + 1 - i]) = DigitOf(source[j])
      BY <3>1, <1>2 DEF Matched
    <3>3. /\ IsDigit(notation, source[j]) /\ source[j] \in Chars
          /\ ~ ForeignLetter(source[j])
      <4>1. j \in DOMAIN source
        BY <3>1, <1>1
      <4> HIDE DEF j
      <4> QED
        BY <4>1, <3>1, <1>1, <1>2 DEF Reads, NoForeignLetter
    <3> HIDE DEF j
    <3>4. CharOf(DigitOf(source[j])) = source[j]
      BY <3>3, <1>1, ProperCharacter DEF TypeInv
    <3> QED
      BY <3>2, <3>4 DEF j
  <2>4. text = [i \in 1 .. m |-> CharOf(Signed(digits[m + 1 - i]))]
    BY <1>1, <1>5 DEF Numeral, TypeInv
  <2>5. SubSeq(source, k, n) = [i \in 1 .. m |-> source[k - 1 + i]]
    <3>1. n + 1 - k = m
      BY <1>1
    <3>2. \A i \in 1 .. m : source[k + i - 1] = source[k - 1 + i]
      BY <1>1, <2>2
    <3> QED
      BY <3>1, <3>2, <1>1, <2>2
  <2>6. text = SubSeq(source, k, n)
    BY <2>3, <2>4, <2>5
  <2>7. \A j \in 1 .. n - m : source[j] = CharOf(0)
    BY <1>1, <1>2, <1>3, LeadingZeros
  <2>8. \A j \in 1 .. k - 1 : source[j] = CharOf(0)
    BY <2>2, <2>7
  <2> HIDE DEF k
  <2> QED
    BY <2>2, <2>6, <2>8
<1> QED
  BY <1>4, <1>5

\* A text that was accepted has been parsed again from its numeral.
AcceptedInv ==
    /\ IInv
    /\ source # <<>> =>
          /\ stage # "decimal"
          /\ stage = "done" => Formatted /\ Formattable /\ text = Numeral

LEMMA InitAcceptedInv == Init => AcceptedInv
  BY InitIInv DEF Init, Format, AcceptedInv

LEMMA NextAcceptedInv == AcceptedInv /\ [Next]_vars => AcceptedInv'
<1> SUFFICES ASSUME AcceptedInv, [Next]_vars PROVE AcceptedInv'
  OBVIOUS
<1>1. IInv /\ IInv'
  BY NextIInv DEF AcceptedInv
<1>2. CASE RefuseNegative \/ FormatDigit \/ EndFormat \/ ParseDigit
  BY <1>1, <1>2 DEF AcceptedInv, RefuseNegative, FormatDigit, EndFormat, ParseDigit
<1>3. CASE EndParse
  <2>1. stage = "parse" /\ UNCHANGED <<text, source>> /\ stage' \in {"error", "format", "done"}
    BY <1>3 DEF EndParse
  <2>2. CASE stage' = "done"
    <3>1. values # <<>> /\ UNCHANGED <<number, values, digits>>
      BY <1>3, <2>2 DEF EndParse
    <3>2. Formatted /\ Formattable /\ text = Numeral /\ notation' = notation
      BY <3>1, <2>1, <1>1, <1>3 DEF IInv, Formatted, Retraced, EndParse
    <3> QED
      BY <3>1, <3>2, <2>1, <2>2, <1>1 DEF AcceptedInv, Formatted, Formattable, Numeral, Signed
  <2> QED
    BY <2>1, <2>2, <1>1 DEF AcceptedInv
<1>4. CASE ParseDecimal
  BY <1>1, <1>4 DEF AcceptedInv, ParseDecimal
<1>5. CASE UNCHANGED vars
  BY <1>1, <1>5 DEF AcceptedInv, vars, Formatted, Formattable, Numeral, Signed
<1> QED
  BY <1>2, <1>3, <1>4, <1>5 DEF Next

\* What is written for a digit is a digit.
LEMMA WrittenDigit ==
    ASSUME notation \in Notations, NEW d \in DigitSet(notation)
    PROVE  ~ ForeignLetter(CharOf(d))
<1>1. HalfBase \in 0 .. 4
  BY Bases DEF HalfBase
<1>2. CASE d >= 0
  BY <1>2 DEF ForeignLetter, CharOf, Char
<1>3. CASE d < 0 /\ notation = "balanced"
  <2>1. -d \in 1 .. HalfBase /\ d \in -HalfBase .. -1
    BY <1>1, <1>3 DEF DigitSet
  <2>2. CASE Base = 3
    <3>1. d = -1
      BY <2>1, <2>2 DEF HalfBase
    <3>2. CharOf(d) = LetterT
      BY <3>1, <2>2 DEF CharOf
    <3> QED
      BY <3>2 DEF ForeignLetter, LetterT, Char
  <2>3. CASE Base # 3
    <3>1. CharOf(d) = Char("letter", -d)
      BY <2>1, <2>3, <1>1 DEF CharOf
    <3>2. Char("letter", -d) \in {Char("letter", k) : k \in 1 .. HalfBase}
      BY <2>1
    <3> QED
      BY <3>1, <3>2, <2>3, <1>3 DEF ForeignLetter, DigitTable
  <2> QED
    BY <2>2, <2>3
<1> QED
  BY <1>1, <1>2, <1>3 DEF DigitSet, ForeignLetter

\* No character of a numeral is a letter of a larger base.
LEMMA WrittenNumeral ==
    ASSUME TypeInv, Formattable
    PROVE  \A k \in DOMAIN Numeral : ~ ForeignLetter(Numeral[k])
<1>1. number \in Int /\ notation \in Notations /\ Len(digits) \in Nat
  BY DEF TypeInv
<1>2. CASE number = 0
  <2>1. ~ ForeignLetter(CharOf(0))
    BY DEF ForeignLetter, CharOf, Char
  <2> QED
    BY <2>1, <1>2 DEF Numeral
<1>3. CASE number # 0
  <2> SUFFICES ASSUME NEW k \in DOMAIN Numeral PROVE ~ ForeignLetter(Numeral[k])
    OBVIOUS
  <2> DEFINE d == digits[Len(digits) + 1 - k]
  <2>1. k \in 1 .. Len(digits) /\ Numeral[k] = CharOf(Signed(d))
    BY <1>1, <1>3 DEF Numeral, TypeInv
  <2>2. Len(digits) + 1 - k \in 1 .. Len(digits)
    BY <2>1, <1>1
  <2>3. d \in DigitSet(notation)
    BY <2>2, <1>1 DEF TypeInv
  <2>4. Signed(d) \in DigitSet(notation)
    BY <2>3, <1>1, SignedDigit
  <2> QED
    BY <2>1, <2>4, <1>1, WrittenDigit
<1> QED
  BY <1>2, <1>3

\* A text that is accepted is the numeral of what it stands for, but for zeros
\* in front, exactly if it has no letter of a larger base (base7.py:
\* parse_base_n and format_base_n, parse_balanced and format_balanced).
THEOREM NumeralsAreUnique == Spec => []NumeralsUnique
<1>1. UInv /\ AcceptedInv => NumeralsUnique
  <2> SUFFICES ASSUME UInv, AcceptedInv, stage = "done", source # <<>>
               PROVE  NoForeignLetter(source) <=>
                         \E k \in 1 .. Len(source) :
                            /\ text = SubSeq(source, k, Len(source))
                            /\ \A j \in 1 .. k - 1 : source[j] = CharOf(0)
    BY DEF NumeralsUnique
  <2>1. ASSUME NEW k \in 1 .. Len(source), text = SubSeq(source, k, Len(source)),
               \A j \in 1 .. k - 1 : source[j] = CharOf(0), NEW i \in DOMAIN source
        PROVE  ~ ForeignLetter(source[i])
    <3>1. /\ source \in Seq(Chars) /\ Len(source) \in Nat /\ i \in 1 .. Len(source)
          /\ TypeInv /\ Formattable /\ text = Numeral
      BY <2>1 DEF UInv, AcceptedInv, IInv
    <3>2. CASE i < k
      BY <3>1, <3>2, <2>1 DEF ForeignLetter, CharOf, Char
    <3>3. CASE i >= k
      <4>1. /\ i - k + 1 \in 1 .. Len(source) - k + 1
            /\ DOMAIN text = 1 .. Len(source) - k + 1
            /\ text[i - k + 1] = source[i]
        BY <3>1, <3>3, <2>1
      <4> QED
        BY <4>1, <3>1, WrittenNumeral
    <3> QED
      BY <3>1, <3>2, <3>3, <2>1
  <2> QED
    BY <2>1, UInvUnique DEF NoForeignLetter
<1> QED
  BY InitUInv, NextUInv, InitAcceptedInv, NextAcceptedInv, <1>1, PTL DEF Spec

-----------------------------------------------------------------------------
(* A text is read by position.                                             *)

\* The recursion of Power, and of the sums of a text of digits.
LEMMA PowerFacts ==
    /\ Power \in [Nat -> Int] /\ Power[0] = 1
    /\ \A n \in Nat : Power[n + 1] = Base * Power[n]
<1> DEFINE IsPower(f) == f = [n \in Nat |-> IF n = 0 THEN 1 ELSE Base * f[n - 1]]
<1>1. Base \in Nat
  BY RadixAssumption
<1>2. \E f : IsPower(f)
  <2> DEFINE c == [n \in Nat |-> 0]
  <2>1. c \in [Nat -> Int] /\ Base \in Int /\ 1 \in Int /\ \A n \in Nat : c[n + 1] = 0
    BY <1>1
  <2> HIDE DEF c
  <2>2. PICK f \in [Nat -> Int] : f[0] = 1 /\ \A n \in Nat : f[n + 1] = f[n] * Base + c[n + 1]
    BY <2>1, LinearRecursion
  <2>3. ASSUME NEW n \in Nat PROVE f[n] = IF n = 0 THEN 1 ELSE Base * f[n - 1]
    <3>1. CASE n = 0
      BY <3>1, <2>2
    <3>2. CASE n # 0
      <4>1. n - 1 \in Nat /\ (n - 1) + 1 = n
        BY <3>2
      <4>2. f[n] = f[n - 1] * Base + 0 /\ f[n - 1] \in Int
        BY <4>1, <2>1, <2>2
      <4> QED
        BY <4>2, <3>2, <1>1
    <3> QED
      BY <3>1, <3>2
  <2>4. IsPower(f)
    BY <2>3
  <2> QED
    BY <2>4
<1>3. IsPower(Power)
  BY <1>2 DEF Power
<1> DEFINE S == {n \in Nat : Power[n] \in Int}
<1>4. Power[0] = 1 /\ \A n \in Nat : Power[n + 1] = Base * Power[n]
  BY <1>3
<1>5. Nat \subseteq S
  <2>1. 0 \in S /\ \A n \in Nat : n \in S => n + 1 \in S
    BY <1>1, <1>4
  <2> HIDE DEF S
  <2> QED
    BY <2>1, SetInduction
<1> QED
  BY <1>3, <1>4, <1>5

\* A character of the table is a digit, and stands for what the table says.
LEMMA TableOfDigits ==
    ASSUME NEW c \in Characters, notation \in Notations
    PROVE  /\ c \in Chars
           /\ ~ ForeignLetter(c) => (c \in DOMAIN DigitTable <=> IsDigit(notation, c))
           /\ c \in DOMAIN DigitTable => DigitTable[c] = DigitOf(c) /\ DigitOf(c) \in Int
<1>1. Base \in Nat /\ HalfBase \in 0 .. 4 /\ HalfBase < Base /\ Base <= 10
  BY Bases DEF HalfBase
<1>2. c \in Chars
  BY DEF Characters, Chars
<1>3. CASE notation = "base_n"
  <2>1. DigitTable = [d \in {Char("digit", i) : i \in 0 .. Base - 1} |-> d.n]
    BY <1>3 DEF DigitTable
  <2>2. c \in {Char("digit", i) : i \in 0 .. Base - 1} <=> c.kind = "digit" /\ c.n < Base
    BY <1>1, <1>2 DEF Char, Chars
  <2> QED
    BY <2>1, <2>2, <1>2, <1>3 DEF IsDigit, DigitOf, Chars
<1>4. CASE notation = "balanced"
  <2> DEFINE D == {Char("digit", d) : d \in 0 .. HalfBase} \cup
                  (IF Base = 3 THEN {LetterT} ELSE {Char("letter", k) : k \in 1 .. HalfBase})
  <2>1. DigitTable = [d \in D |-> IF d.kind = "digit" THEN d.n ELSE IF Base = 3 THEN -1 ELSE -d.n]
    BY <1>4 DEF DigitTable
  <2>2. c \in {Char("digit", d) : d \in 0 .. HalfBase} <=> c.kind = "digit" /\ c.n <= HalfBase
    BY <1>1, <1>2 DEF Char, Chars
  <2>3. c \in {Char("letter", k) : k \in 1 .. HalfBase} <=> c.kind = "letter" /\ c.n <= HalfBase
    BY <1>1 DEF Char, Characters
  <2>4. c \in D => IsBalancedDigit(c)
    BY <2>2, <2>3, <1>1, <1>2 DEF IsBalancedDigit, Chars
  <2>6. c \in {Char("digit", d) : d \in 0 .. HalfBase} => c \in D
    OBVIOUS
  <2>9. Base = 3 /\ c = LetterT => c \in D
    OBVIOUS
  <2>5. IsBalancedDigit(c) /\ ~ ForeignLetter(c) => c \in D
    <3>1. DOMAIN DigitTable = D
      BY <2>1
    <3> HIDE DEF D
    <3> QED
      BY <3>1, <2>2, <2>6, <2>9, <1>2, <1>4 DEF IsBalancedDigit, ForeignLetter, Chars
  <2>7. DigitOf(c) \in Int
    BY <1>2 DEF DigitOf, Chars
  <2>8. c \in D => DigitOf(c) = IF c.kind = "digit" THEN c.n ELSE IF Base = 3 THEN -1 ELSE -c.n
    BY <2>2, <2>3, <1>1 DEF DigitOf, LetterT, Char
  <2> HIDE DEF D
  <2> QED
    BY <2>1, <2>4, <2>5, <2>7, <2>8, <1>2, <1>4 DEF IsDigit
<1> QED
  BY <1>3, <1>4 DEF Notations

LEMMA SumsFacts ==
    ASSUME source \in Seq(Characters), notation \in Notations, AllDigits(source)
    PROVE  /\ Sums(source)[0] = 0
           /\ \A k \in 1 .. Len(source) : Sums(source)[k] =
                 Sums(source)[k - 1] + DigitTable[source[k]] * Power[Len(source) - k]
<1> DEFINE n == Len(source)
           IsSums(f) == f = [k \in 0 .. n |->
              IF k = 0 THEN 0 ELSE f[k - 1] + DigitTable[source[k]] * Power[n - k]]
<1>1. n \in Nat /\ DOMAIN source = 1 .. n
  OBVIOUS
<1>2. \E f : IsSums(f)
  <2> DEFINE c == [k \in Nat |-> IF k \in 1 .. n THEN DigitTable[source[k]] * Power[n - k] ELSE 0]
  <2>1. ASSUME NEW k \in 1 .. n PROVE DigitTable[source[k]] * Power[n - k] \in Int
    <3>1. DigitTable[source[k]] \in Int
      BY <1>1, TableOfDigits DEF AllDigits
    <3>2. Power[n - k] \in Int
      <4>1. n - k \in Nat
        BY <1>1
      <4> QED
        BY <4>1, PowerFacts
    <3> QED
      BY <3>1, <3>2
  <2>2. c \in [Nat -> Int]
    BY <2>1
  <2>3. \A k \in 1 .. n : c[k] = DigitTable[source[k]] * Power[n - k]
    OBVIOUS
  <2> HIDE DEF c
  <2> DEFINE one == 1
  <2>4. PICK f \in [Nat -> Int] : f[0] = 0 /\ \A k \in Nat : f[k + 1] = f[k] * one + c[k + 1]
    <3>1. one \in Int /\ 0 \in Int
      OBVIOUS
    <3> HIDE DEF one
    <3> QED
      BY <3>1, <2>2, LinearRecursion
  <2> DEFINE g == [k \in 0 .. n |-> f[k]]
  <2>5. ASSUME NEW k \in 0 .. n
        PROVE  g[k] = IF k = 0 THEN 0 ELSE g[k - 1] + DigitTable[source[k]] * Power[n - k]
    <3>1. CASE k = 0
      BY <3>1, <2>4
    <3>2. CASE k # 0
      <4>1. k - 1 \in Nat /\ (k - 1) + 1 = k /\ k \in 1 .. n /\ k - 1 \in 0 .. n
        BY <3>2, <1>1
      <4>2. f[k] = f[k - 1] * one + c[k] /\ f[k - 1] \in Int /\ c[k] \in Int
        <5>1. f[(k - 1) + 1] = f[k - 1] * one + c[(k - 1) + 1]
          BY <4>1, <2>4
        <5> QED
          BY <4>1, <5>1, <2>2, <2>4
      <4>3. f[k] = f[k - 1] + c[k]
        BY <4>2
      <4>4. g[k] = f[k] /\ g[k - 1] = f[k - 1]
        BY <4>1
      <4> QED
        BY <4>1, <4>3, <4>4, <2>3, <3>2
    <3> QED
      BY <3>1, <3>2
  <2>6. IsSums(g)
    <3> HIDE DEF n
    <3> QED
      BY <2>5
  <2> QED
    BY <2>6
<1>3. IsSums(Sums(source))
  BY <1>2 DEF Sums
<1> QED
  BY <1>1, <1>3

\* The characters read so far are digits, and what they stand for is, times
\* the power of the places to come, the sum of their parts.
Reading ==
    /\ text = source /\ at <= Len(source) + 1
    /\ \A k \in 1 .. at - 1 : source[k] \in DOMAIN DigitTable
    /\ notation = "base_n" => result >= 0
    /\ AllDigits(source) => result * Power[Len(source) + 1 - at] = Sums(source)[at - 1]

ReadInv ==
    /\ IInv
    /\ source \in Seq(Characters)
    /\ source # <<>> /\ NoForeignLetter(source) =>
          /\ stage # "decimal" /\ (stage \in {"format", "done"} => Formatted)
          /\ ~ Formatted /\ stage = "parse" => Reading
          /\ ~ Formatted /\ stage = "error" =>
                ~ (AllDigits(source) /\ Representable(Positional(source)))
          /\ Formatted => /\ AllDigits(source) /\ Representable(Positional(source))
                          /\ number = Positional(source)

LEMMA SameTable ==
    ASSUME notation' = notation, source' = source
    PROVE  /\ DigitTable' = DigitTable /\ AllDigits(source)' = AllDigits(source)
           /\ NoForeignLetter(source)' = NoForeignLetter(source)
           /\ Sums(source)' = Sums(source) /\ Positional(source)' = Positional(source)
           /\ Representable(Positional(source))' = Representable(Positional(source))
<1>1. DigitTable' = DigitTable
  BY DEF DigitTable
<1>2. AllDigits(source)' = AllDigits(source)
  BY <1>1 DEF AllDigits
<1>3. Sums(source)' = Sums(source)
  BY <1>1 DEF Sums
<1>4. Positional(source)' = Positional(source)
  BY <1>3 DEF Positional
<1> QED
  BY <1>1, <1>2, <1>3, <1>4, SameLetters DEF Representable

\* A step that leaves the number, or has none, and comes to no end.
LEMMA NumberStays ==
    ASSUME ReadInv, IInv', UNCHANGED <<source, notation, number>>, source # <<>>,
           NoForeignLetter(source), Formatted, Formatted', stage' # "decimal"
    PROVE  ReadInv'
  BY SameTable DEF ReadInv

\* Multiplying out one more digit.
LEMMA OnePlace ==
    ASSUME NEW r \in Int, NEW b \in Int, NEW d \in Int, NEW p \in Int
    PROVE  (r * b + d) * p = r * (b * p) + d * p
  OBVIOUS

LEMMA ParseDigitReadInv == ReadInv /\ ParseDigit => ReadInv'
<1> SUFFICES ASSUME ReadInv, ParseDigit PROVE ReadInv'
  OBVIOUS
<1>1. /\ IInv' /\ TypeInv /\ stage = "parse" /\ at <= Len(text) /\ source \in Seq(Characters)
      /\ UNCHANGED <<notation, number, values, digits, text, source>>
  BY ParseDigitIInv DEF ReadInv, IInv, ParseDigit
<1>2. CASE source = <<>> \/ ~ NoForeignLetter(source)
  BY <1>1, <1>2, SameLetters DEF ReadInv
<1>3. CASE source # <<>> /\ NoForeignLetter(source) /\ Formatted
  BY <1>1, <1>3, NumberStays DEF Formatted, ParseDigit
<1>4. CASE source # <<>> /\ NoForeignLetter(source) /\ ~ Formatted
  <2>1. Reading /\ text = source /\ at \in 1 .. Len(source)
    BY <1>1, <1>4 DEF ReadInv, Reading, TypeInv
  <2> DEFINE c == source[at]
             n == Len(source)
  <2>2. /\ c \in Characters /\ notation \in Notations /\ at \in Nat /\ n \in Nat /\ result \in Int
        /\ Base \in Nat
    BY <2>1, <1>1, RadixAssumption DEF TypeInv
  <2>3. /\ c \in DOMAIN DigitTable <=> IsDigit(notation, c)
        /\ c \in DOMAIN DigitTable => DigitTable[c] = DigitOf(c) /\ DigitOf(c) \in Int
    <3>1. ~ ForeignLetter(c)
      BY <2>1, <1>1, <1>4 DEF NoForeignLetter
    <3> QED
      BY <3>1, <2>2, TableOfDigits
  <2>4. CASE ~ IsDigit(notation, c)
    <3>1. stage' = "error" /\ ~ AllDigits(source)
      BY <2>1, <2>2, <2>3, <2>4 DEF ParseDigit, AllDigits
    <3> QED
      BY <3>1, <1>1, <1>4, SameTable DEF ReadInv, Formatted
  <2>5. CASE IsDigit(notation, c)
    <3>1. stage' = stage /\ at' = at + 1 /\ result' = result * Base + DigitOf(c)
      BY <2>1, <2>5 DEF ParseDigit
    <3>2. \A k \in 1 .. at : source[k] \in DOMAIN DigitTable
      <4>1. \A k \in 1 .. at : k \in 1 .. at - 1 \/ k = at
        BY <2>2
      <4> QED
        BY <4>1, <2>1, <2>3, <2>5 DEF Reading
    <3>3. notation = "base_n" => result' >= 0
      <4>1. notation = "base_n" => DigitOf(c) >= 0
        BY <2>2, <2>5 DEF IsDigit, DigitOf, Characters
      <4>2. notation = "base_n" => result * Base >= 0
        BY <2>1, <2>2 DEF Reading
      <4>3. result * Base \in Int
        BY <2>2
      <4> QED
        BY <3>1, <4>1, <4>2, <4>3, <2>3, <2>5
    <3>4. AllDigits(source) => result' * Power[n - at] = Sums(source)[at]
      <4> SUFFICES ASSUME AllDigits(source) PROVE result' * Power[n - at] = Sums(source)[at]
        OBVIOUS
      <4>1. n - at \in Nat /\ n + 1 - at = (n - at) + 1
        BY <2>1, <2>2
      <4>2. Power[n - at] \in Int /\ Power[n + 1 - at] = Base * Power[n - at]
        BY <4>1, PowerFacts
      <4>3. result * Power[n + 1 - at] = Sums(source)[at - 1]
        BY <2>1 DEF Reading
      <4>4. Sums(source)[at] = Sums(source)[at - 1] + DigitTable[c] * Power[n - at]
        BY <2>1, <2>2, <1>1, SumsFacts
      <4>5. (result * Base + DigitOf(c)) * Power[n - at] =
               result * (Base * Power[n - at]) + DigitOf(c) * Power[n - at]
        BY <2>2, <2>3, <2>5, <4>2, OnePlace
      <4> QED
        BY <3>1, <4>2, <4>3, <4>4, <4>5, <2>3, <2>5
    <3>5. Reading'
      <4>1. /\ text' = source' /\ at' <= Len(source') + 1 /\ at' - 1 = at
            /\ Len(source') + 1 - at' = n - at
        BY <2>1, <2>2, <3>1, <1>1
      <4> HIDE DEF c, n
      <4> QED
        BY <4>1, <3>2, <3>3, <3>4, <1>1, SameTable DEF Reading, n
    <3> QED
      BY <3>1, <3>5, <1>1, <1>4 DEF ReadInv, Formatted
  <2> QED
    BY <2>4, <2>5
<1> QED
  BY <1>2, <1>3, <1>4

LEMMA EndParseReadInv == ReadInv /\ EndParse => ReadInv'
<1> SUFFICES ASSUME ReadInv, EndParse PROVE ReadInv'
  OBVIOUS
<1>1. /\ IInv' /\ TypeInv /\ stage = "parse" /\ at > Len(text) /\ source \in Seq(Characters)
      /\ UNCHANGED <<notation, text, at, result, source>>
  BY EndParseIInv DEF ReadInv, IInv, EndParse
<1>2. CASE source = <<>> \/ ~ NoForeignLetter(source)
  BY <1>1, <1>2, SameLetters DEF ReadInv
<1>3. CASE source # <<>> /\ NoForeignLetter(source) /\ Formatted
  <2>1. UNCHANGED <<number, values, digits>> /\ stage' \in {"done", "error"}
    BY <1>3 DEF EndParse, Formatted
  <2> QED
    BY <2>1, <1>1, <1>3, NumberStays DEF Formatted
<1>4. CASE source # <<>> /\ NoForeignLetter(source) /\ ~ Formatted
  <2> DEFINE n == Len(source)
  <2>1. Reading /\ text = source /\ n \in Nat /\ at = n + 1 /\ n > 0 /\ result \in Int
    BY <1>1, <1>4 DEF ReadInv, Reading, TypeInv
  <2>2. AllDigits(source)
    BY <2>1, <1>1 DEF Reading, AllDigits
  <2>3. result = Positional(source)
    <3>1. n + 1 - at = 0 /\ at - 1 = n
      BY <2>1
    <3>2. result * Power[n + 1 - at] = Sums(source)[at - 1]
      BY <2>1, <2>2 DEF Reading
    <3>3. result * 1 = Sums(source)[n]
      BY <3>1, <3>2, PowerFacts
    <3> QED
      BY <3>3, <2>1 DEF Positional
  <2>4. InRange(result) <=> Representable(result)
    <3>1. CASE notation = "balanced"
      BY <3>1 DEF InRange, Representable
    <3>2. CASE notation # "balanced"
      <4>1. result >= 0
        BY <2>1, <1>1, <3>2 DEF Reading, TypeInv, Notations
      <4>2. Modulus \in Int
        BY WordsAssumption
      <4>3. result \in 0 .. Modulus - 1 <=> result <= Modulus - 1
        BY <4>1, <4>2, <2>1
      <4> QED
        BY <3>2, <4>3 DEF InRange, Representable
    <3> QED
      BY <3>1, <3>2
  <2>5. CASE InRange(result)
    <3>1. values = <<>> /\ text # <<>>
      BY <1>4, <2>1 DEF Formatted
    <3>2. stage' = "format" /\ number' = result /\ values' = <<Abs(result)>>
      BY <3>1, <2>5 DEF EndParse
    <3>3. Formatted'
      BY <3>2 DEF Formatted
    <3> QED
      BY <3>2, <3>3, <2>2, <2>3, <2>4, <2>5, <1>1, SameTable DEF ReadInv
  <2>6. CASE ~ InRange(result)
    <3>1. stage' = "error" /\ ~ Formatted'
      BY <1>4, <2>6 DEF EndParse, Formatted
    <3> QED
      BY <3>1, <2>2, <2>3, <2>4, <2>6, <1>1, SameTable DEF ReadInv
  <2> QED
    BY <2>5, <2>6
<1> QED
  BY <1>2, <1>3, <1>4

LEMMA NextReadInv == ReadInv /\ [Next]_vars => ReadInv'
<1> SUFFICES ASSUME ReadInv, [Next]_vars PROVE ReadInv'
  OBVIOUS
<1>1. IInv'
  BY NextIInv DEF ReadInv
<1>2. CASE ParseDigit
  BY <1>2, ParseDigitReadInv
<1>3. CASE EndParse
  BY <1>3, EndParseReadInv
<1>4. CASE RefuseNegative \/ FormatDigit \/ EndFormat
  <2>1. stage = "format" /\ UNCHANGED <<notation, number, source>> /\ stage' # "decimal"
    BY <1>4 DEF RefuseNegative, FormatDigit, EndFormat
  <2>2. Formatted => Formatted'
    <3>1. values \in Seq(Nat) /\ (values' = values \/ \E v : values' = Append(values, v))
      BY <1>4 DEF ReadInv, IInv, TypeInv, RefuseNegative, FormatDigit, EndFormat
    <3> QED
      BY <3>1 DEF Formatted
  <2>3. CASE source = <<>> \/ ~ NoForeignLetter(source)
    BY <2>1, <2>3, <1>1, SameLetters DEF ReadInv
  <2>4. CASE source # <<>> /\ NoForeignLetter(source)
    BY <2>1, <2>2, <2>4, <1>1, NumberStays DEF ReadInv
  <2> QED
    BY <2>3, <2>4
<1>5. CASE ParseDecimal
  BY <1>5, <1>1, SameLetters DEF ReadInv, ParseDecimal
<1>6. CASE UNCHANGED vars
  <2>1. /\ UNCHANGED <<source, notation, number, values, stage, text, at, result>>
    BY <1>6 DEF vars
  <2> QED
    BY <2>1, <1>1, SameTable DEF ReadInv, Reading, Formatted
<1> QED
  BY <1>2, <1>3, <1>4, <1>5, <1>6 DEF Next

LEMMA InitReadInv == Init => ReadInv
<1> SUFFICES ASSUME Init PROVE ReadInv
  OBVIOUS
<1>1. IInv /\ at = 1 /\ result = 0
  BY InitIInv DEF Init
<1>2. source \in Seq(Characters)
  <2>1. source = <<>> \/ source \in Texts
    BY DEF Init
  <2>2. <<>> \in Seq(Characters)
    OBVIOUS
  <2>3. Texts \subseteq Seq(Characters)
    BY DigitsAssumption
  <2> QED
    BY <2>1, <2>2, <2>3
<1>3. SUFFICES ASSUME source # <<>>, NoForeignLetter(source)
             PROVE  stage = "parse" /\ ~ Formatted /\ Reading
  BY <1>1, <1>2 DEF ReadInv
<1>4. stage = "parse" /\ text = source /\ ~ Formatted /\ notation \in Notations
  BY <1>3 DEF Init, Formatted, Format
<1>5. Len(source) \in Nat /\ 1 - 1 = 0 /\ Len(source) + 1 - 1 = Len(source)
  BY <1>2
<1>6. AllDigits(source) => 0 * Power[Len(source)] = Sums(source)[0]
  <2> SUFFICES ASSUME AllDigits(source) PROVE 0 * Power[Len(source)] = Sums(source)[0]
    OBVIOUS
  <2>1. Power[Len(source)] \in Int
    BY <1>5, PowerFacts
  <2>2. Sums(source)[0] = 0
    BY <1>2, <1>4, SumsFacts
  <2> QED
    BY <2>1, <2>2
<1> QED
  BY <1>1, <1>4, <1>5, <1>6 DEF Reading

\* A text without letters of a larger base is accepted exactly if it consists
\* of digits that stand for a word by position, and is read as that word
\* (base7.py: parse_base_n, parse_balanced, _char_to_digit).
THEOREM TextsAreReadByPosition == Spec => []ReadByPosition
<1>1. ReadInv => ReadByPosition
  BY DEF ReadInv, ReadByPosition
<1> QED
  BY InitReadInv, NextReadInv, <1>1, PTL DEF Spec
=============================================================================
