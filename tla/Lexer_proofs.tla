---------------------------- MODULE Lexer_proofs ----------------------------
(***************************************************************************)
(* The scanner cuts every source, in every base, into its longest lexemes: *)
(* a token is where it says, nothing is between two of them but blanks and *)
(* whole comments, and scanning fails only where the lexical rules do.     *)
(***************************************************************************)
EXTENDS Lexer, Induction

-----------------------------------------------------------------------------
(* The tables and the classes of characters.                               *)

LEMMA DigitChars10 == Len(DigitChars) = 10 /\ DOMAIN DigitChars = 1 .. 10
  BY DEF DigitChars

LEMMA DigitSets ==
    /\ Digits = {"0", "1", "2", "3", "4", "5", "6", "7", "8", "9"}
    /\ DigitsOfBase \subseteq Digits
<1>1. Digits = {"0", "1", "2", "3", "4", "5", "6", "7", "8", "9"}
  BY DEF Digits, DigitChars
<1>2. 1 .. Radix \subseteq DOMAIN DigitChars
  <2>1. Radix \in 2 .. 10
    BY DigitChars10, LexerAssumption
  <2> QED
    BY <2>1, DigitChars10
<1> QED
  BY <1>1, <1>2 DEF Digits, DigitsOfBase

SingleChars == {"+", "-", "!", "=", ">", "<", "(", ")", "{", "}", "[", "]", ",", ";", ":"}

SingleTypes ==
    {"PLUS", "MINUS", "BANG", "ASSIGN", "GT", "LT", "LPAREN", "RPAREN", "LBRACE", "RBRACE",
     "LBRACKET", "RBRACKET", "COMMA", "SEMICOLON", "COLON"}

LEMMA SingleTable ==
    /\ DOMAIN SingleCharTokens = SingleChars
    /\ \A c \in SingleChars : SingleCharTokens[c] \in SingleTypes
<1> DEFINE pairs ==
        {<<"+", "PLUS">>, <<"-", "MINUS">>, <<"!", "BANG">>, <<"=", "ASSIGN">>, <<">", "GT">>,
         <<"<", "LT">>, <<"(", "LPAREN">>, <<")", "RPAREN">>, <<"{", "LBRACE">>,
         <<"}", "RBRACE">>, <<"[", "LBRACKET">>, <<"]", "RBRACKET">>, <<",", "COMMA">>,
         <<";", "SEMICOLON">>, <<":", "COLON">>}
<1>1. SingleCharTokens = Table(pairs)
  BY DEF SingleCharTokens
<1>2. ASSUME NEW p \in pairs PROVE \E c \in SingleChars, t \in SingleTypes : p = <<c, t>>
  BY Zenon DEF SingleChars, SingleTypes
<1>3. ASSUME NEW c \in SingleChars PROVE \E t : <<c, t>> \in pairs
  BY Zenon DEF SingleChars
<1> HIDE DEF pairs
<1>4. \A c \in DOMAIN Table(pairs) : \E p \in pairs : c = p[1] /\ Table(pairs)[c] = p[2]
  BY DEF Table
<1>5. \A p \in pairs : p[1] \in DOMAIN Table(pairs)
  BY DEF Table
<1>6. ASSUME NEW c \in DOMAIN Table(pairs)
      PROVE  c \in SingleChars /\ Table(pairs)[c] \in SingleTypes
  <2>1. PICK p \in pairs : c = p[1] /\ Table(pairs)[c] = p[2]
    BY <1>4
  <2>2. PICK d \in SingleChars, t \in SingleTypes : p = <<d, t>>
    BY <1>2
  <2> QED
    BY <2>1, <2>2
<1>7. ASSUME NEW c \in SingleChars PROVE c \in DOMAIN Table(pairs)
  <2>1. PICK t : <<c, t>> \in pairs
    BY <1>3
  <2>2. <<c, t>>[1] = c
    OBVIOUS
  <2> QED
    BY <2>1, <2>2, <1>5
<1> QED
  BY <1>1, <1>6, <1>7

TwoCharTypes == {"EQ", "NEQ", "GTE", "LTE", "ARROW"}

KeywordTypes ==
    {"FN", "LET", "RETURN", "IF", "ELSE", "WHILE", "TRUE", "FALSE", "STORE", "WORD",
     "BOOL7", "ADDR", "VOID"}

TokenTypes ==
    {"NUMBER", "DECIMAL_NUMBER", "IDENT", "EOF"} \cup SingleTypes \cup TwoCharTypes \cup KeywordTypes

Toks == [type : TokenTypes, value : Seq(Characters), loc : Nat \X Nat]

\* A token of a table is neither a number nor the end of the input.
LEMMA TableTypes ==
    ASSUME NEW t \in SingleTypes \cup TwoCharTypes \cup KeywordTypes
    PROVE  t \notin {"NUMBER", "DECIMAL_NUMBER", "EOF"}
  BY DEF SingleTypes, TwoCharTypes, KeywordTypes

LEMMA TwoCharTable ==
    ASSUME NEW s \in DOMAIN TwoCharOps
    PROVE  /\ s = <<s[1], s[2]>> /\ Len(s) = 2
           /\ s[1] \in {"=", "!", ">", "<", "-"} /\ s[2] \in {"=", ">"}
           /\ TwoCharOps[s] \in TwoCharTypes
<1>1. s \in {<<"=", "=">>, <<"!", "=">>, <<">", "=">>, <<"<", "=">>, <<"-", ">">>}
  BY DEF TwoCharOps, Table
<1>2. TwoCharOps[s] \in TwoCharTypes
  BY DEF TwoCharOps, Table, TwoCharTypes
<1> QED
  BY <1>1, <1>2

LEMMA KeywordTable ==
    ASSUME NEW s \in DOMAIN Keywords
    PROVE  /\ s[1] \in {"f", "l", "r", "i", "e", "w", "t", "s", "b", "a", "v"}
           /\ Keywords[s] \in KeywordTypes
<1>1. s[1] \in {"f", "l", "r", "i", "e", "w", "t", "s", "b", "a", "v"}
  BY DEF Keywords, Table
<1>2. Keywords[s] \in KeywordTypes
  BY DEF Keywords, Table, KeywordTypes
<1> QED
  BY <1>1, <1>2

\* A character is of one class.
LEMMA SignClasses ==
    /\ {"=", "!", ">", "<", "-", ":"} \subseteq SingleChars
    /\ \A c \in SingleChars : /\ c \notin Blanks /\ c # "/" /\ c # "_" /\ c # NoChar /\ c \notin Digits
                              /\ c \notin {"f", "l", "r", "i", "e", "w", "t", "s", "b", "a", "v", "d"}
<1> USE DEF SingleChars
<1>1. {"=", "!", ">", "<", "-", ":"} \subseteq SingleChars
  BY Zenon
<1>2. ASSUME NEW c \in SingleChars PROVE c \notin Blanks /\ c # "/" /\ c # "_" /\ c # NoChar
  BY Zenon DEF Blanks, NoChar
<1>3. ASSUME NEW c \in SingleChars PROVE c \notin Digits
  BY DigitSets, Zenon
<1>4. ASSUME NEW c \in SingleChars
      PROVE  c \notin {"f", "l", "r", "i", "e", "w", "t", "s", "b", "a", "v", "d"}
  BY Zenon
<1> QED
  BY <1>1, <1>2, <1>3, <1>4

LEMMA DigitClasses ==
    ASSUME NEW c \in Digits
    PROVE  /\ c \notin Blanks /\ c # "/" /\ c # "_" /\ c # NoChar
           /\ c \notin {"f", "l", "r", "i", "e", "w", "t", "s", "b", "a", "v", "d"}
  BY DigitSets, Zenon DEF Blanks, NoChar

LEMMA BlankClasses ==
    /\ \A c \in Blanks : c # "/" /\ c # "_" /\ c # NoChar
    /\ "\n" \in Blanks
    /\ "/" # NoChar /\ "_" # NoChar /\ "/" # "_" /\ "d" # "_"
  BY Zenon DEF Blanks, NoChar

LEMMA CharClasses ==
    /\ \A c \in Digits : c \notin IdentifierStart /\ c \notin Blanks /\ c \notin SingleChars
                         /\ c # NoChar /\ c # "/" /\ c # "d"
    /\ \A c \in IdentifierStart : c \notin Blanks /\ c \notin SingleChars /\ c # NoChar /\ c # "/"
    /\ IdentifierChars = IdentifierStart \cup Digits
    /\ \A c \in SingleChars : c \notin Blanks /\ c \notin IdentifierChars
                              /\ c # NoChar /\ c # "/" /\ c # "d"
    /\ \A c \in Blanks : c # NoChar
    /\ ":" \notin IdentifierChars /\ "d" \in IdentifierStart
    /\ NoChar \notin Characters
<1>1. /\ "d" \in Letters /\ NoChar \notin Letters /\ NoChar \notin Characters
      /\ \A c \in Letters : c \notin Digits /\ c \notin Blanks /\ c # "_" /\ c # "/" /\ c \notin SingleChars
  BY LexerAssumption, SingleTable, Zenon
<1> QED
  BY <1>1, SignClasses, DigitClasses, BlankClasses, Zenon DEF IdentifierStart, IdentifierChars

-----------------------------------------------------------------------------
(* A piece of the source, character by character.                          *)

LEMMA Piece ==
    ASSUME text \in Seq(Characters), NEW p \in 1 .. Len(text), NEW q \in p .. Len(text)
    PROVE  LET s == SubSeq(text, p, q)
           IN  /\ s \in Seq(Characters) /\ Len(s) = q - p + 1 /\ DOMAIN s = 1 .. q - p + 1
               /\ \A k \in p .. q : k - p + 1 \in DOMAIN s /\ s[k - p + 1] = text[k]
               /\ \A i \in DOMAIN s : p + i - 1 \in p .. q /\ s[i] = text[p + i - 1]
<1> DEFINE s == SubSeq(text, p, q)
<1>1. s \in Seq(Characters) /\ Len(s) = q - p + 1 /\ DOMAIN s = 1 .. q - p + 1
  OBVIOUS
<1>2. \A i \in 1 .. q - p + 1 : p + i - 1 \in p .. q /\ s[i] = text[p + i - 1]
  OBVIOUS
<1>3. \A k \in p .. q : k - p + 1 \in 1 .. q - p + 1 /\ p + (k - p + 1) - 1 = k
  OBVIOUS
<1> HIDE DEF s
<1>4. \A k \in p .. q : s[k - p + 1] = text[k]
  BY <1>2, <1>3
<1> QED
  BY <1>1, <1>2, <1>3, <1>4 DEF s

LEMMA PieceIn ==
    ASSUME text \in Seq(Characters), NEW p \in 1 .. Len(text), NEW q \in p .. Len(text), NEW C
    PROVE  AllIn(SubSeq(text, p, q), C) <=> \A k \in p .. q : text[k] \in C
  BY Piece DEF AllIn

\* Two pieces from the same place are the same if they are of the same length.
LEMMA DecimalPiece ==
    ASSUME text \in Seq(Characters), NEW p \in 1 .. Len(text), NEW q \in p + 2 .. Len(text)
    PROVE  SubSeq(SubSeq(text, p, q), 3, Len(SubSeq(text, p, q))) = SubSeq(text, p + 2, q)
  OBVIOUS

IsDecimalAt(p, q) ==
    /\ q >= p + 2 /\ text[p] = "d" /\ text[p + 1] = ":"
    /\ \A k \in p + 2 .. q : text[k] \in Digits

LEMMA DecimalAt ==
    ASSUME text \in Seq(Characters), NEW p \in 1 .. Len(text), NEW q \in p .. Len(text)
    PROVE  IsDecimal(SubSeq(text, p, q)) <=> IsDecimalAt(p, q)
<1> DEFINE s == SubSeq(text, p, q)
<1>1. Len(s) = q - p + 1 /\ p \in Nat /\ q \in Nat
  OBVIOUS
<1>2. CASE q < p + 2
  BY <1>1, <1>2 DEF IsDecimal, IsDecimalAt
<1>3. CASE q >= p + 2
  <2>1. s[1] = text[p] /\ s[2] = text[p + 1]
    BY <1>3
  <2>2. SubSeq(s, 3, Len(s)) = SubSeq(text, p + 2, q)
    BY <1>3, DecimalPiece
  <2>3. p + 2 \in 1 .. Len(text) /\ q \in p + 2 .. Len(text)
    BY <1>3
  <2>4. AllIn(SubSeq(text, p + 2, q), Digits) <=> \A k \in p + 2 .. q : text[k] \in Digits
    BY <2>3, PieceIn
  <2>5. Len(s) > 2 /\ q >= p + 2
    BY <1>1, <1>3
  <2>6. IsDecimal(s) <=> s[1] = "d" /\ s[2] = ":" /\ AllIn(SubSeq(s, 3, Len(s)), Digits)
    <3> HIDE DEF s
    <3> QED
      BY <2>5 DEF IsDecimal
  <2>7. AllIn(SubSeq(s, 3, Len(s)), Digits) <=> \A k \in p + 2 .. q : text[k] \in Digits
    BY <2>2, <2>4
  <2>8. IsDecimal(s) <=> IsDecimalAt(p, q)
    <3> HIDE DEF s
    <3> QED
      BY <2>5, <2>1, <2>6, <2>7 DEF IsDecimalAt
  <2> QED
    BY <2>8
<1> QED
  BY <1>1, <1>2, <1>3

-----------------------------------------------------------------------------
(* The lexemes at a place, by its first character.                         *)

LEMMA LexemeCases ==
    ASSUME text \in Seq(Characters), NEW p \in 1 .. Len(text), NEW q \in p .. Len(text)
    PROVE  IsLexeme(SubSeq(text, p, q)) <=>
              \/ \A k \in p .. q : text[k] \in Digits
              \/ IsDecimalAt(p, q)
              \/ text[p] \in IdentifierStart /\ \A k \in p .. q : text[k] \in IdentifierChars
              \/ q = p + 1 /\ <<text[p], text[p + 1]>> \in DOMAIN TwoCharOps
              \/ q = p /\ text[p] \in SingleChars
<1> DEFINE s == SubSeq(text, p, q)
<1>1. Len(s) = q - p + 1 /\ s[1] = text[p] /\ p \in Nat /\ q \in Nat
  OBVIOUS
<1>2. AllIn(s, Digits) <=> \A k \in p .. q : text[k] \in Digits
  BY PieceIn
<1>3. IsDecimal(s) <=> IsDecimalAt(p, q)
  BY DecimalAt
<1>4. IsName(s) <=> text[p] \in IdentifierStart /\ \A k \in p .. q : text[k] \in IdentifierChars
  <2>1. AllIn(s, IdentifierChars) <=> \A k \in p .. q : text[k] \in IdentifierChars
    BY PieceIn
  <2> HIDE DEF s
  <2> QED
    BY <1>1, <2>1 DEF IsName, IdentifierStart
<1>5. s \in DOMAIN TwoCharOps <=> q = p + 1 /\ <<text[p], text[p + 1]>> \in DOMAIN TwoCharOps
  <2>1. ASSUME s \in DOMAIN TwoCharOps PROVE q = p + 1
    <3>1. Len(s) = 2
      <4> HIDE DEF s
      <4> QED
        BY <2>1, TwoCharTable
    <3> QED
      BY <3>1, <1>1
  <2>2. ASSUME q = p + 1 PROVE s = <<text[p], text[p + 1]>>
    <3>1. s \in Seq(Characters) /\ Len(s) = 2 /\ s[1] = text[p] /\ s[2] = text[p + 1]
      BY <2>2
    <3> HIDE DEF s
    <3> QED
      BY <3>1
  <2> QED
    BY <2>1, <2>2
<1>6. (Len(s) = 1 /\ s[1] \in DOMAIN SingleCharTokens) <=> q = p /\ text[p] \in SingleChars
  <2> HIDE DEF s
  <2> QED
    BY <1>1, SingleTable
<1> HIDE DEF s
<1> QED
  BY <1>2, <1>3, <1>4, <1>5, <1>6 DEF IsLexeme, s

LEMMA DigitLexeme ==
    ASSUME text \in Seq(Characters), NEW p \in 1 .. Len(text), NEW q \in p .. Len(text),
           text[p] \in Digits
    PROVE  IsLexeme(SubSeq(text, p, q)) <=> \A k \in p .. q : text[k] \in Digits
<1>1. text[p] \notin SingleChars /\ text[p] # "d" /\ text[p] \notin IdentifierStart
  BY CharClasses
<1>2. <<text[p], text[p + 1]>> \notin DOMAIN TwoCharOps
  BY <1>1, TwoCharTable, SignClasses
<1> QED
  BY <1>1, <1>2, LexemeCases DEF IsDecimalAt

LEMMA NameLexeme ==
    ASSUME text \in Seq(Characters), NEW p \in 1 .. Len(text), NEW q \in p .. Len(text),
           text[p] \in IdentifierStart, ~ IsDecimalAt(p, p + 2) \/ p + 2 > Len(text)
    PROVE  IsLexeme(SubSeq(text, p, q)) <=> \A k \in p .. q : text[k] \in IdentifierChars
<1>1. ~ IsDecimalAt(p, q)
  BY DEF IsDecimalAt
<1>2. text[p] \notin Digits /\ text[p] \notin SingleChars
  BY CharClasses
<1>3. <<text[p], text[p + 1]>> \notin DOMAIN TwoCharOps
  BY <1>2, TwoCharTable, SignClasses
<1>4. p \in p .. q
  OBVIOUS
<1> QED
  BY <1>1, <1>2, <1>3, <1>4, LexemeCases

LEMMA DecimalLexeme ==
    ASSUME text \in Seq(Characters), NEW p \in 1 .. Len(text), NEW q \in p + 2 .. Len(text),
           text[p] = "d", text[p + 1] = ":"
    PROVE  IsLexeme(SubSeq(text, p, q)) <=> \A k \in p + 2 .. q : text[k] \in Digits
<1>1. p \in p .. q /\ p + 1 \in p .. q /\ q \in p .. Len(text) /\ q # p /\ q # p + 1
  OBVIOUS
<1>2. text[p] \notin Digits /\ text[p + 1] \notin IdentifierChars
  BY CharClasses
<1>3. ~ (\A k \in p .. q : text[k] \in Digits) /\ ~ (\A k \in p .. q : text[k] \in IdentifierChars)
  BY <1>1, <1>2
<1>4. IsDecimalAt(p, q) <=> \A k \in p + 2 .. q : text[k] \in Digits
  BY DEF IsDecimalAt
<1> QED
  BY <1>1, <1>3, <1>4, LexemeCases

LEMMA OperatorLexeme ==
    ASSUME text \in Seq(Characters), NEW p \in 1 .. Len(text), NEW q \in p .. Len(text),
           text[p] \in SingleChars
    PROVE  IsLexeme(SubSeq(text, p, q)) <=>
              \/ q = p
              \/ q = p + 1 /\ <<text[p], text[p + 1]>> \in DOMAIN TwoCharOps
<1>1. p \in p .. q
  OBVIOUS
<1>2. text[p] \notin Digits /\ text[p] # "d" /\ text[p] \notin IdentifierStart
  BY CharClasses
<1> QED
  BY <1>1, <1>2, LexemeCases DEF IsDecimalAt

LEMMA NoLexeme ==
    ASSUME text \in Seq(Characters), NEW p \in 1 .. Len(text), NEW q \in p .. Len(text),
           text[p] \notin IdentifierStart \cup Digits \cup SingleChars
    PROVE  ~ IsLexeme(SubSeq(text, p, q))
<1>1. p \in p .. q
  OBVIOUS
<1>2. text[p] # "d" /\ text[p] \notin {"=", "!", ">", "<", "-"}
  BY CharClasses, SignClasses
<1>3. <<text[p], text[p + 1]>> \notin DOMAIN TwoCharOps
  BY <1>2, TwoCharTable
<1> QED
  BY <1>1, <1>2, <1>3, LexemeCases DEF IsDecimalAt

-----------------------------------------------------------------------------
(* Lines and columns.                                                      *)

LEMMA PlaceSets ==
    ASSUME NEW p \in Nat
    PROVE  /\ IsFiniteSet(NewlinesBefore(p)) /\ Cardinality(NewlinesBefore(p)) \in Nat
           /\ IsFiniteSet(OnLineBefore(p)) /\ Cardinality(OnLineBefore(p)) \in Nat
<1>1. IsFiniteSet(1 .. p - 1)
  BY FS_Interval
<1>2. NewlinesBefore(p) \subseteq 1 .. p - 1 /\ OnLineBefore(p) \subseteq 1 .. p - 1
  BY DEF NewlinesBefore, OnLineBefore
<1> QED
  BY <1>1, <1>2, FS_Subset, FS_CardinalityType

LEMMA PlaceFirst == Place(1) = <<1, 1>>
<1>1. NewlinesBefore(1) = {} /\ OnLineBefore(1) = {}
  BY DEF NewlinesBefore, OnLineBefore
<1> QED
  BY <1>1, FS_EmptySet DEF Place

\* Behind a newline a line begins; behind any other character it goes on.
LEMMA PlaceNext ==
    ASSUME NEW p \in Nat \ {0}
    PROVE  /\ text[p] = "\n" => Place(p + 1) = <<Place(p)[1] + 1, 1>>
           /\ text[p] # "\n" => Place(p + 1) = <<Place(p)[1], Place(p)[2] + 1>>
<1>1. p \notin NewlinesBefore(p) /\ p \notin OnLineBefore(p)
  BY DEF NewlinesBefore, OnLineBefore
<1>2. CASE text[p] = "\n"
  <2>1. NewlinesBefore(p + 1) = NewlinesBefore(p) \cup {p}
    BY <1>2 DEF NewlinesBefore
  <2>2. OnLineBefore(p + 1) = {}
    BY <1>2 DEF OnLineBefore
  <2>3. Cardinality(NewlinesBefore(p + 1)) = Cardinality(NewlinesBefore(p)) + 1
    BY <1>1, <2>1, PlaceSets, FS_AddElement
  <2> QED
    BY <1>2, <2>2, <2>3, FS_EmptySet, PlaceSets DEF Place
<1>3. CASE text[p] # "\n"
  <2>1. NewlinesBefore(p + 1) = NewlinesBefore(p)
    BY <1>3 DEF NewlinesBefore
  <2>2. OnLineBefore(p + 1) = OnLineBefore(p) \cup {p}
    BY <1>3 DEF OnLineBefore
  <2>3. Cardinality(OnLineBefore(p + 1)) = Cardinality(OnLineBefore(p)) + 1
    BY <1>1, <2>2, PlaceSets, FS_AddElement
  <2> QED
    BY <1>3, <2>1, <2>3, PlaceSets DEF Place
<1> QED
  BY <1>2, <1>3

\* No two positions have the same line and column.
LEMMA PlaceOnce ==
    ASSUME NEW p \in Nat \ {0}, NEW q \in Nat \ {0}, Place(p) = Place(q)
    PROVE  p = q
<1>1. ASSUME NEW x \in Nat \ {0}, NEW y \in Nat \ {0}, Place(x) = Place(y), x < y
      PROVE  FALSE
  <2>1. /\ Cardinality(NewlinesBefore(x)) = Cardinality(NewlinesBefore(y))
        /\ Cardinality(OnLineBefore(x)) = Cardinality(OnLineBefore(y))
    BY <1>1, PlaceSets DEF Place
  <2>2. NewlinesBefore(x) \subseteq NewlinesBefore(y)
    BY <1>1 DEF NewlinesBefore
  <2>3. NewlinesBefore(x) = NewlinesBefore(y)
    BY <2>1, <2>2, PlaceSets, FS_Subset
  <2>4. \A k \in x .. y - 1 : text[k] # "\n"
    BY <2>3, <1>1 DEF NewlinesBefore
  <2>5. OnLineBefore(x) \subseteq OnLineBefore(y) /\ x \in OnLineBefore(y) /\ x \notin OnLineBefore(x)
    BY <2>4, <1>1 DEF OnLineBefore
  <2>6. OnLineBefore(x) = OnLineBefore(y)
    BY <2>1, <2>5, PlaceSets, FS_Subset
  <2> QED
    BY <2>5, <2>6
<1> QED
  BY <1>1

-----------------------------------------------------------------------------
(* The token a lexeme is.                                                  *)

LEMMA MeantNumber ==
    ASSUME text \in Seq(Characters), NEW p \in 1 .. Len(text), NEW q \in p .. Len(text),
           \A k \in p .. q : text[k] \in Digits
    PROVE  Meant(p, SubSeq(text, p, q)) = Token("NUMBER", SubSeq(text, p, q), Place(p))
<1>1. AllIn(SubSeq(text, p, q), Digits)
  BY PieceIn
<1>2. ~ IsDecimal(SubSeq(text, p, q))
  <2>1. text[p] # "d"
    BY CharClasses
  <2> QED
    BY <2>1, DecimalAt DEF IsDecimalAt
<1>3. SubSeq(text, p, q)[1] = text[p] /\ text[p] \in Digits
  OBVIOUS
<1>4. /\ SubSeq(text, p, q) \notin DOMAIN Keywords
      /\ SubSeq(text, p, q) \notin DOMAIN TwoCharOps
  BY <1>3, KeywordTable, TwoCharTable, CharClasses, DigitClasses, SignClasses
<1>5. ~ IsName(SubSeq(text, p, q))
  BY <1>3, CharClasses DEF IsName, IdentifierStart
<1> QED
  BY <1>1, <1>2, <1>4, <1>5 DEF Meant

LEMMA MeantDecimal ==
    ASSUME text \in Seq(Characters), NEW p \in 1 .. Len(text), NEW q \in p .. Len(text),
           IsDecimalAt(p, q)
    PROVE  Meant(p, SubSeq(text, p, q))
             = Token("DECIMAL_NUMBER", SubSeq(text, p + 2, q), Place(p))
<1> DEFINE s == SubSeq(text, p, q)
<1>1. IsDecimal(s) /\ SubSeq(s, 3, Len(s)) = SubSeq(text, p + 2, q)
  BY DecimalAt, DecimalPiece DEF IsDecimalAt
<1>2. s[1] = "d" /\ s[2] = ":" /\ 1 \in DOMAIN s /\ 2 \in DOMAIN s
  BY DEF IsDecimalAt
<1> HIDE DEF s
<1>3. ~ AllIn(s, Digits) /\ ~ IsName(s)
  BY <1>2, CharClasses DEF AllIn, IsName
<1>4. s \notin DOMAIN Keywords /\ s \notin DOMAIN TwoCharOps
  BY <1>2, KeywordTable, TwoCharTable
<1>5. Meant(p, s) = Token("DECIMAL_NUMBER", SubSeq(s, 3, Len(s)), Place(p))
  BY <1>1, <1>3, <1>4 DEF Meant
<1> QED
  BY <1>1, <1>5 DEF s

LEMMA MeantName ==
    ASSUME text \in Seq(Characters), NEW p \in 1 .. Len(text), NEW q \in p .. Len(text),
           text[p] \in IdentifierStart, \A k \in p .. q : text[k] \in IdentifierChars
    PROVE  LET s == SubSeq(text, p, q)
           IN  Meant(p, s) = Token(IF s \in DOMAIN Keywords THEN Keywords[s] ELSE "IDENT",
                                   s, Place(p))
<1> DEFINE s == SubSeq(text, p, q)
<1>1. ~ IsDecimal(s)
  <2>1. ~ IsDecimalAt(p, q)
    <3>1. SUFFICES ASSUME IsDecimalAt(p, q) PROVE FALSE
      OBVIOUS
    <3>2. p + 1 \in p .. q /\ text[p + 1] = ":"
      BY <3>1 DEF IsDecimalAt
    <3> QED
      BY <3>2, CharClasses
  <2> QED
    BY <2>1, DecimalAt
<1>2. s[1] = text[p] /\ 1 \in DOMAIN s
  OBVIOUS
<1>3. AllIn(s, IdentifierChars)
  BY PieceIn
<1> HIDE DEF s
<1>4. ~ AllIn(s, Digits) /\ IsName(s)
  BY <1>2, <1>3, CharClasses DEF AllIn, IsName, IdentifierStart
<1>5. s \notin DOMAIN TwoCharOps
  BY <1>2, TwoCharTable, SignClasses, CharClasses
<1>6. Meant(p, s) = Token(IF s \in DOMAIN Keywords THEN Keywords[s] ELSE "IDENT", s, Place(p))
  BY <1>1, <1>4, <1>5 DEF Meant
<1> QED
  BY <1>6 DEF s

LEMMA MeantOperator ==
    ASSUME text \in Seq(Characters), NEW p \in 1 .. Len(text), NEW q \in p .. Len(text),
           text[p] \in SingleChars
    PROVE  LET s == SubSeq(text, p, q)
           IN  Meant(p, s) = Token(IF s \in DOMAIN TwoCharOps THEN TwoCharOps[s]
                                   ELSE SingleCharTokens[text[p]],
                                   s, Place(p))
<1> DEFINE s == SubSeq(text, p, q)
<1>1. s[1] = text[p] /\ 1 \in DOMAIN s
  OBVIOUS
<1> HIDE DEF s
<1>2. ~ AllIn(s, Digits)
  BY <1>1, CharClasses DEF AllIn
<1>3. ~ IsDecimal(s)
  BY <1>1, CharClasses DEF IsDecimal
<1>4. ~ IsName(s)
  BY <1>1, CharClasses DEF IsName, IdentifierStart
<1>5. s \notin DOMAIN Keywords
  BY <1>1, KeywordTable, SignClasses
<1>6. Meant(p, s) = Token(IF s \in DOMAIN TwoCharOps THEN TwoCharOps[s]
                          ELSE SingleCharTokens[text[p]], s, Place(p))
  BY <1>1, <1>2, <1>3, <1>4, <1>5 DEF Meant
<1> QED
  BY <1>6 DEF s

\* The token from p to q is the longest lexeme at p.
TokenIs(t, p, q) ==
    /\ p \in 1 .. Len(text) /\ q \in p .. Len(text)
    /\ IsLexeme(SubSeq(text, p, q))
    /\ \A r \in q + 1 .. Len(text) : ~ IsLexeme(SubSeq(text, p, r))
    /\ t = Meant(p, SubSeq(text, p, q))
    /\ t.type = "NUMBER" => AllIn(t.value, DigitsOfBase)

LEMMA TokenBounds ==
    ASSUME text \in Seq(Characters), NEW t, NEW p, NEW q, TokenIs(t, p, q)
    PROVE  Len(text) \in Nat /\ p \in 1 .. Len(text) /\ q \in p .. Len(text)
  BY DEF TokenIs

TokenLength(t) == Len(t.value) + IF t.type = "DECIMAL_NUMBER" THEN 2 ELSE 0

LEMMA TokenText ==
    ASSUME text \in Seq(Characters), NEW t, NEW p, NEW q, TokenIs(t, p, q)
    PROVE  /\ t \in Toks /\ t.type # "EOF"
           /\ t.loc = Place(p)
           /\ p + TokenLength(t) = q + 1
<1>1. p \in 1 .. Len(text) /\ q \in p .. Len(text) /\ t = Meant(p, SubSeq(text, p, q))
  BY DEF TokenIs
<1>2. Place(p) \in Nat \X Nat
  <2>1. p \in Nat
    BY <1>1
  <2>2. Cardinality(NewlinesBefore(p)) \in Nat /\ Cardinality(OnLineBefore(p)) \in Nat
    BY <2>1, PlaceSets
  <2> QED
    BY <2>2 DEF Place
<1>3. /\ SubSeq(text, p, q) \in Seq(Characters) /\ Len(SubSeq(text, p, q)) = q - p + 1
  BY <1>1
<1>4. ASSUME NEW type \in TokenTypes \ {"EOF", "DECIMAL_NUMBER"},
             t = Token(type, SubSeq(text, p, q), Place(p))
      PROVE  t \in Toks /\ t.type # "EOF" /\ t.loc = Place(p) /\ p + TokenLength(t) = q + 1
  BY <1>1, <1>2, <1>3, <1>4 DEF Toks, Token, TokenLength
<1>5. CASE \A k \in p .. q : text[k] \in Digits
  <2>1. "NUMBER" \in TokenTypes \ {"EOF", "DECIMAL_NUMBER"}
    BY DEF TokenTypes
  <2> QED
    BY <1>1, <1>4, <1>5, <2>1, MeantNumber
<1>6. CASE IsDecimalAt(p, q)
  <2>1. t = Token("DECIMAL_NUMBER", SubSeq(text, p + 2, q), Place(p)) /\ q >= p + 2
    BY <1>1, <1>6, MeantDecimal DEF IsDecimalAt
  <2>2. SubSeq(text, p + 2, q) \in Seq(Characters) /\ Len(SubSeq(text, p + 2, q)) = q - p - 1
    BY <1>1, <2>1
  <2>3. "DECIMAL_NUMBER" \in TokenTypes /\ "DECIMAL_NUMBER" # "EOF"
    BY DEF TokenTypes
  <2> QED
    BY <1>1, <1>2, <2>1, <2>2, <2>3 DEF Toks, Token, TokenLength
<1>7. CASE text[p] \in IdentifierStart /\ \A k \in p .. q : text[k] \in IdentifierChars
  <2>1. \A s \in DOMAIN Keywords : Keywords[s] \in TokenTypes \ {"EOF", "DECIMAL_NUMBER"}
    BY KeywordTable, TableTypes DEF TokenTypes
  <2>2. "IDENT" \in TokenTypes \ {"EOF", "DECIMAL_NUMBER"}
    BY DEF TokenTypes
  <2> QED
    BY <1>1, <1>4, <1>7, <2>1, <2>2, MeantName
<1>8. CASE text[p] \in SingleChars
  <2>1. \A s \in DOMAIN TwoCharOps : TwoCharOps[s] \in TokenTypes \ {"EOF", "DECIMAL_NUMBER"}
    BY TwoCharTable, TableTypes DEF TokenTypes
  <2>2. SingleCharTokens[text[p]] \in TokenTypes \ {"EOF", "DECIMAL_NUMBER"}
    BY <1>8, SingleTable, TableTypes DEF TokenTypes
  <2> QED
    BY <1>1, <1>4, <1>8, <2>1, <2>2, MeantOperator
<1>9. <<text[p], text[p + 1]>> \in DOMAIN TwoCharOps => text[p] \in SingleChars
  BY TwoCharTable, SignClasses
<1> QED
  BY <1>1, <1>5, <1>6, <1>7, <1>8, <1>9, LexemeCases DEF TokenIs

\* A token tells where it begins and ends, and is the one its place asks for.
LEMMA TokenPlace ==
    ASSUME text \in Seq(Characters), NEW t, NEW p, NEW q, TokenIs(t, p, q)
    PROVE  /\ PlaceOf(t) = {p} /\ Begin(t) = p /\ Behind(t) = q + 1
           /\ LexemesAt(p) # {} /\ t = Meant(p, LongestAt(p))
<1>1. p \in 1 .. Len(text) /\ q \in p .. Len(text) /\ t.loc = Place(p) /\ p + TokenLength(t) = q + 1
  BY TokenText DEF TokenIs
<1>2. PlaceOf(t) = {p}
  BY <1>1, PlaceOnce DEF PlaceOf
<1>3. Begin(t) = p
  BY <1>2 DEF Begin
<1>4. Behind(t) = q + 1
  <2>1. Len(t.value) \in Nat /\ p \in Nat
    <3>1. t.value \in Seq(Characters)
      BY TokenText DEF Toks
    <3> QED
      BY <3>1, <1>1
  <2>2. PICK m \in {0, 2} : m = IF t.type = "DECIMAL_NUMBER" THEN 2 ELSE 0
    OBVIOUS
  <2>3. Behind(t) = p + Len(t.value) + m /\ TokenLength(t) = Len(t.value) + m
    BY <1>3, <2>2 DEF Behind, TokenLength
  <2>4. p + (Len(t.value) + m) = q + 1
    BY <1>1, <2>3
  <2> QED
    BY <2>1, <2>3, <2>4
<1> DEFINE s == SubSeq(text, p, q)
<1>5. s \in LexemesAt(p)
  BY <1>1 DEF TokenIs, LexemesAt
<1>6. ASSUME NEW u \in LexemesAt(p)
      PROVE  Len(u) <= Len(s) /\ (Len(u) = Len(s) => u = s)
  <2>1. PICK r \in p .. Len(text) : u = SubSeq(text, p, r) /\ IsLexeme(u)
    BY DEF LexemesAt
  <2>2. r <= q
    BY <2>1, <1>1 DEF TokenIs
  <2>3. Len(u) = r - p + 1 /\ Len(s) = q - p + 1
    BY <2>1, <1>1
  <2> QED
    BY <2>1, <2>2, <2>3, <1>1
<1>7. LongestAt(p) = s
  <2> HIDE DEF s
  <2>1. \E x \in LexemesAt(p) : \A u \in LexemesAt(p) : Len(u) <= Len(x)
    BY <1>5, <1>6
  <2>2. /\ LongestAt(p) \in LexemesAt(p)
        /\ \A u \in LexemesAt(p) : Len(u) <= Len(LongestAt(p))
    BY <2>1 DEF LongestAt
  <2>3. Len(s) <= Len(LongestAt(p)) /\ Len(LongestAt(p)) <= Len(s)
    BY <2>2, <1>5, <1>6
  <2>4. Len(s) \in Nat /\ Len(LongestAt(p)) \in Nat
    BY <2>2, <1>1 DEF LexemesAt, s
  <2> QED
    BY <2>2, <2>3, <2>4, <1>6
<1> QED
  BY <1>2, <1>3, <1>4, <1>5, <1>7 DEF TokenIs

-----------------------------------------------------------------------------
(* Where the scanner is, with the tokens and what is behind the last one.  *)

\* Position p is in a comment that began at e or later.
Open(e, p) == \E j \in e .. p : InComment(j, p)

\* Nothing but blanks and comments from e to before p.
Skipped(e, p) ==
    /\ e <= p
    /\ \A k \in e .. p - 1 : text[k] \in Blanks \/ Open(e, k)

\* The loops: what has been read of the current token, or of none.
Scanning(e) ==
    /\ mode = "next" =>
          /\ Skipped(e, pos)
          /\ (\E j \in e .. pos - 1 : InComment(j, pos - 1)) =>
                pos > Len(text) \/ text[pos] = "\n"
    /\ mode = "comment" =>
          /\ Skipped(e, pos)
          /\ \E j \in e .. pos : InComment(j, pos - 1)
    /\ mode \in {"number", "identifier"} =>
          /\ NothingBetween(e, start) /\ start <= Len(text) /\ start <= pos
          /\ loc = Place(start)
    /\ mode = "number" =>
          /\ text[start] \in Digits
          /\ \A k \in start .. pos - 1 : text[k] \in DigitsOfBase
    /\ mode = "identifier" =>
          /\ text[start] \in IdentifierStart
          /\ ~ IsDecimalAt(start, start + 2) \/ start + 2 > Len(text)
          /\ \A k \in start .. pos - 1 : text[k] \in IdentifierChars
    /\ mode = "decimal" =>
          /\ start \in 3 .. Len(text) /\ start <= pos
          /\ NothingBetween(e, start - 2) /\ loc = Place(start - 2)
          /\ text[start - 2] = "d" /\ text[start - 1] = ":" /\ text[start] \in Digits
          /\ \A k \in start .. pos - 1 : text[k] \in Digits
    /\ mode = "done" => NothingBetween(e, Len(text) + 1)

\* The tokens begin at b[1], b[2] and so on and end before e[1], e[2] and so on.
Scanned(b, e, n) ==
    /\ e \in [0 .. n -> Nat \ {0}] /\ e[0] = 1
    /\ \A k \in 1 .. n : TokenIs(tokens[k], b[k], e[k] - 1) /\ NothingBetween(e[k - 1], b[k])

Modes == {"next", "comment", "number", "decimal", "identifier", "done", "error"}

TypeInv ==
    /\ text \in Seq(Characters) /\ tokens \in Seq(Toks)
    /\ pos \in 1 .. Len(text) + 1 /\ start \in 1 .. Len(text) + 1
    /\ mode \in Modes
    /\ mode = "done" => tokens # <<>>

LInv ==
    /\ TypeInv
    /\ <<line, col>> = Place(pos)
    /\ \E b, e : Scanned(b, e, Len(Words)) /\ Scanning(e[Len(Words)])
    /\ ErrorsJustified

LEMMA LInvProperties == LInv => MaximalMunch /\ NothingLost /\ ErrorsJustified
<1> SUFFICES ASSUME LInv PROVE MaximalMunch /\ NothingLost
  BY DEF LInv
<1> DEFINE n == Len(Words)
<1>1. text \in Seq(Characters) /\ n \in Nat /\ DOMAIN Words = 1 .. n
      /\ \A k \in 1 .. n : Words[k] = tokens[k]
  <2>1. CASE mode = "done"
    <3>1. Len(tokens) \in Nat \ {0} /\ tokens \in Seq(Toks) /\ text \in Seq(Characters)
      BY <2>1 DEF LInv, TypeInv
    <3>2. Words = SubSeq(tokens, 1, Len(tokens) - 1)
      BY <2>1 DEF Words
    <3> QED
      BY <3>1, <3>2
  <2>2. CASE mode # "done"
    BY <2>2 DEF LInv, TypeInv, Words
  <2> QED
    BY <2>1, <2>2
<1>2. PICK b, e : Scanned(b, e, n) /\ Scanning(e[n])
  BY DEF LInv
<1>3. \A k \in 1 .. n : TokenIs(Words[k], b[k], e[k] - 1)
  BY <1>1, <1>2 DEF Scanned
<1>4. \A k \in 1 .. n : e[k] \in Nat
  BY <1>1, <1>2 DEF Scanned
<1>5. \A k \in 1 .. n :
         /\ PlaceOf(Words[k]) = {b[k]} /\ Begin(Words[k]) = b[k] /\ Behind(Words[k]) = e[k]
         /\ LexemesAt(b[k]) # {} /\ Words[k] = Meant(b[k], LongestAt(b[k]))
  <2> SUFFICES ASSUME NEW k \in 1 .. n
               PROVE  /\ PlaceOf(Words[k]) = {b[k]} /\ Begin(Words[k]) = b[k]
                      /\ Behind(Words[k]) = e[k]
                      /\ LexemesAt(b[k]) # {} /\ Words[k] = Meant(b[k], LongestAt(b[k]))
    OBVIOUS
  <2>1. TokenIs(Words[k], b[k], e[k] - 1) /\ (e[k] - 1) + 1 = e[k]
    BY <1>3, <1>4
  <2> QED
    BY <2>1, <1>1, TokenPlace
<1>6. MaximalMunch
  <2>1. \A k \in 1 .. n : Words[k].type = "NUMBER" => AllIn(Words[k].value, DigitsOfBase)
    BY <1>3 DEF TokenIs
  <2> QED
    BY <2>1, <1>1, <1>5 DEF MaximalMunch
<1>7. NothingLost
  <2> DEFINE From(k) == IF k = 0 THEN 1 ELSE Behind(Words[k])
  <2>1. \A k \in 0 .. n : From(k) = e[k]
    BY <1>1, <1>2, <1>5 DEF Scanned
  <2>2. \A k \in 1 .. n : k - 1 \in 0 .. n
    BY <1>1
  <2> HIDE DEF From
  <2>3. \A k \in 1 .. n : NothingBetween(From(k - 1), Begin(Words[k]))
    BY <1>2, <1>5, <2>1, <2>2 DEF Scanned
  <2>4. mode = "done" => NothingBetween(From(n), Len(text) + 1)
    BY <1>1, <1>2, <2>1 DEF Scanning
  <2> QED
    BY <2>3, <2>4 DEF NothingLost, From
<1> QED
  BY <1>6, <1>7

-----------------------------------------------------------------------------
(* Every step of the scanner.                                              *)

LEMMA InitLInv == LexInit => LInv
<1> SUFFICES ASSUME LexInit PROVE LInv
  OBVIOUS
<1>1. /\ text \in Seq(Characters) /\ pos = 1 /\ line = 1 /\ col = 1 /\ mode = "next"
      /\ start = 1 /\ tokens = <<>>
  BY LexerAssumption DEF LexInit
<1>2. TypeInv
  BY <1>1 DEF TypeInv, Modes
<1>3. <<line, col>> = Place(pos)
  BY <1>1, PlaceFirst
<1> DEFINE e == [k \in 0 .. 0 |-> 1]
<1>4. Len(Words) = 0
  BY <1>1 DEF Words
<1>5. e \in [0 .. 0 -> Nat \ {0}] /\ e[0] = 1
  OBVIOUS
<1> HIDE DEF e
<1>6. Scanned(e, e, 0)
  BY <1>5 DEF Scanned
<1>7. Scanning(1)
  BY <1>1 DEF Scanning, Skipped
<1> QED
  BY <1>1, <1>2, <1>3, <1>4, <1>5, <1>6, <1>7 DEF LInv, ErrorsJustified

\* What only depends on the source does not change.
LEMMA SameSource ==
    ASSUME text' = text, NEW p, NEW q, NEW t
    PROVE  /\ Place(p)' = Place(p)
           /\ TokenIs(t, p, q) => TokenIs(t, p, q)'
           /\ InComment(p, q)' = InComment(p, q)
           /\ NothingBetween(p, q)' = NothingBetween(p, q)
           /\ Skipped(p, q)' = Skipped(p, q)
           /\ Open(p, q)' = Open(p, q)
           /\ IsDecimalAt(p, q)' = IsDecimalAt(p, q)
<1>1. Place(p)' = Place(p)
  BY DEF Place, NewlinesBefore, OnLineBefore
<1>2. \A s : Meant(p, s)' = Meant(p, s)
  BY <1>1 DEF Meant
<1>3. \A x, y : InComment(x, y)' = InComment(x, y)
  BY DEF InComment
<1>4. TokenIs(t, p, q) => TokenIs(t, p, q)'
  BY <1>2 DEF TokenIs
<1>5. NothingBetween(p, q)' = NothingBetween(p, q)
  BY <1>3 DEF NothingBetween
<1>6. \A x, y : Open(x, y)' = Open(x, y)
  BY <1>3 DEF Open
<1>7. Skipped(p, q)' = Skipped(p, q)
  BY <1>6 DEF Skipped
<1>8. IsDecimalAt(p, q)' = IsDecimalAt(p, q)
  BY DEF IsDecimalAt
<1> QED
  BY <1>1, <1>3, <1>4, <1>5, <1>6, <1>7, <1>8

\* A step that adds no token.
LEMMA QuietStep ==
    ASSUME LInv, text' = text, tokens' = tokens, TypeInv', mode # "done", mode' # "done",
           <<line', col'>> = Place(pos)', ErrorsJustified',
           \A e \in Nat \ {0} : Scanning(e) => Scanning(e)'
    PROVE  LInv'
<1> DEFINE n == Len(tokens)
<1>1. Words = tokens /\ Words' = tokens /\ n \in Nat
  BY DEF Words, LInv, TypeInv
<1>2. PICK b, e : Scanned(b, e, n) /\ Scanning(e[n])
  BY <1>1 DEF LInv
<1>3. e[n] \in Nat \ {0}
  BY <1>1, <1>2 DEF Scanned
<1>4. Scanning(e[n])'
  <2>1. PICK x : x = e[n]
    OBVIOUS
  <2>2. Scanning(x)'
    BY <1>2, <1>3, <2>1
  <2>3. Len(tokens') = n
    OBVIOUS
  <2> QED
    BY <2>1, <2>2, <2>3
<1>5. PICK N : N = n
  OBVIOUS
<1>6. Scanned(b, e, N)'
  BY <1>2, <1>5, SameSource DEF Scanned
<1> QED
  BY <1>1, <1>4, <1>5, <1>6 DEF LInv

\* A step that adds a token, from p to before the new position.
LEMMA TokenStep ==
    ASSUME LInv, text' = text, mode # "done", mode' = "next",
           NEW t, NEW p, NEW q, pos' = q + 1, TokenIs(t, p, q), tokens' = Append(tokens, t),
           pos' \in 1 .. Len(text) + 1, start' \in 1 .. Len(text) + 1,
           <<line', col'>> = Place(pos)',
           \A e \in Nat \ {0} : Scanning(e) => NothingBetween(e, p)
    PROVE  LInv'
<1> DEFINE n == Len(tokens)
<1>1. /\ Words = tokens /\ Words' = tokens' /\ n \in Nat /\ tokens \in Seq(Toks)
      /\ text \in Seq(Characters) /\ t \in Toks
  BY TokenText DEF Words, LInv, TypeInv
<1>2. TypeInv'
  <2>1. tokens' \in Seq(Toks)
    BY <1>1
  <2> QED
    BY <2>1, <1>1 DEF TypeInv, Modes
<1>3. PICK b, e : Scanned(b, e, n) /\ Scanning(e[n])
  BY <1>1 DEF LInv
<1>4. e[n] \in Nat /\ NothingBetween(e[n], p)
  <2>1. e[n] \in Nat \ {0}
    BY <1>1, <1>3 DEF Scanned
  <2> QED
    BY <2>1, <1>3
<1>5. p \in Nat /\ q \in Nat /\ pos' = q + 1 /\ q + 1 \in Nat
  <2>1. Len(text) \in Nat /\ p \in 1 .. Len(text) /\ q \in p .. Len(text)
    BY <1>1, TokenBounds
  <2>2. p \in Nat /\ q \in Nat
    BY <2>1
  <2>3. pos' \in Nat
    BY <2>1
  <2> QED
    BY <2>2, <2>3
<1>6. PICK N \in Nat : N = n
  BY <1>1
<1>7. PICK c, f : /\ c = [k \in 1 .. N + 1 |-> IF k = N + 1 THEN p ELSE b[k]]
                  /\ f = [k \in 0 .. N + 1 |-> IF k = N + 1 THEN q + 1 ELSE e[k]]
  OBVIOUS
<1>8. f \in [0 .. N + 1 -> Nat \ {0}] /\ f[0] = 1 /\ f[N + 1] = q + 1
  <2>1. e \in [0 .. N -> Nat \ {0}] /\ e[0] = 1 /\ q + 1 \in Nat \ {0}
    BY <1>3, <1>5, <1>6 DEF Scanned
  <2>2. \A k \in 0 .. N + 1 : k # N + 1 => k \in 0 .. N
    OBVIOUS
  <2> QED
    BY <2>1, <2>2, <1>5, <1>7
<1>9. ASSUME NEW k \in 1 .. N + 1
      PROVE  (TokenIs(tokens[k], c[k], f[k] - 1))' /\ NothingBetween(f[k - 1], c[k])'
  <2>1. CASE k = N + 1
    <3>1. tokens'[k] = t /\ c[k] = p /\ f[k] - 1 = q /\ f[k - 1] = e[N]
      BY <2>1, <1>1, <1>5, <1>6, <1>7
    <3>2. TokenIs(t, p, q)'
      BY SameSource
    <3>3. PICK x : x = e[N]
      OBVIOUS
    <3>4. NothingBetween(x, p)'
      BY <1>4, <1>6, <3>3, SameSource
    <3> QED
      BY <3>1, <3>2, <3>3, <3>4
  <2>2. CASE k \in 1 .. N
    <3>1. tokens'[k] = tokens[k] /\ c[k] = b[k] /\ f[k] = e[k] /\ f[k - 1] = e[k - 1]
      BY <2>2, <1>1, <1>6, <1>7
    <3>2. TokenIs(tokens[k], b[k], e[k] - 1) /\ NothingBetween(e[k - 1], b[k])
      BY <2>2, <1>3, <1>6 DEF Scanned
    <3>3. PICK u : u = tokens[k]
      OBVIOUS
    <3>4. TokenIs(u, b[k], e[k] - 1)' /\ NothingBetween(e[k - 1], b[k])'
      BY <3>2, <3>3, SameSource
    <3> QED
      BY <3>1, <3>3, <3>4
  <2> QED
    BY <2>1, <2>2, <1>6
<1>10. Scanned(c, f, N + 1)'
  BY <1>8, <1>9 DEF Scanned
<1>11. Len(tokens') = N + 1
  BY <1>1, <1>6
<1>12. Scanning(q + 1)'
  <2>1. q + 1 .. pos' - 1 = {}
    BY <1>5
  <2>2. Skipped(q + 1, pos)'
    BY <2>1, <1>5 DEF Skipped
  <2> QED
    BY <2>1, <2>2 DEF Scanning
<1>13. ErrorsJustified'
  BY DEF ErrorsJustified
<1>14. (\E b1, e1 : Scanned(b1, e1, Len(Words)) /\ Scanning(e1[Len(Words)]))'
  <2>1. Len(Words') = N + 1
    BY <1>1, <1>11
  <2>2. PICK M, y : M = N + 1 /\ y = f[M]
    OBVIOUS
  <2>3. y = q + 1
    BY <2>2, <1>8
  <2>4. Scanned(c, f, M)' /\ Scanning(y)'
    BY <2>2, <2>3, <1>10, <1>12
  <2> QED
    BY <2>1, <2>2, <2>4
<1> QED
  BY <1>2, <1>13, <1>14 DEF LInv

LEMMA Ahead ==
    ASSUME TypeInv
    PROVE  /\ Len(text) \in Nat /\ pos \in Nat \ {0} /\ text \in Seq(Characters)
           /\ Current # NoChar <=> pos <= Len(text)
           /\ pos <= Len(text) => Current = text[pos]
           /\ Peek(1) # NoChar <=> pos + 1 <= Len(text)
           /\ pos + 1 <= Len(text) => Peek(1) = text[pos + 1]
           /\ Peek(2) # NoChar <=> pos + 2 <= Len(text)
           /\ pos + 2 <= Len(text) => Peek(2) = text[pos + 2]
<1>1. Len(text) \in Nat /\ pos \in Nat \ {0} /\ text \in Seq(Characters)
  BY DEF TypeInv
<1>2. \A k \in 1 .. Len(text) : text[k] # NoChar
  BY <1>1, CharClasses
<1>3. \A o \in {0, 1, 2} : /\ Peek(o) # NoChar <=> pos + o <= Len(text)
                           /\ pos + o <= Len(text) => Peek(o) = text[pos + o]
  <2> SUFFICES ASSUME NEW o \in {0, 1, 2}
               PROVE  /\ Peek(o) # NoChar <=> pos + o <= Len(text)
                      /\ pos + o <= Len(text) => Peek(o) = text[pos + o]
    OBVIOUS
  <2>1. CASE pos + o > Len(text)
    BY <2>1, <1>1 DEF Peek
  <2>2. CASE ~ (pos + o > Len(text))
    <3>1. pos + o \in 1 .. Len(text)
      BY <2>2, <1>1
    <3> QED
      BY <2>2, <3>1, <1>1, <1>2 DEF Peek
  <2> QED
    BY <2>1, <2>2
<1>4. pos + 0 = pos
  BY <1>1
<1> QED
  BY <1>1, <1>3, <1>4 DEF Current

LEMMA CommentIs ==
    ASSUME text \in Seq(Characters), NEW j \in Nat \ {0}, NEW p \in Int
    PROVE  InComment(j, p) <=> /\ j < Len(text) /\ text[j] = "/" /\ text[j + 1] = "/"
                               /\ \A k \in j .. p : text[k] # "\n"
<1>1. ASSUME j < Len(text)
      PROVE  SubSeq(text, j, j + 1) = <<"/", "/">> <=> text[j] = "/" /\ text[j + 1] = "/"
  <2> DEFINE s == SubSeq(text, j, j + 1)
  <2>1. s \in Seq(Characters) /\ Len(s) = 2 /\ s[1] = text[j] /\ s[2] = text[j + 1]
    <3>1. Len(text) \in Nat /\ j \in 1 .. Len(text) /\ j + 1 \in 1 .. Len(text)
      BY <1>1
    <3> QED
      BY <3>1
  <2> HIDE DEF s
  <2>2. s = <<"/", "/">> <=> s[1] = "/" /\ s[2] = "/"
    BY <2>1
  <2> QED
    BY <2>1, <2>2 DEF s
<1> QED
  BY <1>1 DEF InComment

\* A step of one character.
LEMMA AdvanceStep ==
    ASSUME TypeInv, <<line, col>> = Place(pos), text' = text, AdvanceOne, pos <= Len(text)
    PROVE  pos' = pos + 1 /\ pos' \in 1 .. Len(text) + 1 /\ <<line', col'>> = Place(pos)'
<1>1. Current = text[pos] /\ pos \in Nat \ {0} /\ Len(text) \in Nat
  BY Ahead
<1>2. pos' = pos + 1 /\ pos' \in 1 .. Len(text) + 1
  BY <1>1 DEF AdvanceOne
<1>3. line = Place(pos)[1] /\ col = Place(pos)[2]
  <2>1. <<line, col>>[1] = line /\ <<line, col>>[2] = col
    OBVIOUS
  <2> QED
    BY <2>1
<1>4. <<line', col'>> = Place(pos + 1)
  <2>1. CASE text[pos] = "\n"
    BY <2>1, <1>1, <1>3, PlaceNext DEF AdvanceOne, NextColumn
  <2>2. CASE text[pos] # "\n"
    BY <2>2, <1>1, <1>3, PlaceNext DEF AdvanceOne, NextColumn
  <2> QED
    BY <2>1, <2>2
<1>5. PICK x : x = pos + 1
  OBVIOUS
<1>6. Place(x)' = Place(x)
  BY SameSource
<1> QED
  BY <1>2, <1>4, <1>5, <1>6

\* Behind one or two characters that are no newlines.
LEMMA AdvanceByStep ==
    ASSUME TypeInv, <<line, col>> = Place(pos), text' = text, NEW n \in {1, 2}, AdvanceBy(n),
           \A k \in pos .. pos + n - 1 : k <= Len(text) /\ text[k] # "\n"
    PROVE  pos' = pos + n /\ pos' \in 1 .. Len(text) + 1 /\ <<line', col'>> = Place(pos)'
<1>1. pos \in Nat \ {0} /\ Len(text) \in Nat
  BY Ahead
<1>2. line = Place(pos)[1] /\ col = Place(pos)[2]
  <2>1. <<line, col>>[1] = line /\ <<line, col>>[2] = col
    OBVIOUS
  <2> QED
    BY <2>1
<1>3. pos + n - 1 \in pos .. pos + n - 1 /\ pos \in pos .. pos + n - 1
  BY <1>1
<1>4. pos' = pos + n /\ pos' \in 1 .. Len(text) + 1 /\ line' = line /\ col' = col + n
  BY <1>1, <1>3 DEF AdvanceBy
<1>5. Place(pos + 1) = <<line, col + 1>>
  BY <1>1, <1>2, <1>3, PlaceNext
<1>6. col \in Nat
  <2>1. pos \in Nat
    BY <1>1
  <2>2. Cardinality(OnLineBefore(pos)) \in Nat
    BY <2>1, PlaceSets
  <2> QED
    BY <1>2, <2>2 DEF Place
<1>7. Place(pos + n) = <<line, col + n>>
  <2>1. CASE n = 1
    BY <2>1, <1>5
  <2>2. CASE n = 2
    <3>1. text[pos + 1] # "\n" /\ pos + 1 \in Nat \ {0} /\ (pos + 1) + 1 = pos + 2
      BY <2>2, <1>1, <1>3
    <3>2. Place(pos + 2) = <<Place(pos + 1)[1], Place(pos + 1)[2] + 1>>
      BY <3>1, PlaceNext
    <3> QED
      BY <2>2, <3>2, <1>5, <1>6
  <2> QED
    BY <2>1, <2>2
<1>8. PICK x : x = pos + n
  OBVIOUS
<1>9. Place(x)' = Place(x)
  BY SameSource
<1> QED
  BY <1>4, <1>7, <1>8, <1>9

LEMMA SkipBlankLInv == LInv /\ SkipBlank => LInv'
<1> SUFFICES ASSUME LInv, SkipBlank PROVE LInv'
  OBVIOUS
<1>1. /\ TypeInv /\ mode = "next" /\ mode' = "next" /\ Current \in Blanks /\ AdvanceOne
      /\ text' = text /\ tokens' = tokens /\ start' = start
  BY DEF LInv, SkipBlank
<1>2. pos <= Len(text) /\ text[pos] \in Blanks /\ pos \in Nat \ {0} /\ text \in Seq(Characters)
  BY <1>1, Ahead, CharClasses
<1>3. pos' = pos + 1 /\ pos' \in 1 .. Len(text) + 1 /\ <<line', col'>> = Place(pos)'
  BY <1>1, <1>2, AdvanceStep DEF LInv
<1>4. ASSUME NEW e \in Nat \ {0}, Scanning(e) PROVE Scanning(e)'
  <2>1. /\ Skipped(e, pos)
        /\ (\E j \in e .. pos - 1 : InComment(j, pos - 1)) => text[pos] = "\n"
    BY <1>1, <1>2, <1>4 DEF Scanning
  <2>2. Skipped(e, pos + 1)
    BY <1>2, <2>1 DEF Skipped
  <2>3. ASSUME NEW j \in e .. pos, InComment(j, pos) PROVE FALSE
    <3>1. /\ text[j] = "/" /\ j < Len(text) /\ text[j + 1] = "/"
          /\ \A k \in j .. pos : text[k] # "\n"
      BY <1>2, <2>3, CommentIs
    <3>2. j # pos
      BY <1>2, <3>1, BlankClasses
    <3>3. InComment(j, pos - 1) /\ j \in e .. pos - 1
      BY <1>2, <3>1, <3>2, CommentIs
    <3> QED
      BY <2>1, <3>1, <3>3, <1>2
  <2>4. PICK x : x = pos + 1
    OBVIOUS
  <2>5. Skipped(e, x)' /\ x = pos'
    BY <1>1, <1>3, <2>2, <2>4, SameSource
  <2>6. \A j \in e .. pos' - 1 : ~ InComment(j, pos - 1)'
    <3> SUFFICES ASSUME NEW j \in e .. pos' - 1 PROVE ~ InComment(j, pos - 1)'
      OBVIOUS
    <3>1. PICK y : y = pos' - 1
      OBVIOUS
    <3>2. y = pos /\ j \in e .. pos
      BY <1>2, <1>3, <3>1
    <3>3. ~ InComment(j, y)
      BY <2>3, <3>2
    <3>4. ~ InComment(j, y)'
      BY <1>1, <3>3, SameSource
    <3> QED
      BY <3>1, <3>4
  <2> QED
    BY <1>1, <2>5, <2>6 DEF Scanning
<1>5. TypeInv' /\ ErrorsJustified'
  BY <1>1, <1>3 DEF TypeInv, ErrorsJustified, Modes
<1> QED
  BY <1>1, <1>3, <1>4, <1>5, QuietStep

LEMMA BeginCommentLInv == LInv /\ BeginComment => LInv'
<1> SUFFICES ASSUME LInv, BeginComment PROVE LInv'
  OBVIOUS
<1>1. /\ TypeInv /\ mode = "next" /\ mode' = "comment" /\ Current = "/" /\ Peek(1) = "/"
      /\ UNCHANGED <<text, pos, line, col, start, loc, tokens>>
  BY DEF LInv, BeginComment, CommentBegins
<1>2. /\ pos + 1 <= Len(text) /\ text[pos] = "/" /\ text[pos + 1] = "/"
      /\ pos \in Nat \ {0} /\ text \in Seq(Characters) /\ Len(text) \in Nat
  BY <1>1, Ahead, BlankClasses
<1>3. InComment(pos, pos - 1)
  BY <1>2, CommentIs
<1>4. ASSUME NEW e \in Nat \ {0}, Scanning(e) PROVE Scanning(e)'
  <2>1. Skipped(e, pos) /\ pos \in e .. pos
    BY <1>1, <1>2, <1>4 DEF Scanning, Skipped
  <2>2. PICK x, y : x = pos /\ y = pos - 1
    OBVIOUS
  <2>3. Skipped(e, x)' /\ InComment(x, y)' /\ x = pos' /\ y = pos' - 1 /\ x \in e .. pos'
    BY <1>1, <1>3, <2>1, <2>2, SameSource
  <2> QED
    BY <1>1, <2>3 DEF Scanning
<1>5. TypeInv' /\ ErrorsJustified'
  BY <1>1 DEF TypeInv, ErrorsJustified, Modes
<1>6. <<line', col'>> = Place(pos)'
  BY <1>1 DEF LInv, Place, NewlinesBefore, OnLineBefore
<1> QED
  BY <1>1, <1>4, <1>5, <1>6, QuietStep

LEMMA SkipCommentLInv == LInv /\ SkipComment => LInv'
<1> SUFFICES ASSUME LInv, SkipComment PROVE LInv'
  OBVIOUS
<1>1. /\ TypeInv /\ mode = "comment" /\ mode' = "comment" /\ Current # "\n" /\ AdvanceOne
      /\ pos <= Len(text) /\ text' = text /\ tokens' = tokens /\ start' = start
  BY DEF LInv, SkipComment, CommentEnds
<1>2. text[pos] # "\n" /\ pos \in Nat \ {0} /\ text \in Seq(Characters)
  BY <1>1, Ahead
<1>3. pos' = pos + 1 /\ pos' \in 1 .. Len(text) + 1 /\ <<line', col'>> = Place(pos)'
  BY <1>1, AdvanceStep DEF LInv
<1>4. ASSUME NEW e \in Nat \ {0}, Scanning(e) PROVE Scanning(e)'
  <2>1. Skipped(e, pos)
    BY <1>1, <1>4 DEF Scanning
  <2>2. PICK j \in e .. pos : InComment(j, pos - 1)
    BY <1>1, <1>4 DEF Scanning
  <2>3. InComment(j, pos)
    <3>1. /\ j < Len(text) /\ text[j] = "/" /\ text[j + 1] = "/"
          /\ \A k \in j .. pos - 1 : text[k] # "\n"
      BY <1>2, <2>2, CommentIs
    <3>2. \A k \in j .. pos : text[k] # "\n"
      BY <3>1, <1>2
    <3> QED
      BY <3>1, <3>2, <1>2, CommentIs
  <2>4. Skipped(e, pos + 1)
    BY <1>2, <2>1, <2>3 DEF Skipped, Open
  <2>5. PICK x, y : x = pos + 1 /\ y = pos
    OBVIOUS
  <2>6. x = pos' /\ y = pos' - 1 /\ j \in e .. pos'
    BY <1>2, <1>3, <2>5
  <2>7. Skipped(e, x)'
    BY <1>1, <2>4, <2>5, SameSource
  <2>8. InComment(j, y)'
    BY <1>1, <2>3, <2>5, SameSource
  <2> QED
    BY <1>1, <2>6, <2>7, <2>8 DEF Scanning
<1>5. TypeInv' /\ ErrorsJustified'
  BY <1>1, <1>3 DEF TypeInv, ErrorsJustified, Modes
<1> QED
  BY <1>1, <1>3, <1>4, <1>5, QuietStep

LEMMA EndCommentLInv == LInv /\ EndComment => LInv'
<1> SUFFICES ASSUME LInv, EndComment PROVE LInv'
  OBVIOUS
<1>1. /\ TypeInv /\ mode = "comment" /\ mode' = "next" /\ CommentEnds
      /\ UNCHANGED <<text, pos, line, col, start, loc, tokens>>
  BY DEF LInv, EndComment
<1>2. pos > Len(text) \/ text[pos] = "\n"
  BY <1>1, Ahead DEF CommentEnds
<1>4. ASSUME NEW e \in Nat \ {0}, Scanning(e) PROVE Scanning(e)'
  <2>1. Skipped(e, pos)
    BY <1>1, <1>4 DEF Scanning
  <2>2. PICK x : x = pos
    OBVIOUS
  <2>3. Skipped(e, x)' /\ x = pos' /\ (pos' > Len(text') \/ text'[pos'] = "\n")
    BY <1>1, <1>2, <2>1, <2>2, SameSource
  <2> QED
    BY <1>1, <2>3 DEF Scanning
<1>5. TypeInv' /\ ErrorsJustified'
  BY <1>1 DEF TypeInv, ErrorsJustified, Modes
<1>6. <<line', col'>> = Place(pos)'
  BY <1>1 DEF LInv, Place, NewlinesBefore, OnLineBefore
<1> QED
  BY <1>1, <1>4, <1>5, <1>6, QuietStep

\* Where a token begins, everything before it has been skipped.
LEMMA BeforeToken ==
    ASSUME TypeInv, mode = "next", Current \notin Blanks, ~ CommentBegins,
           NEW e \in Nat \ {0}, Scanning(e)
    PROVE  NothingBetween(e, pos)
<1>1. pos \in Nat \ {0} /\ text \in Seq(Characters) /\ Len(text) \in Nat
  BY Ahead
<1>2. /\ Skipped(e, pos)
      /\ (\E j \in e .. pos - 1 : InComment(j, pos - 1)) => pos > Len(text) \/ text[pos] = "\n"
  BY DEF Scanning
<1>3. ASSUME pos <= Len(text), NEW j \in e .. pos, InComment(j, pos) PROVE FALSE
  <2>1. Current = text[pos] /\ text[pos] # "\n"
    BY <1>3, Ahead, BlankClasses
  <2>2. /\ text[j] = "/" /\ j < Len(text) /\ text[j + 1] = "/"
        /\ \A k \in j .. pos : text[k] # "\n"
    BY <1>1, <1>3, CommentIs
  <2>3. j # pos
    BY <1>1, <2>1, <2>2, Ahead DEF CommentBegins
  <2>4. InComment(j, pos - 1) /\ j \in e .. pos - 1
    BY <1>1, <2>2, <2>3, CommentIs
  <2> QED
    BY <1>2, <1>3, <2>1, <2>4, <1>1
<1>4. e <= pos /\ \A k \in e .. pos - 1 : text[k] \in Blanks \/ \E j \in e .. k : InComment(j, k)
  BY <1>2 DEF Skipped, Open
<1> QED
  BY <1>3, <1>4 DEF NothingBetween

LEMMA EndOfInputLInv == LInv /\ EndOfInput => LInv'
<1> SUFFICES ASSUME LInv, EndOfInput PROVE LInv'
  OBVIOUS
<1> DEFINE t == Token("EOF", <<>>, <<line, col>>)
           n == Len(tokens)
<1>1. /\ TypeInv /\ mode = "next" /\ mode' = "done" /\ pos > Len(text)
      /\ tokens' = Append(tokens, t) /\ UNCHANGED <<text, pos, line, col, start, loc>>
  BY DEF LInv, EndOfInput
<1>2. /\ pos = Len(text) + 1 /\ Current = NoChar /\ pos \in Nat \ {0}
      /\ text \in Seq(Characters) /\ Len(text) \in Nat
  BY <1>1, Ahead DEF TypeInv
<1>3. t \in Toks
  <2>1. <<line, col>> \in Nat \X Nat
    <3>1. pos \in Nat /\ <<line, col>> = Place(pos)
      BY <1>2 DEF LInv
    <3>2. Cardinality(NewlinesBefore(pos)) \in Nat /\ Cardinality(OnLineBefore(pos)) \in Nat
      BY <3>1, PlaceSets
    <3> QED
      BY <3>1, <3>2 DEF Place
  <2>2. "EOF" \in TokenTypes /\ <<>> \in Seq(Characters)
    BY DEF TokenTypes
  <2> QED
    BY <2>1, <2>2 DEF Toks, Token
<1> HIDE DEF t
<1>4. n \in Nat /\ tokens \in Seq(Toks) /\ Words = tokens /\ Words' = tokens
  <2>1. n \in Nat /\ tokens \in Seq(Toks) /\ Words = tokens
    BY <1>1 DEF TypeInv, Words
  <2>2. Words' = SubSeq(tokens', 1, Len(tokens') - 1)
    BY <1>1 DEF Words
  <2>3. SubSeq(tokens', 1, Len(tokens') - 1) = tokens
    BY <1>1, <1>3, <2>1
  <2> QED
    BY <2>1, <2>2, <2>3
<1>5. PICK b, e : Scanned(b, e, n) /\ Scanning(e[n])
  BY <1>4 DEF LInv
<1>6. PICK N, y : N = n /\ y = e[n]
  OBVIOUS
<1>7. y \in Nat \ {0} /\ N \in Nat
  BY <1>4, <1>5, <1>6 DEF Scanned
<1>8. NothingBetween(y, pos)
  BY <1>1, <1>2, <1>5, <1>6, <1>7, CharClasses, BeforeToken, BlankClasses DEF CommentBegins
<1>9. PICK x : x = pos
  OBVIOUS
<1>10. NothingBetween(y, x)' /\ x = Len(text') + 1
  BY <1>1, <1>2, <1>8, <1>9, SameSource
<1>11. Scanning(y)'
  BY <1>1, <1>10 DEF Scanning
<1>12. Scanned(b, e, N)'
  <2>1. \A k \in 1 .. N : tokens'[k] = tokens[k]
    BY <1>1, <1>3, <1>4, <1>6
  <2>2. \A k \in 1 .. N : (TokenIs(tokens[k], b[k], e[k] - 1))' /\ NothingBetween(e[k - 1], b[k])'
    <3> SUFFICES ASSUME NEW k \in 1 .. N
                 PROVE  (TokenIs(tokens[k], b[k], e[k] - 1))' /\ NothingBetween(e[k - 1], b[k])'
      OBVIOUS
    <3>1. PICK u : u = tokens[k]
      OBVIOUS
    <3>2. TokenIs(u, b[k], e[k] - 1) /\ NothingBetween(e[k - 1], b[k])
      BY <1>5, <1>6, <3>1 DEF Scanned
    <3>3. TokenIs(u, b[k], e[k] - 1)' /\ NothingBetween(e[k - 1], b[k])'
      BY <1>1, <3>2, SameSource
    <3> QED
      BY <2>1, <3>1, <3>3
  <2> QED
    BY <1>5, <1>6, <2>2 DEF Scanned
<1>13. (\E b1, e1 : Scanned(b1, e1, Len(Words)) /\ Scanning(e1[Len(Words)]))'
  <2>1. Len(Words') = N /\ e[N] = y
    BY <1>4, <1>6
  <2> QED
    BY <2>1, <1>11, <1>12
<1>14. TypeInv'
  <2>1. tokens' \in Seq(Toks) /\ tokens' # <<>>
    BY <1>1, <1>3, <1>4
  <2> QED
    BY <1>1, <2>1 DEF TypeInv, Modes
<1>15. <<line', col'>> = Place(pos)' /\ ErrorsJustified'
  BY <1>1 DEF LInv, Place, NewlinesBefore, OnLineBefore, ErrorsJustified
<1> QED
  BY <1>13, <1>14, <1>15 DEF LInv

LEMMA BeginNumberLInv == LInv /\ BeginNumber => LInv'
<1> SUFFICES ASSUME LInv, BeginNumber PROVE LInv'
  OBVIOUS
<1>1. /\ TypeInv /\ mode = "next" /\ mode' = "number" /\ AtToken /\ Current \in Digits
      /\ start' = pos /\ loc' = <<line, col>> /\ UNCHANGED <<text, pos, line, col, tokens>>
  BY DEF LInv, BeginNumber, AtToken
<1>2. /\ pos <= Len(text) /\ text[pos] \in Digits /\ pos \in Nat \ {0}
      /\ <<line, col>> = Place(pos)
  BY <1>1, Ahead DEF AtToken, LInv
<1>3. PICK x : x = pos
  OBVIOUS
<1>4. loc' = Place(x)' /\ <<line', col'>> = Place(pos)'
  BY <1>1, <1>2, <1>3, SameSource
<1>5. ASSUME NEW e \in Nat \ {0}, Scanning(e) PROVE Scanning(e)'
  <2>1. NothingBetween(e, pos)
    BY <1>1, <1>5, BeforeToken DEF AtToken
  <2>2. NothingBetween(e, x)' /\ x = start' /\ start' = pos'
    BY <1>1, <1>3, <2>1, SameSource
  <2>3. start' <= Len(text') /\ text'[start'] \in Digits /\ start' \in Nat
    BY <1>1, <1>2
  <2> QED
    BY <1>1, <1>4, <2>2, <2>3 DEF Scanning
<1>6. TypeInv' /\ ErrorsJustified'
  BY <1>1 DEF TypeInv, ErrorsJustified, Modes
<1> QED
  BY <1>1, <1>4, <1>5, <1>6, QuietStep

LEMMA BeginIdentifierLInv == LInv /\ BeginIdentifier => LInv'
<1> SUFFICES ASSUME LInv, BeginIdentifier PROVE LInv'
  OBVIOUS
<1>1. /\ TypeInv /\ mode = "next" /\ mode' = "identifier" /\ AtToken /\ Current \in IdentifierStart
      /\ ~ DecimalBegins
      /\ start' = pos /\ loc' = <<line, col>> /\ UNCHANGED <<text, pos, line, col, tokens>>
  BY DEF LInv, BeginIdentifier, AtToken
<1>2. /\ pos <= Len(text) /\ text[pos] \in IdentifierStart /\ pos \in Nat \ {0}
      /\ <<line, col>> = Place(pos) /\ Len(text) \in Nat
  BY <1>1, Ahead DEF AtToken, LInv
<1>3. ASSUME pos + 2 <= Len(text) PROVE ~ IsDecimalAt(pos, pos + 2)
  BY <1>1, <1>2, <1>3, Ahead DEF DecimalBegins, IsDecimalAt
<1>4. PICK x, z : x = pos /\ z = pos + 2
  OBVIOUS
<1>5. loc' = Place(x)' /\ <<line', col'>> = Place(pos)'
  BY <1>1, <1>2, <1>4, SameSource
<1>6. ~ IsDecimalAt(x, z)' \/ z > Len(text')
  BY <1>1, <1>2, <1>3, <1>4, SameSource
<1>7. ASSUME NEW e \in Nat \ {0}, Scanning(e) PROVE Scanning(e)'
  <2>1. NothingBetween(e, pos)
    BY <1>1, <1>7, BeforeToken DEF AtToken
  <2>2. NothingBetween(e, x)' /\ x = start' /\ start' = pos' /\ z = start' + 2
    BY <1>1, <1>4, <2>1, SameSource
  <2>3. start' <= Len(text') /\ text'[start'] \in IdentifierStart /\ start' \in Nat
    BY <1>1, <1>2
  <2> QED
    BY <1>1, <1>5, <1>6, <2>2, <2>3 DEF Scanning
<1>8. TypeInv' /\ ErrorsJustified'
  BY <1>1 DEF TypeInv, ErrorsJustified, Modes
<1> QED
  BY <1>1, <1>5, <1>7, <1>8, QuietStep

LEMMA BeginDecimalLInv == LInv /\ BeginDecimal => LInv'
<1> SUFFICES ASSUME LInv, BeginDecimal PROVE LInv'
  OBVIOUS
<1>1. /\ TypeInv /\ mode = "next" /\ mode' = "decimal" /\ AtToken
      /\ Current = "d" /\ Peek(1) = ":" /\ Peek(2) \in Digits
      /\ start' = pos + 2 /\ loc' = <<line, col>> /\ AdvanceBy(2) /\ UNCHANGED <<text, tokens>>
  BY DEF LInv, BeginDecimal, AtToken, DecimalBegins
<1>2. pos + 2 <= Len(text) /\ Len(text) \in Nat /\ pos \in Nat \ {0}
  BY <1>1, Ahead, CharClasses
<1>3. /\ text[pos] = "d" /\ text[pos + 1] = ":" /\ text[pos + 2] \in Digits
  BY <1>1, <1>2, Ahead
<1>4. text[pos] # "\n" /\ text[pos + 1] # "\n"
  BY <1>3, CharClasses, BlankClasses, SignClasses
<1>5. pos' = pos + 2 /\ pos' \in 1 .. Len(text) + 1 /\ <<line', col'>> = Place(pos)'
  <2>1. \A k \in pos .. pos + 2 - 1 : k <= Len(text) /\ text[k] # "\n"
    <3>1. \A k \in pos .. pos + 2 - 1 : k = pos \/ k = pos + 1
      BY <1>2
    <3> QED
      BY <3>1, <1>2, <1>4
  <2> QED
    BY <1>1, <2>1, AdvanceByStep DEF LInv
<1>6. PICK x : x = pos
  OBVIOUS
<1>7. loc' = Place(x)'
  BY <1>1, <1>6, SameSource DEF LInv
<1>8. ASSUME NEW e \in Nat \ {0}, Scanning(e) PROVE Scanning(e)'
  <2>1. NothingBetween(e, pos)
    BY <1>1, <1>8, BeforeToken DEF AtToken
  <2>2. NothingBetween(e, x)' /\ x = start' - 2
    BY <1>1, <1>2, <1>6, <2>1, SameSource
  <2>3. /\ start' \in 3 .. Len(text') /\ start' = pos' /\ text'[start' - 2] = "d"
        /\ text'[start' - 1] = ":" /\ text'[start'] \in Digits
    BY <1>1, <1>2, <1>3, <1>5
  <2>6. start' <= pos'
    <3>1. start' \in Nat /\ pos' = start'
      BY <1>1, <1>2, <1>5
    <3> QED
      BY <3>1
  <2>4. start' .. pos' - 1 = {}
    <3>1. start' \in Nat /\ pos' = start'
      BY <1>1, <1>2, <1>5
    <3>2. PICK a \in Nat : a = start' /\ a = pos'
      BY <3>1
    <3>3. a .. a - 1 = {}
      OBVIOUS
    <3> QED
      BY <3>2, <3>3, Zenon
  <2>5. NothingBetween(e, start - 2)' /\ loc' = Place(start - 2)'
    BY <1>7, <2>2
  <2> QED
    BY <1>1, <2>3, <2>4, <2>5, <2>6 DEF Scanning
<1>9. TypeInv' /\ ErrorsJustified'
  BY <1>1, <1>5 DEF TypeInv, ErrorsJustified, Modes
<1> QED
  BY <1>1, <1>5, <1>8, <1>9, QuietStep

LEMMA ContinueLInv == LInv /\ Continue => LInv'
<1> SUFFICES ASSUME LInv, Continue PROVE LInv'
  OBVIOUS
<1>1. /\ TypeInv /\ mode \in {"number", "decimal", "identifier"} /\ Continues /\ ~ BadDigit
      /\ AdvanceOne /\ UNCHANGED <<text, mode, start, loc, tokens>>
  BY DEF LInv, Continue, Continues
<1>2. /\ pos <= Len(text) /\ pos \in Nat \ {0} /\ Current = text[pos]
      /\ (mode = "number" => text[pos] \in DigitsOfBase)
      /\ (mode = "decimal" => text[pos] \in Digits)
      /\ (mode = "identifier" => text[pos] \in IdentifierChars)
  <2>1. Current \in IdentifierChars
    BY <1>1, CharClasses DEF Continues
  <2>2. Current # NoChar
    BY <2>1, CharClasses
  <2> QED
    BY <1>1, <2>2, Ahead DEF Continues, BadDigit
<1>3. pos' = pos + 1 /\ pos' \in 1 .. Len(text) + 1 /\ <<line', col'>> = Place(pos)'
  BY <1>1, <1>2, AdvanceStep DEF LInv
<1>4. ASSUME NEW e \in Nat \ {0}, Scanning(e) PROVE Scanning(e)'
  <2>1. start \in Nat /\ start <= pos' /\ (start <= pos => start <= pos')
        /\ \A k \in start .. pos' - 1 : k \in start .. pos - 1 \/ k = pos
    BY <1>1, <1>2, <1>3, <1>4 DEF Scanning, TypeInv
  <2>2. PICK x, y, z : x = start /\ y = start + 2 /\ z = start - 2
    OBVIOUS
  <2>3. /\ NothingBetween(e, x)' = NothingBetween(e, x) /\ NothingBetween(e, z)' = NothingBetween(e, z)
        /\ Place(x)' = Place(x) /\ Place(z)' = Place(z) /\ IsDecimalAt(x, y)' = IsDecimalAt(x, y)
    BY <1>1, SameSource
  <2>4. CASE mode = "number"
    <3>1. /\ NothingBetween(e, x) /\ x <= Len(text) /\ loc = Place(x) /\ text[x] \in Digits
          /\ \A k \in x .. pos - 1 : text[k] \in DigitsOfBase
      BY <1>4, <2>2, <2>4 DEF Scanning
    <3>2. \A k \in x .. pos' - 1 : text[k] \in DigitsOfBase
      BY <1>2, <2>1, <2>2, <2>4, <3>1
    <3>3. /\ NothingBetween(e, x)' /\ loc' = Place(x)' /\ start' = x /\ mode' = "number"
          /\ text' = text
      BY <1>1, <2>2, <2>3, <2>4, <3>1
    <3> QED
      BY <2>1, <2>2, <3>1, <3>2, <3>3 DEF Scanning
  <2>5. CASE mode = "identifier"
    <3>1. /\ NothingBetween(e, x) /\ x <= Len(text) /\ loc = Place(x)
          /\ text[x] \in IdentifierStart /\ (~ IsDecimalAt(x, y) \/ y > Len(text))
          /\ \A k \in x .. pos - 1 : text[k] \in IdentifierChars
      BY <1>4, <2>2, <2>5 DEF Scanning
    <3>2. \A k \in x .. pos' - 1 : text[k] \in IdentifierChars
      BY <1>2, <2>1, <2>2, <2>5, <3>1
    <3>3. /\ NothingBetween(e, x)' /\ loc' = Place(x)' /\ start' = x /\ mode' = "identifier"
          /\ text' = text /\ (~ IsDecimalAt(x, y)' \/ y > Len(text))
      BY <1>1, <2>2, <2>3, <2>5, <3>1
    <3> QED
      BY <2>1, <2>2, <3>1, <3>2, <3>3 DEF Scanning
  <2>6. CASE mode = "decimal"
    <3>1. /\ NothingBetween(e, z) /\ loc = Place(z) /\ x \in 3 .. Len(text)
          /\ text[z] = "d" /\ text[x - 1] = ":" /\ text[x] \in Digits
          /\ \A k \in x .. pos - 1 : text[k] \in Digits
      BY <1>4, <2>2, <2>6 DEF Scanning
    <3>2. \A k \in x .. pos' - 1 : text[k] \in Digits
      BY <1>2, <2>1, <2>2, <2>6, <3>1
    <3>3. /\ NothingBetween(e, z)' /\ loc' = Place(z)' /\ start' = x /\ z = x - 2
          /\ mode' = "decimal" /\ text' = text
      BY <1>1, <2>2, <2>3, <2>6, <3>1
    <3> QED
      BY <2>1, <2>2, <3>1, <3>2, <3>3 DEF Scanning
  <2> QED
    BY <1>1, <2>4, <2>5, <2>6
<1>5. TypeInv' /\ ErrorsJustified'
  BY <1>1, <1>3 DEF TypeInv, ErrorsJustified, Modes
<1> QED
  BY <1>1, <1>3, <1>4, <1>5, QuietStep

LEMMA EndValueLInv == LInv /\ EndValue => LInv'
<1> SUFFICES ASSUME LInv, EndValue PROVE LInv'
  OBVIOUS
<1> DEFINE value == SubSeq(text, start, pos - 1)
           t == Token(TypeOf(value), value, loc)
<1>1. /\ TypeInv /\ mode \in {"number", "decimal", "identifier"} /\ mode' = "next" /\ ~ Continues
      /\ tokens' = Append(tokens, t) /\ UNCHANGED <<text, pos, line, col, start, loc>>
  BY DEF LInv, EndValue
<1>2. PICK e \in Nat \ {0} : Scanning(e)
  <2>1. Words = tokens /\ Len(tokens) \in Nat
    BY <1>1 DEF Words, TypeInv
  <2>2. PICK b, f : Scanned(b, f, Len(tokens)) /\ Scanning(f[Len(tokens)])
    BY <2>1 DEF LInv
  <2> QED
    BY <2>1, <2>2 DEF Scanned
<1>3. /\ text \in Seq(Characters) /\ Len(text) \in Nat /\ pos \in Nat \ {0}
      /\ pos <= Len(text) + 1 /\ start \in Nat /\ pos - 1 \in Int
      /\ (pos <= Len(text) => Current = text[pos])
  BY <1>1, Ahead DEF TypeInv
<1>4. <<line', col'>> = Place(pos)'
  BY <1>1 DEF LInv, Place, NewlinesBefore, OnLineBefore
<1>5. PICK x, q : x = start /\ q = pos - 1
  OBVIOUS
<1>6. CASE mode = "number"
  <2>1. /\ start <= Len(text) /\ start <= pos /\ loc = Place(start) /\ text[start] \in Digits
        /\ \A k \in start .. pos - 1 : text[k] \in DigitsOfBase
    BY <1>2, <1>6 DEF Scanning
  <2>2. pos <= Len(text) => text[pos] \notin Digits
    BY <1>1, <1>3, <1>6 DEF Continues
  <2>3. start # pos
    BY <2>1, <2>2
  <2>4. start \in 1 .. Len(text) /\ q \in start .. Len(text) /\ pos = q + 1
    BY <1>1, <1>3, <1>5, <2>1, <2>3 DEF TypeInv
  <2>5. \A k \in start .. q : text[k] \in Digits
    BY <1>5, <2>1, DigitSets
  <2>6. t = Meant(start, SubSeq(text, start, q))
    BY <1>3, <1>5, <1>6, <2>1, <2>4, <2>5, MeantNumber DEF TypeOf
  <2>7. IsLexeme(SubSeq(text, start, q))
    BY <1>3, <2>1, <2>4, <2>5, DigitLexeme
  <2>8. ASSUME NEW r \in q + 1 .. Len(text) PROVE ~ IsLexeme(SubSeq(text, start, r))
    <3>1. r \in start .. Len(text) /\ pos \in start .. r /\ pos <= Len(text)
      BY <2>4
    <3> QED
      BY <3>1, <1>3, <2>1, <2>2, <2>4, DigitLexeme
  <2>9. AllIn(t.value, DigitsOfBase)
    <3>1. t.value = SubSeq(text, start, q)
      BY <1>5 DEF Token
    <3>2. AllIn(SubSeq(text, start, q), DigitsOfBase)
      BY <1>3, <1>5, <2>1, <2>4, PieceIn
    <3> QED
      BY <3>1, <3>2
  <2>10. TokenIs(t, start, q)
    <3> HIDE DEF t
    <3> QED
      BY <2>4, <2>6, <2>7, <2>8, <2>9 DEF TokenIs
  <2>11. \A f \in Nat \ {0} : Scanning(f) => NothingBetween(f, start)
    BY <1>6 DEF Scanning
  <2> HIDE DEF t
  <2>12. TokenIs(t, x, q) /\ pos' = q + 1 /\ \A f \in Nat \ {0} : Scanning(f) => NothingBetween(f, x)
    BY <1>1, <1>5, <2>4, <2>10, <2>11
  <2>13. pos' \in 1 .. Len(text) + 1 /\ start' \in 1 .. Len(text) + 1 /\ mode # "done"
    BY <1>1 DEF TypeInv
  <2> QED
    BY <1>1, <1>4, <2>12, <2>13, TokenStep
<1>7. CASE mode = "identifier"
  <2>1. /\ start <= Len(text) /\ start <= pos /\ loc = Place(start)
        /\ text[start] \in IdentifierStart
        /\ (~ IsDecimalAt(start, start + 2) \/ start + 2 > Len(text))
        /\ \A k \in start .. pos - 1 : text[k] \in IdentifierChars
    BY <1>2, <1>7 DEF Scanning
  <2>2. pos <= Len(text) => text[pos] \notin IdentifierChars
    BY <1>1, <1>3, <1>7 DEF Continues
  <2>3. start # pos
    BY <2>1, <2>2, CharClasses
  <2>4. start \in 1 .. Len(text) /\ q \in start .. Len(text) /\ pos = q + 1
    BY <1>1, <1>3, <1>5, <2>1, <2>3 DEF TypeInv
  <2>5. \A k \in start .. q : text[k] \in IdentifierChars
    BY <1>5, <2>1
  <2>6. t = Meant(start, SubSeq(text, start, q))
    BY <1>3, <1>5, <1>7, <2>1, <2>4, <2>5, MeantName DEF TypeOf
  <2>7. IsLexeme(SubSeq(text, start, q))
    BY <1>3, <2>1, <2>4, <2>5, NameLexeme
  <2>8. ASSUME NEW r \in q + 1 .. Len(text) PROVE ~ IsLexeme(SubSeq(text, start, r))
    <3>1. r \in start .. Len(text) /\ pos \in start .. r /\ pos <= Len(text)
      BY <2>4
    <3> QED
      BY <3>1, <1>3, <2>1, <2>2, <2>4, NameLexeme
  <2>9. t.type # "NUMBER"
    <3>1. t.type = IF value \in DOMAIN Keywords THEN Keywords[value] ELSE "IDENT"
      BY <1>7 DEF Token, TypeOf
    <3> QED
      BY <3>1, KeywordTable, TableTypes
  <2>10. TokenIs(t, start, q)
    <3> HIDE DEF t
    <3> QED
      BY <2>4, <2>6, <2>7, <2>8, <2>9 DEF TokenIs
  <2>11. \A f \in Nat \ {0} : Scanning(f) => NothingBetween(f, start)
    BY <1>7 DEF Scanning
  <2> HIDE DEF t
  <2>12. TokenIs(t, x, q) /\ pos' = q + 1 /\ \A f \in Nat \ {0} : Scanning(f) => NothingBetween(f, x)
    BY <1>1, <1>5, <2>4, <2>10, <2>11
  <2>13. pos' \in 1 .. Len(text) + 1 /\ start' \in 1 .. Len(text) + 1 /\ mode # "done"
    BY <1>1 DEF TypeInv
  <2> QED
    BY <1>1, <1>4, <2>12, <2>13, TokenStep
<1>8. CASE mode = "decimal"
  <2>1. /\ start \in 3 .. Len(text) /\ start <= pos /\ loc = Place(start - 2)
        /\ text[start - 2] = "d" /\ text[start - 1] = ":" /\ text[start] \in Digits
        /\ \A k \in start .. pos - 1 : text[k] \in Digits
    BY <1>2, <1>8 DEF Scanning
  <2>2. pos <= Len(text) => text[pos] \notin Digits
    BY <1>1, <1>3, <1>8 DEF Continues
  <2>3. start # pos
    BY <2>1, <2>2
  <2>4. PICK p \in 1 .. Len(text) : p = start - 2
    BY <1>3, <2>1
  <2>5. q \in p .. Len(text) /\ q \in p + 2 .. Len(text) /\ pos = q + 1 /\ p + 2 = start /\ p + 1 = start - 1
    BY <1>1, <1>3, <1>5, <2>1, <2>3, <2>4 DEF TypeInv
  <2>6. text[p] = "d" /\ text[p + 1] = ":" /\ \A k \in p + 2 .. q : text[k] \in Digits
    BY <1>5, <2>1, <2>4, <2>5
  <2>7. t = Meant(p, SubSeq(text, p, q))
    <3>1. IsDecimalAt(p, q)
      BY <2>5, <2>6 DEF IsDecimalAt
    <3> QED
      BY <1>3, <1>5, <1>8, <2>1, <2>4, <2>5, <3>1, MeantDecimal DEF TypeOf
  <2>8. IsLexeme(SubSeq(text, p, q))
    BY <1>3, <2>5, <2>6, DecimalLexeme
  <2>9. ASSUME NEW r \in q + 1 .. Len(text) PROVE ~ IsLexeme(SubSeq(text, p, r))
    <3>1. r \in p + 2 .. Len(text) /\ pos \in p + 2 .. r /\ pos <= Len(text)
      BY <2>5
    <3> QED
      BY <3>1, <1>3, <2>2, <2>6, DecimalLexeme
  <2>10. t.type # "NUMBER"
    BY <1>8 DEF Token, TypeOf
  <2>11. TokenIs(t, p, q)
    <3> HIDE DEF t
    <3> QED
      BY <2>5, <2>7, <2>8, <2>9, <2>10 DEF TokenIs
  <2>12. \A f \in Nat \ {0} : Scanning(f) => NothingBetween(f, p)
    BY <1>8, <2>4 DEF Scanning
  <2> HIDE DEF t
  <2>13. pos' = q + 1
    BY <1>1, <2>5
  <2>14. pos' \in 1 .. Len(text) + 1 /\ start' \in 1 .. Len(text) + 1 /\ mode # "done"
    BY <1>1 DEF TypeInv
  <2> QED
    BY <1>1, <1>4, <2>11, <2>12, <2>13, <2>14, TokenStep
<1> QED
  BY <1>1, <1>6, <1>7, <1>8

LEMMA TwoCharOperatorLInv == LInv /\ TwoCharOperator => LInv'
<1> SUFFICES ASSUME LInv, TwoCharOperator PROVE LInv'
  OBVIOUS
<1> DEFINE t == Token(TwoCharOps[Pair], Pair, <<line, col>>)
<1>1. /\ TypeInv /\ mode = "next" /\ mode' = "next" /\ AtToken /\ Pair \in DOMAIN TwoCharOps
      /\ tokens' = Append(tokens, t) /\ AdvanceBy(2) /\ UNCHANGED <<text, start, loc>>
  BY DEF LInv, TwoCharOperator, AtToken
<1>2. /\ Pair[1] = Current /\ Pair[2] = Peek(1)
      /\ Pair[1] \in {"=", "!", ">", "<", "-"} /\ Pair[2] \in {"=", ">"}
  BY <1>1, TwoCharTable DEF Pair
<1>3. /\ pos + 1 <= Len(text) /\ text[pos] = Pair[1] /\ text[pos + 1] = Pair[2]
      /\ pos \in Nat \ {0} /\ Len(text) \in Nat /\ text \in Seq(Characters)
      /\ text[pos] \in SingleChars
  <2>1. Current \in SingleChars /\ Peek(1) \in SingleChars
    BY <1>2, SignClasses
  <2>2. Current # NoChar /\ Peek(1) # NoChar
    BY <2>1, CharClasses
  <2> QED
    BY <1>1, <1>2, <2>1, <2>2, Ahead
<1>4. text[pos] # "\n" /\ text[pos + 1] # "\n"
  BY <1>2, <1>3, CharClasses, BlankClasses, SignClasses
<1>5. pos' = pos + 2 /\ pos' \in 1 .. Len(text) + 1 /\ <<line', col'>> = Place(pos)'
  <2>1. \A k \in pos .. pos + 2 - 1 : k <= Len(text) /\ text[k] # "\n"
    <3>1. \A k \in pos .. pos + 2 - 1 : k = pos \/ k = pos + 1
      BY <1>3
    <3> QED
      BY <3>1, <1>3, <1>4
  <2> QED
    BY <1>1, <2>1, AdvanceByStep DEF LInv
<1>6. PICK p, q : p = pos /\ q = pos + 1
  OBVIOUS
<1>7. p \in 1 .. Len(text) /\ q \in p .. Len(text) /\ q = p + 1 /\ q # p
  BY <1>3, <1>6
<1>8. SubSeq(text, p, q) = Pair
  <2>1. SubSeq(text, p, q) = <<text[p], text[q]>>
    <3> DEFINE s == SubSeq(text, p, q)
    <3>1. s \in Seq(Characters) /\ Len(s) = 2 /\ s[1] = text[p] /\ s[2] = text[q]
      BY <1>3, <1>7
    <3> HIDE DEF s
    <3>2. s = <<text[p], text[q]>>
      BY <3>1
    <3> QED
      BY <3>2 DEF s
  <2> QED
    BY <2>1, <1>2, <1>3, <1>6 DEF Pair
<1>9. t = Meant(p, SubSeq(text, p, q))
  BY <1>1, <1>3, <1>6, <1>7, <1>8, MeantOperator DEF LInv
<1>10. IsLexeme(SubSeq(text, p, q))
  BY <1>1, <1>2, <1>3, <1>6, <1>7, <1>8, OperatorLexeme DEF Pair
<1>11. ASSUME NEW r \in q + 1 .. Len(text) PROVE ~ IsLexeme(SubSeq(text, p, r))
  <2>1. r \in p .. Len(text) /\ r # p /\ r # p + 1
    BY <1>3, <1>6, <1>7
  <2> QED
    BY <2>1, <1>3, <1>6, <1>7, OperatorLexeme
<1>12. t.type # "NUMBER"
  <2>1. t.type = TwoCharOps[Pair]
    BY DEF Token
  <2> QED
    BY <1>1, <2>1, TwoCharTable, TableTypes
<1> HIDE DEF t
<1>13. TokenIs(t, p, q)
  BY <1>7, <1>9, <1>10, <1>11, <1>12 DEF TokenIs
<1>14. \A e \in Nat \ {0} : Scanning(e) => NothingBetween(e, p)
  BY <1>1, <1>6, BeforeToken DEF AtToken
<1>15. pos' = q + 1 /\ start' \in 1 .. Len(text) + 1 /\ mode # "done"
  BY <1>1, <1>3, <1>5, <1>6 DEF TypeInv
<1> QED
  BY <1>1, <1>5, <1>13, <1>14, <1>15, TokenStep

LEMMA SingleCharTokenLInv == LInv /\ SingleCharToken => LInv'
<1> SUFFICES ASSUME LInv, SingleCharToken PROVE LInv'
  OBVIOUS
<1> DEFINE t == Token(SingleCharTokens[Current], <<Current>>, <<line, col>>)
<1>1. /\ TypeInv /\ mode = "next" /\ mode' = "next" /\ AtToken /\ Pair \notin DOMAIN TwoCharOps
      /\ Current \in SingleChars
      /\ tokens' = Append(tokens, t) /\ AdvanceBy(1) /\ UNCHANGED <<text, start, loc>>
  BY SingleTable DEF LInv, SingleCharToken, AtToken
<1>2. /\ pos <= Len(text) /\ text[pos] = Current /\ pos \in Nat \ {0} /\ Len(text) \in Nat
      /\ text \in Seq(Characters)
  BY <1>1, Ahead, CharClasses
<1>3. pos' = pos + 1 /\ pos' \in 1 .. Len(text) + 1 /\ <<line', col'>> = Place(pos)'
  <2>1. \A k \in pos .. pos + 1 - 1 : k <= Len(text) /\ text[k] # "\n"
    <3>1. \A k \in pos .. pos + 1 - 1 : k = pos
      BY <1>2
    <3>2. text[pos] # "\n"
      BY <1>1, <1>2, CharClasses, BlankClasses
    <3> QED
      BY <3>1, <3>2, <1>2
  <2> QED
    BY <1>1, <2>1, AdvanceByStep DEF LInv
<1>4. PICK p : p = pos
  OBVIOUS
<1>5. p \in 1 .. Len(text) /\ p \in p .. Len(text) /\ text[p] \in SingleChars
  BY <1>1, <1>2, <1>4
<1>6. SubSeq(text, p, p) = <<Current>>
  <2>1. SubSeq(text, p, p) = <<text[p]>>
    <3>1. SubSeq(text, p, p) = [i \in 1 .. 1 |-> text[p]]
      BY <1>2, <1>5
    <3> QED
      BY <3>1
  <2> QED
    BY <2>1, <1>2, <1>4
<1>7. t = Meant(p, SubSeq(text, p, p))
  <2>1. <<Current>> \notin DOMAIN TwoCharOps
    <3>1. Len(<<Current>>) = 1
      OBVIOUS
    <3> QED
      BY <3>1, TwoCharTable
  <2> QED
    BY <1>1, <1>2, <1>4, <1>5, <1>6, <2>1, MeantOperator DEF LInv
<1>8. IsLexeme(SubSeq(text, p, p))
  BY <1>2, <1>5, OperatorLexeme
<1>9. ASSUME NEW r \in p + 1 .. Len(text) PROVE ~ IsLexeme(SubSeq(text, p, r))
  <2>1. r \in p .. Len(text) /\ r # p /\ pos + 1 <= Len(text)
    BY <1>2, <1>4, <1>5
  <2>2. <<text[p], text[p + 1]>> = Pair
    BY <1>1, <1>2, <1>4, <2>1, Ahead DEF Pair
  <2> QED
    BY <1>1, <1>2, <1>5, <2>1, <2>2, OperatorLexeme
<1>10. t.type # "NUMBER"
  <2>1. t.type = SingleCharTokens[Current]
    BY DEF Token
  <2> QED
    BY <1>1, <2>1, SingleTable, TableTypes
<1> HIDE DEF t
<1>11. TokenIs(t, p, p)
  BY <1>5, <1>7, <1>8, <1>9, <1>10 DEF TokenIs
<1>12. \A e \in Nat \ {0} : Scanning(e) => NothingBetween(e, p)
  BY <1>1, <1>4, BeforeToken DEF AtToken
<1>13. pos' = p + 1 /\ start' \in 1 .. Len(text) + 1 /\ mode # "done"
  BY <1>1, <1>3, <1>4 DEF TypeInv
<1> QED
  BY <1>1, <1>3, <1>11, <1>12, <1>13, TokenStep

\* A step to an error says nothing of the tokens.
LEMMA ErrorStep ==
    ASSUME LInv, mode # "done", mode' = "error",
           UNCHANGED <<text, pos, line, col, start, loc, tokens>>, ErrorsJustified'
    PROVE  LInv'
<1>1. TypeInv'
  BY DEF LInv, TypeInv, Modes
<1>2. <<line', col'>> = Place(pos)'
  BY DEF LInv, Place, NewlinesBefore, OnLineBefore
<1>3. \A e \in Nat \ {0} : Scanning(e) => Scanning(e)'
  BY DEF Scanning
<1> QED
  BY <1>1, <1>2, <1>3, QuietStep

LEMMA RefuseDigitLInv == LInv /\ RefuseDigit => LInv'
<1> SUFFICES ASSUME LInv, RefuseDigit PROVE LInv'
  OBVIOUS
<1>1. /\ TypeInv /\ mode = "number" /\ mode' = "error" /\ Current \in Digits \ DigitsOfBase
      /\ UNCHANGED <<text, pos, line, col, start, loc, tokens>>
  BY DEF LInv, RefuseDigit, BadDigit
<1>2. PICK e \in Nat \ {0} : Scanning(e)
  <2>1. Words = tokens /\ Len(tokens) \in Nat
    BY <1>1 DEF Words, TypeInv
  <2>2. PICK b, f : Scanned(b, f, Len(tokens)) /\ Scanning(f[Len(tokens)])
    BY <2>1 DEF LInv
  <2> QED
    BY <2>1, <2>2 DEF Scanned
<1>3. /\ start <= Len(text) /\ start <= pos /\ loc = Place(start)
      /\ \A k \in start .. pos - 1 : text[k] \in DigitsOfBase
  BY <1>1, <1>2 DEF Scanning
<1>4. /\ pos <= Len(text) /\ text[pos] \in Digits \ DigitsOfBase
      /\ text \in Seq(Characters) /\ Len(text) \in Nat /\ start \in 1 .. Len(text)
  BY <1>1, <1>3, Ahead, CharClasses DEF TypeInv
<1>5. AllIn(SubSeq(text, start, pos - 1), DigitsOfBase)
  <2>1. CASE start = pos
    <3>1. SubSeq(text, start, pos - 1) = <<>>
      BY <2>1, <1>4
    <3>2. AllIn(<<>>, DigitsOfBase)
      BY DEF AllIn
    <3> QED
      BY <3>1, <3>2, Zenon
  <2>2. CASE start # pos
    <3>1. PICK q : q = pos - 1
      OBVIOUS
    <3>2. q \in start .. Len(text)
      BY <3>1, <2>2, <1>1, <1>3, <1>4 DEF TypeInv
    <3>3. \A k \in start .. q : text[k] \in DigitsOfBase
      BY <3>1, <1>3
    <3>4. AllIn(SubSeq(text, start, q), DigitsOfBase)
      BY <3>2, <3>3, <1>4, PieceIn
    <3>5. SubSeq(text, start, pos - 1) = SubSeq(text, start, q)
      BY <3>1
    <3> QED
      BY <3>4, <3>5, Zenon
  <2> QED
    BY <2>1, <2>2
<1>6. ErrorsJustified'
  <2>1. <<line', col'>> = Place(pos)' /\ Place(start)' = loc'
    BY <1>1, <1>3 DEF LInv, Place, NewlinesBefore, OnLineBefore
  <2>2. AllIn(SubSeq(text', start', pos' - 1), DigitsOfBase)
    BY <1>1, <1>5
  <2> QED
    BY <1>1, <1>4, <2>1, <2>2 DEF ErrorsJustified, AllIn
<1> QED
  BY <1>1, <1>6, ErrorStep

LEMMA UnexpectedCharacterLInv == LInv /\ UnexpectedCharacter => LInv'
<1> SUFFICES ASSUME LInv, UnexpectedCharacter PROVE LInv'
  OBVIOUS
<1>1. /\ TypeInv /\ mode = "next" /\ mode' = "error" /\ AtToken
      /\ Current \notin IdentifierStart \cup Digits \cup SingleChars
      /\ UNCHANGED <<text, pos, line, col, start, loc, tokens>>
  BY SingleTable DEF LInv, UnexpectedCharacter, AtToken
<1>2. /\ pos <= Len(text) /\ text[pos] = Current /\ pos \in Nat \ {0}
      /\ text \in Seq(Characters) /\ Len(text) \in Nat /\ pos \in 1 .. Len(text)
  BY <1>1, Ahead DEF AtToken
<1>3. LexemesAt(pos) = {}
  BY <1>1, <1>2, NoLexeme DEF LexemesAt
<1>4. ~ InComment(pos, pos)
  BY <1>1, <1>2, CommentIs, Ahead DEF AtToken, CommentBegins
<1>5. ErrorsJustified'
  <2>1. <<line', col'>> = Place(pos)'
    BY <1>1 DEF LInv, Place, NewlinesBefore, OnLineBefore
  <2>2. LexemesAt(pos)' = {} /\ ~ InComment(pos, pos)'
    BY <1>1, <1>3, <1>4 DEF LexemesAt, InComment
  <2> QED
    BY <2>1, <2>2 DEF ErrorsJustified
<1> QED
  BY <1>1, <1>5, ErrorStep

LEMMA StutterLInv == LInv /\ UNCHANGED lexVars => LInv'
<1> SUFFICES ASSUME LInv, UNCHANGED lexVars PROVE LInv'
  OBVIOUS
<1>1. UNCHANGED <<text, pos, line, col, mode, start, loc, tokens>>
  BY DEF lexVars
<1>2. TypeInv' /\ Words' = Words
  BY <1>1 DEF LInv, TypeInv, Words
<1>3. <<line', col'>> = Place(pos)'
  BY <1>1 DEF LInv, Place, NewlinesBefore, OnLineBefore
<1>4. ErrorsJustified'
  BY <1>1 DEF LInv, ErrorsJustified, Place, NewlinesBefore, OnLineBefore, LexemesAt, InComment
<1>5. PICK b, e : Scanned(b, e, Len(Words)) /\ Scanning(e[Len(Words)])
  BY DEF LInv
<1>6. PICK n, y : n = Len(Words) /\ y = e[n]
  OBVIOUS
<1>7. Scanned(b, e, n)'
  BY <1>1, <1>5, <1>6, SameSource DEF Scanned
<1>8. Scanning(y)'
  <2>1. PICK x, z, u, v, w : x = pos /\ z = start /\ u = start - 2 /\ v = start + 2 /\ w = pos - 1
    OBVIOUS
  <2>2. /\ Skipped(y, x)' = Skipped(y, x) /\ \A j : InComment(j, w)' = InComment(j, w)
        /\ NothingBetween(y, z)' = NothingBetween(y, z) /\ Place(z)' = Place(z)
        /\ NothingBetween(y, u)' = NothingBetween(y, u) /\ Place(u)' = Place(u)
        /\ IsDecimalAt(z, v)' = IsDecimalAt(z, v)
    BY <1>1, SameSource
  <2>3. PICK l : l = Len(text) + 1
    OBVIOUS
  <2>4. NothingBetween(y, l)' = NothingBetween(y, l)
    BY <1>1, SameSource
  <2> QED
    BY <1>1, <1>5, <1>6, <2>1, <2>2, <2>3, <2>4 DEF Scanning
<1> QED
  BY <1>2, <1>3, <1>4, <1>6, <1>7, <1>8 DEF LInv

LEMMA NextLInv == LInv /\ [LexNext]_lexVars => LInv'
  BY SkipBlankLInv, BeginCommentLInv, SkipCommentLInv, EndCommentLInv, EndOfInputLInv,
     BeginDecimalLInv, BeginNumberLInv, BeginIdentifierLInv, ContinueLInv, RefuseDigitLInv,
     EndValueLInv, TwoCharOperatorLInv, SingleCharTokenLInv, UnexpectedCharacterLInv,
     StutterLInv DEF LexNext

LEMMA Scans == LexSpec => []LInv
  BY InitLInv, NextLInv, PTL DEF LexSpec

\* Every token is the longest lexeme at the place it claims to be at, and the
\* digits of a number are those of the base (lexer.py: _next_token).
THEOREM TokensAreLongest == LexSpec => []MaximalMunch
  BY Scans, LInvProperties, PTL

\* Between the tokens, and behind the last one when scanning is done, there are
\* blanks and whole comments only (lexer.py: _skip_whitespace_and_comments).
THEOREM SourceIsKept == LexSpec => []NothingLost
  BY Scans, LInvProperties, PTL

\* Scanning fails only where no lexeme begins or at a digit that is not one of
\* the base, and the error is located there (lexer.py: _next_token).
THEOREM ErrorsAreJustified == LexSpec => []ErrorsJustified
  BY Scans, LInvProperties, PTL
=============================================================================
