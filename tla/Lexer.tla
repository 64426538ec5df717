------------------------------- MODULE Lexer -------------------------------
(***************************************************************************)
(* The scanner of SeptaLang (septa/lexer/lexer.py): tokenize as a machine  *)
(* that takes one step for each turn of its loops.  A source is a sequence *)
(* of characters; a token has the characters of its value and the line and *)
(* column it begins at.                                                    *)
(***************************************************************************)
EXTENDS Integers, Sequences, FiniteSets

CONSTANTS
    Radix,      \* the active radix: its digits are those of a number
    Characters, \* the characters of the sources
    Letters,    \* those of them that are letters
    Texts       \* sequences of characters

DigitChars == <<"0", "1", "2", "3", "4", "5", "6", "7", "8", "9">>

Digits == {DigitChars[k] : k \in DOMAIN DigitChars}

\* max_digit and the digits below it.
DigitsOfBase == {DigitChars[k] : k \in 1 .. Radix}

\* Past the end of the source.
NoChar == ""

Blanks == {" ", "\t", "\r", "\n"}

\* Mutant: an underscore continues an identifier but does not begin one.
IdentifierStart_LettersOnly == Letters

IdentifierStart == Letters \cup {"_"}

IdentifierChars == Letters \cup Digits \cup {"_"}

\* The function of a table of pairs.
Table(pairs) == [x \in {p[1] : p \in pairs} |-> (CHOOSE p \in pairs : p[1] = x)[2]]

TwoCharOps == Table(
    {<<<<"=", "=">>, "EQ">>, <<<<"!", "=">>, "NEQ">>, <<<<">", "=">>, "GTE">>,
     <<<<"<", "=">>, "LTE">>, <<<<"-", ">">>, "ARROW">>})

SingleCharTokens == Table(
    {<<"+", "PLUS">>, <<"-", "MINUS">>, <<"!", "BANG">>, <<"=", "ASSIGN">>, <<">", "GT">>,
     <<"<", "LT">>, <<"(", "LPAREN">>, <<")", "RPAREN">>, <<"{", "LBRACE">>,
     <<"}", "RBRACE">>, <<"[", "LBRACKET">>, <<"]", "RBRACKET">>, <<",", "COMMA">>,
     <<";", "SEMICOLON">>, <<":", "COLON">>})

Keywords == Table(
    {<<<<"f", "n">>, "FN">>, <<<<"l", "e", "t">>, "LET">>,
     <<<<"r", "e", "t", "u", "r", "n">>, "RETURN">>, <<<<"i", "f">>, "IF">>,
     <<<<"e", "l", "s", "e">>, "ELSE">>, <<<<"w", "h", "i", "l", "e">>, "WHILE">>,
     <<<<"t", "r", "u", "e">>, "TRUE">>, <<<<"f", "a", "l", "s", "e">>, "FALSE">>,
     <<<<"s", "t", "o", "r", "e">>, "STORE">>, <<<<"w", "o", "r", "d">>, "WORD">>,
     <<<<"b", "o", "o", "l", "7">>, "BOOL7">>, <<<<"a", "d", "d", "r">>, "ADDR">>,
     <<<<"v", "o", "i", "d">>, "VOID">>})

ASSUME LexerAssumption ==
    /\ Radix \in 2 .. Len(DigitChars)
    /\ "d" \in Letters
    /\ Letters \cap (Digits \cup Blanks \cup {"_", "/"} \cup DOMAIN SingleCharTokens) = {}
    /\ NoChar \notin Characters \cup Letters
    /\ Texts \subseteq Seq(Characters)

-----------------------------------------------------------------------------
VARIABLES
    text,
    pos, line, col,     \* where the scanner is
    mode,               \* the loop it is in, "done" or "error"
    start,              \* where the value of the current token begins
    loc,                \* where the current token begins, as <<line, column>>
    tokens

lexVars == <<text, pos, line, col, mode, start, loc, tokens>>

\* The character offset places ahead.
Peek(offset) == IF pos + offset > Len(text) THEN NoChar ELSE text[pos + offset]

Current == Peek(0)

NextColumn == IF Current = "\n" THEN 1 ELSE col + 1

AdvanceOne ==
    /\ pos' = pos + 1
    /\ line' = IF Current = "\n" THEN line + 1 ELSE line
    /\ col' = NextColumn

\* Several characters of one line.
AdvanceBy(n) == pos' = pos + n /\ col' = col + n /\ UNCHANGED line

Token(type, value, place) == [type |-> type, value |-> value, loc |-> place]

LexInit ==
    /\ text \in Texts
    /\ pos = 1 /\ line = 1 /\ col = 1
    /\ mode = "next" /\ start = 1 /\ loc = <<1, 1>> /\ tokens = <<>>

SkipBlank ==
    /\ mode = "next" /\ Current \in Blanks
    /\ AdvanceOne
    /\ UNCHANGED <<text, mode, start, loc, tokens>>

\* Mutant: one slash begins a comment.
CommentBegins_OneSlash == Current = "/"

CommentBegins == Current = "/" /\ Peek(1) = "/"

BeginComment ==
    /\ mode = "next" /\ CommentBegins
    /\ mode' = "comment"
    /\ UNCHANGED <<text, pos, line, col, start, loc, tokens>>

\* Mutant: only the end of the line ends a comment.
CommentEnds_Newline == Current = "\n"

CommentEnds == pos > Len(text) \/ Current = "\n"

SkipComment ==
    /\ mode = "comment" /\ ~ CommentEnds /\ pos <= Len(text)
    /\ AdvanceOne
    /\ UNCHANGED <<text, mode, start, loc, tokens>>

EndComment ==
    /\ mode = "comment" /\ CommentEnds
    /\ mode' = "next"
    /\ UNCHANGED <<text, pos, line, col, start, loc, tokens>>

\* _next_token, when blanks and comments are behind.
AtToken ==
    mode = "next" /\ Current \notin Blanks /\ ~ CommentBegins /\ pos <= Len(text)

EndOfInput ==
    /\ mode = "next" /\ pos > Len(text)
    /\ mode' = "done"
    /\ tokens' = Append(tokens, Token("EOF", <<>>, <<line, col>>))
    /\ UNCHANGED <<text, pos, line, col, start, loc>>

\* Mutant: d: is a prefix whatever follows.
DecimalBegins_AnyColon == Current = "d" /\ Peek(1) = ":"

DecimalBegins == Current = "d" /\ Peek(1) = ":" /\ Peek(2) \in Digits

BeginDecimal ==
    /\ AtToken /\ DecimalBegins
    /\ mode' = "decimal" /\ start' = pos + 2 /\ loc' = <<line, col>>
    /\ AdvanceBy(2)
    /\ UNCHANGED <<text, tokens>>

BeginNumber ==
    /\ AtToken /\ Current \in Digits
    /\ mode' = "number" /\ start' = pos /\ loc' = <<line, col>>
    /\ UNCHANGED <<text, pos, line, col, tokens>>

BeginIdentifier ==
    /\ AtToken /\ Current \in IdentifierStart /\ ~ DecimalBegins
    /\ mode' = "identifier" /\ start' = pos /\ loc' = <<line, col>>
    /\ UNCHANGED <<text, pos, line, col, tokens>>

Continues ==
    \/ mode = "number" /\ Current \in Digits
    \/ mode = "decimal" /\ Current \in Digits
    \/ mode = "identifier" /\ Current \in IdentifierChars

BadDigit == mode = "number" /\ Current \in Digits \ DigitsOfBase

Continue ==
    /\ Continues /\ ~ BadDigit
    /\ AdvanceOne
    /\ UNCHANGED <<text, mode, start, loc, tokens>>

RefuseDigit ==
    /\ BadDigit
    /\ mode' = "error"
    /\ UNCHANGED <<text, pos, line, col, start, loc, tokens>>

TypeOf(value) ==
    CASE mode = "number" -> "NUMBER"
      [] mode = "decimal" -> "DECIMAL_NUMBER"
      [] mode = "identifier" -> IF value \in DOMAIN Keywords THEN Keywords[value] ELSE "IDENT"

EndValue ==
    LET value == SubSeq(text, start, pos - 1) IN
    /\ mode \in {"number", "decimal", "identifier"} /\ ~ Continues
    /\ mode' = "next"
    /\ tokens' = Append(tokens, Token(TypeOf(value), value, loc))
    /\ UNCHANGED <<text, pos, line, col, start, loc>>

Pair == <<Current, Peek(1)>>

TwoCharOperator ==
    /\ AtToken /\ Pair \in DOMAIN TwoCharOps
    /\ tokens' = Append(tokens, Token(TwoCharOps[Pair], Pair, <<line, col>>))
    /\ AdvanceBy(2)
    /\ UNCHANGED <<text, mode, start, loc>>

SingleCharToken ==
    /\ AtToken /\ Pair \notin DOMAIN TwoCharOps /\ Current \in DOMAIN SingleCharTokens
    /\ tokens' = Append(tokens, Token(SingleCharTokens[Current], <<Current>>, <<line, col>>))
    /\ AdvanceBy(1)
    /\ UNCHANGED <<text, mode, start, loc>>

UnexpectedCharacter ==
    /\ AtToken
    /\ Current \notin IdentifierStart \cup Digits \cup DOMAIN SingleCharTokens
    /\ mode' = "error"
    /\ UNCHANGED <<text, pos, line, col, start, loc, tokens>>

LexNext ==
    \/ SkipBlank \/ BeginComment \/ SkipComment \/ EndComment
    \/ EndOfInput \/ BeginDecimal \/ BeginNumber \/ BeginIdentifier
    \/ Continue \/ RefuseDigit \/ EndValue
    \/ TwoCharOperator \/ SingleCharToken \/ UnexpectedCharacter

LexSpec == LexInit /\ [][LexNext]_lexVars /\ WF_lexVars(LexNext)

-----------------------------------------------------------------------------
(* The lexical rules, without a scanner.                                   *)

NewlinesBefore(p) == {k \in 1 .. p - 1 : text[k] = "\n"}

OnLineBefore(p) == {k \in 1 .. p - 1 : \A j \in k .. p - 1 : text[j] # "\n"}

Place(p) == <<Cardinality(NewlinesBefore(p)) + 1, Cardinality(OnLineBefore(p)) + 1>>

AllIn(s, chars) == \A k \in DOMAIN s : s[k] \in chars

IsDecimal(s) ==
    Len(s) > 2 /\ s[1] = "d" /\ s[2] = ":" /\ AllIn(SubSeq(s, 3, Len(s)), Digits)

IsName(s) == s[1] \in Letters \cup {"_"} /\ AllIn(s, IdentifierChars)

IsLexeme(s) ==
    \/ AllIn(s, Digits) \/ IsDecimal(s) \/ IsName(s)
    \/ s \in DOMAIN TwoCharOps \/ (Len(s) = 1 /\ s[1] \in DOMAIN SingleCharTokens)

LexemesAt(p) == {s \in {SubSeq(text, p, q) : q \in p .. Len(text)} : IsLexeme(s)}

LongestAt(p) == CHOOSE s \in LexemesAt(p) : \A t \in LexemesAt(p) : Len(t) <= Len(s)

\* The token that a lexeme at p is.
Meant(p, s) ==
    CASE AllIn(s, Digits) -> Token("NUMBER", s, Place(p))
      [] IsDecimal(s) -> Token("DECIMAL_NUMBER", SubSeq(s, 3, Len(s)), Place(p))
      [] s \in DOMAIN Keywords -> Token(Keywords[s], s, Place(p))
      [] IsName(s) /\ s \notin DOMAIN Keywords -> Token("IDENT", s, Place(p))
      [] s \in DOMAIN TwoCharOps -> Token(TwoCharOps[s], s, Place(p))
      [] OTHER -> Token(SingleCharTokens[s[1]], s, Place(p))

PlaceOf(token) == {p \in 1 .. Len(text) : token.loc = Place(p)}

InComment(first, p) ==
    /\ first < Len(text) /\ SubSeq(text, first, first + 1) = <<"/", "/">>
    /\ \A k \in first .. p : text[k] # "\n"

\* From p to before q there are blanks and whole comments only.
NothingBetween(p, q) ==
    /\ p <= q
    /\ \A k \in p .. q - 1 : text[k] \in Blanks \/ \E j \in p .. k : InComment(j, k)
    /\ q <= Len(text) => ~ \E j \in p .. q : InComment(j, q)

\* The tokens other than the last, at the end of the input.
Words == IF mode = "done" THEN SubSeq(tokens, 1, Len(tokens) - 1) ELSE tokens

\* Every token is the longest lexeme at the place it claims to be at, and the
\* digits of its value are those of the base unless it is a decimal.
MaximalMunch ==
    \A k \in DOMAIN Words :
        /\ \E p \in PlaceOf(Words[k]) :
              LexemesAt(p) # {} /\ Words[k] = Meant(p, LongestAt(p))
        /\ Words[k].type = "NUMBER" => AllIn(Words[k].value, DigitsOfBase)

\* Where the text of a token begins and where it is behind.
Begin(token) == CHOOSE p \in PlaceOf(token) : TRUE

Behind(token) == Begin(token) + Len(token.value)
                    + IF token.type = "DECIMAL_NUMBER" THEN 2 ELSE 0

\* What has been scanned is the tokens, and blanks and comments between them;
\* no token is inside a comment.
NothingLost ==
    LET n == Len(Words)
        From(k) == IF k = 0 THEN 1 ELSE Behind(Words[k])
    IN  /\ \A k \in 1 .. n : NothingBetween(From(k - 1), Begin(Words[k]))
        /\ mode = "done" => NothingBetween(From(n), Len(text) + 1)

\* Scanning fails only at a character that begins no lexeme and no comment,
\* or at the first digit of a number that is not one of the base.
ErrorsJustified ==
    mode = "error" =>
        /\ <<line, col>> = Place(pos)
        /\ \/ LexemesAt(pos) = {} /\ ~ InComment(pos, pos)
           \/ /\ text[pos] \in Digits \ DigitsOfBase
              /\ AllIn(SubSeq(text, start, pos - 1), DigitsOfBase)
              /\ Place(start) = loc

\* Every source is scanned to its end or to an error.
Terminates == <>(mode \in {"done", "error"})
=============================================================================
