--------------------------- MODULE MC_TokenLists ---------------------------
(***************************************************************************)
(* Token lists for TextRun: every short expression, blocks made of phrases *)
(* in any order, and a program with one token removed, replaced or put in, *)
(* wherever that is.                                                       *)
(***************************************************************************)
EXTENDS Integers, SequencesExt

CONSTANT MaxLiteral     \* the largest number a literal may stand for

T(type, value) == [type |-> type, value |-> value]

Sign(type) == T(type, "")

A == T("IDENT", "a")
F == T("IDENT", "f")
N(n) == T("NUMBER", n)
Minus == T("MINUS", "-")
Plus  == T("PLUS", "+")
Word  == T("WORD", "word")
Void  == T("VOID", "void")

Flattened(phrases) == FlattenSeq(phrases)

\* let a: word = X;
GlobalWith(X) ==
    <<Sign("LET"), A, Sign("COLON"), Word, Sign("ASSIGN")>> \o X \o <<Sign("SEMICOLON")>>

\* fn f() -> void { X }
FunctionWith(X) ==
    <<Sign("FN"), F, Sign("LPAREN"), Sign("RPAREN"), Sign("ARROW"), Void, Sign("LBRACE")>>
    \o X \o <<Sign("RBRACE")>>

ExprTokens == {A, Minus, T("EQ", "=="), T("LT", "<"), Sign("LPAREN"), Sign("RPAREN"),
               Sign("COMMA")}

MoreTokens == {N(1), N(MaxLiteral + 1), Sign("STORE"), Sign("LBRACKET"), Sign("RBRACKET"),
               T("BANG", "!"), Plus, A, Sign("TRUE")}

\* Four operands, some in brackets, and operators of each level between them.
Operands  == {<<A>>, <<Minus, A>>, <<Sign("LPAREN"), A>>, <<A, Sign("RPAREN")>>}
Operators == {T("EQ", "=="), T("LT", "<"), Minus}

Chains ==
    {a \o <<o[1]>> \o b \o <<o[2]>> \o c \o <<o[3]>> \o d :
        a, b, c, d \in Operands, o \in [1 .. 3 -> Operators]}

Phrases == {
    <<Sign("IF"), A, Sign("LBRACE")>>, <<Sign("WHILE"), A, Sign("LBRACE")>>,
    <<Sign("ELSE"), Sign("LBRACE")>>, <<Sign("RBRACE")>>, <<Sign("RETURN")>>, <<A>>,
    <<Sign("ASSIGN")>>, <<Sign("SEMICOLON")>>}

Bodies == {Flattened(s) : s \in BoundedSeq(Phrases, 5)}

\* let a: word = -1;  fn f(a: word, f: word) -> word {
\*   let f: word = f(a, 1); if a { return f; } else { a = store[a]; } while a { } }
Program ==
    GlobalWith(<<Minus, N(1)>>) \o
    <<Sign("FN"), F, Sign("LPAREN"), A, Sign("COLON"), Word, Sign("COMMA"),
      F, Sign("COLON"), Word, Sign("RPAREN"), Sign("ARROW"), Word, Sign("LBRACE"),
      Sign("LET"), F, Sign("COLON"), Word, Sign("ASSIGN"),
      F, Sign("LPAREN"), A, Sign("COMMA"), N(1), Sign("RPAREN"), Sign("SEMICOLON"),
      Sign("IF"), A, Sign("LBRACE"), Sign("RETURN"), F, Sign("SEMICOLON"), Sign("RBRACE"),
      Sign("ELSE"), Sign("LBRACE"), A, Sign("ASSIGN"),
      Sign("STORE"), Sign("LBRACKET"), A, Sign("RBRACKET"), Sign("SEMICOLON"), Sign("RBRACE"),
      Sign("WHILE"), A, Sign("LBRACE"), Sign("RBRACE"), Sign("RBRACE")>>

Edits ==
    {Program} \cup
    {RemoveAt(Program, k) : k \in DOMAIN Program} \cup
    {ReplaceAt(Program, k, t) : k \in DOMAIN Program, t \in ToSet(Program)} \cup
    {InsertAt(Program, k, t) : k \in DOMAIN Program, t \in ToSet(Program)}

TokenFamilies ==
    <<{GlobalWith(X) : X \in BoundedSeq(ExprTokens, 5)},
      {GlobalWith(X) : X \in BoundedSeq(MoreTokens, 4)},
      {GlobalWith(X) : X \in Chains},
      {FunctionWith(X) : X \in Bodies},
      Edits>>
=============================================================================
