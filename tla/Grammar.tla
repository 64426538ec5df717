------------------------------ MODULE Grammar ------------------------------
(***************************************************************************)
(* The grammar of SeptaLang as the header of septa/parser/parser.py writes *)
(* it down, completed by the shapes of statements in septa/parser/ast.py,  *)
(* without a parser: the set of syntax trees that the tokens from i to j   *)
(* can be derived to.  Parsing is right if it finds the only one.  In one  *)
(* place the header is not followed: it has at most one - or ! before a    *)
(* primary, the parser any number.                                         *)
(***************************************************************************)
EXTENDS Parser

Is(k, type) == given[k].type = type

\* The positions strictly between i and j that have a token of these types.
Splits(i, j, types) == {k \in i + 1 .. j - 1 : given[k].type \in types}

RECURSIVE Trees(_, _, _), ListTrees(_, _), Statements(_, _)

Exprs(i, j) == Trees(1, i, j)

\* Expressions separated by commas, at least one.
ListTrees(i, j) ==
    {<<e>> : e \in Exprs(i, j)} \cup
    UNION {{<<e>> \o rest : e \in Exprs(i, k - 1), rest \in ListTrees(k + 1, j)} :
              k \in Splits(i, j, {"COMMA"})}

Leaf(k) ==
    CASE given[k].type \in {"NUMBER", "DECIMAL_NUMBER"} ->
            IF given[k].value <= MaxLiteral THEN {NumberLiteral(given[k].value)} ELSE {}
      [] given[k].type \in {"TRUE", "FALSE"} -> {BoolLiteral(Is(k, "TRUE"))}
      [] Is(k, "IDENT") -> {Ident(given[k].value)}
      [] OTHER -> {}

\* From i to j there is something in brackets of this kind.
Enclosed(i, j, open, close) == i < j /\ Is(i, open) /\ Is(j, close)

PrimaryTrees(i, j) ==
    IF i = j THEN Leaf(i)
    ELSE (IF Is(i, "STORE") /\ Enclosed(i + 1, j, "LBRACKET", "RBRACKET")
          THEN {StoreAccess(e) : e \in Exprs(i + 2, j - 1)} ELSE {})
         \cup
         (IF Is(i, "IDENT") /\ Enclosed(i + 1, j, "LPAREN", "RPAREN")
          THEN {FnCall(given[i].value, args) :
                   args \in IF j = i + 2 THEN {<<>>} ELSE ListTrees(i + 2, j - 1)}
          ELSE {})
         \cup
         (IF Enclosed(i, j, "LPAREN", "RPAREN") THEN Exprs(i + 1, j - 1) ELSE {})

UnaryTrees(i, j) ==
    PrimaryTrees(i, j) \cup
    IF i < j /\ given[i].type \in {"MINUS", "BANG"}
    THEN {UnaryExpr(given[i].value, e) : e \in Trees(4, i + 1, j)}
    ELSE {}

Trees(level, i, j) ==
    IF i > j THEN {}
    ELSE IF level = 4 THEN UnaryTrees(i, j)
    ELSE Trees(level + 1, i, j) \cup
         UNION {{BinaryExpr(l, given[k].value, r) :
                    l \in Trees(level, i, k - 1), r \in Trees(level + 1, k + 1, j)} :
                  k \in Splits(i, j, OperatorsOf[level])}

-----------------------------------------------------------------------------
TypeNames(k) == IF given[k].type \in {"WORD", "BOOL7", "ADDR", "VOID"}
                THEN {given[k].value} ELSE {}

\* name : type
ParamAt(i) ==
    IF Is(i, "IDENT") /\ Is(i + 1, "COLON")
    THEN {Param(given[i].value, type) : type \in TypeNames(i + 2)} ELSE {}

RECURSIVE ParamLists(_, _)

ParamLists(i, j) ==
    IF j < i + 2 THEN {}
    ELSE IF j = i + 2 THEN {<<p>> : p \in ParamAt(i)}
    ELSE IF ~ Is(i + 3, "COMMA") THEN {}
    ELSE {<<p>> \o rest : p \in ParamAt(i), rest \in ParamLists(i + 4, j)}

\* let name : type = expr ;
Lets(i, j, Tree(_, _, _)) ==
    IF j >= i + 6 /\ Is(i, "LET") /\ Is(i + 4, "ASSIGN") /\ Is(j, "SEMICOLON")
    THEN {Tree(p.name, p.type, e) : p \in ParamAt(i + 1), e \in Exprs(i + 5, j - 1)}
    ELSE {}

Blocks(i, j) ==
    IF Enclosed(i, j, "LBRACE", "RBRACE") THEN Statements(i + 1, j - 1) ELSE {}

Conditionals(i, j) ==
    IF ~ Is(i, "IF") THEN {}
    ELSE UNION {
        {IfStmt(c, then, <<>>) : c \in Exprs(i + 1, k - 1), then \in Blocks(k, j)} \cup
        UNION {{IfStmt(c, then, <<else>>) :
                   c \in Exprs(i + 1, k - 1), then \in Blocks(k, m - 1),
                   else \in Blocks(m + 1, j)} : m \in Splits(k, j, {"ELSE"})} :
        k \in Splits(i, j, {"LBRACE"})}

Loops(i, j) ==
    IF ~ Is(i, "WHILE") THEN {}
    ELSE UNION {{WhileStmt(c, body) : c \in Exprs(i + 1, k - 1), body \in Blocks(k, j)} :
                  k \in Splits(i, j, {"LBRACE"})}

Returns(i, j) ==
    IF ~ (Is(i, "RETURN") /\ i < j /\ Is(j, "SEMICOLON")) THEN {}
    ELSE IF j = i + 1 THEN {ReturnStmt(<<>>)}
    ELSE {ReturnStmt(<<e>>) : e \in Exprs(i + 1, j - 1)}

\* lvalue = expr ;
Assignments(i, j) ==
    IF ~ Is(j, "SEMICOLON") THEN {}
    ELSE {ExprStmt(e) : e \in Exprs(i, j - 1)} \cup
         UNION {{AssignStmt(target, e) :
                    target \in {t \in Exprs(i, k - 1) : t.node \in {"ident", "store"}},
                    e \in Exprs(k + 1, j - 1)} : k \in Splits(i, j, {"ASSIGN"})}

StatementTrees(i, j) ==
    Lets(i, j, LetStmt) \cup Conditionals(i, j) \cup Loops(i, j) \cup Returns(i, j) \cup
    Assignments(i, j)

\* Any number of statements one after the other.
Statements(i, j) ==
    IF i > j THEN {<<>>}
    ELSE UNION {UNION {{<<s>> \o rest : rest \in Statements(k + 1, j)} :
                          s \in StatementTrees(i, k)} :
                  k \in {k \in i .. j : given[k].type \in {"SEMICOLON", "RBRACE"}}}

Functions(i, j) ==
    IF ~ (j >= i + 7 /\ Is(i, "FN") /\ Is(i + 1, "IDENT") /\ Is(i + 2, "LPAREN")) THEN {}
    ELSE UNION {
        {FunctionDecl(given[i + 1].value, params, ret, body) :
            params \in IF k = i + 3 THEN {<<>>} ELSE ParamLists(i + 3, k - 1),
            ret \in IF Is(k + 1, "ARROW") THEN TypeNames(k + 2) ELSE {},
            body \in Blocks(k + 3, j)} :
        k \in {k \in Splits(i, j, {"RPAREN"}) : k + 4 <= j}}

RECURSIVE ProgramTrees(_, _)

ProgramTrees(i, j) ==
    IF i > j THEN {<<>>}
    ELSE UNION {UNION {{<<d>> \o rest : rest \in ProgramTrees(k + 1, j)} :
                          d \in Lets(i, k, GlobalDecl) \cup Functions(i, k)} :
                  k \in {k \in i .. j : given[k].type \in {"SEMICOLON", "RBRACE"}}}

Derivations == ProgramTrees(1, Len(given))

-----------------------------------------------------------------------------
\* What is accepted has one derivation, and the tree is that one; what is
\* refused has none.
ParsesTheGrammar ==
    /\ parsing = "done"  => Derivations = {declarations}
    /\ parsing = "error" => Derivations = {}
=============================================================================
