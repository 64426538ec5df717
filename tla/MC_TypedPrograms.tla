-------------------------- MODULE MC_TypedPrograms --------------------------
(***************************************************************************)
(* Programs for SourceRun: globals and functions of every type, and a main *)
(* with one statement of a large set, well and badly typed.                *)
(***************************************************************************)
EXTENDS SyntaxTrees

N(v) == NumberLiteral(v)
X == Ident("x")
B == Ident("b")
F == Ident("flag")
Yes == BoolLiteral(TRUE)
Binary(a, op, b) == BinaryExpr(a, op, b)

Globals == <<GlobalDecl("g", "addr", N(2)), GlobalDecl("flag", "bool7", Yes)>>

\* both has parameters of both types; odd returns a bool7 from a loop; store
\* does what its name says and returns nothing.
Functions ==
    <<FunctionDecl("both", <<Param("b", "bool7"), Param("x", "word")>>, "bool7",
         <<IfStmt(Binary(X, ">", N(3)), <<ReturnStmt(<<UnaryExpr("!", B)>>)>>, <<>>),
           AssignStmt(F, Binary(B, "==", F)),
           ReturnStmt(<<F>>)>>),
      FunctionDecl("odd", <<Param("x", "addr")>>, "bool7",
         <<LetStmt("b", "bool7", BoolLiteral(FALSE)),
           WhileStmt(X, <<AssignStmt(X, Binary(X, "-", N(1))),
                          AssignStmt(B, UnaryExpr("!", B))>>),
           ReturnStmt(<<B>>)>>),
      FunctionDecl("next", <<Param("x", "word")>>, "word",
         <<ReturnStmt(<<Binary(X, "+", Ident("g"))>>)>>),
      FunctionDecl("keep", <<Param("x", "word")>>, "void",
         <<AssignStmt(StoreAccess(N(1)), X), ReturnStmt(<<>>)>>)>>

\* let x = 5; let b = true; body; printd(x); if b { halt(); }
Around(body) ==
    [globals   |-> Globals,
     functions |-> Functions \o
       <<FunctionDecl("main", <<>>, "void",
            <<LetStmt("x", "word", N(5)), LetStmt("b", "bool7", Yes)>> \o body \o
            <<ExprStmt(FnCall("printd", <<X>>)),
              IfStmt(B, <<ExprStmt(FnCall("halt", <<>>))>>, <<>>)>>)>>]

-----------------------------------------------------------------------------
Words2 == {N(7), X, Ident("g"), StoreAccess(N(1)), FnCall("next", <<X>>)}
Bools  == {Yes, B, F, FnCall("both", <<B, X>>), FnCall("odd", <<N(3)>>)}

\* Expressions of one more level, of the right types and of wrong ones.
Exprs ==
    Words2 \cup Bools \cup
    {Binary(a, op, b) : a \in {N(7), X, B}, op \in {"+", "<", "=="},
                        b \in {X, F, FnCall("next", <<X>>)}} \cup
    {UnaryExpr(op, a) : op \in {"-", "!"}, a \in {X, F, FnCall("keep", <<X>>)}} \cup
    {FnCall("both", <<a, b>>) : a \in {B, X, FnCall("odd", <<X>>)}, b \in {X, F}} \cup
    {FnCall("both", <<B>>), FnCall("print", <<X>>), FnCall("halt", <<>>),
     FnCall("keep", <<X>>), FnCall("missing", <<>>), Ident("missing"),
     StoreAccess(F), StoreAccess(FnCall("next", <<X>>))}

Statements ==
    {<<LetStmt(name, type, e)>> :
        name \in {"y", "x"}, type \in {"word", "bool7", "addr"}, e \in Exprs} \cup
    {<<AssignStmt(target, e)>> :
        target \in {X, B, F, StoreAccess(N(1)), StoreAccess(B), Ident("y")}, e \in Exprs} \cup
    {<<s>> : s \in {ExprStmt(e) : e \in Exprs} \cup {ReturnStmt(<<e>>) : e \in Words2}}

\* Blocks that declare names of the enclosing ones, and uses after their end.
Shadow(name, type, e) == <<LetStmt(name, type, e), AssignStmt(Ident(name), e)>>

Blocks ==
    {Shadow(name, type, e) : name \in {"x", "b", "z"}, type \in {"word", "bool7"},
                             e \in {X, F, FnCall("odd", <<X>>)}}

Nested ==
    {<<IfStmt(c, then, else)>> \o after :
        c \in {X, F, FnCall("keep", <<X>>)}, then \in Blocks,
        else \in {<<>>, <<Shadow("z", "bool7", B)>>},
        after \in {<<>>, <<AssignStmt(F, B)>>, <<AssignStmt(Ident("z"), B)>>}} \cup
    {<<WhileStmt(Binary(X, ">", N(2)),
                 <<AssignStmt(X, Binary(X, "-", N(2)))>> \o body)>> : body \in Blocks}

\* Declarations: name spaces, parameters, globals, main.
WithMain(body) == FunctionDecl("main", <<>>, "void", body)

Declared ==
    {[globals |-> <<g>>, functions |-> <<f, main>>] :
        g \in {GlobalDecl("g", "bool7", Yes), GlobalDecl("f", "word", N(1)),
               GlobalDecl("print", "word", N(1)), GlobalDecl("g", "void", N(1)),
               GlobalDecl("g", "word", Yes), GlobalDecl("g", "word", Binary(N(1), "+", N(1)))},
        f \in {FunctionDecl("f", <<Param("g", "word"), Param("g", "word")>>, "void", <<>>),
               FunctionDecl("f", <<Param("g", "void")>>, "void", <<>>),
               FunctionDecl("f", <<>>, "addr", <<ReturnStmt(<<>>)>>),
               FunctionDecl("f", <<>>, "addr", <<ReturnStmt(<<N(1)>>)>>),
               FunctionDecl("main", <<>>, "void", <<>>)},
        main \in {WithMain(<<>>), FunctionDecl("main", <<>>, "word", <<ReturnStmt(<<N(1)>>)>>),
                  WithMain(<<LetStmt("f", "bool7", Ident("g")), AssignStmt(Ident("g"), Ident("f"))>>),
                  FunctionDecl("main", <<Param("a", "word")>>, "void", <<>>),
                  FunctionDecl("start", <<>>, "void", <<>>)}}

TypedPrograms == {Around(body) : body \in Statements \cup Nested} \cup Declared

-----------------------------------------------------------------------------
(* Accepted programs that do not compile, or whose types do not hold.      *)

Program(functions, body) ==
    [globals |-> <<>>, functions |-> functions \o <<WithMain(body)>>]

\* fn f() -> void {}  let v: void = f();
VoidVariable ==
    {Program(<<FunctionDecl("f", <<>>, "void", <<>>)>>,
             <<LetStmt("v", "void", FnCall("f", <<>>))>>)}

\* fn _init() -> void {}
LabelNames == {Program(<<FunctionDecl("_init", <<>>, "void", <<>>)>>, <<>>)}

\* fn f(x: word) -> bool7 { if x > 3 { return true; } }
\* let x: word = next(4); let b: bool7 = f(2);
MissingReturn ==
    {Program(<<FunctionDecl("next", <<Param("x", "word")>>, "word",
                  <<ReturnStmt(<<Binary(X, "+", N(1))>>)>>),
               FunctionDecl("f", <<Param("x", "word")>>, "bool7",
                  <<IfStmt(Binary(X, ">", N(3)), <<ReturnStmt(<<Yes>>)>>, <<>>)>>)>>,
             <<LetStmt("x", "word", FnCall("next", <<N(4)>>)),
               LetStmt("b", "bool7", FnCall("f", <<N(2)>>))>>)}
=============================================================================
