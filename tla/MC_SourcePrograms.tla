------------------------- MODULE MC_SourcePrograms -------------------------
(***************************************************************************)
(* Syntax trees for TextRun and SourceRun: programs with two globals and   *)
(* functions that read them, assign them, take up to three parameters, and *)
(* return a word or nothing; and a main that uses an expression of a large *)
(* set, or a statement of one, between a let and the output of its         *)
(* variables.                                                              *)
(***************************************************************************)
EXTENDS SyntaxTrees, Words

LOCAL INSTANCE Functions

Typed == INSTANCE MC_TypedPrograms

N(v) == NumberLiteral(v)
W(name) == Param(name, "word")
X == Ident("x")
G == Ident("g")
Plus(a, b) == BinaryExpr(a, "+", b)
Minus(a, b) == BinaryExpr(a, "-", b)
Do(name, args) == ExprStmt(FnCall(name, args))
Show(e) == Do("printd", <<e>>)

Globals == <<GlobalDecl("g", "word", N(4)), GlobalDecl("x", "word", N(Modulus + 5))>>

\* bump assigns a global, peek has no parameters, mix has three, note returns
\* early, relay calls two others; all use names that main uses too.
Functions ==
    <<FunctionDecl("bump", <<W("a")>>, "word",
         <<AssignStmt(G, Plus(G, Ident("a"))), ReturnStmt(<<G>>)>>),
      FunctionDecl("peek", <<>>, "word",
         <<LetStmt("x", "word", Minus(X, N(1))), ReturnStmt(<<Plus(X, G)>>)>>),
      FunctionDecl("mix", <<W("a"), W("b"), W("x")>>, "word",
         <<IfStmt(BinaryExpr(Ident("a"), ">", Ident("b")),
              <<ReturnStmt(<<Minus(Ident("a"), X)>>)>>, <<>>),
           ReturnStmt(<<Plus(Ident("b"), X)>>)>>),
      FunctionDecl("note", <<W("x")>>, "void",
         <<IfStmt(BinaryExpr(X, "==", G), <<ReturnStmt(<<>>)>>, <<>>),
           AssignStmt(StoreAccess(N(1)), X),
           Do("print", <<X>>)>>),
      FunctionDecl("relay", <<W("b")>>, "word",
         <<Do("note", <<Ident("b")>>), ReturnStmt(<<FnCall("bump", <<Ident("b")>>)>>)>>)>>

Main(body) ==
    [globals   |-> Globals,
     functions |-> <<FunctionDecl("main", <<>>, "void", body)>> \o Functions]

-----------------------------------------------------------------------------
(* Where lowering keeps the evaluation order.                              *)

RECURSIVE Within(_), Expressions(_), Assigned(_), RunBy(_, _)

\* An expression and all its parts.
Within(e) ==
    {e} \cup
    CASE e.node = "store"  -> Within(e.index)
      [] e.node = "unary"  -> Within(e.operand)
      [] e.node = "binary" -> Within(e.left) \cup Within(e.right)
      [] e.node = "call"   -> UNION {Within(e.args[k]) : k \in DOMAIN e.args}
      [] OTHER -> {}

\* The expressions of a block, and the names it assigns.
Expressions(block) ==
    UNION {CASE s.node = "let"    -> {s.value}
             [] s.node = "assign" -> {s.value, s.target}
             [] s.node = "if"     -> {s.condition} \cup Expressions(s.then) \cup
                                     UNION {Expressions(b) : b \in Range(s.else)}
             [] s.node = "while"  -> {s.condition} \cup Expressions(s.body)
             [] s.node = "return" -> Range(s.value)
             [] s.node = "expr"   -> {s.expr} : s \in Range(block)}

Assigned(block) ==
    UNION {CASE s.node = "assign" ->
                    IF s.target.node = "ident" THEN {s.target.name} ELSE {}
             [] s.node = "if"     -> Assigned(s.then) \cup
                                     UNION {Assigned(b) : b \in Range(s.else)}
             [] s.node = "while"  -> Assigned(s.body)
             [] OTHER -> {} : s \in Range(block)}

Calls(e) == {c \in Within(e) : c.node = "call" /\ c.name \notin Builtins}

\* The functions of p that run when e is evaluated; no function calls itself.
RunBy(p, e) ==
    LET called == {f \in Range(p.functions) : \E c \in Calls(e) : c.name = f.name}
    IN  called \cup
        UNION {RunBy(p, h) : h \in UNION {Expressions(f.body) : f \in called}}

MayAssign(p, e, variable) ==
    variable.node = "ident" /\ \E f \in RunBy(p, e) : variable.name \in Assigned(f.body)

PassesArguments(p, e) == \E f \in RunBy(p, e) : f.params # <<>>

\* An operand that is a variable is read when the operator is applied, and an
\* argument is in its register when the next one is evaluated: a program is
\* in order if no call comes between that could make a difference.
InOrder(p) ==
    \A f \in Range(p.functions) :
        /\ \A e \in UNION {Within(d) : d \in Expressions(f.body)} :
              /\ e.node = "binary" => ~MayAssign(p, e.right, e.left)
              /\ e.node = "call" =>
                    \A k \in DOMAIN e.args : k > 1 => ~PassesArguments(p, e.args[k])
        /\ \A s \in Range(f.body) :
              s.node = "assign" /\ s.target.node = "store"
                  => ~MayAssign(p, s.value, s.target.index)

-----------------------------------------------------------------------------
\* Operands, and expressions of two levels over them.
Operands ==
    {N(2), X, G, UnaryExpr("-", X), StoreAccess(N(0)), FnCall("peek", <<>>),
     FnCall("bump", <<X>>), FnCall("relay", <<N(3)>>), Plus(G, X)}

Words2 ==
    {BinaryExpr(a, op, b) : a \in Operands, op \in {"+", "-"}, b \in Operands} \cup
    {FnCall("mix", <<a, b, X>>) : a \in Operands, b \in Operands} \cup
    {FnCall("mix", <<G, X, b>>) : b \in Operands}

Truths ==
    {BinaryExpr(X, op, N(7)) : op \in {"==", "!=", ">", "<", ">=", "<="}} \cup
    {UnaryExpr("!", G), BoolLiteral(TRUE), BoolLiteral(FALSE), FnCall("peek", <<>>),
     BinaryExpr(UnaryExpr("!", X), "==", BoolLiteral(TRUE))}

\* let x = 7; store[0] = x; body; the variables.
Around(body) ==
    Main(<<LetStmt("x", "word", N(7)), AssignStmt(StoreAccess(N(0)), X)>> \o body \o
         <<Show(X), Show(G), Do("print", <<FnCall("peek", <<>>)>>)>>)

\* Inner scopes with an x of their own, which begins with the outer one.
Shadow(e) == <<LetStmt("x", "word", e), AssignStmt(G, Plus(X, G)), Show(X)>>

Conditionals ==
    {<<IfStmt(c, then, else)>> : c \in Truths,
        then \in {Shadow(Plus(X, N(1))), <<Do("halt", <<>>)>>, <<AssignStmt(X, N(0))>>},
        else \in {<<>>, <<Shadow(FnCall("bump", <<X>>))>>, <<<<ReturnStmt(<<>>)>>>>}}

\* Loops that count x down, with an x and a loop of their own.
CountDown(name) == AssignStmt(Ident(name), Minus(Ident(name), N(3)))

Loops ==
    {<<WhileStmt(BinaryExpr(X, ">", N(2)), inner \o <<CountDown("x")>>)>> :
        inner \in
          {<<>>,
           <<IfStmt(BoolLiteral(TRUE), Shadow(Plus(X, X)), <<>>)>>,
           <<Do("note", <<X>>), AssignStmt(G, FnCall("relay", <<X>>))>>,
           <<LetStmt("y", "word", X),
             WhileStmt(BinaryExpr(Ident("y"), ">=", N(3)),
                <<AssignStmt(StoreAccess(Ident("y")), FnCall("bump", <<Ident("y")>>)),
                  CountDown("y")>>),
             IfStmt(UnaryExpr("!", Ident("y")), <<ReturnStmt(<<>>)>>, <<>>)>>}}

Others ==
    {<<AssignStmt(StoreAccess(a), b), Show(StoreAccess(N(0)))>> :
        a \in {N(0), X, FnCall("bump", <<N(1)>>)}, b \in {G, FnCall("relay", <<X>>)}} \cup
    {<<Do(name, <<e>>)>> : name \in {"note", "relay", "print"}, e \in Operands} \cup
    {<<IfStmt(X, <<LetStmt("x", "word", Plus(X, N(1))),
                   IfStmt(X, <<LetStmt("x", "word", Plus(X, X)), AssignStmt(X, Plus(X, G)), Show(X)>>,
                          <<>>),
                   Show(X)>>, <<>>),
       IfStmt(X, <<LetStmt("x", "word", Minus(X, N(1))), Show(X)>>, <<>>)>>}

OrderedPrograms ==
    {p \in {Around(<<AssignStmt(X, e)>>) : e \in Words2} \cup
           {Around(body) : body \in Conditionals \cup Loops \cup Others} : InOrder(p)}

SourcePrograms == OrderedPrograms \cup Typed!TypedPrograms

VoidVariable == Typed!VoidVariable

-----------------------------------------------------------------------------
(* Programs out of order, one whose slots have one name, and a recursion.  *)

\* printd(mix(9, bump(2), 0)): bump's argument replaces the 9.
NestedArguments ==
    {Main(<<Show(FnCall("mix", <<N(9), FnCall("bump", <<N(2)>>), N(0)>>))>>)}

\* printd(g + bump(2)): g is read after the call that changes it.
LeftOperand == {Main(<<Show(Plus(G, FnCall("bump", <<N(2)>>)))>>)}

\* let x = 1; let x_1 = 2; if true { let x = 3; } printd(x_1)
OneSlotForTwo ==
    {Main(<<LetStmt("x", "word", N(1)), LetStmt("x_1", "word", N(2)),
            IfStmt(BoolLiteral(TRUE), <<LetStmt("x", "word", N(3))>>, <<>>),
            Show(Ident("x_1"))>>)}

\* fn sum(n: word) -> word { if n == 0 { return 0; } return sum(n - 1) + n; }
\* printd(sum(2)): the inner call changes n before the outer one adds it.
Recursion ==
    {[globals   |-> <<>>,
      functions |->
        <<FunctionDecl("sum", <<W("n")>>, "word",
             <<IfStmt(BinaryExpr(Ident("n"), "==", N(0)), <<ReturnStmt(<<N(0)>>)>>, <<>>),
               ReturnStmt(<<Plus(FnCall("sum", <<Minus(Ident("n"), N(1))>>),
                                 Ident("n"))>>)>>),
          FunctionDecl("main", <<>>, "void", <<Show(FnCall("sum", <<N(2)>>))>>)>>]}
=============================================================================
