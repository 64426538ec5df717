------------------------------- MODULE Parser -------------------------------
(***************************************************************************)
(* The recursive-descent parser of SeptaLang (septa/parser/parser.py).     *)
(* Each method is an operator from the position it is called at to what it *)
(* returns and the position after it; position 0 means that ParserError    *)
(* was raised, and nothing goes on from there.  parse itself is the state  *)
(* machine, one step for each declaration.                                 *)
(*                                                                         *)
(* A token is a record of its type and its value: the name, the operator   *)
(* or the number it stands for.  Locations are left out.                   *)
(***************************************************************************)
EXTENDS SyntaxTrees

CONSTANTS
    TokenLists,     \* families of what is parsed: a sequence of sets, no EOF tokens
    MaxLiteral      \* the largest number a literal may stand for

VARIABLES given, at, declarations, parsing

parseVars == <<given, at, declarations, parsing>>

Result(node, next) == [node |-> node, pos |-> next]

Error == Result("error", 0)

Type(p) ==
    CASE p = 0 -> "error"
      [] p \in DOMAIN given -> given[p].type
      [] OTHER -> "EOF"

Value(p) == given[p].value

Expect(type, p) == IF Type(p) = type THEN p + 1 ELSE 0

-----------------------------------------------------------------------------
(* Expressions.  Equality, comparison and term are levels 1 to 3.          *)

OperatorsOf ==
    <<{"EQ", "NEQ"}, {"GT", "LT", "GTE", "LTE"}, {"PLUS", "MINUS"}>>

UnaryOperators == {"MINUS", "BANG"}

RECURSIVE ParseLevel(_, _), ParseMore(_, _), ParseArguments(_, _)

ParseExpr(p) == ParseLevel(1, p)

\* Mutant: the right operand is all that follows at this level.
ParseMore_RightAssociative(level, left) ==
    IF Type(left.pos) \in OperatorsOf[level]
    THEN LET right == ParseLevel(level, left.pos + 1)
         IN  Result(BinaryExpr(left.node, Value(left.pos), right.node), right.pos)
    ELSE left

\* The loop of a level: operators associate to the left.
ParseMore(level, left) ==
    IF Type(left.pos) \in OperatorsOf[level]
    THEN LET right == ParseLevel(level + 1, left.pos + 1)
         IN  ParseMore(level, Result(BinaryExpr(left.node, Value(left.pos), right.node),
                                     right.pos))
    ELSE left

\* One argument, and the others after commas.
ParseArguments(args, p) ==
    LET arg == ParseExpr(p)
        all == Append(args, arg.node)
    IN  IF Type(arg.pos) = "COMMA" THEN ParseArguments(all, arg.pos + 1)
        ELSE Result(all, arg.pos)

ParseNumber(p) ==
    IF Value(p) <= MaxLiteral THEN Result(NumberLiteral(Value(p)), p + 1) ELSE Error

ParseStore(p) ==
    LET index == ParseExpr(Expect("LBRACKET", p + 1))
    IN  Result(StoreAccess(index.node), Expect("RBRACKET", index.pos))

ParseName(p) ==
    LET args == IF Type(p + 2) = "RPAREN" THEN Result(<<>>, p + 2)
                ELSE ParseArguments(<<>>, p + 2)
    IN  IF Type(p + 1) = "LPAREN"
        THEN Result(FnCall(Value(p), args.node), Expect("RPAREN", args.pos))
        ELSE Result(Ident(Value(p)), p + 1)

ParseGroup(p) ==
    LET expr == ParseExpr(p + 1)
    IN  Result(expr.node, Expect("RPAREN", expr.pos))

ParsePrimary(p) ==
    CASE Type(p) \in {"NUMBER", "DECIMAL_NUMBER"} -> ParseNumber(p)
      [] Type(p) \in {"TRUE", "FALSE"} -> Result(BoolLiteral(Type(p) = "TRUE"), p + 1)
      [] Type(p) = "STORE"  -> ParseStore(p)
      [] Type(p) = "IDENT"  -> ParseName(p)
      [] Type(p) = "LPAREN" -> ParseGroup(p)
      [] OTHER -> Error

ParseUnary(p) ==
    LET operand == ParseLevel(4, p + 1)
    IN  IF Type(p) \in UnaryOperators
        THEN Result(UnaryExpr(Value(p), operand.node), operand.pos)
        ELSE ParsePrimary(p)

ParseLevel(level, p) ==
    IF level = 4 THEN ParseUnary(p) ELSE ParseMore(level, ParseLevel(level + 1, p))

-----------------------------------------------------------------------------
(* Statements and declarations.                                            *)

Types == {"WORD", "BOOL7", "ADDR", "VOID"}

ParseType(p) == IF Type(p) \in Types THEN Result(Value(p), p + 1) ELSE Error

\* A name, a colon and a type.
ParseParam(p) ==
    LET type == ParseType(Expect("COLON", Expect("IDENT", p)))
    IN  IF type = Error THEN Error ELSE Result(Param(Value(p), type.node), type.pos)

RECURSIVE ParseParams(_, _), ParseStatements(_, _)

ParseParams(params, p) ==
    LET param == ParseParam(p)
        all   == Append(params, param.node)
    IN  IF Type(param.pos) = "COMMA" THEN ParseParams(all, param.pos + 1)
        ELSE Result(all, param.pos)

\* The value after a token of this type, and the semicolon.
ParseValue(type, p) ==
    LET value == ParseExpr(Expect(type, p))
    IN  Result(value.node, Expect("SEMICOLON", value.pos))

\* let, as a statement and as a declaration.
ParseLet(p) ==
    LET param == ParseParam(Expect("LET", p))
        value == ParseValue("ASSIGN", param.pos)
    IN  IF value.pos = 0 THEN Error
        ELSE Result(LetStmt(param.node.name, param.node.type, value.node), value.pos)

ParseBlock(p) ==
    LET statements == ParseStatements(<<>>, Expect("LBRACE", p))
    IN  Result(statements.node, Expect("RBRACE", statements.pos))

ParseElse(p) ==
    LET block == ParseBlock(p + 1)
    IN  IF Type(p) = "ELSE" THEN Result(<<block.node>>, block.pos) ELSE Result(<<>>, p)

ParseIf(p) ==
    LET condition == ParseExpr(p + 1)
        then == ParseBlock(condition.pos)
        else == ParseElse(then.pos)
    IN  Result(IfStmt(condition.node, then.node, else.node), else.pos)

ParseWhile(p) ==
    LET condition == ParseExpr(p + 1)
        body == ParseBlock(condition.pos)
    IN  Result(WhileStmt(condition.node, body.node), body.pos)

ParseReturn(p) ==
    LET value == ParseValue("RETURN", p)
    IN  IF Type(p + 1) = "SEMICOLON" THEN Result(ReturnStmt(<<>>), p + 2)
        ELSE Result(ReturnStmt(<<value.node>>), value.pos)

\* The target has been parsed as an expression.
Assignable(expr) == expr.node \in {"ident", "store"}

ParseAssignOrExpr(p) ==
    LET expr  == ParseExpr(p)
        value == ParseValue("ASSIGN", expr.pos)
    IN  IF Type(expr.pos) # "ASSIGN"
        THEN Result(ExprStmt(expr.node), Expect("SEMICOLON", expr.pos))
        ELSE IF Assignable(expr.node)
        THEN Result(AssignStmt(expr.node, value.node), value.pos)
        ELSE Error

ParseStatement(p) ==
    CASE Type(p) = "LET"    -> ParseLet(p)
      [] Type(p) = "IF"     -> ParseIf(p)
      [] Type(p) = "WHILE"  -> ParseWhile(p)
      [] Type(p) = "RETURN" -> ParseReturn(p)
      [] OTHER              -> ParseAssignOrExpr(p)

\* The loop of a block, to its brace or the end of the tokens.
ParseStatements(statements, p) ==
    LET statement == ParseStatement(p)
    IN  IF Type(p) \in {"RBRACE", "EOF", "error"} THEN Result(statements, p)
        ELSE ParseStatements(Append(statements, statement.node), statement.pos)

ParseFunctionDecl(p) ==
    LET open   == Expect("LPAREN", Expect("IDENT", Expect("FN", p)))
        params == IF Type(open) = "RPAREN" THEN Result(<<>>, open)
                  ELSE ParseParams(<<>>, open)
        ret    == ParseType(Expect("ARROW", Expect("RPAREN", params.pos)))
        body   == ParseBlock(ret.pos)
    IN  IF body.pos = 0 THEN Error
        ELSE Result(FunctionDecl(Value(p + 1), params.node, ret.node, body.node), body.pos)

ParseGlobalDecl(p) ==
    LET let == ParseLet(p)
    IN  IF let.pos = 0 THEN Error
        ELSE Result(GlobalDecl(let.node.name, let.node.type, let.node.value), let.pos)

-----------------------------------------------------------------------------
ParseInit ==
    /\ \E k \in DOMAIN TokenLists : given \in TokenLists[k]
    /\ at = 1 /\ declarations = <<>> /\ parsing = "parsing"

Declare(parsed) ==
    /\ IF parsed.pos = 0
       THEN parsing' = "error" /\ UNCHANGED <<at, declarations>>
       ELSE /\ declarations' = Append(declarations, parsed.node)
            /\ at' = parsed.pos
            /\ UNCHANGED parsing
    /\ UNCHANGED given

ParseFunction == parsing = "parsing" /\ Type(at) = "FN" /\ Declare(ParseFunctionDecl(at))

ParseGlobal == parsing = "parsing" /\ Type(at) = "LET" /\ Declare(ParseGlobalDecl(at))

RefuseDeclaration ==
    /\ parsing = "parsing" /\ Type(at) \notin {"FN", "LET", "EOF"}
    /\ parsing' = "error"
    /\ UNCHANGED <<given, at, declarations>>

Finish ==
    /\ parsing = "parsing" /\ Type(at) = "EOF"
    /\ parsing' = "done"
    /\ UNCHANGED <<given, at, declarations>>

ParseNext == ParseFunction \/ ParseGlobal \/ RefuseDeclaration \/ Finish
=============================================================================
