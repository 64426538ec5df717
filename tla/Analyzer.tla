------------------------------ MODULE Analyzer ------------------------------
(***************************************************************************)
(* Which programs the semantic analyzer accepts (septa/semantic): types,   *)
(* scopes, top-level names, the signature of main.  It stops at the first  *)
(* SemanticError; which one it is and what it says is left out.  An error  *)
(* is the type "error" of an expression, or no scopes after a statement.   *)
(*                                                                         *)
(* Scopes are a sequence of functions from names to types, first the       *)
(* globals, then the function with its parameters, then nested blocks.     *)
(***************************************************************************)
EXTENDS Integers, Sequences

LOCAL INSTANCE SequencesExt
LOCAL INSTANCE FiniteSetsExt
LOCAL INSTANCE Functions
LOCAL INSTANCE TLC

\* type_from_name: addr is another name of word.
SeptaType(name) == IF name = "addr" THEN "word" ELSE name

Values == {"word", "bool7"}

\* Symbol tables: from the names of a sequence of declarations to types.
Symbols(decls) ==
    [name \in {d.name : d \in Range(decls)} |->
        SeptaType((CHOOSE d \in Range(decls) : d.name = name).type)]

NoSymbols == Symbols(<<>>)
Rejected  == <<>>

\* The innermost scope that has the name decides.
Lookup(scopes, name) ==
    LET having == {k \in DOMAIN scopes : name \in DOMAIN scopes[k]}
    IN  IF having = {} THEN "error" ELSE scopes[Max(having)][name]

Signature(types, ret) == [params |-> types, ret |-> ret]

BuiltinSignatures ==
    [name \in {"print", "printd", "halt"} |->
        Signature(IF name = "halt" THEN <<>> ELSE <<"word">>, "void")]

FunctionSignature(function) ==
    Signature([k \in DOMAIN function.params |-> SeptaType(function.params[k].type)],
              SeptaType(function.ret))

Signatures(p) ==
    BuiltinSignatures @@
    [name \in {function.name : function \in Range(p.functions)} |->
        FunctionSignature(CHOOSE function \in Range(p.functions) :
                             function.name = name)]

-----------------------------------------------------------------------------
(* Expressions.                                                            *)

UnaryType(op, type) ==
    CASE op = "-" /\ type = "word"  -> "word"
      [] op = "!" /\ type \in Values -> "bool7"
      [] OTHER -> "error"

BinaryType(left, op, right) ==
    CASE op \in {"+", "-"} /\ left = "word" /\ right = "word" -> "word"
      [] op \in {">", "<", ">=", "<="} /\ left = "word" /\ right = "word" -> "bool7"
      [] op \in {"==", "!="} /\ left = right /\ left \in Values -> "bool7"
      [] OTHER -> "error"

CallType(sigs, name, types) ==
    IF name \in DOMAIN sigs /\ sigs[name].params = types THEN sigs[name].ret
    ELSE "error"

RECURSIVE TypeOf(_, _, _)
TypeOf(sigs, scopes, e) ==
    CASE e.node = "number" -> "word"
      [] e.node = "bool"   -> "bool7"
      [] e.node = "ident"  -> Lookup(scopes, e.name)
      [] e.node = "store"  ->
            IF TypeOf(sigs, scopes, e.index) = "word" THEN "word" ELSE "error"
      [] e.node = "unary"  -> UnaryType(e.op, TypeOf(sigs, scopes, e.operand))
      [] e.node = "binary" -> BinaryType(TypeOf(sigs, scopes, e.left), e.op,
                                         TypeOf(sigs, scopes, e.right))
      [] e.node = "call"   ->
            CallType(sigs, e.name,
                     [k \in DOMAIN e.args |-> TypeOf(sigs, scopes, e.args[k])])

-----------------------------------------------------------------------------
(* Statements: the scopes after a statement, or Rejected.                  *)

RECURSIVE AfterStatement(_, _, _, _)

AfterStatements(sigs, ret, block, scopes) ==
    FoldLeft(LAMBDA acc, s : IF acc = Rejected THEN Rejected
                             ELSE AfterStatement(sigs, ret, s, acc),
             scopes, block)

\* Mutant: a nested block has no scope of its own.
AfterBlock_SameScope(sigs, ret, block, scopes) ==
    AfterStatements(sigs, ret, block, scopes)

\* The scope of a nested block ends with it.
AfterBlock(sigs, ret, block, scopes) ==
    IF AfterStatements(sigs, ret, block, Append(scopes, NoSymbols)) = Rejected
    THEN Rejected ELSE scopes

AfterBlocks(sigs, ret, blocks, scopes) ==
    FoldLeft(LAMBDA acc, block : IF acc = Rejected THEN Rejected
                                 ELSE AfterBlock(sigs, ret, block, acc),
             scopes, blocks)

\* No name is declared twice in one scope; other scopes may have it.
AfterLet(s, type, scopes) ==
    IF type = SeptaType(s.type) /\ s.name \notin DOMAIN Last(scopes)
    THEN [scopes EXCEPT ![Len(scopes)] = (s.name :> type) @@ @]
    ELSE Rejected

AfterCondition(sigs, ret, type, blocks, scopes) ==
    IF type \in Values THEN AfterBlocks(sigs, ret, blocks, scopes) ELSE Rejected

\* Mutant: the value may have another type than its target.
Assignable_AnyType(target, value) == target # "error" /\ value \in Values

Assignable(target, value) == target = value /\ target # "error"

Returns(ret, types) == types = IF ret = "void" THEN <<>> ELSE <<ret>>

AfterStatement(sigs, ret, s, scopes) ==
    CASE s.node = "let" -> AfterLet(s, TypeOf(sigs, scopes, s.value), scopes)
      [] s.node = "if" ->
            AfterCondition(sigs, ret, TypeOf(sigs, scopes, s.condition),
                           <<s.then>> \o s.else, scopes)
      [] s.node = "while" ->
            AfterCondition(sigs, ret, TypeOf(sigs, scopes, s.condition),
                           <<s.body>>, scopes)
      [] s.node = "assign" ->
            IF Assignable(TypeOf(sigs, scopes, s.target), TypeOf(sigs, scopes, s.value))
            THEN scopes ELSE Rejected
      [] s.node = "return" ->
            IF Returns(ret, [k \in DOMAIN s.value |-> TypeOf(sigs, scopes, s.value[k])])
            THEN scopes ELSE Rejected
      [] s.node = "expr" ->
            IF TypeOf(sigs, scopes, s.expr) # "error" THEN scopes ELSE Rejected

-----------------------------------------------------------------------------
(* Programs.                                                               *)

Names(decls) == [k \in DOMAIN decls |-> decls[k].name]

\* Functions, globals and builtins share one name space; so do parameters.
NamesDistinct(p) ==
    /\ IsInjective(Names(p.functions) \o Names(p.globals) \o
                   SetToSeq(DOMAIN BuiltinSignatures))
    /\ \A function \in Range(p.functions) : IsInjective(Names(function.params))

\* A global begins with a literal of its type.
GlobalsConstant(p) ==
    \A g \in Range(p.globals) :
        SeptaType(g.type) = CASE g.value.node = "number" -> "word"
                              [] g.value.node = "bool"   -> "bool7"
                              [] OTHER -> "error"

BodyAccepted(p, function) ==
    AfterStatements(Signatures(p), SeptaType(function.ret), function.body,
                    <<Symbols(p.globals), Symbols(function.params)>>) # Rejected

MainAccepted(sigs) ==
    "main" \in DOMAIN sigs /\ sigs["main"] = Signature(<<>>, "void")

Accepts(p) ==
    /\ NamesDistinct(p)
    /\ GlobalsConstant(p)
    /\ \A function \in Range(p.functions) : BodyAccepted(p, function)
    /\ MainAccepted(Signatures(p))
=============================================================================
