--------------------------- MODULE SourceMeaning ---------------------------
(***************************************************************************)
(* What a SeptaLang program means: the nodes of septa/parser/ast.py with   *)
(* the scopes of septa/semantic/symbols.py and the evaluation order that   *)
(* septa/ir/lowering.py states, left to right for binary operators, the    *)
(* arguments of a call one after the other before the call.                *)
(*                                                                         *)
(* Expressions have values, not slots: an operand is what it was when it   *)
(* was evaluated.  A let makes a new variable and a call has variables of  *)
(* its own; neither knows of slots, registers or addresses.                *)
(*                                                                         *)
(* A state is a record of                                                  *)
(*   vars      the words of all variables made so far                      *)
(*   scope     the variables in scope: from names to positions in vars     *)
(*   globals   from the names of the globals to words                      *)
(*   store     store[]: the words of the addresses written so far          *)
(*   out       what was output                                             *)
(*   val       the value of the last expression                            *)
(*   patience  the loop iterations left                                    *)
(*   ctl       "go", or why evaluation stops: "return", "halt", "long"     *)
(*             (patience is over) or "undefined" (an address outside       *)
(*             store[], a function that ends without its value)            *)
(***************************************************************************)
EXTENDS Words, SyntaxTrees

LOCAL INSTANCE SequencesExt
LOCAL INSTANCE Functions
LOCAL INSTANCE TLC

CONSTANTS
    BoolTrue,     \* the word for true
    StoreSize,    \* store[] has the addresses 0 .. StoreSize - 1
    Patience      \* bound: loop iterations of one run

Nothing == [n \in {} |-> 0]

Truth(b) == IF b THEN BoolTrue ELSE 0

LiteralWord(e) == IF e.node = "bool" THEN Truth(e.truth) ELSE WrapWord(e.value)

Stop(s, why) == [s EXCEPT !.ctl = why]

\* The innermost variable with the name; a global if there is none.
ValueOf(s, name) ==
    IF name \in DOMAIN s.scope THEN s.vars[s.scope[name]] ELSE s.globals[name]

SetVariable(s, name, v) ==
    IF name \in DOMAIN s.scope THEN [s EXCEPT !.vars[s.scope[name]] = v]
                               ELSE [s EXCEPT !.globals[name] = v]

NewVariable(s, name, v) ==
    [s EXCEPT !.vars = Append(@, v), !.scope = (name :> Len(s.vars) + 1) @@ @]

StoreAt(s, a) == IF a \in DOMAIN s.store THEN s.store[a] ELSE 0

Operation(op, v, w) ==
    CASE op = "+"  -> WrapWord(v + w)  [] op = "-"  -> WrapWord(v - w)
      [] op = "==" -> Truth(v = w)     [] op = "!=" -> Truth(v # w)
      [] op = ">"  -> Truth(v > w)     [] op = "<"  -> Truth(v < w)
      [] op = ">=" -> Truth(v >= w)    [] op = "<=" -> Truth(v <= w)

FunctionNamed(p, name) ==
    CHOOSE function \in Range(p.functions) : function.name = name

-----------------------------------------------------------------------------
(* One operator for each kind of node takes program p, the node and a      *)
(* state to the state after it.                                            *)

RECURSIVE Evaluate(_, _, _), Execute(_, _, _)

Statements(p, block, s) ==
    FoldLeft(LAMBDA acc, statement : Execute(p, statement, acc), s, block)

\* The variables of a block end with it.
InBlock(p, block, s) == [Statements(p, block, s) EXCEPT !.scope = s.scope]

EvaluateStore(p, e, s) ==
    LET t == Evaluate(p, e.index, s)
    IN  IF t.ctl # "go" THEN t
        ELSE IF t.val \notin 0 .. StoreSize - 1 THEN Stop(t, "undefined")
        ELSE [t EXCEPT !.val = StoreAt(t, t.val)]

EvaluateUnary(p, e, s) ==
    LET t == Evaluate(p, e.operand, s)
    IN  [t EXCEPT !.val = IF e.op = "-" THEN WrapWord(-t.val) ELSE Truth(t.val = 0)]

EvaluateBinary(p, e, s) ==
    LET left  == Evaluate(p, e.left, s)
        right == Evaluate(p, e.right, left)
    IN  [right EXCEPT !.val = Operation(e.op, left.val, right.val)]

\* The state after all arguments, and their values.
EvaluateArgs(p, args, s) ==
    FoldLeft(LAMBDA acc, arg :
                LET t == Evaluate(p, arg, acc.after)
                IN  [after |-> t, words |-> Append(acc.words, t.val)],
             [after |-> s, words |-> <<>>], args)

\* A call begins with its parameters as the only variables in scope.
Entry(function, words, s) ==
    [s EXCEPT !.vars  = @ \o words,
              !.scope = [x \in {param.name : param \in Range(function.params)} |->
                 Len(s.vars) + (CHOOSE k \in DOMAIN function.params :
                                   function.params[k].name = x)]]

\* From the state s after the body back to the caller's scope.
Leave(function, scope, s) ==
    [s EXCEPT !.scope = scope,
              !.ctl = CASE s.ctl = "return" -> "go"
                        [] s.ctl = "go" /\ function.ret # "void" -> "undefined"
                        [] OTHER -> s.ctl]

EvaluateUserCall(p, function, words, s) ==
    Leave(function, s.scope, Statements(p, function.body, Entry(function, words, s)))

\* The call itself, in the state s after the arguments.
CallWith(p, e, words, s) ==
    IF s.ctl # "go" THEN s
    ELSE CASE e.name = "print"  -> [s EXCEPT !.out = Append(@, <<"PRINT", s.val>>)]
           [] e.name = "printd" -> [s EXCEPT !.out = Append(@, <<"PRINTD", s.val>>)]
           [] e.name = "halt"   -> Stop(s, "halt")
           [] OTHER -> EvaluateUserCall(p, FunctionNamed(p, e.name), words, s)

EvaluateCall(p, e, s) ==
    LET args == EvaluateArgs(p, e.args, s)
    IN  CallWith(p, e, args.words, args.after)

Evaluate(p, e, s) ==
    IF s.ctl # "go" THEN s
    ELSE CASE e.node \in {"number", "bool"} -> [s EXCEPT !.val = LiteralWord(e)]
           [] e.node = "ident"  -> [s EXCEPT !.val = ValueOf(s, e.name)]
           [] e.node = "store"  -> EvaluateStore(p, e, s)
           [] e.node = "unary"  -> EvaluateUnary(p, e, s)
           [] e.node = "binary" -> EvaluateBinary(p, e, s)
           [] e.node = "call"   -> EvaluateCall(p, e, s)

ExecuteAssign(p, st, s) ==
    IF st.target.node = "ident"
    THEN LET t == Evaluate(p, st.value, s)
         IN  IF t.ctl # "go" THEN t ELSE SetVariable(t, st.target.name, t.val)
    ELSE LET index == Evaluate(p, st.target.index, s)
             t     == Evaluate(p, st.value, index)
         IN  IF t.ctl # "go" THEN t
             ELSE IF index.val \notin 0 .. StoreSize - 1 THEN Stop(t, "undefined")
             ELSE [t EXCEPT !.store = (index.val :> t.val) @@ @]

ExecuteIf(p, st, s) ==
    LET t == Evaluate(p, st.condition, s)
    IN  IF t.ctl # "go" THEN t
        ELSE IF t.val # 0 THEN InBlock(p, st.then, t)
        ELSE IF st.else # <<>> THEN InBlock(p, st.else[1], t)
        ELSE t

ExecuteWhile(p, st, s) ==
    LET t == Evaluate(p, st.condition, s)
    IN  IF t.ctl # "go" \/ t.val = 0 THEN t
        ELSE IF t.patience = 0 THEN Stop(t, "long")
        ELSE Execute(p, st, InBlock(p, st.body, [t EXCEPT !.patience = @ - 1]))

ExecuteReturn(p, st, s) ==
    IF st.value = <<>> THEN Stop(s, "return")
    ELSE LET t == Evaluate(p, st.value[1], s)
         IN  IF t.ctl # "go" THEN t ELSE Stop(t, "return")

Execute(p, st, s) ==
    IF s.ctl # "go" THEN s
    ELSE CASE st.node = "let" ->
                LET t == Evaluate(p, st.value, s)
                IN  IF t.ctl # "go" THEN t ELSE NewVariable(t, st.name, t.val)
           [] st.node = "assign" -> ExecuteAssign(p, st, s)
           [] st.node = "if"     -> ExecuteIf(p, st, s)
           [] st.node = "while"  -> ExecuteWhile(p, st, s)
           [] st.node = "return" -> ExecuteReturn(p, st, s)
           [] st.node = "expr"   -> Evaluate(p, st.expr, s)

-----------------------------------------------------------------------------
\* The state in which a program ends: globals with their initial values, a
\* call of main.  It has ended well if ctl is "go" or "halt".
Meaning(p) ==
    Evaluate(p, FnCall("main", <<>>),
        [vars |-> <<>>, scope |-> Nothing,
         globals |-> [x \in {p.globals[k].name : k \in DOMAIN p.globals} |->
            LiteralWord((CHOOSE g \in Range(p.globals) : g.name = x).value)],
         store |-> Nothing, out |-> <<>>, val |-> 0,
         patience |-> Patience, ctl |-> "go"])

Ends(meaning) == meaning.ctl \in {"go", "halt"}
=============================================================================
