------------------------------ MODULE Lowering ------------------------------
(***************************************************************************)
(* From a syntax tree to an IR program (septa/ir/lowering.py).             *)
(*                                                                         *)
(* _FnContext is a record that every step takes and returns:               *)
(*   code      the instructions so far                                     *)
(*   temps     the number of temporaries so far                            *)
(*   labels    the number of labels so far                                 *)
(*   frames    the open scopes, the innermost last: functions from names   *)
(*             to slots                                                    *)
(*   locals    the slots of the variables so far                           *)
(*   counters  how often a name has been declared                          *)
(*   outer     the names that were looked for among the globals            *)
(*   slot      what _lower_expr returned                                   *)
(***************************************************************************)
EXTENDS IRPrograms, SyntaxTrees

LOCAL INSTANCE SequencesExt
LOCAL INSTANCE FiniteSetsExt
LOCAL INSTANCE Functions
LOCAL INSTANCE TLC

NoNames == [n \in {} |-> 0]

ParamSlot(name)  == "param:" \o name
GlobalSlot(name) == "global:" \o name

\* The context of a function whose parameters have just been defined.
Context(params) ==
    [code |-> <<>>, temps |-> 0, labels |-> 0,
     frames |-> <<[x \in {params[k].name : k \in DOMAIN params} |-> ParamSlot(x)]>>,
     locals |-> <<>>, counters |-> NoNames, outer |-> {}, slot |-> ""]

Emit(c, i) == [c EXCEPT !.code = Append(@, i)]

IRLabel(n) == "L" \o ToString(n)

Labelled(n)          == IRInstr("LABEL", "", "", "", 0, IRLabel(n))
JumpTo(n)            == IRInstr("JUMP", "", "", "", 0, IRLabel(n))
JumpToIfZero(src, n) == IRInstr("JUMP_Z", "", src, "", 0, IRLabel(n))
CopyTo(dst, src)     == IRInstr("COPY", dst, src, "", 0, "")

\* An instruction whose result goes to a new temporary.
ToNewTemp(c, op, src, src2, imm, label) ==
    LET tmp == TempSlot(c.temps)
    IN  [Emit(c, IRInstr(op, tmp, src, src2, imm, label)) EXCEPT
            !.temps = @ + 1, !.slot = tmp]

\* A name declared for the nth time, n > 1, has a slot with suffix n - 1.
DefineLocal(c, name) ==
    LET n    == IF name \in DOMAIN c.counters THEN c.counters[name] ELSE 0
        slot == "local:" \o name \o (IF n = 0 THEN "" ELSE "_" \o ToString(n))
    IN  [c EXCEPT !.counters = (name :> n + 1) @@ @,
                  !.frames[Len(c.frames)] = (name :> slot) @@ @,
                  !.locals = Append(@, slot),
                  !.slot = slot]

\* The innermost scope that has the name; a global if none has.
Resolve(c, name) ==
    LET having == {k \in DOMAIN c.frames : name \in DOMAIN c.frames[k]}
    IN  IF having = {} THEN GlobalSlot(name) ELSE c.frames[Max(having)][name]

\* _resolve, with a note of what it did not find in the scopes.
Refer(c, name) ==
    [c EXCEPT !.slot  = Resolve(c, name),
              !.outer = IF \E k \in DOMAIN c.frames : name \in DOMAIN c.frames[k]
                        THEN @ ELSE @ \cup {name}]

BinaryOp(op) ==
    CASE op = "+"  -> "ADD"    [] op = "-"  -> "SUB"
      [] op = "==" -> "CMP_EQ" [] op = "!=" -> "CMP_NE"
      [] op = ">"  -> "CMP_GT" [] op = "<"  -> "CMP_LT"
      [] op = ">=" -> "CMP_GE" [] op = "<=" -> "CMP_LE"

-----------------------------------------------------------------------------
(* Expressions.  rets is the function of return types.                     *)

RECURSIVE LowerExpr(_, _, _)

Literal(e) ==
    IF e.node = "number" THEN e.value ELSE IF e.truth THEN BoolTrue ELSE 0

LowerUnary(rets, e, c) ==
    LET operand == LowerExpr(rets, e.operand, c)
    IN  ToNewTemp(operand, IF e.op = "-" THEN "NEG" ELSE "NOT",
                  operand.slot, "", 0, "")

\* The slot of the left operand is read only after the right one is lowered.
LowerBinary(rets, e, c) ==
    LET left  == LowerExpr(rets, e.left, c)
        right == LowerExpr(rets, e.right, left)
    IN  ToNewTemp(right, BinaryOp(e.op), left.slot, right.slot, 0, "")

\* Each argument goes to its register before the next one is evaluated.
LowerArgs(rets, args, c) ==
    FoldLeft(LAMBDA acc, k :
                LET arg == LowerExpr(rets, args[k], acc)
                IN  Emit(arg, IRInstr("ARG", "", arg.slot, "", k - 1, "")),
             c, [k \in DOMAIN args |-> k])

LowerPrint(rets, e, c) ==
    LET arg == LowerExpr(rets, e.args[1], c)
        op  == IF e.name = "print" THEN "PRINT" ELSE "PRINTD"
    IN  [Emit(arg, IRInstr(op, "", arg.slot, "", 0, "")) EXCEPT !.slot = ""]

\* After the arguments: a result, if there is one, goes to a temporary.
CallUser(rets, name, c) ==
    IF name \in DOMAIN rets /\ rets[name] # "void"
    THEN ToNewTemp(c, "CALL", "", "", 0, name)
    ELSE [Emit(c, IRInstr("CALL", "", "", "", 0, name)) EXCEPT !.slot = ""]

LowerCall(rets, e, c) ==
    CASE e.name \in {"print", "printd"} -> LowerPrint(rets, e, c)
      [] e.name = "halt" ->
            [Emit(c, IRInstr("HALT", "", "", "", 0, "")) EXCEPT !.slot = ""]
      [] OTHER -> CallUser(rets, e.name, LowerArgs(rets, e.args, c))

LowerExpr(rets, e, c) ==
    CASE e.node \in {"number", "bool"} ->
            ToNewTemp(c, "CONST", "", "", Literal(e), "")
      [] e.node = "ident"  -> Refer(c, e.name)
      [] e.node = "store"  ->
            LET index == LowerExpr(rets, e.index, c)
            IN  ToNewTemp(index, "MEM_LOAD", index.slot, "", 0, "")
      [] e.node = "unary"  -> LowerUnary(rets, e, c)
      [] e.node = "binary" -> LowerBinary(rets, e, c)
      [] e.node = "call"   -> LowerCall(rets, e, c)

-----------------------------------------------------------------------------
(* Statements.                                                             *)

RECURSIVE LowerStatement(_, _, _)

\* The variable is not in scope in its own initial value.
LowerLet(rets, s, c) ==
    LET value == LowerExpr(rets, s.value, c)
        local == DefineLocal(value, s.name)
    IN  Emit(local, CopyTo(local.slot, value.slot))

LowerAssign(rets, s, c) ==
    IF s.target.node = "ident"
    THEN LET value == LowerExpr(rets, s.value, Refer(c, s.target.name))
         IN  Emit(value, CopyTo(Resolve(c, s.target.name), value.slot))
    ELSE LET index == LowerExpr(rets, s.target.index, c)
             value == LowerExpr(rets, s.value, index)
         IN  Emit(value, IRInstr("MEM_STORE", index.slot, value.slot, "", 0, ""))

\* Mutant: the scope of a block is not closed.
LowerBlock_Open(rets, block, c) ==
    FoldLeft(LAMBDA acc, s : LowerStatement(rets, s, acc), c, block)

LowerBlock(rets, block, c) ==
    LET inner == FoldLeft(LAMBDA acc, s : LowerStatement(rets, s, acc),
                          [c EXCEPT !.frames = Append(@, NoNames)], block)
    IN  [inner EXCEPT !.frames = Front(@)]

\* After the condition: both branches, or one.
LowerBranches(rets, s, c) ==
    LET n    == c.labels
        then == LowerBlock(rets, s.then, Emit([c EXCEPT !.labels = n + 2],
                                              JumpToIfZero(c.slot, n)))
        else == LowerBlock(rets, s.else[1],
                           Emit(Emit(then, JumpTo(n + 1)), Labelled(n)))
    IN  Emit(else, Labelled(n + 1))

LowerBranch(rets, s, c) ==
    LET n    == c.labels
        then == LowerBlock(rets, s.then, Emit([c EXCEPT !.labels = n + 1],
                                              JumpToIfZero(c.slot, n)))
    IN  Emit(then, Labelled(n))

LowerIf(rets, s, c) ==
    IF s.else # <<>> THEN LowerBranches(rets, s, LowerExpr(rets, s.condition, c))
                     ELSE LowerBranch(rets, s, LowerExpr(rets, s.condition, c))

\* Mutant: the condition is evaluated once.
LowerWhile_ConditionOnce(rets, s, c) ==
    LET n    == c.labels
        cond == LowerExpr(rets, s.condition, [c EXCEPT !.labels = n + 2])
        head == Emit(cond, Labelled(n))
        jump == Emit(head, JumpToIfZero(cond.slot, n + 1))
        body == LowerBlock(rets, s.body, jump)
    IN  Emit(Emit(body, JumpTo(n)), Labelled(n + 1))

LowerWhile(rets, s, c) ==
    LET n    == c.labels
        head == Emit([c EXCEPT !.labels = n + 2], Labelled(n))
        cond == LowerExpr(rets, s.condition, head)
        jump == Emit(cond, JumpToIfZero(cond.slot, n + 1))
        body == LowerBlock(rets, s.body, jump)
    IN  Emit(Emit(body, JumpTo(n)), Labelled(n + 1))

LowerReturn(rets, s, c) ==
    IF s.value = <<>>
    THEN Emit(c, IRInstr("RETURN_VOID", "", "", "", 0, ""))
    ELSE LET value == LowerExpr(rets, s.value[1], c)
         IN  Emit(value, IRInstr("RETURN", "", value.slot, "", 0, ""))

LowerStatement(rets, s, c) ==
    CASE s.node = "let"    -> LowerLet(rets, s, c)
      [] s.node = "assign" -> LowerAssign(rets, s, c)
      [] s.node = "if"     -> LowerIf(rets, s, c)
      [] s.node = "while"  -> LowerWhile(rets, s, c)
      [] s.node = "return" -> LowerReturn(rets, s, c)
      [] s.node = "expr"   -> LowerExpr(rets, s.expr, c)

-----------------------------------------------------------------------------
(* Functions and programs.                                                 *)

\* Mutant: a return is added to an empty body only.
IRFunction_Falls(function, c) ==
    [name   |-> function.name,
     params |-> [k \in DOMAIN function.params |-> ParamSlot(function.params[k].name)],
     locals |-> c.locals,
     temps  |-> c.temps,
     body   |-> IF c.code # <<>> THEN c.code
                ELSE Append(c.code, IRInstr("RETURN_VOID", "", "", "", 0, ""))]

\* The function whose statements gave context c.
IRFunction(function, c) ==
    [name   |-> function.name,
     params |-> [k \in DOMAIN function.params |-> ParamSlot(function.params[k].name)],
     locals |-> c.locals,
     temps  |-> c.temps,
     body   |-> IF EndsWithReturn(c.code) THEN c.code
                ELSE Append(c.code, IRInstr("RETURN_VOID", "", "", "", 0, ""))]

LowerBody(rets, function) ==
    FoldLeft(LAMBDA acc, s : LowerStatement(rets, s, acc),
             Context(function.params), function.body)

LowerFunction(rets, function) == IRFunction(function, LowerBody(rets, function))

ReturnTypes(p) ==
    [name \in {p.functions[f].name : f \in DOMAIN p.functions} |->
        (CHOOSE function \in Range(p.functions) : function.name = name).ret]

Lower(p) ==
    [globals   |-> [k \in DOMAIN p.globals |->
                       [slot |-> GlobalSlot(p.globals[k].name),
                        init |-> Literal(p.globals[k].value)]],
     functions |-> [f \in DOMAIN p.functions |->
                       LowerFunction(ReturnTypes(p), p.functions[f])]]

\* lower raises CodegenError: a name that is neither in scope nor a global, or
\* a global that does not begin with a literal.
LoweringFails(p) ==
    \/ \E function \in Range(p.functions) :
          ~ LowerBody(ReturnTypes(p), function).outer
                \subseteq {g.name : g \in Range(p.globals)}
    \/ \E g \in Range(p.globals) : g.value.node \notin {"number", "bool"}
=============================================================================
