---------------------------- MODULE SyntaxTrees ----------------------------
(***************************************************************************)
(* SeptaLang syntax trees (septa/parser/ast.py): one constructor for each  *)
(* node.  An optional part is a sequence of length 0 or 1; locations are   *)
(* left out.  A type is one of "word", "bool7", "addr" and "void".         *)
(*                                                                         *)
(* A program is a record of its GlobalDecls, globals, and its              *)
(* FunctionDecls, functions, each in the order of the source.              *)
(***************************************************************************)
EXTENDS Integers, Sequences

NumberLiteral(v)          == [node |-> "number", value |-> v]
BoolLiteral(v)            == [node |-> "bool", truth |-> v]
Ident(name)               == [node |-> "ident", name |-> name]
StoreAccess(index)        == [node |-> "store", index |-> index]
UnaryExpr(op, operand)    == [node |-> "unary", op |-> op, operand |-> operand]
BinaryExpr(left, op, right) ==
    [node |-> "binary", left |-> left, op |-> op, right |-> right]
FnCall(name, args)        == [node |-> "call", name |-> name, args |-> args]

LetStmt(name, type, value) ==
    [node |-> "let", name |-> name, type |-> type, value |-> value]
AssignStmt(target, value) == [node |-> "assign", target |-> target, value |-> value]
IfStmt(condition, then, else) ==
    [node |-> "if", condition |-> condition, then |-> then, else |-> else]
WhileStmt(condition, body) ==
    [node |-> "while", condition |-> condition, body |-> body]
ReturnStmt(value)         == [node |-> "return", value |-> value]
ExprStmt(expr)            == [node |-> "expr", expr |-> expr]

FunctionDecl(name, params, ret, body) ==
    [name |-> name, params |-> params, ret |-> ret, body |-> body]
Param(name, type)         == [name |-> name, type |-> type]
GlobalDecl(name, type, value) ==
    [name |-> name, type |-> type, value |-> value]

Builtins == {"print", "printd", "halt"}
=============================================================================
