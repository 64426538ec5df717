----------------------------- MODULE IRPrograms -----------------------------
(***************************************************************************)
(* The shape of an IR program (septa/ir/ir.py).                            *)
(*                                                                         *)
(* A program is a record of                                                *)
(*   globals    a sequence of records [slot, init]                         *)
(*   functions  a sequence of records [name, params, locals, temps, body]: *)
(*              params and locals are sequences of slots, temps a number,  *)
(*              body a sequence of IR instructions.                        *)
(* A slot is a string; all that matters of it is whether it is a global's  *)
(* and whether it equals another.                                          *)
(***************************************************************************)
EXTENDS Integers, Sequences, TLC

CONSTANT BoolTrue     \* the word for true: RadixConfig.bool_true

\* The fields of an instruction that its opcode does not use hold "" or 0.
IRInstr(op, dst, src, src2, imm, label) ==
    [op |-> op, dst |-> dst, src |-> src, src2 |-> src2, imm |-> imm, label |-> label]

Comparisons == {"CMP_EQ", "CMP_NE", "CMP_GT", "CMP_LT", "CMP_GE", "CMP_LE"}

IROps == Comparisons \cup
    {"CONST", "COPY", "ADD", "SUB", "NEG", "NOT", "MEM_LOAD", "MEM_STORE",
     "LABEL", "JUMP", "JUMP_Z", "JUMP_NZ", "ARG", "CALL", "RETURN", "RETURN_VOID",
     "PRINT", "PRINTD", "HALT"}

IRInstructions == [op : IROps, dst : STRING, src : STRING, src2 : STRING,
                   imm : Int, label : STRING]

IRFunctions == [name : STRING, params : Seq(STRING), locals : Seq(STRING),
                temps : Nat, body : Seq(IRInstructions)]

EndsWithReturn(body) ==
    body # <<>> /\ body[Len(body)].op \in {"RETURN", "RETURN_VOID"}

TempSlot(n) == "temp:" \o ToString(n)

GlobalSlots(p) == {p.globals[k].slot : k \in DOMAIN p.globals}

\* The slots of a function: its parameters, its locals, its temporaries.
Block(function) ==
    function.params \o function.locals
        \o [n \in 1 .. function.temps |-> TempSlot(n - 1)]

\* A slot as one function sees it: globals are shared, every other slot
\* belongs to its function.  Globals have owner 0.
Owned(p, f, slot) == IF slot \in GlobalSlots(p) THEN <<0, slot>> ELSE <<f, slot>>

SlotNames(p) ==
    ({0} \X GlobalSlots(p)) \cup
    UNION {{<<f, Block(p.functions[f])[k]>> : k \in DOMAIN Block(p.functions[f])} :
              f \in DOMAIN p.functions}

\* The slots an instruction of function number f can name.
SlotsOf(p, f) ==
    GlobalSlots(p) \cup
    {Block(p.functions[f])[k] : k \in DOMAIN Block(p.functions[f])}

\* The operations that write the slot dst; CALL does so if it has one.
WritesDst == Comparisons \cup {"CONST", "COPY", "ADD", "SUB", "NEG", "NOT", "MEM_LOAD"}

JumpOps == {"JUMP", "JUMP_Z", "JUMP_NZ"}

\* Every name leads somewhere: a call to a function, a jump to a label of its
\* function; there is a main.
Resolved(p) ==
    /\ \E f \in DOMAIN p.functions : p.functions[f].name = "main"
    /\ \A f \in DOMAIN p.functions :
          LET body == p.functions[f].body
          IN  \A k \in DOMAIN body :
                 /\ body[k].op = "CALL" =>
                       \E g \in DOMAIN p.functions : p.functions[g].name = body[k].label
                 /\ body[k].op \in JumpOps =>
                       \E m \in DOMAIN body :
                          body[m].op = "LABEL" /\ body[m].label = body[k].label

\* What lowering guarantees of every program it produces: control leaves a
\* function by a return, not by its end; an instruction names slots of its
\* function, and those that are its own are not globals'; no two globals are
\* one; and every name leads somewhere.
WellFormed(p) ==
    /\ p.globals \in Seq([slot : STRING, init : Int])
    /\ \A j, k \in DOMAIN p.globals : p.globals[j].slot = p.globals[k].slot => j = k
    /\ p.functions \in Seq(IRFunctions)
    /\ \A f \in DOMAIN p.functions :
          /\ EndsWithReturn(p.functions[f].body)
          /\ \A k \in DOMAIN Block(p.functions[f]) :
                Block(p.functions[f])[k] \notin GlobalSlots(p)
          /\ \A k \in DOMAIN p.functions[f].body :
                LET i == p.functions[f].body[k]
                IN  /\ {i.dst, i.src, i.src2} \subseteq SlotsOf(p, f) \cup {""}
                    /\ i.op \in WritesDst => i.dst # ""
    /\ Resolved(p)
=============================================================================
