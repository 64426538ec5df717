------------------------------ MODULE Codegen ------------------------------
(***************************************************************************)
(* From an IR program to assembly (septa/codegen/codegen.py).              *)
(*                                                                         *)
(* A line is a label or an instruction whose operands are numbers, except  *)
(* for the label a branch names.  Each line remembers where it comes from: *)
(* it is the nth of IR instruction ip of function fn, of its prologue if   *)
(* ip is 0, or of _init if fn is 0.  The code itself has no such record,   *)
(* the refinement of CompiledRun reads it.                                 *)
(***************************************************************************)
EXTENDS AddressMap, SequencesExt

Label(name) == [kind |-> "label", name |-> name]

Asm(op, a, b, c) ==
    [kind |-> "instr", op |-> op, a |-> a, b |-> b, c |-> c, label |-> ""]

AsmTo(op, label) ==
    [kind |-> "instr", op |-> op, a |-> 0, b |-> 0, c |-> 0, label |-> label]

\* Mutant: >= jumps on G alone.
JumpIf_StrictGE == [CMP_EQ |-> "JZ", CMP_NE |-> "JNZ", CMP_GT |-> "JG",
                    CMP_LT |-> "JL", CMP_GE |-> "JG", CMP_LE |-> "JLE"]

JumpIf == [CMP_EQ |-> "JZ", CMP_NE |-> "JNZ", CMP_GT |-> "JG",
           CMP_LT |-> "JL", CMP_GE |-> "JGE", CMP_LE |-> "JLE"]

\* The operations that load src, src2 or, as an address, dst.
LoadsSrc == {"COPY", "ADD", "SUB", "NEG", "NOT", "MEM_LOAD", "MEM_STORE", "JUMP_Z",
             "JUMP_NZ", "ARG", "RETURN", "PRINT", "PRINTD"} \cup Comparisons

NoAddress(i) ==
    \/ i.op \in LoadsSrc /\ i.src = ""
    \/ i.op \in {"ADD", "SUB"} \cup Comparisons /\ i.src2 = ""
    \/ i.op = "MEM_STORE" /\ i.dst = ""

\* codegen raises CodegenError, for parameters and arguments travel in R1 to
\* R3, or KeyError, for a void expression has no slot.
CodegenFails(p) ==
    \E f \in DOMAIN p.functions :
        \/ Len(p.functions[f].params) > 3
        \/ \E k \in DOMAIN p.functions[f].body :
              LET i == p.functions[f].body[k]
              IN  NoAddress(i) \/ (i.op = "ARG" /\ i.imm > 2)

\* A function's IR labels are prefixed with its name; the labels codegen
\* makes up are numbered through the whole program, two for each NOT and
\* comparison.
FnLabel(p, f, label) == p.functions[f].name \o "." \o label

CgLabel(n) == "_cg" \o ToString(n)

UsesCgLabels(i) == i.op \in Comparisons \cup {"NOT"}

CgCounter(p, f, k) ==
    FoldLeft(LAMBDA n, function : n + 2 * Len(SelectSeq(function.body, UsesCgLabels)),
             2 * Len(SelectSeq(SubSeq(p.functions[f].body, 1, k - 1), UsesCgLabels)),
             SubSeq(p.functions, 1, f - 1))

\* Compare R4 with R5 and turn the flags into a Boolean word in R4.
Materialize(first, second, jump, n, last) ==
    <<first, second, Asm("CMP", 4, 5, 0),
      AsmTo(jump, CgLabel(n)),
      Asm("LI", 4, 0, 0), AsmTo("JMP", CgLabel(n + 1)),
      Label(CgLabel(n)), Asm("LI", 4, BoolTrue, 0),
      Label(CgLabel(n + 1)), last>>

\* The lines of IR instruction number k of function number f.  R4 and R5 are
\* scratch; R0 carries a result, R1 to R3 the arguments.
EmitIR(p, f, k) ==
    LET i == p.functions[f].body[k]
        n == CgCounter(p, f, k)
        LD(r, slot) == Asm("LD", r, SlotAddress(p, f, slot), 0)
        ST(r, slot) == Asm("ST", r, SlotAddress(p, f, slot), 0)
        LI(r, imm)  == Asm("LI", r, imm, 0)
    IN  CASE i.op = "CONST" -> <<LI(4, i.imm), ST(4, i.dst)>>
          [] i.op = "COPY"  -> <<LD(4, i.src), ST(4, i.dst)>>
          [] i.op \in {"ADD", "SUB"} ->
                <<LD(4, i.src), LD(5, i.src2), Asm(i.op, 4, 4, 5), ST(4, i.dst)>>
          [] i.op = "NEG" ->
                <<LI(4, 0), LD(5, i.src), Asm("SUB", 4, 4, 5), ST(4, i.dst)>>
          [] i.op = "NOT" ->
                Materialize(LD(4, i.src), LI(5, 0), "JZ", n, ST(4, i.dst))
          [] i.op \in Comparisons ->
                Materialize(LD(4, i.src), LD(5, i.src2), JumpIf[i.op], n, ST(4, i.dst))
          [] i.op = "MEM_LOAD" ->
                <<LD(4, i.src), Asm("LDR", 5, 4, 0), ST(5, i.dst)>>
          [] i.op = "MEM_STORE" ->
                <<LD(4, i.dst), LD(5, i.src), Asm("STR", 5, 4, 0)>>
          [] i.op = "LABEL" -> <<Label(FnLabel(p, f, i.label))>>
          [] i.op = "JUMP"  -> <<AsmTo("JMP", FnLabel(p, f, i.label))>>
          [] i.op \in {"JUMP_Z", "JUMP_NZ"} ->
                <<LD(4, i.src), LI(5, 0), Asm("CMP", 4, 5, 0),
                  AsmTo(IF i.op = "JUMP_Z" THEN "JZ" ELSE "JNZ", FnLabel(p, f, i.label))>>
          [] i.op = "ARG"    -> <<LD(i.imm + 1, i.src)>>
          [] i.op = "CALL"   ->
                IF i.dst = "" THEN <<AsmTo("CALL", i.label)>>
                ELSE <<AsmTo("CALL", i.label), ST(0, i.dst)>>
          [] i.op = "RETURN" -> <<LD(0, i.src), Asm("RET", 0, 0, 0)>>
          [] i.op = "RETURN_VOID" -> <<Asm("RET", 0, 0, 0)>>
          [] i.op \in {"PRINT", "PRINTD"} -> <<LD(4, i.src), Asm(i.op, 4, 0, 0)>>
          [] i.op = "HALT"   -> <<Asm("HALT", 0, 0, 0)>>

\* The initialization of the globals.
EmitGlobals(p) ==
    FlattenSeq([k \in DOMAIN p.globals |->
        <<Asm("LI", 4, p.globals[k].init, 0),
          Asm("ST", 4, SlotAddress(p, 0, p.globals[k].slot), 0)>>])

\* Mutant: nothing stops the machine after main.
EmitInit_NoHalt(p) == <<Label("_init")>> \o EmitGlobals(p) \o <<AsmTo("CALL", "main")>>

\* _init: initialize the globals, call main, halt.
EmitInit(p) ==
    <<Label("_init")>> \o EmitGlobals(p)
        \o <<AsmTo("CALL", "main"), Asm("HALT", 0, 0, 0)>>

\* The label of a function, and its parameters out of R1 to R3.
EmitPrologue(p, f) ==
    LET fn == p.functions[f]
    IN  <<Label(fn.name)>> \o
        [k \in DOMAIN fn.params |-> Asm("ST", k, SlotAddress(p, f, fn.params[k]), 0)]

From(fn, ip, lines) ==
    [n \in DOMAIN lines |-> [fn |-> fn, ip |-> ip, nth |-> n, line |-> lines[n]]]

EmitFunction(p, f) ==
    From(f, 0, EmitPrologue(p, f)) \o
    FlattenSeq([k \in DOMAIN p.functions[f].body |-> From(f, k, EmitIR(p, f, k))])

Generate(p) ==
    From(0, 0, EmitInit(p)) \o
    FlattenSeq([f \in DOMAIN p.functions |-> EmitFunction(p, f)])

Lines(generated) == [k \in DOMAIN generated |-> generated[k].line]
=============================================================================
