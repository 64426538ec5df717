----------------------------- MODULE Assembler -----------------------------
(***************************************************************************)
(* From assembly to an image (septa/asm/assembler.py): the two passes.     *)
(* The text between code generator and assembler, its comments and its     *)
(* operand syntax are left out: a line is what asm/parser.py makes of it.  *)
(***************************************************************************)
EXTENDS Integers, Sequences

\* The loop of pass 1: which of the first k lines are instructions.
InstrLines(lines) ==
    LET I[k \in 0 .. Len(lines)] ==
            IF k = 0 THEN <<>>
            ELSE IF lines[k].kind = "instr" THEN Append(I[k - 1], k) ELSE I[k - 1]
    IN  I

\* Pass 1: a label stands for the number of instructions before it; two labels
\* with one name are an error.
Pass1(lines) ==
    LET found == InstrLines(lines)
        numbers == found[Len(lines)]
        at == {k \in DOMAIN lines : lines[k].kind = "label"}
    IN  [instrs    |-> [q \in DOMAIN numbers |-> lines[numbers[q]]],
         duplicate |-> \E k, m \in at : k # m /\ lines[k].name = lines[m].name,
         labels    |-> [name \in {lines[k].name : k \in at} |->
            Len(found[(CHOOSE k \in at : lines[k].name = name) - 1])]]

BranchOpcodes == {"JMP", "JZ", "JNZ", "JG", "JL", "JGE", "JLE", "CALL"}

\* Pass 2: a branch gets the address of its label as its only operand.
Encode(line, labels) ==
    [op |-> line.op,
     a  |-> IF line.op \in BranchOpcodes THEN labels[line.label] ELSE line.a,
     b  |-> line.b,
     c  |-> line.c]

\* The image, or the AssemblerError.
Assemble(lines) ==
    LET first == Pass1(lines)
        undefined == \E k \in DOMAIN first.instrs :
                        /\ first.instrs[k].op \in BranchOpcodes
                        /\ first.instrs[k].label \notin DOMAIN first.labels
    IN  [error |-> IF first.duplicate THEN "duplicate label"
                   ELSE IF undefined THEN "undefined label" ELSE "none",
         code  |-> IF first.duplicate \/ undefined THEN <<>>
                   ELSE [k \in DOMAIN first.instrs |->
                            Encode(first.instrs[k], first.labels)]]
=============================================================================
