---------------------------- MODULE MC_SeptaVM ----------------------------
(***************************************************************************)
(* An instance of SeptaVM and VMCalls for TLC: every image of three        *)
(* instructions over a set with all opcodes, and of four over one of calls *)
(* and branches: all the ways short code can jump, recurse, fault and loop;*)
(* and straight code that halts about when the step limit is reached.      *)
(***************************************************************************)
EXTENDS VMCalls, RadixConfig

I(op, a, b, c) == [op |-> op, a |-> a, b |-> b, c |-> c]

\* Every opcode, and one that does not exist.  Two registers are enough to
\* tell operands apart; the operands reach a wrapping sum, a negative
\* difference, a bad address, a bad target and the first cell of the stack.
EveryOpcode ==
    {I("LI", 0, Modulus - 1, 0), I("LI", 1, 1, 0), I("MOV", 1, 0, 0),
     I("LD", 0, MemorySize - 1, 0), I("LD", 1, MemorySize, 0),
     I("ST", 0, 0, 0), I("ST", 1, MemorySize - 1, 0),
     I("LDR", 1, 0, 0), I("STR", 1, 0, 0),
     I("ADD", 0, 0, 1), I("SUB", 1, 0, 1), I("CMP", 0, 1, 0), I("CMP", 1, 0, 0),
     I("JMP", 0, 0, 0), I("JZ", 2, 0, 0), I("JNZ", 0, 0, 0), I("JG", 0, 0, 0),
     I("JL", 3, 0, 0), I("JGE", 0, 0, 0), I("JLE", 1, 0, 0),
     I("CALL", 0, 0, 0), I("CALL", 2, 0, 0), I("RET", 0, 0, 0),
     I("PRINT", 1, 0, 0), I("PRINTD", 0, 0, 0), I("HALT", 0, 0, 0),
     I("NOP", 0, 0, 0), I("UNKNOWN", 0, 0, 0)}

MixedImages == [1 .. 3 -> EveryOpcode]

\* Calls to every address, returns, and branches.  Stores stay below the
\* stack: cell 0 is never part of it, though the CALL that overflows
\* writes it.
CallsAndBranches ==
    {I("CALL", t, 0, 0) : t \in 0 .. 3} \cup
    {I("RET", 0, 0, 0), I("ST", 0, 0, 0), I("LD", 0, 0, 0), I("CMP", 0, 1, 0),
     I("LI", 0, 1, 0), I("JZ", 0, 0, 0), I("JNZ", 3, 0, 0),
     I("HALT", 0, 0, 0)}

CallImages == [1 .. 4 -> CallsAndBranches]

\* Straight code that halts one step before the limit, on it, and after it.
StraightImages ==
    {[k \in 1 .. n |-> I(IF k = n THEN "HALT" ELSE "NOP", 0, 0, 0)] :
        n \in MaxSteps - 1 .. MaxSteps + 1}

MCPrograms == MixedImages \cup CallImages \cup StraightImages
=============================================================================
