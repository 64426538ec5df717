----------------------------- MODULE SourceRun -----------------------------
(***************************************************************************)
(* A SeptaLang program from its syntax tree through all the stages of      *)
(* Toolchain to the end of its run, next to what it means: does the        *)
(* machine do what the source says?  Nothing is promised of a program      *)
(* whose meaning does not end.                                             *)
(***************************************************************************)
EXTENDS Toolchain

LOCAL INSTANCE SequencesExt

CONSTANT Patience      \* bound: loop iterations of one program

M == INSTANCE SourceMeaning WITH StoreSize <- DataBase

\* What the meaning of a program says of its output and, for every address
\* of a global or of store[], of the word it holds in the end.
Intended(p, ir, meaning) ==
    [out   |-> meaning.out,
     cells |-> [a \in 0 .. DataBase + Len(p.globals) - 1 |->
        IF a < DataBase THEN M!StoreAt(meaning, a)
        ELSE LET k == CHOOSE k \in DOMAIN p.globals :
                         SlotAddress(ir, 0, ir.globals[k].slot) = a
             IN  meaning.globals[p.globals[k].name]]]

Promise(p, meaning) ==
    IF M!Ends(meaning) THEN {Intended(p, L!Lower(p), meaning)} ELSE {}

VARIABLE intended     \* what the program that runs shall do, if it is promised

sourceVars == <<toolVars, intended>>

SourceInit == ToolInit /\ intended = {}

TranslateSource ==
    /\ Analyze \/ LowerProgram \/ GenerateAssembly
    /\ UNCHANGED intended

AssembleSource ==
    /\ AssembleProgram
    /\ intended' = IF error' = "none" THEN Promise(source, M!Meaning(source)) ELSE {}

RunSource == Run /\ UNCHANGED intended

SourceNext == TranslateSource \/ AssembleSource \/ RunSource

SourceSpec == SourceInit /\ [][SourceNext]_sourceVars

-----------------------------------------------------------------------------
\* At every moment the output is the beginning of what the source outputs:
\* no operand, argument or variable has a word that is not its own, and no
\* branch goes where the source does not (septa/ir/lowering.py).
OutputAsWritten == \A promise \in intended : IsPrefix(output, promise.out)

\* A program that ends in the source halts on the machine, all its output
\* written, globals and store[] as the source leaves them.
EndsAsWritten ==
    outcome # "running" =>
        \A promise \in intended :
            /\ outcome = "halted"
            /\ output = promise.out
            /\ \A a \in DOMAIN promise.cells : mem[a] = promise.cells[a]
=============================================================================
