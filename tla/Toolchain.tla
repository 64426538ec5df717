----------------------------- MODULE Toolchain -----------------------------
(***************************************************************************)
(* One program through the stages of _compile and _cmd_run of              *)
(* septa/cli/main.py: analyze, lower, generate, assemble, run.  A stage    *)
(* that raises ends everything: later stages rely on what earlier ones     *)
(* have checked, and nothing else.                                         *)
(***************************************************************************)
EXTENDS SeptaVM, Codegen, Assembler

LOCAL INSTANCE SequencesExt

CONSTANT Sources      \* the programs, as module SyntaxTrees describes them

A == INSTANCE Analyzer
L == INSTANCE Lowering

VARIABLES
    source,      \* the program
    stage,       \* the stage that comes next
    lowered,     \* the IR program
    assembly,    \* the lines of assembly
    error,       \* "none", or what a stage raised
    boolCells    \* the addresses of the variables of type bool7

toolVars == <<vars, source, stage, lowered, assembly, error, boolCells>>

-----------------------------------------------------------------------------
RECURSIVE LetTypes(_)

\* The types of the variables of a block, in the order of the let statements.
LetTypes(block) ==
    FlattenSeq([k \in DOMAIN block |->
        CASE block[k].node = "let"   -> <<block[k].type>>
          [] block[k].node = "if"    ->
                LetTypes(block[k].then) \o
                FlattenSeq([n \in DOMAIN block[k].else |-> LetTypes(block[k].else[n])])
          [] block[k].node = "while" -> LetTypes(block[k].body)
          [] OTHER -> <<>>])

ParamTypes(function) == [k \in DOMAIN function.params |-> function.params[k].type]

VariableTypes(function) == ParamTypes(function) \o LetTypes(function.body)

BoolCells(p, q) ==
    {SlotAddress(q, 0, q.globals[k].slot) :
        k \in {n \in DOMAIN p.globals : p.globals[n].type = "bool7"}} \cup
    UNION {{SlotAddress(q, f, Block(q.functions[f])[k]) :
               k \in {n \in DOMAIN VariableTypes(p.functions[f]) :
                         VariableTypes(p.functions[f])[n] = "bool7"}} :
              f \in DOMAIN p.functions}

-----------------------------------------------------------------------------
NoProgram == [globals |-> <<>>, functions |-> <<>>]

At(name) == stage = name /\ error = "none"

\* A stage that raises ends the compilation; else the next one follows.
Pass(failure, next) ==
    /\ error' = failure
    /\ stage' = IF failure = "none" THEN next ELSE stage
    /\ UNCHANGED source

Analyze ==
    /\ At("analyze")
    /\ Pass(IF A!Accepts(source) THEN "none" ELSE "SemanticError", "lower")
    /\ UNCHANGED <<vars, lowered, assembly, boolCells>>

LowerProgram ==
    /\ At("lower")
    /\ Pass(IF L!LoweringFails(source) THEN "CodegenError" ELSE "none", "generate")
    /\ lowered' = IF L!LoweringFails(source) THEN NoProgram ELSE L!Lower(source)
    /\ UNCHANGED <<vars, assembly, boolCells>>

GenerateAssembly ==
    /\ At("generate")
    /\ Pass(IF CodegenFails(lowered) THEN "CodegenError" ELSE "none", "assemble")
    /\ IF CodegenFails(lowered) THEN UNCHANGED <<assembly, boolCells>>
       ELSE /\ assembly' = Lines(Generate(lowered))
            /\ boolCells' = BoolCells(source, lowered)
    /\ UNCHANGED <<vars, lowered>>

\* The image is loaded into a new Machine.
LoadImage(image) ==
    /\ Pass(image.error, "run")
    /\ code' = image.code
    /\ UNCHANGED <<gp, pc, sp, fr, mem, output, steps, outcome, lowered, assembly, boolCells>>

AssembleProgram == At("assemble") /\ LoadImage(Assemble(assembly))

Run == At("run") /\ Next /\ UNCHANGED <<source, stage, lowered, assembly, error, boolCells>>

\* No stage has produced anything yet.
NothingProduced ==
    /\ error = "none" /\ lowered = NoProgram /\ assembly = <<>> /\ boolCells = {}
    /\ code = <<>> /\ Reset

ToolInit == source \in Sources /\ stage = "analyze" /\ NothingProduced

-----------------------------------------------------------------------------
\* What the analyzer accepts compiles: no stage after it fails over a name, a
\* type or a label (septa/ir/lowering.py relies on "types valid, names
\* resolved"; the assembler on labels being distinct).
AcceptedCompiles == error \in {"none", "SemanticError"}

\* Whatever is lowered has the shape that code generation relies on: every path
\* through a function, its last statement a loop, a branch or a call, or none
\* at all, meets a return (septa/ir/lowering.py: _lower_function).
LoweredIsWellFormed == At("generate") => WellFormed(lowered)

\* Types mean something at run time: at every moment the cell of a bool7
\* variable, wherever it is declared, holds false or true, though arguments
\* pass through registers, results through R0, and all is one memory.
BoolsAreBoolean == \A a \in boolCells : mem[a] \in {0, BoolTrue}
=============================================================================
