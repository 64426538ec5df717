------------------------------ MODULE TextRun ------------------------------
(***************************************************************************)
(* septa run from the text of a program to the end of its run              *)
(* (septa/cli/main.py: _compile and _cmd_run): the scanner of module       *)
(* Lexer, the parser of module Parser, and SourceRun for what follows.  A  *)
(* stage begins when the one before has ended, and one that fails ends     *)
(* everything.                                                             *)
(*                                                                         *)
(* A behaviour begins with a text; or, as the tests of the stages do, with *)
(* a list of tokens for the parser, or with a syntax tree.                 *)
(***************************************************************************)
EXTENDS Lexer, Grammar, SourceRun

LOCAL INSTANCE SequencesExt

textVars == <<lexVars, parseVars, sourceVars>>

-----------------------------------------------------------------------------
(* What the stages hand over.                                              *)

DigitValue(c) == (CHOOSE k \in DOMAIN DigitChars : DigitChars[k] = c) - 1

NumberOf(digits, base) ==
    FoldLeft(LAMBDA sum, c : sum * base + DigitValue(c), 0, digits)

Joined(chars) == FoldLeft(LAMBDA name, c : name \o c, "", chars)

\* A token as the parser takes it: a number for its digits, or its text.
Taken(token) ==
    [type  |-> token.type,
     value |-> CASE token.type = "NUMBER"         -> NumberOf(token.value, Radix)
                 [] token.type = "DECIMAL_NUMBER" -> NumberOf(token.value, 10)
                 [] OTHER                         -> Joined(token.value)]

IsFunction(declaration) == "body" \in DOMAIN declaration

\* The declarations of both kinds, in the order of the source.
ProgramOf(decls) ==
    [globals   |-> SelectSeq(decls, LAMBDA d : ~ IsFunction(d)),
     functions |-> SelectSeq(decls, IsFunction)]

-----------------------------------------------------------------------------
NothingScanned ==
    /\ text = <<>> /\ pos = 1 /\ line = 1 /\ col = 1
    /\ mode = "done" /\ start = 1 /\ loc = <<1, 1>> /\ tokens = <<>>

NothingParsed(state) == given = <<>> /\ at = 1 /\ declarations = <<>> /\ parsing = state

NothingCompiled ==
    source = NoProgram /\ stage = "waiting" /\ NothingProduced /\ intended = {}

FromText   == LexInit /\ NothingParsed("waiting") /\ NothingCompiled
FromTokens == NothingScanned /\ ParseInit /\ NothingCompiled
FromTree   == NothingScanned /\ NothingParsed("over") /\ SourceInit

TextInit == FromText \/ FromTokens \/ FromTree

Scan == LexNext /\ UNCHANGED <<parseVars, sourceVars>>

\* Parser(tokens): the scanner and its text are not used any more.
BeginParsing ==
    /\ mode = "done" /\ parsing = "waiting"
    /\ given' = [k \in DOMAIN Words |-> Taken(Words[k])]
    /\ parsing' = "parsing"
    /\ text' = <<>> /\ tokens' = <<>>
    /\ UNCHANGED <<pos, line, col, mode, start, loc, at, declarations, sourceVars>>

Parse == ParseNext /\ UNCHANGED <<lexVars, sourceVars>>

\* analyze(program): neither are the parser and its tokens.
BeginAnalysis ==
    /\ parsing = "done"
    /\ source' = ProgramOf(declarations) /\ stage' = "analyze"
    /\ given' = <<>> /\ at' = 1 /\ declarations' = <<>> /\ parsing' = "over"
    /\ UNCHANGED <<lexVars, vars, lowered, assembly, error, boolCells, intended>>

CompileAndRun == SourceNext /\ UNCHANGED <<lexVars, parseVars>>

TextNext == Scan \/ BeginParsing \/ Parse \/ BeginAnalysis \/ CompileAndRun

\* All stages are one thread; what shall end by itself is the scanner.
TextSpec == TextInit /\ [][TextNext]_textVars /\ WF_lexVars(LexNext)
=============================================================================
