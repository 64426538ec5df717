# SeptaStack in TLA+

SeptaStack compiles SeptaLang, a small imperative language, to a register
machine whose words are numbers of a chosen radix, and runs it there. This
directory models the compiler from characters to images, the machine, the
numerals and the command with its benchmarks, checks them with TLC and proves
part of what is checked with TLAPS. Paths below are relative to the repository;
`septa/` holds the program.

## The system

    source --Lexer--> tokens --Parser--> AST --Analyzer--> AST --Lowering--> IR
       --Codegen (AddressMap)--> assembly text --AsmParser, Assembler--> image
       --SeptaVM--> output

The stages call each other in `cli/main.py` (`_compile`, `_cmd_run`), one after
the other in one thread; each stage keeps state only while it runs. They share
one mutable global, the active `RadixConfig`, which every stage reads, and
conventions nobody checks: where slots and the call stack lie in memory, which
registers carry what, how labels are named. `bench/runner.py` runs all stages
over and over, and switches the global in between.

| component | state | operations | hard part | what makes it correct |
|---|---|---|---|---|
| RadixConfig `common/config.py` | base, width, representation; the active one is global | `wrap_word`, derived sizes, set/get/reset | the ends of the balanced range; switching while others hold values | every stored value is a word |
| VM `vm/` | registers, pc, sp, flags, memory, output, step count | one handler per opcode, `run` | faults between two assignments of a handler; one memory for data and return addresses; the step limit | state well formed, calls return, faults leave no trace, every run ends |
| AddressMap `codegen/addresses.py` | address of every slot | `allocate` | blocks that overlap each other, `store[]` or the stack | distinct slots, clear of store[] and stack |
| Codegen `codegen/codegen.py` | lines, label counter | one emitter per IR operation | registers live across ARG, CALL, prologue; label names; falling through | compiled code does what the IR says |
| Assembler `asm/` | labels, instructions | two passes | labels against instruction numbers, duplicates | every branch goes to its label |
| IR `ir/ir.py` | - | the shape of programs | - | its meaning is the specification of the back half |
| Lowering `ir/lowering.py` | scopes, slot names, label and temp counters | one method per AST node | evaluation order when operands have effects; shadowing | lowered code does what the source says |
| Analyzer `semantic/` | scopes, signatures | two passes | later stages rely on what it has checked and nothing else | what it accepts compiles and keeps its types |
| Lexer `lexer/` | position, line, column, tokens | one scanner per kind of token | lookahead, comments, digits of the active radix, line and column kept by hand | longest lexemes, where they claim to be, nothing lost |
| Parser `parser/` | position | one method per rule | associativity; assignment targets judged after they are parsed | the one tree the grammar derives, or an error |
| Digits `common/base7.py` | value, digits | parse and format in both notations | carries of balanced digits; two maxima; which letters are digits | parse and format are inverse |
| Benchmarks `bench/runner.py`, CLI `cli/main.py` | active configuration, results | options, commands, runs over bases and representations, reports | the same option for two commands; a failure between two switches; results looked up by part of their key | every result belongs to its label, no result lost |

Nothing here is concurrent or persistent: the hazards are of order (what is
read before and after a call, what is set before a benchmark), of bounds
(memory, stack, word range, step limit), of names that coincide, and of handlers
that fail half way. They are listed with their lines in `PROJECT.json`.

## Modules

**Machine**

- `Words` - word range and `wrap_word`, for any modulus and representation.
- `RadixConfig` - what `RadixConfig` and `data_base` derive from a base and a
  width. The runs take the other modules' constants from it.
- `SeptaVM` - the machine. Variables are the fields of `Registers`, `Memory`,
  `Syscalls` and `Machine`; `fr` is the set of flags that are set; `outcome` is
  "running", "halted", "step limit", or the `VMError` that ended the run. One
  action per handler of `vm/instructions.py`, one per way to fail.
  `Completed` is what `step` and `run` do after a handler that returned,
  `Fault` what they do not do after one that raised. The image is chosen in
  `Init` from the constant `Programs`. Output is the sequence of printed words,
  each with the instruction that printed it; their digits are a matter of `Digits`.
- `CallReturn` - what CALL and RET promise, without memory.
- `VMCalls` - the machine as an implementation of `CallReturn`: the return
  addresses pending are the cells above `sp`.
- `CrossRepr` - two instances of `SeptaVM`, one unsigned and one balanced, with
  the same image and a state each, in lockstep. The history variable
  `strayed` becomes true with the first instruction whose effect depends on
  which side of zero a word above half the range is (`Straying`).

**Compiler, from characters to syntax trees**

- `Lexer` - `tokenize`, one step for each turn of its loops; `mode` is the
  loop it is in. What the tokens should be is defined without a scanner:
  lexemes as sets of substrings (`LexemesAt`), lines and columns by counting
  (`Place`). Characters are any values, `NoChar` is what lies past the end.
- `Parser` - one operator for each method of the parser, from the position it is
  called at to a node and the position after it; 0 stands for a `ParserError`.
  `parse` is the state machine, a step for each declaration.
- `Grammar` - the grammar of the header of `parser.py` without a parser: the set of
  trees the tokens from `i` to `j` can be derived to. In one place it follows the
  parser and `tests/test_parser.py:452` instead, which have any number of unary
  operators before a primary where the header (`:12`) has at most one.

**Compiler, from syntax trees to IR**

- `SyntaxTrees` - the nodes of `parser/ast.py`, without locations.
- `Analyzer` - `SemanticAnalyzer` as operators: scopes are a sequence of
  functions from names to types, the type "error" or no scopes stand for a
  `SemanticError`. `Accepts` is whether a program passes.
- `Lowering` - `lower` as operators, one per method of `_FnContext`, which is a
  record that each of them takes and returns. Slot names are made as the code
  makes them, because two of them can coincide.
- `SourceMeaning` - what a program means, by recursion over its tree: values, not
  slots, operands and arguments in the order `lowering.py` states, a new variable
  for every `let` and every call. An address outside `store[]`, and a
  function that ends without its value, mean nothing ("undefined").

**Compiler, from IR to image**

- `IRPrograms` - the shape of IR programs. Slots are strings, of which only
  equality and membership in the globals matter. `WellFormed` is what lowering
  guarantees of every program and the later stages rely on without a test:
  functions end with a return, instructions name slots of their function, no two
  globals share one, and every name leads somewhere (`Resolved`: a call to a
  function, a jump to a label of its function, `_init` to a main).
- `AddressMap`, `Codegen`, `Assembler` - `allocate`, `generate`, `assemble` as
  operators. `Cursor` is the loop variable of `allocate` after each function,
  `InstrLines` the lines that the assembler's first pass has counted after each
  line. `Codegen` produces lines, not text: the header comments, layout and
  operand spelling that `asm/parser.py` removes again are left out. It remembers
  of each line which function and IR instruction it is for (`fn`, `ip`, `nth`);
  only the refinement and the proofs read that.
- `IRMachine` - the meaning of an IR program, from the comments of `ir/ir.py`:
  slots are named cells, `store[]` a memory of its own, calls have frames. It
  may end at any step, as the machine below it may by a fault or the limit.

**Compositions**

- `Toolchain` - `_compile` after parsing, and `_cmd_run`: one action per stage,
  on the result of the one before; a stage that raises ends everything
  (`Pass`). The last action is the machine's next step. `boolCells` is the set of
  addresses given to variables of type bool7.
- `SourceRun` - `Toolchain` next to `SourceMeaning`. When the image is loaded,
  `intended` becomes the output, final globals and `store[]` of the meaning, if the
  meaning ends; they are compared with the machine's at every step
  (`OutputAsWritten`) and at the end (`EndsAsWritten`).
- `TextRun` - `_compile` and `_cmd_run` as a whole: `Lexer`, `Parser` and `SourceRun`
  one after the other, each beginning when the one before has ended without an error
  (`BeginParsing`, `BeginAnalysis`). A behaviour begins with a text; or with a list of
  tokens, or a syntax tree, as the tests of the stages do, so that these can be more
  than texts of a few characters give. `Taken` is what the parser makes of a token's text.
- `CompiledRun` - codegen, assembler and machine on IR programs, and the refinement
  mapping to `IRMachine`. An IR instruction takes effect with the last
  machine instruction generated for it; until then its IR machine stands still.
  `Site` is the line that comes next, and `IRLoc` the IR instruction it is for; a
  slot is its cell (`IRSlots`), but for a parameter still in its register and a global
  `_init` has not come to; the frames are the calls the pending return addresses
  belong to (`IRFrames`); `IRRet` is R0 between a CALL and the line that stores its
  result. `CompiledRunAssumption` says that the
  programs are well formed; that lowering makes them so is `LoweredIsWellFormed`.
  What nothing checks at run time is `MemoryIsApart`: the stack stays above the
  slots (`StackAboveSlots`, `CallsAboveSlots`), and `store[]` is used at its own
  addresses (`StoreIsApart`). `StaticAllocationIsSafe` is the claim of
  `codegen/addresses.py:14`, made exact: without recursion (`NoRecursion`), and with
  memory for the slots and a return address to every function (`HasRoom`), the
  stack never meets a slot.
- `BenchSession` - one process of the command: `_parse_global_opts` and the
  options of `bench`, one step for each argument; the commands; the nested loops
  of `run_benchmarks`, `at` holding their three indices; the
  switching of the active configuration, table and warnings. What a
  program does is a parameter, `Worlds`: its output under each configuration, or
  that it raises. A result is taken from the configuration that is active,
  not from the one it is labelled with.

**Numerals**

- `Digits` - `format_base_n` and `parse_base_n`, `format_balanced` and
  `parse_balanced`, a step for each digit, and `parse_decimal`. The variable
  `notation` says which pair is at work. A number is formatted and its numeral
  parsed, or a text is parsed, and what it stands for formatted and parsed again.
  What a text stands for is also defined without a loop over values, by the
  powers of the base (`Positional`).

**Proofs**

- `Induction` - for proofs only: induction from the least element of a set of
  numbers, and that functions defined by recursion over numbers are what their
  equations say.

The `MC_` modules hold the images, programs, sources and command lines of the
runs (`MC_TokenLists`, `MC_SourcePrograms` and, part of that, `MC_TypedPrograms` those of
`text_run`), the `_proofs` modules the proofs. A definition with a comment that begins with "Mutant" is a plausible bug, kept
to show that a property finds it; nothing else uses it.

## Runs

| run | instance | checks | about |
|---|---|---|---|
| `vm_unsigned` | base 2, 3 digits, limit 40 | `TypeOK`, `StackPointerInMemory`, `FlagsExclusive`, `LimitReportedExactly`, `FaultFootprint`, `OnlyStoresDisturbCalls`, `RunEnds` | all 21,952 images of 3 instructions over 28 that cover every opcode and fault; all 20,736 of 4 over calls, returns and branches; straight code that halts one step before the limit, on it and after it |
| `cross_repr` | base 3, 2 digits, limit 9 | `MachinesAgree` | all 50,625 images of 4 instructions over 15 that make and use words on both sides of the middle |
| `compiled_run` | base 3, 5 digits balanced, limit 60 | `ImplementsIR`, `CallsReturn`, `NoCodeFault`, `MemoryIsApart`, `StaticAllocationIsSafe` | every pair of 24 IR instructions in a main, two callees, three larger programs; two whose slots and calls fill memory to the last cell, one with and one without the room `HasRoom` asks for; a recursion |
| `text_run` | base 3, 5 digits, limit 600 | `MaximalMunch`, `NothingLost`, `ErrorsJustified`, `Terminates`; `ParsesTheGrammar`; `OutputAsWritten`, `EndsAsWritten`, `AcceptedCompiles`, `BoolsAreBoolean`, `LoweredIsWellFormed` | all texts up to 4 characters over 14, and of 5 over 7, and six whole programs; 73,866 token lists, of which 1321 are programs; 1589 syntax trees, of which the analyzer accepts 568 |
| `digits` | base 3, 4 digits | `RoundTrip`, `ReadByPosition`, `NumeralsUnique`, `Terminates` | all words and some numbers beyond, all texts up to 5 characters, in both notations |
| `bench_session` | two programs | `RunsAsRequested`, `ResultsBelong`, `RequestedBenchmarked`, `ReportsComplete` | command lines up to six arguments, any outcome under each configuration |
| `static_slots` | base 2, 7 digits, limit 120 | `CallsReturn`, violated | a program that fills a small memory |
| `nested_arguments` | base 3, 5 digits | `OutputAsWritten`, violated | `mix(9, bump(2), 0)` |
| `void_variable` | base 3, 5 digits | `AcceptedCompiles`, violated | `let v: void = f();` |
| `bench_single_repr` | as `bench_session` | `EveryReprBenchmarked`, violated | `bench --repr=balanced` |
| `foreign_letters` | as `digits` | `OnlyDigitsAccepted`, violated | the text `A` in balanced base 3 |
| `cross_outputs` | as `cross_repr` | `RunsIdentical`, violated | programs such as `printd(0 - 1)` |

### Bounds

*Machine.* Memory has base^5 cells, as in the code: 32 for base 2, so a
recursion overflows the call stack after 31 calls, within the limit of 40
steps, most of the time with other instructions between. Three
instructions are enough to call, to return and to spoil a register, a flag or a
return address between them; four also nest calls with different return
addresses. Two of the seven registers tell operands apart.
In `cross_repr` a word of two digits crosses the middle after one sum, and four
instructions make such a word, keep it, compare or follow it, and print it.

*IR.* Two instructions in main, with a label before and one after, make
every ordered pair of IR operations adjacent, backward and forward branches and loops
around them, arguments that are live across other operations, and both kinds of
call; "nested" calls three deep, "three" uses all argument registers, "loop" walks
through `store[]`. In "Chain(3)" the return addresses of three calls meet the last slot
and leave no cell between, with no room to spare; "Crowded" has one cell less, which its
calls never need; "Recursive" calls itself up to the step limit, so that more calls are
pending than there are functions. That is both sides of each condition of
`StaticAllocationIsSafe`; where it stops holding is `static_slots`.
Addresses up to the stack and code are words.

*Source programs.* 364 have a main that uses an expression or a statement of
a large set: every pair of nine operands (literal, local, global, `store[]`,
negation, sum, calls that read or assign a global, with and without
parameters) under both operators and as arguments; all comparisons and
kinds of condition, with either branch shadowing, halting, returning or
assigning; loops in loops with shadowing and calls; early returns. All types
are right, and `InOrder` says which programs are left out because the
violated runs are about them. The other 1225 vary types, scopes,
signatures and top-level names, and most are rejected: every
accepted one shows that the analyzer lets nothing through that a later stage
refuses. `MaxSteps` is a parameter of the code and bounds the loops; `Patience`,
the loop iterations `SourceMeaning` evaluates, is used up by none of the programs.

*Lexer.* The fourteen characters are one for each case of the scanner: a digit
of the base and one that is none, the letters of `if` and of the decimal prefix,
underscore, colon, both characters of two-character operators, slash, blank,
newline, a character that is none of the language. The longest lookahead is 3. The whole
programs go through all stages: one that runs, two the analyzer rejects, one that ends in
a comment, one with a literal beyond the largest word.

*Parser.* Expressions of a few tokens, bodies made of phrases in any
order, and programs with one token removed, replaced or put in anywhere: this is
where a rule stops too early or goes on too long.

*Digits.* Four digits of base 3 give carries through all of them; texts
have one character more than a word, with letters that are digits, that are
digits of other bases only, and that are none. Base 3 also has the letter T.
`parse_decimal`, which converts with `int()` and compares, is there as an action that
only `Terminates` constrains.

*Command.* Options before and after the command, twice, and refused; lists of
bases with a repetition, an even and an illegal one; `--repr` with one value and with
several, in either order; a program with
any of two outputs or an error under each of the six configurations, a second one
that works, a third that cannot be read. With that a benchmark can follow one of
every other configuration, and an error any number of results.

*Deadlock* is not checked: a machine, a scan or a session that has ended takes no step.

*Fairness.* Weak fairness of the next-state relation in `SeptaVM`, `Lexer` (and so of the
scanner in `TextRun`) and `Digits`: each is a loop of the only thread, `Machine.run` calls
`step` in one, and nothing else can stop it. `RunEnds` and `Terminates` use it. The other specifications are of safety only.

### The violated runs

In all six the real tools behave as the runs show.

- `static_slots`: `codegen/addresses.py:14` says that without recursion static
  allocation is safe; nothing compares the slots with the memory. For base 2 the
  program `let g: word = 1; fn main() -> void { print(0); ... }` with 23 prints ends by
  writing the last temporary over the return address of main, and never ends.
- `nested_arguments`: `lowering.py:14` promises "arguments evaluated in order
  before the call". Each argument goes to its register as soon as it is
  evaluated, where the argument of a call in a later one replaces it:
  `mix(9, bump(2), 0)` passes 2 in place of 9.
- `void_variable`: `lowering.py:4` assumes a program with valid types. The
  analyzer accepts a variable of type void whose value is a call of a void
  function, and the code generator raises `KeyError` for it.
- `bench_single_repr`: `cli/main.py:12` documents `--repr=MODE`, and `_cmd_bench`
  (`:141-142`) would take one value as well as several. `main` keeps an option with one
  value for itself and passes on those with a comma, so that `bench --repr=balanced` measures
  unsigned. `bench_session` says when what is measured is what was asked for: when the last
  `--repr`, if there is one, is a list (`ReprsReachBench`).
- `foreign_letters`: the design document (`:30-32`) says which digits the balanced bases 3, 5
  and 7 have. `base7.py:153` finds the letters A to J in every base: in base 3 `A` is read as
  -1, as `T` is, and `B` as -2. `NumeralsUnique` in `digits` says that such texts, and only
  they, are accepted without being the numeral of what they are read as.
- `cross_outputs`: `docs/plans/2026-03-09-balanced-repr-design.md:57-59` and
  `tests/test_bench.py:267` say that steps and `printd` output are identical under both
  representations. `printd(0 - 1)` prints -1 under one and the largest word under the
  other. `cross_repr` says what does hold, and until when.

### Other divergences met

They have no run of their own. Those with a set of programs, of `MC_SourcePrograms`, are
shown by giving that set as `Sources` in `nested_arguments.cfg`, and the property as its
invariant.

| where | what | how to see it |
|---|---|---|
| `lowering.py:330`, against `:14` | `g + bump(2)` reads `g` after bump has assigned it | `LeftOperand`, `OutputAsWritten` |
| `lowering.py:186`, against `:10` | the slot of a shadowing `x` is also that of a variable `x_1` | `OneSlotForTwo`, `OutputAsWritten` |
| `codegen/addresses.py:14`, `docs/ISA.md:30` | no recursion is assumed, and no stage rejects it: an inner call overwrites the variables of the outer one | `Recursion`, `OutputAsWritten` |
| `codegen.py:86`, `:123` | a function named `_init` is accepted and makes a duplicate label | `Typed!LabelNames`, `AcceptedCompiles` (give it a name of its own in `MC_SourcePrograms`, as `VoidVariable` has) |
| `lowering.py:129`, `docs/architecture.md:43` | a function that falls off its end leaves R0 as it was, and a bool7 holds a word that is neither 0 nor true | `Typed!MissingReturn`, `BoolsAreBoolean` |
| `vm/instructions.py:121`, `docs/ISA.md:94` | a return address that is no word wraps when it is stored | `vm_unsigned` with `WordWidth = 1`, `OnlyStoresDisturbCalls` |
| `bench/runner.py:107`, `cli/main.py:160-163` | with both representations the table and the warnings have the last result of each base only | `bench_session` with all results, of whatever representation, in `ReportsComplete` |
| `common/config.py:4` | the active configuration is said to be set once before compilation; each benchmark sets it | `Benchmark` |
| `base7.py:83` | in a balanced configuration a literal may be any unsigned word | `ReadByPosition` |
| `parser.py:296`, against `:12` | the grammar has at most one unary operator before a primary, the parser any number, as `tests/test_parser.py:452` wants | `Grammar` |
| `lexer/tokens.py:62-76`, against `docs/language.md:80`, `:96-100` | there are no operators `not`, `and` and `or`: they are identifiers, and negation is `!` | `Keywords`, `OperatorsOf`, `UnaryOperators` |
| `semantic/analyzer.py:226-234`, against `docs/language.md:183` | a parameter can be assigned like any variable | `Assignable` of `Analyzer` |

## Proofs

For every value of the constants that the assumptions admit. `WordsAssumption` and
`VMAssumption` say what `RadixConfig` checks, and of images what the assembler
guarantees: register operands are registers. `CompiledRunAssumption` says of IR
programs what lowering guarantees. `CrossRepr` demands an odd modulus, as the
balanced representation does; `Digits` the bases the command line takes.
`BenchSessionAssumption` and the one of `Lexer` say what arguments and sources are.
TLC evaluates all assumptions.

- `SeptaVM_proofs`: `Spec => []Inv` for `TypeOK`, `StackPointerInMemory`,
  `FlagsExclusive`, and `Spec => LimitReportedExactly`, `Spec => FaultFootprint`. The inductive
  invariant `IInv` is their conjunction: that `sp` stays in
  memory needs that a machine which has not failed on the stack has an
  address in `sp` (the checks come after the store and before the load); that
  memory holds words needs that stores are in range, which needs `sp`; and that the driver
  is between two steps with steps left (`DriverInStep`), from which `LimitReportedExactly`
  follows for each way a step can end.
  `StepKeepsIInv` has a lemma for each group of actions of one form. What is needed of
  `WrapWord` is that it is a word and leaves words alone (`WrapWordInWord`,
  `WrapWordOfWord`).
  About calls (`VMCalls`): `CallsAreDisturbedByStoresOnly`, `Spec => OnlyStoresDisturbCalls`
  if the addresses of the code are words; `CallsReturnIfStoresStayBelow`,
  `Spec /\ []StoresBelowStack => CallsReturn`. Every action maps to an action of
  `CallReturn` or a stutter under the sequence of cells above `sp`: CALL prepends to it,
  RET drops its head, and a store changes at most one entry, none if it stays
  at or below `sp`. That is the exact debt of the compiler: keep its stores
  below the stack. `static_slots` shows a program for which it does not.
- `CrossRepr_proofs`: `RepresentationsAgree`, `Spec => []MachinesAgree`. The
  invariant is that until a step has strayed both machines are well typed and
  agree. The heart is `WrapAgrees`: integers that differ by a multiple of the
  modulus wrap to words one of which is the reading of the other, so sums and
  differences of words that agree do. Then one lemma for each group of instructions;
  `Straying` is what each of them needs to take the same way in both machines.
- `CompiledRun_proofs`: for every IR program that `WellFormed` admits.
  - `CompiledCodeIsSafe`, `RunSpec /\ []StoresBelowStack => []NoCodeFault`, if the
    addresses of the code are words. The generated lines are `Enclosed`: after a line
    that does not stop there is another one of the same function. With what the
    first pass counts (`InstrLinesFound`) that gives `SafeImage`: an
    instruction is followed by one of its function unless it is RET or HALT, every
    branch leads to an instruction, and `_init` neither branches nor returns. The
    invariant `CInv` adds to that of the machine that control is `Placed`: `pc` and
    all pending return addresses are instructions, and the bottom of the calls is
    `_init`; so a RET always has a caller.
  - `SlotsAreDistinct`: two slots with one address are the same. `Cursor` grows
    (`CursorGrows`), a block lies between two of its values (`BlockAddress`), and in
    a block the last index of a slot determines it.
  - `CompiledStoresStayBelow`: the debt of the compiler is paid. Each ST writes below
    `NextFree`, so no store reaches the stack as long as the stack has not grown into
    the slots (`StackAboveSlots`) and `store[]` is written at its own addresses
    (`StoreInStore`). `CompiledCallsReturn`: under these two calls return, and
    `NoCodeFault` holds. They are part of `MemoryIsApart`, which `compiled_run` checks;
    `static_slots` is a program for which the first fails.
  - `CompiledIsCharted`, for the proofs below: an image can be read by the map that
    comes with it. The lines for an IR instruction are its `Unit`; each machine
    instruction is one of them, the next one is the next line that is no label, and a
    branch leads to the line after its label, the only one of that name.
- `CompiledIR_proofs`: for every such program, radix, memory size and step limit.
  - `CompiledCodeImplementsIR`, `RunSpec /\ []MemoryIsApart => ImplementsIR`, if the
    addresses of the code are words. The invariant `RInv` adds to `CInv` that at every
    line the registers and flags hold what the lines before it computed for the
    IR instruction (`Ready`), and that pending return addresses follow a call
    (`CallsPending`); `BeginsAlone` adds that the IR machine is at its beginning only
    with no calls pending, since `_init` is not called. Each machine instruction is then
    either a stutter that makes the next line ready (`SilentStep`), or that of the last
    line of an IR instruction and the IR machine's step (one lemma for each kind of
    IR instruction, for the prologue and for `_init`). That a write changes one slot
    only is `SlotsAreDistinct`, that it changes no return address
    `CompiledStoresStayBelow`; `store[]` lies below both. A run that ends by a fault or
    the limit is one the IR machine aborts.
  - `NoRecursionIsSafe`, `RunSpec /\ []StoreIsApart => []StaticAllocationIsSafe`, on
    the same condition on code addresses. Functions of a program without recursion have levels, each above those it calls. The
    invariant `DepthInv` says that with the calls pending the level of the function
    in control, and of every caller at its depth, is still left (`Bounded`), so that
    never more calls are pending than there are functions. It rests on the refinement:
    the frames are those of the IR machine, whose steps push and pop them one at a
    time; and the refinement rests on it, for the same step, which is why both are
    one invariant.
  - `NoRecursionIsRight`: such a program does what its IR means, its calls return and
    it ends by no fault of its code, with nothing assumed of the stack. The hypotheses
    are what the code leaves to its user: a recursive program fails them
    (`Recursion` of `MC_SourcePrograms`), one that fills its memory does (`static_slots`),
    and so does one with an index that leaves `store[]`, since LDR and STR check the end
    of memory only.
- `Digits_proofs`, for every base, width and both notations.
  `NumeralsRoundTrip`, `Spec => []RoundTrip`: the invariant says how parsing retraces
  formatting: each value of the format loop is base times the next plus its digit
  (`Traced`), and while its numeral is parsed `result` is, up to the sign,
  one of those values in reverse (`Retraced`). `NumeralsAreUnique`,
  `Spec => []NumeralsUnique`, from `UInv`: formatting goes backwards through the
  values that parsing the text went through (`Reads`, `Matched`), for value and
  digit are the one quotient and remainder by the base. That holds for texts without a letter
  of a larger base; a text that is a numeral but for leading zeros has no such letter, since
  formatting writes none (`WrittenNumeral`).
  `TextsAreReadByPosition`, `Spec => []ReadByPosition`, from `ReadInv`: `result` times
  the power of the place that is left is the sum of the places read (`Reading`), for the
  texts without a letter of a larger base.
- `BenchSession_proofs`, for all command lines, programs and outcomes. The
  invariant `IInv` has a part for each loop: `StartInv` and `CommandInv` say what
  the options taken so far were, in terms of the last of their kind in the command
  line; `OptionsInv` the same of those of `bench`; `BenchInv` that the results are those
  of the combinations passed, each under its configuration; `ShownInv` what was
  printed. From it `ProgramsRunAsRequested`, `ResultsAreOfTheirConfiguration`,
  `BenchmarksAreThoseRequested` and `ReportsLeaveNothingOut`. The third is about command lines
  whose last `--repr`, if there is one, is a list and so reaches `bench`; `bench_single_repr`
  is a command line for which it fails.
- `Lexer_proofs`, for every alphabet and source: `TokensAreLongest`, `SourceIsKept` and
  `ErrorsAreJustified`. The invariant `LInv` says that line and column are those of
  `pos`; that each token is the longest lexeme where it begins, with
  blanks and comments before it (`Scanned`); and for the loop the scanner is in, what it
  has read of the next token (`Scanning`).
- `Induction`: what recursive definitions need. A set of numbers that is not empty has a
  least element; from that induction for sets in place of predicates
  (`SetInduction`), and the equations of recursive functions (`Recursion`,
  `FiniteRecursion`, `LinearRecursion`).

Only model-checked:

- `RunEnds` and `Terminates`: liveness under fairness.
- `MemoryIsApart`: it is no theorem, for recursive programs and those with a wrong
  index of `store[]` break it; the run shows that it is no empty hypothesis. What it
  says of the stack follows from `StoreIsApart` where `NoRecursion` and `HasRoom` hold.
- `LoweredIsWellFormed`, `AcceptedCompiles`, `BoolsAreBoolean`, `OutputAsWritten`,
  `EndsAsWritten`, `ParsesTheGrammar`: what lowering, the analyzer, the parser and the
  meaning of a program compute is defined by recursion over trees, with operators
  the prover does not accept.

## Validation against the code

The models were compared with the program they model:

- `AddressMap`, `Codegen`, `Assembler`: for some three hundred IR programs (those of
  the runs, and random longer ones; bases 2 and 3, both representations) the
  images are equal, and the machine's final registers, memory, output, step count
  and outcome equal the model's, as they do for two thousand random images on the
  machine alone.
- `Lowering`: the same IR for 391 source programs. The real machine
  outputs what `SourceMeaning` says for all but the eleven of them that are out of
  order or share a slot.
- `Lexer`: the same tokens and errors for the 58,178 short texts of the run.
- `Parser`: the same trees and errors for the 73,866 token lists of the run.
- `Digits`: the same numerals, values and errors in 207,718 final states of
  instances with one notation each.
- `BenchSession`: 169,857 final states (those of the run, without the three command lines
  that have `--repr` twice and with one way for `compile` to end), against `main` with the
  outcome of programs replaced by the model's table: the same end, active configuration,
  output, results, table and warnings. The three were tried by hand.

## Not modelled, and what is left

- `Image`: reading and writing it as JSON, its version check, and the data section,
  which the machine never reads. The stages hand it on in memory.
- The text of assembly: comments, operand spelling, registers and addresses
  that do not exist. The generator never writes them; only a hand-written file could.
- A second `run` of one `Machine`, and the `reset` methods: no caller.
- Booleans in `CrossRepr`: true is another word in each representation, so the
  images differ.
- Of the command, file names, where `compile` writes, and the texts of messages; and what
  `int()` refuses: a `--base` that is no integer ends the command as one out of range does,
  a `--bases` raises.
- That `--base` has no effect on `bench`, which sets the base of each benchmark from
  `--bases`, is in the model and no property.
- Errors and source positions, but for those of tokens: they are carried to messages.

What could be added: a bound on the indices of `store[]`, which only an analysis of
values could give; for single programs `StoreIsApart` is decided by a run.
