---------------------------- MODULE BenchSession ----------------------------
(***************************************************************************)
(* One process of the septa command (septa/cli/main.py, bench/runner.py):  *)
(* its options, the active radix configuration, which is one variable of   *)
(* the whole process (common/config.py), and the benchmarks, which switch  *)
(* it.  What a program does when it is compiled and run is a table: its    *)
(* output under each configuration, or that it raises.                     *)
(*                                                                         *)
(* Arguments are records: option "base", "bases", "repr" or "none" and the *)
(* values between the commas; only "none" has a single word as its value.  *)
(***************************************************************************)
EXTENDS Integers, Sequences, FiniteSetsExt

CONSTANTS
    Names,          \* words of the command line: commands, files, representations
    CommandLines,   \* sequences of arguments
    Worlds,         \* functions from programs to functions from configurations
    Benchmarks      \* the programs of the directory benchmarks/, in order

Arg(option, values) == [option |-> option, values |-> values]

\* Options and their values: there is one before the first comma, if only an
\* empty one.
Arguments ==
    [option : {"base"},  values : {s \in Seq(Int) : Len(s) = 1}] \cup
    [option : {"bases"}, values : {s \in Seq(Int) : Len(s) > 0}] \cup
    [option : {"repr"},  values : {s \in Seq(Names) : Len(s) > 0}] \cup
    [option : {"none"},  values : {s \in Seq(Names) : Len(s) = 1}]

\* What an argument is as a command or a file.
WordOf(arg) == IF arg.option = "none" THEN arg.values[1] ELSE arg.option

Config(base, repr) == [base |-> base, balanced |-> repr = "balanced"]

DefaultConfig == Config(7, "unsigned")

ValidConfig(c) == c.base >= 2 /\ (c.balanced => c.base % 2 = 1)

Reprs == {"unsigned", "balanced"}

\* The bases --base may name.
Bases == 2 .. 10

\* Commands and files are words that are not options, and a program does
\* something under each configuration a process may be given.
ASSUME BenchSessionAssumption ==
    /\ Reprs \subseteq Names /\ {"base", "bases", "repr"} \cap Names = {}
    /\ CommandLines \subseteq Seq(Arguments)
    /\ Benchmarks \in Seq(Names)
    /\ \A world \in Worlds : \A program \in DOMAIN world :
          \A base \in Bases, repr \in Reprs :
             ValidConfig(Config(base, repr)) => Config(base, repr) \in DOMAIN world[program]

-----------------------------------------------------------------------------
VARIABLES
    argv,      \* the command line
    world,     \* what programs do
    active,    \* the active configuration
    stage,     \* where main is, or how it ended
    next,      \* the argument a loop over the options takes next
    args,      \* the arguments main passes on, the command first
    options,   \* what the options have set so far
    at,        \* the program, base and representation run_benchmarks is at
    results,   \* its results so far
    shown      \* what was printed: the output of a run, or table and warnings

vars == <<argv, world, active, stage, next, args, options, at, results, shown>>

input     == <<argv, world>>
parsing   == <<next, args, options>>
measuring == <<at, results>>

Nothing == [output |-> "none", table |-> <<>>, warned |-> {}]

DefaultOptions ==
    [base |-> 7, repr |-> "unsigned", bases |-> <<2, 3, 7, 10>>, reprs |-> <<"unsigned">>,
     programs |-> <<>>]

End(how) == stage' = how /\ UNCHANGED <<active, parsing, measuring, shown>>

-----------------------------------------------------------------------------
(* Options of the process.                                                 *)

\* A --repr with one value is for the process, one with several for bench.
IsBase(arg)  == arg.option = "base"
IsBases(arg) == arg.option = "bases"
IsRepr(arg)  == arg.option = "repr" /\ Len(arg.values) = 1
IsReprs(arg) == arg.option = "repr" /\ Len(arg.values) > 1
IsWord(arg)  == arg.option = "none"

\* Mutant: a second --base is without effect.
GlobalOption_FirstBase(o, arg) ==
    IF IsBase(arg) THEN [o EXCEPT !.base = IF @ = 7 THEN arg.values[1] ELSE @]
    ELSE IF IsRepr(arg) THEN [o EXCEPT !.repr = arg.values[1]]
    ELSE o

GlobalOption(o, arg) ==
    IF IsBase(arg) THEN [o EXCEPT !.base = arg.values[1]]
    ELSE IF IsRepr(arg) THEN [o EXCEPT !.repr = arg.values[1]]
    ELSE o

GlobalRefused(arg) ==
    \/ IsBase(arg) /\ arg.values[1] \notin Bases
    \/ IsRepr(arg) /\ arg.values[1] \notin Reprs

\* _parse_global_opts takes one argument, or refuses it.
TakeGlobalOption ==
    LET arg == argv[next] IN
    /\ stage = "start" /\ next <= Len(argv)
    /\ UNCHANGED input
    /\ IF GlobalRefused(arg) THEN End("exit")
       ELSE /\ options' = GlobalOption(options, arg)
            /\ args' = IF IsBase(arg) \/ IsRepr(arg) THEN args ELSE Append(args, arg)
            /\ next' = next + 1
            /\ UNCHANGED <<active, stage, measuring, shown>>

\* main: the configuration, which may be refused.
Configure ==
    LET config == Config(options.base, options.repr) IN
    /\ stage = "start" /\ next > Len(argv)
    /\ UNCHANGED input
    /\ IF argv = <<>> THEN End("done")
       ELSE IF ~ ValidConfig(config) THEN End("raised")
       ELSE /\ active' = config
            /\ stage' = IF args = <<>> THEN "done" ELSE "command"
            /\ UNCHANGED <<parsing, measuring, shown>>

Command(names) == stage = "command" /\ WordOf(args[1]) \in names

Inform ==
    /\ ~ Command({"run", "compile", "bench"}) /\ stage = "command"
    /\ End(IF WordOf(args[1]) \in {"version", "help"} THEN "done" ELSE "exit")
    /\ UNCHANGED input

\* There is no first argument behind the command, or it is no file.
NoProgram == Len(args) = 1 \/ (Len(args) > 1 /\ WordOf(args[2]) \notin DOMAIN world)

RunProgram ==
    /\ Command({"run"})
    /\ UNCHANGED input
    /\ IF NoProgram THEN End("exit")
       ELSE IF world[WordOf(args[2])][active] = "raises" THEN End("raised")
       ELSE /\ shown' = [shown EXCEPT !.output = world[WordOf(args[2])][active]]
            /\ stage' = "done"
            /\ UNCHANGED <<active, parsing, measuring>>

\* What compile prints is the image, not an output.  A program that raises does
\* so when it is compiled or not before it runs.
CompileProgram ==
    /\ Command({"compile"})
    /\ UNCHANGED input
    /\ IF NoProgram THEN End("exit")
       ELSE \/ End("done")
            \/ world[WordOf(args[2])][active] = "raises" /\ End("raised")

-----------------------------------------------------------------------------
(* Options of bench.                                                       *)

BeginBenchmarks ==
    /\ Command({"bench"})
    /\ stage' = "options" /\ next' = 2
    /\ UNCHANGED <<input, active, args, options, measuring, shown>>

BenchOption(o, arg) ==
    IF IsBases(arg) THEN [o EXCEPT !.bases = arg.values]
    ELSE IF arg.option = "repr" THEN [o EXCEPT !.reprs = arg.values]
    ELSE [o EXCEPT !.programs = Append(@, WordOf(arg))]

BenchRefused(arg) == arg.option = "repr" /\ ~ Range(arg.values) \subseteq Reprs

\* _cmd_bench takes one argument behind the command, or refuses it.
TakeBenchOption ==
    LET arg == args[next] IN
    /\ stage = "options" /\ next <= Len(args)
    /\ UNCHANGED input
    /\ IF BenchRefused(arg) THEN End("exit")
       ELSE /\ options' = BenchOption(options, arg)
            /\ next' = next + 1
            /\ UNCHANGED <<active, stage, args, measuring, shown>>

\* Without programs it takes those of the directory; run_benchmarks begins.
ChoosePrograms ==
    LET programs == IF options.programs = <<>> THEN Benchmarks ELSE options.programs IN
    /\ stage = "options" /\ next > Len(args)
    /\ UNCHANGED input
    /\ IF programs = <<>> THEN End("exit")
       ELSE /\ options' = [options EXCEPT !.programs = programs]
            /\ stage' = "bench" /\ at' = <<1, 1, 1>>
            /\ UNCHANGED <<active, next, args, results, shown>>

-----------------------------------------------------------------------------
(* run_benchmarks: one turn of the innermost of its three loops.           *)

Benchmarking == stage = "bench" /\ at[1] <= Len(options.programs)

Combination ==
    [program |-> options.programs[at[1]], base |-> options.bases[at[2]],
     repr |-> options.reprs[at[3]]]

\* The loops over programs, bases and representations, from outside inwards.
Following ==
    IF at[3] < Len(options.reprs) THEN <<at[1], at[2], at[3] + 1>>
    ELSE IF at[2] < Len(options.bases) THEN <<at[1], at[2] + 1, 1>>
    ELSE <<at[1] + 1, 1, 1>>

ConfigOf(c) == Config(c.base, c.repr)

Readable(c) == c.program \in DOMAIN world

\* Mutant: even bases are passed over whatever the representation.
Skipped_EvenBases(c) == c.base % 2 = 0

\* Balanced digits need an odd base: such a combination is passed over.
Skipped(c) == c.repr = "balanced" /\ c.base % 2 = 0

Skip ==
    /\ Benchmarking /\ Readable(Combination) /\ Skipped(Combination)
    /\ at' = Following
    /\ UNCHANGED <<input, active, stage, parsing, results, shown>>

\* Mutant: the configuration is set when the base changes.
Switched_ByBase(c) == IF active.base = c.base THEN active ELSE ConfigOf(c)

Switched(c) == ConfigOf(c)

Result(c, config) ==
    [program |-> c.program, base |-> c.base, repr |-> c.repr,
     output  |-> world[c.program][config]]

\* The configuration is set, then the program is compiled and run under it.
Benchmark ==
    LET c == Combination IN
    /\ Benchmarking /\ Readable(c) /\ ~ Skipped(c) /\ ValidConfig(ConfigOf(c))
    /\ active' = Switched(c)
    /\ IF Result(c, active').output = "raises"
       THEN stage' = "raised" /\ UNCHANGED measuring
       ELSE /\ results' = Append(results, Result(c, active'))
            /\ at' = Following
            /\ UNCHANGED stage
    /\ UNCHANGED <<input, parsing, shown>>

\* A file that cannot be read, or a base that RadixConfig refuses: set_config
\* is not reached.
Refuse ==
    LET c == Combination IN
    /\ Benchmarking
    /\ ~ Readable(c) \/ (~ Skipped(c) /\ ~ ValidConfig(ConfigOf(c)))
    /\ End("raised")
    /\ UNCHANGED input

FinishBenchmarks ==
    /\ stage = "bench" /\ at[1] > Len(options.programs)
    /\ active' = DefaultConfig
    /\ stage' = "report"
    /\ UNCHANGED <<input, parsing, measuring, shown>>

-----------------------------------------------------------------------------
\* Mutant: the last result of a base, whatever the program.
ResultFor_LastOfBase(program, base) ==
    results[Max({k \in DOMAIN results : results[k].base = base})]

\* Both reports look results up by program and base: the last one counts.
ResultFor(program, base) ==
    results[Max({k \in DOMAIN results : results[k].program = program /\
                                        results[k].base = base})]

Shown(program) == {results[k].base : k \in {n \in DOMAIN results :
                                              results[n].program = program}}

Table == [program \in {r.program : r \in Range(results)} |->
             [base \in Shown(program) |-> ResultFor(program, base)]]

Warned == {program \in DOMAIN Table :
              \E b1, b2 \in Shown(program) :
                 Table[program][b1].output # Table[program][b2].output}

\* format_table takes the maximum over the programs: without results it raises.
Report ==
    /\ stage = "report"
    /\ UNCHANGED input
    /\ IF results = <<>> THEN End("raised")
       ELSE /\ shown' = [shown EXCEPT !.table = Table, !.warned = Warned]
            /\ stage' = "done"
            /\ UNCHANGED <<active, parsing, measuring>>

Init ==
    /\ argv \in CommandLines /\ world \in Worlds
    /\ active = DefaultConfig
    /\ stage = "start" /\ next = 1 /\ args = <<>> /\ options = DefaultOptions
    /\ at = <<1, 1, 1>> /\ results = <<>> /\ shown = Nothing

Next ==
    \/ TakeGlobalOption \/ Configure
    \/ Inform \/ RunProgram \/ CompileProgram
    \/ BeginBenchmarks \/ TakeBenchOption \/ ChoosePrograms
    \/ Skip \/ Benchmark \/ Refuse \/ FinishBenchmarks \/ Report

Spec == Init /\ [][Next]_vars

-----------------------------------------------------------------------------
(* What the command line asks for.                                         *)

\* The values of the last of the options at these positions of argv.
LastOption(positions, default) ==
    IF positions = {} THEN default ELSE argv[Max(positions)].values

BaseAt  == {k \in DOMAIN argv : IsBase(argv[k])}
BasesAt == {k \in DOMAIN argv : IsBases(argv[k])}
ReprAt  == {k \in DOMAIN argv : IsRepr(argv[k])}
ReprsAt == {k \in DOMAIN argv : IsReprs(argv[k])}
WordsAt == {k \in DOMAIN argv : IsWord(argv[k])}

Requested == Config(LastOption(BaseAt, <<7>>)[1], LastOption(ReprAt, <<"unsigned">>)[1])

\* A program runs under the configuration of the last --base and --repr, and
\* the output printed is the one it has under that configuration.
RunsAsRequested ==
    shown.output # "none" =>
        /\ Requested \in DOMAIN world[WordOf(args[2])]
        /\ shown.output = world[WordOf(args[2])][Requested]

\* Each result was measured under the configuration it is labelled with,
\* whatever was active before: the program, the base and the representation
\* of the row belong to its output.
ResultsBelong ==
    \A k \in DOMAIN results :
        results[k].output = world[results[k].program][ConfigOf(results[k])]

\* The words behind the command, or the directory if it is the only one.
RequestedPrograms ==
    LET behind == {k \in WordsAt : \E j \in WordsAt : j < k} IN
    IF behind = {} THEN Range(Benchmarks) ELSE {WordOf(argv[k]) : k \in behind}

RequestedBases == Range(LastOption(BasesAt, DefaultOptions.bases))

\* The values of the last --repr, be it one or several: "--repr=MODE" sets the
\* representation, "--repr=unsigned,balanced" those of bench (main.py:6, :12).
RequestedReprs ==
    Range(LastOption({k \in DOMAIN argv : argv[k].option = "repr"}, DefaultOptions.reprs))

Reported == stage = "done" /\ results # <<>>

\* There is a result for each program, each base and each representation the
\* command line names, but balanced even bases.
BenchmarksMatch ==
    {<<r.program, r.base, r.repr>> : r \in Range(results)} =
        {c \in RequestedPrograms \X RequestedBases \X RequestedReprs :
            c[3] = "unsigned" \/ c[2] % 2 = 1}

\* What the usage text says: when all is reported, it is what the command line
\* names.  A --repr with one value is taken by main and never reaches bench, so
\* that bench --repr=balanced measures unsigned.
EveryReprBenchmarked == Reported => BenchmarksMatch

\* Every --repr with one value is followed by one with several.
ReprsReachBench == \A k \in ReprAt : \E j \in ReprsAt : j > k

\* Where the last --repr, if there is one, is a list, what is reported is what the
\* command line names: the last --bases and --repr count, before or after the
\* command, every program is benchmarked under every combination of theirs, and
\* none is lost in the loops, whatever is passed over in them.
RequestedBenchmarked == Reported /\ ReprsReachBench => BenchmarksMatch

\* Where all results are of one representation the table has all of them, and
\* a program is warned of exactly if two bases gave different outputs.
ReportsComplete ==
    Reported /\ (\A r1, r2 \in Range(results) : r1.repr = r2.repr) =>
        /\ Range(results) = UNION {{shown.table[p][b] : b \in DOMAIN shown.table[p]} :
                                     p \in DOMAIN shown.table}
        /\ shown.warned = {p \in DOMAIN world :
               \E r, q \in {r \in Range(results) : r.program = p} : r.output # q.output}
=============================================================================
