------------------------ MODULE BenchSession_proofs ------------------------
(***************************************************************************)
(* For all command lines, programs and behaviours of programs: a program   *)
(* runs under the configuration the last options ask for, the benchmarks   *)
(* that are reported are those that were asked for, each measured under    *)
(* the configuration it is labelled with, and the report has all of them.  *)
(***************************************************************************)
EXTENDS BenchSession, Induction

-----------------------------------------------------------------------------
(* The inductive invariant.                                                *)

\* v is the value of the last of the options at these positions of s before
\* position n.
Latest(s, positions, n, default, v) ==
    \/ v = default /\ \A k \in positions : k >= n
    \/ \E k \in positions : /\ k < n /\ v = s[k].values
                            /\ \A j \in positions : j > k => j >= n

\* The results there can be, each with the output of its configuration.
Rows == {[program |-> p, base |-> b, repr |-> r, output |-> world[p][Config(b, r)]] :
            p \in Names, b \in Int, r \in Names}

OptionValues ==
    [base : Int, repr : Names, bases : {s \in Seq(Int) : Len(s) > 0},
     reprs : {s \in Seq(Names) : Len(s) > 0}, programs : Seq(Names)]

Typed ==
    /\ argv \in Seq(Arguments) /\ args \in Seq(Arguments) /\ world \in Worlds
    /\ next \in Nat /\ next > 0
    /\ options \in OptionValues
    /\ at \in Nat \X Nat \X Nat
    /\ results \in Seq(Rows)

\* The arguments of argv before n that are passed on are those of args, in
\* their order: position i of args is position place[i] of argv.
PassedAt == DOMAIN argv \ (BaseAt \cup ReprAt)

Places(place, n) ==
    /\ \A i \in DOMAIN args : place[i] \in PassedAt /\ place[i] < n /\ args[i] = argv[place[i]]
    /\ \A i, j \in DOMAIN args : i < j => place[i] < place[j]
    /\ \A k \in PassedAt : k < n => \E i \in DOMAIN args : place[i] = k

Passed(n) == \E place \in [DOMAIN args -> DOMAIN argv] : Places(place, n)

BenchDefaults ==
    /\ options.bases = DefaultOptions.bases /\ options.reprs = DefaultOptions.reprs
    /\ options.programs = <<>>

StartInv ==
    stage = "start" =>
        /\ next <= Len(argv) + 1
        /\ options.base \in Bases /\ options.repr \in Reprs
        /\ Latest(argv, BaseAt, next, <<7>>, <<options.base>>)
        /\ Latest(argv, ReprAt, next, <<"unsigned">>, <<options.repr>>)
        /\ BenchDefaults /\ Passed(next)

CommandInv ==
    stage = "command" =>
        /\ \E base \in Bases, repr \in Reprs : Requested = Config(base, repr)
        /\ active = Requested /\ ValidConfig(active)
        /\ BenchDefaults /\ Passed(Len(argv) + 1) /\ args # <<>>

\* The options of bench among the arguments passed on.
BasesIn == {k \in DOMAIN args : IsBases(args[k])}
ReprsIn == {k \in DOMAIN args : args[k].option = "repr"}
WordsIn == {k \in DOMAIN args : IsWord(args[k])}

OptionsInv ==
    stage = "options" =>
        /\ 1 < next /\ next <= Len(args) + 1 /\ 1 \in WordsIn
        /\ Latest(args, BasesIn, next, DefaultOptions.bases, options.bases)
        /\ Latest(args, ReprsIn, next, DefaultOptions.reprs, options.reprs)
        /\ Range(options.reprs) \subseteq Reprs
        /\ Range(options.programs) = {WordOf(args[k]) : k \in {k \in WordsIn : 1 < k /\ k < next}}
        /\ Passed(Len(argv) + 1)

\* The turns of the three loops, those before the present one, and what a
\* result of one is labelled with.
Turns == (1 .. Len(options.programs)) \X (1 .. Len(options.bases)) \X (1 .. Len(options.reprs))

Before(t) ==
    \/ t[1] < at[1]
    \/ t[1] = at[1] /\ t[2] < at[2]
    \/ t[1] = at[1] /\ t[2] = at[2] /\ t[3] < at[3]

Kept(t) == options.reprs[t[3]] # "balanced" \/ options.bases[t[2]] % 2 # 0

IsOf(r, t) ==
    /\ r.program = options.programs[t[1]] /\ r.base = options.bases[t[2]]
    /\ r.repr = options.reprs[t[3]]

BenchInv ==
    stage \in {"bench", "report"} \/ Reported =>
        /\ Range(options.programs) = RequestedPrograms
        /\ options.bases = LastOption(BasesAt, DefaultOptions.bases)
        /\ options.reprs = LastOption(ReprsAt, DefaultOptions.reprs)
        /\ Range(options.reprs) \subseteq Reprs
        /\ at[1] > 0 /\ at[2] \in 1 .. Len(options.bases) /\ at[3] \in 1 .. Len(options.reprs)
        /\ stage # "bench" => at[1] > Len(options.programs)
        /\ \A k \in DOMAIN results :
              /\ results[k].program \in DOMAIN world
              /\ \E t \in Turns : Before(t) /\ Kept(t) /\ IsOf(results[k], t)
        /\ \A t \in Turns : Before(t) /\ Kept(t) => \E k \in DOMAIN results : IsOf(results[k], t)

ShownInv ==
    /\ stage # "done" => shown = Nothing
    /\ results # <<>> => stage \in {"bench", "report", "done", "raised"}
    /\ Reported => shown.table = Table /\ shown.warned = Warned
    /\ RunsAsRequested

IInv == Typed /\ StartInv /\ CommandInv /\ OptionsInv /\ BenchInv /\ ShownInv

-----------------------------------------------------------------------------
(* Facts about arguments, sequences and the last of an option.             *)

\* What the values of an option are.
LEMMA ArgumentFacts ==
    ASSUME NEW arg \in Arguments
    PROVE  /\ arg.option \in {"base", "bases", "repr", "none"}
           /\ IsBase(arg) => arg.values = <<arg.values[1]>> /\ arg.values[1] \in Int
           /\ IsBases(arg) => arg.values \in {s \in Seq(Int) : Len(s) > 0}
           /\ arg.option = "repr" =>
                 /\ arg.values \in {s \in Seq(Names) : Len(s) > 0}
                 /\ IsRepr(arg) <=> ~ IsReprs(arg)
           /\ IsRepr(arg) => arg.values = <<arg.values[1]>> /\ arg.values[1] \in Names
           /\ IsWord(arg) => WordOf(arg) \in Names
<1>1. CASE arg \in [option : {"base"},  values : {s \in Seq(Int) : Len(s) = 1}]
  BY <1>1 DEF IsBase, IsBases, IsRepr, IsReprs, IsWord
<1>2. CASE arg \in [option : {"bases"},  values : {s \in Seq(Int) : Len(s) > 0}]
  BY <1>2 DEF IsBase, IsBases, IsRepr, IsReprs, IsWord
<1>3. CASE arg \in [option : {"repr"},  values : {s \in Seq(Names) : Len(s) > 0}]
  <2>1. arg.option = "repr" /\ arg.values \in {s \in Seq(Names) : Len(s) > 0}
    BY <1>3
  <2>2. /\ arg.values[1] \in Names /\ (Len(arg.values) = 1 => arg.values = <<arg.values[1]>>)
        /\ Len(arg.values) \in Nat /\ Len(arg.values) > 0
    BY <2>1
  <2>3. ~ IsBase(arg) /\ ~ IsBases(arg) /\ ~ IsWord(arg)
    BY <2>1 DEF IsBase, IsBases, IsWord
  <2>4. IsRepr(arg) <=> ~ IsReprs(arg)
    <3>1. \A n \in Nat : n > 0 => (n = 1 <=> ~ (n > 1))
      OBVIOUS
    <3>2. Len(arg.values) = 1 <=> ~ (Len(arg.values) > 1)
      BY <2>2, <3>1, Zenon
    <3> QED
      BY <2>1, <3>2 DEF IsRepr, IsReprs
  <2> QED
    BY <2>1, <2>2, <2>3, <2>4 DEF IsRepr
<1>4. CASE arg \in [option : {"none"},  values : {s \in Seq(Names) : Len(s) = 1}]
  <2>1. arg.option = "none" /\ arg.values[1] \in Names
    BY <1>4
  <2> QED
    BY <2>1 DEF IsBase, IsBases, IsRepr, IsReprs, IsWord, WordOf
<1> QED
  BY <1>1, <1>2, <1>3, <1>4 DEF Arguments

\* The largest of some positions in a sequence.
LEMMA LargestPosition ==
    ASSUME NEW n \in Nat, NEW positions \in SUBSET (1 .. n), positions # {}
    PROVE  /\ Max(positions) \in positions
           /\ \A k \in positions : k <= Max(positions)
<1>1. \E m \in positions : \A k \in positions : k <= m
  <2>1. positions \in SUBSET Nat /\ \A k \in positions : k <= n
    OBVIOUS
  <2> QED
    BY <2>1, NatMaximum
<1>2. \E m \in positions : \A k \in positions : m >= k
  BY <1>1
<1> QED
  BY <1>2 DEF Max

\* Latest before the end is LastOption, over argv.
LEMMA LatestIsLast ==
    ASSUME argv \in Seq(Arguments), NEW positions \in SUBSET DOMAIN argv, NEW default, NEW v,
           NEW n \in Nat, n > Len(argv), Latest(argv, positions, n, default, v)
    PROVE  v = LastOption(positions, default)
<1>1. CASE positions = {}
  BY <1>1 DEF Latest, LastOption
<1>2. CASE positions # {}
  <2>1. positions \in SUBSET (1 .. Len(argv)) /\ Len(argv) \in Nat
    OBVIOUS
  <2>2. Max(positions) \in positions /\ \A k \in positions : k <= Max(positions)
    BY <1>2, <2>1, LargestPosition
  <2>3. PICK k \in positions : v = argv[k].values /\ \A j \in positions : j > k => j >= n
    BY <2>1, <1>2 DEF Latest
  <2>4. k = Max(positions)
    BY <2>1, <2>2, <2>3
  <2> QED
    BY <2>3, <2>4, <1>2 DEF LastOption
<1> QED
  BY <1>1, <1>2

\* One position further: the option is there or it is not.
LEMMA LatestNext ==
    ASSUME NEW s, NEW positions \in SUBSET Nat, NEW n \in Nat, NEW default, NEW v
    PROVE  /\ n \in positions => Latest(s, positions, n + 1, default, s[n].values)
           /\ n \notin positions /\ Latest(s, positions, n, default, v) =>
                 Latest(s, positions, n + 1, default, v)
           /\ (\A k \in positions : k >= n) => Latest(s, positions, n, default, default)
  BY DEF Latest

\* Appending to a sequence adds the element to its range.
LEMMA AppendRange ==
    ASSUME NEW S, NEW s \in Seq(S), NEW x \in S
    PROVE  /\ Append(s, x) \in Seq(S) /\ Len(Append(s, x)) = Len(s) + 1
           /\ \A k \in DOMAIN s : k \in DOMAIN Append(s, x) /\ Append(s, x)[k] = s[k]
           /\ Append(s, x)[Len(s) + 1] = x
           /\ DOMAIN Append(s, x) = DOMAIN s \cup {Len(s) + 1}
           /\ Range(Append(s, x)) = Range(s) \cup {x}
<1>1. /\ Append(s, x) \in Seq(S) /\ Len(Append(s, x)) = Len(s) + 1
      /\ \A k \in DOMAIN s : k \in DOMAIN Append(s, x) /\ Append(s, x)[k] = s[k]
      /\ Append(s, x)[Len(s) + 1] = x
      /\ DOMAIN Append(s, x) = DOMAIN s \cup {Len(s) + 1}
  OBVIOUS
<1> QED
  BY <1>1 DEF Range

-----------------------------------------------------------------------------
(* Each step keeps the invariant.                                          *)

\* What is said of the command line does not change.
LEMMA SameInput ==
    ASSUME UNCHANGED input
    PROVE  /\ BaseAt' = BaseAt /\ BasesAt' = BasesAt /\ ReprAt' = ReprAt /\ ReprsAt' = ReprsAt
           /\ WordsAt' = WordsAt /\ PassedAt' = PassedAt
           /\ Requested' = Requested /\ RequestedPrograms' = RequestedPrograms
           /\ LastOption(BasesAt, DefaultOptions.bases)' = LastOption(BasesAt, DefaultOptions.bases)
           /\ LastOption(ReprsAt, DefaultOptions.reprs)' = LastOption(ReprsAt, DefaultOptions.reprs)
           /\ Rows' = Rows
<1>1. argv' = argv /\ world' = world
  BY DEF input
<1>2. /\ BaseAt' = BaseAt /\ BasesAt' = BasesAt /\ ReprAt' = ReprAt /\ ReprsAt' = ReprsAt
      /\ WordsAt' = WordsAt /\ PassedAt' = PassedAt
  BY <1>1 DEF BaseAt, BasesAt, ReprAt, ReprsAt, WordsAt, PassedAt
<1> QED
  BY <1>1, <1>2 DEF Requested, RequestedPrograms, LastOption, Rows

LEMMA InitIInv == Init => IInv
<1> SUFFICES ASSUME Init PROVE IInv
  OBVIOUS
<1>1. /\ argv \in CommandLines /\ world \in Worlds /\ active = DefaultConfig
      /\ stage = "start" /\ next = 1 /\ args = <<>> /\ options = DefaultOptions
      /\ at = <<1, 1, 1>> /\ results = <<>> /\ shown = Nothing
  BY DEF Init
<1>2. Typed
  <2>1. options \in OptionValues
    BY <1>1, BenchSessionAssumption DEF DefaultOptions, OptionValues, Reprs
  <2> QED
    BY <1>1, <2>1, BenchSessionAssumption DEF Typed
<1>3. StartInv
  <2>1. BaseAt \in SUBSET Nat /\ ReprAt \in SUBSET Nat
        /\ (\A k \in BaseAt : k >= 1) /\ (\A k \in ReprAt : k >= 1)
        /\ (\A k \in PassedAt : k \in Nat /\ k >= 1)
    BY <1>2 DEF Typed, BaseAt, ReprAt, PassedAt
  <2>2. Latest(argv, BaseAt, 1, <<7>>, <<7>>) /\ Latest(argv, ReprAt, 1, <<"unsigned">>, <<"unsigned">>)
    BY <2>1 DEF Latest
  <2>3. DOMAIN args = {}
    BY <1>1
  <2>4. Passed(1)
    <3> DEFINE place == [i \in DOMAIN args |-> CHOOSE k \in DOMAIN argv : TRUE]
    <3>1. place \in [DOMAIN args -> DOMAIN argv]
      BY <2>3
    <3>2. \A k \in PassedAt : ~ (k < 1)
      BY <2>1
    <3>3. Places(place, 1)
      BY <2>3, <3>2 DEF Places
    <3> QED
      BY <3>1, <3>3 DEF Passed
  <2> QED
    BY <1>1, <1>2, <2>2, <2>4 DEF StartInv, Typed, DefaultOptions, BenchDefaults, Bases, Reprs
<1> QED
  BY <1>1, <1>2, <1>3
     DEF IInv, CommandInv, OptionsInv, BenchInv, ShownInv, Reported, RunsAsRequested, Nothing

\* main ends, and the results that there are will not be reported.
LEMMA EndKeepsIInv ==
    ASSUME IInv, UNCHANGED input, NEW how \in {"done", "exit", "raised"}, End(how),
           stage # "done", results = <<>> \/ how = "raised"
    PROVE  IInv'
<1>1. /\ argv' = argv /\ world' = world /\ stage' = how /\ active' = active /\ next' = next
      /\ args' = args /\ options' = options /\ at' = at /\ results' = results /\ shown' = shown
  BY DEF End, input, parsing, measuring
<1>2. shown = Nothing
  BY DEF IInv, ShownInv
<1>3. Typed'
  BY <1>1, SameInput DEF IInv, Typed
<1>4. ShownInv'
  BY <1>1, <1>2 DEF ShownInv, Reported, RunsAsRequested, Nothing
<1> QED
  BY <1>1, <1>3, <1>4 DEF IInv, StartInv, CommandInv, OptionsInv, BenchInv, Reported

LEMMA TakeGlobalOptionKeepsIInv == IInv /\ TakeGlobalOption => IInv'
<1> DEFINE arg == argv[next]
<1> SUFFICES ASSUME IInv, TakeGlobalOption PROVE IInv'
  OBVIOUS
<1>1. /\ stage = "start" /\ next \in DOMAIN argv /\ argv \in Seq(Arguments) /\ arg \in Arguments
      /\ shown = Nothing /\ results = <<>> /\ UNCHANGED input /\ argv' = argv /\ world' = world
  BY DEF TakeGlobalOption, IInv, Typed, ShownInv, input
<1>2. CASE GlobalRefused(arg)
  BY <1>1, <1>2, EndKeepsIInv DEF TakeGlobalOption
<1>3. CASE ~ GlobalRefused(arg)
  <2>1. /\ options' = GlobalOption(options, arg) /\ next' = next + 1 /\ stage' = "start"
        /\ args' = IF IsBase(arg) \/ IsRepr(arg) THEN args ELSE Append(args, arg)
        /\ at' = at /\ results' = results /\ shown' = shown
    BY <1>1, <1>3 DEF TakeGlobalOption, measuring
  <2>2. /\ IsBase(arg) => arg.values = <<arg.values[1]>> /\ arg.values[1] \in Int /\ arg.values[1] \in Bases
        /\ IsRepr(arg) => arg.values = <<arg.values[1]>> /\ arg.values[1] \in Names /\ arg.values[1] \in Reprs
        /\ ~ (IsBase(arg) /\ IsRepr(arg))
    BY <1>1, <1>3, ArgumentFacts DEF GlobalRefused, IsBase, IsRepr
  <2>3. options \in OptionValues
    BY DEF IInv, Typed
  <2>4. /\ options' \in OptionValues
        /\ options'.base = IF IsBase(arg) THEN arg.values[1] ELSE options.base
        /\ options'.repr = IF IsRepr(arg) THEN arg.values[1] ELSE options.repr
        /\ options'.bases = options.bases /\ options'.reprs = options.reprs
        /\ options'.programs = options.programs
    <3>1. CASE IsBase(arg)
      BY <3>1, <2>1, <2>2, <2>3 DEF GlobalOption, OptionValues
    <3>2. CASE IsRepr(arg)
      BY <3>2, <2>1, <2>2, <2>3 DEF GlobalOption, OptionValues
    <3>3. CASE ~ IsBase(arg) /\ ~ IsRepr(arg)
      BY <3>3, <2>1, <2>3 DEF GlobalOption, OptionValues
    <3> QED
      BY <3>1, <3>2, <3>3
  <2>5. Typed'
    <3>1. args' \in Seq(Arguments)
      BY <2>1, <1>1, AppendRange DEF IInv, Typed
    <3> QED
      BY <3>1, <2>1, <2>4, <1>1, SameInput DEF IInv, Typed
  <2>6. /\ BaseAt \in SUBSET Nat /\ ReprAt \in SUBSET Nat /\ next \in Nat
        /\ next \in BaseAt <=> IsBase(arg)
        /\ next \in ReprAt <=> IsRepr(arg)
    BY <1>1 DEF BaseAt, ReprAt
  <2>7. /\ Latest(argv, BaseAt, next + 1, <<7>>, <<options'.base>>)
        /\ Latest(argv, ReprAt, next + 1, <<"unsigned">>, <<options'.repr>>)
    <3>1. /\ Latest(argv, BaseAt, next, <<7>>, <<options.base>>)
          /\ Latest(argv, ReprAt, next, <<"unsigned">>, <<options.repr>>)
      BY <1>1 DEF IInv, StartInv
    <3> QED
      BY <3>1, <2>2, <2>4, <2>6, LatestNext
  <2>8. Passed(next)'
    <3>1. PICK place \in [DOMAIN args -> DOMAIN argv] : Places(place, next)
      BY <1>1 DEF IInv, StartInv, Passed
    <3>2. next \in PassedAt <=> ~ (IsBase(arg) \/ IsRepr(arg))
      BY <1>1, <2>6 DEF PassedAt
    <3>3. PassedAt' = PassedAt /\ PassedAt \subseteq Nat
      BY <1>1, SameInput DEF PassedAt
    <3>4. CASE next \notin PassedAt
      <4>1. args' = args
        BY <3>2, <3>4, <2>1
      <4>2. Places(place, next)'
        BY <4>1, <3>1, <3>3, <3>4, <1>1, <2>1 DEF Places
      <4> QED
        BY <4>1, <4>2, <1>1 DEF Passed
    <3>5. CASE next \in PassedAt
      <4> DEFINE extended == [i \in DOMAIN args' |-> IF i \in DOMAIN args THEN place[i] ELSE next]
      <4>1. args' = Append(args, arg) /\ args \in Seq(Arguments)
        BY <3>2, <3>5, <2>1 DEF IInv, Typed
      <4>2. /\ DOMAIN args' = DOMAIN args \cup {Len(args) + 1} /\ args'[Len(args) + 1] = arg
            /\ \A i \in DOMAIN args : args'[i] = args[i]
        BY <4>1, <1>1, AppendRange
      <4>3. DOMAIN args = 1 .. Len(args) /\ Len(args) \in Nat
        BY <4>1
      <4>4. extended \in [DOMAIN args' -> DOMAIN argv]
        BY <1>1, <4>2
      <4>5. \A i \in DOMAIN args : extended[i] = place[i]
        BY <4>2
      <4>6. extended[Len(args) + 1] = next
        BY <4>2, <4>3
      <4> HIDE DEF extended
      <4>7. \A i \in DOMAIN args' :
               extended[i] \in PassedAt /\ extended[i] < next + 1 /\ args'[i] = argv[extended[i]]
        <5>1. ASSUME NEW i \in DOMAIN args
              PROVE  /\ extended[i] \in PassedAt /\ extended[i] < next + 1
                     /\ args'[i] = argv[extended[i]]
          <6>1. place[i] \in PassedAt /\ place[i] < next /\ args[i] = argv[place[i]]
            BY <3>1 DEF Places
          <6>2. place[i] \in Nat
            BY <6>1, <3>3
          <6>3. \A m \in Nat : m < next => m < next + 1
            BY <2>6
          <6> QED
            BY <6>1, <6>2, <6>3, <4>2, <4>5
        <5>2. next < next + 1
          BY <2>6
        <5> QED
          BY <5>1, <5>2, <4>2, <4>6, <3>5
      <4>8. \A i, j \in DOMAIN args' : i < j => extended[i] < extended[j]
        BY <4>2, <4>3, <4>5, <4>6, <3>1 DEF Places
      <4>9. \A k \in PassedAt : k < next + 1 => \E i \in DOMAIN args' : extended[i] = k
        <5> SUFFICES ASSUME NEW k \in PassedAt, k < next + 1
                     PROVE  \E i \in DOMAIN args' : extended[i] = k
          OBVIOUS
        <5>1. k < next \/ k = next
          BY <3>3, <2>6
        <5> QED
          BY <5>1, <4>2, <4>5, <4>6, <3>1 DEF Places
      <4>10. PICK new \in [DOMAIN args' -> DOMAIN argv] : new = extended
        BY <4>4
      <4>11. Places(new, next)'
        BY <4>7, <4>8, <4>9, <4>10, <3>3, <1>1, <2>1 DEF Places
      <4> QED
        BY <4>10, <4>11, <1>1 DEF Passed
    <3> QED
      BY <3>4, <3>5
  <2>9. StartInv'
    <3>1. /\ next' <= Len(argv') + 1 /\ options'.base \in Bases /\ options'.repr \in Reprs
          /\ BenchDefaults'
      BY <1>1, <2>1, <2>2, <2>4 DEF IInv, StartInv, BenchDefaults
    <3>2. /\ Latest(argv, BaseAt, next, <<7>>, <<options.base>>)'
          /\ Latest(argv, ReprAt, next, <<"unsigned">>, <<options.repr>>)'
      BY <2>7, <2>1, <1>1, SameInput DEF Latest
    <3> QED
      BY <3>1, <3>2, <2>8 DEF StartInv
  <2> QED
    BY <1>1, <2>1, <2>5, <2>9
       DEF IInv, CommandInv, OptionsInv, BenchInv, ShownInv, Reported, RunsAsRequested, Nothing
<1> QED
  BY <1>2, <1>3

LEMMA ConfigureKeepsIInv == IInv /\ Configure => IInv'
<1> DEFINE config == Config(options.base, options.repr)
<1> SUFFICES ASSUME IInv, Configure PROVE IInv'
  OBVIOUS
<1>1. /\ stage = "start" /\ next > Len(argv) /\ argv \in Seq(Arguments) /\ next \in Nat
      /\ shown = Nothing /\ results = <<>> /\ UNCHANGED input /\ argv' = argv /\ world' = world
  BY DEF Configure, IInv, Typed, ShownInv, input
<1>2. CASE argv = <<>> \/ ~ ValidConfig(config)
  BY <1>1, <1>2, EndKeepsIInv DEF Configure
<1>3. CASE ~ (argv = <<>> \/ ~ ValidConfig(config))
  <2>1. /\ active' = config /\ stage' = IF args = <<>> THEN "done" ELSE "command"
        /\ next' = next /\ args' = args /\ options' = options /\ at' = at
        /\ results' = results /\ shown' = shown
    BY <1>1, <1>3 DEF Configure, parsing, measuring
  <2>2. BaseAt \in SUBSET DOMAIN argv /\ ReprAt \in SUBSET DOMAIN argv
    BY DEF BaseAt, ReprAt
  <2>3. /\ <<options.base>> = LastOption(BaseAt, <<7>>)
        /\ <<options.repr>> = LastOption(ReprAt, <<"unsigned">>)
    BY <1>1, <2>2, LatestIsLast DEF IInv, StartInv
  <2>4. config = Requested
    BY <2>3 DEF Requested
  <2>5. next = Len(argv) + 1
    BY <1>1 DEF IInv, StartInv
  <2>6. Passed(Len(argv) + 1)'
    BY <1>1, <2>1, <2>5, SameInput DEF IInv, StartInv, Passed, Places
  <2>7. /\ BenchDefaults /\ options.base \in Bases /\ options.repr \in Reprs
    BY <1>1 DEF IInv, StartInv
  <2>8. CommandInv'
    <3>1. stage' = "command" => args' # <<>>
      BY <2>1
    <3>2. active' = Requested' /\ ValidConfig(active')
      BY <1>1, <1>3, <2>1, <2>4, SameInput
    <3>3. \E base \in Bases, repr \in Reprs : Requested' = Config(base, repr)
      BY <2>4, <2>7, <1>1, SameInput
    <3>4. BenchDefaults'
      BY <2>1, <2>7 DEF BenchDefaults
    <3> QED
      BY <3>1, <3>2, <3>3, <3>4, <2>6 DEF CommandInv
  <2>9. Typed'
    BY <1>1, <2>1, SameInput DEF IInv, Typed
  <2> QED
    BY <1>1, <2>1, <2>8, <2>9
       DEF IInv, StartInv, OptionsInv, BenchInv, ShownInv, Reported, RunsAsRequested, Nothing
<1> QED
  BY <1>2, <1>3

\* What holds when main has chosen the command.
LEMMA CommandFacts ==
    ASSUME IInv, stage = "command", UNCHANGED input
    PROVE  /\ args \in Seq(Arguments) /\ args # <<>> /\ shown = Nothing /\ results = <<>>
           /\ argv' = argv /\ world' = world
  BY DEF IInv, Typed, CommandInv, ShownInv, input

LEMMA InformKeepsIInv == IInv /\ Inform => IInv'
<1> SUFFICES ASSUME IInv, Inform PROVE IInv'
  OBVIOUS
<1>1. stage = "command" /\ UNCHANGED input
  BY DEF Inform
<1> QED
  BY <1>1, CommandFacts, EndKeepsIInv DEF Inform

\* The configuration is still the one main has set.
LEMMA RunProgramKeepsIInv == IInv /\ RunProgram => IInv'
<1> DEFINE file == WordOf(args[2])
<1> SUFFICES ASSUME IInv, RunProgram PROVE IInv'
  OBVIOUS
<1>1. stage = "command" /\ UNCHANGED input
  BY DEF RunProgram, Command
<1>2. /\ args \in Seq(Arguments) /\ args # <<>> /\ shown = Nothing /\ results = <<>>
      /\ argv' = argv /\ world' = world
  BY <1>1, CommandFacts
<1>3. CASE End("exit") \/ End("raised")
  BY <1>1, <1>2, <1>3, EndKeepsIInv
<1>4. CASE ~ (End("exit") \/ End("raised"))
  <2>1. /\ file \in DOMAIN world
        /\ shown' = [shown EXCEPT !.output = world[file][active]] /\ stage' = "done"
        /\ active' = active /\ next' = next /\ args' = args /\ options' = options
        /\ at' = at /\ results' = results
    <3>1. Len(args) # 1 /\ ~ (Len(args) > 1 /\ file \notin DOMAIN world)
      BY <1>4 DEF RunProgram, NoProgram
    <3>2. Len(args) > 1
      <4>1. Len(args) \in Nat /\ Len(args) # 0
        BY <1>2
      <4>2. \A n \in Nat : n # 0 /\ n # 1 => n > 1
        OBVIOUS
      <4> QED
        BY <4>1, <4>2, <3>1
    <3> QED
      BY <1>4, <3>1, <3>2 DEF RunProgram, NoProgram, parsing, measuring
  <2>2. /\ active = Requested
        /\ \E base \in Bases, repr \in Reprs : Requested = Config(base, repr)
        /\ ValidConfig(Requested)
    BY <1>1 DEF IInv, CommandInv
  <2>3. Requested \in DOMAIN world[file]
    BY <2>1, <2>2, BenchSessionAssumption DEF IInv, Typed
  <2>4. shown'.output = world[file][Requested]
    BY <2>1, <2>2, <1>2 DEF Nothing
  <2>5. RunsAsRequested'
    BY <2>1, <2>3, <2>4, <1>1, <1>2, SameInput DEF RunsAsRequested
  <2>6. Typed'
    BY <1>1, <1>2, <2>1, SameInput DEF IInv, Typed
  <2> QED
    BY <1>2, <2>1, <2>5, <2>6
       DEF IInv, StartInv, CommandInv, OptionsInv, BenchInv, ShownInv, Reported
<1> QED
  BY <1>3, <1>4

LEMMA CompileProgramKeepsIInv == IInv /\ CompileProgram => IInv'
<1> SUFFICES ASSUME IInv, CompileProgram PROVE IInv'
  OBVIOUS
<1>1. stage = "command" /\ UNCHANGED input
  BY DEF CompileProgram, Command
<1>2. End("exit") \/ End("done") \/ End("raised")
  BY DEF CompileProgram
<1> QED
  BY <1>1, <1>2, CommandFacts, EndKeepsIInv

LEMMA BeginBenchmarksKeepsIInv == IInv /\ BeginBenchmarks => IInv'
<1> SUFFICES ASSUME IInv, BeginBenchmarks PROVE IInv'
  OBVIOUS
<1>1. /\ stage = "command" /\ UNCHANGED input /\ WordOf(args[1]) = "bench"
      /\ stage' = "options" /\ next' = 2
      /\ active' = active /\ args' = args /\ options' = options
      /\ at' = at /\ results' = results /\ shown' = shown
  BY DEF BeginBenchmarks, Command, measuring
<1>2. /\ args \in Seq(Arguments) /\ args # <<>> /\ shown = Nothing /\ results = <<>>
      /\ argv' = argv /\ world' = world
  BY <1>1, CommandFacts
<1>3. args[1] \in Arguments /\ 1 \in DOMAIN args /\ Len(args) \in Nat /\ Len(args) >= 1
  BY <1>2
<1>4. IsWord(args[1])
  <2>1. args[1].option \in {"base", "bases", "repr", "none"}
    BY <1>3, ArgumentFacts
  <2> QED
    BY <1>1, <2>1 DEF WordOf, IsWord
<1>5. /\ 1 \in WordsIn /\ BasesIn \in SUBSET Nat /\ ReprsIn \in SUBSET Nat
      /\ (\A k \in BasesIn : k >= 2) /\ (\A k \in ReprsIn : k >= 2)
  BY <1>2, <1>3, <1>4 DEF BasesIn, ReprsIn, WordsIn, IsWord, IsBases
<1>6. BenchDefaults /\ Passed(Len(argv) + 1)
  BY <1>1 DEF IInv, CommandInv
<1>7. /\ Latest(args, BasesIn, 2, DefaultOptions.bases, options.bases)
      /\ Latest(args, ReprsIn, 2, DefaultOptions.reprs, options.reprs)
  BY <1>5, <1>6, LatestNext DEF BenchDefaults
<1>8. Range(options.reprs) \subseteq Reprs
  BY <1>6 DEF BenchDefaults, DefaultOptions, Range, Reprs
<1>9. Range(options.programs) = {WordOf(args[k]) : k \in {k \in WordsIn : 1 < k /\ k < 2}}
  <2>1. WordsIn \subseteq Nat
    BY <1>2 DEF WordsIn
  <2>2. {k \in WordsIn : 1 < k /\ k < 2} = {}
    <3>1. \A k \in Nat : ~ (1 < k /\ k < 2)
      OBVIOUS
    <3> QED
      BY <2>1, <3>1
  <2>3. Range(options.programs) = {}
    BY <1>6 DEF BenchDefaults, Range
  <2> QED
    BY <2>2, <2>3
<1>10. BasesIn' = BasesIn /\ ReprsIn' = ReprsIn /\ WordsIn' = WordsIn
  BY <1>1 DEF BasesIn, ReprsIn, WordsIn
<1>11. Passed(Len(argv) + 1)'
  BY <1>1, <1>2, <1>6, SameInput DEF Passed, Places
<1>12. OptionsInv'
  <2>1. /\ Latest(args, BasesIn, next, DefaultOptions.bases, options.bases)'
        /\ Latest(args, ReprsIn, next, DefaultOptions.reprs, options.reprs)'
    BY <1>1, <1>7, <1>10 DEF Latest, DefaultOptions
  <2>2. 1 < next' /\ next' <= Len(args') + 1 /\ 1 \in WordsIn'
    BY <1>1, <1>3, <1>5, <1>10
  <2>3. Range(options')  = Range(options)
    BY <1>1
  <2>4. (Range(options.programs) = {WordOf(args[k]) : k \in {k \in WordsIn : 1 < k /\ k < next}})'
    BY <1>1, <1>9, <1>10
  <2> QED
    BY <2>1, <2>2, <2>4, <1>1, <1>8, <1>11 DEF OptionsInv
<1>13. Typed'
  BY <1>1, <1>2, SameInput DEF IInv, Typed
<1> QED
  BY <1>1, <1>2, <1>12, <1>13
     DEF IInv, StartInv, CommandInv, BenchInv, ShownInv, Reported, RunsAsRequested, Nothing

\* An argument of bench is a list of bases, of representations, or a program.
LEMMA TakeBenchOptionKeepsIInv == IInv /\ TakeBenchOption => IInv'
<1> DEFINE arg == args[next]
<1> SUFFICES ASSUME IInv, TakeBenchOption PROVE IInv'
  OBVIOUS
<1>1. /\ stage = "options" /\ next \in DOMAIN args /\ args \in Seq(Arguments) /\ arg \in Arguments
      /\ shown = Nothing /\ results = <<>> /\ UNCHANGED input /\ argv' = argv /\ world' = world
      /\ next > 1 /\ next \in Nat
  BY DEF TakeBenchOption, IInv, Typed, ShownInv, OptionsInv, input
<1>2. CASE BenchRefused(arg)
  BY <1>1, <1>2, EndKeepsIInv DEF TakeBenchOption
<1>3. CASE ~ BenchRefused(arg)
  <2>1. /\ options' = BenchOption(options, arg) /\ next' = next + 1 /\ stage' = "options"
        /\ args' = args /\ at' = at /\ results' = results /\ shown' = shown
    BY <1>1, <1>3 DEF TakeBenchOption, measuring
  <2>2. /\ BasesIn' = BasesIn /\ ReprsIn' = ReprsIn /\ WordsIn' = WordsIn
        /\ BasesIn \in SUBSET Nat /\ ReprsIn \in SUBSET Nat /\ WordsIn \in SUBSET Nat
        /\ next \in BasesIn <=> IsBases(arg)
        /\ next \in ReprsIn <=> arg.option = "repr"
        /\ next \in WordsIn <=> IsWord(arg)
    BY <1>1, <2>1 DEF BasesIn, ReprsIn, WordsIn
  <2>3. /\ Latest(args, BasesIn, next, DefaultOptions.bases, options.bases)
        /\ Latest(args, ReprsIn, next, DefaultOptions.reprs, options.reprs)
        /\ Range(options.programs) = {WordOf(args[k]) : k \in {k \in WordsIn : 1 < k /\ k < next}}
        /\ Range(options.reprs) \subseteq Reprs /\ 1 \in WordsIn /\ Passed(Len(argv) + 1)
    BY <1>1 DEF IInv, OptionsInv
  <2>4. options \in OptionValues
    BY DEF IInv, Typed
  <2>5. \A i \in DOMAIN args : ~ IsBase(args[i])
    BY <2>3 DEF Passed, Places, PassedAt, BaseAt
  <2>6. /\ options' \in OptionValues
        /\ options'.bases = IF IsBases(arg) THEN arg.values ELSE options.bases
        /\ options'.reprs = IF arg.option = "repr" THEN arg.values ELSE options.reprs
        /\ options'.programs = IF IsWord(arg) THEN Append(options.programs, WordOf(arg))
                               ELSE options.programs
    <3>1. CASE IsBases(arg)
      <4>1. /\ arg.values \in {s \in Seq(Int) : Len(s) > 0} /\ arg.option # "repr" /\ ~ IsWord(arg)
            /\ options' = [options EXCEPT !.bases = arg.values]
        BY <3>1, <1>1, <2>1, ArgumentFacts DEF IsBases, IsWord, BenchOption
      <4> QED
        BY <3>1, <4>1, <2>4 DEF OptionValues
    <3>2. CASE arg.option = "repr"
      <4>1. /\ arg.values \in {s \in Seq(Names) : Len(s) > 0} /\ ~ IsBases(arg) /\ ~ IsWord(arg)
            /\ options' = [options EXCEPT !.reprs = arg.values]
        BY <3>2, <1>1, <2>1, ArgumentFacts DEF IsBases, IsWord, BenchOption
      <4> QED
        BY <3>2, <4>1, <2>4 DEF OptionValues
    <3>3. CASE IsWord(arg)
      <4>1. /\ WordOf(arg) \in Names /\ ~ IsBases(arg) /\ arg.option # "repr"
            /\ options' = [options EXCEPT !.programs = Append(options.programs, WordOf(arg))]
        BY <3>3, <1>1, <2>1, ArgumentFacts DEF IsBases, IsWord, BenchOption
      <4>2. Append(options.programs, WordOf(arg)) \in Seq(Names)
        BY <4>1, <2>4 DEF OptionValues
      <4> QED
        BY <3>3, <4>1, <4>2, <2>4 DEF OptionValues
    <3>4. IsBases(arg) \/ arg.option = "repr" \/ IsWord(arg)
      BY <1>1, <2>5, ArgumentFacts DEF IsBase, IsBases, IsWord
    <3> QED
      BY <3>1, <3>2, <3>3, <3>4
  <2>7. Typed'
    BY <2>1, <2>6, <1>1, SameInput DEF IInv, Typed
  <2>8. /\ Latest(args, BasesIn, next + 1, DefaultOptions.bases, options'.bases)
        /\ Latest(args, ReprsIn, next + 1, DefaultOptions.reprs, options'.reprs)
    BY <2>2, <2>3, <2>6, <1>1, LatestNext
  <2>9. Range(options'.reprs) \subseteq Reprs
    BY <2>3, <2>6, <1>3 DEF BenchRefused
  <2>10. Range(options'.programs) =
            {WordOf(args[k]) : k \in {k \in WordsIn : 1 < k /\ k < next + 1}}
    <3>1. \A k \in WordsIn : k < next + 1 <=> k < next \/ k = next
      BY <1>1, <2>2
    <3>2. CASE IsWord(arg)
      <4>1. options.programs \in Seq(Names) /\ WordOf(arg) \in Names
        BY <2>4, <3>2, <1>1, ArgumentFacts DEF OptionValues
      <4>2. Range(options'.programs) = Range(options.programs) \cup {WordOf(arg)}
        BY <3>2, <4>1, <2>6, AppendRange
      <4> QED
        BY <3>1, <3>2, <4>2, <2>2, <2>3, <1>1
    <3>3. CASE ~ IsWord(arg)
      BY <3>1, <3>3, <2>2, <2>3, <2>6
    <3> QED
      BY <3>2, <3>3
  <2>11. OptionsInv'
    <3>1. /\ Latest(args, BasesIn, next, DefaultOptions.bases, options.bases)'
          /\ Latest(args, ReprsIn, next, DefaultOptions.reprs, options.reprs)'
      BY <2>1, <2>2, <2>8 DEF Latest, DefaultOptions
    <3>2. 1 < next' /\ next' <= Len(args') + 1 /\ 1 \in WordsIn'
      BY <2>1, <2>2, <2>3, <1>1
    <3>3. (Range(options.programs) = {WordOf(args[k]) : k \in {k \in WordsIn : 1 < k /\ k < next}})'
      BY <2>1, <2>2, <2>10
    <3>4. Passed(Len(argv) + 1)'
      BY <2>1, <2>3, <1>1, SameInput DEF Passed, Places
    <3> QED
      BY <3>1, <3>2, <3>3, <3>4, <2>9 DEF OptionsInv
  <2> QED
    BY <1>1, <2>1, <2>7, <2>11
       DEF IInv, StartInv, CommandInv, BenchInv, ShownInv, Reported, RunsAsRequested, Nothing
<1> QED
  BY <1>2, <1>3

\* The last option among the arguments passed on is the last one of argv.
LEMMA LatestPassed ==
    ASSUME argv \in Seq(Arguments), args \in Seq(Arguments),
           NEW place \in [DOMAIN args -> DOMAIN argv], Places(place, Len(argv) + 1),
           NEW inner \in SUBSET DOMAIN args, NEW outer \in SUBSET PassedAt,
           \A i \in DOMAIN args : i \in inner <=> place[i] \in outer,
           NEW default, NEW v, NEW n \in Nat, n > Len(args),
           Latest(args, inner, n, default, v)
    PROVE  v = LastOption(outer, default)
<1>1. /\ DOMAIN args = 1 .. Len(args) /\ DOMAIN argv = 1 .. Len(argv)
      /\ Len(args) \in Nat /\ Len(argv) \in Nat /\ PassedAt \subseteq DOMAIN argv
  BY DEF PassedAt
<1>2. \A k \in PassedAt : \E i \in DOMAIN args : place[i] = k
  BY <1>1 DEF Places
<1>3. Latest(argv, outer, Len(argv) + 1, default, v)
  <2>1. CASE inner = {}
    <3>1. outer = {} /\ v = default
      BY <1>2, <2>1 DEF Latest
    <3> QED
      BY <3>1 DEF Latest
  <2>2. CASE inner # {}
    <3>1. PICK i \in inner : v = args[i].values /\ \A j \in inner : j > i => j >= n
      BY <1>1, <2>2 DEF Latest
    <3>2. \A j \in inner : j <= i
      BY <1>1, <3>1
    <3>3. place[i] \in outer /\ place[i] < Len(argv) + 1 /\ v = argv[place[i]].values
      BY <3>1 DEF Places
    <3>4. \A k \in outer : k <= place[i]
      <4> SUFFICES ASSUME NEW k \in outer PROVE k <= place[i]
        OBVIOUS
      <4>1. PICK j \in DOMAIN args : place[j] = k
        BY <1>2
      <4>2. j \in inner /\ j <= i
        BY <4>1, <3>2
      <4>3. j = i \/ j < i
        BY <4>2, <1>1, <3>1
      <4>4. j < i => place[j] < place[i]
        BY <3>1 DEF Places
      <4>5. place[j] \in Int /\ place[i] \in Int
        BY <1>1, <3>1
      <4> QED
        BY <4>1, <4>3, <4>4, <4>5
    <3>5. \A k \in outer : k \in Int /\ place[i] \in Int
      BY <1>1, <3>1
    <3> QED
      BY <3>3, <3>4, <3>5 DEF Latest
  <2> QED
    BY <2>1, <2>2
<1>4. outer \in SUBSET DOMAIN argv /\ Len(argv) + 1 \in Nat /\ Len(argv) + 1 > Len(argv)
  BY <1>1
<1> QED
  BY <1>3, <1>4, LatestIsLast

\* Of the words that are passed on the first is the command: those behind it
\* are the words behind the first word of argv.
LEMMA WordsPassed ==
    ASSUME argv \in Seq(Arguments), args \in Seq(Arguments),
           NEW place \in [DOMAIN args -> DOMAIN argv], Places(place, Len(argv) + 1),
           1 \in WordsIn
    PROVE  {WordOf(argv[k]) : k \in {k \in WordsAt : \E j \in WordsAt : j < k}} =
           {WordOf(args[i]) : i \in {i \in WordsIn : 1 < i}}
<1>1. /\ DOMAIN args = 1 .. Len(args) /\ DOMAIN argv = 1 .. Len(argv)
      /\ Len(args) \in Nat /\ Len(argv) \in Nat
  OBVIOUS
<1>2. /\ WordsAt \subseteq PassedAt
      /\ \A i \in DOMAIN args : i \in WordsIn <=> place[i] \in WordsAt
      /\ \A i \in DOMAIN args : args[i] = argv[place[i]]
      /\ WordsIn \subseteq DOMAIN args
  BY DEF WordsAt, WordsIn, IsWord, PassedAt, BaseAt, ReprAt, IsBase, IsRepr, Places
<1>3. \A k \in WordsAt : \E i \in WordsIn : place[i] = k
  BY <1>1, <1>2 DEF Places, PassedAt
<1>4. ASSUME NEW i \in WordsIn, NEW j \in WordsIn
      PROVE  j < i <=> place[j] < place[i]
  <2>1. i \in DOMAIN args /\ j \in DOMAIN args /\ place[i] \in Int /\ place[j] \in Int
        /\ i \in Int /\ j \in Int
    BY <1>1, <1>2
  <2>2. (j < i => place[j] < place[i]) /\ (i < j => place[i] < place[j])
    BY <2>1 DEF Places
  <2>3. i = j \/ i < j \/ j < i
    BY <2>1
  <2>4. i = j => ~ (place[j] < place[i])
    BY <2>1
  <2> QED
    BY <2>1, <2>2, <2>3, <2>4
<1>5. ASSUME NEW i \in WordsIn
      PROVE  1 < i <=> \E j \in WordsAt : j < place[i]
  <2>1. 1 < i => \E j \in WordsAt : j < place[i]
    BY <1>2, <1>4
  <2>2. ASSUME NEW j \in WordsAt, j < place[i] PROVE 1 < i
    <3>1. PICK l \in WordsIn : place[l] = j
      BY <1>3
    <3>2. l < i /\ l >= 1 /\ l \in Int /\ i \in Int
      BY <3>1, <2>2, <1>1, <1>2, <1>4
    <3> QED
      BY <3>2
  <2> QED
    BY <2>1, <2>2
<1> DEFINE behind == {k \in WordsAt : \E j \in WordsAt : j < k}
           further == {i \in WordsIn : 1 < i}
<1>6. \A i \in further : place[i] \in behind /\ WordOf(args[i]) = WordOf(argv[place[i]])
  BY <1>2, <1>5
<1>7. \A k \in behind : \E i \in further : place[i] = k /\ WordOf(args[i]) = WordOf(argv[k])
  <2> SUFFICES ASSUME NEW k \in behind
               PROVE  \E i \in further : place[i] = k /\ WordOf(args[i]) = WordOf(argv[k])
    OBVIOUS
  <2>1. PICK i \in WordsIn : place[i] = k
    BY <1>3
  <2>2. 1 < i
    BY <2>1, <1>5
  <2>3. args[i] = argv[k]
    BY <2>1, <1>2
  <2> QED
    BY <2>1, <2>2, <2>3
<1> HIDE DEF behind, further
<1>8. {WordOf(argv[k]) : k \in behind} = {WordOf(args[i]) : i \in further}
  BY <1>6, <1>7
<1> QED
  BY <1>8 DEF behind, further

\* At the end of the options run_benchmarks begins with what was asked for.
LEMMA ChooseProgramsKeepsIInv == IInv /\ ChoosePrograms => IInv'
<1> DEFINE programs == IF options.programs = <<>> THEN Benchmarks ELSE options.programs
<1> SUFFICES ASSUME IInv, ChoosePrograms PROVE IInv'
  OBVIOUS
<1>1. /\ stage = "options" /\ next > Len(args) /\ args \in Seq(Arguments) /\ argv \in Seq(Arguments)
      /\ shown = Nothing /\ results = <<>> /\ UNCHANGED input /\ argv' = argv /\ world' = world
      /\ next \in Nat
  BY DEF ChoosePrograms, IInv, Typed, ShownInv, input
<1>2. CASE programs = <<>>
  BY <1>1, <1>2, EndKeepsIInv DEF ChoosePrograms
<1>3. CASE programs # <<>>
  <2>1. /\ options' = [options EXCEPT !.programs = programs]
        /\ stage' = "bench" /\ at' = <<1, 1, 1>>
        /\ next' = next /\ args' = args /\ results' = results /\ shown' = shown
    BY <1>1, <1>3 DEF ChoosePrograms
  <2>2. /\ options \in OptionValues /\ programs \in Seq(Names)
    BY BenchSessionAssumption DEF IInv, Typed, OptionValues
  <2>3. /\ options' \in OptionValues /\ options'.programs = programs
        /\ options'.bases = options.bases /\ options'.reprs = options.reprs
    <3> HIDE DEF programs
    <3> QED
      BY <2>1, <2>2 DEF OptionValues
  <2>4. Typed'
    BY <2>1, <2>3, <1>1, SameInput DEF IInv, Typed
  <2>5. /\ Latest(args, BasesIn, next, DefaultOptions.bases, options.bases)
        /\ Latest(args, ReprsIn, next, DefaultOptions.reprs, options.reprs)
        /\ Range(options.programs) = {WordOf(args[k]) : k \in {k \in WordsIn : 1 < k /\ k < next}}
        /\ Range(options.reprs) \subseteq Reprs /\ 1 \in WordsIn /\ Passed(Len(argv) + 1)
    BY <1>1 DEF IInv, OptionsInv
  <2>6. PICK place \in [DOMAIN args -> DOMAIN argv] : Places(place, Len(argv) + 1)
    BY <2>5 DEF Passed
  <2>7. /\ BasesIn \in SUBSET DOMAIN args /\ ReprsIn \in SUBSET DOMAIN args
        /\ BasesAt \in SUBSET PassedAt /\ ReprsAt \in SUBSET PassedAt
        /\ \A i \in DOMAIN args : i \in BasesIn <=> place[i] \in BasesAt
        /\ \A i \in DOMAIN args : i \in ReprsIn <=> place[i] \in ReprsAt
    <3>1. \A k \in DOMAIN argv : argv[k].option = "repr" => (IsRepr(argv[k]) <=> ~ IsReprs(argv[k]))
      BY <1>1, ArgumentFacts
    <3>2. \A i \in DOMAIN args :
             place[i] \in PassedAt /\ args[i] = argv[place[i]] /\ place[i] \in DOMAIN argv
      BY <2>6 DEF Places
    <3>3. \A k \in DOMAIN argv : k \in PassedAt <=> ~ IsBase(argv[k]) /\ ~ IsRepr(argv[k])
      BY DEF PassedAt, BaseAt, ReprAt
    <3>4. \A k \in DOMAIN argv : IsReprs(argv[k]) => argv[k].option = "repr"
      BY DEF IsReprs
    <3>5. /\ BasesIn \in SUBSET DOMAIN args /\ ReprsIn \in SUBSET DOMAIN args
          /\ \A i \in DOMAIN args : i \in BasesIn <=> place[i] \in BasesAt
      BY <3>2 DEF BasesIn, ReprsIn, BasesAt
    <3>6. BasesAt \in SUBSET PassedAt
      BY <3>3 DEF BasesAt, IsBases, IsBase, IsRepr
    <3>7. ReprsAt \in SUBSET PassedAt
      <4>1. \A k \in ReprsAt : k \in DOMAIN argv /\ argv[k].option = "repr" /\ IsReprs(argv[k])
        BY <3>4 DEF ReprsAt
      <4>2. \A k \in ReprsAt : ~ IsBase(argv[k])
        BY <4>1 DEF IsBase
      <4> QED
        BY <3>1, <3>3, <4>1, <4>2
    <3>8. \A i \in DOMAIN args : i \in ReprsIn <=> place[i] \in ReprsAt
      <4>1. \A i \in DOMAIN args : i \in ReprsIn <=> argv[place[i]].option = "repr"
        BY <3>2 DEF ReprsIn
      <4>2. \A k \in DOMAIN argv : k \in ReprsAt <=> IsReprs(argv[k])
        BY DEF ReprsAt
      <4> QED
        BY <3>1, <3>2, <3>3, <3>4, <4>1, <4>2
    <3> QED
      BY <3>5, <3>6, <3>7, <3>8
  <2>8. /\ options.bases = LastOption(BasesAt, DefaultOptions.bases)
        /\ options.reprs = LastOption(ReprsAt, DefaultOptions.reprs)
    BY <1>1, <2>5, <2>6, <2>7, LatestPassed
  <2>9. Range(options'.programs) = RequestedPrograms
    <3> DEFINE behind == {k \in WordsAt : \E j \in WordsAt : j < k}
    <3>1. {k \in WordsIn : 1 < k /\ k < next} = {k \in WordsIn : 1 < k}
      <4>1. \A k \in WordsIn : k \in 1 .. Len(args) /\ Len(args) \in Nat
        BY <1>1 DEF WordsIn
      <4>2. \A k \in WordsIn : k < next
        BY <4>1, <1>1
      <4> QED
        BY <4>2
    <3>2. Range(options.programs) = {WordOf(argv[k]) : k \in behind}
      BY <3>1, <2>5, <2>6, <1>1, WordsPassed
    <3>3. options.programs = <<>> <=> behind = {}
      <4>1. options.programs = <<>> <=> Range(options.programs) = {}
        <5>1. options.programs \in Seq(Names)
          BY <2>2 DEF OptionValues
        <5>2. options.programs # <<>> => options.programs[1] \in Range(options.programs)
          BY <5>1 DEF Range
        <5>3. options.programs = <<>> => Range(options.programs) = {}
          BY DEF Range
        <5> QED
          BY <5>2, <5>3
      <4> QED
        BY <4>1, <3>2
    <3>4. RequestedPrograms =
             IF behind = {} THEN Range(Benchmarks) ELSE {WordOf(argv[k]) : k \in behind}
      BY DEF RequestedPrograms
    <3> HIDE DEF behind
    <3> QED
      BY <2>3, <3>2, <3>3, <3>4
  <2>10. BenchInv'
    <3>1. /\ Range(options.programs)' = RequestedPrograms'
          /\ options'.bases = LastOption(BasesAt, DefaultOptions.bases)'
          /\ options'.reprs = LastOption(ReprsAt, DefaultOptions.reprs)'
          /\ Range(options.reprs)' \subseteq Reprs
      BY <1>1, <2>3, <2>5, <2>8, <2>9, SameInput
    <3>2. /\ at'[1] > 0 /\ at'[2] \in 1 .. Len(options'.bases) /\ at'[3] \in 1 .. Len(options'.reprs)
          /\ at'[1] = 1 /\ at'[2] = 1 /\ at'[3] = 1
      <4>1. /\ Len(options'.bases) \in Nat /\ Len(options'.reprs) \in Nat
            /\ Len(options'.bases) > 0 /\ Len(options'.reprs) > 0
        BY <2>3 DEF OptionValues
      <4>2. \A n \in Nat : n > 0 => 1 \in 1 .. n
        OBVIOUS
      <4>3. at'[1] = 1 /\ at'[2] = 1 /\ at'[3] = 1
        BY <2>1
      <4> QED
        BY <4>1, <4>2, <4>3
    <3>3. \A t \in Turns' : ~ Before(t)'
      <4>1. /\ Len(options'.programs) \in Nat /\ Len(options'.bases) \in Nat
            /\ Len(options'.reprs) \in Nat
        BY <2>3 DEF OptionValues
      <4>2. \A t \in Turns' : t[1] \in Nat /\ t[2] \in Nat /\ t[3] \in Nat /\
                              t[1] >= 1 /\ t[2] >= 1 /\ t[3] >= 1
        BY <4>1 DEF Turns
      <4> QED
        BY <3>2, <4>2 DEF Before
    <3> QED
      BY <1>1, <2>1, <3>1, <3>2, <3>3 DEF BenchInv
  <2> QED
    BY <1>1, <2>1, <2>4, <2>10
       DEF IInv, StartInv, CommandInv, OptionsInv, ShownInv, Reported, RunsAsRequested, Nothing
<1> QED
  BY <1>2, <1>3

\* The turn after this one: it is within its lists, and what comes before it
\* is this one and what came before this one.
LEMMA FollowingTurn ==
    ASSUME options \in OptionValues, at \in Nat \X Nat \X Nat, Benchmarking, at[1] > 0,
           at[2] \in 1 .. Len(options.bases), at[3] \in 1 .. Len(options.reprs),
           at' = Following, options' = options
    PROVE  /\ at \in Turns /\ at' \in Nat \X Nat \X Nat /\ at'[1] > 0
           /\ at'[2] \in 1 .. Len(options'.bases) /\ at'[3] \in 1 .. Len(options'.reprs)
           /\ Turns' = Turns /\ \A t \in Turns : Kept(t)' = Kept(t)
           /\ \A t \in Turns : Before(t)' <=> Before(t) \/ t = at
<1>1. /\ Len(options.programs) \in Nat /\ Len(options.bases) \in Nat /\ Len(options.reprs) \in Nat
  BY DEF OptionValues
<1> DEFINE x == at[1]  y == at[2]  z == at[3]
<1>2. x \in Nat /\ y \in Nat /\ z \in Nat /\ at = <<x, y, z>>
  OBVIOUS
<1>3. at \in Turns
  BY <1>1, <1>2 DEF Turns, Benchmarking
<1>4. /\ at' = IF z < Len(options.reprs) THEN <<x, y, z + 1>>
               ELSE IF y < Len(options.bases) THEN <<x, y + 1, 1>> ELSE <<x + 1, 1, 1>>
  BY DEF Following
<1>5. at' \in Nat \X Nat \X Nat /\ at'[1] > 0
      /\ at'[2] \in 1 .. Len(options'.bases) /\ at'[3] \in 1 .. Len(options'.reprs)
  <2>1. CASE z < Len(options.reprs)
    BY <2>1, <1>1, <1>2, <1>4
  <2>2. CASE ~ (z < Len(options.reprs)) /\ y < Len(options.bases)
    BY <2>2, <1>1, <1>2, <1>4
  <2>3. CASE ~ (z < Len(options.reprs)) /\ ~ (y < Len(options.bases))
    BY <2>3, <1>1, <1>2, <1>4
  <2> QED
    BY <2>1, <2>2, <2>3
<1>6. Turns' = Turns /\ \A t \in Turns : Kept(t)' = Kept(t)
  BY DEF Turns, Kept
<1>7. ASSUME NEW t \in Turns PROVE Before(t)' <=> Before(t) \/ t = at
  <2>1. /\ t[1] \in Nat /\ t[2] \in 1 .. Len(options.bases) /\ t[3] \in 1 .. Len(options.reprs)
        /\ t = at <=> t[1] = x /\ t[2] = y /\ t[3] = z
    BY <1>1, <1>2 DEF Turns
  <2>2. CASE z < Len(options.reprs)
    <3>1. at'[1] = x /\ at'[2] = y /\ at'[3] = z + 1
      BY <2>2, <1>4
    <3> QED
      BY <3>1, <2>1, <1>1, <1>2 DEF Before
  <2>3. CASE ~ (z < Len(options.reprs)) /\ y < Len(options.bases)
    <3>1. at'[1] = x /\ at'[2] = y + 1 /\ at'[3] = 1 /\ z = Len(options.reprs)
      BY <2>3, <1>1, <1>4
    <3> QED
      BY <3>1, <2>1, <1>1, <1>2 DEF Before
  <2>4. CASE ~ (z < Len(options.reprs)) /\ ~ (y < Len(options.bases))
    <3>1. at'[1] = x + 1 /\ at'[2] = 1 /\ at'[3] = 1 /\ z = Len(options.reprs)
          /\ y = Len(options.bases)
      BY <2>4, <1>1, <1>4
    <3> QED
      BY <3>1, <2>1, <1>1, <1>2 DEF Before
  <2> QED
    BY <2>2, <2>3, <2>4
<1> QED
  BY <1>3, <1>5, <1>6, <1>7

\* The turn run_benchmarks is at and its combination.
LEMMA TurnFacts ==
    ASSUME IInv, Benchmarking, UNCHANGED input
    PROVE  /\ stage = "bench" /\ shown = Nothing /\ argv' = argv /\ world' = world
           /\ options \in OptionValues /\ at \in Nat \X Nat \X Nat
           /\ at[1] > 0 /\ at[2] \in 1 .. Len(options.bases) /\ at[3] \in 1 .. Len(options.reprs)
           /\ at \in Turns
           /\ Combination.program \in Names /\ Combination.base \in Int /\ Combination.repr \in Names
           /\ Skipped(Combination) <=> ~ Kept(at)
<1>1. /\ stage = "bench" /\ shown = Nothing /\ argv' = argv /\ world' = world
      /\ options \in OptionValues /\ at \in Nat \X Nat \X Nat
      /\ at[1] > 0 /\ at[2] \in 1 .. Len(options.bases) /\ at[3] \in 1 .. Len(options.reprs)
  BY DEF Benchmarking, IInv, ShownInv, BenchInv, Typed, input
<1>2. /\ Len(options.programs) \in Nat /\ Len(options.bases) \in Nat /\ Len(options.reprs) \in Nat
      /\ options.programs \in Seq(Names) /\ options.bases \in Seq(Int) /\ options.reprs \in Seq(Names)
  BY <1>1 DEF OptionValues
<1>3. at[1] \in 1 .. Len(options.programs)
  BY <1>1, <1>2 DEF Benchmarking
<1>4. at \in Turns
  BY <1>1, <1>2, <1>3 DEF Turns
<1>5. /\ Combination.program = options.programs[at[1]] /\ Combination.base = options.bases[at[2]]
      /\ Combination.repr = options.reprs[at[3]]
  BY DEF Combination
<1>6. /\ options.programs[at[1]] \in Names /\ options.bases[at[2]] \in Int
      /\ options.reprs[at[3]] \in Names
  BY <1>1, <1>2, <1>3
<1>7. Skipped(Combination) <=> ~ Kept(at)
  BY <1>5 DEF Skipped, Kept
<1> QED
  BY <1>1, <1>4, <1>5, <1>6, <1>7

\* What stays of BenchInv while the options and the command line stay.
LEMMA BenchOptionsStay ==
    ASSUME IInv, stage \in {"bench", "report"}, UNCHANGED <<input, parsing>>
    PROVE  /\ Range(options.programs)' = RequestedPrograms'
           /\ options'.bases = LastOption(BasesAt, DefaultOptions.bases)'
           /\ options'.reprs = LastOption(ReprsAt, DefaultOptions.reprs)'
           /\ Range(options.reprs)' \subseteq Reprs
<1>1. options' = options /\ UNCHANGED input
  BY DEF parsing
<1>2. /\ Range(options.programs) = RequestedPrograms
      /\ options.bases = LastOption(BasesAt, DefaultOptions.bases)
      /\ options.reprs = LastOption(ReprsAt, DefaultOptions.reprs)
      /\ Range(options.reprs) \subseteq Reprs
  BY DEF IInv, BenchInv
<1> QED
  BY <1>1, <1>2, SameInput

LEMMA SkipKeepsIInv == IInv /\ Skip => IInv'
<1> SUFFICES ASSUME IInv, Skip PROVE IInv'
  OBVIOUS
<1>1. /\ Benchmarking /\ Skipped(Combination) /\ at' = Following /\ stage' = stage
      /\ UNCHANGED <<input, parsing>> /\ UNCHANGED input
      /\ next' = next /\ args' = args /\ options' = options /\ results' = results /\ shown' = shown
  BY DEF Skip, parsing
<1>2. /\ stage = "bench" /\ shown = Nothing /\ argv' = argv /\ world' = world
      /\ options \in OptionValues /\ at \in Nat \X Nat \X Nat
      /\ at[1] > 0 /\ at[2] \in 1 .. Len(options.bases) /\ at[3] \in 1 .. Len(options.reprs)
      /\ ~ Kept(at)
  BY <1>1, TurnFacts
<1>3. /\ at' \in Nat \X Nat \X Nat /\ at'[1] > 0
      /\ at'[2] \in 1 .. Len(options'.bases) /\ at'[3] \in 1 .. Len(options'.reprs)
      /\ Turns' = Turns /\ \A t \in Turns : Kept(t)' = Kept(t)
      /\ \A t \in Turns : Before(t)' <=> Before(t) \/ t = at
  BY <1>1, <1>2, FollowingTurn
<1>4. BenchInv'
  <2>1. /\ \A k \in DOMAIN results :
              /\ results[k].program \in DOMAIN world
              /\ \E t \in Turns : Before(t) /\ Kept(t) /\ IsOf(results[k], t)
        /\ \A t \in Turns : Before(t) /\ Kept(t) => \E k \in DOMAIN results : IsOf(results[k], t)
    BY <1>2 DEF IInv, BenchInv
  <2>2. \A k, t : IsOf(results[k], t)' <=> IsOf(results[k], t)
    BY <1>1 DEF IsOf
  <2>3. \A k \in DOMAIN results' :
           /\ results'[k].program \in DOMAIN world'
           /\ \E t \in Turns' : Before(t)' /\ Kept(t)' /\ IsOf(results[k], t)'
    BY <2>1, <2>2, <1>1, <1>2, <1>3
  <2>4. \A t \in Turns' : Before(t)' /\ Kept(t)' => \E k \in DOMAIN results' : IsOf(results[k], t)'
    BY <2>1, <2>2, <1>1, <1>2, <1>3
  <2> QED
    BY <2>3, <2>4, <1>1, <1>2, <1>3, BenchOptionsStay DEF BenchInv
<1>5. Typed'
  BY <1>1, <1>2, <1>3, SameInput DEF IInv, Typed
<1> QED
  BY <1>1, <1>2, <1>4, <1>5
     DEF IInv, StartInv, CommandInv, OptionsInv, ShownInv, Reported, RunsAsRequested, Nothing

LEMMA RefuseKeepsIInv == IInv /\ Refuse => IInv'
<1> SUFFICES ASSUME IInv, Refuse PROVE IInv'
  OBVIOUS
<1>1. UNCHANGED input /\ End("raised") /\ stage # "done"
  BY DEF Refuse, Benchmarking
<1> QED
  BY <1>1, EndKeepsIInv

\* A combination is measured under its own configuration.
LEMMA BenchmarkKeepsIInv == IInv /\ Benchmark => IInv'
<1> DEFINE c == Combination
           row == Result(c, ConfigOf(c))
<1> SUFFICES ASSUME IInv, Benchmark PROVE IInv'
  OBVIOUS
<1>1. /\ Benchmarking /\ Readable(c) /\ ~ Skipped(c)
      /\ UNCHANGED <<input, parsing>> /\ UNCHANGED input
      /\ next' = next /\ args' = args /\ options' = options /\ shown' = shown
      /\ \/ stage' = "raised" /\ at' = at /\ results' = results
         \/ stage' = stage /\ at' = Following /\ results' = Append(results, row)
  BY DEF Benchmark, Switched, parsing, measuring
<1>2. /\ stage = "bench" /\ shown = Nothing /\ argv' = argv /\ world' = world
      /\ options \in OptionValues /\ at \in Nat \X Nat \X Nat
      /\ at[1] > 0 /\ at[2] \in 1 .. Len(options.bases) /\ at[3] \in 1 .. Len(options.reprs)
      /\ at \in Turns /\ Kept(at)
      /\ c.program \in Names /\ c.base \in Int /\ c.repr \in Names
  BY <1>1, TurnFacts
<1>3. CASE stage' = "raised" /\ at' = at /\ results' = results
  <2>1. Typed'
    BY <1>1, <1>2, <1>3, SameInput DEF IInv, Typed
  <2> QED
    BY <1>1, <1>2, <1>3, <2>1
       DEF IInv, StartInv, CommandInv, OptionsInv, BenchInv, ShownInv, Reported, RunsAsRequested, Nothing
<1>4. CASE stage' = stage /\ at' = Following /\ results' = Append(results, row)
  <2>1. /\ at' \in Nat \X Nat \X Nat /\ at'[1] > 0
        /\ at'[2] \in 1 .. Len(options'.bases) /\ at'[3] \in 1 .. Len(options'.reprs)
        /\ Turns' = Turns /\ \A t \in Turns : Kept(t)' = Kept(t)
        /\ \A t \in Turns : Before(t)' <=> Before(t) \/ t = at
    BY <1>1, <1>2, <1>4, FollowingTurn
  <2>2. row = [program |-> c.program, base |-> c.base, repr |-> c.repr,
               output |-> world[c.program][Config(c.base, c.repr)]]
    BY DEF Result, ConfigOf
  <2>3. row \in Rows
    BY <1>2, <2>2 DEF Rows
  <2>4. IsOf(row, at) /\ row.program \in DOMAIN world
    BY <2>2, <1>1 DEF IsOf, Combination, Readable
  <2> HIDE DEF row, c
  <2>5. /\ results' \in Seq(Rows) /\ DOMAIN results' = DOMAIN results \cup {Len(results) + 1}
        /\ results'[Len(results) + 1] = row /\ \A k \in DOMAIN results : results'[k] = results[k]
    <3>1. results \in Seq(Rows)
      BY DEF IInv, Typed
    <3> QED
      BY <3>1, <2>3, <1>4, AppendRange
  <2>6. Typed'
    BY <2>1, <2>5, <1>1, <1>2, SameInput DEF IInv, Typed
  <2>7. BenchInv'
    <3>1. /\ \A k \in DOMAIN results :
                /\ results[k].program \in DOMAIN world
                /\ \E t \in Turns : Before(t) /\ Kept(t) /\ IsOf(results[k], t)
          /\ \A t \in Turns : Before(t) /\ Kept(t) => \E k \in DOMAIN results : IsOf(results[k], t)
      BY <1>2 DEF IInv, BenchInv
    <3>2. \A k \in DOMAIN results, t \in Turns : IsOf(results[k], t)' <=> IsOf(results[k], t)
      BY <1>1, <2>5 DEF IsOf
    <3>3. PICK now \in Turns : now = at
      BY <1>2
    <3>4. PICK last : last = Len(results) + 1
      OBVIOUS
    <3>5. IsOf(results[last], now)' /\ results'[last].program \in DOMAIN world
      BY <1>1, <2>4, <2>5, <3>3, <3>4 DEF IsOf
    <3>6. /\ DOMAIN results' = DOMAIN results \cup {last} /\ Before(now)' /\ Kept(now)'
          /\ \A t \in Turns : Before(t)' <=> Before(t) \/ t = now
      BY <1>2, <2>1, <2>5, <3>3, <3>4
    <3>7. \A k \in DOMAIN results' :
             /\ results'[k].program \in DOMAIN world'
             /\ \E t \in Turns' : Before(t)' /\ Kept(t)' /\ IsOf(results[k], t)'
      BY <3>1, <3>2, <3>5, <3>6, <1>2, <2>1, <2>5
    <3>8. \A t \in Turns' :
             Before(t)' /\ Kept(t)' => \E k \in DOMAIN results' : IsOf(results[k], t)'
      BY <3>1, <3>2, <3>5, <3>6, <1>2, <2>1, <2>5
    <3> QED
      BY <3>7, <3>8, <1>2, <1>4, <2>1, <1>1, BenchOptionsStay DEF BenchInv
  <2> QED
    BY <1>1, <1>2, <1>4, <2>6, <2>7
       DEF IInv, StartInv, CommandInv, OptionsInv, ShownInv, Reported, RunsAsRequested, Nothing
<1> QED
  BY <1>1, <1>3, <1>4

LEMMA FinishBenchmarksKeepsIInv == IInv /\ FinishBenchmarks => IInv'
<1> SUFFICES ASSUME IInv, FinishBenchmarks PROVE IInv'
  OBVIOUS
<1>1. /\ stage = "bench" /\ stage' = "report" /\ at[1] > Len(options.programs)
      /\ UNCHANGED <<input, parsing>> /\ UNCHANGED input /\ argv' = argv /\ world' = world
      /\ next' = next /\ args' = args /\ options' = options /\ at' = at
      /\ results' = results /\ shown' = shown
  BY DEF FinishBenchmarks, input, parsing, measuring
<1>2. Typed'
  BY <1>1, SameInput DEF IInv, Typed
<1>3. BenchInv'
  BY <1>1, BenchOptionsStay DEF IInv, BenchInv, Turns, Before, Kept, IsOf
<1> QED
  BY <1>1, <1>2, <1>3
     DEF IInv, StartInv, CommandInv, OptionsInv, ShownInv, Reported, RunsAsRequested, Nothing

LEMMA ReportKeepsIInv == IInv /\ Report => IInv'
<1> SUFFICES ASSUME IInv, Report PROVE IInv'
  OBVIOUS
<1>1. /\ stage = "report" /\ UNCHANGED input /\ argv' = argv /\ world' = world /\ shown = Nothing
  BY DEF Report, IInv, ShownInv, input
<1>2. CASE results = <<>>
  BY <1>1, <1>2, EndKeepsIInv DEF Report
<1>3. CASE results # <<>>
  <2>1. /\ shown' = [shown EXCEPT !.table = Table, !.warned = Warned] /\ stage' = "done"
        /\ UNCHANGED <<input, parsing>>
        /\ next' = next /\ args' = args /\ options' = options /\ at' = at /\ results' = results
    BY <1>1, <1>3 DEF Report, parsing, measuring
  <2>2. Typed'
    BY <1>1, <2>1, SameInput DEF IInv, Typed
  <2>3. BenchInv'
    <3>1. /\ at[1] > Len(options.programs)
          /\ at[1] > 0 /\ at[2] \in 1 .. Len(options.bases) /\ at[3] \in 1 .. Len(options.reprs)
          /\ \A k \in DOMAIN results :
                /\ results[k].program \in DOMAIN world
                /\ \E t \in Turns : Before(t) /\ Kept(t) /\ IsOf(results[k], t)
          /\ \A t \in Turns : Before(t) /\ Kept(t) => \E k \in DOMAIN results : IsOf(results[k], t)
      BY <1>1 DEF IInv, BenchInv
    <3> QED
      BY <3>1, <1>1, <2>1, BenchOptionsStay DEF BenchInv, Turns, Before, Kept, IsOf
  <2>4. shown'.table = Table /\ shown'.warned = Warned /\ shown'.output = "none"
    BY <1>1, <2>1 DEF Nothing
  <2>5. Table' = Table /\ Warned' = Warned
    BY <2>1 DEF Table, Warned, Shown, ResultFor, Max
  <2>6. ShownInv'
    BY <2>1, <2>4, <2>5 DEF ShownInv, RunsAsRequested
  <2> QED
    BY <2>1, <2>2, <2>3, <2>6 DEF IInv, StartInv, CommandInv, OptionsInv
<1> QED
  BY <1>2, <1>3

LEMMA StepIInv == IInv /\ [Next]_vars => IInv'
<1> SUFFICES ASSUME IInv, [Next]_vars PROVE IInv'
  OBVIOUS
<1>1. CASE UNCHANGED vars
  <2>1. /\ UNCHANGED input /\ argv' = argv /\ world' = world /\ active' = active /\ stage' = stage
        /\ next' = next /\ args' = args /\ options' = options /\ at' = at
        /\ results' = results /\ shown' = shown
    BY <1>1 DEF vars, input
  <2>2. Typed' /\ BenchDefaults' = BenchDefaults
    BY <2>1, SameInput DEF IInv, Typed, BenchDefaults
  <2>3. StartInv'
    <3>1. Passed(next)' <=> Passed(next)
      BY <2>1, SameInput DEF Passed, Places
    <3> QED
      BY <2>1, <2>2, <3>1, SameInput DEF IInv, StartInv, Latest
  <2>4. Passed(Len(argv) + 1)' <=> Passed(Len(argv) + 1)
    BY <2>1, SameInput DEF Passed, Places
  <2>5. CommandInv'
    BY <2>1, <2>2, <2>4, SameInput DEF IInv, CommandInv
  <2>6. OptionsInv'
    BY <2>1, <2>4 DEF IInv, OptionsInv, Latest, BasesIn, ReprsIn, WordsIn
  <2>7. BenchInv'
    BY <2>1, SameInput DEF IInv, BenchInv, Reported, Turns, Before, Kept, IsOf
  <2>8. ShownInv'
    <3>1. Table' = Table /\ Warned' = Warned
      BY <2>1 DEF Table, Warned, Shown, ResultFor, Max
    <3> QED
      BY <2>1, <3>1, SameInput DEF IInv, ShownInv, Reported, RunsAsRequested
  <2> QED
    BY <2>2, <2>3, <2>5, <2>6, <2>7, <2>8 DEF IInv
<1>2. CASE Next
  BY <1>2, TakeGlobalOptionKeepsIInv, ConfigureKeepsIInv, InformKeepsIInv, RunProgramKeepsIInv,
     CompileProgramKeepsIInv,
     BeginBenchmarksKeepsIInv, TakeBenchOptionKeepsIInv, ChooseProgramsKeepsIInv, SkipKeepsIInv,
     BenchmarkKeepsIInv, RefuseKeepsIInv, FinishBenchmarksKeepsIInv, ReportKeepsIInv DEF Next
<1> QED
  BY <1>1, <1>2

LEMMA Invariance == Spec => []IInv
  BY InitIInv, StepIInv, PTL DEF Spec

-----------------------------------------------------------------------------
(* What follows from the invariant.                                        *)

\* A program runs under the configuration the last --base and --repr ask for.
THEOREM ProgramsRunAsRequested == Spec => []RunsAsRequested
<1>1. IInv => RunsAsRequested
  BY DEF IInv, ShownInv
<1> QED
  BY Invariance, <1>1, PTL

\* A result is a row, and so has the output of its configuration.
LEMMA RowsBelong ==
    ASSUME NEW r \in Rows
    PROVE  /\ r = [program |-> r.program, base |-> r.base, repr |-> r.repr, output |-> r.output]
           /\ r.output = world[r.program][ConfigOf(r)]
           /\ r.base \in Int
  BY DEF Rows, ConfigOf

\* Each result was measured under the configuration it is labelled with.
THEOREM ResultsAreOfTheirConfiguration == Spec => []ResultsBelong
<1>1. IInv => ResultsBelong
  <2> SUFFICES ASSUME IInv, NEW k \in DOMAIN results
               PROVE  results[k].output = world[results[k].program][ConfigOf(results[k])]
    BY DEF ResultsBelong
  <2>1. results[k] \in Rows
    BY DEF IInv, Typed
  <2> QED
    BY <2>1, RowsBelong
<1> QED
  BY Invariance, <1>1, PTL

\* What is reported: the results of all turns.
LEMMA AllTurns ==
    ASSUME IInv, Reported
    PROVE  /\ options \in OptionValues /\ results \in Seq(Rows)
           /\ Range(options.programs) = RequestedPrograms
           /\ Range(options.bases) = RequestedBases
           /\ Range(options.reprs) = Range(LastOption(ReprsAt, DefaultOptions.reprs))
           /\ Range(options.reprs) \subseteq Reprs
           /\ \A k \in DOMAIN results :
                 /\ results[k].program \in DOMAIN world
                 /\ \E t \in Turns : Kept(t) /\ IsOf(results[k], t)
           /\ \A t \in Turns : Kept(t) => \E k \in DOMAIN results : IsOf(results[k], t)
<1>1. /\ options \in OptionValues /\ results \in Seq(Rows) /\ at \in Nat \X Nat \X Nat
      /\ stage # "bench"
  BY DEF IInv, Typed, Reported
<1>2. at[1] > Len(options.programs) /\ Len(options.programs) \in Nat
  BY <1>1 DEF IInv, BenchInv, OptionValues
<1>3. \A t \in Turns : t[1] \in 1 .. Len(options.programs)
  BY DEF Turns
<1>4. \A t \in Turns : Before(t)
  <2>1. \A i \in 1 .. Len(options.programs) : i < at[1]
    BY <1>1, <1>2
  <2> QED
    BY <1>3, <2>1 DEF Before
<1> QED
  BY <1>1, <1>4 DEF IInv, BenchInv, RequestedBases

\* Where a list is the last --repr, what bench takes is what was asked for.
LEMMA ListsReachBench ==
    ASSUME IInv, ReprsReachBench
    PROVE  RequestedReprs = Range(LastOption(ReprsAt, DefaultOptions.reprs))
<1> DEFINE all == {k \in DOMAIN argv : argv[k].option = "repr"}
<1>1. /\ argv \in Seq(Arguments) /\ DOMAIN argv = 1 .. Len(argv) /\ Len(argv) \in Nat
  BY BenchSessionAssumption DEF IInv, Typed
<1>2. all = ReprAt \cup ReprsAt /\ ReprsAt \in SUBSET (1 .. Len(argv))
  <2>1. \A k \in DOMAIN argv : argv[k] \in Arguments
    BY <1>1
  <2>2. \A k \in DOMAIN argv : argv[k].option = "repr" => IsRepr(argv[k]) \/ IsReprs(argv[k])
    BY <2>1, ArgumentFacts
  <2> QED
    BY <1>1, <2>2 DEF ReprAt, ReprsAt, IsRepr, IsReprs
<1>3. CASE ReprsAt = {}
  <2>1. all = {}
    BY <1>2, <1>3 DEF ReprsReachBench
  <2> QED
    BY <1>3, <2>1 DEF RequestedReprs, LastOption
<1>4. CASE ReprsAt # {}
  <2>1. Max(ReprsAt) \in ReprsAt /\ \A k \in ReprsAt : k <= Max(ReprsAt)
    BY <1>1, <1>2, <1>4, LargestPosition
  <2>2. all \in SUBSET (1 .. Len(argv)) /\ all # {}
    BY <1>1, <2>1, <1>2
  <2>3. Max(all) \in all /\ \A k \in all : k <= Max(all)
    BY <1>1, <2>2, LargestPosition
  <2>4. Max(all) \in ReprsAt
    <3>1. ASSUME Max(all) \in ReprAt PROVE FALSE
      <4>1. PICK j \in ReprsAt : j > Max(all)
        BY <3>1 DEF ReprsReachBench
      <4>2. j \in Nat /\ Max(all) \in Nat /\ j <= Max(all)
        BY <1>1, <1>2, <2>2, <2>3, <4>1
      <4> QED
        BY <4>1, <4>2
    <3> QED
      BY <1>2, <2>3, <3>1
  <2>5. Max(all) = Max(ReprsAt)
    <3>1. Max(all) <= Max(ReprsAt) /\ Max(ReprsAt) <= Max(all)
      BY <1>2, <2>1, <2>3, <2>4
    <3>2. Max(all) \in Nat /\ Max(ReprsAt) \in Nat
      BY <1>2, <2>1, <2>4
    <3> QED
      BY <3>1, <3>2
  <2> HIDE DEF all
  <2>6. LastOption(all, DefaultOptions.reprs) = LastOption(ReprsAt, DefaultOptions.reprs)
    BY <1>4, <2>2, <2>5 DEF LastOption
  <2> QED
    BY <2>6 DEF RequestedReprs, all
<1> QED
  BY <1>3, <1>4

\* Where the last --repr, if any, is a list, the benchmarks reported are those
\* the command line asks for; a single value is lost (EveryReprBenchmarked).
THEOREM BenchmarksAreThoseRequested == Spec => []RequestedBenchmarked
<1>1. IInv => RequestedBenchmarked
  <2> DEFINE done == {<<r.program, r.base, r.repr>> : r \in Range(results)}
             wanted == {c \in RequestedPrograms \X RequestedBases \X RequestedReprs :
                           c[3] = "unsigned" \/ c[2] % 2 = 1}
  <2> SUFFICES ASSUME IInv, Reported, ReprsReachBench PROVE done = wanted
    BY DEF RequestedBenchmarked, BenchmarksMatch
  <2>0. Range(options.reprs) = RequestedReprs
    BY AllTurns, ListsReachBench
  <2>1. /\ options.programs \in Seq(Names) /\ options.bases \in Seq(Int) /\ options.reprs \in Seq(Names)
    BY AllTurns DEF OptionValues
  <2>2. \A b \in Int : b % 2 # 0 <=> b % 2 = 1
    OBVIOUS
  <2>3. \A t \in Turns :
           /\ t[1] \in DOMAIN options.programs /\ t[2] \in DOMAIN options.bases
           /\ t[3] \in DOMAIN options.reprs /\ options.bases[t[2]] \in Int
           /\ options.reprs[t[3]] \in Reprs
    BY <2>1, AllTurns DEF Turns, Range
  <2>4. \A t \in Turns : Kept(t) <=> options.reprs[t[3]] = "unsigned" \/ options.bases[t[2]] % 2 = 1
    BY <2>2, <2>3 DEF Kept, Reprs
  <2>5. ASSUME NEW k \in DOMAIN results
        PROVE  <<results[k].program, results[k].base, results[k].repr>> \in wanted
    <3>1. PICK t \in Turns : Kept(t) /\ IsOf(results[k], t)
      BY AllTurns
    <3>2. /\ results[k].program \in RequestedPrograms /\ results[k].base \in RequestedBases
          /\ results[k].repr \in RequestedReprs
      <4>1. /\ options.programs[t[1]] \in Range(options.programs)
            /\ options.bases[t[2]] \in Range(options.bases)
            /\ options.reprs[t[3]] \in Range(options.reprs)
        BY <2>3 DEF Range
      <4> QED
        BY <2>0, <3>1, <4>1, AllTurns DEF IsOf
    <3>3. results[k].repr = "unsigned" \/ results[k].base % 2 = 1
      BY <3>1, <2>4 DEF IsOf
    <3> QED
      BY <3>2, <3>3
  <2>6. ASSUME NEW c \in wanted
        PROVE  \E k \in DOMAIN results :
                  c = <<results[k].program, results[k].base, results[k].repr>>
    <3>1. /\ c[1] \in Range(options.programs) /\ c[2] \in Range(options.bases)
          /\ c[3] \in Range(options.reprs) /\ c = <<c[1], c[2], c[3]>>
      BY <2>0, AllTurns
    <3>2. PICK i \in DOMAIN options.programs, j \in DOMAIN options.bases, l \in DOMAIN options.reprs :
             c[1] = options.programs[i] /\ c[2] = options.bases[j] /\ c[3] = options.reprs[l]
      BY <3>1 DEF Range
    <3>3. <<i, j, l>> \in Turns /\ <<i, j, l>>[1] = i /\ <<i, j, l>>[2] = j /\ <<i, j, l>>[3] = l
      BY <2>1 DEF Turns
    <3>4. PICK t \in Turns : t[1] = i /\ t[2] = j /\ t[3] = l
      BY <3>3
    <3>5. Kept(t)
      BY <2>4, <3>2, <3>4
    <3>6. PICK k \in DOMAIN results : IsOf(results[k], t)
      BY <3>5, AllTurns
    <3> QED
      BY <3>1, <3>2, <3>4, <3>6 DEF IsOf
  <2> HIDE DEF wanted
  <2> QED
    BY <2>5, <2>6 DEF Range
<1> QED
  BY Invariance, <1>1, PTL

\* With one representation a program has one result for each base.
LEMMA OneResult ==
    ASSUME IInv, Reported, \A r1, r2 \in Range(results) : r1.repr = r2.repr,
           NEW k \in DOMAIN results, NEW n \in DOMAIN results,
           results[k].program = results[n].program, results[k].base = results[n].base
    PROVE  results[k] = results[n]
<1>1. results[k] \in Rows /\ results[n] \in Rows
  BY AllTurns
<1>2. results[k] \in Range(results) /\ results[n] \in Range(results)
  BY DEF Range
<1>3. results[k].repr = results[n].repr
  BY <1>2
<1>4. results[k].output = results[n].output
  BY <1>1, <1>3, RowsBelong DEF ConfigOf
<1> QED
  BY <1>1, <1>3, <1>4, RowsBelong

\* Where all results are of one representation every result is in the table.
LEMMA TableHasResult ==
    ASSUME IInv, Reported, \A r1, r2 \in Range(results) : r1.repr = r2.repr, NEW k \in DOMAIN results
    PROVE  /\ results[k].program \in DOMAIN Table
           /\ results[k].base \in DOMAIN Table[results[k].program]
           /\ Table[results[k].program][results[k].base] = results[k]
<1> DEFINE p == results[k].program
           b == results[k].base
           same == {n \in DOMAIN results : results[n].program = p /\ results[n].base = b}
<1>1. Max(same) \in same
  <2>1. Len(results) \in Nat /\ same \in SUBSET (1 .. Len(results)) /\ same # {}
    BY AllTurns
  <2> HIDE DEF same
  <2> QED
    BY <2>1, LargestPosition
<1>2. ResultFor(p, b) = results[Max(same)]
  BY DEF ResultFor
<1>3. results[Max(same)] = results[k]
  BY <1>1, OneResult
<1>4. p \in {r.program : r \in Range(results)} /\ b \in Shown(p)
  BY DEF Range, Shown
<1>5. Table[p] = [base \in Shown(p) |-> ResultFor(p, base)] /\ p \in DOMAIN Table
  BY <1>4 DEF Table
<1> HIDE DEF p, b, same
<1> QED
  BY <1>2, <1>3, <1>4, <1>5 DEF p, b

\* Where all results are of one representation the report leaves nothing out.
THEOREM ReportsLeaveNothingOut == Spec => []ReportsComplete
<1>1. IInv => ReportsComplete
  <2> SUFFICES ASSUME IInv, Reported, \A r1, r2 \in Range(results) : r1.repr = r2.repr
               PROVE  /\ Range(results) =
                           UNION {{Table[p][b] : b \in DOMAIN Table[p]} : p \in DOMAIN Table}
                      /\ Warned = {p \in DOMAIN world :
                            \E r, q \in {r \in Range(results) : r.program = p} :
                               r.output # q.output}
    BY DEF ReportsComplete, IInv, ShownInv
  <2>1. ASSUME NEW p \in DOMAIN Table, NEW b \in DOMAIN Table[p]
        PROVE  \E k \in DOMAIN results :
                  results[k].program = p /\ results[k].base = b /\ Table[p][b] = results[k]
    <3>1. DOMAIN Table[p] = Shown(p)
      BY DEF Table
    <3>2. PICK k \in DOMAIN results : results[k].program = p /\ results[k].base = b
      BY <3>1 DEF Shown
    <3> QED
      BY <3>2, TableHasResult
  <2>2. ASSUME NEW p \in DOMAIN Table PROVE DOMAIN Table[p] = Shown(p)
    BY DEF Table
  <2>3. Range(results) = UNION {{Table[p][b] : b \in DOMAIN Table[p]} : p \in DOMAIN Table}
    <3>1. \A k \in DOMAIN results :
             results[k] \in UNION {{Table[p][b] : b \in DOMAIN Table[p]} : p \in DOMAIN Table}
      BY TableHasResult
    <3>2. \A p \in DOMAIN Table : \A b \in DOMAIN Table[p] : Table[p][b] \in Range(results)
      BY <2>1 DEF Range
    <3> QED
      BY <3>1, <3>2 DEF Range
  <2>4. ASSUME NEW p \in Warned
        PROVE  /\ p \in DOMAIN world
               /\ \E r, q \in {r \in Range(results) : r.program = p} : r.output # q.output
    <3>1. PICK b1 \in Shown(p), b2 \in Shown(p) :
             p \in DOMAIN Table /\ Table[p][b1].output # Table[p][b2].output
      BY DEF Warned
    <3>2. PICK k \in DOMAIN results : results[k].program = p /\ Table[p][b1] = results[k]
      BY <3>1, <2>1, <2>2
    <3>3. PICK n \in DOMAIN results : results[n].program = p /\ Table[p][b2] = results[n]
      BY <3>1, <2>1, <2>2
    <3>4. p \in DOMAIN world
      BY <3>2, AllTurns
    <3> QED
      BY <3>1, <3>2, <3>3, <3>4 DEF Range
  <2>5. ASSUME NEW p, NEW k \in DOMAIN results, NEW n \in DOMAIN results,
               results[k].program = p, results[n].program = p,
               results[k].output # results[n].output
        PROVE  p \in Warned
    <3>1. /\ p \in DOMAIN Table /\ Table[p][results[k].base] = results[k]
          /\ Table[p][results[n].base] = results[n]
      BY <2>5, TableHasResult
    <3>2. results[k].base \in Shown(p) /\ results[n].base \in Shown(p)
      BY <2>5 DEF Shown
    <3> QED
      BY <3>1, <3>2, <2>5 DEF Warned
  <2>6. Warned = {p \in DOMAIN world :
                     \E r, q \in {r \in Range(results) : r.program = p} : r.output # q.output}
    <3>1. ASSUME NEW p, NEW r \in Range(results), NEW q \in Range(results), r.program = p,
                 q.program = p, r.output # q.output
          PROVE  p \in Warned
      BY <3>1, <2>5 DEF Range
    <3> QED
      BY <2>4, <3>1
  <2> QED
    BY <2>3, <2>6
<1> QED
  BY Invariance, <1>1, PTL
=============================================================================
