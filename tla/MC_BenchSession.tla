-------------------------- MODULE MC_BenchSession --------------------------
(***************************************************************************)
(* Instances of BenchSession for TLC: two programs, of which any output    *)
(* under any configuration may be one of two or an error, and command      *)
(* lines of up to six arguments.                                           *)
(***************************************************************************)
EXTENDS BenchSession, TLC

Word(w) == Arg("none", <<w>>)

Lines(parts1, parts2, parts3, parts4) ==
    {a \o b \o c \o d : a \in parts1, b \in parts2, c \in parts3, d \in parts4}

Options1(option, lists) == {<<>>} \cup {<<Arg(option, l)>> : l \in lists}

Base == Options1("base", {<<b>> : b \in {1, 3, 10}})
Repr == Options1("repr", {<<"unsigned">>, <<"balanced">>, <<"ternary">>})
Both == <<Arg("repr", <<"unsigned", "balanced">>)>>

\* Options before and after the command, and twice.
RunLines ==
    Lines(Base, Repr, {<<Word(w), Word("p")>> : w \in {"run", "compile"}}, Base) \cup
    {<<Word(w)>> : w \in {"run", "version", "test"}} \cup
    {<<>>, <<Word("run"), Word("missing")>>, <<Arg("bases", <<3>>), Word("bench")>>}

BenchLines ==
    Lines(Base, {<<Word("bench")>>},
          Options1("bases", {<<2, 3>>, <<3, 7, 3>>, <<3, 1>>}),
          {<<>>, Both, <<Word("q"), Word("p")>>, Both \o <<Word("missing"), Word("p")>>,
           Both \o <<Word("q"), Word("p")>>, <<Arg("repr", <<"unsigned", "">>)>>}) \cup
    {<<Word("bench"), Arg("bases", <<2>>), Arg("repr", <<"balanced", "balanced">>)>>,
     <<Word("bench"), Arg("repr", <<"balanced">>)>>,
     <<Arg("repr", <<"balanced">>), Word("bench")>> \o Both,
     <<Word("bench")>> \o Both \o <<Arg("repr", <<"balanced">>)>>,
     Both \o <<Word("bench"), Arg("repr", <<"balanced", "balanced">>)>>,
     <<Word("bench"), Arg("bases", <<3, 7>>), Arg("repr", <<"balanced", "balanced">>),
       Word("p")>>}

MCCommandLines == RunLines \cup BenchLines

Configs == {c \in {Config(b, r) : b \in {2, 3, 7, 10}, r \in Reprs} : ValidConfig(c)}

AllConfigs == {c \in {Config(b, r) : b \in Bases, r \in Reprs} : ValidConfig(c)}

MCNames == {"run", "compile", "bench", "version", "test", "p", "q", "missing",
            "unsigned", "balanced", "ternary", ""}

MCBenchmarks == <<"p">>

\* q gives the same output under each configuration, p under those that are
\* not benchmarked.
MCWorlds ==
    {("p" :> [c \in AllConfigs |-> IF c \in Configs THEN behaviour[c] ELSE "1"]) @@
     ("q" :> [c \in AllConfigs |-> "1"]) :
        behaviour \in [Configs -> {"1", "2", "raises"}]}
=============================================================================
