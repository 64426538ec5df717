--------------------------- MODULE MC_CompiledRun ---------------------------
(***************************************************************************)
(* Instances of CompiledRun for TLC: programs with a main that executes    *)
(* every sequence of BodyLength IR instructions over a small set, between  *)
(* two labels, and a callee in several forms; a few programs that need     *)
(* more than that; and some whose slots and calls fill memory to the last  *)
(* cell, want one more, or recurse.                                        *)
(***************************************************************************)
EXTENDS CompiledRun, RadixConfig

CONSTANT BodyLength

X == "local:x"
T == "temp:0"
G == "global:g"
A == "param:a"
B == "param:b"
C == "param:c"

Const(d, v)       == IRInstr("CONST", d, "", "", v, "")
Copy(d, s)        == IRInstr("COPY", d, s, "", 0, "")
Op2(op, d, s, s2) == IRInstr(op, d, s, s2, 0, "")
Op1(op, d, s)     == IRInstr(op, d, s, "", 0, "")
Use(op, s)        == IRInstr(op, "", s, "", 0, "")
Branching(op, s, l) == IRInstr(op, "", s, "", 0, l)
Mark(l)           == IRInstr("LABEL", "", "", "", 0, l)
Argument(n, s)    == IRInstr("ARG", "", s, "", n, "")
Calling(d, f)     == IRInstr("CALL", d, "", "", 0, f)
Plain(op)         == IRInstr(op, "", "", "", 0, "")

IRSet ==
    {Const(T, Modulus - 1), Copy(X, T), Copy(G, X),
     Op2("ADD", X, X, T), Op2("SUB", T, G, X), Op1("NEG", T, X), Op1("NOT", X, X),
     Op1("MEM_LOAD", T, X), Op1("MEM_STORE", T, X),
     Branching("JUMP", "", "L1"), Branching("JUMP_Z", X, "L0"),
     Branching("JUMP_NZ", X, "L1"),
     Argument(0, X), Calling("", "f"), Calling(X, "f"),
     Use("PRINT", X), Use("PRINTD", T), Plain("HALT")} \cup
    {Op2(op, X, T, X) : op \in Comparisons}

Fn(name, params, locals, temps, body) ==
    [name |-> name, params |-> params, locals |-> locals, temps |-> temps,
     body |-> body]

Program(functions) ==
    [globals |-> <<[slot |-> G, init |-> Modulus + 3]>>, functions |-> functions]

Main(s) ==
    Fn("main", <<>>, <<X>>, 1,
       <<Mark("L0"), Const(T, 1), Argument(0, T)>> \o s \o
       <<Use("PRINTD", X), Mark("L1"), Plain("RETURN_VOID")>>)

\* A callee that returns a word, and one that changes a global, uses the same
\* names as main for its slots and its label, and returns nothing.
Callee(kind) ==
    IF kind = "word"
    THEN Fn("f", <<A>>, <<>>, 1, <<Op2("ADD", T, A, G), Use("RETURN", T)>>)
    ELSE Fn("f", <<A>>, <<X>>, 1,
            <<Op1("NOT", X, A), Branching("JUMP_NZ", X, "L1"), Copy(G, A),
              Mark("L1"), Plain("RETURN_VOID")>>)

\* Three parameters, calls three deep, a loop, and a program whose main is
\* between its callees.
Larger(name) ==
    CASE name = "three" ->
           Program(<<Fn("f", <<A, B, C>>, <<X>>, 2,
                        <<Op2("SUB", T, A, B), Op2("ADD", X, T, C), Use("RETURN", X)>>),
                     Fn("main", <<>>, <<X>>, 3,
                        <<Const(T, 5), Const("temp:1", 2), Const("temp:2", 7),
                          Argument(0, T), Argument(1, "temp:1"), Argument(2, "temp:2"),
                          Calling(X, "f"), Use("PRINT", X), Plain("RETURN_VOID")>>)>>)
      [] name = "nested" ->
           Program(<<Fn("f", <<A>>, <<>>, 1,
                        <<Argument(0, A), Calling(T, "g"), Op2("ADD", T, T, A),
                          Use("RETURN", T)>>),
                     Fn("main", <<>>, <<X>>, 1,
                        <<Const(T, 3), Argument(0, T), Calling(X, "f"), Use("PRINTD", X),
                          Argument(0, X), Calling("", "g"), Plain("RETURN_VOID")>>),
                     Fn("g", <<A>>, <<>>, 1,
                        <<Argument(0, A), Calling("", "h"), Op1("NEG", T, A),
                          Use("RETURN", T)>>),
                     Fn("h", <<A>>, <<>>, 0,
                        <<Copy(G, A), Use("PRINT", G), Plain("RETURN_VOID")>>)>>)
      [] name = "loop" ->
           Program(<<Fn("main", <<>>, <<X>>, 1,
                        <<Const(T, 3), Copy(X, T), Mark("L0"), Branching("JUMP_Z", X, "L1"),
                          Op1("MEM_STORE", X, X), Const(T, 1), Op2("SUB", X, X, T),
                          Op1("MEM_LOAD", T, X), Use("PRINTD", T),
                          Branching("JUMP", "", "L0"), Mark("L1"),
                          Plain("RETURN_VOID")>>)>>)

LargerNames == {"three", "nested", "loop"}

\* A function with that many temporaries that uses the last of them.
Wide(name, temps) ==
    LET last == TempSlot(temps - 1)
    IN  Fn(name, <<>>, <<>>, temps,
           <<Const(last, 1), Use("PRINT", last), Plain("RETURN_VOID")>>)

\* main calls f, f calls g, and g has all the memory the others leave but for
\* "free" cells.  With three cells the return addresses of the three calls meet
\* the last slot and do not touch it; g is called twice.
Chain(free) ==
    Program(<<Fn("main", <<>>, <<X>>, 1,
                 <<Const(T, 2), Copy(X, T), Calling("", "f"), Use("PRINTD", X),
                   Plain("RETURN_VOID")>>),
              Fn("f", <<>>, <<X>>, 0,
                 <<Copy(X, G), Calling("", "g"), Calling("", "g"), Use("PRINTD", X),
                   Plain("RETURN_VOID")>>),
              Wide("g", MemorySize - free - (DataBase + 1 + 3))>>)

\* One cell less than HasRoom asks for: the calls of main nest less deep than
\* there are functions, so that it is not missed.
Crowded ==
    Program(<<Fn("main", <<>>, <<X>>, 1,
                 <<Const(T, 2), Copy(X, T), Calling("", "g"), Use("PRINTD", X),
                   Plain("RETURN_VOID")>>),
              Fn("f", <<>>, <<X>>, 0, <<Calling("", "g"), Plain("RETURN_VOID")>>),
              Wide("g", MemorySize - 2 - (DataBase + 1 + 3))>>)

\* A function that calls itself until the step limit, deeper than there are
\* functions.
Recursive ==
    Program(<<Fn("main", <<>>, <<>>, 0, <<Calling("", "f"), Plain("RETURN_VOID")>>),
              Fn("f", <<>>, <<>>, 1,
                 <<Const(T, 1), Use("PRINT", T), Calling("", "f"),
                   Plain("RETURN_VOID")>>)>>)

MCSources ==
    {Program(<<Main(s), Callee(kind)>>) :
        s \in [1 .. BodyLength -> IRSet], kind \in {"word", "void"}}
    \cup {Larger(name) : name \in LargerNames}
    \cup {Chain(3), Crowded, Recursive}

\* A program without recursion, twenty-three statements print(0), each with
\* a temporary of its own: with one global they fill the memory of a base-2
\* machine to its last cell.
WideSources ==
    {Program(<<Fn("main", <<>>, <<>>, 23,
                  [j \in 1 .. 46 |->
                      IF j % 2 = 1 THEN Const(TempSlot((j - 1) \div 2), 0)
                      ELSE Use("PRINT", TempSlot((j - 1) \div 2))]
                  \o <<Plain("RETURN_VOID")>>)>>)}
=============================================================================
