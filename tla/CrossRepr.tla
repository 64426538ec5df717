----------------------------- MODULE CrossRepr -----------------------------
(***************************************************************************)
(* One image executed under both representations of a radix, as the        *)
(* benchmarks execute it one after the other (septa/bench/runner.py), here *)
(* step by step side by side: an unsigned machine and a balanced one, each *)
(* with a state of its own.  The image is the same; so this is about       *)
(* programs without Booleans, whose true is another word in each.          *)
(***************************************************************************)
EXTENDS Integers, Sequences

CONSTANTS Modulus, MemorySize, MaxSteps, Programs

\* The balanced representation demands an odd base.
ASSUME OddModulus == Modulus \in Nat /\ Modulus >= 3 /\ Modulus % 2 = 1

VARIABLES
    code,
    gp, pc, sp, fr, mem, output, steps, outcome,            \* unsigned
    gpB, pcB, spB, frB, memB, outputB, stepsB, outcomeB,    \* balanced
    strayed     \* a step has told the representations apart

U == INSTANCE SeptaVM WITH Balanced <- FALSE

B == INSTANCE SeptaVM WITH Balanced <- TRUE, gp <- gpB, pc <- pcB, sp <- spB,
        fr <- frB, mem <- memB, output <- outputB, steps <- stepsB,
        outcome <- outcomeB

\* What the assembler guarantees of images.
ASSUME ImagesAssumption ==
    /\ MemorySize \in Nat /\ MemorySize >= 1
    /\ \A p \in Programs :
          p \in Seq(U!Instructions) /\ \A k \in DOMAIN p : U!Encoded(p[k])

unsigned == <<gp, pc, sp, fr, mem, output, steps, outcome>>
balanced == <<gpB, pcB, spB, frB, memB, outputB, stepsB, outcomeB>>
vars == <<code, unsigned, balanced, strayed>>

Half == (Modulus - 1) \div 2

\* What the balanced machine has in place of an unsigned word.
Reading(word) == IF word > Half THEN word - Modulus ELSE word

\* The next instruction depends on which side of zero a word above Half is:
\* it compares one with a word that is not, or goes where it says.
Straying ==
    /\ U!Fetchable
    /\ \/ /\ U!instr.op = "CMP"
          /\ (gp[U!instr.a] > Half) # (gp[U!instr.b] > Half)
       \/ /\ U!instr.op \in {"LDR", "STR"}
          /\ gp[U!instr.b] > Half /\ gp[U!instr.b] < MemorySize
       \/ /\ U!instr.op = "RET"
          /\ sp + 1 < MemorySize /\ mem[sp + 1] > Half

Init == U!Init /\ B!Init /\ strayed = FALSE

Both == U!Next /\ B!Next /\ strayed' = (strayed \/ Straying)

\* Where one has ended the other goes on alone.
UnsignedAlone ==
    outcomeB # "running" /\ U!Next /\ UNCHANGED <<balanced, strayed>>

BalancedAlone ==
    outcome # "running" /\ B!Next /\ UNCHANGED <<unsigned, strayed>>

Next == Both \/ UnsignedAlone \/ BalancedAlone

Spec == Init /\ [][Next]_vars

-----------------------------------------------------------------------------
(* Correctness.                                                            *)

Agree ==
    /\ pcB = pc /\ spB = sp /\ frB = fr /\ stepsB = steps /\ outcomeB = outcome
    /\ gpB = [r \in U!Registers |-> Reading(gp[r])]
    /\ memB = [x \in U!Addresses |-> Reading(mem[x])]
    /\ outputB = [k \in DOMAIN output |-> <<output[k][1], Reading(output[k][2])>>]

\* Until a step compares words on different sides of the middle, or uses one
\* above it as an address, the machines do the same: same instructions, same
\* flags, same end, and every word of one is the other's, read the other way.
MachinesAgree == ~strayed => Agree

\* Executed to the end, a program takes the same number of steps and prints the
\* same numbers with printd under both representations.
RunsIdentical ==
    outcome # "running" /\ outcomeB # "running" =>
        /\ stepsB = steps
        /\ LET Decimals(out) == SelectSeq(out, LAMBDA entry : entry[1] = "PRINTD")
           IN  Decimals(outputB) = Decimals(output)
=============================================================================
