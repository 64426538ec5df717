------------------------------ MODULE SeptaVM ------------------------------
(***************************************************************************)
(* The SeptaVM: the register machine that executes an assembled image      *)
(* (septa/vm).  One action per instruction handler of vm/instructions.py;  *)
(* the faults, which the code raises as VMError, are actions of their own. *)
(* The driver is Machine.run: it steps until HALT, until a VMError, or     *)
(* until max_steps instructions have been executed without a HALT.         *)
(*                                                                         *)
(* The image is chosen in Init from the constant Programs, so that one run *)
(* of the model checker executes a whole family of images.                 *)
(***************************************************************************)
EXTENDS Words, Sequences

CONSTANTS
    MemorySize,   \* cells of memory: RadixConfig.memory_size
    MaxSteps,     \* Machine.run's max_steps (100000 unless the caller says)
    Programs      \* the images: sequences of encoded instructions

Registers == 0 .. 6
Addresses == 0 .. MemorySize - 1
Flags     == {"Z", "G", "L"}

(***************************************************************************)
(* An encoded instruction [op, a, b, c] is a record; an operand its opcode *)
(* does not have is 0.  JMP to CALL have their target in a, LI its         *)
(* immediate and LD and ST their address in b; every other operand is the  *)
(* number of a register.                                                   *)
(***************************************************************************)
Instructions == [op : STRING, a : Int, b : Int, c : Int]

FirstIsRegister == {"LI", "MOV", "LD", "ST", "LDR", "STR", "ADD", "SUB",
                    "CMP", "PRINT", "PRINTD"}
SecondIsRegister == {"MOV", "LDR", "STR", "ADD", "SUB", "CMP"}
ThirdIsRegister == {"ADD", "SUB"}

Opcodes == FirstIsRegister \cup
    {"JMP", "JZ", "JNZ", "JG", "JL", "JGE", "JLE", "CALL", "RET", "HALT", "NOP"}

\* What assembler._encode guarantees of every instruction it produces.
Encoded(i) ==
    /\ i \in Instructions
    /\ i.op \in FirstIsRegister  => i.a \in Registers
    /\ i.op \in SecondIsRegister => i.b \in Registers
    /\ i.op \in ThirdIsRegister  => i.c \in Registers

ASSUME VMAssumption ==
    /\ MemorySize \in Nat /\ MemorySize >= 1
    /\ MaxSteps \in Nat /\ MaxSteps >= 1
    /\ \A p \in Programs :
          p \in Seq(Instructions) /\ \A k \in DOMAIN p : Encoded(p[k])

VARIABLES
    code,      \* the image
    gp,        \* R0 .. R6
    pc,        \* index (from 0) of the next instruction
    sp,        \* the next free cell of the call stack, which grows downward
    fr,        \* the flags that are set
    mem,       \* memory
    output,    \* what PRINT and PRINTD have output, in order
    steps,     \* instructions executed
    outcome    \* "running", or how run() ended

vars == <<code, gp, pc, sp, fr, mem, output, steps, outcome>>

Faults == {"pc out of bounds", "unknown opcode", "memory out of bounds",
           "stack overflow", "stack underflow"}

\* Mutant: the stack starts one cell below the last.
Reset_LastCellUnused ==
    /\ gp = [r \in Registers |-> 0]
    /\ pc = 0
    /\ sp = MemorySize - 2
    /\ fr = {}
    /\ mem = [x \in Addresses |-> 0]
    /\ output = <<>>
    /\ steps = 0
    /\ outcome = "running"

\* A new Machine, and an image loaded into it.
Reset ==
    /\ gp = [r \in Registers |-> 0]
    /\ pc = 0
    /\ sp = MemorySize - 1
    /\ fr = {}
    /\ mem = [x \in Addresses |-> 0]
    /\ output = <<>>
    /\ steps = 0
    /\ outcome = "running"

Init == code \in Programs /\ Reset

-----------------------------------------------------------------------------
(* The frame of a step: fetch, and what Machine.step and run do after it.  *)

Fetchable == outcome = "running" /\ pc >= 0 /\ pc < Len(code)
instr == code[pc + 1]
Executing(op) == Fetchable /\ instr.op = op

\* The instruction completed: count it, and stop at the limit.
Completed ==
    /\ steps' = steps + 1
    /\ outcome' = IF steps + 1 >= MaxSteps THEN "step limit" ELSE "running"
    /\ UNCHANGED code

Advance == pc' = pc + 1 /\ Completed

\* Mutant: an instruction is counted before it is executed.
Fault_Counted(reason) ==
    /\ outcome' = reason
    /\ steps' = steps + 1
    /\ UNCHANGED <<code, gp, pc, fr, output>>

\* A VMError ends the run; the instruction is not counted.
Fault(reason) ==
    /\ outcome' = reason
    /\ UNCHANGED <<code, gp, pc, fr, output, steps>>

\* Mutant: registers do not wrap.
SetRegister_Unwrapped(r, v) == gp' = [gp EXCEPT ![r] = v]

SetRegister(r, v) == gp' = [gp EXCEPT ![r] = WrapWord(v)]
StoreWord(addr, v) == mem' = [mem EXCEPT ![addr] = WrapWord(v)]
\* Mutant: flags are set and never reset.
SetFlags_Accumulating(z, g, l) ==
    fr' = fr \cup {f \in Flags : \/ f = "Z" /\ z
                                 \/ f = "G" /\ g
                                 \/ f = "L" /\ l}

SetFlags(z, g, l) ==
    fr' = {f \in Flags : \/ f = "Z" /\ z
                         \/ f = "G" /\ g
                         \/ f = "L" /\ l}

-----------------------------------------------------------------------------
(* Moves between registers and memory.                                     *)

LoadImmediate ==
    /\ Executing("LI")
    /\ SetRegister(instr.a, instr.b)
    /\ Advance
    /\ UNCHANGED <<sp, fr, mem, output>>

Move ==
    /\ Executing("MOV")
    /\ SetRegister(instr.a, gp[instr.b])
    /\ Advance
    /\ UNCHANGED <<sp, fr, mem, output>>

Load ==
    /\ Executing("LD")
    /\ instr.b \in Addresses
    /\ SetRegister(instr.a, mem[instr.b])
    /\ Advance
    /\ UNCHANGED <<sp, fr, mem, output>>

Store ==
    /\ Executing("ST")
    /\ instr.b \in Addresses
    /\ StoreWord(instr.b, gp[instr.a])
    /\ Advance
    /\ UNCHANGED <<gp, sp, fr, output>>

LoadIndirect ==
    /\ Executing("LDR")
    /\ gp[instr.b] \in Addresses
    /\ SetRegister(instr.a, mem[gp[instr.b]])
    /\ Advance
    /\ UNCHANGED <<sp, fr, mem, output>>

StoreIndirect ==
    /\ Executing("STR")
    /\ gp[instr.b] \in Addresses
    /\ StoreWord(gp[instr.b], gp[instr.a])
    /\ Advance
    /\ UNCHANGED <<gp, sp, fr, output>>

-----------------------------------------------------------------------------
(* Arithmetic and comparison: every one of them resets all three flags.    *)

\* Mutant: the flags are those of the result before it wraps.
Arithmetic_RawFlags(result) ==
    /\ SetRegister(instr.a, result)
    /\ SetFlags(result = 0, FALSE, FALSE)
    /\ Advance
    /\ UNCHANGED <<sp, mem, output>>

Arithmetic(result) ==
    /\ SetRegister(instr.a, result)
    /\ SetFlags(WrapWord(result) = 0, FALSE, FALSE)
    /\ Advance
    /\ UNCHANGED <<sp, mem, output>>

Add == Executing("ADD") /\ Arithmetic(gp[instr.b] + gp[instr.c])

Sub == Executing("SUB") /\ Arithmetic(gp[instr.b] - gp[instr.c])

Compare ==
    /\ Executing("CMP")
    /\ LET x == gp[instr.a]
           y == gp[instr.b]
       IN  SetFlags(x = y, x > y, x < y)
    /\ Advance
    /\ UNCHANGED <<gp, sp, mem, output>>

-----------------------------------------------------------------------------
(* Control flow.                                                           *)

\* Mutant: a branch does not count as a step.
Branch_Uncounted(op, taken) ==
    /\ Executing(op)
    /\ pc' = IF taken THEN instr.a ELSE pc + 1
    /\ UNCHANGED <<code, steps, outcome, gp, sp, fr, mem, output>>

Branch(op, taken) ==
    /\ Executing(op)
    /\ pc' = IF taken THEN instr.a ELSE pc + 1
    /\ Completed
    /\ UNCHANGED <<gp, sp, fr, mem, output>>

Jmp == Branch("JMP", TRUE)
Jz  == Branch("JZ", "Z" \in fr)
Jnz == Branch("JNZ", "Z" \notin fr)
Jg  == Branch("JG", "G" \in fr)
Jl  == Branch("JL", "L" \in fr)
Jge == Branch("JGE", "G" \in fr \/ "Z" \in fr)
Jle == Branch("JLE", "L" \in fr \/ "Z" \in fr)

\* Mutant: sp is moved first, as if it pointed to the last full cell.
PushReturnAddress_SpFirst ==
    /\ StoreWord(sp - 1, pc + 1)
    /\ sp' = sp - 1

\* Mutant: the address of the CALL itself is stored.
PushReturnAddress_Self ==
    /\ StoreWord(sp, pc)
    /\ sp' = sp - 1

\* The return address is stored, and sp moved, before the overflow check.
PushReturnAddress ==
    /\ StoreWord(sp, pc + 1)
    /\ sp' = sp - 1

\* Mutant: no check for overflow.
Call_Unchecked ==
    /\ Executing("CALL")
    /\ sp \in Addresses
    /\ PushReturnAddress
    /\ pc' = instr.a
    /\ Completed
    /\ UNCHANGED <<gp, fr, output>>

Call ==
    /\ Executing("CALL")
    /\ sp \in Addresses
    /\ sp - 1 >= 0
    /\ PushReturnAddress
    /\ pc' = instr.a
    /\ Completed
    /\ UNCHANGED <<gp, fr, output>>

StackOverflow ==
    /\ Executing("CALL")
    /\ sp \in Addresses
    /\ sp - 1 < 0
    /\ PushReturnAddress
    /\ Fault("stack overflow")

\* Mutant: the return address is read and its cell not released.
Ret_KeepsCell ==
    /\ Executing("RET")
    /\ sp + 1 < MemorySize
    /\ pc' = mem[sp + 1]
    /\ Completed
    /\ UNCHANGED <<gp, sp, fr, mem, output>>

Ret ==
    /\ Executing("RET")
    /\ sp + 1 < MemorySize
    /\ sp' = sp + 1
    /\ pc' = mem[sp + 1]
    /\ Completed
    /\ UNCHANGED <<gp, fr, mem, output>>

StackUnderflow ==
    /\ Executing("RET")
    /\ sp + 1 >= MemorySize
    /\ sp' = sp + 1
    /\ Fault("stack underflow")
    /\ UNCHANGED mem

-----------------------------------------------------------------------------
(* System calls.  An entry of output says which formatter was applied to   *)
(* which word; the digits themselves are not modelled.                     *)

PrintWord(op) ==
    /\ Executing(op)
    /\ output' = Append(output, <<op, gp[instr.a]>>)
    /\ Advance
    /\ UNCHANGED <<gp, sp, fr, mem>>

PrintBase    == PrintWord("PRINT")
PrintDecimal == PrintWord("PRINTD")

\* Mutant: run() compares steps with the limit after a HALT as well.
Halt_Limited ==
    /\ Executing("HALT")
    /\ pc' = pc + 1
    /\ steps' = steps + 1
    /\ outcome' = IF steps + 1 >= MaxSteps THEN "step limit" ELSE "halted"
    /\ UNCHANGED <<code, gp, sp, fr, mem, output>>

\* step() returns False, so run() never compares steps with the limit.
Halt ==
    /\ Executing("HALT")
    /\ pc' = pc + 1
    /\ steps' = steps + 1
    /\ outcome' = "halted"
    /\ UNCHANGED <<code, gp, sp, fr, mem, output>>

Nop ==
    /\ Executing("NOP")
    /\ Advance
    /\ UNCHANGED <<gp, sp, fr, mem, output>>

-----------------------------------------------------------------------------
(* The other faults.                                                       *)

PcOutOfBounds ==
    /\ outcome = "running"
    /\ ~(pc >= 0 /\ pc < Len(code))
    /\ Fault("pc out of bounds")
    /\ UNCHANGED <<sp, mem>>

UnknownOpcode ==
    /\ Fetchable
    /\ instr.op \notin Opcodes
    /\ Fault("unknown opcode")
    /\ UNCHANGED <<sp, mem>>

\* The cell an instruction reads or writes before it changes anything else.
Operand ==
    CASE instr.op \in {"LD", "ST"}   -> instr.b
      [] instr.op \in {"LDR", "STR"} -> gp[instr.b]
      [] instr.op = "CALL"           -> sp

MemoryOutOfBounds ==
    /\ Fetchable
    /\ instr.op \in {"LD", "ST", "LDR", "STR", "CALL"}
    /\ Operand \notin Addresses
    /\ Fault("memory out of bounds")
    /\ UNCHANGED <<sp, mem>>

-----------------------------------------------------------------------------
Next ==
    \/ LoadImmediate \/ Move \/ Load \/ Store \/ LoadIndirect \/ StoreIndirect
    \/ Add \/ Sub \/ Compare
    \/ Jmp \/ Jz \/ Jnz \/ Jg \/ Jl \/ Jge \/ Jle
    \/ Call \/ StackOverflow \/ Ret \/ StackUnderflow
    \/ PrintBase \/ PrintDecimal \/ Halt \/ Nop
    \/ PcOutOfBounds \/ UnknownOpcode \/ MemoryOutOfBounds

\* run() steps as long as it has not ended.
Spec == Init /\ [][Next]_vars /\ WF_vars(Next)

-----------------------------------------------------------------------------
(* Correctness.                                                            *)

\* Every register and every memory cell holds a word of the active radix,
\* whatever immediates, sums, differences and return addresses were stored.
TypeOK ==
    /\ code \in Programs
    /\ gp \in [Registers -> Word]
    /\ pc \in Int
    /\ sp \in -1 .. MemorySize
    /\ fr \in SUBSET Flags
    /\ mem \in [Addresses -> Word]
    /\ output \in Seq({"PRINT", "PRINTD"} \X Word)
    /\ steps \in 0 .. MaxSteps
    /\ outcome \in {"running", "halted", "step limit"} \cup Faults

\* While the machine runs the stack pointer is an address: the checks of
\* CALL (after its decrement) and of RET (after its increment) come in time,
\* so the unguarded store and load through sp never leave memory.  Only the
\* two stack faults leave sp outside, each on its own side.
StackPointerInMemory ==
    /\ outcome = "stack overflow" => sp = -1
    /\ outcome = "stack underflow" => sp = MemorySize
    /\ outcome \notin {"stack overflow", "stack underflow"} => sp \in Addresses

\* At most one of Z, G and L is set, through any mix of ADD, SUB and CMP: a
\* G or an L left over from an earlier CMP would send JGE or JLE astray.
FlagsExclusive == \A f, g \in fr : f = g

\* The limit is reported exactly when max_steps instructions were executed
\* and the last of them was not HALT; a program that halts on its last
\* permitted step has halted, and is not reported as an infinite loop.
LimitReportedExactly ==
    [][/\ outcome' = "halted" <=> Executing("HALT")
       /\ outcome' = "step limit" <=> steps' = MaxSteps /\ ~Executing("HALT")]_vars

\* A VMError leaves the machine as the failing instruction found it, so that
\* what it shows afterwards is the state at the fault -- but for the stack
\* pointer, and for the one cell a failing CALL overwrites, store[0].
FaultFootprint ==
    [][outcome' \in Faults =>
          /\ UNCHANGED <<gp, pc, fr, output, steps>>
          /\ \A x \in Addresses : mem'[x] # mem[x] =>
                x = 0 /\ outcome' = "stack overflow"]_vars

\* run() returns: no image, however it loops or recurses, outlives the limit.
RunEnds == <>(outcome # "running")
=============================================================================
