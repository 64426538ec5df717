-------------------------- MODULE SeptaVM_proofs --------------------------
(***************************************************************************)
(* Proofs about SeptaVM, for every radix, memory size, step limit and set  *)
(* of well-formed images, and that it implements CallReturn as VMCalls     *)
(* maps it, for every set of images whose addresses are words.             *)
(***************************************************************************)
EXTENDS VMCalls, SequenceTheorems, TLAPS

-----------------------------------------------------------------------------
(* Lemmas about words and about fetched instructions.                      *)

\* RadixConfig.wrap_word maps every integer into the word range.
LEMMA WrapWordInWord ==
    ASSUME NEW v \in Int
    PROVE  WrapWord(v) \in Word
<1> USE WordsAssumption DEF WrapWord, Word, WordMin, WordMax, Half
<1>1. CASE Balanced
  <2> DEFINE h == (Modulus - 1) \div 2
  <2>1. h \in Int /\ 2 * h = Modulus - 1
    BY <1>1
  <2>2. (v + h) % Modulus \in 0 .. Modulus - 1
    BY <2>1
  <2> QED BY <1>1, <2>1, <2>2
<1>2. CASE ~Balanced
  BY <1>2
<1> QED BY <1>1, <1>2

\* It leaves the words from 0 up as they are.
LEMMA WrapWordOfWord ==
    ASSUME NEW v \in 0 .. WordMax
    PROVE  WrapWord(v) = v /\ v \in Word
<1> USE WordsAssumption DEF WrapWord, Word, WordMin, WordMax, Half
<1>1. CASE Balanced
  <2> DEFINE h == (Modulus - 1) \div 2
  <2>1. h \in Int /\ 2 * h = Modulus - 1
    BY <1>1
  <2>2. v + h \in 0 .. Modulus - 1
    BY <1>1, <2>1
  <2>3. (v + h) % Modulus = v + h
    BY <2>1, <2>2
  <2> QED BY <1>1, <2>1, <2>2, <2>3
<1>2. CASE ~Balanced
  BY <1>2
<1> QED BY <1>1, <1>2

\* Words and addresses are integers, and 0 is a word.
LEMMA WordFacts == Word \subseteq Int /\ 0 \in Word
<1>1. (Modulus - 1) \div 2 \in Nat
  BY WordsAssumption
<1> QED BY <1>1, WordsAssumption DEF Word, WordMin, WordMax, Half

\* What the VM fetches is an instruction the assembler produced.
LEMMA FetchedIsEncoded ==
    ASSUME code \in Programs, pc \in Int, Fetchable
    PROVE  /\ Encoded(instr)
           /\ instr \in Instructions
           /\ pc + 1 \in DOMAIN code
<1>1. code \in Seq(Instructions) /\ \A k \in DOMAIN code : Encoded(code[k])
  BY VMAssumption
<1>2. pc + 1 \in DOMAIN code
  BY <1>1 DEF Fetchable
<1> QED BY <1>1, <1>2 DEF instr, Encoded

-----------------------------------------------------------------------------
(* The inductive invariant.  TypeOK alone is not inductive: that sp stays  *)
(* an integer between -1 and MemorySize needs the stack checks, and that   *)
(* steps stays below the limit needs the test run() makes after each step. *)

\* What run() knows after each step: how many instructions were counted, and
\* that a machine halted by executing a HALT.
DriverInStep ==
    /\ outcome = "step limit" => steps = MaxSteps
    /\ outcome = "running" => steps < MaxSteps
    /\ outcome = "halted" => pc \in 1 .. Len(code) /\ code[pc].op = "HALT"

IInv ==
    /\ TypeOK
    /\ StackPointerInMemory
    /\ FlagsExclusive
    /\ DriverInStep

\* What every completed instruction other than HALT does to the driver.
LEMMA CompletedKeepsDriver ==
    ASSUME IInv, Fetchable, Completed
    PROVE  /\ code' \in Programs
           /\ steps' \in 0 .. MaxSteps
           /\ outcome' \in {"running", "step limit"}
           /\ DriverInStep'
<1>1. steps \in Nat /\ MaxSteps \in Nat /\ steps < MaxSteps
  BY VMAssumption DEF IInv, TypeOK, DriverInStep, Fetchable
<1>2. outcome' = IF steps + 1 >= MaxSteps THEN "step limit" ELSE "running"
  BY DEF Completed
<1>3. steps' = steps + 1
  BY DEF Completed
<1>4. steps' \in 0 .. MaxSteps
  BY <1>1, <1>3
<1>5. CASE steps + 1 >= MaxSteps
  <2>1. outcome' = "step limit"
    BY <1>2, <1>5
  <2>2. steps' = MaxSteps
    BY <1>1, <1>3, <1>5
  <2> QED BY <1>4, <2>1, <2>2 DEF IInv, TypeOK, Completed, DriverInStep
<1>6. CASE ~(steps + 1 >= MaxSteps)
  <2>1. outcome' = "running"
    BY <1>2, <1>6
  <2>2. steps' < MaxSteps
    BY <1>1, <1>3, <1>6
  <2> QED BY <1>4, <2>1, <2>2 DEF IInv, TypeOK, Completed, DriverInStep
<1> QED BY <1>5, <1>6

\* What every fault does to everything but sp and mem.
LEMMA FaultKeepsState ==
    ASSUME IInv, NEW reason \in Faults, Fault(reason)
    PROVE  /\ code' \in Programs
           /\ gp' \in [Registers -> Word]
           /\ pc' \in Int
           /\ fr' \in SUBSET Flags
           /\ output' \in Seq({"PRINT", "PRINTD"} \X Word)
           /\ steps' \in 0 .. MaxSteps
           /\ outcome' = reason
           /\ FlagsExclusive'
           /\ DriverInStep'
BY DEF IInv, TypeOK, FlagsExclusive, DriverInStep, Fault, Faults

LEMMA SetRegisterKeepsType ==
    ASSUME gp \in [Registers -> Word], NEW r \in Registers, NEW v \in Int,
           SetRegister(r, v)
    PROVE  gp' \in [Registers -> Word]
BY WrapWordInWord DEF SetRegister

LEMMA StoreWordKeepsType ==
    ASSUME mem \in [Addresses -> Word], NEW x \in Addresses, NEW v \in Int,
           StoreWord(x, v)
    PROVE  mem' \in [Addresses -> Word]
BY WrapWordInWord DEF StoreWord

\* Flags are set from mutually exclusive conditions only.
LEMMA SetFlagsIsExclusive ==
    ASSUME NEW z \in BOOLEAN, NEW g \in BOOLEAN, NEW l \in BOOLEAN,
           ~(z /\ g), ~(z /\ l), ~(g /\ l),
           SetFlags(z, g, l)
    PROVE  fr' \in SUBSET Flags /\ FlagsExclusive'
BY DEF SetFlags, Flags, FlagsExclusive

\* A fetched instruction that completes without touching the stack pointer,
\* memory, output or flags leaves the invariant to its effect on gp and pc.
LEMMA QuietStep ==
    ASSUME IInv, Fetchable, Completed,
           pc' \in Int, gp' \in [Registers -> Word],
           UNCHANGED <<sp, fr, mem, output>>
    PROVE  IInv'
<1>1. /\ code' \in Programs
      /\ steps' \in 0 .. MaxSteps
      /\ outcome' \in {"running", "step limit"}
      /\ DriverInStep'
  BY CompletedKeepsDriver
<1>2. StackPointerInMemory'
  BY <1>1 DEF IInv, StackPointerInMemory, Fetchable
<1>3. FlagsExclusive'
  BY DEF IInv, FlagsExclusive
<1>4. TypeOK'
  BY <1>1 DEF IInv, TypeOK
<1> QED BY <1>1, <1>2, <1>3, <1>4 DEF IInv

\* The two arithmetic instructions.
LEMMA ArithmeticStep ==
    ASSUME IInv, Fetchable, NEW v \in Int, Arithmetic(v), instr.a \in Registers
    PROVE  IInv'
<1>1. /\ code' \in Programs
      /\ steps' \in 0 .. MaxSteps
      /\ outcome' \in {"running", "step limit"}
      /\ DriverInStep'
  BY CompletedKeepsDriver DEF Arithmetic, Advance
<1>2. gp' \in [Registers -> Word]
  BY SetRegisterKeepsType DEF IInv, TypeOK, Arithmetic
<1>3. fr' \in SUBSET Flags /\ FlagsExclusive'
  BY SetFlagsIsExclusive DEF Arithmetic
<1>4. StackPointerInMemory'
  BY <1>1 DEF IInv, StackPointerInMemory, Fetchable, Arithmetic
<1>5. pc' \in Int
  <2>1. pc \in Int
    BY DEF IInv, TypeOK
  <2>2. pc' = pc + 1
    BY DEF Arithmetic, Advance
  <2> QED BY <2>1, <2>2
<1>6. TypeOK'
  BY <1>1, <1>2, <1>3, <1>5 DEF IInv, TypeOK, Arithmetic
<1> QED BY <1>1, <1>3, <1>4, <1>6 DEF IInv

\* A fault that moves neither sp nor memory.
LEMMA QuietFault ==
    ASSUME IInv, NEW reason \in Faults \ {"stack overflow", "stack underflow"},
           outcome = "running", Fault(reason), UNCHANGED <<sp, mem>>
    PROVE  IInv'
<1>1. /\ code' \in Programs
      /\ gp' \in [Registers -> Word]
      /\ pc' \in Int
      /\ fr' \in SUBSET Flags
      /\ output' \in Seq({"PRINT", "PRINTD"} \X Word)
      /\ steps' \in 0 .. MaxSteps
      /\ outcome' = reason
      /\ FlagsExclusive'
      /\ DriverInStep'
  BY FaultKeepsState
<1>2. StackPointerInMemory'
  BY <1>1 DEF IInv, StackPointerInMemory
<1>3. TypeOK'
  BY <1>1 DEF IInv, TypeOK
<1> QED BY <1>1, <1>2, <1>3 DEF IInv

\* PRINT and PRINTD.
LEMMA PrintStep ==
    ASSUME IInv, NEW op \in {"PRINT", "PRINTD"}, PrintWord(op)
    PROVE  IInv'
<1>1. Fetchable /\ instr.op = op
  BY DEF PrintWord, Executing
<1>2. instr.a \in Registers
  BY <1>1, FetchedIsEncoded DEF IInv, TypeOK, Encoded, FirstIsRegister
<1>3. /\ code' \in Programs
      /\ steps' \in 0 .. MaxSteps
      /\ outcome' \in {"running", "step limit"}
      /\ DriverInStep'
  BY <1>1, CompletedKeepsDriver DEF PrintWord, Advance
<1>4. gp[instr.a] \in Word
  BY <1>2 DEF IInv, TypeOK
<1>5. output' \in Seq({"PRINT", "PRINTD"} \X Word)
  <2> DEFINE Entries == {"PRINT", "PRINTD"} \X Word
             entry   == <<op, gp[instr.a]>>
  <2>1. output \in Seq(Entries)
    BY DEF IInv, TypeOK
  <2>2. entry \in Entries
    BY <1>4
  <2>3. output' = Append(output, entry)
    BY DEF PrintWord
  <2> HIDE DEF Entries, entry
  <2>4. output' \in Seq(Entries)
    BY <2>1, <2>2, <2>3
  <2> QED BY <2>4 DEF Entries
<1>6. pc' \in Int
  <2>1. pc \in Int
    BY DEF IInv, TypeOK
  <2>2. pc' = pc + 1
    BY DEF PrintWord, Advance
  <2> QED BY <2>1, <2>2
<1>7. StackPointerInMemory'
  BY <1>1, <1>3 DEF IInv, StackPointerInMemory, Fetchable, PrintWord
<1>8. FlagsExclusive'
  BY DEF IInv, FlagsExclusive, PrintWord
<1>9. TypeOK'
  BY <1>3, <1>5, <1>6 DEF IInv, TypeOK, PrintWord
<1> QED BY <1>3, <1>7, <1>8, <1>9 DEF IInv

\* A jump, taken or not.
LEMMA BranchStep ==
    ASSUME IInv, Fetchable, Completed,
           pc' = instr.a \/ pc' = pc + 1,
           UNCHANGED <<gp, sp, fr, mem, output>>
    PROVE  IInv'
<1>1. pc \in Int /\ code \in Programs /\ gp \in [Registers -> Word]
  BY DEF IInv, TypeOK
<1>2. instr.a \in Int
  BY <1>1, FetchedIsEncoded DEF Instructions
<1>3. pc' \in Int
  BY <1>1, <1>2
<1> QED BY <1>1, <1>3, QuietStep

\* LI, MOV, LD and LDR.
LEMMA LoadStep ==
    ASSUME IInv, Fetchable, NEW v \in Int, instr.a \in Registers,
           SetRegister(instr.a, v), Advance, UNCHANGED <<sp, fr, mem, output>>
    PROVE  IInv'
<1>1. pc \in Int /\ gp \in [Registers -> Word]
  BY DEF IInv, TypeOK
<1>2. Completed /\ pc' = pc + 1
  BY DEF Advance
<1>3. pc' \in Int
  BY <1>1, <1>2
<1>4. gp' \in [Registers -> Word]
  BY <1>1, SetRegisterKeepsType
<1> QED BY <1>2, <1>3, <1>4, QuietStep

\* ST and STR.
LEMMA StoreStep ==
    ASSUME IInv, Fetchable, NEW x \in Addresses, NEW v \in Int,
           StoreWord(x, v), Advance, UNCHANGED <<gp, sp, fr, output>>
    PROVE  IInv'
<1>1. /\ code' \in Programs
      /\ steps' \in 0 .. MaxSteps
      /\ outcome' \in {"running", "step limit"}
      /\ DriverInStep'
  BY CompletedKeepsDriver DEF Advance
<1>2. mem' \in [Addresses -> Word]
  BY StoreWordKeepsType DEF IInv, TypeOK
<1>3. pc' \in Int
  <2>1. pc \in Int
    BY DEF IInv, TypeOK
  <2>2. pc' = pc + 1
    BY DEF Advance
  <2> QED BY <2>1, <2>2
<1>4. StackPointerInMemory'
  BY <1>1 DEF IInv, StackPointerInMemory, Fetchable
<1>5. FlagsExclusive'
  BY DEF IInv, FlagsExclusive
<1>6. TypeOK'
  BY <1>1, <1>2, <1>3 DEF IInv, TypeOK
<1> QED BY <1>1, <1>4, <1>5, <1>6 DEF IInv

\* CALL within the stack's limit: the return address goes to the cell at sp.
LEMMA CallStep ==
    ASSUME IInv, Call
    PROVE  IInv'
<1>1. /\ Fetchable
      /\ Completed
      /\ sp \in Addresses
      /\ sp - 1 >= 0
      /\ StoreWord(sp, pc + 1)
      /\ sp' = sp - 1
      /\ pc' = instr.a
      /\ UNCHANGED <<gp, fr, output>>
  BY DEF Call, Executing, PushReturnAddress
<1>2. pc \in Int /\ code \in Programs /\ mem \in [Addresses -> Word]
  BY DEF IInv, TypeOK
<1>3. instr.a \in Int
  BY <1>1, <1>2, FetchedIsEncoded DEF Instructions
<1>4. /\ code' \in Programs
      /\ steps' \in 0 .. MaxSteps
      /\ outcome' \in {"running", "step limit"}
      /\ DriverInStep'
  BY <1>1, CompletedKeepsDriver
<1>5. mem' \in [Addresses -> Word]
  <2>1. pc + 1 \in Int
    BY <1>2
  <2> QED BY <1>1, <1>2, <2>1, StoreWordKeepsType
<1>6. sp' \in Addresses
  BY <1>1, VMAssumption DEF Addresses
<1>7. sp' \in -1 .. MemorySize
  BY <1>6, VMAssumption DEF Addresses
<1>8. StackPointerInMemory'
  BY <1>4, <1>6 DEF StackPointerInMemory
<1>9. FlagsExclusive'
  BY <1>1 DEF IInv, FlagsExclusive
<1>10. TypeOK'
  BY <1>1, <1>3, <1>4, <1>5, <1>7 DEF IInv, TypeOK
<1> QED BY <1>4, <1>8, <1>9, <1>10 DEF IInv

\* CALL beyond it: sp was 0, and becomes -1.
LEMMA StackOverflowStep ==
    ASSUME IInv, StackOverflow
    PROVE  IInv'
<1>1. /\ sp \in Addresses
      /\ sp - 1 < 0
      /\ StoreWord(sp, pc + 1)
      /\ sp' = sp - 1
      /\ Fault("stack overflow")
  BY DEF StackOverflow, PushReturnAddress
<1>2. pc \in Int /\ mem \in [Addresses -> Word]
  BY DEF IInv, TypeOK
<1>3. /\ code' \in Programs
      /\ gp' \in [Registers -> Word]
      /\ pc' \in Int
      /\ fr' \in SUBSET Flags
      /\ output' \in Seq({"PRINT", "PRINTD"} \X Word)
      /\ steps' \in 0 .. MaxSteps
      /\ outcome' = "stack overflow"
      /\ FlagsExclusive'
      /\ DriverInStep'
  BY <1>1, FaultKeepsState DEF Faults
<1>4. mem' \in [Addresses -> Word]
  <2>1. pc + 1 \in Int
    BY <1>2
  <2> QED BY <1>1, <1>2, <2>1, StoreWordKeepsType
<1>5. sp' = -1
  <2>1. MemorySize \in Nat /\ sp \in 0 .. MemorySize - 1
    BY <1>1, VMAssumption DEF Addresses
  <2>2. sp - 1 < 0 /\ sp' = sp - 1
    BY <1>1
  <2> QED BY <2>1, <2>2
<1>6. sp' \in -1 .. MemorySize
  BY <1>5, VMAssumption
<1>7. StackPointerInMemory'
  BY <1>3, <1>5 DEF StackPointerInMemory
<1>8. TypeOK'
  BY <1>3, <1>4, <1>6 DEF TypeOK, Faults
<1> QED BY <1>3, <1>7, <1>8 DEF IInv

\* RET with a call pending: sp moves up, and the load through it is safe.
LEMMA RetStep ==
    ASSUME IInv, Ret
    PROVE  IInv'
<1>1. /\ Fetchable
      /\ Completed
      /\ sp + 1 < MemorySize
      /\ sp' = sp + 1
      /\ pc' = mem[sp + 1]
      /\ UNCHANGED <<gp, fr, mem, output>>
  BY DEF Ret, Executing
<1>2. mem \in [Addresses -> Word] /\ sp \in -1 .. MemorySize
  BY DEF IInv, TypeOK
<1>3. sp' \in Addresses
  BY <1>1, <1>2, VMAssumption DEF Addresses
<1>4. sp' \in -1 .. MemorySize
  BY <1>3, VMAssumption DEF Addresses
<1>5. pc' \in Int
  BY <1>1, <1>2, <1>3, WordFacts
<1>6. /\ code' \in Programs
      /\ steps' \in 0 .. MaxSteps
      /\ outcome' \in {"running", "step limit"}
      /\ DriverInStep'
  BY <1>1, CompletedKeepsDriver
<1>7. StackPointerInMemory'
  BY <1>3, <1>6 DEF StackPointerInMemory
<1>8. FlagsExclusive'
  BY <1>1 DEF IInv, FlagsExclusive
<1>9. TypeOK'
  BY <1>1, <1>4, <1>5, <1>6 DEF IInv, TypeOK
<1> QED BY <1>6, <1>7, <1>8, <1>9 DEF IInv

\* RET with none: sp was the last address, and becomes MemorySize.
LEMMA StackUnderflowStep ==
    ASSUME IInv, StackUnderflow
    PROVE  IInv'
<1>1. /\ Fetchable
      /\ sp + 1 >= MemorySize
      /\ sp' = sp + 1
      /\ Fault("stack underflow")
      /\ mem' = mem
  BY DEF StackUnderflow, Executing
<1>2. sp \in Addresses
  BY <1>1 DEF IInv, StackPointerInMemory, Fetchable
<1>3. /\ code' \in Programs
      /\ gp' \in [Registers -> Word]
      /\ pc' \in Int
      /\ fr' \in SUBSET Flags
      /\ output' \in Seq({"PRINT", "PRINTD"} \X Word)
      /\ steps' \in 0 .. MaxSteps
      /\ outcome' = "stack underflow"
      /\ FlagsExclusive'
      /\ DriverInStep'
  BY <1>1, FaultKeepsState DEF Faults
<1>4. sp' = MemorySize
  <2>1. MemorySize \in Nat /\ sp \in 0 .. MemorySize - 1
    BY <1>2, VMAssumption DEF Addresses
  <2>2. sp + 1 >= MemorySize /\ sp' = sp + 1
    BY <1>1
  <2> QED BY <2>1, <2>2
<1>5. sp' \in -1 .. MemorySize
  BY <1>4, VMAssumption
<1>6. StackPointerInMemory'
  BY <1>3, <1>4 DEF StackPointerInMemory
<1>7. TypeOK'
  BY <1>1, <1>3, <1>5 DEF IInv, TypeOK, Faults
<1> QED BY <1>3, <1>6, <1>7 DEF IInv

\* HALT may be the last permitted step: run() does not test the limit then.
LEMMA HaltStep ==
    ASSUME IInv, Halt
    PROVE  IInv'
<1>1. /\ Fetchable
      /\ instr.op = "HALT"
      /\ pc' = pc + 1
      /\ steps' = steps + 1
      /\ outcome' = "halted"
      /\ UNCHANGED <<code, gp, sp, fr, mem, output>>
  BY DEF Halt, Executing
<1>2. pc \in Int /\ code \in Programs
  BY DEF IInv, TypeOK
<1>3. pc' \in Int
  BY <1>1, <1>2
<1>4. steps' \in 0 .. MaxSteps
  <2>1. steps \in Nat /\ steps < MaxSteps /\ MaxSteps \in Nat
    BY <1>1, VMAssumption DEF IInv, TypeOK, DriverInStep, Fetchable
  <2> QED BY <1>1, <2>1
<1>5. pc' \in 1 .. Len(code') /\ code'[pc'].op = "HALT"
  <2>1. code \in Seq(Instructions)
    BY <1>2, VMAssumption
  <2>2. Len(code) \in Nat /\ pc >= 0 /\ pc < Len(code)
    BY <1>1, <2>1 DEF Fetchable
  <2>3. pc' = pc + 1 /\ code' = code
    BY <1>1
  <2>4. pc' \in 1 .. Len(code')
    BY <1>2, <2>2, <2>3
  <2> QED BY <1>1, <2>3, <2>4 DEF instr
<1>6. DriverInStep'
  BY <1>1, <1>5 DEF DriverInStep
<1>7. StackPointerInMemory'
  BY <1>1 DEF IInv, StackPointerInMemory, Fetchable
<1>8. FlagsExclusive'
  BY <1>1 DEF IInv, FlagsExclusive
<1>9. TypeOK'
  BY <1>1, <1>3, <1>4 DEF IInv, TypeOK
<1> QED BY <1>6, <1>7, <1>8, <1>9 DEF IInv

LEMMA CompareStep ==
    ASSUME IInv, Compare
    PROVE  IInv'
<1>1. /\ Fetchable
      /\ Completed
      /\ pc' = pc + 1
      /\ SetFlags(gp[instr.a] = gp[instr.b], gp[instr.a] > gp[instr.b],
                  gp[instr.a] < gp[instr.b])
      /\ UNCHANGED <<gp, sp, mem, output>>
  BY DEF Compare, Executing, Advance
<1>2. instr.a \in Registers /\ instr.b \in Registers
  BY FetchedIsEncoded DEF IInv, TypeOK, Compare, Executing, Encoded,
                          FirstIsRegister, SecondIsRegister
<1>3. pc \in Int /\ gp \in [Registers -> Word]
  BY DEF IInv, TypeOK
<1>4. gp[instr.a] \in Int /\ gp[instr.b] \in Int
  BY <1>2, <1>3, WordFacts
<1>5. fr' \in SUBSET Flags /\ FlagsExclusive'
  <2> DEFINE z == gp[instr.a] = gp[instr.b]
             g == gp[instr.a] > gp[instr.b]
             l == gp[instr.a] < gp[instr.b]
  <2>1. z \in BOOLEAN /\ g \in BOOLEAN /\ l \in BOOLEAN
    BY <1>4
  <2>2. ~(z /\ g) /\ ~(z /\ l) /\ ~(g /\ l)
    BY <1>4
  <2>3. SetFlags(z, g, l)
    BY <1>1
  <2> HIDE DEF z, g, l
  <2> QED BY <2>1, <2>2, <2>3, SetFlagsIsExclusive
<1>6. /\ code' \in Programs
      /\ steps' \in 0 .. MaxSteps
      /\ outcome' \in {"running", "step limit"}
      /\ DriverInStep'
  BY <1>1, CompletedKeepsDriver
<1>7. pc' \in Int
  BY <1>1, <1>3
<1>8. StackPointerInMemory'
  BY <1>1, <1>6 DEF IInv, StackPointerInMemory, Fetchable
<1>9. TypeOK'
  BY <1>1, <1>5, <1>6, <1>7 DEF IInv, TypeOK
<1> QED BY <1>5, <1>6, <1>8, <1>9 DEF IInv

\* Every step preserves the invariant.
LEMMA StepKeepsIInv ==
    ASSUME IInv, [Next]_vars
    PROVE  IInv'
<1>1. /\ code \in Programs
      /\ gp \in [Registers -> Word]
      /\ pc \in Int
      /\ mem \in [Addresses -> Word]
  BY DEF IInv, TypeOK
<1>2. Fetchable => Encoded(instr) /\ instr \in Instructions
  BY <1>1, FetchedIsEncoded
<1>3. CASE LoadImmediate
  <2>1. Fetchable /\ instr.a \in Registers /\ instr.b \in Int
    BY <1>2, <1>3 DEF LoadImmediate, Executing, Encoded, FirstIsRegister, Instructions
  <2> QED BY <1>3, <2>1, LoadStep DEF LoadImmediate
<1>4. CASE Move
  <2>1. Fetchable /\ instr.a \in Registers /\ instr.b \in Registers
    BY <1>2, <1>4 DEF Move, Executing, Encoded, FirstIsRegister, SecondIsRegister
  <2>2. gp[instr.b] \in Int
    BY <1>1, <2>1, WordFacts
  <2> QED BY <1>4, <2>1, <2>2, LoadStep DEF Move
<1>5. CASE Load
  <2>1. Fetchable /\ instr.a \in Registers /\ instr.b \in Addresses
    BY <1>2, <1>5 DEF Load, Executing, Encoded, FirstIsRegister
  <2>2. mem[instr.b] \in Int
    BY <1>1, <2>1, WordFacts
  <2> QED BY <1>5, <2>1, <2>2, LoadStep DEF Load
<1>6. CASE Store
  <2>1. Fetchable /\ instr.a \in Registers /\ instr.b \in Addresses
    BY <1>2, <1>6 DEF Store, Executing, Encoded, FirstIsRegister
  <2>2. gp[instr.a] \in Int
    BY <1>1, <2>1, WordFacts
  <2> QED BY <1>6, <2>1, <2>2, StoreStep DEF Store
<1>7. CASE LoadIndirect
  <2>1. Fetchable /\ instr.a \in Registers /\ gp[instr.b] \in Addresses
    BY <1>2, <1>7 DEF LoadIndirect, Executing, Encoded, FirstIsRegister
  <2>2. mem[gp[instr.b]] \in Int
    BY <1>1, <2>1, WordFacts
  <2> QED BY <1>7, <2>1, <2>2, LoadStep DEF LoadIndirect
<1>8. CASE StoreIndirect
  <2>1. Fetchable /\ instr.a \in Registers /\ gp[instr.b] \in Addresses
    BY <1>2, <1>8 DEF StoreIndirect, Executing, Encoded, FirstIsRegister
  <2>2. gp[instr.a] \in Int
    BY <1>1, <2>1, WordFacts
  <2> QED BY <1>8, <2>1, <2>2, StoreStep DEF StoreIndirect
<1>9. CASE Add \/ Sub
  <2>1. /\ Fetchable
        /\ instr.a \in Registers /\ instr.b \in Registers /\ instr.c \in Registers
    BY <1>2, <1>9 DEF Add, Sub, Executing, Encoded, FirstIsRegister,
                      SecondIsRegister, ThirdIsRegister
  <2>2. gp[instr.b] \in Int /\ gp[instr.c] \in Int
    BY <1>1, <2>1, WordFacts
  <2>3. gp[instr.b] + gp[instr.c] \in Int /\ gp[instr.b] - gp[instr.c] \in Int
    BY <2>2
  <2> QED BY <1>9, <2>1, <2>3, ArithmeticStep DEF Add, Sub
<1>10. CASE Compare
  BY <1>10, CompareStep
<1>11. CASE Jmp \/ Jz \/ Jnz \/ Jg \/ Jl \/ Jge \/ Jle
  <2>1. CASE Jmp
    BY <2>1, BranchStep DEF Jmp, Branch, Executing
  <2>2. CASE Jz \/ Jnz
    BY <2>2, BranchStep DEF Jz, Jnz, Branch, Executing
  <2>3. CASE Jg \/ Jl
    BY <2>3, BranchStep DEF Jg, Jl, Branch, Executing
  <2>4. CASE Jge
    BY <2>4, BranchStep DEF Jge, Branch, Executing
  <2>5. CASE Jle
    BY <2>5, BranchStep DEF Jle, Branch, Executing
  <2> QED BY <1>11, <2>1, <2>2, <2>3, <2>4, <2>5
<1>12. CASE Call
  BY <1>12, CallStep
<1>13. CASE StackOverflow
  BY <1>13, StackOverflowStep
<1>14. CASE Ret
  BY <1>14, RetStep
<1>15. CASE StackUnderflow
  BY <1>15, StackUnderflowStep
<1>16. CASE PrintBase \/ PrintDecimal
  BY <1>16, PrintStep DEF PrintBase, PrintDecimal
<1>17. CASE Halt
  BY <1>17, HaltStep
<1>18. CASE Nop
  <2>1. pc' = pc + 1 /\ Completed /\ Fetchable
    BY <1>18 DEF Nop, Advance, Executing
  <2>2. pc' \in Int
    BY <1>1, <2>1
  <2> QED BY <1>1, <1>18, <2>1, <2>2, QuietStep DEF Nop
<1>19. CASE PcOutOfBounds
  BY <1>19, QuietFault DEF PcOutOfBounds, Faults
<1>20. CASE UnknownOpcode
  BY <1>20, QuietFault DEF UnknownOpcode, Fetchable, Faults
<1>21. CASE MemoryOutOfBounds
  BY <1>21, QuietFault DEF MemoryOutOfBounds, Fetchable, Faults
<1>22. CASE UNCHANGED vars
  BY <1>22 DEF vars, IInv, TypeOK, StackPointerInMemory, FlagsExclusive,
               DriverInStep
<1> QED
  BY <1>3, <1>4, <1>5, <1>6, <1>7, <1>8, <1>9, <1>10, <1>11, <1>12, <1>13, <1>14,
     <1>15, <1>16, <1>17, <1>18, <1>19, <1>20, <1>21, <1>22 DEF Next

\* A fresh machine satisfies it.
LEMMA InitEstablishesIInv ==
    ASSUME Init
    PROVE  IInv
<1>1. gp \in [Registers -> Word] /\ mem \in [Addresses -> Word]
  BY WordFacts DEF Init, Reset
<1>2. sp \in Addresses /\ sp \in -1 .. MemorySize
  BY VMAssumption DEF Init, Reset, Addresses
<1>3. steps \in 0 .. MaxSteps /\ steps < MaxSteps
  BY VMAssumption DEF Init, Reset
<1>4. TypeOK
  BY <1>1, <1>2, <1>3 DEF Init, Reset, TypeOK
<1> QED BY <1>2, <1>3, <1>4
        DEF Init, Reset, IInv, StackPointerInMemory, FlagsExclusive, DriverInStep

\* The invariant holds in every state of every execution.
THEOREM Invariance == Spec => []IInv
BY InitEstablishesIInv, StepKeepsIInv, PTL DEF Spec

-----------------------------------------------------------------------------
(* The properties that the runs check.                                     *)

\* Registers and memory only ever hold words, and every other variable what
\* its declaration says.
THEOREM TypeCorrectness == Spec => []TypeOK
BY Invariance, PTL DEF IInv

\* The stack pointer is an address until one of the two stack faults is
\* reported, so CALL and RET never use it outside memory.
THEOREM StackSafety == Spec => []StackPointerInMemory
BY Invariance, PTL DEF IInv

\* ADD, SUB and CMP never leave two flags set.
THEOREM FlagsExclusion == Spec => []FlagsExclusive
BY Invariance, PTL DEF IInv

\* Only a running machine takes a step.
LEMMA NextRuns ==
    ASSUME Next
    PROVE  outcome = "running"
BY DEF Next, LoadImmediate, Move, Load, Store, LoadIndirect, StoreIndirect,
       Add, Sub, Compare, Jmp, Jz, Jnz, Jg, Jl, Jge, Jle, Branch,
       Call, StackOverflow, Ret, StackUnderflow, PrintBase, PrintDecimal,
       PrintWord, Halt, Nop, PcOutOfBounds, UnknownOpcode, MemoryOutOfBounds,
       Executing, Fetchable

\* A step halts, completes another instruction, or reports a fault.
LEMMA NextCompletesOrFails ==
    ASSUME Next
    PROVE  \/ Halt
           \/ Completed /\ ~Executing("HALT")
           \/ /\ ~Executing("HALT")
              /\ \E reason \in Faults : Fault(reason)
<1>1. CASE \/ LoadImmediate \/ Move \/ Load \/ Store \/ LoadIndirect
           \/ StoreIndirect \/ Add \/ Sub \/ Compare
  BY <1>1 DEF LoadImmediate, Move, Load, Store, LoadIndirect, StoreIndirect,
              Add, Sub, Arithmetic, Compare, Advance, Executing
<1>2. CASE Jmp \/ Jz \/ Jnz \/ Jg \/ Jl \/ Jge \/ Jle
  BY <1>2 DEF Jmp, Jz, Jnz, Jg, Jl, Jge, Jle, Branch, Executing
<1>3. CASE Call \/ Ret \/ PrintBase \/ PrintDecimal \/ Nop
  BY <1>3 DEF Call, Ret, PrintBase, PrintDecimal, PrintWord, Nop, Advance,
              Executing
<1>4. CASE StackOverflow \/ StackUnderflow
  BY <1>4 DEF StackOverflow, StackUnderflow, Executing, Faults
<1>5. CASE PcOutOfBounds
  BY <1>5 DEF PcOutOfBounds, Executing, Fetchable, Faults
<1>6. CASE UnknownOpcode
  BY <1>6 DEF UnknownOpcode, Opcodes, Executing, Faults
<1>7. CASE MemoryOutOfBounds
  BY <1>7 DEF MemoryOutOfBounds, Executing, Faults
<1> QED BY <1>1, <1>2, <1>3, <1>4, <1>5, <1>6, <1>7 DEF Next

\* run() reports its limit exactly when max_steps instructions were executed
\* and the last of them was not HALT, which halts at any step, the last
\* permitted one included.
THEOREM LimitExactness == Spec => LimitReportedExactly
<1> DEFINE Exactly ==
      /\ outcome' = "halted" <=> Executing("HALT")
      /\ outcome' = "step limit" <=> steps' = MaxSteps /\ ~Executing("HALT")
<1>1. ASSUME IInv, Next
      PROVE  Exactly
  <2>1. outcome = "running" /\ steps \in Nat /\ MaxSteps \in Nat /\ steps < MaxSteps
    BY <1>1, NextRuns, VMAssumption DEF IInv, TypeOK, DriverInStep
  <2>2. CASE Halt
    BY <2>2 DEF Halt
  <2>3. CASE Completed /\ ~Executing("HALT")
    <3>1. outcome' # "halted"
      BY <2>3 DEF Completed
    <3>2. CASE steps + 1 >= MaxSteps
      <4>1. outcome' = "step limit" /\ steps' = steps + 1
        BY <2>3, <3>2 DEF Completed
      <4>2. steps + 1 = MaxSteps
        BY <2>1, <3>2
      <4> QED BY <2>3, <3>1, <4>1, <4>2
    <3>3. CASE ~(steps + 1 >= MaxSteps)
      <4>1. outcome' # "step limit" /\ steps' # MaxSteps
        BY <2>1, <2>3, <3>3 DEF Completed
      <4> QED BY <2>3, <3>1, <4>1
    <3> QED BY <3>2, <3>3
  <2>4. CASE /\ ~Executing("HALT")
             /\ \E reason \in Faults : Fault(reason)
    <3>1. outcome' \notin {"halted", "step limit"}
      BY <2>4 DEF Fault, Faults
    <3>2. steps' # MaxSteps
      BY <2>1, <2>4 DEF Fault
    <3> QED BY <2>4, <3>1, <3>2
  <2> QED BY <1>1, <2>2, <2>3, <2>4, NextCompletesOrFails
<1>2. ASSUME IInv, [Next]_vars
      PROVE  [Exactly]_vars
  BY <1>1, <1>2
<1>3. Spec => []IInv
  BY Invariance
<1> QED BY <1>2, <1>3, PTL DEF Spec, LimitReportedExactly

\* An instruction that completes reports no fault.
LEMMA CompletedIsNoFault ==
    ASSUME Completed
    PROVE  outcome' \notin Faults
BY DEF Completed, Faults

\* What a VMError leaves behind is the state the failing instruction found,
\* but for sp and, when a CALL fails, for cell 0.
THEOREM FaultsKeepState == Spec => FaultFootprint
<1> DEFINE Footprint ==
      outcome' \in Faults =>
          /\ UNCHANGED <<gp, pc, fr, output, steps>>
          /\ \A x \in Addresses : mem'[x] # mem[x] =>
                x = 0 /\ outcome' = "stack overflow"
<1>1. ASSUME IInv, [Next]_vars
      PROVE  [Footprint]_vars
  <2>1. CASE StackOverflow
    <3>1. /\ sp \in Addresses
          /\ sp - 1 < 0
          /\ StoreWord(sp, pc + 1)
          /\ Fault("stack overflow")
      BY <2>1 DEF StackOverflow, PushReturnAddress
    <3>2. sp = 0
      <4>1. MemorySize \in Nat /\ sp \in 0 .. MemorySize - 1 /\ sp - 1 < 0
        BY <3>1, VMAssumption DEF Addresses
      <4> QED BY <4>1
    <3>3. \A x \in Addresses : x # 0 => mem'[x] = mem[x]
      BY <1>1, <3>1, <3>2 DEF IInv, TypeOK, StoreWord
    <3>4. UNCHANGED <<gp, pc, fr, output, steps>> /\ outcome' = "stack overflow"
      BY <3>1 DEF Fault
    <3> QED BY <3>3, <3>4
  <2>2. CASE StackUnderflow \/ PcOutOfBounds \/ UnknownOpcode \/ MemoryOutOfBounds
    <3>1. UNCHANGED <<gp, pc, fr, output, steps>> /\ mem' = mem
      BY <2>2 DEF StackUnderflow, PcOutOfBounds, UnknownOpcode,
                  MemoryOutOfBounds, Fault
    <3> QED BY <3>1
  <2>3. CASE Halt
    <3>1. outcome' \notin Faults
      BY <2>3 DEF Halt, Faults
    <3> QED BY <3>1
  <2>4. CASE \/ LoadImmediate \/ Move \/ Load \/ Store \/ LoadIndirect
             \/ StoreIndirect \/ Add \/ Sub \/ Compare
    <3>1. Completed
      BY <2>4 DEF LoadImmediate, Move, Load, Store, LoadIndirect, StoreIndirect,
                  Add, Sub, Arithmetic, Compare, Advance
    <3> QED BY <3>1, CompletedIsNoFault
  <2>5. CASE Jmp \/ Jz \/ Jnz \/ Jg \/ Jl \/ Jge \/ Jle
    <3>1. Completed
      BY <2>5 DEF Jmp, Jz, Jnz, Jg, Jl, Jge, Jle, Branch
    <3> QED BY <3>1, CompletedIsNoFault
  <2>6. CASE Call \/ Ret \/ PrintBase \/ PrintDecimal \/ Nop
    <3>1. Completed
      BY <2>6 DEF Call, Ret, PrintBase, PrintDecimal, PrintWord, Nop, Advance
    <3> QED BY <3>1, CompletedIsNoFault
  <2>7. CASE UNCHANGED vars
    BY <2>7
  <2> QED BY <1>1, <2>1, <2>2, <2>3, <2>4, <2>5, <2>6, <2>7 DEF Next
<1>2. Spec => []IInv
  BY Invariance
<1> QED BY <1>1, <1>2, PTL DEF Spec, FaultFootprint

-----------------------------------------------------------------------------
(* The stack as a sequence.                                                *)

\* The cells above an address are a sequence of words.
LEMMA CellsAboveIsSequence ==
    ASSUME NEW m \in [Addresses -> Word], NEW top \in Addresses
    PROVE  /\ CellsAbove(m, top) \in Seq(Word)
           /\ Len(CellsAbove(m, top)) = MemorySize - 1 - top
           /\ \A k \in 1 .. MemorySize - 1 - top : CellsAbove(m, top)[k] = m[top + k]
<1> DEFINE n == MemorySize - 1 - top
<1>1. n \in Nat /\ top \in Nat
  BY VMAssumption DEF Addresses
<1>2. \A k \in 1 .. n : top + k \in Addresses
  BY VMAssumption DEF Addresses
<1>3. CellsAbove(m, top) \in [1 .. n -> Word]
  BY <1>2 DEF CellsAbove
<1>4. CellsAbove(m, top) \in Seq(Word) /\ Len(CellsAbove(m, top)) = n
  BY <1>1, <1>3
<1> QED BY <1>4 DEF CellsAbove

\* The cell just stored at the old top is in front of what was above it.
LEMMA PushInFront ==
    ASSUME NEW m \in [Addresses -> Word], NEW top \in Addresses, top > 0,
           NEW w \in Word
    PROVE  CellsAbove([m EXCEPT ![top] = w], top - 1) = <<w>> \o CellsAbove(m, top)
<1> DEFINE n  == MemorySize - 1 - top
           m2 == [m EXCEPT ![top] = w]
           s  == CellsAbove(m2, top - 1)
           t  == CellsAbove(m, top)
<1>1. n \in Nat /\ top \in Nat /\ top - 1 \in Addresses /\ MemorySize \in Nat
  BY VMAssumption DEF Addresses
<1>2. /\ m2 \in [Addresses -> Word]
      /\ m2[top] = w
      /\ \A x \in Addresses : x # top => m2[x] = m[x]
  OBVIOUS
<1>3. /\ s \in Seq(Word)
      /\ Len(s) = n + 1
      /\ \A k \in 1 .. n + 1 : s[k] = m2[top - 1 + k]
  <2> HIDE DEF m2
  <2>1. MemorySize - 1 - (top - 1) = n + 1
    BY <1>1
  <2> QED BY <1>1, <1>2, <2>1, CellsAboveIsSequence
<1>4. /\ t \in Seq(Word)
      /\ Len(t) = n
      /\ \A k \in 1 .. n : t[k] = m[top + k]
  BY CellsAboveIsSequence
<1> HIDE DEF s, t, m2
<1>5. s[1] = w
  <2>1. 1 \in 1 .. n + 1 /\ top - 1 + 1 = top
    BY <1>1
  <2>2. s[1] = m2[top - 1 + 1]
    BY <1>3, <2>1
  <2> QED BY <1>2, <2>1, <2>2
<1>6. ASSUME NEW k \in 1 .. n
      PROVE  s[k + 1] = t[k]
  <2>1. top + k \in Addresses /\ top + k # top /\ k + 1 \in 1 .. n + 1
    BY <1>1 DEF Addresses
  <2>2. top - 1 + (k + 1) = top + k
    BY <1>1
  <2>3. s[k + 1] = m2[top - 1 + (k + 1)]
    BY <1>3, <2>1
  <2> QED BY <1>2, <1>4, <2>1, <2>2, <2>3
<1> HIDE DEF n
<1>7. Len(<<w>> \o t) = n + 1 /\ <<w>> \o t \in Seq(Word)
  BY <1>1, <1>4
<1>8. ASSUME NEW k \in 1 .. n + 1
      PROVE  s[k] = (<<w>> \o t)[k]
  <2>1. CASE k = 1
    BY <1>4, <1>5, <2>1
  <2>2. CASE k # 1
    <3>1. k - 1 \in 1 .. n
      BY <1>1, <2>2
    <3>2. s[k] = t[k - 1]
      BY <1>1, <1>6, <3>1
    <3>3. (<<w>> \o t)[k] = t[k - 1]
      BY <1>1, <1>4, <3>1
    <3> QED BY <3>2, <3>3
  <2> QED BY <2>1, <2>2
<1>9. s = <<w>> \o t
  BY <1>1, <1>3, <1>7, <1>8, SeqEqual
<1> QED BY <1>9 DEF s, t, m2

\* The cells above the next address are the tail.
LEMMA PopFront ==
    ASSUME NEW m \in [Addresses -> Word], NEW top \in Addresses,
           top + 1 \in Addresses
    PROVE  /\ CellsAbove(m, top) # <<>>
           /\ Head(CellsAbove(m, top)) = m[top + 1]
           /\ Tail(CellsAbove(m, top)) = CellsAbove(m, top + 1)
<1> DEFINE n == MemorySize - 1 - top
           s == CellsAbove(m, top)
           t == CellsAbove(m, top + 1)
<1>1. n \in Nat /\ n >= 1 /\ top \in Nat /\ MemorySize \in Nat
  BY VMAssumption DEF Addresses
<1>2. /\ s \in Seq(Word)
      /\ Len(s) = n
      /\ \A k \in 1 .. n : s[k] = m[top + k]
  BY CellsAboveIsSequence
<1>3. /\ t \in Seq(Word)
      /\ Len(t) = n - 1
      /\ \A k \in 1 .. n - 1 : t[k] = m[top + 1 + k]
  <2>1. MemorySize - 1 - (top + 1) = n - 1
    BY <1>1
  <2> QED BY <2>1, CellsAboveIsSequence
<1> HIDE DEF s, t, n
<1>4. s # <<>> /\ Head(s) = m[top + 1]
  BY <1>1, <1>2
<1>5. Tail(s) \in Seq(Word) /\ Len(Tail(s)) = n - 1
  BY <1>1, <1>2, <1>4, HeadTailProperties
<1>6. ASSUME NEW k \in 1 .. n - 1
      PROVE  Tail(s)[k] = t[k]
  <2>1. Tail(s)[k] = s[k + 1]
    BY <1>1, <1>2, <1>4, HeadTailProperties
  <2>2. k + 1 \in 1 .. n /\ top + (k + 1) = top + 1 + k
    BY <1>1
  <2> QED BY <1>2, <1>3, <2>1, <2>2
<1>7. Tail(s) = t
  BY <1>1, <1>3, <1>5, <1>6, SeqEqual
<1> QED BY <1>4, <1>7 DEF s, t

\* A store at or below the stack pointer does not reach the stack.
LEMMA StoreBelow ==
    ASSUME NEW m \in [Addresses -> Word], NEW top \in Addresses,
           NEW x \in Addresses, x <= top, NEW w
    PROVE  CellsAbove([m EXCEPT ![x] = w], top) = CellsAbove(m, top)
<1>1. \A k \in 1 .. MemorySize - 1 - top : top + k \in Addresses /\ top + k # x
  BY VMAssumption DEF Addresses
<1> QED BY <1>1 DEF CellsAbove

-----------------------------------------------------------------------------
(* The simulation.  Its steps share these facts about the current state.   *)

\* While the machine runs, the stack is the cells above sp.
LEMMA RunningStack ==
    ASSUME IInv, outcome = "running"
    PROVE  /\ sp \in Addresses
           /\ StackTop = sp
           /\ PendingReturns = CellsAbove(mem, sp)
           /\ StackStatus = "running"
           /\ mem \in [Addresses -> Word]
           /\ pc \in Int
<1>1. sp \in Addresses
  BY DEF IInv, StackPointerInMemory
<1>2. ~(sp < 0)
  BY <1>1, VMAssumption DEF Addresses
<1> QED BY <1>1, <1>2 DEF IInv, TypeOK, StackTop, PendingReturns, StackStatus

\* A step that completes and leaves sp and memory alone is a Continue.
LEMMA CompletedContinues ==
    ASSUME IInv, IInv', Fetchable, Completed, UNCHANGED <<sp, mem>>
    PROVE  Stack!Continue
<1>1. outcome = "running"
  BY DEF Fetchable
<1>2. StackStatus = "running"
  BY <1>1, RunningStack
<1>3. StackStatus' \in {"running", "stopped"}
  BY DEF Completed, StackStatus
<1>4. PendingReturns' = PendingReturns
  BY DEF PendingReturns, CellsAbove, StackTop
<1>5. pc' \in Int
  BY DEF IInv, TypeOK
<1> QED BY <1>2, <1>3, <1>4, <1>5
        DEF Stack!Continue, Stack!Running, Stack!GoOnOrStop

LEMMA CallIsCall ==
    ASSUME IInv, IInv', Call, \A p \in Programs : Len(p) <= WordMax
    PROVE  Stack!Call
<1>1. /\ Fetchable
      /\ Completed
      /\ sp - 1 >= 0
      /\ StoreWord(sp, pc + 1)
      /\ sp' = sp - 1
  BY DEF Call, Executing, PushReturnAddress
<1>2. /\ sp \in Addresses
      /\ PendingReturns = CellsAbove(mem, sp)
      /\ StackStatus = "running"
      /\ mem \in [Addresses -> Word]
      /\ pc \in Int
  BY <1>1, RunningStack DEF Fetchable
<1>3. sp > 0 /\ sp \in Nat /\ MemorySize \in Nat
  <2>1. sp \in Nat /\ MemorySize \in Nat
    BY <1>2, VMAssumption DEF Addresses
  <2>2. sp - 1 >= 0
    BY <1>1
  <2> QED BY <2>1, <2>2
<1>4. WrapWord(pc + 1) = pc + 1 /\ pc + 1 \in Word
  <2>1. code \in Programs /\ code \in Seq(Instructions)
    BY VMAssumption DEF IInv, TypeOK
  <2>2. Len(code) \in Nat /\ Len(code) <= WordMax /\ pc >= 0 /\ pc < Len(code)
    BY <1>1, <2>1 DEF Fetchable
  <2>3. WordMax \in Int
    BY WordsAssumption DEF WordMax, Half
  <2>4. pc + 1 \in 0 .. WordMax
    BY <1>2, <2>2, <2>3
  <2> QED BY <2>4, WrapWordOfWord
<1>5. mem' = [mem EXCEPT ![sp] = pc + 1]
  BY <1>1, <1>4 DEF StoreWord
<1>6. StackTop' = sp - 1
  <2>1. sp' = sp - 1 /\ ~(sp' < 0)
    BY <1>1, <1>3
  <2> QED BY <2>1 DEF StackTop
<1>7. PendingReturns' = <<pc + 1>> \o PendingReturns
  <2>1. PendingReturns' = CellsAbove(mem', sp - 1)
    BY <1>6 DEF PendingReturns, CellsAbove
  <2> QED BY <1>2, <1>3, <1>4, <1>5, <2>1, PushInFront
<1>8. Len(PendingReturns) < MemorySize - 1
  <2>1. Len(PendingReturns) = MemorySize - 1 - sp
    BY <1>2, CellsAboveIsSequence
  <2> QED BY <1>3, <2>1
<1>9. StackStatus' \in {"running", "stopped"}
  BY <1>1 DEF Completed, StackStatus
<1>10. pc' \in Int
  BY DEF IInv, TypeOK
<1> QED BY <1>2, <1>7, <1>8, <1>9, <1>10
        DEF Stack!Call, Stack!Running, Stack!GoOnOrStop

LEMMA OverflowIsOverflow ==
    ASSUME IInv, StackOverflow
    PROVE  Stack!Overflow
<1>1. /\ Fetchable
      /\ sp - 1 < 0
      /\ StoreWord(sp, pc + 1)
      /\ sp' = sp - 1
      /\ outcome' = "stack overflow"
      /\ pc' = pc
  BY DEF StackOverflow, Executing, PushReturnAddress, Fault
<1>2. /\ sp \in Addresses
      /\ PendingReturns = CellsAbove(mem, sp)
      /\ StackStatus = "running"
      /\ mem \in [Addresses -> Word]
      /\ pc \in Int
  BY <1>1, RunningStack DEF Fetchable
<1>3. sp = 0 /\ MemorySize \in Nat
  <2>1. sp \in Nat /\ MemorySize \in Nat
    BY <1>2, VMAssumption DEF Addresses
  <2>2. sp - 1 < 0
    BY <1>1
  <2> QED BY <2>1, <2>2
<1>4. StackTop' = 0
  <2>1. sp' = sp - 1
    BY <1>1
  <2>2. sp' < 0
    BY <1>3, <2>1
  <2> QED BY <2>2 DEF StackTop
<1>5. PendingReturns' = CellsAbove(mem', sp)
  BY <1>3, <1>4 DEF PendingReturns, CellsAbove
<1>6. PendingReturns' = PendingReturns
  <2> DEFINE w == WrapWord(pc + 1)
  <2>1. w \in Word
    <3>1. pc + 1 \in Int
      BY <1>2
    <3> QED BY <3>1, WrapWordInWord
  <2>2. mem' = [mem EXCEPT ![sp] = w]
    BY <1>1 DEF StoreWord
  <2>3. sp <= sp
    BY <1>3
  <2> HIDE DEF w
  <2>4. CellsAbove([mem EXCEPT ![sp] = w], sp) = CellsAbove(mem, sp)
    BY <1>2, <2>3, StoreBelow
  <2> QED BY <1>2, <1>5, <2>2, <2>4
<1>7. Len(PendingReturns) = MemorySize - 1
  <2>1. Len(PendingReturns) = MemorySize - 1 - sp
    BY <1>2, CellsAboveIsSequence
  <2> QED BY <1>3, <2>1
<1>8. StackStatus' = "stack overflow"
  BY <1>1 DEF StackStatus
<1> QED BY <1>1, <1>2, <1>6, <1>7, <1>8 DEF Stack!Overflow, Stack!Running

LEMMA RetIsReturn ==
    ASSUME IInv, IInv', Ret
    PROVE  Stack!Return
<1>1. /\ Fetchable
      /\ Completed
      /\ sp + 1 < MemorySize
      /\ sp' = sp + 1
      /\ pc' = mem[sp + 1]
      /\ mem' = mem
  BY DEF Ret, Executing
<1>2. /\ sp \in Addresses
      /\ PendingReturns = CellsAbove(mem, sp)
      /\ StackStatus = "running"
      /\ mem \in [Addresses -> Word]
  BY <1>1, RunningStack DEF Fetchable
<1>3. sp + 1 \in Addresses /\ ~(sp + 1 < 0)
  <2>1. sp \in Nat /\ MemorySize \in Nat
    BY <1>2, VMAssumption DEF Addresses
  <2>2. sp + 1 < MemorySize
    BY <1>1
  <2> QED BY <2>1, <2>2 DEF Addresses
<1>4. PendingReturns' = CellsAbove(mem, sp + 1)
  <2>1. StackTop' = sp + 1
    BY <1>1, <1>3 DEF StackTop
  <2> QED BY <1>1, <2>1 DEF PendingReturns, CellsAbove
<1>5. /\ PendingReturns # <<>>
      /\ Head(PendingReturns) = mem[sp + 1]
      /\ Tail(PendingReturns) = CellsAbove(mem, sp + 1)
  BY <1>2, <1>3, PopFront
<1>6. StackStatus' \in {"running", "stopped"}
  BY <1>1 DEF Completed, StackStatus
<1> QED BY <1>1, <1>2, <1>4, <1>5, <1>6
        DEF Stack!Return, Stack!Running, Stack!GoOnOrStop

\* The cells above the last address, or above MemorySize, are no cells.
LEMMA EmptyStack ==
    ASSUME NEW m, NEW top \in {MemorySize - 1, MemorySize}
    PROVE  CellsAbove(m, top) = <<>>
<1>1. \A k \in Int : ~(k \in 1 .. MemorySize - 1 - top)
  BY VMAssumption
<1>2. 1 .. MemorySize - 1 - top = {}
  BY <1>1
<1>3. CellsAbove(m, top) = [k \in {} |-> m[top + k]]
  BY <1>2 DEF CellsAbove
<1> QED BY <1>3

LEMMA UnderflowIsUnderflow ==
    ASSUME IInv, StackUnderflow
    PROVE  Stack!Underflow
<1>1. /\ Fetchable
      /\ sp + 1 >= MemorySize
      /\ sp' = sp + 1
      /\ outcome' = "stack underflow"
      /\ pc' = pc
  BY DEF StackUnderflow, Executing, Fault
<1>2. /\ sp \in Addresses
      /\ PendingReturns = CellsAbove(mem, sp)
      /\ StackStatus = "running"
  BY <1>1, RunningStack DEF Fetchable
<1>3. sp = MemorySize - 1 /\ MemorySize \in Nat /\ sp \in Nat
  <2>1. MemorySize \in Nat /\ sp \in 0 .. MemorySize - 1
    BY <1>2, VMAssumption DEF Addresses
  <2>2. sp + 1 >= MemorySize
    BY <1>1
  <2> QED BY <2>1, <2>2
<1>4. StackTop' = MemorySize
  <2>1. sp' = sp + 1
    BY <1>1
  <2>2. sp' = MemorySize /\ ~(sp' < 0)
    BY <1>3, <2>1
  <2> QED BY <2>2 DEF StackTop
<1>5. PendingReturns = <<>>
  BY <1>2, <1>3, EmptyStack
<1>6. PendingReturns' = <<>>
  <2>1. PendingReturns' = CellsAbove(mem', MemorySize)
    BY <1>4 DEF PendingReturns, CellsAbove
  <2> QED BY <2>1, EmptyStack
<1>7. StackStatus' = "stack underflow"
  BY <1>1 DEF StackStatus
<1> QED BY <1>1, <1>2, <1>5, <1>6, <1>7 DEF Stack!Underflow, Stack!Running

\* A store continues, or overwrites a pending return address if it is made
\* above the stack pointer.
LEMMA StoreIsContinueOrOverwrite ==
    ASSUME IInv, IInv', Fetchable, NEW x \in Addresses, NEW v \in Int,
           StoreWord(x, v), Advance, sp' = sp
    PROVE  /\ Stack!Continue \/ Stack!Overwrite
           /\ x <= sp => Stack!Continue
<1>1. /\ sp \in Addresses
      /\ StackTop = sp
      /\ PendingReturns = CellsAbove(mem, sp)
      /\ StackStatus = "running"
      /\ mem \in [Addresses -> Word]
      /\ pc \in Int
  BY RunningStack DEF Fetchable
<1>2. StackStatus' \in {"running", "stopped"}
  BY DEF Advance, Completed, StackStatus
<1> DEFINE w == WrapWord(v)
<1>3. w \in Word
  BY WrapWordInWord
<1>4. mem' = [mem EXCEPT ![x] = w]
  BY DEF StoreWord
<1>5. PendingReturns' = CellsAbove(mem', sp)
  <2>1. StackTop' = sp
    BY <1>1 DEF StackTop
  <2> QED BY <2>1 DEF PendingReturns, CellsAbove
<1>6. pc' = pc + 1 /\ pc' \in Int
  BY DEF Advance, IInv, TypeOK
<1> HIDE DEF w
<1>7. CASE x <= sp
  <2>1. CellsAbove([mem EXCEPT ![x] = w], sp) = CellsAbove(mem, sp)
    BY <1>1, <1>7, StoreBelow
  <2>2. PendingReturns' = PendingReturns
    BY <1>1, <1>4, <1>5, <2>1
  <2> QED BY <1>1, <1>2, <1>6, <2>2
          DEF Stack!Continue, Stack!Running, Stack!GoOnOrStop
<1>8. CASE x > sp
  <2> DEFINE n == MemorySize - 1 - sp
             s == CellsAbove(mem, sp)
  <2>1. x - sp \in 1 .. n
    BY <1>1, <1>8, VMAssumption DEF Addresses
  <2>2. \A k \in 1 .. n : /\ sp + k \in Addresses
                          /\ sp + k = x <=> k = x - sp
    BY <1>1, VMAssumption DEF Addresses
  <2>3. CellsAbove([mem EXCEPT ![x] = w], sp) = [s EXCEPT ![x - sp] = w]
    BY <1>1, <2>1, <2>2 DEF CellsAbove
  <2>4. x - sp \in DOMAIN s
    BY <2>1 DEF CellsAbove
  <2> HIDE DEF s
  <2>5. PendingReturns = s
    BY <1>1 DEF s
  <2>6. PendingReturns' = [s EXCEPT ![x - sp] = w]
    BY <1>4, <1>5, <2>3
  <2>7. Stack!Overwrite
    BY <1>1, <1>2, <1>3, <1>6, <2>4, <2>5, <2>6
    DEF Stack!Overwrite, Stack!Running, Stack!GoOnOrStop
  <2>8. ~(x <= sp)
    BY <1>1, <1>8, VMAssumption DEF Addresses
  <2> QED BY <2>7, <2>8
<1>9. x <= sp \/ x > sp
  BY <1>1, VMAssumption DEF Addresses
<1> QED BY <1>7, <1>8, <1>9

\* The faults that have nothing to do with the stack stop the run.
LEMMA OtherFaultContinues ==
    ASSUME IInv, IInv', outcome = "running", UNCHANGED <<sp, mem>>,
           NEW reason \in Faults \ {"stack overflow", "stack underflow"},
           Fault(reason)
    PROVE  Stack!Continue
<1>1. StackStatus = "running"
  BY RunningStack
<1>2. outcome' = reason
  BY DEF Fault
<1>3. StackStatus' = "stopped"
  BY <1>2 DEF StackStatus, Faults
<1>4. PendingReturns' = PendingReturns
  BY DEF PendingReturns, CellsAbove, StackTop
<1>5. pc' \in Int
  BY DEF IInv, TypeOK
<1> QED BY <1>1, <1>3, <1>4, <1>5
        DEF Stack!Continue, Stack!Running, Stack!GoOnOrStop

\* Every step of the machine is a step of CallReturn, or leaves its state
\* unchanged; it is an Overwrite only if a store hits the stack.
LEMMA StepSimulates ==
    ASSUME IInv, IInv', [Next]_vars, \A p \in Programs : Len(p) <= WordMax
    PROVE  /\ [Stack!Next \/ Stack!Overwrite]_(Stack!vars)
           /\ StoresBelowStack => [Stack!Next]_(Stack!vars)
<1>1. /\ code \in Programs
      /\ gp \in [Registers -> Word]
      /\ pc \in Int
  BY DEF IInv, TypeOK
<1>2. Fetchable => Encoded(instr) /\ instr \in Instructions
  BY <1>1, FetchedIsEncoded
<1>3. CASE \/ LoadImmediate \/ Move \/ Load \/ LoadIndirect \/ Add \/ Sub \/ Compare
           \/ PrintBase \/ PrintDecimal \/ Nop
  <2>1. Fetchable /\ Completed /\ UNCHANGED <<sp, mem>>
    BY <1>3 DEF LoadImmediate, Move, Load, LoadIndirect, Add, Sub, Arithmetic,
                Compare, PrintBase, PrintDecimal, PrintWord, Nop, Executing, Advance
  <2> QED BY <2>1, CompletedContinues DEF Stack!Next
<1>4. CASE Jmp \/ Jz \/ Jnz \/ Jg \/ Jl \/ Jge \/ Jle
  <2>1. Fetchable /\ Completed /\ UNCHANGED <<sp, mem>>
    BY <1>4 DEF Jmp, Jz, Jnz, Jg, Jl, Jge, Jle, Branch, Executing
  <2> QED BY <2>1, CompletedContinues DEF Stack!Next
<1>5. CASE Store
  <2>1. /\ Fetchable /\ instr.op = "ST"
        /\ instr.a \in Registers /\ instr.b \in Addresses
    BY <1>2, <1>5 DEF Store, Executing, Encoded, FirstIsRegister
  <2>2. gp[instr.a] \in Int
    BY <1>1, <2>1, WordFacts
  <2>3. /\ Stack!Continue \/ Stack!Overwrite
        /\ instr.b <= sp => Stack!Continue
    BY <1>5, <2>1, <2>2, StoreIsContinueOrOverwrite DEF Store
  <2>4. Operand = instr.b
    BY <2>1 DEF Operand
  <2> QED BY <2>1, <2>3, <2>4 DEF Stack!Next, StoresBelowStack
<1>6. CASE StoreIndirect
  <2>1. /\ Fetchable /\ instr.op = "STR"
        /\ instr.a \in Registers /\ gp[instr.b] \in Addresses
    BY <1>2, <1>6 DEF StoreIndirect, Executing, Encoded, FirstIsRegister
  <2>2. gp[instr.a] \in Int
    BY <1>1, <2>1, WordFacts
  <2>3. /\ Stack!Continue \/ Stack!Overwrite
        /\ gp[instr.b] <= sp => Stack!Continue
    BY <1>6, <2>1, <2>2, StoreIsContinueOrOverwrite DEF StoreIndirect
  <2>4. Operand = gp[instr.b]
    BY <2>1 DEF Operand
  <2> QED BY <2>1, <2>3, <2>4 DEF Stack!Next, StoresBelowStack
<1>7. CASE Call
  BY <1>7, CallIsCall DEF Stack!Next
<1>8. CASE StackOverflow
  BY <1>8, OverflowIsOverflow DEF Stack!Next
<1>9. CASE Ret
  BY <1>9, RetIsReturn DEF Stack!Next
<1>10. CASE StackUnderflow
  BY <1>10, UnderflowIsUnderflow DEF Stack!Next
<1>11. CASE Halt
  <2>1. outcome = "running" /\ outcome' = "halted" /\ sp' = sp /\ mem' = mem
    BY <1>11 DEF Halt, Executing, Fetchable
  <2>2. StackStatus = "running" /\ StackStatus' = "stopped"
    BY <2>1 DEF StackStatus
  <2>3. PendingReturns' = PendingReturns
    BY <2>1 DEF PendingReturns, CellsAbove, StackTop
  <2>4. pc' \in Int
    BY DEF IInv, TypeOK
  <2> QED BY <2>2, <2>3, <2>4
          DEF Stack!Next, Stack!Continue, Stack!Running, Stack!GoOnOrStop
<1>12. CASE PcOutOfBounds \/ UnknownOpcode \/ MemoryOutOfBounds
  <2>1. /\ outcome = "running" /\ UNCHANGED <<sp, mem>>
        /\ \E reason \in Faults \ {"stack overflow", "stack underflow"} : Fault(reason)
    BY <1>12 DEF PcOutOfBounds, UnknownOpcode, MemoryOutOfBounds, Fetchable, Faults
  <2> QED BY <2>1, OtherFaultContinues DEF Stack!Next
<1>13. CASE UNCHANGED vars
  <2>1. UNCHANGED Stack!vars
    BY <1>13 DEF vars, Stack!vars, PendingReturns, CellsAbove, StackTop, StackStatus
  <2> QED BY <2>1
<1> QED
  BY <1>3, <1>4, <1>5, <1>6, <1>7, <1>8, <1>9, <1>10, <1>11, <1>12, <1>13 DEF Next

LEMMA InitSimulates ==
    ASSUME Init
    PROVE  Stack!Init
<1>1. StackTop = MemorySize - 1
  BY VMAssumption DEF Init, Reset, StackTop
<1>2. PendingReturns = <<>>
  BY <1>1, EmptyStack DEF PendingReturns
<1> QED BY <1>2 DEF Init, Reset, Stack!Init, StackStatus

\* For images whose addresses are words, nothing but a store instruction that
\* writes into the stack ever disturbs the matching of CALL and RET.
THEOREM CallsAreDisturbedByStoresOnly ==
    ASSUME \A p \in Programs : Len(p) <= WordMax
    PROVE  Spec => OnlyStoresDisturbCalls
<1>1. Spec => []IInv
  BY Invariance
<1>2. Init => Stack!Init
  BY InitSimulates
<1>3. IInv /\ IInv' /\ [Next]_vars => [Stack!Next \/ Stack!Overwrite]_(Stack!vars)
  BY StepSimulates
<1> QED BY <1>1, <1>2, <1>3, PTL
        DEF Spec, OnlyStoresDisturbCalls, Stack!OverwritableSpec

\* If no store ever writes above the stack pointer, calls return: CALL and
\* RET implement CallReturn.
THEOREM CallsReturnIfStoresStayBelow ==
    ASSUME \A p \in Programs : Len(p) <= WordMax
    PROVE  Spec /\ []StoresBelowStack => CallsReturn
<1>1. Spec => []IInv
  BY Invariance
<1>2. Init => Stack!Init
  BY InitSimulates
<1>3. IInv /\ IInv' /\ [Next]_vars /\ StoresBelowStack => [Stack!Next]_(Stack!vars)
  BY StepSimulates
<1> QED BY <1>1, <1>2, <1>3, PTL DEF Spec, CallsReturn, Stack!Spec
=============================================================================
