-------------------------- MODULE CrossRepr_proofs --------------------------
(***************************************************************************)
(* Proof that the unsigned and the balanced machine agree until they are   *)
(* told apart, for every odd modulus, memory size, limit and set of images.*)
(***************************************************************************)
EXTENDS CrossRepr, TLAPS

-----------------------------------------------------------------------------
(* Words of the two representations.                                       *)

UWord == 0 .. Modulus - 1

LEMMA ModulusFacts ==
    /\ Modulus \in Nat /\ Half \in Nat /\ Modulus = 2 * Half + 1 /\ Half >= 1
    /\ U!Half = Half /\ B!Half = Half
<1>1. Half \in Nat /\ Modulus = 2 * Half + 1 /\ Half >= 1
  BY OddModulus DEF Half
<1> QED BY <1>1, OddModulus DEF U!Half, B!Half, Half

LEMMA Division ==
    ASSUME NEW v \in Int
    PROVE  /\ v % Modulus \in UWord
           /\ v \div Modulus \in Int
           /\ v - (v % Modulus) = Modulus * (v \div Modulus)
<1>1. v % Modulus \in 0 .. Modulus - 1 /\ v \div Modulus \in Int
  BY OddModulus
<1>2. v - (v % Modulus) = Modulus * (v \div Modulus)
  BY OddModulus
<1> QED BY <1>1, <1>2 DEF UWord

LEMMA Multiples ==
    ASSUME NEW d \in Int
    PROVE  /\ d >= 1 => Modulus * d >= Modulus
           /\ d <= -2 => Modulus * d <= -2 * Modulus
<1>1. d >= 1 => Modulus * d >= Modulus
  BY OddModulus
<1>2. d <= -2 => Modulus * d <= -2 * Modulus
  BY OddModulus
<1> QED BY <1>1, <1>2

\* Values that differ by a multiple of the modulus wrap to words that agree.
LEMMA WrapAgrees ==
    ASSUME NEW v \in Int, NEW k \in Int
    PROVE  /\ U!WrapWord(v) \in UWord
           /\ B!WrapWord(v + Modulus * k) = Reading(U!WrapWord(v))
<1> DEFINE w == v + Modulus * k
           r == v % Modulus
           q == v \div Modulus
           s == (w + Half) % Modulus
           p == (w + Half) \div Modulus
           d == q + k - p
<1>1. r \in UWord /\ q \in Int /\ v - r = Modulus * q
  BY Division
<1>2. Modulus * k \in Int /\ w + Half \in Int
  BY ModulusFacts
<1>3. s \in UWord /\ p \in Int /\ (w + Half) - s = Modulus * p
  BY <1>2, Division
<1>4. U!WrapWord(v) = r /\ B!WrapWord(w) = s - Half
  BY ModulusFacts DEF U!WrapWord, B!WrapWord
<1>5. d \in Int
  BY <1>1, <1>3
<1> HIDE DEF r, q, s, p
<1>6. Modulus * d = Modulus * q + Modulus * k - Modulus * p
  BY <1>1, <1>3, ModulusFacts
<1>7. s - Half = r + Modulus * d
  BY <1>1, <1>2, <1>3, <1>6, ModulusFacts DEF UWord
<1> HIDE DEF d, w
<1>8. d = 0 \/ d = -1
  BY <1>1, <1>3, <1>5, <1>7, Multiples, ModulusFacts DEF UWord
<1>9. s - Half = Reading(r)
  BY <1>1, <1>3, <1>7, <1>8, ModulusFacts DEF UWord, Reading
<1> QED BY <1>1, <1>4, <1>9 DEF w

\* A word and its reading differ by a multiple of the modulus, and words on the
\* same side of the middle have their readings in the same order.
LEMMA ReadingFacts ==
    ASSUME NEW u \in UWord
    PROVE  /\ Reading(u) \in Int /\ u \in Int
           /\ \E k \in Int : Reading(u) = u + Modulus * k
           /\ u <= Half => Reading(u) = u
           /\ u > Half => Reading(u) < 0
           /\ \A w \in UWord : (w > Half <=> u > Half) =>
                 (Reading(u) = Reading(w) <=> u = w) /\ (Reading(u) > Reading(w) <=> u > w)
                 /\ (Reading(u) < Reading(w) <=> u < w)
           /\ Reading(u) = 0 <=> u = 0
<1>1. u + Modulus * 0 = u /\ u + Modulus * (-1) = u - Modulus
  BY ModulusFacts DEF UWord
<1>2. \E k \in Int : Reading(u) = u + Modulus * k
  <2>1. CASE u > Half
    BY <1>1, <2>1 DEF Reading
  <2>2. CASE ~(u > Half)
    BY <1>1, <2>2 DEF Reading
  <2> QED BY <2>1, <2>2
<1>3. ASSUME NEW w \in UWord, w > Half <=> u > Half
      PROVE  /\ Reading(u) = Reading(w) <=> u = w
             /\ Reading(u) > Reading(w) <=> u > w
             /\ Reading(u) < Reading(w) <=> u < w
  BY <1>3, ModulusFacts DEF UWord, Reading
<1>4. /\ Reading(u) \in Int /\ u \in Int
      /\ u <= Half => Reading(u) = u
      /\ u > Half => Reading(u) < 0
      /\ Reading(u) = 0 <=> u = 0
  BY ModulusFacts DEF UWord, Reading
<1> QED BY <1>2, <1>3, <1>4

-----------------------------------------------------------------------------
(* The inductive invariant: while nothing has told the machines apart they *)
(* agree, and the words of the unsigned one are words.                     *)

Typed ==
    /\ code \in Programs
    /\ gp \in [U!Registers -> UWord]
    /\ mem \in [U!Addresses -> UWord]
    /\ pc \in Int
    /\ sp \in Int /\ sp >= -1
    /\ output \in Seq({"PRINT", "PRINTD"} \X UWord)

IInv == strayed \in BOOLEAN /\ (~strayed => Typed /\ Agree)

\* Both machines fetch the same instruction, one the assembler produced.
LEMMA SameInstruction ==
    ASSUME Typed, Agree
    PROVE  /\ B!Fetchable <=> U!Fetchable
           /\ B!instr = U!instr
           /\ U!Fetchable => U!Encoded(U!instr) /\ U!instr \in U!Instructions
<1>1. (B!Fetchable <=> U!Fetchable) /\ B!instr = U!instr
  BY DEF Agree, B!Fetchable, U!Fetchable, B!instr, U!instr
<1>2. ASSUME U!Fetchable
      PROVE  U!Encoded(U!instr) /\ U!instr \in U!Instructions
  <2>1. code \in Seq(U!Instructions) /\ \A k \in DOMAIN code : U!Encoded(code[k])
    BY ImagesAssumption DEF Typed
  <2>2. pc + 1 \in DOMAIN code
    BY <1>2, <2>1 DEF U!Fetchable, Typed
  <2> QED BY <2>1, <2>2 DEF U!instr, U!Encoded
<1> QED BY <1>1, <1>2

-----------------------------------------------------------------------------
(* What the two machines do, by the instruction fetched.                   *)

UnsignedStep(op) ==
    /\ op = "LI" => U!LoadImmediate
    /\ op = "MOV" => U!Move
    /\ op = "LD" => U!Load \/ U!MemoryOutOfBounds
    /\ op = "ST" => U!Store \/ U!MemoryOutOfBounds
    /\ op = "LDR" => U!LoadIndirect \/ U!MemoryOutOfBounds
    /\ op = "STR" => U!StoreIndirect \/ U!MemoryOutOfBounds
    /\ op = "ADD" => U!Add
    /\ op = "SUB" => U!Sub
    /\ op = "CMP" => U!Compare
    /\ op = "JMP" => U!Jmp
    /\ op = "JZ" => U!Jz
    /\ op = "JNZ" => U!Jnz
    /\ op = "JG" => U!Jg
    /\ op = "JL" => U!Jl
    /\ op = "JGE" => U!Jge
    /\ op = "JLE" => U!Jle
    /\ op = "CALL" => U!Call \/ U!StackOverflow \/ U!MemoryOutOfBounds
    /\ op = "RET" => U!Ret \/ U!StackUnderflow
    /\ op \in {"PRINT", "PRINTD"} => U!PrintWord(op)
    /\ op = "HALT" => U!Halt
    /\ op = "NOP" => U!Nop
    /\ op \notin U!Opcodes => U!UnknownOpcode

BalancedStep(op) ==
    /\ op = "LI" => B!LoadImmediate
    /\ op = "MOV" => B!Move
    /\ op = "LD" => B!Load \/ B!MemoryOutOfBounds
    /\ op = "ST" => B!Store \/ B!MemoryOutOfBounds
    /\ op = "LDR" => B!LoadIndirect \/ B!MemoryOutOfBounds
    /\ op = "STR" => B!StoreIndirect \/ B!MemoryOutOfBounds
    /\ op = "ADD" => B!Add
    /\ op = "SUB" => B!Sub
    /\ op = "CMP" => B!Compare
    /\ op = "JMP" => B!Jmp
    /\ op = "JZ" => B!Jz
    /\ op = "JNZ" => B!Jnz
    /\ op = "JG" => B!Jg
    /\ op = "JL" => B!Jl
    /\ op = "JGE" => B!Jge
    /\ op = "JLE" => B!Jle
    /\ op = "CALL" => B!Call \/ B!StackOverflow \/ B!MemoryOutOfBounds
    /\ op = "RET" => B!Ret \/ B!StackUnderflow
    /\ op \in {"PRINT", "PRINTD"} => B!PrintWord(op)
    /\ op = "HALT" => B!Halt
    /\ op = "NOP" => B!Nop
    /\ op \notin B!Opcodes => B!UnknownOpcode

LEMMA UnsignedNext ==
    ASSUME U!Next
    PROVE  IF U!Fetchable THEN UnsignedStep(U!instr.op) ELSE U!PcOutOfBounds
  BY DEF UnsignedStep,
      U!LoadImmediate, U!Move, U!Load, U!MemoryOutOfBounds, U!Store,
      U!LoadIndirect, U!StoreIndirect, U!Add, U!Sub, U!Compare, U!Jmp, U!Jz,
      U!Jnz, U!Jg, U!Jl, U!Jge, U!Jle, U!Call, U!StackOverflow, U!Ret,
      U!StackUnderflow, U!PrintWord, U!Halt, U!Nop, U!UnknownOpcode,
      U!PrintBase, U!PrintDecimal, U!Executing, U!Next, U!Opcodes,
      U!FirstIsRegister, U!SecondIsRegister, U!ThirdIsRegister,
      U!PcOutOfBounds, U!Fetchable, U!Branch

LEMMA BalancedNext ==
    ASSUME B!Next
    PROVE  IF B!Fetchable THEN BalancedStep(B!instr.op) ELSE B!PcOutOfBounds
  BY DEF BalancedStep,
      B!LoadImmediate, B!Move, B!Load, B!MemoryOutOfBounds, B!Store,
      B!LoadIndirect, B!StoreIndirect, B!Add, B!Sub, B!Compare, B!Jmp, B!Jz,
      B!Jnz, B!Jg, B!Jl, B!Jge, B!Jle, B!Call, B!StackOverflow, B!Ret,
      B!StackUnderflow, B!PrintWord, B!Halt, B!Nop, B!UnknownOpcode,
      B!PrintBase, B!PrintDecimal, B!Executing, B!Next, B!Opcodes,
      B!FirstIsRegister, B!SecondIsRegister, B!ThirdIsRegister,
      B!PcOutOfBounds, B!Fetchable, B!Branch

-----------------------------------------------------------------------------
(* The parts of the invariant, and what keeps each of them.                *)

DriverAgrees == code \in Programs /\ stepsB = steps /\ outcomeB = outcome

PointersAgree ==
    pc \in Int /\ pcB = pc /\ sp \in Int /\ sp >= -1 /\ spB = sp

FlagsAgree == frB = fr

RegistersAgree ==
    /\ gp \in [U!Registers -> UWord]
    /\ gpB = [r \in U!Registers |-> Reading(gp[r])]

MemoryAgrees ==
    /\ mem \in [U!Addresses -> UWord]
    /\ memB = [x \in U!Addresses |-> Reading(mem[x])]

OutputAgrees ==
    /\ output \in Seq({"PRINT", "PRINTD"} \X UWord)
    /\ outputB = [k \in DOMAIN output |-> <<output[k][1], Reading(output[k][2])>>]

AllAgree ==
    /\ DriverAgrees /\ PointersAgree /\ FlagsAgree
    /\ RegistersAgree /\ MemoryAgrees /\ OutputAgrees

LEMMA Parts == Typed /\ Agree <=> AllAgree
  BY DEF Typed, Agree, AllAgree, DriverAgrees, PointersAgree, FlagsAgree,
         RegistersAgree, MemoryAgrees, OutputAgrees

LEMMA CompletedKeeps ==
    ASSUME AllAgree, U!Completed, B!Completed
    PROVE  DriverAgrees'
  BY DEF AllAgree, DriverAgrees, U!Completed, B!Completed

LEMMA FaultKeeps ==
    ASSUME AllAgree, NEW reason, U!Fault(reason), B!Fault(reason)
    PROVE  DriverAgrees' /\ FlagsAgree' /\ RegistersAgree' /\ OutputAgrees'
           /\ pc' = pc /\ pcB' = pcB
  BY DEF AllAgree, DriverAgrees, FlagsAgree, RegistersAgree, OutputAgrees,
         U!Fault, B!Fault

\* Values that differ by a multiple of the modulus, put into the same register
\* or the same cell.
LEMMA SetKeeps ==
    ASSUME RegistersAgree, NEW r \in U!Registers, NEW v \in Int, NEW k \in Int,
           U!SetRegister(r, v), B!SetRegister(r, v + Modulus * k)
    PROVE  RegistersAgree'
<1> DEFINE u == U!WrapWord(v)
           w == B!WrapWord(v + Modulus * k)
<1>1. u \in UWord /\ w = Reading(u)
  BY WrapAgrees
<1>2. gp' = [gp EXCEPT ![r] = u] /\ gpB' = [gpB EXCEPT ![r] = w]
  BY DEF U!SetRegister, B!SetRegister
<1> HIDE DEF u, w
<1> QED BY <1>1, <1>2 DEF RegistersAgree

LEMMA StoreKeeps ==
    ASSUME MemoryAgrees, NEW x \in U!Addresses, NEW v \in Int, NEW k \in Int,
           U!StoreWord(x, v), B!StoreWord(x, v + Modulus * k)
    PROVE  MemoryAgrees'
<1> DEFINE u == U!WrapWord(v)
           w == B!WrapWord(v + Modulus * k)
<1>1. u \in UWord /\ w = Reading(u)
  BY WrapAgrees
<1>2. mem' = [mem EXCEPT ![x] = u] /\ memB' = [memB EXCEPT ![x] = w]
  BY DEF U!StoreWord, B!StoreWord
<1> HIDE DEF u, w
<1> QED BY <1>1, <1>2 DEF MemoryAgrees

\* A word and its reading, put into the same register or the same cell.
LEMMA SetWordKeeps ==
    ASSUME RegistersAgree, NEW r \in U!Registers, NEW u \in UWord,
           U!SetRegister(r, u), B!SetRegister(r, Reading(u))
    PROVE  RegistersAgree'
  BY ReadingFacts, SetKeeps

LEMMA StoreWordKeeps ==
    ASSUME MemoryAgrees, NEW x \in U!Addresses, NEW u \in UWord,
           U!StoreWord(x, u), B!StoreWord(x, Reading(u))
    PROVE  MemoryAgrees'
  BY ReadingFacts, StoreKeeps

LEMMA PrintKeeps ==
    ASSUME OutputAgrees, NEW op \in {"PRINT", "PRINTD"}, NEW u \in UWord,
           output' = Append(output, <<op, u>>),
           outputB' = Append(outputB, <<op, Reading(u)>>)
    PROVE  OutputAgrees'
<1> DEFINE e == <<op, u>>
           S == {"PRINT", "PRINTD"} \X UWord
<1>1. e \in S /\ output \in Seq(S) /\ Len(output) \in Nat
  BY DEF OutputAgrees
<1>2. output' \in Seq(S) /\ Len(output') = Len(output) + 1
      /\ output'[Len(output) + 1] = e
      /\ \A k \in 1 .. Len(output) : output'[k] = output[k]
  BY <1>1
<1>3. outputB \in Seq({"PRINT", "PRINTD"} \X Int) /\ Len(outputB) = Len(output)
      /\ \A k \in 1 .. Len(output) : outputB[k] = <<output[k][1], Reading(output[k][2])>>
  <2> DEFINE n == Len(output)
             T == {"PRINT", "PRINTD"} \X Int
  <2>1. DOMAIN output = 1 .. n /\ n \in Nat
    BY <1>1
  <2>2. outputB = [k \in 1 .. n |-> <<output[k][1], Reading(output[k][2])>>]
    BY <2>1 DEF OutputAgrees
  <2>3. ASSUME NEW k \in 1 .. n
        PROVE  <<output[k][1], Reading(output[k][2])>> \in T
    <3>1. output[k] \in S
      BY <1>1, <2>1
    <3>2. output[k][1] \in {"PRINT", "PRINTD"} /\ output[k][2] \in UWord
      BY <3>1
    <3> QED BY <3>2, ReadingFacts
  <2> HIDE DEF n, T
  <2>4. outputB \in [1 .. n -> T]
    BY <2>2, <2>3
  <2>5. outputB \in Seq(T) /\ Len(outputB) = n
    BY <2>1, <2>4
  <2> QED BY <2>2, <2>5 DEF n, T
<1>4. outputB' = [k \in 1 .. Len(output) + 1 |->
                    IF k <= Len(output) THEN outputB[k] ELSE <<op, Reading(u)>>]
  BY <1>1, <1>3
<1>5. ASSUME NEW k \in 1 .. Len(output) + 1
      PROVE  outputB'[k] = <<output'[k][1], Reading(output'[k][2])>>
  BY <1>1, <1>2, <1>3, <1>4
<1>6. DOMAIN output' = 1 .. Len(output) + 1
  BY <1>1, <1>2
<1> QED BY <1>2, <1>4, <1>5, <1>6 DEF OutputAgrees

-----------------------------------------------------------------------------
(* A step of both machines, until they are told apart.                     *)

\* What is known of the words and operands when both machines take a step.
Fetched ==
    /\ AllAgree /\ U!Fetchable /\ ~Straying
    /\ B!instr = U!instr
    /\ U!Encoded(U!instr) /\ U!instr \in U!Instructions
    /\ B!Registers = U!Registers /\ B!Addresses = U!Addresses
    /\ \A r \in U!Registers : gp[r] \in UWord /\ gpB[r] = Reading(gp[r])
    /\ \A x \in U!Addresses : mem[x] \in UWord /\ memB[x] = Reading(mem[x])

LEMMA FetchedFacts ==
    ASSUME AllAgree, U!Fetchable, ~Straying
    PROVE  Fetched
<1>1. B!instr = U!instr /\ U!Encoded(U!instr) /\ U!instr \in U!Instructions
  BY Parts, SameInstruction
<1>2. B!Registers = U!Registers /\ B!Addresses = U!Addresses
  BY DEF B!Registers, U!Registers, B!Addresses, U!Addresses
<1>3. \A r \in U!Registers : gp[r] \in UWord /\ gpB[r] = Reading(gp[r])
  BY DEF AllAgree, RegistersAgree
<1>4. \A x \in U!Addresses : mem[x] \in UWord /\ memB[x] = Reading(mem[x])
  BY DEF AllAgree, MemoryAgrees
<1> QED BY <1>1, <1>2, <1>3, <1>4 DEF Fetched

\* An instruction that ends with Advance moves both machines on alike.
LEMMA AdvanceKeeps ==
    ASSUME AllAgree, U!Advance, B!Advance, sp' = sp, spB' = spB
    PROVE  DriverAgrees' /\ PointersAgree'
<1>1. U!Completed /\ B!Completed /\ pc' = pc + 1 /\ pcB' = pcB + 1
  BY DEF U!Advance, B!Advance
<1> QED BY <1>1, CompletedKeeps DEF AllAgree, PointersAgree

\* LI, MOV, LD and LDR: a register is set.
LEMMA SetterKeeps ==
    ASSUME Fetched, U!instr.a \in U!Registers,
           NEW v \in Int, NEW w \in Int,
           (v = w) \/ (v \in UWord /\ w = Reading(v)),
           U!SetRegister(U!instr.a, v), B!SetRegister(U!instr.a, w),
           U!Advance, B!Advance,
           UNCHANGED <<sp, fr, mem, output>>, UNCHANGED <<spB, frB, memB, outputB>>
    PROVE  AllAgree'
<1>1. DriverAgrees' /\ PointersAgree'
  BY AdvanceKeeps DEF Fetched
<1>2. RegistersAgree'
  <2>1. CASE v = w
    <3>1. w = v + Modulus * 0
      BY <2>1, ModulusFacts
    <3> QED BY <3>1, SetKeeps DEF Fetched, AllAgree
  <2>2. CASE v \in UWord /\ w = Reading(v)
    BY <2>2, SetWordKeeps DEF Fetched, AllAgree
  <2> QED BY <2>1, <2>2
<1>3. FlagsAgree' /\ MemoryAgrees' /\ OutputAgrees'
  BY DEF Fetched, AllAgree, FlagsAgree, MemoryAgrees, OutputAgrees
<1> QED BY <1>1, <1>2, <1>3 DEF AllAgree

\* ST and STR: a cell is stored.
LEMMA StorerKeeps ==
    ASSUME Fetched, NEW x \in U!Addresses, NEW u \in UWord,
           U!StoreWord(x, u), B!StoreWord(x, Reading(u)), U!Advance, B!Advance,
           UNCHANGED <<gp, sp, fr, output>>, UNCHANGED <<gpB, spB, frB, outputB>>
    PROVE  AllAgree'
<1>1. DriverAgrees' /\ PointersAgree'
  BY AdvanceKeeps DEF Fetched
<1>2. MemoryAgrees'
  BY StoreWordKeeps DEF Fetched, AllAgree
<1>3. FlagsAgree' /\ RegistersAgree' /\ OutputAgrees'
  BY DEF Fetched, AllAgree, FlagsAgree, RegistersAgree, OutputAgrees
<1> QED BY <1>1, <1>2, <1>3 DEF AllAgree

\* ADD and SUB.
LEMMA ArithmeticKeeps ==
    ASSUME Fetched, U!instr.a \in U!Registers, NEW v \in Int, NEW k \in Int,
           U!Arithmetic(v), B!Arithmetic(v + Modulus * k)
    PROVE  AllAgree'
<1> DEFINE w == v + Modulus * k
<1>1. /\ U!SetRegister(U!instr.a, v) /\ U!SetFlags(U!WrapWord(v) = 0, FALSE, FALSE)
      /\ U!Advance /\ UNCHANGED <<sp, mem, output>>
  BY DEF U!Arithmetic
<1>2. /\ B!SetRegister(U!instr.a, w) /\ B!SetFlags(B!WrapWord(w) = 0, FALSE, FALSE)
      /\ B!Advance /\ UNCHANGED <<spB, memB, outputB>>
  BY DEF B!Arithmetic, Fetched
<1>3. DriverAgrees' /\ PointersAgree'
  BY <1>1, <1>2, AdvanceKeeps DEF Fetched
<1>4. RegistersAgree'
  BY <1>1, <1>2, SetKeeps DEF Fetched, AllAgree
<1>5. FlagsAgree'
  <2>1. B!WrapWord(w) = 0 <=> U!WrapWord(v) = 0
    BY WrapAgrees, ReadingFacts
  <2> HIDE DEF w
  <2> QED BY <1>1, <1>2, <2>1
          DEF FlagsAgree, U!SetFlags, B!SetFlags, U!Flags, B!Flags
<1>6. MemoryAgrees' /\ OutputAgrees'
  BY <1>1, <1>2 DEF Fetched, AllAgree, MemoryAgrees, OutputAgrees
<1> QED BY <1>3, <1>4, <1>5, <1>6 DEF AllAgree

\* Readings of two words, and so their sum and their difference, differ from
\* those of the words by a multiple of the modulus.
LEMMA SumOfReadings ==
    ASSUME NEW u \in UWord, NEW w \in UWord
    PROVE  /\ \E k \in Int : Reading(u) + Reading(w) = (u + w) + Modulus * k
           /\ \E k \in Int : Reading(u) - Reading(w) = (u - w) + Modulus * k
<1>1. PICK j \in Int : Reading(u) = u + Modulus * j
  BY ReadingFacts
<1>2. PICK l \in Int : Reading(w) = w + Modulus * l
  BY ReadingFacts
<1>3. /\ Modulus * (j + l) = Modulus * j + Modulus * l
      /\ Modulus * (j - l) = Modulus * j - Modulus * l
      /\ Modulus * j \in Int /\ Modulus * l \in Int
  BY ModulusFacts
<1>4. u \in Int /\ w \in Int /\ j + l \in Int /\ j - l \in Int
  BY DEF UWord
<1>5. Reading(u) + Reading(w) = (u + w) + Modulus * (j + l)
  BY <1>1, <1>2, <1>3, <1>4
<1>6. Reading(u) - Reading(w) = (u - w) + Modulus * (j - l)
  BY <1>1, <1>2, <1>3, <1>4
<1> QED BY <1>4, <1>5, <1>6

\* Branches: the flags are the same, so both are taken or neither is.
LEMMA BranchKeeps ==
    ASSUME Fetched, NEW op, NEW taken \in BOOLEAN,
           U!Branch(op, taken), B!Branch(op, taken)
    PROVE  AllAgree'
<1>1. /\ pc' = IF taken THEN U!instr.a ELSE pc + 1
      /\ U!Completed /\ UNCHANGED <<gp, sp, fr, mem, output>>
  BY DEF U!Branch
<1>2. /\ pcB' = IF taken THEN U!instr.a ELSE pcB + 1
      /\ B!Completed /\ UNCHANGED <<gpB, spB, frB, memB, outputB>>
  BY DEF B!Branch, Fetched
<1>3. U!instr.a \in Int
  BY DEF Fetched, U!Instructions
<1>4. DriverAgrees'
  BY <1>1, <1>2, CompletedKeeps DEF Fetched
<1>5. PointersAgree'
  BY <1>1, <1>2, <1>3 DEF Fetched, AllAgree, PointersAgree
<1>6. FlagsAgree' /\ RegistersAgree' /\ MemoryAgrees' /\ OutputAgrees'
  BY <1>1, <1>2 DEF Fetched, AllAgree, FlagsAgree, RegistersAgree, MemoryAgrees,
                    OutputAgrees
<1> QED BY <1>4, <1>5, <1>6 DEF AllAgree

\* CMP: words on the same side of the middle compare as their readings do.
LEMMA CompareKeeps ==
    ASSUME Fetched, U!instr.op = "CMP", U!Compare, B!Compare
    PROVE  AllAgree'
<1> DEFINE x == gp[U!instr.a]
           y == gp[U!instr.b]
<1>1. x \in UWord /\ y \in UWord
      /\ gpB[U!instr.a] = Reading(x) /\ gpB[U!instr.b] = Reading(y)
  BY DEF Fetched, U!Encoded, U!FirstIsRegister, U!SecondIsRegister
<1>2. x > Half <=> y > Half
  BY DEF Fetched, Straying
<1>3. /\ Reading(x) = Reading(y) <=> x = y
      /\ Reading(x) > Reading(y) <=> x > y
      /\ Reading(x) < Reading(y) <=> x < y
  BY <1>1, <1>2, ReadingFacts
<1>4. /\ U!SetFlags(x = y, x > y, x < y)
      /\ U!Advance /\ UNCHANGED <<gp, sp, mem, output>>
  BY DEF U!Compare
<1>5. /\ B!SetFlags(Reading(x) = Reading(y), Reading(x) > Reading(y), Reading(x) < Reading(y))
      /\ B!Advance /\ UNCHANGED <<gpB, spB, memB, outputB>>
  BY <1>1 DEF B!Compare, Fetched
<1> HIDE DEF x, y
<1>6. FlagsAgree'
  BY <1>3, <1>4, <1>5 DEF FlagsAgree, U!SetFlags, B!SetFlags, U!Flags, B!Flags
<1>7. DriverAgrees' /\ PointersAgree'
  BY <1>4, <1>5, AdvanceKeeps DEF Fetched
<1>8. RegistersAgree' /\ MemoryAgrees' /\ OutputAgrees'
  BY <1>4, <1>5 DEF Fetched, AllAgree, RegistersAgree, MemoryAgrees, OutputAgrees
<1> QED BY <1>6, <1>7, <1>8 DEF AllAgree

\* The return address CALL stores is the same number for both.
LEMMA PushKeeps ==
    ASSUME Fetched, sp \in U!Addresses, U!PushReturnAddress, B!PushReturnAddress
    PROVE  MemoryAgrees' /\ sp' = sp - 1 /\ spB' = sp - 1 /\ sp \in Nat
<1>1. spB = sp /\ pcB = pc /\ pc \in Int /\ sp \in Nat
  BY ImagesAssumption DEF Fetched, AllAgree, PointersAgree, U!Addresses
<1>2. pc + 1 \in Int /\ pc + 1 = (pc + 1) + Modulus * 0
  BY <1>1, ModulusFacts
<1>3. U!StoreWord(sp, pc + 1) /\ B!StoreWord(sp, (pc + 1) + Modulus * 0)
  BY <1>1, <1>2 DEF U!PushReturnAddress, B!PushReturnAddress
<1>4. MemoryAgrees'
  BY <1>2, <1>3, StoreKeeps DEF Fetched, AllAgree
<1> QED BY <1>1, <1>4 DEF U!PushReturnAddress, B!PushReturnAddress

LEMMA CallKeeps ==
    ASSUME Fetched, U!Call, B!Call
    PROVE  AllAgree'
<1>1. /\ sp \in U!Addresses /\ U!PushReturnAddress /\ pc' = U!instr.a
      /\ U!Completed /\ UNCHANGED <<gp, fr, output>>
  BY DEF U!Call
<1>2. /\ B!PushReturnAddress /\ pcB' = U!instr.a
      /\ B!Completed /\ UNCHANGED <<gpB, frB, outputB>>
  BY DEF B!Call, Fetched
<1>3. MemoryAgrees' /\ sp' = sp - 1 /\ spB' = sp - 1 /\ sp \in Nat
  BY <1>1, <1>2, PushKeeps
<1>4. U!instr.a \in Int
  BY DEF Fetched, U!Instructions
<1>5. PointersAgree'
  BY <1>1, <1>2, <1>3, <1>4 DEF PointersAgree
<1>6. DriverAgrees'
  BY <1>1, <1>2, CompletedKeeps DEF Fetched
<1>7. FlagsAgree' /\ RegistersAgree' /\ OutputAgrees'
  BY <1>1, <1>2 DEF Fetched, AllAgree, FlagsAgree, RegistersAgree, OutputAgrees
<1> QED BY <1>3, <1>5, <1>6, <1>7 DEF AllAgree

LEMMA OverflowKeeps ==
    ASSUME Fetched, U!StackOverflow, B!StackOverflow
    PROVE  AllAgree'
<1>1. sp \in U!Addresses /\ U!PushReturnAddress /\ B!PushReturnAddress
  BY DEF U!StackOverflow, B!StackOverflow
<1>2. U!Fault("stack overflow") /\ B!Fault("stack overflow")
  BY DEF U!StackOverflow, B!StackOverflow
<1>3. MemoryAgrees' /\ sp' = sp - 1 /\ spB' = sp - 1 /\ sp \in Nat
  BY <1>1, PushKeeps
<1>4. DriverAgrees' /\ FlagsAgree' /\ RegistersAgree' /\ OutputAgrees'
      /\ pc' = pc /\ pcB' = pcB
  BY <1>2, FaultKeeps DEF Fetched
<1>5. PointersAgree'
  BY <1>3, <1>4 DEF Fetched, AllAgree, PointersAgree
<1> QED BY <1>3, <1>4, <1>5 DEF AllAgree

\* A return address that is not above the middle is the same number for both.
LEMMA ReturnKeeps ==
    ASSUME Fetched, U!instr.op = "RET", U!Ret, B!Ret
    PROVE  AllAgree'
<1>1. spB = sp /\ sp \in Int /\ sp >= -1
  BY DEF Fetched, AllAgree, PointersAgree
<1>2. /\ sp + 1 < MemorySize /\ sp' = sp + 1 /\ pc' = mem[sp + 1]
      /\ U!Completed /\ UNCHANGED <<gp, fr, mem, output>>
  BY DEF U!Ret
<1>3. /\ spB' = sp + 1 /\ pcB' = memB[sp + 1]
      /\ B!Completed /\ UNCHANGED <<gpB, frB, memB, outputB>>
  BY <1>1 DEF B!Ret
<1>4. sp + 1 \in U!Addresses
  BY <1>1, <1>2, ImagesAssumption DEF U!Addresses
<1>5. mem[sp + 1] \in UWord /\ memB[sp + 1] = Reading(mem[sp + 1])
  BY <1>4 DEF Fetched
<1>6. ~(mem[sp + 1] > Half)
  BY <1>2 DEF Fetched, Straying
<1>7. memB[sp + 1] = mem[sp + 1] /\ mem[sp + 1] \in Int
  BY <1>5, <1>6 DEF Reading, UWord
<1>8. PointersAgree'
  BY <1>1, <1>2, <1>3, <1>7 DEF PointersAgree
<1>9. DriverAgrees'
  BY <1>2, <1>3, CompletedKeeps DEF Fetched
<1>10. FlagsAgree' /\ RegistersAgree' /\ MemoryAgrees' /\ OutputAgrees'
  BY <1>2, <1>3 DEF Fetched, AllAgree, FlagsAgree, RegistersAgree, MemoryAgrees,
                    OutputAgrees
<1> QED BY <1>8, <1>9, <1>10 DEF AllAgree

LEMMA UnderflowKeeps ==
    ASSUME Fetched, U!StackUnderflow, B!StackUnderflow
    PROVE  AllAgree'
<1>1. U!Fault("stack underflow") /\ sp' = sp + 1 /\ mem' = mem
  BY DEF U!StackUnderflow
<1>2. B!Fault("stack underflow") /\ spB' = spB + 1 /\ memB' = memB
  BY DEF B!StackUnderflow
<1>3. DriverAgrees' /\ FlagsAgree' /\ RegistersAgree' /\ OutputAgrees'
      /\ pc' = pc /\ pcB' = pcB
  BY <1>1, <1>2, FaultKeeps DEF Fetched
<1>4. PointersAgree /\ MemoryAgrees
  BY DEF Fetched, AllAgree
<1>5. PointersAgree'
  <2>1. sp' = sp + 1 /\ spB' = spB + 1 /\ pc' = pc /\ pcB' = pcB
    BY <1>1, <1>2, <1>3
  <2>2. pc \in Int /\ pcB = pc /\ sp \in Int /\ sp >= -1 /\ spB = sp
    BY <1>4 DEF PointersAgree
  <2> QED BY <2>1, <2>2 DEF PointersAgree
<1>6. MemoryAgrees'
  BY <1>1, <1>2, <1>4 DEF MemoryAgrees
<1> QED BY <1>3, <1>5, <1>6 DEF AllAgree

\* The faults that leave both pointers and memory alone.
LEMMA OtherFaultsKeep ==
    ASSUME AllAgree, NEW reason, U!Fault(reason), B!Fault(reason),
           UNCHANGED <<sp, mem>>, UNCHANGED <<spB, memB>>
    PROVE  AllAgree'
<1>1. DriverAgrees' /\ FlagsAgree' /\ RegistersAgree' /\ OutputAgrees'
      /\ pc' = pc /\ pcB' = pcB
  BY FaultKeeps
<1>2. PointersAgree' /\ MemoryAgrees'
  BY <1>1 DEF AllAgree, PointersAgree, MemoryAgrees
<1> QED BY <1>1, <1>2 DEF AllAgree

\* PRINT and PRINTD.
LEMMA PrinterKeeps ==
    ASSUME Fetched, NEW op \in {"PRINT", "PRINTD"}, U!instr.op = op,
           U!PrintWord(op), B!PrintWord(op)
    PROVE  AllAgree'
<1>1. gp[U!instr.a] \in UWord /\ gpB[U!instr.a] = Reading(gp[U!instr.a])
  BY DEF Fetched, U!Encoded, U!FirstIsRegister
<1>2. /\ output' = Append(output, <<op, gp[U!instr.a]>>)
      /\ U!Advance /\ UNCHANGED <<gp, sp, fr, mem>>
  BY DEF U!PrintWord
<1>3. /\ outputB' = Append(outputB, <<op, Reading(gp[U!instr.a])>>)
      /\ B!Advance /\ UNCHANGED <<gpB, spB, frB, memB>>
  BY <1>1 DEF B!PrintWord, Fetched
<1>4. OutputAgrees'
  BY <1>1, <1>2, <1>3, PrintKeeps DEF Fetched, AllAgree
<1>5. DriverAgrees' /\ PointersAgree'
  BY <1>2, <1>3, AdvanceKeeps DEF Fetched
<1>6. FlagsAgree' /\ RegistersAgree' /\ MemoryAgrees'
  BY <1>2, <1>3 DEF Fetched, AllAgree, FlagsAgree, RegistersAgree, MemoryAgrees
<1> QED BY <1>4, <1>5, <1>6 DEF AllAgree

LEMMA NopKeeps ==
    ASSUME Fetched, U!Nop, B!Nop
    PROVE  AllAgree'
<1>1. U!Advance /\ UNCHANGED <<gp, sp, fr, mem, output>>
  BY DEF U!Nop
<1>2. B!Advance /\ UNCHANGED <<gpB, spB, frB, memB, outputB>>
  BY DEF B!Nop
<1>3. DriverAgrees' /\ PointersAgree'
  BY <1>1, <1>2, AdvanceKeeps DEF Fetched
<1>4. FlagsAgree' /\ RegistersAgree' /\ MemoryAgrees' /\ OutputAgrees'
  BY <1>1, <1>2 DEF Fetched, AllAgree, FlagsAgree, RegistersAgree, MemoryAgrees,
                    OutputAgrees
<1> QED BY <1>3, <1>4 DEF AllAgree

LEMMA HaltKeeps ==
    ASSUME Fetched, U!Halt, B!Halt
    PROVE  AllAgree'
<1>1. DriverAgrees' /\ PointersAgree'
  BY DEF Fetched, AllAgree, DriverAgrees, PointersAgree, U!Halt, B!Halt
<1>2. FlagsAgree' /\ RegistersAgree' /\ MemoryAgrees' /\ OutputAgrees'
  BY DEF Fetched, AllAgree, FlagsAgree, RegistersAgree, MemoryAgrees, OutputAgrees,
         U!Halt, B!Halt
<1> QED BY <1>1, <1>2 DEF AllAgree

-----------------------------------------------------------------------------
(* The theorem.                                                            *)

\* Instructions that touch memory at an operand: both machines reach the same
\* cell, or both fail.
LEMMA SameOperand ==
    ASSUME Fetched, U!instr.op \in {"LDR", "STR"}
    PROVE  LET u == gp[U!instr.b]
           IN  /\ u \in UWord /\ gpB[U!instr.b] = Reading(u)
               /\ (Reading(u) \in U!Addresses <=> u \in U!Addresses)
               /\ (u \in U!Addresses => Reading(u) = u)
<1> DEFINE u == gp[U!instr.b]
<1>1. u \in UWord /\ gpB[U!instr.b] = Reading(u)
  BY DEF Fetched, U!Encoded, U!SecondIsRegister
<1>2. ~(u > Half /\ u < MemorySize)
  BY DEF Fetched, Straying
<1>3. MemorySize \in Nat
  BY ImagesAssumption
<1> HIDE DEF u
<1>4. CASE u > Half
  <2>1. Reading(u) < 0 /\ ~(u < MemorySize) /\ Reading(u) \in Int /\ u \in Int
    BY <1>1, <1>2, <1>4, ReadingFacts
  <2> QED BY <1>1, <1>3, <2>1 DEF U!Addresses, u
<1>5. CASE ~(u > Half)
  <2>1. Reading(u) = u
    BY <1>5 DEF Reading
  <2> QED BY <1>1, <2>1 DEF u
<1> QED BY <1>4, <1>5

\* Whatever both fetch, they agree after it unless it tells them apart.
LEMMA StepKeeps ==
    ASSUME AllAgree, ~Straying, U!Next, B!Next
    PROVE  AllAgree'
<1>1. CASE ~U!Fetchable
  <2>1. ~B!Fetchable
    BY <1>1, Parts, SameInstruction
  <2>2. U!PcOutOfBounds /\ B!PcOutOfBounds
    BY <1>1, <2>1, UnsignedNext, BalancedNext
  <2>3. /\ U!Fault("pc out of bounds") /\ UNCHANGED <<sp, mem>>
        /\ B!Fault("pc out of bounds") /\ UNCHANGED <<spB, memB>>
    BY <2>2 DEF U!PcOutOfBounds, B!PcOutOfBounds
  <2> QED BY <2>3, OtherFaultsKeep
<1>2. CASE U!Fetchable
  <2> DEFINE op == U!instr.op
             a  == U!instr.a
             b  == U!instr.b
             c  == U!instr.c
  <2>1. Fetched
    BY <1>2, FetchedFacts
  <2>2. UnsignedStep(op) /\ BalancedStep(op)
    <3>1. B!Fetchable /\ B!instr = U!instr
      BY <1>2, Parts, SameInstruction
    <3> QED BY <1>2, <3>1, UnsignedNext, BalancedNext
  <2>3. /\ op \in U!FirstIsRegister => a \in U!Registers
        /\ op \in U!SecondIsRegister => b \in U!Registers
        /\ op \in U!ThirdIsRegister => c \in U!Registers
        /\ b \in Int
    BY <2>1 DEF Fetched, U!Encoded, U!Instructions
  <2>4. \A r \in U!Registers : gp[r] \in UWord /\ gp[r] \in Int
                               /\ gpB[r] = Reading(gp[r]) /\ gpB[r] \in Int
    BY <2>1, ReadingFacts DEF Fetched
  <2>5. \A x \in U!Addresses : mem[x] \in UWord /\ mem[x] \in Int
                               /\ memB[x] = Reading(mem[x]) /\ memB[x] \in Int
    BY <2>1, ReadingFacts DEF Fetched
  <2>6. B!instr = U!instr /\ B!Addresses = U!Addresses
    BY <2>1 DEF Fetched
  <2>7. CASE op = "LI"
    <3>1. U!LoadImmediate /\ B!LoadImmediate
      BY <2>2, <2>7 DEF UnsignedStep, BalancedStep
    <3>2. a \in U!Registers
      BY <2>3, <2>7 DEF U!FirstIsRegister
    <3> QED BY <2>1, <2>3, <2>6, <3>1, <3>2, SetterKeeps
            DEF U!LoadImmediate, B!LoadImmediate
  <2>8. CASE op = "MOV"
    <3>1. U!Move /\ B!Move
      BY <2>2, <2>8 DEF UnsignedStep, BalancedStep
    <3>2. a \in U!Registers /\ b \in U!Registers
      BY <2>3, <2>8 DEF U!FirstIsRegister, U!SecondIsRegister
    <3> QED BY <2>1, <2>4, <2>6, <3>1, <3>2, SetterKeeps DEF U!Move, B!Move
  <2>9. CASE op = "LD"
    <3>1. (U!Load \/ U!MemoryOutOfBounds) /\ (B!Load \/ B!MemoryOutOfBounds)
      BY <2>2, <2>9 DEF UnsignedStep, BalancedStep
    <3>2. a \in U!Registers
      BY <2>3, <2>9 DEF U!FirstIsRegister
    <3>3. U!Operand = b /\ B!Operand = b
      BY <2>6, <2>9 DEF U!Operand, B!Operand
    <3>4. CASE b \in U!Addresses
      <4>1. U!Load /\ B!Load
        BY <2>6, <3>1, <3>3, <3>4 DEF U!MemoryOutOfBounds, B!MemoryOutOfBounds
      <4> QED BY <2>1, <2>5, <2>6, <3>2, <3>4, <4>1, SetterKeeps DEF U!Load, B!Load
    <3>5. CASE b \notin U!Addresses
      <4>1. U!MemoryOutOfBounds /\ B!MemoryOutOfBounds
        BY <2>6, <3>1, <3>5 DEF U!Load, B!Load
      <4> QED BY <2>1, <4>1, OtherFaultsKeep
              DEF U!MemoryOutOfBounds, B!MemoryOutOfBounds, Fetched
    <3> QED BY <3>4, <3>5
  <2>10. CASE op = "ST"
    <3>1. (U!Store \/ U!MemoryOutOfBounds) /\ (B!Store \/ B!MemoryOutOfBounds)
      BY <2>2, <2>10 DEF UnsignedStep, BalancedStep
    <3>2. a \in U!Registers
      BY <2>3, <2>10 DEF U!FirstIsRegister
    <3>3. U!Operand = b /\ B!Operand = b
      BY <2>6, <2>10 DEF U!Operand, B!Operand
    <3>4. CASE b \in U!Addresses
      <4>1. U!Store /\ B!Store
        BY <2>6, <3>1, <3>3, <3>4 DEF U!MemoryOutOfBounds, B!MemoryOutOfBounds
      <4> QED BY <2>1, <2>4, <2>6, <3>2, <3>4, <4>1, StorerKeeps DEF U!Store, B!Store
    <3>5. CASE b \notin U!Addresses
      <4>1. U!MemoryOutOfBounds /\ B!MemoryOutOfBounds
        BY <2>6, <3>1, <3>5 DEF U!Store, B!Store
      <4> QED BY <2>1, <4>1, OtherFaultsKeep
              DEF U!MemoryOutOfBounds, B!MemoryOutOfBounds, Fetched
    <3> QED BY <3>4, <3>5
  <2>11. CASE op = "LDR"
    <3> DEFINE x == gp[b]
    <3>1. (U!LoadIndirect \/ U!MemoryOutOfBounds)
          /\ (B!LoadIndirect \/ B!MemoryOutOfBounds)
      BY <2>2, <2>11 DEF UnsignedStep, BalancedStep
    <3>2. a \in U!Registers
      BY <2>3, <2>11 DEF U!FirstIsRegister
    <3>3. /\ gpB[b] = Reading(x)
          /\ Reading(x) \in U!Addresses <=> x \in U!Addresses
          /\ x \in U!Addresses => gpB[b] = x
      BY <2>1, <2>11, SameOperand
    <3>4. U!Operand = x /\ B!Operand = gpB[b]
      BY <2>6, <2>11 DEF U!Operand, B!Operand
    <3>5. CASE x \in U!Addresses
      <4>1. U!LoadIndirect /\ B!LoadIndirect
        BY <2>6, <3>1, <3>3, <3>4, <3>5 DEF U!MemoryOutOfBounds, B!MemoryOutOfBounds
      <4> QED BY <2>1, <2>5, <2>6, <3>2, <3>3, <3>5, <4>1, SetterKeeps
              DEF U!LoadIndirect, B!LoadIndirect
    <3>6. CASE x \notin U!Addresses
      <4>1. U!MemoryOutOfBounds /\ B!MemoryOutOfBounds
        BY <2>6, <3>1, <3>3, <3>6 DEF U!LoadIndirect, B!LoadIndirect
      <4> QED BY <2>1, <4>1, OtherFaultsKeep
              DEF U!MemoryOutOfBounds, B!MemoryOutOfBounds, Fetched
    <3> QED BY <3>5, <3>6
  <2>12. CASE op = "STR"
    <3> DEFINE x == gp[b]
    <3>1. (U!StoreIndirect \/ U!MemoryOutOfBounds)
          /\ (B!StoreIndirect \/ B!MemoryOutOfBounds)
      BY <2>2, <2>12 DEF UnsignedStep, BalancedStep
    <3>2. a \in U!Registers
      BY <2>3, <2>12 DEF U!FirstIsRegister
    <3>3. /\ gpB[b] = Reading(x)
          /\ Reading(x) \in U!Addresses <=> x \in U!Addresses
          /\ x \in U!Addresses => gpB[b] = x
      BY <2>1, <2>12, SameOperand
    <3>4. U!Operand = x /\ B!Operand = gpB[b]
      BY <2>6, <2>12 DEF U!Operand, B!Operand
    <3>5. CASE x \in U!Addresses
      <4>1. U!StoreIndirect /\ B!StoreIndirect
        BY <2>6, <3>1, <3>3, <3>4, <3>5 DEF U!MemoryOutOfBounds, B!MemoryOutOfBounds
      <4> QED BY <2>1, <2>4, <2>6, <3>2, <3>3, <3>5, <4>1, StorerKeeps
              DEF U!StoreIndirect, B!StoreIndirect
    <3>6. CASE x \notin U!Addresses
      <4>1. U!MemoryOutOfBounds /\ B!MemoryOutOfBounds
        BY <2>6, <3>1, <3>3, <3>6 DEF U!StoreIndirect, B!StoreIndirect
      <4> QED BY <2>1, <4>1, OtherFaultsKeep
              DEF U!MemoryOutOfBounds, B!MemoryOutOfBounds, Fetched
    <3> QED BY <3>5, <3>6
  <2>13. CASE op \in {"ADD", "SUB"}
    <3>1. a \in U!Registers /\ b \in U!Registers /\ c \in U!Registers
      BY <2>3, <2>13 DEF U!FirstIsRegister, U!SecondIsRegister, U!ThirdIsRegister
    <3>2. /\ \E k \in Int : gpB[b] + gpB[c] = (gp[b] + gp[c]) + Modulus * k
          /\ \E k \in Int : gpB[b] - gpB[c] = (gp[b] - gp[c]) + Modulus * k
      BY <2>4, <3>1, SumOfReadings
    <3>3. gp[b] + gp[c] \in Int /\ gp[b] - gp[c] \in Int
      BY <2>4, <3>1
    <3>4. CASE op = "ADD"
      <4>1. U!Add /\ B!Add
        BY <2>2, <3>4 DEF UnsignedStep, BalancedStep
      <4>2. U!Arithmetic(gp[b] + gp[c]) /\ B!Arithmetic(gpB[b] + gpB[c])
        BY <2>6, <4>1 DEF U!Add, B!Add
      <4> QED BY <2>1, <3>1, <3>2, <3>3, <4>2, ArithmeticKeeps
    <3>5. CASE op = "SUB"
      <4>1. U!Sub /\ B!Sub
        BY <2>2, <3>5 DEF UnsignedStep, BalancedStep
      <4>2. U!Arithmetic(gp[b] - gp[c]) /\ B!Arithmetic(gpB[b] - gpB[c])
        BY <2>6, <4>1 DEF U!Sub, B!Sub
      <4> QED BY <2>1, <3>1, <3>2, <3>3, <4>2, ArithmeticKeeps
    <3> QED BY <2>13, <3>4, <3>5
  <2>14. CASE op = "CMP"
    <3>1. U!Compare /\ B!Compare
      BY <2>2, <2>14 DEF UnsignedStep, BalancedStep
    <3> QED BY <2>1, <2>14, <3>1, CompareKeeps
  <2>15. CASE op \in {"JMP", "JZ", "JNZ", "JG", "JL", "JGE", "JLE"}
    <3> DEFINE taken == \/ op = "JMP"
                        \/ op = "JZ" /\ "Z" \in fr
                        \/ op = "JNZ" /\ "Z" \notin fr
                        \/ op = "JG" /\ "G" \in fr
                        \/ op = "JL" /\ "L" \in fr
                        \/ op = "JGE" /\ ("G" \in fr \/ "Z" \in fr)
                        \/ op = "JLE" /\ ("L" \in fr \/ "Z" \in fr)
    <3>1. frB = fr
      BY DEF AllAgree, FlagsAgree
    <3>2. /\ op = "JMP" => U!Jmp /\ B!Jmp
          /\ op = "JZ" => U!Jz /\ B!Jz
          /\ op = "JNZ" => U!Jnz /\ B!Jnz
          /\ op = "JG" => U!Jg /\ B!Jg
          /\ op = "JL" => U!Jl /\ B!Jl
          /\ op = "JGE" => U!Jge /\ B!Jge
          /\ op = "JLE" => U!Jle /\ B!Jle
      BY <2>2 DEF UnsignedStep, BalancedStep
    <3>3. taken \in BOOLEAN
      OBVIOUS
    <3>4. U!Branch(op, taken)
      BY <2>15, <3>2 DEF U!Jmp, U!Jz, U!Jnz, U!Jg, U!Jl, U!Jge, U!Jle,
                         U!Branch, U!Executing
    <3>5. B!Branch(op, taken)
      BY <2>6, <2>15, <3>1, <3>2 DEF B!Jmp, B!Jz, B!Jnz, B!Jg, B!Jl, B!Jge, B!Jle,
                               B!Branch, B!Executing
    <3> HIDE DEF taken
    <3> QED BY <2>1, <3>3, <3>4, <3>5, BranchKeeps
  <2>16. CASE op = "CALL"
    <3>1. /\ U!Call \/ U!StackOverflow \/ U!MemoryOutOfBounds
          /\ B!Call \/ B!StackOverflow \/ B!MemoryOutOfBounds
      BY <2>2, <2>16 DEF UnsignedStep, BalancedStep
    <3>2. spB = sp
      BY DEF AllAgree, PointersAgree
    <3>3. U!Operand = sp /\ B!Operand = sp
      BY <2>6, <2>16, <3>2 DEF U!Operand, B!Operand
    <3>4. \/ U!Call /\ B!Call
          \/ U!StackOverflow /\ B!StackOverflow
          \/ U!MemoryOutOfBounds /\ B!MemoryOutOfBounds
      <4>1. CASE sp \notin U!Addresses
        BY <2>6, <3>1, <3>2, <4>1 DEF U!Call, B!Call, U!StackOverflow, B!StackOverflow
      <4>2. CASE sp \in U!Addresses
        <5>1. ~U!MemoryOutOfBounds /\ ~B!MemoryOutOfBounds
          BY <2>6, <3>3, <4>2 DEF U!MemoryOutOfBounds, B!MemoryOutOfBounds
        <5>2. sp \in Int
          BY DEF AllAgree, PointersAgree
        <5>3. /\ U!Call => sp - 1 >= 0
              /\ U!StackOverflow => sp - 1 < 0
          BY DEF U!Call, U!StackOverflow
        <5>4. /\ B!Call => spB - 1 >= 0
              /\ B!StackOverflow => spB - 1 < 0
          BY DEF B!Call, B!StackOverflow
        <5>5. ~(sp - 1 >= 0 /\ sp - 1 < 0)
          BY <5>2
        <5> QED BY <3>1, <3>2, <5>1, <5>3, <5>4, <5>5
      <4> QED BY <4>1, <4>2
    <3>5. CASE U!MemoryOutOfBounds /\ B!MemoryOutOfBounds
      BY <3>5, OtherFaultsKeep DEF U!MemoryOutOfBounds, B!MemoryOutOfBounds
    <3> QED BY <2>1, <3>4, <3>5, CallKeeps, OverflowKeeps
  <2>17. CASE op = "RET"
    <3>1. (U!Ret \/ U!StackUnderflow) /\ (B!Ret \/ B!StackUnderflow)
      BY <2>2, <2>17 DEF UnsignedStep, BalancedStep
    <3>2. spB = sp /\ sp \in Int /\ MemorySize \in Nat
      BY ImagesAssumption DEF AllAgree, PointersAgree
    <3>3. (U!Ret /\ B!Ret) \/ (U!StackUnderflow /\ B!StackUnderflow)
      <4>1. /\ U!Ret => sp + 1 < MemorySize
            /\ U!StackUnderflow => sp + 1 >= MemorySize
        BY DEF U!Ret, U!StackUnderflow
      <4>2. /\ B!Ret => spB + 1 < MemorySize
            /\ B!StackUnderflow => spB + 1 >= MemorySize
        BY DEF B!Ret, B!StackUnderflow
      <4>3. ~(sp + 1 < MemorySize /\ sp + 1 >= MemorySize)
        BY <3>2
      <4> QED BY <3>1, <3>2, <4>1, <4>2, <4>3
    <3> QED BY <2>1, <2>17, <3>3, ReturnKeeps, UnderflowKeeps
  <2>18. CASE op \in {"PRINT", "PRINTD"}
    <3>1. U!PrintWord(op) /\ B!PrintWord(op)
      BY <2>2, <2>18 DEF UnsignedStep, BalancedStep
    <3> QED BY <2>1, <2>18, <3>1, PrinterKeeps
  <2>19. CASE op = "HALT"
    BY <2>1, <2>2, <2>19, HaltKeeps DEF UnsignedStep, BalancedStep
  <2>20. CASE op = "NOP"
    BY <2>1, <2>2, <2>20, NopKeeps DEF UnsignedStep, BalancedStep
  <2>21. CASE op \notin U!Opcodes
    <3>1. op \notin B!Opcodes
      BY <2>21 DEF U!Opcodes, B!Opcodes, U!FirstIsRegister, B!FirstIsRegister
    <3>2. U!UnknownOpcode /\ B!UnknownOpcode
      BY <2>2, <2>21, <3>1 DEF UnsignedStep, BalancedStep
    <3> QED BY <3>2, OtherFaultsKeep DEF U!UnknownOpcode, B!UnknownOpcode
  <2> QED BY <2>7, <2>8, <2>9, <2>10, <2>11, <2>12, <2>13, <2>14, <2>15, <2>16,
             <2>17, <2>18, <2>19, <2>20, <2>21 DEF U!Opcodes, U!FirstIsRegister
<1> QED BY <1>1, <1>2

\* Only a running machine takes a step.
LEMMA StepsWhileRunning ==
    /\ U!Next => outcome = "running"
    /\ B!Next => outcomeB = "running"
<1>1. U!Next => outcome = "running"
  BY UnsignedNext DEF U!Fetchable, U!PcOutOfBounds
<1>2. B!Next => outcomeB = "running"
  BY BalancedNext DEF B!Fetchable, B!PcOutOfBounds
<1> QED BY <1>1, <1>2

LEMMA InitAgrees == Init => IInv
<1> SUFFICES ASSUME Init PROVE Typed /\ Agree /\ strayed \in BOOLEAN
  BY DEF IInv
<1>1. 0 \in UWord /\ Reading(0) = 0
  BY ModulusFacts DEF UWord, Reading
<1>2. U!Init /\ B!Init /\ strayed = FALSE
  BY DEF Init
<1>3. code \in Programs /\ U!Reset /\ B!Reset
  BY <1>2 DEF U!Init, B!Init
<1>4. DriverAgrees /\ FlagsAgree
  BY <1>3 DEF DriverAgrees, FlagsAgree, U!Reset, B!Reset
<1>5. PointersAgree
  BY <1>3, ImagesAssumption DEF PointersAgree, U!Reset, B!Reset
<1>6. RegistersAgree
  BY <1>1, <1>3 DEF RegistersAgree, U!Reset, B!Reset, U!Registers, B!Registers
<1>7. MemoryAgrees
  BY <1>1, <1>3 DEF MemoryAgrees, U!Reset, B!Reset, U!Addresses, B!Addresses
<1>8. OutputAgrees
  BY <1>3 DEF OutputAgrees, U!Reset, B!Reset
<1> QED BY <1>2, <1>4, <1>5, <1>6, <1>7, <1>8, Parts DEF AllAgree

LEMMA NextAgrees == IInv /\ [Next]_vars => IInv'
<1> SUFFICES ASSUME IInv, [Next]_vars PROVE IInv'
  OBVIOUS
<1>1. CASE Both
  <2>1. U!Next /\ B!Next /\ strayed' = (strayed \/ Straying)
    BY <1>1 DEF Both
  <2>2. CASE strayed \/ Straying
    <3>1. strayed' = TRUE
      BY <2>1, <2>2 DEF IInv
    <3> QED BY <3>1 DEF IInv
  <2>3. CASE ~strayed /\ ~Straying
    <3>1. AllAgree'
      BY <2>1, <2>3, Parts, StepKeeps DEF IInv
    <3>2. strayed' = FALSE
      BY <2>1, <2>3
    <3>3. Typed' /\ Agree'
      BY <3>1 DEF Typed, Agree, AllAgree, DriverAgrees, PointersAgree, FlagsAgree,
                  RegistersAgree, MemoryAgrees, OutputAgrees
    <3> QED BY <3>2, <3>3 DEF IInv
  <2> QED BY <2>2, <2>3
<1>2. CASE UnsignedAlone
  <2>1. outcomeB # outcome /\ strayed' = strayed
    BY <1>2, StepsWhileRunning DEF UnsignedAlone
  <2> QED BY <2>1 DEF IInv, Agree
<1>3. CASE BalancedAlone
  <2>1. outcomeB # outcome /\ strayed' = strayed
    BY <1>3, StepsWhileRunning DEF BalancedAlone
  <2> QED BY <2>1 DEF IInv, Agree
<1>4. CASE UNCHANGED vars
  BY <1>4 DEF vars, unsigned, balanced, IInv, Typed, Agree
<1> QED BY <1>1, <1>2, <1>3, <1>4 DEF Next

\* The machines of the two representations agree until they are told apart.
THEOREM RepresentationsAgree == Spec => []MachinesAgree
<1>1. IInv => MachinesAgree
  BY DEF IInv, MachinesAgree
<1> QED BY <1>1, InitAgrees, NextAgrees, PTL DEF Spec
=============================================================================
