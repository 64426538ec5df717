-------------------------- MODULE CompiledIR_proofs --------------------------
(***************************************************************************)
(* Proof that a compiled program does what its IR program means: the image *)
(* on the SeptaVM implements IRMachine, for every IR program that lowering *)
(* can produce, every radix, memory and step limit, as long as no call     *)
(* pushes its return address onto a slot and store[] is used at the        *)
(* addresses it has; and that a program without recursion whose slots and  *)
(* return addresses fit memory keeps the first of these conditions.        *)
(*                                                                         *)
(* The last line generated for an IR instruction is the step of the IR     *)
(* machine, all lines before it are stutters.  What these have computed    *)
(* for it is Ready, an invariant of registers and flags at every line.     *)
(***************************************************************************)
EXTENDS CompiledRun_proofs

-----------------------------------------------------------------------------
(* The operators of IRMachine are those of the modules around it.          *)

LEMMA SameWords ==
    /\ \A v : IR!WrapWord(v) = WrapWord(v)
    /\ IR!Word = Word
  BY DEF IR!WrapWord, WrapWord, IR!Half, Half, IR!Word, Word, IR!WordMin, WordMin, IR!WordMax, WordMax

LEMMA SameOwner ==
    ASSUME NEW p, NEW f, NEW slot
    PROVE  IR!Owned(p, f, slot) = Owned(p, f, slot)
  BY DEF IR!Owned, Owned, IR!GlobalSlots, GlobalSlots

LEMMA SameSlotNames ==
    ASSUME NEW p
    PROVE  IR!SlotNames(p) = SlotNames(p)
<1>1. IR!GlobalSlots(p) = GlobalSlots(p)
  BY DEF IR!GlobalSlots, GlobalSlots
<1>2. \A fun : IR!Block(fun) = Block(fun)
  BY DEF IR!Block, Block, IR!TempSlot, TempSlot
<1> QED
  BY <1>1, <1>2 DEF IR!SlotNames, SlotNames

LEMMA SameSkip ==
    ASSUME NEW p, NEW f, NEW k
    PROVE  IR!Skip(p, f, k) = SkipTo(p, f, k)
  BY DEF IR!Skip, SkipTo, Min, IR!Min

LEMMA SameMax ==
    ASSUME NEW S
    PROVE  IR!Max(S) = Max(S)
  BY DEF Max, IR!Max

\* A word is stored unchanged.
LEMMA WordsFit ==
    ASSUME NEW w \in Word
    PROVE  WrapWord(w) = w
<1>1. Modulus \in Nat /\ Modulus >= 2 /\ (Balanced => Modulus % 2 = 1)
  BY WordsAssumption
<1>2. CASE Balanced
  <2>1. Half \in Nat /\ Modulus = 2 * Half + 1
    BY <1>1, <1>2 DEF Half
  <2>2. w + Half \in 0 .. Modulus - 1 /\ w \in Int
    BY <1>2, <2>1 DEF Word, WordMin, WordMax
  <2>3. \A x \in 0 .. Modulus - 1 : x % Modulus = x
    BY <1>1
  <2>4. (w + Half) % Modulus = w + Half
    BY <2>2, <2>3
  <2>5. (w + Half) - Half = w
    BY <2>1, <2>2
  <2> QED
    BY <1>2, <2>4, <2>5 DEF WrapWord
<1>3. CASE ~ Balanced
  <2>1. w \in 0 .. Modulus - 1
    BY <1>3 DEF Word, WordMin, WordMax
  <2>2. w % Modulus = w
    BY <1>1, <2>1
  <2> QED
    BY <1>3, <2>2 DEF WrapWord
<1> QED
  BY <1>2, <1>3

-----------------------------------------------------------------------------
(* The refinement mapping where control is at a known line.                *)

\* Control is at line r of program p, or was when the run ended.
On(p, r) == InImage /\ prog = Compile(p) /\ Site = r

InBody(r) == r.fn # 0 /\ r.ip # 0

\* The destination of a call has yet to be written.
Receives(p, r) == InBody(r) /\ p.functions[r.fn].body[r.ip].op = "CALL" /\ r.nth = 2

\* The slots as memory has them; in _init, where some globals have not got
\* their initial values; in a prologue, where some parameters are in registers.
InCell(p, m, x) == m[SlotAddress(p, x[1], x[2])]

MemSlots(p, m) == [x \in SlotNames(p) |-> InCell(p, m, x)]

GlobalIndex(p, slot) == LastIndex([j \in DOMAIN p.globals |-> p.globals[j].slot], slot)

InitSlots(p, n, m) ==
    [x \in SlotNames(p) |->
        IF x[1] = 0 /\ n <= 2 * GlobalIndex(p, x[2]) + 1
        THEN WrapWord(p.globals[GlobalIndex(p, x[2])].init) ELSE InCell(p, m, x)]

Waits(p, f, n, slot) ==
    \E k \in DOMAIN p.functions[f].params : p.functions[f].params[k] = slot /\ n <= k + 1

PrologueSlots(p, f, n, m, g) ==
    [x \in SlotNames(p) |->
        IF x[1] = f /\ Waits(p, f, n, x[2])
        THEN g[LastIndex(p.functions[f].params, x[2])] ELSE InCell(p, m, x)]

SlotsOn(p, r, m, g) ==
    IF r.fn = 0 THEN InitSlots(p, r.nth, m)
    ELSE IF r.ip = 0 THEN PrologueSlots(p, r.fn, r.nth, m, g) ELSE MemSlots(p, m)

RetOn(p, r, g) == IF Receives(p, r) THEN g[0] ELSE 0

PlaceOn(p, r) ==
    IF r.fn = 0 THEN Place(0, IF r.line.op = "HALT" THEN 2 ELSE 1, "go")
    ELSE IF r.ip = 0 THEN Place(r.fn, SkipTo(p, r.fn, 1), "go")
    ELSE Place(r.fn, r.ip, IF Receives(p, r) THEN "receive" ELSE "go")

\* The IR machine's state at r.
View(p, r) ==
    /\ Source = p
    /\ IRSlots = SlotsOn(p, r, mem, gp)
    /\ IRRet = RetOn(p, r, gp)
    /\ outcome = "running" => IRLoc = PlaceOn(p, r)
    /\ outcome # "running" => IRLoc = IR!Nowhere

LEMMA ViewOn ==
    ASSUME NEW p, WellFormed(p), NEW r, r.fn \in Nat
    PROVE  On(p, r) => View(p, r)
<1> SUFFICES ASSUME On(p, r) PROVE View(p, r)
  OBVIOUS
<1>1. Source = p /\ \A x \in SlotNames(p) : prog.addr[x] = SlotAddress(p, x[1], x[2])
  BY DEF On, Compile, Source
<1>2. InImage /\ Site = r /\ (InPrologue <=> r.fn # 0 /\ r.ip = 0) /\ (InInit <=> r.fn = 0)
  BY DEF On, InPrologue, InInit
<1>3. \A x \in SlotNames(p) : x = <<x[1], x[2]>>
  BY SlotNameCases
<1>4. \A x \in SlotNames(p) : mem[prog.addr[<<x[1], x[2]>>]] = InCell(p, mem, x)
  BY <1>1, <1>3 DEF InCell
<1>5. \A k : NotYetInitialized(k) <=> r.fn = 0 /\ r.nth <= 2 * k + 1
  BY <1>2 DEF NotYetInitialized
<1>6. \A x \in SlotNames(p) : x[1] = 0 =>
         GlobalValue(x[2]) = IF r.fn = 0 /\ r.nth <= 2 * GlobalIndex(p, x[2]) + 1
                             THEN WrapWord(p.globals[GlobalIndex(p, x[2])].init)
                             ELSE InCell(p, mem, x)
  BY <1>1, <1>3, <1>4, <1>5 DEF GlobalValue, GlobalIndex
<1>7. \A k : StillInRegister(k) <=> r.fn # 0 /\ r.ip = 0 /\ r.nth <= k + 1
  BY <1>2 DEF StillInRegister
<1>8. \A x \in SlotNames(p) : x[1] # 0 =>
         LocalValue(x[1], x[2]) = IF r.fn # 0 /\ r.ip = 0 /\ x[1] = r.fn /\ Waits(p, r.fn, r.nth, x[2])
                                  THEN gp[LastIndex(p.functions[r.fn].params, x[2])]
                                  ELSE InCell(p, mem, x)
  BY <1>1, <1>2, <1>3, <1>4, <1>7 DEF LocalValue, Waits
<1>9. IRSlots = [x \in SlotNames(p) |-> IF x[1] = 0 THEN GlobalValue(x[2]) ELSE LocalValue(x[1], x[2])]
  BY <1>1 DEF IRSlots
<1>10. IRSlots = SlotsOn(p, r, mem, gp)
  <2>1. CASE r.fn = 0
    BY <1>6, <1>8, <1>9, <2>1 DEF SlotsOn, InitSlots
  <2>2. CASE r.fn # 0 /\ r.ip = 0
    <3>1. \A x \in SlotNames(p) :
             (IF x[1] = 0 THEN GlobalValue(x[2]) ELSE LocalValue(x[1], x[2])) =
                IF x[1] = r.fn /\ Waits(p, r.fn, r.nth, x[2])
                THEN gp[LastIndex(p.functions[r.fn].params, x[2])]
                ELSE InCell(p, mem, x)
      BY <1>6, <1>8, <2>2
    <3> QED
      BY <1>9, <2>2, <3>1 DEF SlotsOn, PrologueSlots
  <2>3. CASE r.fn # 0 /\ r.ip # 0
    BY <1>6, <1>8, <1>9, <2>3 DEF SlotsOn, MemSlots
  <2> QED
    BY <2>1, <2>2, <2>3
<1>11. \A q : AtReceive(q) <=> Receives(p, q)
  BY <1>1 DEF AtReceive, Receives, InBody
<1>12. IRRet = RetOn(p, r, gp)
  BY <1>2, <1>11 DEF IRRet, RetOn
<1>13. IRPlace(r) = PlaceOn(p, r)
  BY <1>1, <1>11 DEF IRPlace, PlaceOn, FirstInstr, SkipTo
<1> QED
  BY <1>1, <1>2, <1>10, <1>12, <1>13 DEF View, IRLoc, IR!Nowhere, IR!At, Place

LEMMA NextViewOn ==
    ASSUME NEW p, WellFormed(p), NEW r, r.fn \in Nat
    PROVE  (On(p, r) => View(p, r))'
<1>1. On(p, r) => View(p, r)
  BY ViewOn
<1> QED
  BY <1>1, PTL

-----------------------------------------------------------------------------
(* The inductive invariant of the refinement.                              *)

\* The word of a slot, in the cell that is its own.
Cell(p, f, m, slot) == m[SlotAddress(p, f, slot)]

\* The IR's comparisons; NOT compares with 0.
Compares(op, x, y) ==
    \/ op \in {"CMP_EQ", "CMP_GE", "CMP_LE", "NOT"} /\ x = y
    \/ op = "CMP_NE" /\ x # y
    \/ op \in {"CMP_GT", "CMP_GE"} /\ x > y
    \/ op \in {"CMP_LT", "CMP_LE"} /\ x < y

Booleans == Comparisons \cup {"NOT"}

\* What an instruction compares: its first and its second operand.
First(p, f, m, i) == Cell(p, f, m, i.src)
Second(p, f, m, i) == IF i.op = "NOT" THEN 0 ELSE Cell(p, f, m, i.src2)

Holds(p, f, m, i) == Compares(i.op, First(p, f, m, i), Second(p, f, m, i))

FlagsOf(x, y, flags) == ("Z" \in flags <=> x = y) /\ ("G" \in flags <=> x > y) /\ ("L" \in flags <=> x < y)

\* Before line n of the lines of an IR instruction, the registers and the flags
\* hold what the lines before it have computed.
BoolReady(p, f, i, n, m, g, flags) ==
    LET x == First(p, f, m, i)
        y == Second(p, f, m, i)
    IN  /\ n \in {2, 3} => g[4] = x
        /\ n = 3 => g[5] = y
        /\ n = 4 => FlagsOf(x, y, flags)
        /\ n \in {5, 6} => ~ Holds(p, f, m, i)
        /\ n = 6 => g[4] = 0
        /\ n = 8 => Holds(p, f, m, i)
        /\ n = 10 => g[4] = IR!Truth(Holds(p, f, m, i))

LineReady(p, f, i, n, m, g, flags) ==
    LET x == Cell(p, f, m, i.src)
        y == Cell(p, f, m, i.src2)
    IN  /\ i.op = "CONST" /\ n = 2 => g[4] = WrapWord(i.imm)
        /\ i.op \in {"COPY", "PRINT", "PRINTD"} /\ n = 2 => g[4] = x
        /\ i.op \in {"ADD", "SUB"} => /\ n \in {2, 3} => g[4] = x
                                      /\ n = 3 => g[5] = y
        /\ i.op = "ADD" /\ n = 4 => g[4] = WrapWord(x + y)
        /\ i.op = "SUB" /\ n = 4 => g[4] = WrapWord(x - y)
        /\ i.op = "NEG" => /\ n \in {2, 3} => g[4] = 0
                           /\ n = 3 => g[5] = x
                           /\ n = 4 => g[4] = WrapWord(-x)
        /\ i.op \in Booleans => BoolReady(p, f, i, n, m, g, flags)
        /\ i.op = "MEM_LOAD" => /\ n = 2 => g[4] = x
                                /\ n = 3 => x \in 0 .. DataBase - 1 /\ g[5] = m[x]
        /\ i.op = "MEM_STORE" => /\ n \in {2, 3} => g[4] = Cell(p, f, m, i.dst)
                                 /\ n = 3 => g[5] = x
        /\ i.op \in {"JUMP_Z", "JUMP_NZ"} => /\ n \in {2, 3} => g[4] = x
                                             /\ n = 3 => g[5] = 0
                                             /\ n = 4 => ("Z" \in flags <=> x = 0)
        /\ i.op = "RETURN" /\ n = 2 => g[0] = x

ReadyAt(p, r, m, g, flags) ==
    /\ r.fn = 0 => \A k \in DOMAIN p.globals : r.nth = 2 * k + 1 => g[4] = WrapWord(p.globals[k].init)
    /\ InBody(r) => LineReady(p, r.fn, p.functions[r.fn].body[r.ip], r.nth, m, g, flags)

Ready == outcome = "running" => ReadyAt(Source, Site, mem, gp, fr)

\* A pending return address is that of the instruction after a call.
CallSite(p, c) ==
    /\ ValidSite(p, c)
    /\ \/ c = LineAt(p, 0, 0, 2 * Len(p.globals) + 2)
       \/ InBody(c) /\ c.nth = 1 /\ p.functions[c.fn].body[c.ip].op = "CALL"

CallsPending ==
    \A k \in DOMAIN PendingReturns :
        PendingReturns[k] \in DOMAIN code /\ CallSite(Source, prog.map[PendingReturns[k]])

RInv ==
    /\ CInv
    /\ prog = Compile(prog.ir) /\ prog.error = "none" /\ code = prog.code
    /\ Ready /\ CallsPending

WordsHoldAddresses == \A p \in Programs : Len(p) <= WordMax

Here(p, r) == RInv /\ MemoryIsApart /\ outcome = "running" /\ prog.ir = p /\ Site = r

LEMMA HereIsOn ==
    ASSUME NEW p, NEW r, Here(p, r)
    PROVE  /\ On(p, r) /\ WellFormed(p) /\ ~ CodegenFails(p)
           /\ Fetchable /\ pc \in Int /\ pc + 1 \in DOMAIN code
           /\ r = prog.map[pc + 1]
           /\ Charted(p, code, prog.map) /\ ChartedAt(p, code, prog.map, pc + 1)
           /\ ValidSite(p, r) /\ r.line.kind = "instr"
<1>1. RInv /\ CInv /\ outcome = "running" /\ prog.ir = p /\ Site = r /\ prog = Compile(p)
  BY DEF Here, RInv
<1>2. Fetchable /\ pc \in Int /\ pc + 1 \in DOMAIN code
  BY <1>1, RunningFacts
<1>3. InImage
  BY <1>1, <1>2 DEF InImage, Fetchable
<1>4. WellFormed(p)
  BY <1>1, CompiledRunAssumption DEF CInv
<1>5. Compile(p).error = "none" /\ code = Compile(p).code /\ prog.map = Compile(p).map
  BY <1>1 DEF RInv
<1>6. ~ CodegenFails(p)
  BY <1>5 DEF Compile
<1>7. Charted(p, code, prog.map)
  BY <1>4, <1>5, CompiledIsCharted
<1>8. ChartedAt(p, code, prog.map, pc + 1)
  BY <1>2, <1>7 DEF Charted
<1>9. r = prog.map[pc + 1]
  BY <1>1 DEF Site
<1> QED
  BY <1>1, <1>2, <1>3, <1>4, <1>6, <1>7, <1>8, <1>9 DEF On, ChartedAt

\* The instruction at r.
LEMMA HereIs ==
    ASSUME NEW p, NEW r, Here(p, r)
    PROVE  /\ instr.op = r.line.op /\ instr.b = r.line.b /\ instr.c = r.line.c
           /\ r.line.op \notin BranchOpcodes => instr.a = r.line.a
           /\ Encoded(instr) /\ instr \in Instructions
<1>1. /\ ChartedAt(p, code, prog.map, pc + 1) /\ r = prog.map[pc + 1]
      /\ Fetchable /\ pc \in Int
  BY HereIsOn
<1>2. code \in Programs
  BY DEF Here, RInv, CInv, IInv, TypeOK
<1>3. Encoded(instr) /\ instr \in Instructions
  BY <1>1, <1>2, FetchedIsEncoded
<1> QED
  BY <1>1, <1>3 DEF ChartedAt, instr

LEMMA HereState ==
    ASSUME NEW p, NEW r, Here(p, r)
    PROVE  /\ IInv /\ gp \in [Registers -> Word] /\ mem \in [Addresses -> Word]
           /\ sp \in Addresses /\ PendingReturns = CellsAbove(mem, sp)
           /\ PendingReturns \in Seq(Int)
           /\ NextFree(p) \in Nat /\ DataBase <= NextFree(p) /\ NextFree(p) <= sp + 1
           /\ instr.op = "CALL" => NextFree(p) <= sp
           /\ StoresBelowStack
<1>1. CInv /\ IInv /\ outcome = "running" /\ prog.ir = p /\ MemoryIsApart
  BY DEF Here, RInv, CInv
<1>2. gp \in [Registers -> Word] /\ mem \in [Addresses -> Word]
  BY <1>1 DEF IInv, TypeOK
<1>3. sp \in Addresses /\ PendingReturns = CellsAbove(mem, sp)
  BY <1>1, RunningStack
<1>4. Fetchable /\ PendingReturns \in Seq(Int)
  BY <1>1, RunningFacts
<1>5. WellFormed(p)
  BY HereIsOn
<1>6. NextFree(p) \in Nat /\ DataBase <= NextFree(p)
  BY <1>5, NoSlotIsInStore
<1>7. NextFree(p) <= sp + 1 /\ (instr.op = "CALL" => NextFree(p) <= sp)
  BY <1>1, <1>4 DEF MemoryIsApart, StackAboveSlots, CallsAboveSlots, Source
<1>8. StoresBelowStack
  BY <1>1, LayoutKeepsStoresBelow DEF MemoryIsApart, StoreIsApart
<1> QED
  BY <1>1, <1>2, <1>3, <1>4, <1>6, <1>7, <1>8

-----------------------------------------------------------------------------
(* A step of the machine at a known line.                                  *)

Step(p, r) == Here(p, r) /\ RunNext /\ CInv' /\ WordsHoldAddresses

\* Afterwards control is at t, unless the step limit has been reached.
There(p, t) == On(p, t)' /\ outcome' \in {"running", "step limit"}

LEMMA ActionsExecute ==
    /\ LoadImmediate => instr.op = "LI"
    /\ Move => instr.op = "MOV"
    /\ Load => instr.op = "LD"
    /\ Store => instr.op = "ST"
    /\ LoadIndirect => instr.op = "LDR"
    /\ StoreIndirect => instr.op = "STR"
    /\ Add => instr.op = "ADD"
    /\ Sub => instr.op = "SUB"
    /\ Compare => instr.op = "CMP"
    /\ Jmp => instr.op = "JMP"
    /\ Jz => instr.op = "JZ"
    /\ Jnz => instr.op = "JNZ"
    /\ Jg => instr.op = "JG"
    /\ Jl => instr.op = "JL"
    /\ Jge => instr.op = "JGE"
    /\ Jle => instr.op = "JLE"
    /\ Call => instr.op = "CALL"
    /\ Ret => instr.op = "RET"
    /\ PrintBase => instr.op = "PRINT"
    /\ PrintDecimal => instr.op = "PRINTD"
    /\ Halt => instr.op = "HALT"
    /\ Nop => instr.op = "NOP"
  BY DEF LoadImmediate, Move, Load, Store, LoadIndirect, StoreIndirect, Add, Sub, Compare,
         Jmp, Jz, Jnz, Jg, Jl, Jge, Jle, Branch, Call, Ret, PrintBase, PrintDecimal, PrintWord,
         Halt, Nop, Executing

LEMMA FaultsFault ==
    /\ StackOverflow => outcome' = "stack overflow" /\ Fault("stack overflow")
    /\ StackUnderflow => outcome' = "stack underflow"
    /\ PcOutOfBounds => outcome' = "pc out of bounds"
    /\ UnknownOpcode => outcome' = "unknown opcode"
    /\ MemoryOutOfBounds =>
          outcome' = "memory out of bounds" /\ Fault("memory out of bounds") /\ UNCHANGED <<sp, mem>>
  BY DEF StackOverflow, StackUnderflow, PcOutOfBounds, UnknownOpcode, MemoryOutOfBounds, Fault

LEMMA Executed ==
    ASSUME Next, outcome' \notin Faults
    PROVE  /\ instr.op = "LI" => LoadImmediate
           /\ instr.op = "LD" => Load
           /\ instr.op = "ST" => Store
           /\ instr.op = "LDR" => LoadIndirect
           /\ instr.op = "STR" => StoreIndirect
           /\ instr.op = "ADD" => Add
           /\ instr.op = "SUB" => Sub
           /\ instr.op = "CMP" => Compare
           /\ instr.op = "JMP" => Jmp
           /\ instr.op = "JZ" => Jz
           /\ instr.op = "JNZ" => Jnz
           /\ instr.op = "JG" => Jg
           /\ instr.op = "JL" => Jl
           /\ instr.op = "JGE" => Jge
           /\ instr.op = "JLE" => Jle
           /\ instr.op = "CALL" => Call
           /\ instr.op = "RET" => Ret
           /\ instr.op = "PRINT" => PrintBase
           /\ instr.op = "PRINTD" => PrintDecimal
           /\ instr.op = "HALT" => Halt
<1>1. ~ (StackOverflow \/ StackUnderflow \/ PcOutOfBounds \/ UnknownOpcode \/ MemoryOutOfBounds)
  BY FaultsFault DEF Faults
<1> QED
  BY <1>1, ActionsExecute DEF Next

\* What a step that is neither a call nor a return leaves alone.
LEMMA PendingStays ==
    ASSUME NEW p, NEW r, Step(p, r), instr.op \notin {"CALL", "RET"}
    PROVE  PendingReturns' = PendingReturns
<1>1. /\ IInv /\ IInv' /\ Next /\ Fetchable /\ StoresBelowStack
      /\ gp \in [Registers -> Word] /\ Encoded(instr)
  BY HereIsOn, HereIs, HereState DEF Step, CInv, RunNext
<1>2. CASE UNCHANGED <<sp, mem>>
  BY <1>2 DEF PendingReturns, CellsAbove, StackTop
<1>3. CASE Store
  <2>1. instr.op = "ST" /\ instr.a \in Registers /\ instr.b \in Addresses
    BY <1>1, <1>3 DEF Store, Executing, Encoded, FirstIsRegister
  <2>2. gp[instr.a] \in Int
    BY <1>1, <2>1, WordFacts
  <2>3. StoreWord(instr.b, gp[instr.a]) /\ Advance /\ sp' = sp
    BY <1>3 DEF Store
  <2>4. instr.b <= sp
    BY <1>1, <2>1 DEF StoresBelowStack, Operand
  <2>5. Stack!Continue
    BY <1>1, <2>1, <2>2, <2>3, <2>4, StoreIsContinueOrOverwrite
  <2> QED
    BY <2>5 DEF Stack!Continue
<1>4. CASE StoreIndirect
  <2>1. instr.op = "STR" /\ instr.a \in Registers /\ gp[instr.b] \in Addresses
    BY <1>1, <1>4 DEF StoreIndirect, Executing, Encoded, FirstIsRegister
  <2>2. gp[instr.a] \in Int
    BY <1>1, <2>1, WordFacts
  <2>3. StoreWord(gp[instr.b], gp[instr.a]) /\ Advance /\ sp' = sp
    BY <1>4 DEF StoreIndirect
  <2>4. gp[instr.b] <= sp
    BY <1>1, <2>1 DEF StoresBelowStack, Operand
  <2>5. Stack!Continue
    BY <1>1, <2>1, <2>2, <2>3, <2>4, StoreIsContinueOrOverwrite
  <2> QED
    BY <2>5 DEF Stack!Continue
<1>5. CASE Call \/ Ret \/ StackOverflow \/ StackUnderflow
  BY <1>5 DEF Call, Ret, StackOverflow, StackUnderflow, Executing
<1>6. CASE \/ LoadImmediate \/ Move \/ Load \/ LoadIndirect \/ Add \/ Sub \/ Compare
           \/ Jmp \/ Jz \/ Jnz \/ Jg \/ Jl \/ Jge \/ Jle
           \/ PrintBase \/ PrintDecimal \/ Halt \/ Nop
           \/ PcOutOfBounds \/ UnknownOpcode \/ MemoryOutOfBounds
  <2>1. UNCHANGED <<sp, mem>>
    BY <1>6 DEF LoadImmediate, Move, Load, LoadIndirect, Add, Sub, Arithmetic, Compare,
                Jmp, Jz, Jnz, Jg, Jl, Jge, Jle, Branch, PrintBase, PrintDecimal, PrintWord,
                Halt, Nop, PcOutOfBounds, UnknownOpcode, MemoryOutOfBounds
  <2> QED
    BY <1>2, <2>1
<1> QED
  BY <1>1, <1>3, <1>4, <1>5, <1>6 DEF Next

\* Where control is after an instruction that completes.
LEMMA Continues ==
    ASSUME NEW p, NEW r, Step(p, r), Completed, ~ Stops(r.line), pc' = pc + 1
    PROVE  There(p, NextOf(p, r))
<1>1. /\ On(p, r) /\ ChartedAt(p, code, prog.map, pc + 1) /\ pc \in Int
      /\ r = prog.map[pc + 1] /\ Fetchable
  BY HereIsOn DEF Step
<1>2. prog' = prog /\ code' = code /\ outcome' \in {"running", "step limit"}
  BY DEF Step, RunNext, Completed
<1>3. (pc + 1) + 1 \in DOMAIN code /\ prog.map[(pc + 1) + 1] = NextOf(p, r)
  BY <1>1 DEF ChartedAt
<1>4. DOMAIN code = 1 .. Len(code) /\ Len(code) \in Nat
  <2>1. code \in Programs
    BY DEF Step, Here, RInv, CInv, IInv, TypeOK
  <2>2. code \in Seq(Instructions)
    BY <2>1, VMAssumption
  <2> QED
    BY <2>2
<1>5. pc + 1 >= 0 /\ pc + 1 < Len(code)
  BY <1>1, <1>3, <1>4
<1>6. InImage' /\ Site' = NextOf(p, r)
  BY <1>2, <1>3, <1>5 DEF InImage, Site
<1> QED
  BY <1>1, <1>2, <1>6 DEF There, On

LEMMA Branches ==
    ASSUME NEW p, NEW r, Step(p, r), Completed, r.line.op \in BranchOpcodes, pc' = instr.a
    PROVE  \E s : LabelLine(p, s, r.line.label) /\ There(p, NextOf(p, s))
<1>1. /\ On(p, r) /\ ChartedAt(p, code, prog.map, pc + 1) /\ pc \in Int
      /\ r = prog.map[pc + 1] /\ Fetchable
  BY HereIsOn DEF Step
<1>2. prog' = prog /\ code' = code /\ outcome' \in {"running", "step limit"}
  BY DEF Step, RunNext, Completed
<1>3. PICK s : /\ LabelLine(p, s, r.line.label)
               /\ instr.a + 1 \in DOMAIN code /\ prog.map[instr.a + 1] = NextOf(p, s)
  BY <1>1 DEF ChartedAt, instr
<1>4. code \in Seq(Instructions) /\ instr.a \in Int
  <2>1. code \in Programs
    BY DEF Step, Here, RInv, CInv, IInv, TypeOK
  <2>2. instr \in Instructions
    BY HereIs DEF Step
  <2> QED
    BY <2>1, <2>2, VMAssumption DEF Instructions
<1>5. instr.a >= 0 /\ instr.a < Len(code)
  <2> DEFINE a == instr.a
             L == Len(code)
  <2>1. DOMAIN code = 1 .. L /\ L \in Nat /\ a \in Int
    BY <1>4
  <2>2. a + 1 \in 1 .. L
    BY <1>3, <2>1
  <2> HIDE DEF a, L
  <2>3. a >= 0 /\ a < L
    BY <2>1, <2>2
  <2> QED
    BY <2>3 DEF a, L
<1>6. InImage' /\ Site' = NextOf(p, s)
  BY <1>2, <1>3, <1>5 DEF InImage, Site
<1> QED
  BY <1>1, <1>2, <1>3, <1>6 DEF There, On

-----------------------------------------------------------------------------
(* The lines of a program, read off its units.                             *)

LEMMA NextOfLine ==
    ASSUME NEW p, NEW f, NEW k, NEW n
    PROVE  NextOf(p, LineAt(p, f, k, n)) = AfterSite(p, f, k, n)
  BY DEF NextOf, LineAt

\* A line of _init.
LEMMA InitUnitIs ==
    ASSUME NEW p, WellFormed(p)
    PROVE  Len(p.globals) \in Nat /\ IsUnit(p, 0, 0) /\ InitUnit(p, Unit(p, 0, 0))
  BY Lengths, InitLineByLine DEF IsUnit, Unit

LEMMA PrologueUnitIs ==
    ASSUME NEW p, WellFormed(p), NEW f \in 1 .. Len(p.functions)
    PROVE  /\ IsUnit(p, f, 0) /\ PrologueUnit(p, f, Unit(p, f, 0))
           /\ p.functions[f].params \in Seq(STRING) /\ Len(p.functions[f].params) \in Nat
           /\ DOMAIN p.functions[f].params = 1 .. Len(p.functions[f].params)
<1>1. f # 0 /\ IsUnit(p, f, 0)
  BY BodyFacts, Lengths DEF IsUnit
<1>2. p.functions[f].params \in Seq(STRING)
  BY Lengths DEF IRFunctions
<1> QED
  BY <1>1, <1>2, PrologueLineByLine DEF Unit

LEMMA BodyUnitIs ==
    ASSUME NEW p, WellFormed(p), NEW f \in 1 .. Len(p.functions),
           NEW k \in 1 .. Len(p.functions[f].body)
    PROVE  /\ IsUnit(p, f, k) /\ f # 0 /\ k # 0 /\ f \in Nat /\ k \in Nat
           /\ IRUnit(p, f, k, Unit(p, f, k))
           /\ p.functions[f].body[k] \in IRInstructions /\ p.functions[f].body[k].op \in IROps
           /\ p.functions[f].body[k].op \notin {"RETURN", "RETURN_VOID"} =>
                 k + 1 \in 1 .. Len(p.functions[f].body)
<1> DEFINE body == p.functions[f].body
<1>1. /\ Len(body) \in Nat \ {0} /\ body[Len(body)].op \in {"RETURN", "RETURN_VOID"}
      /\ body[k] \in IRInstructions /\ body[k].op \in IROps /\ f # 0
      /\ \A j : IsUnit(p, f, j) <=> j \in 0 .. Len(body)
  BY BodyFacts
<1>2. k # 0 /\ k \in 0 .. Len(body) /\ k \in Nat /\ f \in Nat
  BY <1>1
<1>3. Unit(p, f, k) = EmitIR(p, f, k)
  BY <1>1, <1>2 DEF Unit
<1>4. IRUnit(p, f, k, EmitIR(p, f, k))
  BY <1>1, EmittedLines
<1>5. k + 1 \in 1 .. Len(body) \/ k = Len(body)
  BY <1>1
<1> QED
  BY <1>1, <1>2, <1>3, <1>4, <1>5

\* The line after the last one of an IR instruction.
NextInstr(p, f, k) == LineAt(p, f, SkipTo(p, f, k + 1), 1)

LEMMA NextInstrIs ==
    ASSUME NEW p, WellFormed(p), NEW f \in 1 .. Len(p.functions),
           NEW k \in 0 .. Len(p.functions[f].body), k + 1 \in 1 .. Len(p.functions[f].body)
    PROVE  /\ SkipTo(p, f, k + 1) \in 1 .. Len(p.functions[f].body)
           /\ p.functions[f].body[SkipTo(p, f, k + 1)].op # "LABEL"
<1> DEFINE B == Len(p.functions[f].body)
<1>1. B \in Nat
  BY BodyFacts
<1>2. SkipTo(p, f, k + 1) \in k + 1 .. B /\ p.functions[f].body[SkipTo(p, f, k + 1)].op # "LABEL"
  BY SkipFacts
<1> HIDE DEF B
<1>3. SkipTo(p, f, k + 1) \in 1 .. B
  BY <1>1, <1>2 DEF B
<1> QED
  BY <1>2, <1>3 DEF B

\* A unit of one, two, three or four lines: which line follows which.
LEMMA NextInShort ==
    ASSUME NEW p, NEW f, NEW k, IsUnit(p, f, k), NEW m \in {1, 2, 3, 4},
           DOMAIN Unit(p, f, k) = 1 .. m, \A n \in 1 .. m : Unit(p, f, k)[n].kind = "instr"
    PROVE  /\ \A n \in 1 .. m : n # m => NextOf(p, LineAt(p, f, k, n)) = LineAt(p, f, k, n + 1)
           /\ NextOf(p, LineAt(p, f, k, m)) = NextInstr(p, f, k)
<1>1. \A n \in 1 .. m : n # m => n + 1 \in 1 .. m
  OBVIOUS
<1>2. m + 1 \notin 1 .. m
  OBVIOUS
<1>3. \A n \in 1 .. m : n # m => AfterSite(p, f, k, n) = LineAt(p, f, k, n + 1)
  BY <1>1 DEF AfterSite, IsLine
<1>4. AfterSite(p, f, k, m) = NextInstr(p, f, k)
  BY <1>2 DEF AfterSite, IsLine, NextInstr
<1> QED
  BY <1>3, <1>4, NextOfLine

\* A unit of a comparison.
LEMMA NextInLong ==
    ASSUME NEW p, NEW f, NEW k, IsUnit(p, f, k), NEW a, NEW b, NEW jump, NEW cnt, NEW c,
           Materialized(Unit(p, f, k), a, b, jump, cnt, c),
           a.kind = "instr", b.kind = "instr", c.kind = "instr"
    PROVE  /\ NextOf(p, LineAt(p, f, k, 1)) = LineAt(p, f, k, 2)
           /\ NextOf(p, LineAt(p, f, k, 2)) = LineAt(p, f, k, 3)
           /\ NextOf(p, LineAt(p, f, k, 3)) = LineAt(p, f, k, 4)
           /\ NextOf(p, LineAt(p, f, k, 4)) = LineAt(p, f, k, 5)
           /\ NextOf(p, LineAt(p, f, k, 5)) = LineAt(p, f, k, 6)
           /\ NextOf(p, LineAt(p, f, k, 7)) = LineAt(p, f, k, 8)
           /\ NextOf(p, LineAt(p, f, k, 8)) = LineAt(p, f, k, 10)
           /\ NextOf(p, LineAt(p, f, k, 9)) = LineAt(p, f, k, 10)
           /\ NextOf(p, LineAt(p, f, k, 10)) = NextInstr(p, f, k)
<1> DEFINE u == Unit(p, f, k)
<1>1. DOMAIN u = 1 .. 10 /\ \A x \in 1 .. 10 : u[x].kind = IF x \in {7, 9} THEN "label" ELSE "instr"
  BY MaterializedKinds
<1>2. /\ AfterSite(p, f, k, 1) = LineAt(p, f, k, 2)
      /\ AfterSite(p, f, k, 2) = LineAt(p, f, k, 3)
      /\ AfterSite(p, f, k, 3) = LineAt(p, f, k, 4)
  BY <1>1 DEF AfterSite, IsLine
<1>3. /\ AfterSite(p, f, k, 4) = LineAt(p, f, k, 5)
      /\ AfterSite(p, f, k, 5) = LineAt(p, f, k, 6)
      /\ AfterSite(p, f, k, 7) = LineAt(p, f, k, 8)
  BY <1>1 DEF AfterSite, IsLine
<1>4. /\ AfterSite(p, f, k, 8) = LineAt(p, f, k, 10)
      /\ AfterSite(p, f, k, 9) = LineAt(p, f, k, 10)
      /\ AfterSite(p, f, k, 10) = NextInstr(p, f, k)
  BY <1>1 DEF AfterSite, IsLine, NextInstr
<1> QED
  BY <1>2, <1>3, <1>4, NextOfLine

\* A call is where the IR calls, and where it returns to is known.
LEMMA CallSiteIs ==
    ASSUME NEW p, WellFormed(p), NEW c, CallSite(p, c)
    PROVE  /\ c.line.kind = "instr" /\ c.line.op = "CALL"
           /\ \/ c.fn = 0 /\ c.ip = 0 /\ NextOf(p, c) = LineAt(p, 0, 0, 2 * Len(p.globals) + 3)
              \/ /\ c.fn \in 1 .. Len(p.functions) /\ c.ip \in 1 .. Len(p.functions[c.fn].body)
                 /\ p.functions[c.fn].body[c.ip].op = "CALL"
                 /\ c.ip + 1 \in 1 .. Len(p.functions[c.fn].body)
                 /\ c = LineAt(p, c.fn, c.ip, 1)
                 /\ NextOf(p, c) = IF p.functions[c.fn].body[c.ip].dst = "" THEN NextInstr(p, c.fn, c.ip)
                                   ELSE LineAt(p, c.fn, c.ip, 2)
<1>1. CASE c = LineAt(p, 0, 0, 2 * Len(p.globals) + 2)
  <2> DEFINE u == Unit(p, 0, 0)
             G == Len(p.globals)
             n == 2 * G + 2
  <2>1. G \in Nat /\ InitUnit(p, u) /\ IsUnit(p, 0, 0)
    BY InitUnitIs
  <2>2. c.fn = 0 /\ c.ip = 0 /\ c.line = u[n]
    BY <1>1 DEF LineAt
  <2>3. /\ DOMAIN u = 1 .. 2 * G + 3 /\ u[n] = AsmTo("CALL", "main")
        /\ u[2 * G + 3] = Asm("HALT", 0, 0, 0)
    BY <2>1 DEF InitUnit
  <2>4. n + 1 = 2 * G + 3 /\ n + 1 \in 1 .. 2 * G + 3
    BY <2>1
  <2> HIDE DEF u, n, G
  <2>5. AfterSite(p, 0, 0, n) = LineAt(p, 0, 0, 2 * G + 3)
    <3>1. IsLine(p, 0, 0, n + 1) /\ u[n + 1].kind = "instr"
      BY <2>1, <2>3, <2>4, LineKinds DEF IsLine, u
    <3> QED
      BY <2>4, <3>1 DEF AfterSite, u
  <2>6. NextOf(p, c) = AfterSite(p, 0, 0, n)
    BY <1>1, NextOfLine DEF n, G
  <2> QED
    BY <2>2, <2>3, <2>5, <2>6, LineKinds DEF G
<1>2. CASE InBody(c) /\ c.nth = 1 /\ p.functions[c.fn].body[c.ip].op = "CALL"
  <2>1. PICK f, k : f = c.fn /\ k = c.ip
    OBVIOUS
  <2> DEFINE u == Unit(p, f, k)
             i == p.functions[f].body[k]
  <2>2. IsUnit(p, f, k) /\ c = LineAt(p, f, k, 1) /\ f # 0 /\ k # 0 /\ i.op = "CALL"
    BY <1>2, <2>1 DEF CallSite, ValidSite, IsLine, InBody
  <2>3. f \in 1 .. Len(p.functions) /\ k \in 1 .. Len(p.functions[f].body)
    BY <2>2 DEF IsUnit
  <2>4. IRUnit(p, f, k, u) /\ k + 1 \in 1 .. Len(p.functions[f].body)
    BY <2>2, <2>3, BodyUnitIs
  <2>5. c.line = u[1]
    BY <2>2 DEF LineAt
  <2>6. CASE i.dst = ""
    <3>1. Are1(u, AsmTo("CALL", i.label))
      BY <2>2, <2>4, <2>6 DEF IRUnit
    <3>2. DOMAIN u = 1 .. 1 /\ u[1].kind = "instr" /\ u[1].op = "CALL"
      BY <3>1, LineKinds DEF Are1
    <3>3. \A n \in 1 .. 1 : u[n].kind = "instr"
      BY <3>2
    <3>4. NextOf(p, LineAt(p, f, k, 1)) = NextInstr(p, f, k)
      BY <2>2, <3>2, <3>3, NextInShort
    <3> QED
      BY <2>1, <2>2, <2>3, <2>4, <2>5, <2>6, <3>2, <3>4
  <2>7. CASE i.dst # ""
    <3>1. Are2(u, AsmTo("CALL", i.label), StSlot(p, f, 0, i.dst))
      BY <2>2, <2>4, <2>7 DEF IRUnit
    <3>2. /\ DOMAIN u = 1 .. 2 /\ u[1].kind = "instr" /\ u[1].op = "CALL"
          /\ u[2].kind = "instr"
      BY <3>1, LineKinds DEF Are2, StSlot
    <3>3. \A n \in 1 .. 2 : u[n].kind = "instr"
      BY <3>2
    <3>4. NextOf(p, LineAt(p, f, k, 1)) = LineAt(p, f, k, 2)
      <4>1. 1 \in 1 .. 2 /\ 1 # 2 /\ 1 + 1 = 2 /\ 2 \in {1, 2, 3, 4}
        OBVIOUS
      <4>2. \A n \in 1 .. 2 : n # 2 => NextOf(p, LineAt(p, f, k, n)) = LineAt(p, f, k, n + 1)
        BY <2>2, <3>2, <3>3, <4>1, NextInShort
      <4> QED
        BY <4>1, <4>2
    <3> QED
      BY <2>1, <2>2, <2>3, <2>4, <2>5, <2>7, <3>2, <3>4
  <2> QED
    BY <2>6, <2>7
<1> QED
  BY <1>1, <1>2 DEF CallSite

\* After a return.
LEMMA ReturnsTo ==
    ASSUME NEW p, NEW r, Step(p, r), Ret, NEW c, c = prog.map[PendingReturns[1]]
    PROVE  /\ PendingReturns # <<>>
           /\ PendingReturns' = Tail(PendingReturns)
           /\ CallSite(p, c)
           /\ There(p, NextOf(p, c))
<1> DEFINE P == PendingReturns
           q == P[1]
<1>1. /\ On(p, r) /\ Charted(p, code, prog.map) /\ P \in Seq(Int) /\ WellFormed(p)
      /\ code \in Programs
  BY HereIsOn, HereState DEF Step, IInv, TypeOK
<1>2. P # <<>> /\ pc' = Head(P) /\ PendingReturns' = Tail(P)
  BY RetIsReturn DEF Step, Here, RInv, CInv, Stack!Return
<1>3. prog' = prog /\ code' = code /\ outcome' \in {"running", "step limit"}
  BY DEF Step, RunNext, Completed, Ret
<1>4. 1 \in DOMAIN P /\ Head(P) = P[1]
  BY <1>1, <1>2
<1>5. q \in DOMAIN code /\ CallSite(p, c)
  BY <1>4 DEF Step, Here, RInv, CallsPending, Source
<1>6. ValidSite(p, c) /\ ChartedAt(p, code, prog.map, q)
  BY <1>1, <1>5 DEF CallSite, Charted
<1>7. ~ Stops(c.line)
  BY <1>1, <1>5, CallSiteIs DEF Stops
<1>8. q + 1 \in DOMAIN code /\ prog.map[q + 1] = NextOf(p, c)
  BY <1>6, <1>7 DEF ChartedAt
<1>9. DOMAIN code = 1 .. Len(code) /\ Len(code) \in Nat
  BY <1>1, VMAssumption
<1> HIDE DEF q
<1>10. q \in Int /\ q >= 0 /\ q < Len(code)
  BY <1>5, <1>8, <1>9
<1>11. InImage' /\ Site' = NextOf(p, c)
  BY <1>2, <1>3, <1>4, <1>8, <1>10 DEF InImage, Site, q
<1>12. There(p, NextOf(p, c))
  BY <1>1, <1>3, <1>11 DEF There, On
<1> QED
  BY <1>2, <1>5, <1>12

-----------------------------------------------------------------------------
(* What each machine instruction does at a known line.                     *)

Runs(p, r) == Step(p, r) /\ outcome' \notin Faults

\* Control goes to t, and the pending calls stay.
Goes(p, t) == There(p, t) /\ PendingReturns' = PendingReturns

\* An instruction that is no branch.
LEMMA GoesOn ==
    ASSUME NEW p, NEW r, Runs(p, r), Advance, r.line.op \notin BranchOpcodes \cup {"RET", "HALT"}
    PROVE  Goes(p, NextOf(p, r))
<1>1. instr.op = r.line.op /\ instr.op \notin {"CALL", "RET"}
  BY HereIs DEF Runs, Step, BranchOpcodes
<1>2. ~ Stops(r.line)
  BY DEF Stops
<1>3. There(p, NextOf(p, r))
  BY <1>2, Continues DEF Runs, Advance
<1>4. PendingReturns' = PendingReturns
  BY <1>1, PendingStays DEF Runs
<1> QED
  BY <1>3, <1>4 DEF Goes

LEMMA PlainOperands ==
    ASSUME NEW p, NEW r, Runs(p, r), r.line.op \notin BranchOpcodes
    PROVE  /\ instr.op = r.line.op /\ instr.a = r.line.a
           /\ instr.b = r.line.b /\ instr.c = r.line.c
           /\ Next /\ Encoded(instr) /\ instr \in Instructions
           /\ gp \in [Registers -> Word] /\ mem \in [Addresses -> Word]
  BY HereIs, HereState DEF Runs, Step, RunNext

LEMMA RunsLI ==
    ASSUME NEW p, NEW r, Runs(p, r), r.line.op = "LI"
    PROVE  /\ gp' = [gp EXCEPT ![r.line.a] = WrapWord(r.line.b)]
           /\ mem' = mem /\ fr' = fr /\ output' = output
           /\ Goes(p, NextOf(p, r))
<1>1. r.line.op \notin BranchOpcodes \cup {"RET", "HALT"}
  BY DEF BranchOpcodes
<1>2. instr.a = r.line.a /\ instr.b = r.line.b /\ LoadImmediate
  BY <1>1, PlainOperands, Executed DEF Runs
<1>3. Goes(p, NextOf(p, r))
  BY <1>1, <1>2, GoesOn DEF LoadImmediate
<1> QED
  BY <1>2, <1>3 DEF LoadImmediate, SetRegister

LEMMA RunsLD ==
    ASSUME NEW p, NEW r, Runs(p, r), r.line.op = "LD"
    PROVE  /\ gp' = [gp EXCEPT ![r.line.a] = mem[r.line.b]]
           /\ mem' = mem /\ fr' = fr /\ output' = output
           /\ Goes(p, NextOf(p, r))
<1>1. r.line.op \notin BranchOpcodes \cup {"RET", "HALT"}
  BY DEF BranchOpcodes
<1>2. instr.a = r.line.a /\ instr.b = r.line.b /\ Load /\ mem \in [Addresses -> Word]
  BY <1>1, PlainOperands, Executed DEF Runs
<1>3. Goes(p, NextOf(p, r))
  BY <1>1, <1>2, GoesOn DEF Load
<1>4. WrapWord(mem[r.line.b]) = mem[r.line.b]
  BY <1>2, WordsFit DEF Load
<1> QED
  BY <1>2, <1>3, <1>4 DEF Load, SetRegister

LEMMA RunsST ==
    ASSUME NEW p, NEW r, Runs(p, r), r.line.op = "ST"
    PROVE  /\ mem' = [mem EXCEPT ![r.line.b] = gp[r.line.a]]
           /\ r.line.b \in Addresses /\ r.line.a \in Registers
           /\ gp' = gp /\ fr' = fr /\ output' = output
           /\ Goes(p, NextOf(p, r))
<1>1. r.line.op \notin BranchOpcodes \cup {"RET", "HALT"}
  BY DEF BranchOpcodes
<1>2. /\ instr.a = r.line.a /\ instr.b = r.line.b /\ Store /\ gp \in [Registers -> Word]
      /\ instr.op = "ST" /\ Encoded(instr)
  BY <1>1, PlainOperands, Executed DEF Runs
<1>3. Goes(p, NextOf(p, r))
  BY <1>1, <1>2, GoesOn DEF Store
<1>4. r.line.a \in Registers
  BY <1>2 DEF Encoded, FirstIsRegister
<1>5. WrapWord(gp[r.line.a]) = gp[r.line.a]
  BY <1>2, <1>4, WordsFit
<1> QED
  BY <1>2, <1>3, <1>4, <1>5 DEF Store, StoreWord

LEMMA RunsLDR ==
    ASSUME NEW p, NEW r, Runs(p, r), r.line.op = "LDR"
    PROVE  /\ gp' = [gp EXCEPT ![r.line.a] = mem[gp[r.line.b]]]
           /\ gp[r.line.b] \in 0 .. DataBase - 1
           /\ mem' = mem /\ fr' = fr /\ output' = output
           /\ Goes(p, NextOf(p, r))
<1>1. r.line.op \notin BranchOpcodes \cup {"RET", "HALT"}
  BY DEF BranchOpcodes
<1>2. /\ instr.a = r.line.a /\ instr.b = r.line.b /\ LoadIndirect /\ mem \in [Addresses -> Word]
      /\ instr.op = "LDR"
  BY <1>1, PlainOperands, Executed DEF Runs
<1>3. Goes(p, NextOf(p, r))
  BY <1>1, <1>2, GoesOn DEF LoadIndirect
<1>4. gp[r.line.b] \in Addresses
  BY <1>2 DEF LoadIndirect
<1>5. WrapWord(mem[gp[r.line.b]]) = mem[gp[r.line.b]]
  BY <1>2, <1>4, WordsFit
<1>6. gp[r.line.b] < DataBase
  <2>1. Operand = gp[r.line.b]
    BY <1>2 DEF Operand
  <2>2. LoadInStore /\ Fetchable
    BY HereIsOn DEF Runs, Step, Here, MemoryIsApart, StoreIsApart
  <2> QED
    BY <1>2, <1>4, <2>1, <2>2 DEF LoadInStore
<1>7. gp[r.line.b] \in 0 .. DataBase - 1
  <2>1. PICK w : w = gp[r.line.b]
    OBVIOUS
  <2> QED
    BY <1>4, <1>6, <2>1, AddressMapAssumption DEF Addresses
<1> QED
  BY <1>2, <1>3, <1>5, <1>7 DEF LoadIndirect, SetRegister

LEMMA RunsSTR ==
    ASSUME NEW p, NEW r, Runs(p, r), r.line.op = "STR"
    PROVE  /\ mem' = [mem EXCEPT ![gp[r.line.b]] = gp[r.line.a]]
           /\ gp[r.line.b] \in 0 .. DataBase - 1
           /\ gp' = gp /\ fr' = fr /\ output' = output
           /\ Goes(p, NextOf(p, r))
<1>1. r.line.op \notin BranchOpcodes \cup {"RET", "HALT"}
  BY DEF BranchOpcodes
<1>2. /\ instr.a = r.line.a /\ instr.b = r.line.b /\ StoreIndirect /\ gp \in [Registers -> Word]
      /\ instr.op = "STR" /\ Encoded(instr)
  BY <1>1, PlainOperands, Executed DEF Runs
<1>3. Goes(p, NextOf(p, r))
  BY <1>1, <1>2, GoesOn DEF StoreIndirect
<1>4. gp[r.line.b] \in Addresses /\ r.line.a \in Registers
  BY <1>2 DEF StoreIndirect, Encoded, FirstIsRegister
<1>5. WrapWord(gp[r.line.a]) = gp[r.line.a]
  BY <1>2, <1>4, WordsFit
<1>6. gp[r.line.b] < DataBase
  <2>1. Operand = gp[r.line.b]
    BY <1>2 DEF Operand
  <2>2. StoreInStore /\ Fetchable
    BY HereIsOn DEF Runs, Step, Here, MemoryIsApart, StoreIsApart
  <2> QED
    BY <1>2, <1>4, <2>1, <2>2 DEF StoreInStore
<1>7. gp[r.line.b] \in 0 .. DataBase - 1
  <2>1. PICK w : w = gp[r.line.b]
    OBVIOUS
  <2> QED
    BY <1>4, <1>6, <2>1, AddressMapAssumption DEF Addresses
<1> QED
  BY <1>2, <1>3, <1>5, <1>7 DEF StoreIndirect, StoreWord

LEMMA RunsArithmetic ==
    ASSUME NEW p, NEW r, Runs(p, r), r.line.op \in {"ADD", "SUB"}
    PROVE  /\ gp' = [gp EXCEPT ![r.line.a] =
                        WrapWord(IF r.line.op = "ADD" THEN gp[r.line.b] + gp[r.line.c]
                                 ELSE gp[r.line.b] - gp[r.line.c])]
           /\ mem' = mem /\ output' = output
           /\ Goes(p, NextOf(p, r))
<1>1. r.line.op \notin BranchOpcodes \cup {"RET", "HALT"}
  BY DEF BranchOpcodes
<1>2. /\ instr.a = r.line.a /\ instr.b = r.line.b /\ instr.c = r.line.c
      /\ r.line.op = "ADD" => Add
      /\ r.line.op = "SUB" => Sub
  BY <1>1, PlainOperands, Executed DEF Runs
<1>3. CASE r.line.op = "ADD"
  <2>1. Arithmetic(gp[instr.b] + gp[instr.c])
    BY <1>2, <1>3 DEF Add
  <2>2. Goes(p, NextOf(p, r))
    BY <1>1, <2>1, GoesOn DEF Arithmetic
  <2> QED
    BY <1>2, <1>3, <2>1, <2>2 DEF Arithmetic, SetRegister
<1>4. CASE r.line.op = "SUB"
  <2>1. Arithmetic(gp[instr.b] - gp[instr.c])
    BY <1>2, <1>4 DEF Sub
  <2>2. Goes(p, NextOf(p, r))
    BY <1>1, <2>1, GoesOn DEF Arithmetic
  <2> QED
    BY <1>2, <1>4, <2>1, <2>2 DEF Arithmetic, SetRegister
<1> QED
  BY <1>3, <1>4

LEMMA RunsCMP ==
    ASSUME NEW p, NEW r, Runs(p, r), r.line.op = "CMP"
    PROVE  /\ FlagsOf(gp[r.line.a], gp[r.line.b], fr')
           /\ gp' = gp /\ mem' = mem /\ output' = output
           /\ Goes(p, NextOf(p, r))
<1>1. r.line.op \notin BranchOpcodes \cup {"RET", "HALT"}
  BY DEF BranchOpcodes
<1>2. instr.a = r.line.a /\ instr.b = r.line.b /\ Compare
  BY <1>1, PlainOperands, Executed DEF Runs
<1>3. Goes(p, NextOf(p, r))
  BY <1>1, <1>2, GoesOn DEF Compare
<1>4. FlagsOf(gp[r.line.a], gp[r.line.b], fr')
  <2>1. PICK x, y : x = gp[r.line.a] /\ y = gp[r.line.b]
    OBVIOUS
  <2>2. SetFlags(x = y, x > y, x < y)
    BY <1>2, <2>1 DEF Compare
  <2> QED
    BY <2>1, <2>2 DEF SetFlags, Flags, FlagsOf
<1> QED
  BY <1>2, <1>3, <1>4 DEF Compare

\* The condition of a branch.
Taken(op, flags) ==
    \/ op = "JMP"
    \/ op = "JZ" /\ "Z" \in flags
    \/ op = "JNZ" /\ "Z" \notin flags
    \/ op = "JG" /\ "G" \in flags
    \/ op = "JL" /\ "L" \in flags
    \/ op = "JGE" /\ ("G" \in flags \/ "Z" \in flags)
    \/ op = "JLE" /\ ("L" \in flags \/ "Z" \in flags)

LEMMA RunsJump ==
    ASSUME NEW p, NEW r, Runs(p, r), r.line.op \in Jumps
    PROVE  /\ gp' = gp /\ mem' = mem /\ fr' = fr /\ output' = output
           /\ ~ Taken(r.line.op, fr) => Goes(p, NextOf(p, r))
           /\ Taken(r.line.op, fr) =>
                 \E s : LabelLine(p, s, r.line.label) /\ Goes(p, NextOf(p, s))
<1>1. instr.op = r.line.op /\ Next
  BY HereIs DEF Runs, Step, RunNext
<1>2. /\ gp' = gp /\ mem' = mem /\ fr' = fr /\ output' = output /\ Completed
      /\ pc' = IF Taken(r.line.op, fr) THEN instr.a ELSE pc + 1
  <2>1. \/ r.line.op = "JMP" /\ Branch("JMP", TRUE)
        \/ r.line.op = "JZ" /\ Branch("JZ", "Z" \in fr)
        \/ r.line.op = "JNZ" /\ Branch("JNZ", "Z" \notin fr)
        \/ r.line.op = "JG" /\ Branch("JG", "G" \in fr)
        \/ r.line.op = "JL" /\ Branch("JL", "L" \in fr)
        \/ r.line.op = "JGE" /\ Branch("JGE", "G" \in fr \/ "Z" \in fr)
        \/ r.line.op = "JLE" /\ Branch("JLE", "L" \in fr \/ "Z" \in fr)
    BY <1>1, Executed DEF Runs, Jumps, Jmp, Jz, Jnz, Jg, Jl, Jge, Jle
  <2> QED
    BY <2>1 DEF Branch, Taken
<1>3. PendingReturns' = PendingReturns
  BY <1>1, PendingStays DEF Runs, Jumps
<1>4. ~ Stops(r.line) /\ r.line.op \in BranchOpcodes
  BY DEF Stops, Jumps, BranchOpcodes
<1>5. CASE Taken(r.line.op, fr)
  <2>1. PICK s : LabelLine(p, s, r.line.label) /\ There(p, NextOf(p, s))
    BY <1>2, <1>4, <1>5, Branches DEF Runs
  <2> QED
    BY <1>2, <1>3, <1>5, <2>1 DEF Goes
<1>6. CASE ~ Taken(r.line.op, fr)
  <2>1. There(p, NextOf(p, r))
    BY <1>2, <1>4, <1>6, Continues DEF Runs
  <2> QED
    BY <1>2, <1>3, <1>6, <2>1 DEF Goes
<1> QED
  BY <1>5, <1>6

\* What is below the stack.
BelowStays(p) == \A a \in Int : a < NextFree(p) => mem'[a] = mem[a]

LEMMA RunsCALL ==
    ASSUME NEW p, NEW r, Runs(p, r), r.line.op = "CALL"
    PROVE  /\ gp' = gp /\ output' = output
           /\ BelowStays(p)
           /\ PendingReturns' = <<pc + 1>> \o PendingReturns
           /\ \E s : LabelLine(p, s, r.line.label) /\ There(p, NextOf(p, s))
<1>1. instr.op = "CALL" /\ Next /\ sp \in Addresses /\ NextFree(p) \in Nat /\ NextFree(p) <= sp
  BY HereIs, HereState DEF Runs, Step, RunNext
<1>2. Call
  BY <1>1, Executed DEF Runs
<1>3. PendingReturns' = <<pc + 1>> \o PendingReturns
  BY <1>2, CallIsCall DEF Stack!Call, Runs, Step, Here, RInv, CInv, WordsHoldAddresses
<1>4. BelowStays(p)
  <2>1. mem' = [mem EXCEPT ![sp] = WrapWord(pc + 1)] /\ sp \in Int
    BY <1>1, <1>2 DEF Call, PushReturnAddress, StoreWord, Addresses
  <2>2. \A a \in Int : a < NextFree(p) => a # sp
    BY <1>1, <2>1
  <2> QED
    BY <2>1, <2>2 DEF BelowStays
<1>5. PICK s : LabelLine(p, s, r.line.label) /\ There(p, NextOf(p, s))
  BY <1>2, Branches DEF Runs, Call, BranchOpcodes
<1> QED
  BY <1>2, <1>3, <1>4, <1>5 DEF Call

LEMMA RunsRET ==
    ASSUME NEW p, NEW r, Runs(p, r), r.line.op = "RET", NEW c, c = prog.map[PendingReturns[1]]
    PROVE  /\ gp' = gp /\ mem' = mem /\ fr' = fr /\ output' = output
           /\ PendingReturns # <<>> /\ PendingReturns' = Tail(PendingReturns)
           /\ CallSite(p, c) /\ There(p, NextOf(p, c))
<1>1. instr.op = "RET" /\ Next
  BY HereIs DEF Runs, Step, RunNext
<1>2. Ret
  BY <1>1, Executed DEF Runs
<1>3. /\ PendingReturns # <<>> /\ PendingReturns' = Tail(PendingReturns)
      /\ CallSite(p, c) /\ There(p, NextOf(p, c))
  BY <1>2, ReturnsTo DEF Runs
<1> QED
  BY <1>2, <1>3 DEF Ret

LEMMA RunsPrint ==
    ASSUME NEW p, NEW r, Runs(p, r), r.line.op \in {"PRINT", "PRINTD"}
    PROVE  /\ gp' = gp /\ mem' = mem /\ fr' = fr
           /\ output' = Append(output, <<r.line.op, gp[r.line.a]>>)
           /\ Goes(p, NextOf(p, r))
<1>1. r.line.op \notin BranchOpcodes \cup {"RET", "HALT"}
  BY DEF BranchOpcodes
<1>2. /\ instr.a = r.line.a
      /\ r.line.op = "PRINT" => PrintBase
      /\ r.line.op = "PRINTD" => PrintDecimal
  BY <1>1, PlainOperands, Executed DEF Runs
<1>3. PrintWord(r.line.op)
  BY <1>2 DEF PrintBase, PrintDecimal
<1>4. Goes(p, NextOf(p, r))
  BY <1>1, <1>3, GoesOn DEF PrintWord
<1> QED
  BY <1>2, <1>3, <1>4 DEF PrintWord

LEMMA RunsHALT ==
    ASSUME NEW p, NEW r, Runs(p, r), r.line.op = "HALT"
    PROVE  /\ gp' = gp /\ mem' = mem /\ output' = output /\ prog' = prog
           /\ PendingReturns' = PendingReturns /\ outcome' = "halted"
<1>1. instr.op = "HALT" /\ Next
  BY HereIs DEF Runs, Step, RunNext
<1>2. Halt
  BY <1>1, Executed DEF Runs
<1>3. PendingReturns' = PendingReturns
  BY <1>1, PendingStays DEF Runs
<1> QED
  BY <1>2, <1>3 DEF Halt, Runs, Step, RunNext

-----------------------------------------------------------------------------
(* Slots and memory.                                                       *)

LEMMA SlotCell ==
    ASSUME NEW p, WellFormed(p), NEW x \in SlotNames(p)
    PROVE  /\ SlotAddress(p, x[1], x[2]) \in Int
           /\ DataBase <= SlotAddress(p, x[1], x[2])
           /\ SlotAddress(p, x[1], x[2]) < NextFree(p)
<1>1. PICK f, slot : f = x[1] /\ slot = x[2]
  OBVIOUS
<1>2. \/ f = 0 /\ slot \in GlobalSlots(p)
      \/ /\ f \in 1 .. Len(p.functions)
         /\ \E k \in DOMAIN Block(p.functions[f]) : Block(p.functions[f])[k] = slot
  BY <1>1, SlotNameCases
<1>3. Len(p.functions) \in Nat
  BY Lengths
<1>4. f \in 0 .. Len(p.functions) /\ (IF f = 0 THEN slot \in GlobalSlots(p) ELSE slot \in SlotsOf(p, f))
  BY <1>2, <1>3 DEF SlotsOf
<1> QED
  BY <1>1, <1>4, SlotsBelowNextFree

\* A slot as its function sees it.
LEMMA OwnedSlot ==
    ASSUME NEW p, WellFormed(p), NEW f \in 1 .. Len(p.functions), NEW slot \in SlotsOf(p, f)
    PROVE  /\ Owned(p, f, slot) \in SlotNames(p)
           /\ SlotAddress(p, Owned(p, f, slot)[1], Owned(p, f, slot)[2]) = SlotAddress(p, f, slot)
           /\ \A m : InCell(p, m, Owned(p, f, slot)) = Cell(p, f, m, slot)
<1>1. CASE slot \in GlobalSlots(p)
  <2>1. Owned(p, f, slot) = <<0, slot>>
    BY <1>1 DEF Owned
  <2>2. <<0, slot>> \in SlotNames(p)
    BY <1>1 DEF SlotNames
  <2>3. SlotAddress(p, 0, slot) = SlotAddress(p, f, slot)
    BY <1>1 DEF SlotAddress
  <2> QED
    BY <2>1, <2>2, <2>3 DEF InCell, Cell
<1>2. CASE slot \notin GlobalSlots(p)
  <2>1. Owned(p, f, slot) = <<f, slot>>
    BY <1>2 DEF Owned
  <2>2. PICK k \in DOMAIN Block(p.functions[f]) : Block(p.functions[f])[k] = slot
    BY <1>2 DEF SlotsOf
  <2>3. f \in DOMAIN p.functions
    BY Lengths
  <2>4. <<f, slot>> \in SlotNames(p)
    BY <2>2, <2>3 DEF SlotNames
  <2> QED
    BY <2>1, <2>4 DEF InCell, Cell
<1> QED
  BY <1>1, <1>2

\* n is m with w written to slot x, and to no other.
Writes(p, x, m, n, w) ==
    \A y \in SlotNames(p) : InCell(p, n, y) = IF y = x THEN w ELSE InCell(p, m, y)

LEMMA WriteSlot ==
    ASSUME NEW p, WellFormed(p), NEW x \in SlotNames(p), NEW m \in [Addresses -> Word], NEW w,
           SlotAddress(p, x[1], x[2]) \in Addresses,
           NEW n, n = [m EXCEPT ![SlotAddress(p, x[1], x[2])] = w]
    PROVE  Writes(p, x, m, n, w)
<1> DEFINE a == SlotAddress(p, x[1], x[2])
<1> SUFFICES ASSUME NEW y \in SlotNames(p)
             PROVE  InCell(p, n, y) = IF y = x THEN w ELSE InCell(p, m, y)
  BY DEF Writes
<1> DEFINE b == SlotAddress(p, y[1], y[2])
<1>1. b = a => y = x
  BY SlotsAreDistinct
<1>2. y = x => b = a
  OBVIOUS
<1>3. n = [m EXCEPT ![a] = w] /\ a \in Addresses
  OBVIOUS
<1>4. InCell(p, n, y) = n[b] /\ InCell(p, m, y) = m[b]
  BY DEF InCell
<1>5. b \in Addresses => n[b] = IF b = a THEN w ELSE m[b]
  <2> HIDE DEF a, b
  <2> QED
    BY <1>3
<1> HIDE DEF a, b
<1>6. CASE y = x
  BY <1>2, <1>3, <1>4, <1>5, <1>6
<1>7. CASE y # x
  <2>1. n[b] = m[b]
    BY <1>1, <1>3, <1>7
  <2> QED
    BY <1>4, <1>7, <2>1
<1> QED
  BY <1>6, <1>7

CellWritten(p, f, slot, m, n, w) == n = [m EXCEPT ![SlotAddress(p, f, slot)] = w]
SlotWritten(p, f, slot, m, n, w) ==
    MemSlots(p, n) = [MemSlots(p, m) EXCEPT ![Owned(p, f, slot)] = w]

LEMMA WriteMemSlots ==
    ASSUME NEW p, WellFormed(p), NEW f \in 1 .. Len(p.functions), NEW slot \in SlotsOf(p, f),
           NEW m \in [Addresses -> Word], NEW w, SlotAddress(p, f, slot) \in Addresses,
           NEW n, CellWritten(p, f, slot, m, n, w)
    PROVE  SlotWritten(p, f, slot, m, n, w)
<1>1. PICK x : x = Owned(p, f, slot)
  OBVIOUS
<1>2. x \in SlotNames(p) /\ SlotAddress(p, x[1], x[2]) = SlotAddress(p, f, slot)
  BY <1>1, OwnedSlot
<1>3. Writes(p, x, m, n, w)
  BY <1>2, WriteSlot DEF CellWritten
<1>4. MemSlots(p, n) = [y \in SlotNames(p) |-> IF y = x THEN w ELSE InCell(p, m, y)]
  BY <1>3 DEF MemSlots, Writes
<1>5. [MemSlots(p, m) EXCEPT ![x] = w] = [y \in SlotNames(p) |-> IF y = x THEN w ELSE InCell(p, m, y)]
  BY DEF MemSlots
<1> QED
  BY <1>1, <1>4, <1>5 DEF SlotWritten

\* What does not touch the cells of the slots does not touch the slots.
LEMMA SameCells ==
    ASSUME NEW p, WellFormed(p), NEW r, NEW m, NEW n, NEW g,
           \A x \in SlotNames(p) : InCell(p, n, x) = InCell(p, m, x)
    PROVE  SlotsOn(p, r, n, g) = SlotsOn(p, r, m, g) /\ MemSlots(p, n) = MemSlots(p, m)
<1>1. MemSlots(p, n) = MemSlots(p, m)
  BY DEF MemSlots
<1>2. InitSlots(p, r.nth, n) = InitSlots(p, r.nth, m)
  BY DEF InitSlots
<1>3. PrologueSlots(p, r.fn, r.nth, n, g) = PrologueSlots(p, r.fn, r.nth, m, g)
  BY DEF PrologueSlots
<1> QED
  BY <1>1, <1>2, <1>3 DEF SlotsOn

LEMMA BelowIsSame ==
    ASSUME NEW p, WellFormed(p), BelowStays(p)
    PROVE  /\ \A x \in SlotNames(p) : InCell(p, mem', x) = InCell(p, mem, x)
           /\ IRStore' = IRStore
<1>1. \A x \in SlotNames(p) : InCell(p, mem', x) = InCell(p, mem, x)
  BY SlotCell DEF BelowStays, InCell
<1>2. \A a \in 0 .. DataBase - 1 : a \in Int /\ a < NextFree(p)
  BY NoSlotIsInStore, AddressMapAssumption
<1>3. \A a \in 0 .. DataBase - 1 : mem'[a] = mem[a]
  BY <1>2 DEF BelowStays
<1> QED
  BY <1>1, <1>3 DEF IRStore

\* store[] and the slots are apart.
LEMMA SlotIsNotInStore ==
    ASSUME NEW p, WellFormed(p), NEW x \in SlotNames(p), NEW w,
           mem \in [Addresses -> Word], 0 .. DataBase - 1 \subseteq Addresses,
           mem' = [mem EXCEPT ![SlotAddress(p, x[1], x[2])] = w]
    PROVE  IRStore' = IRStore
<1>1. PICK a : a = SlotAddress(p, x[1], x[2])
  OBVIOUS
<1>2. a \in Int /\ DataBase <= a
  BY <1>1, SlotCell
<1>3. \A b \in 0 .. DataBase - 1 : b # a
  BY <1>2, AddressMapAssumption
<1>4. \A b \in 0 .. DataBase - 1 : mem'[b] = mem[b]
  BY <1>1, <1>3
<1> QED
  BY <1>4 DEF IRStore

LEMMA StoreIsNoSlot ==
    ASSUME NEW p, WellFormed(p), NEW a \in 0 .. DataBase - 1, NEW w,
           mem \in [Addresses -> Word], 0 .. DataBase - 1 \subseteq Addresses,
           mem' = [mem EXCEPT ![a] = w]
    PROVE  /\ \A x \in SlotNames(p) : InCell(p, mem', x) = InCell(p, mem, x)
           /\ IRStore' = [IRStore EXCEPT ![a] = w]
<1>1. ASSUME NEW x \in SlotNames(p)
      PROVE  InCell(p, mem', x) = InCell(p, mem, x)
  <2>1. PICK b : b = SlotAddress(p, x[1], x[2])
    OBVIOUS
  <2>2. b \in Int /\ DataBase <= b
    BY <2>1, SlotCell
  <2>3. b # a
    BY <2>2, AddressMapAssumption
  <2> QED
    BY <2>1, <2>3 DEF InCell
<1>2. \A b \in 0 .. DataBase - 1 : mem'[b] = IF b = a THEN w ELSE mem[b]
  OBVIOUS
<1>3. IRStore' = [b \in 0 .. DataBase - 1 |-> IF b = a THEN w ELSE mem[b]]
  BY <1>2 DEF IRStore
<1>4. [IRStore EXCEPT ![a] = w] = [b \in 0 .. DataBase - 1 |-> IF b = a THEN w ELSE mem[b]]
  BY DEF IRStore
<1> QED
  BY <1>1, <1>3, <1>4

-----------------------------------------------------------------------------
(* Steps of the machine as steps of the IR.                                *)

Simulated == [IR!Next]_(IR!vars) /\ Ready' /\ CallsPending'

LEMMA HereIsView ==
    ASSUME NEW p, NEW r, Here(p, r)
    PROVE  /\ r.fn \in Nat /\ WellFormed(p) /\ Source = p /\ IRStatus = "running"
           /\ IRSlots = SlotsOn(p, r, mem, gp) /\ IRRet = RetOn(p, r, gp) /\ IRLoc = PlaceOn(p, r)
<1>1. On(p, r) /\ WellFormed(p) /\ ValidSite(p, r) /\ outcome = "running"
  BY HereIsOn DEF Here
<1>2. r.fn \in Nat
  BY <1>1, Lengths DEF ValidSite
<1>3. View(p, r)
  BY <1>1, <1>2, ViewOn
<1> QED
  BY <1>1, <1>2, <1>3 DEF View, IRStatus

LEMMA ThereIsView ==
    ASSUME NEW p, WellFormed(p), NEW t, t.fn \in Nat, There(p, t)
    PROVE  /\ Source' = p
           /\ IRSlots' = SlotsOn(p, t, mem', gp') /\ IRRet' = RetOn(p, t, gp')
           /\ IR!Goto(PlaceOn(p, t))
<1>1. On(p, t)' /\ outcome' \in {"running", "step limit"}
  BY DEF There
<1>2. View(p, t)'
  BY <1>1, NextViewOn
<1>3. outcome' = "running" => IRStatus' = "running" /\ IRLoc' = PlaceOn(p, t)
  BY <1>2 DEF View, IRStatus
<1>4. outcome' = "step limit" => IRStatus' = "aborted" /\ IRLoc' = IR!Nowhere
  BY <1>2 DEF View, IRStatus
<1> QED
  BY <1>1, <1>2, <1>3, <1>4 DEF View, IR!Goto

LEMMA CodeStays ==
    ASSUME Next
    PROVE  code' = code
  BY DEF Next, LoadImmediate, Move, Load, Store, LoadIndirect, StoreIndirect, Add, Sub, Arithmetic,
         Compare, Jmp, Jz, Jnz, Jg, Jl, Jge, Jle, Branch, Call, StackOverflow, Ret,
         StackUnderflow, PrintBase, PrintDecimal, PrintWord, Halt, Nop, PcOutOfBounds,
         UnknownOpcode, MemoryOutOfBounds, Fault, Advance, Completed

\* The calls in progress stay.
LEMMA CallsStay ==
    ASSUME NEW p, NEW r, Step(p, r), PendingReturns' = PendingReturns
    PROVE  IRFrames' = IRFrames /\ CallsPending'
<1>1. code' = code /\ prog' = prog /\ CallsPending
  BY CodeStays DEF Step, RunNext, Here, RInv
<1> QED
  BY <1>1 DEF IRFrames, CallsPending, Source

LEMMA ReadyThere ==
    ASSUME NEW p, NEW t, There(p, t), outcome' = "running" => ReadyAt(p, t, mem', gp', fr')
    PROVE  Ready'
<1>1. Source' = p /\ Site' = t
  BY DEF There, On, Compile, Source
<1> QED
  BY <1>1 DEF Ready

SameArgs == gp'[1] = gp[1] /\ gp'[2] = gp[2] /\ gp'[3] = gp[3]

LEMMA ArgsStay ==
    ASSUME SameArgs
    PROVE  IRArgs' = IRArgs
<1>1. \A k \in 1 .. 3 : k = 1 \/ k = 2 \/ k = 3
  OBVIOUS
<1>2. \A k \in 1 .. 3 : gp'[k] = gp[k]
  BY <1>1 DEF SameArgs
<1> QED
  BY <1>2 DEF IRArgs

\* A line that the IR machine does not see, unless the step limit ends the run.
LEMMA SilentStep ==
    ASSUME NEW p, NEW r, Step(p, r), NEW t, t.fn \in Nat, Goes(p, t),
           PlaceOn(p, t) = PlaceOn(p, r),
           SlotsOn(p, t, mem', gp') = SlotsOn(p, r, mem, gp),
           RetOn(p, t, gp') = RetOn(p, r, gp),
           SameArgs, IRStore' = IRStore, output' = output,
           ReadyAt(p, t, mem', gp', fr')
    PROVE  Simulated
<1>1. /\ WellFormed(p) /\ Source = p /\ IRStatus = "running"
      /\ IRSlots = SlotsOn(p, r, mem, gp) /\ IRRet = RetOn(p, r, gp) /\ IRLoc = PlaceOn(p, r)
  BY HereIsView DEF Step
<1>2. /\ Source' = p
      /\ IRSlots' = SlotsOn(p, t, mem', gp') /\ IRRet' = RetOn(p, t, gp')
      /\ IR!Goto(PlaceOn(p, t))
  BY <1>1, ThereIsView DEF Goes
<1>3. UNCHANGED <<Source, IRFrames, IRArgs, IRRet, IRSlots, IRStore, output>> /\ CallsPending'
  BY <1>1, <1>2, ArgsStay, CallsStay DEF Goes
<1>4. ASSUME IRStatus' = "running" /\ IRLoc' = PlaceOn(p, t)
      PROVE  [IR!Next]_(IR!vars)
  <2>1. UNCHANGED IR!vars
    BY <1>1, <1>3, <1>4 DEF IR!vars
  <2> QED
    BY <2>1
<1>5. ASSUME IRStatus' = "aborted" /\ IRLoc' = IR!Nowhere
      PROVE  [IR!Next]_(IR!vars)
  <2>1. IR!Abort
    BY <1>1, <1>3, <1>5 DEF IR!Abort
  <2> QED
    BY <2>1 DEF IR!Next
<1>6. [IR!Next]_(IR!vars)
  BY <1>2, <1>4, <1>5 DEF IR!Goto
<1> QED
  BY <1>3, <1>6, ReadyThere DEF Simulated, Goes

\* A fault ends the run for the IR machine as well.
LEMMA FaultStep ==
    ASSUME NEW p, NEW r, Step(p, r), outcome' \in Faults
    PROVE  Simulated
<1>1. /\ WellFormed(p) /\ Source = p /\ IRStatus = "running" /\ r.fn \in Nat
      /\ IRSlots = SlotsOn(p, r, mem, gp) /\ IRRet = RetOn(p, r, gp) /\ IRLoc = PlaceOn(p, r)
  BY HereIsView DEF Step
<1>2. /\ IInv /\ IInv' /\ Next /\ Fetchable /\ On(p, r) /\ prog' = prog /\ code' = code
      /\ outcome = "running" /\ outcome' \notin {"pc out of bounds", "unknown opcode", "stack underflow"}
  BY HereIsOn, HereState, CodeStays DEF Step, CInv, RunNext, NoCodeFault, Here
<1>3. StackOverflow \/ MemoryOutOfBounds
  <2>1. ~ StackUnderflow /\ ~ PcOutOfBounds /\ ~ UnknownOpcode
    BY <1>2, FaultsFault
  <2>2. ASSUME Completed \/ Halt
        PROVE  FALSE
    BY <2>2 DEF Completed, Halt, Faults
  <2> QED
    BY <1>2, <2>1, <2>2
       DEF Next, LoadImmediate, Move, Load, Store, LoadIndirect, StoreIndirect, Add, Sub,
           Arithmetic, Compare, Jmp, Jz, Jnz, Jg, Jl, Jge, Jle, Branch, Call, Ret, PrintBase,
           PrintDecimal, PrintWord, Nop, Advance
<1>4. gp' = gp /\ pc' = pc /\ output' = output /\ outcome' \notin {"running", "halted"}
  BY <1>3, FaultsFault DEF Fault
<1>5. PendingReturns' = PendingReturns
  <2>1. CASE StackOverflow
    BY <1>2, <2>1, OverflowIsOverflow DEF Stack!Overflow
  <2>2. CASE MemoryOutOfBounds
    BY <2>2, FaultsFault DEF PendingReturns, CellsAbove, StackTop
  <2> QED
    BY <1>3, <2>1, <2>2
<1>6. BelowStays(p)
  <2>1. CASE StackOverflow
    <3>1. /\ instr.op = "CALL" /\ sp \in Addresses /\ sp - 1 < 0
          /\ mem' = [mem EXCEPT ![sp] = WrapWord(pc + 1)]
      BY <2>1 DEF StackOverflow, Executing, PushReturnAddress, StoreWord
    <3>2. NextFree(p) \in Nat /\ NextFree(p) <= sp
      BY <3>1, HereState DEF Step
    <3>3. sp \in Int
      BY <3>1 DEF Addresses
    <3>4. \A a \in Int : a < NextFree(p) => a # sp
      BY <3>2, <3>3
    <3> QED
      BY <3>1, <3>4 DEF BelowStays
  <2>2. CASE MemoryOutOfBounds
    BY <2>2, FaultsFault DEF BelowStays
  <2> QED
    BY <1>3, <2>1, <2>2
<1>7. On(p, r)'
  BY <1>2, <1>4 DEF On, InImage, Site
<1>8. View(p, r)'
  BY <1>1, <1>7, NextViewOn
<1>9. /\ SlotsOn(p, r, mem', gp') = SlotsOn(p, r, mem, gp) /\ IRStore' = IRStore
  BY <1>1, <1>4, <1>6, BelowIsSame, SameCells
<1>10. IRArgs' = IRArgs
  BY <1>4, ArgsStay DEF SameArgs
<1>11. IRFrames' = IRFrames /\ CallsPending'
  BY <1>5, CallsStay
<1>12. Source' = p /\ IRStatus' = "aborted" /\ IRLoc' = IR!Nowhere
  BY <1>4, <1>8 DEF View, IRStatus
<1>13. IRSlots' = IRSlots /\ IRRet' = IRRet
  BY <1>1, <1>4, <1>8, <1>9 DEF View
<1>14. IR!Abort
  BY <1>1, <1>4, <1>9, <1>10, <1>11, <1>12, <1>13 DEF IR!Abort
<1>15. IR!Next
  BY <1>14 DEF IR!Next
<1>16. Ready'
  BY <1>4 DEF Ready
<1> QED
  BY <1>11, <1>15, <1>16 DEF Simulated

-----------------------------------------------------------------------------
(* Steps in the body of a function.                                        *)

\* Line n of IR instruction k of function f is executed.
InstrAt(p, f, k) == p.functions[f].body[k]

Does(p, f, k, n) ==
    /\ WellFormed(p)
    /\ f \in 1 .. Len(p.functions) /\ k \in 1 .. Len(p.functions[f].body)
    /\ Runs(p, LineAt(p, f, k, n))

\* The line that is executed, and the lines around it.
LEMMA DoesLine ==
    ASSUME NEW p, NEW f, NEW k, NEW n, Does(p, f, k, n)
    PROVE  LET r == LineAt(p, f, k, n)
               u == Unit(p, f, k)
               i == InstrAt(p, f, k)
           IN  /\ WellFormed(p) /\ f \in 1 .. Len(p.functions) /\ k \in 1 .. Len(p.functions[f].body)
               /\ r.fn = f /\ r.ip = k /\ r.nth = n /\ r.line = u[n] /\ InBody(r)
               /\ n \in DOMAIN u /\ u[n].kind = "instr" /\ IsUnit(p, f, k)
               /\ IRUnit(p, f, k, u) /\ i.op \in IROps
               /\ i.op \notin {"RETURN", "RETURN_VOID"} => k + 1 \in 1 .. Len(p.functions[f].body)
<1> DEFINE r == LineAt(p, f, k, n)
           u == Unit(p, f, k)
<1>1. /\ WellFormed(p) /\ f \in 1 .. Len(p.functions) /\ k \in 1 .. Len(p.functions[f].body)
      /\ Here(p, r)
  BY DEF Does, Runs, Step
<1>2. ValidSite(p, r) /\ r.line.kind = "instr"
  BY <1>1, HereIsOn
<1>3. r.fn = f /\ r.ip = k /\ r.nth = n /\ r.line = u[n]
  BY DEF LineAt
<1>4. /\ IsUnit(p, f, k) /\ f # 0 /\ k # 0 /\ IRUnit(p, f, k, u)
      /\ InstrAt(p, f, k).op \in IROps
      /\ InstrAt(p, f, k).op \notin {"RETURN", "RETURN_VOID"} =>
            k + 1 \in 1 .. Len(p.functions[f].body)
  BY <1>1, BodyUnitIs DEF InstrAt
<1>5. n \in DOMAIN u
  BY <1>2, <1>3 DEF ValidSite, IsLine
<1> QED
  BY <1>1, <1>2, <1>3, <1>4, <1>5 DEF InBody

\* The slots an instruction uses are slots of its function.
UsesSlots(p, f, i) ==
    /\ i.op \in LoadsSrc => i.src \in SlotsOf(p, f)
    /\ i.op \in {"ADD", "SUB"} \cup Comparisons => i.src2 \in SlotsOf(p, f)
    /\ i.op \in WritesDst \cup {"MEM_STORE"} => i.dst \in SlotsOf(p, f)
    /\ i.op = "CALL" /\ i.dst # "" => i.dst \in SlotsOf(p, f)
    /\ i.op = "ARG" => i.imm <= 2

LEMMA InstrUsesSlots ==
    ASSUME NEW p, WellFormed(p), ~ CodegenFails(p), NEW f \in 1 .. Len(p.functions),
           NEW k \in 1 .. Len(p.functions[f].body)
    PROVE  UsesSlots(p, f, InstrAt(p, f, k))
<1> DEFINE i == p.functions[f].body[k]
<1>1. f \in DOMAIN p.functions /\ k \in DOMAIN p.functions[f].body /\ i \in IRInstructions
  BY BodyFacts, Lengths
<1>2. ~ NoAddress(i) /\ ~ (i.op = "ARG" /\ i.imm > 2) /\ i.imm \in Int
  BY <1>1 DEF CodegenFails, IRInstructions
<1>3. {i.dst, i.src, i.src2} \subseteq SlotsOf(p, f) \cup {""} /\ (i.op \in WritesDst => i.dst # "")
  BY <1>1 DEF WellFormed
<1> HIDE DEF i
<1>4. UsesSlots(p, f, i)
  <2>1. i.op \in LoadsSrc => i.src \in SlotsOf(p, f)
    BY <1>2, <1>3 DEF NoAddress
  <2>2. i.op \in {"ADD", "SUB"} \cup Comparisons => i.src2 \in SlotsOf(p, f)
    BY <1>2, <1>3 DEF NoAddress
  <2>3. i.op \in WritesDst \cup {"MEM_STORE"} => i.dst \in SlotsOf(p, f)
    BY <1>2, <1>3 DEF NoAddress
  <2>4. i.op = "CALL" /\ i.dst # "" => i.dst \in SlotsOf(p, f)
    BY <1>3
  <2>5. i.op = "ARG" => i.imm <= 2
    BY <1>2
  <2> QED
    BY <2>1, <2>2, <2>3, <2>4, <2>5 DEF UsesSlots
<1> QED
  BY <1>4 DEF i, InstrAt

\* What the IR machine sees.
LEMMA DoesView ==
    ASSUME NEW p, NEW f, NEW k, NEW n, Does(p, f, k, n)
    PROVE  LET i == InstrAt(p, f, k)
               receiving == i.op = "CALL" /\ n = 2
           IN  /\ Source = p /\ IRStatus = "running" /\ IRSlots = MemSlots(p, mem)
               /\ IRLoc = Place(f, k, IF receiving THEN "receive" ELSE "go")
               /\ IRRet = IF receiving THEN gp[0] ELSE 0
               /\ UsesSlots(p, f, i)
               /\ LineReady(p, f, i, n, mem, gp, fr)
               /\ 0 .. DataBase - 1 \subseteq Addresses
               /\ mem \in [Addresses -> Word] /\ gp \in [Registers -> Word]
<1> DEFINE r == LineAt(p, f, k, n)
           i == InstrAt(p, f, k)
<1>1. /\ WellFormed(p) /\ f \in 1 .. Len(p.functions) /\ k \in 1 .. Len(p.functions[f].body)
      /\ r.fn = f /\ r.ip = k /\ r.nth = n /\ InBody(r)
  BY DoesLine
<1>2. Here(p, r)
  BY DEF Does, Runs, Step
<1>3. /\ Source = p /\ IRStatus = "running"
      /\ IRSlots = SlotsOn(p, r, mem, gp) /\ IRRet = RetOn(p, r, gp) /\ IRLoc = PlaceOn(p, r)
  BY <1>2, HereIsView
<1>4. Receives(p, r) <=> i.op = "CALL" /\ n = 2
  BY <1>1 DEF Receives, InstrAt
<1>5. IRSlots = MemSlots(p, mem)
  BY <1>1, <1>3 DEF SlotsOn, InBody
<1>6. IRLoc = Place(f, k, IF i.op = "CALL" /\ n = 2 THEN "receive" ELSE "go")
  BY <1>1, <1>3, <1>4 DEF PlaceOn, InBody
<1>7. IRRet = IF i.op = "CALL" /\ n = 2 THEN gp[0] ELSE 0
  BY <1>3, <1>4 DEF RetOn
<1>8. UsesSlots(p, f, i)
  BY <1>1, <1>2, HereIsOn, InstrUsesSlots
<1>9. LineReady(p, f, i, n, mem, gp, fr)
  BY <1>1, <1>2, <1>3 DEF Here, RInv, Ready, ReadyAt, InstrAt
<1>10. 0 .. DataBase - 1 \subseteq Addresses /\ mem \in [Addresses -> Word] /\ gp \in [Registers -> Word]
  <2>1. /\ sp \in Addresses /\ NextFree(p) \in Nat /\ DataBase <= NextFree(p) /\ NextFree(p) <= sp + 1
        /\ mem \in [Addresses -> Word] /\ gp \in [Registers -> Word]
    BY <1>2, HereState
  <2>2. PICK top, free : top = sp /\ free = NextFree(p)
    OBVIOUS
  <2>3. /\ top \in 0 .. MemorySize - 1 /\ MemorySize \in Nat /\ DataBase \in Nat
        /\ free \in Nat /\ DataBase <= free /\ free <= top + 1
    BY <2>1, <2>2, AddressMapAssumption, VMAssumption DEF Addresses
  <2>4. 0 .. DataBase - 1 \subseteq 0 .. MemorySize - 1
    BY <2>3
  <2> QED
    BY <2>1, <2>4 DEF Addresses
<1> QED
  BY <1>3, <1>5, <1>6, <1>7, <1>8, <1>9, <1>10

\* The IR machine executes the same instruction on the same operands.
LEMMA DoesInIR ==
    ASSUME NEW p, NEW f, NEW k, NEW n, Does(p, f, k, n)
    PROVE  /\ IR!fn = f /\ IR!here = InstrAt(p, f, k) /\ IRLoc.ip = k
           /\ ~ (InstrAt(p, f, k).op = "CALL" /\ n = 2) =>
                 \A ops : InstrAt(p, f, k).op \in ops => IR!Doing(ops)
           /\ \A slot \in SlotsOf(p, f) : IR!Value(slot) = Cell(p, f, mem, slot)
<1>1. /\ Source = p /\ IRStatus = "running" /\ IRSlots = MemSlots(p, mem)
      /\ IRLoc = Place(f, k, IF InstrAt(p, f, k).op = "CALL" /\ n = 2 THEN "receive" ELSE "go")
  BY DoesView
<1>2. WellFormed(p) /\ f \in 1 .. Len(p.functions)
  BY DoesLine
<1>3. IR!fn = f /\ IRLoc.ip = k
  BY <1>1 DEF IR!fn, Place
<1>4. IR!here = InstrAt(p, f, k)
  BY <1>1, <1>3 DEF IR!here, InstrAt
<1>5. f \in DOMAIN p.functions
  BY <1>2, Lengths
<1>6. ASSUME ~ (InstrAt(p, f, k).op = "CALL" /\ n = 2), NEW ops, InstrAt(p, f, k).op \in ops
      PROVE  IR!Doing(ops)
  BY <1>1, <1>3, <1>4, <1>5, <1>6 DEF IR!Doing, Place
<1>7. ASSUME NEW slot \in SlotsOf(p, f)
      PROVE  IR!Value(slot) = Cell(p, f, mem, slot)
  <2>1. IR!Value(slot) = IRSlots[Owned(p, f, slot)]
    BY <1>1, <1>3, SameOwner DEF IR!Value
  <2>2. Owned(p, f, slot) \in SlotNames(p) /\ InCell(p, mem, Owned(p, f, slot)) = Cell(p, f, mem, slot)
    BY <1>2, <1>7, OwnedSlot
  <2>3. PICK x : x = Owned(p, f, slot)
    OBVIOUS
  <2> QED
    BY <1>1, <2>1, <2>2, <2>3 DEF MemSlots
<1> QED
  BY <1>3, <1>4, <1>6, <1>7

\* Nothing is expected of the state before the first line of an instruction.
LEMMA FirstLineReady ==
    ASSUME NEW p, NEW f, f # 0, NEW j, NEW m, NEW g, NEW flags
    PROVE  ReadyAt(p, LineAt(p, f, j, 1), m, g, flags)
<1>1. LineAt(p, f, j, 1).nth = 1 /\ LineAt(p, f, j, 1).fn = f
  BY DEF LineAt
<1>2. \A i : LineReady(p, f, i, 1, m, g, flags)
  BY DEF LineReady, BoolReady
<1> QED
  BY <1>1, <1>2 DEF ReadyAt

\* Control comes to an IR instruction.
LEMMA ComesTo ==
    ASSUME NEW p, WellFormed(p), NEW f \in 1 .. Len(p.functions),
           NEW j \in 1 .. Len(p.functions[f].body), There(p, LineAt(p, f, j, 1))
    PROVE  /\ Source' = p /\ IRSlots' = MemSlots(p, mem') /\ IRRet' = 0
           /\ IR!Goto(IR!At(f, j)) /\ Ready'
<1> DEFINE t == LineAt(p, f, j, 1)
<1>1. t.fn = f /\ t.ip = j /\ t.nth = 1
  BY DEF LineAt
<1>2. f # 0 /\ f \in Nat /\ j # 0
  BY Lengths, BodyFacts
<1>3. /\ Source' = p
      /\ IRSlots' = SlotsOn(p, t, mem', gp') /\ IRRet' = RetOn(p, t, gp')
      /\ IR!Goto(PlaceOn(p, t))
  BY <1>1, <1>2, ThereIsView
<1>4. ~ Receives(p, t)
  BY <1>1 DEF Receives
<1>5. SlotsOn(p, t, mem', gp') = MemSlots(p, mem')
  BY <1>1, <1>2 DEF SlotsOn
<1>6. RetOn(p, t, gp') = 0
  BY <1>4 DEF RetOn
<1>7. PlaceOn(p, t) = IR!At(f, j)
  BY <1>1, <1>2, <1>4 DEF PlaceOn, Place, IR!At
<1>8. Ready'
  BY <1>2, FirstLineReady, ReadyThere
<1> QED
  BY <1>3, <1>5, <1>6, <1>7, <1>8

\* The last line of an instruction: the IR machine goes on with it.
LEMMA Finishes ==
    ASSUME NEW p, NEW f, NEW k, NEW n, Does(p, f, k, n), Goes(p, NextInstr(p, f, k)),
           k + 1 \in 1 .. Len(p.functions[f].body)
    PROVE  /\ Source' = Source /\ IRFrames' = IRFrames
           /\ IRSlots' = MemSlots(p, mem') /\ IRRet' = 0
           /\ IR!GoOn /\ Ready' /\ CallsPending'
<1>1. WellFormed(p) /\ f \in 1 .. Len(p.functions) /\ k \in 1 .. Len(p.functions[f].body)
  BY DoesLine
<1>2. PICK j : j = SkipTo(p, f, k + 1)
  OBVIOUS
<1>3. j \in 1 .. Len(p.functions[f].body)
  <2>1. k \in 0 .. Len(p.functions[f].body)
    BY <1>1, BodyFacts
  <2> QED
    BY <1>1, <1>2, <2>1, NextInstrIs
<1>4. There(p, LineAt(p, f, j, 1)) /\ PendingReturns' = PendingReturns
  BY <1>2 DEF Goes, NextInstr
<1>5. /\ Source' = p /\ IRSlots' = MemSlots(p, mem') /\ IRRet' = 0
      /\ IR!Goto(IR!At(f, j)) /\ Ready'
  BY <1>1, <1>3, <1>4, ComesTo
<1>6. Source = p /\ IR!fn = f /\ IRLoc.ip = k
  BY DoesView, DoesInIR
<1>7. IR!GoOn
  BY <1>2, <1>5, <1>6, SameSkip DEF IR!GoOn
<1>8. IRFrames' = IRFrames /\ CallsPending'
  BY <1>4, CallsStay DEF Does, Runs
<1> QED
  BY <1>5, <1>6, <1>7, <1>8

\* A line before the last one of an instruction.
LEMMA StaysInside ==
    ASSUME NEW p, NEW f, NEW k, NEW n, Does(p, f, k, n), InstrAt(p, f, k).op # "CALL",
           NEW m, Goes(p, LineAt(p, f, k, m)),
           SameArgs, mem' = mem, output' = output,
           LineReady(p, f, InstrAt(p, f, k), m, mem', gp', fr')
    PROVE  Simulated
<1> DEFINE r == LineAt(p, f, k, n)
           t == LineAt(p, f, k, m)
<1>1. /\ WellFormed(p) /\ f \in 1 .. Len(p.functions)
      /\ r.fn = f /\ r.ip = k /\ r.nth = n /\ InBody(r)
  BY DoesLine
<1>2. t.fn = f /\ t.ip = k /\ t.nth = m
  BY DEF LineAt
<1>3. f \in Nat /\ f # 0 /\ k # 0
  BY <1>1, Lengths DEF InBody
<1>4. ~ Receives(p, r) /\ ~ Receives(p, t)
  BY <1>1, <1>2 DEF Receives, InstrAt
<1>5. PlaceOn(p, t) = PlaceOn(p, r)
  BY <1>1, <1>2, <1>3, <1>4 DEF PlaceOn
<1>6. SlotsOn(p, t, mem', gp') = SlotsOn(p, r, mem, gp)
  BY <1>1, <1>2, <1>3 DEF SlotsOn
<1>7. RetOn(p, t, gp') = RetOn(p, r, gp)
  BY <1>4 DEF RetOn
<1>8. ReadyAt(p, t, mem', gp', fr')
  BY <1>2, <1>3 DEF ReadyAt, InstrAt
<1>9. IRStore' = IRStore
  BY DEF IRStore
<1>10. Step(p, r)
  BY DEF Does, Runs
<1> HIDE DEF r, t
<1> QED
  BY <1>2, <1>3, <1>5, <1>6, <1>7, <1>8, <1>9, <1>10, SilentStep DEF t

\* The line that writes the result.
LEMMA Stores ==
    ASSUME NEW p, NEW f, NEW k, NEW n, Does(p, f, k, n), Goes(p, NextInstr(p, f, k)),
           k + 1 \in 1 .. Len(p.functions[f].body),
           InstrAt(p, f, k).dst \in SlotsOf(p, f), NEW reg,
           mem' = [mem EXCEPT ![SlotAddress(p, f, InstrAt(p, f, k).dst)] = gp[reg]],
           SlotAddress(p, f, InstrAt(p, f, k).dst) \in Addresses,
           gp' = gp, output' = output
    PROVE  /\ IR!Assign(InstrAt(p, f, k).dst, gp[reg])
           /\ IR!GoOn /\ Ready' /\ CallsPending' /\ IRRet' = 0
           /\ UNCHANGED <<Source, IRFrames, IRArgs, IRStore, output>>
<1>1. WellFormed(p) /\ f \in 1 .. Len(p.functions)
  BY DoesLine
<1>2. /\ Source = p /\ IRSlots = MemSlots(p, mem) /\ IR!fn = f
      /\ mem \in [Addresses -> Word] /\ 0 .. DataBase - 1 \subseteq Addresses
  BY DoesView, DoesInIR
<1>3. /\ Source' = Source /\ IRFrames' = IRFrames
      /\ IRSlots' = MemSlots(p, mem') /\ IRRet' = 0
      /\ IR!GoOn /\ Ready' /\ CallsPending'
  BY Finishes
<1>4. PICK slot : slot = InstrAt(p, f, k).dst
  OBVIOUS
<1>5. PICK x : x = Owned(p, f, slot)
  OBVIOUS
<1>6. x \in SlotNames(p) /\ SlotAddress(p, x[1], x[2]) = SlotAddress(p, f, slot)
  BY <1>1, <1>4, <1>5, OwnedSlot
<1>7. PICK w : w = gp[reg]
  OBVIOUS
<1>8. MemSlots(p, mem') = [MemSlots(p, mem) EXCEPT ![Owned(p, f, slot)] = w]
  <2>1. /\ mem' = [mem EXCEPT ![SlotAddress(p, f, slot)] = w]
        /\ SlotAddress(p, f, slot) \in Addresses /\ slot \in SlotsOf(p, f)
    BY <1>4, <1>7
  <2>2. PICK m, n2 : m = mem /\ n2 = mem'
    OBVIOUS
  <2>3. m \in [Addresses -> Word] /\ CellWritten(p, f, slot, m, n2, w)
    BY <1>2, <2>1, <2>2 DEF CellWritten
  <2>4. SlotAddress(p, f, slot) \in Addresses /\ slot \in SlotsOf(p, f)
    BY <2>1
  <2>5. SlotWritten(p, f, slot, m, n2, w)
    BY ONLY <1>1, <2>3, <2>4, WriteMemSlots
  <2> QED
    BY <2>2, <2>5 DEF SlotWritten
<1>9. IR!Assign(slot, w)
  BY <1>2, <1>3, <1>8, SameOwner DEF IR!Assign
<1>10. IRStore' = IRStore
  BY <1>1, <1>2, <1>4, <1>6, <1>7, SlotIsNotInStore
<1>11. IRArgs' = IRArgs
  BY ArgsStay DEF SameArgs
<1> QED
  BY <1>3, <1>4, <1>7, <1>9, <1>10, <1>11

-----------------------------------------------------------------------------
(* The lines that instructions are made of.                                *)

\* Register reg becomes w, the others stay.
Sets(reg, w) == gp'[reg] = w /\ \A s \in Registers \ {reg} : gp'[s] = gp[s]

LEMMA SetsOne ==
    ASSUME NEW reg \in Registers, NEW w, gp \in [Registers -> Word], gp' = [gp EXCEPT ![reg] = w]
    PROVE  Sets(reg, w) /\ (reg \in {0, 4, 5} => SameArgs)
  BY DEF Sets, SameArgs, Registers

\* What the line does besides leads to the next one.
Passes(p, f, k, n) ==
    output' = output /\ Goes(p, NextOf(p, LineAt(p, f, k, n)))

LEMMA NextIn ==
    ASSUME NEW p, NEW f, NEW k, NEW n, Does(p, f, k, n), NEW m \in {1, 2, 3, 4},
           AllInstr(Unit(p, f, k), m)
    PROVE  /\ n \in 1 .. m
           /\ n # m /\ Passes(p, f, k, n) => Goes(p, LineAt(p, f, k, n + 1))
           /\ n = m /\ Passes(p, f, k, n) => Goes(p, NextInstr(p, f, k))
<1>1. IsUnit(p, f, k) /\ n \in DOMAIN Unit(p, f, k)
  BY DoesLine
<1>2. DOMAIN Unit(p, f, k) = 1 .. m /\ \A j \in 1 .. m : Unit(p, f, k)[j].kind = "instr"
  BY DEF AllInstr
<1>3. /\ \A j \in 1 .. m : j # m => NextOf(p, LineAt(p, f, k, j)) = LineAt(p, f, k, j + 1)
      /\ NextOf(p, LineAt(p, f, k, m)) = NextInstr(p, f, k)
  BY <1>1, <1>2, NextInShort
<1> QED
  BY <1>1, <1>2, <1>3 DEF Passes

LEMMA DoesLI ==
    ASSUME NEW p, NEW f, NEW k, NEW n, Does(p, f, k, n), NEW reg \in {0, 4, 5}, NEW imm,
           Unit(p, f, k)[n] = Asm("LI", reg, imm, 0)
    PROVE  Sets(reg, WrapWord(imm)) /\ SameArgs /\ mem' = mem /\ fr' = fr /\ Passes(p, f, k, n)
<1>1. LineAt(p, f, k, n).line = Asm("LI", reg, imm, 0) /\ Runs(p, LineAt(p, f, k, n))
  BY DoesLine DEF Does
<1>2. PICK r : r = LineAt(p, f, k, n)
  OBVIOUS
<1>3. r.line.op = "LI" /\ r.line.a = reg /\ r.line.b = imm
  BY <1>1, <1>2, LineKinds
<1>4. /\ gp' = [gp EXCEPT ![reg] = WrapWord(imm)]
      /\ mem' = mem /\ fr' = fr /\ output' = output /\ Goes(p, NextOf(p, r))
  BY <1>1, <1>2, <1>3, RunsLI
<1>5. gp \in [Registers -> Word] /\ reg \in Registers
  BY DoesView DEF Registers
<1> QED
  BY <1>2, <1>4, <1>5, SetsOne DEF Passes

LEMMA DoesLD ==
    ASSUME NEW p, NEW f, NEW k, NEW n, Does(p, f, k, n), NEW reg \in Registers, NEW slot,
           Unit(p, f, k)[n] = LdSlot(p, f, reg, slot)
    PROVE  /\ Sets(reg, Cell(p, f, mem, slot)) /\ (reg \in {0, 4, 5} => SameArgs)
           /\ mem' = mem /\ fr' = fr /\ Passes(p, f, k, n)
<1>1. /\ LineAt(p, f, k, n).line = Asm("LD", reg, SlotAddress(p, f, slot), 0)
      /\ Runs(p, LineAt(p, f, k, n))
  BY DoesLine DEF Does, LdSlot
<1>2. PICK r : r = LineAt(p, f, k, n)
  OBVIOUS
<1>3. r.line.op = "LD" /\ r.line.a = reg /\ r.line.b = SlotAddress(p, f, slot)
  BY <1>1, <1>2, LineKinds
<1>4. /\ gp' = [gp EXCEPT ![reg] = Cell(p, f, mem, slot)]
      /\ mem' = mem /\ fr' = fr /\ output' = output /\ Goes(p, NextOf(p, r))
  BY <1>1, <1>2, <1>3, RunsLD DEF Cell
<1>5. gp \in [Registers -> Word]
  BY DoesView
<1> QED
  BY <1>2, <1>4, <1>5, SetsOne DEF Passes

LEMMA DoesArithmetic ==
    ASSUME NEW p, NEW f, NEW k, NEW n, Does(p, f, k, n), NEW op \in {"ADD", "SUB"},
           Unit(p, f, k)[n] = Asm(op, 4, 4, 5)
    PROVE  /\ Sets(4, WrapWord(IF op = "ADD" THEN gp[4] + gp[5] ELSE gp[4] - gp[5])) /\ SameArgs
           /\ mem' = mem /\ Passes(p, f, k, n)
<1>1. LineAt(p, f, k, n).line = Asm(op, 4, 4, 5) /\ Runs(p, LineAt(p, f, k, n))
  BY DoesLine DEF Does
<1>2. PICK r : r = LineAt(p, f, k, n)
  OBVIOUS
<1>3. r.line.op = op /\ r.line.a = 4 /\ r.line.b = 4 /\ r.line.c = 5
  BY <1>1, <1>2, LineKinds
<1>4. /\ gp' = [gp EXCEPT ![4] = WrapWord(IF op = "ADD" THEN gp[4] + gp[5] ELSE gp[4] - gp[5])]
      /\ mem' = mem /\ output' = output /\ Goes(p, NextOf(p, r))
  BY <1>1, <1>2, <1>3, RunsArithmetic
<1>5. gp \in [Registers -> Word] /\ 4 \in Registers /\ 4 \in {0, 4, 5}
  BY DoesView DEF Registers
<1> QED
  BY <1>2, <1>4, <1>5, SetsOne DEF Passes

LEMMA DoesCMP ==
    ASSUME NEW p, NEW f, NEW k, NEW n, Does(p, f, k, n),
           Unit(p, f, k)[n] = Asm("CMP", 4, 5, 0)
    PROVE  /\ FlagsOf(gp[4], gp[5], fr') /\ gp' = gp /\ SameArgs
           /\ mem' = mem /\ Passes(p, f, k, n)
<1>1. LineAt(p, f, k, n).line = Asm("CMP", 4, 5, 0) /\ Runs(p, LineAt(p, f, k, n))
  BY DoesLine DEF Does
<1>2. PICK r : r = LineAt(p, f, k, n)
  OBVIOUS
<1>3. r.line.op = "CMP" /\ r.line.a = 4 /\ r.line.b = 5
  BY <1>1, <1>2, LineKinds
<1>4. /\ FlagsOf(gp[4], gp[5], fr')
      /\ gp' = gp /\ mem' = mem /\ output' = output /\ Goes(p, NextOf(p, r))
  BY <1>1, <1>2, <1>3, RunsCMP
<1> QED
  BY <1>2, <1>4 DEF Passes, SameArgs

\* What is expected before each line, operation by operation.
LEMMA ReadyForOp ==
    ASSUME NEW p, NEW f, NEW i, NEW n, NEW m, NEW g, NEW flags
    PROVE  LET x == Cell(p, f, m, i.src)
               y == Cell(p, f, m, i.src2)
               ready == LineReady(p, f, i, n, m, g, flags)
           IN  /\ i.op = "CONST" => (ready <=> (n = 2 => g[4] = WrapWord(i.imm)))
               /\ i.op \in {"COPY", "PRINT", "PRINTD"} => (ready <=> (n = 2 => g[4] = x))
               /\ i.op = "ADD" =>
                     (ready <=> /\ n \in {2, 3} => g[4] = x
                                /\ n = 3 => g[5] = y
                                /\ n = 4 => g[4] = WrapWord(x + y))
               /\ i.op = "SUB" =>
                     (ready <=> /\ n \in {2, 3} => g[4] = x
                                /\ n = 3 => g[5] = y
                                /\ n = 4 => g[4] = WrapWord(x - y))
               /\ i.op = "NEG" =>
                     (ready <=> /\ n \in {2, 3} => g[4] = 0
                                /\ n = 3 => g[5] = x
                                /\ n = 4 => g[4] = WrapWord(-x))
               /\ i.op \in Booleans => (ready <=> BoolReady(p, f, i, n, m, g, flags))
               /\ i.op = "MEM_LOAD" =>
                     (ready <=> /\ n = 2 => g[4] = x
                                /\ n = 3 => x \in 0 .. DataBase - 1 /\ g[5] = m[x])
               /\ i.op = "MEM_STORE" =>
                     (ready <=> /\ n \in {2, 3} => g[4] = Cell(p, f, m, i.dst)
                                /\ n = 3 => g[5] = x)
               /\ i.op \in {"JUMP_Z", "JUMP_NZ"} =>
                     (ready <=> /\ n \in {2, 3} => g[4] = x
                                /\ n = 3 => g[5] = 0
                                /\ n = 4 => ("Z" \in flags <=> x = 0))
               /\ i.op = "RETURN" => (ready <=> (n = 2 => g[0] = x))
  BY DEF LineReady, Booleans, Comparisons

\* The slots are in memory.
LEMMA SlotsAreWords ==
    ASSUME NEW p, NEW f, NEW k, NEW n, Does(p, f, k, n), NEW slot \in SlotsOf(p, f)
    PROVE  /\ SlotAddress(p, f, slot) \in Addresses
           /\ Cell(p, f, mem, slot) \in Word /\ Cell(p, f, mem, slot) \in Int
<1>1. WellFormed(p) /\ f \in 1 .. Len(p.functions)
  BY DoesLine
<1>2. /\ sp \in Addresses /\ NextFree(p) \in Nat /\ NextFree(p) <= sp + 1
      /\ mem \in [Addresses -> Word]
  BY HereState DEF Does, Runs, Step
<1>3. PICK x : x = Owned(p, f, slot)
  OBVIOUS
<1>4. x \in SlotNames(p) /\ SlotAddress(p, x[1], x[2]) = SlotAddress(p, f, slot)
  BY <1>1, <1>3, OwnedSlot
<1>5. PICK a : a = SlotAddress(p, f, slot)
  OBVIOUS
<1>6. a \in Int /\ DataBase <= a /\ a < NextFree(p)
  BY <1>1, <1>4, <1>5, SlotCell
<1>7. PICK top, free : top = sp /\ free = NextFree(p)
  OBVIOUS
<1>8. a \in 0 .. MemorySize - 1
  BY <1>2, <1>6, <1>7, AddressMapAssumption, VMAssumption DEF Addresses
<1> QED
  BY <1>2, <1>5, <1>8, WordFacts DEF Addresses, Cell

\* What the IR computes.
LEMMA ResultIs ==
    ASSUME NEW p, NEW f, NEW k, NEW n, Does(p, f, k, n), InstrAt(p, f, k).op # "CALL"
    PROVE  LET i == InstrAt(p, f, k)
               x == Cell(p, f, mem, i.src)
               y == Cell(p, f, mem, i.src2)
           IN  /\ i.op = "CONST" => IR!Result(i) = WrapWord(i.imm)
               /\ i.op = "COPY" => IR!Result(i) = x
               /\ i.op = "ADD" => IR!Result(i) = WrapWord(x + y)
               /\ i.op = "SUB" => IR!Result(i) = WrapWord(x - y)
               /\ i.op = "NEG" => IR!Result(i) = WrapWord(-x)
               /\ i.op \in Booleans => IR!Result(i) = IR!Truth(Holds(p, f, mem, i))
<1> DEFINE i == InstrAt(p, f, k)
           x == Cell(p, f, mem, i.src)
           y == Cell(p, f, mem, i.src2)
<1>1. UsesSlots(p, f, i)
  BY DoesView
<1>2. \A slot \in SlotsOf(p, f) : IR!Value(slot) = Cell(p, f, mem, slot)
  BY DoesInIR
<1>3. i.op \in LoadsSrc => IR!Value(i.src) = x
  BY <1>1, <1>2 DEF UsesSlots
<1>4. i.op \in {"ADD", "SUB"} \cup Comparisons => IR!Value(i.src2) = y
  BY <1>1, <1>2 DEF UsesSlots
<1>5. \A v : IR!WrapWord(v) = WrapWord(v)
  BY SameWords
<1> HIDE DEF i
<1>6. i.op = "CONST" => IR!Result(i) = WrapWord(i.imm)
  BY <1>5 DEF IR!Result
<1>7. i.op = "COPY" => IR!Result(i) = x
  BY <1>3 DEF IR!Result, LoadsSrc
<1>8. i.op = "ADD" => IR!Result(i) = WrapWord(x + y)
  BY <1>3, <1>4, <1>5 DEF IR!Result, LoadsSrc
<1>9. i.op = "SUB" => IR!Result(i) = WrapWord(x - y)
  BY <1>3, <1>4, <1>5 DEF IR!Result, LoadsSrc
<1>10. i.op = "NEG" => IR!Result(i) = WrapWord(-x)
  BY <1>3, <1>5 DEF IR!Result, LoadsSrc
<1>11. i.op = "NOT" => IR!Result(i) = IR!Truth(Holds(p, f, mem, i))
  <2> SUFFICES ASSUME i.op = "NOT" PROVE IR!Result(i) = IR!Truth(Holds(p, f, mem, i))
    OBVIOUS
  <2>1. IR!Result(i) = IR!Truth(x = 0)
    BY <1>3 DEF IR!Result, LoadsSrc
  <2>2. Holds(p, f, mem, i) <=> x = 0
    BY DEF Holds, Compares, First, Second
  <2> QED
    BY <2>1, <2>2 DEF IR!Truth
<1>12. i.op \in Comparisons => IR!Result(i) = IR!Truth(Holds(p, f, mem, i))
  <2> SUFFICES ASSUME i.op \in Comparisons PROVE IR!Result(i) = IR!Truth(Holds(p, f, mem, i))
    OBVIOUS
  <2>1. IR!Value(i.src) = x /\ IR!Value(i.src2) = y
    BY <1>3, <1>4 DEF LoadsSrc
  <2>2. x \in Int /\ y \in Int
    <3>1. \A slot \in SlotsOf(p, f) : Cell(p, f, mem, slot) \in Int
      BY SlotsAreWords
    <3> QED
      BY <1>1, <3>1 DEF UsesSlots, LoadsSrc
  <2>3. Holds(p, f, mem, i) <=> Compares(i.op, x, y)
    BY DEF Holds, First, Second, Comparisons
  <2> HIDE DEF x, y
  <2>4. CASE i.op = "CMP_EQ"
    BY <2>1, <2>3, <2>4 DEF IR!Result, IR!Truth, Compares
  <2>5. CASE i.op = "CMP_NE"
    BY <2>1, <2>3, <2>5 DEF IR!Result, IR!Truth, Compares
  <2>6. CASE i.op = "CMP_GT"
    BY <2>1, <2>3, <2>6 DEF IR!Result, IR!Truth, Compares
  <2>7. CASE i.op = "CMP_LT"
    BY <2>1, <2>3, <2>7 DEF IR!Result, IR!Truth, Compares
  <2>8. CASE i.op = "CMP_GE"
    BY <2>1, <2>2, <2>3, <2>8 DEF IR!Result, IR!Truth, Compares
  <2>9. CASE i.op = "CMP_LE"
    BY <2>1, <2>2, <2>3, <2>9 DEF IR!Result, IR!Truth, Compares
  <2> QED
    BY <2>4, <2>5, <2>6, <2>7, <2>8, <2>9 DEF Comparisons
<1> QED
  BY <1>6, <1>7, <1>8, <1>9, <1>10, <1>11, <1>12 DEF Booleans, i

LEMMA Computes ==
    ASSUME NEW p, NEW f, NEW k, NEW n, Does(p, f, k, n),
           InstrAt(p, f, k).op \in WritesDst \ {"MEM_LOAD"},
           Unit(p, f, k)[n] = StSlot(p, f, 4, InstrAt(p, f, k).dst),
           NextOf(p, LineAt(p, f, k, n)) = NextInstr(p, f, k),
           gp[4] = IR!Result(InstrAt(p, f, k))
    PROVE  Simulated
<1> DEFINE i == InstrAt(p, f, k)
<1>1. i.op # "CALL" /\ i.op \notin {"RETURN", "RETURN_VOID"} /\ i.op # "MEM_LOAD"
  BY DEF WritesDst, Comparisons
<1>2. /\ LineAt(p, f, k, n).line = Asm("ST", 4, SlotAddress(p, f, i.dst), 0)
      /\ Runs(p, LineAt(p, f, k, n)) /\ k + 1 \in 1 .. Len(p.functions[f].body)
  BY <1>1, DoesLine DEF Does, StSlot
<1>3. PICK r : r = LineAt(p, f, k, n)
  OBVIOUS
<1>4. r.line.op = "ST" /\ r.line.a = 4 /\ r.line.b = SlotAddress(p, f, i.dst)
  BY <1>2, <1>3, LineKinds
<1>5. /\ mem' = [mem EXCEPT ![SlotAddress(p, f, i.dst)] = gp[4]]
      /\ SlotAddress(p, f, i.dst) \in Addresses
      /\ gp' = gp /\ fr' = fr /\ output' = output
      /\ Goes(p, NextInstr(p, f, k))
  BY <1>2, <1>3, <1>4, RunsST
<1>6. i.dst \in SlotsOf(p, f) /\ IRRet = 0
  BY <1>1, DoesView DEF UsesSlots
<1>7. /\ IR!Assign(i.dst, gp[4])
      /\ IR!GoOn /\ Ready' /\ CallsPending' /\ IRRet' = 0
      /\ UNCHANGED <<Source, IRFrames, IRArgs, IRStore, output>>
  BY <1>2, <1>5, <1>6, Stores
<1>8. IR!here = i /\ \A ops : i.op \in ops => IR!Doing(ops)
  BY <1>1, DoesInIR
<1>9. i.op \in {"CONST", "COPY", "ADD", "SUB", "NEG", "NOT", "CMP_EQ", "CMP_NE",
                "CMP_GT", "CMP_LT", "CMP_GE", "CMP_LE"}
  BY DEF WritesDst, Comparisons
<1>10. IR!Compute
  BY <1>6, <1>7, <1>8, <1>9 DEF IR!Compute
<1>11. IR!Next
  BY <1>10 DEF IR!Next
<1> QED
  BY <1>7, <1>11 DEF Simulated

-----------------------------------------------------------------------------
(* The instructions of the IR, one by one.                                 *)

\* Each instruction, line by line.
LEMMA DoesConst ==
    ASSUME NEW p, NEW f, NEW k, NEW n, Does(p, f, k, n), InstrAt(p, f, k).op = "CONST"
    PROVE  Simulated
<1> DEFINE i == InstrAt(p, f, k)
           u == Unit(p, f, k)
<1>1. Are2(u, Asm("LI", 4, i.imm, 0), StSlot(p, f, 4, i.dst))
  BY DoesLine DEF IRUnit, InstrAt
<1>2. AllInstr(u, 2)
  BY <1>1, FewInstr, LineKinds DEF StSlot
<1>3. n \in 1 .. 2
  BY <1>2, NextIn
<1>4. CASE n = 1
  <2>1. /\ Sets(4, WrapWord(i.imm)) /\ SameArgs /\ mem' = mem /\ Passes(p, f, k, n)
    BY <1>1, <1>4, DoesLI DEF Are2
  <2>2. Goes(p, LineAt(p, f, k, 2))
    BY <1>2, <1>4, <2>1, NextIn
  <2>3. LineReady(p, f, i, 2, mem', gp', fr')
    BY <2>1, ReadyForOp DEF Sets
  <2> QED
    BY <2>1, <2>2, <2>3, StaysInside DEF Passes
<1>5. CASE n = 2
  <2>1. gp[4] = WrapWord(i.imm)
    BY <1>5, DoesView, ReadyForOp
  <2>2. gp[4] = IR!Result(i)
    BY <2>1, ResultIs
  <2>3. NextOf(p, LineAt(p, f, k, n)) = NextInstr(p, f, k)
    BY <1>2, <1>5, DoesLine, NextInShort DEF AllInstr
  <2> QED
    BY <1>1, <1>5, <2>2, <2>3, Computes DEF Are2, WritesDst
<1> QED
  BY <1>3, <1>4, <1>5

LEMMA DoesCopy ==
    ASSUME NEW p, NEW f, NEW k, NEW n, Does(p, f, k, n), InstrAt(p, f, k).op = "COPY"
    PROVE  Simulated
<1> DEFINE i == InstrAt(p, f, k)
           u == Unit(p, f, k)
<1>1. Are2(u, LdSlot(p, f, 4, i.src), StSlot(p, f, 4, i.dst))
  BY DoesLine DEF IRUnit, InstrAt
<1>2. AllInstr(u, 2)
  BY <1>1, FewInstr, LineKinds DEF StSlot, LdSlot
<1>3. n \in 1 .. 2 /\ 4 \in Registers
  BY <1>2, NextIn DEF Registers
<1>4. CASE n = 1
  <2>1. /\ Sets(4, Cell(p, f, mem, i.src)) /\ SameArgs /\ mem' = mem /\ Passes(p, f, k, n)
    BY <1>1, <1>3, <1>4, DoesLD DEF Are2
  <2>2. Goes(p, LineAt(p, f, k, 2))
    BY <1>2, <1>4, <2>1, NextIn
  <2>3. LineReady(p, f, i, 2, mem', gp', fr')
    BY <2>1, ReadyForOp DEF Sets
  <2> QED
    BY <2>1, <2>2, <2>3, StaysInside DEF Passes
<1>5. CASE n = 2
  <2>1. gp[4] = Cell(p, f, mem, i.src)
    BY <1>5, DoesView, ReadyForOp
  <2>2. gp[4] = IR!Result(i)
    BY <2>1, ResultIs
  <2>3. NextOf(p, LineAt(p, f, k, n)) = NextInstr(p, f, k)
    BY <1>2, <1>5, DoesLine, NextInShort DEF AllInstr
  <2> QED
    BY <1>1, <1>5, <2>2, <2>3, Computes DEF Are2, WritesDst
<1> QED
  BY <1>3, <1>4, <1>5

LEMMA DoesSum ==
    ASSUME NEW p, NEW f, NEW k, NEW n, Does(p, f, k, n), InstrAt(p, f, k).op \in {"ADD", "SUB"}
    PROVE  Simulated
<1> DEFINE i == InstrAt(p, f, k)
           u == Unit(p, f, k)
           x == Cell(p, f, mem, i.src)
           y == Cell(p, f, mem, i.src2)
<1>1. Are4(u, LdSlot(p, f, 4, i.src), LdSlot(p, f, 5, i.src2), Asm(i.op, 4, 4, 5),
           StSlot(p, f, 4, i.dst))
  BY DoesLine DEF IRUnit, InstrAt
<1>2. AllInstr(u, 4)
  BY <1>1, FewInstr, LineKinds DEF StSlot, LdSlot
<1>3. n \in 1 .. 4 /\ 4 \in Registers /\ 5 \in Registers
  BY <1>2, NextIn DEF Registers
<1>4. i.op = "ADD" \/ i.op = "SUB"
  OBVIOUS
<1>5. CASE n = 1
  <2>1. /\ Sets(4, x) /\ SameArgs /\ mem' = mem /\ Passes(p, f, k, n)
    BY <1>1, <1>3, <1>5, DoesLD DEF Are4
  <2>2. Goes(p, LineAt(p, f, k, 2))
    BY <1>2, <1>5, <2>1, NextIn
  <2>3. LineReady(p, f, i, 2, mem', gp', fr')
    BY <1>4, <2>1, ReadyForOp DEF Sets
  <2> QED
    BY <2>1, <2>2, <2>3, StaysInside DEF Passes
<1>6. CASE n = 2
  <2>1. /\ Sets(5, y) /\ SameArgs /\ mem' = mem /\ Passes(p, f, k, n)
    BY <1>1, <1>3, <1>6, DoesLD DEF Are4
  <2>2. Goes(p, LineAt(p, f, k, 3))
    BY <1>2, <1>6, <2>1, NextIn
  <2>3. gp[4] = x
    BY <1>4, <1>6, DoesView, ReadyForOp
  <2>4. gp'[4] = x /\ gp'[5] = y
    BY <1>3, <2>1, <2>3 DEF Sets
  <2>5. LineReady(p, f, i, 3, mem', gp', fr')
    BY <1>4, <2>1, <2>4, ReadyForOp
  <2> QED
    BY <2>1, <2>2, <2>5, StaysInside DEF Passes
<1>7. CASE n = 3
  <2>1. /\ Sets(4, WrapWord(IF i.op = "ADD" THEN gp[4] + gp[5] ELSE gp[4] - gp[5]))
        /\ SameArgs /\ mem' = mem /\ Passes(p, f, k, n)
    BY <1>1, <1>7, DoesArithmetic DEF Are4
  <2>2. Goes(p, LineAt(p, f, k, 4))
    BY <1>2, <1>7, <2>1, NextIn
  <2>3. gp[4] = x /\ gp[5] = y
    BY <1>4, <1>7, DoesView, ReadyForOp
  <2>4. gp'[4] = WrapWord(IF i.op = "ADD" THEN x + y ELSE x - y)
    BY <2>1, <2>3 DEF Sets
  <2>5. LineReady(p, f, i, 4, mem', gp', fr')
    BY <1>4, <2>1, <2>4, ReadyForOp
  <2> QED
    BY <2>1, <2>2, <2>5, StaysInside DEF Passes
<1>8. CASE n = 4
  <2>1. gp[4] = WrapWord(IF i.op = "ADD" THEN x + y ELSE x - y)
    BY <1>4, <1>8, DoesView, ReadyForOp
  <2>2. gp[4] = IR!Result(i)
    BY <1>4, <2>1, ResultIs
  <2>3. NextOf(p, LineAt(p, f, k, n)) = NextInstr(p, f, k)
    BY <1>2, <1>8, DoesLine, NextInShort DEF AllInstr
  <2> QED
    BY <1>1, <1>8, <2>2, <2>3, Computes DEF Are4, WritesDst
<1> QED
  BY <1>3, <1>5, <1>6, <1>7, <1>8

LEMMA DoesNeg ==
    ASSUME NEW p, NEW f, NEW k, NEW n, Does(p, f, k, n), InstrAt(p, f, k).op = "NEG"
    PROVE  Simulated
<1> DEFINE i == InstrAt(p, f, k)
           u == Unit(p, f, k)
           x == Cell(p, f, mem, i.src)
<1>1. Are4(u, Asm("LI", 4, 0, 0), LdSlot(p, f, 5, i.src), Asm("SUB", 4, 4, 5),
           StSlot(p, f, 4, i.dst))
  BY DoesLine DEF IRUnit, InstrAt
<1>2. AllInstr(u, 4)
  BY <1>1, FewInstr, LineKinds DEF StSlot, LdSlot
<1>3. n \in 1 .. 4 /\ 4 \in Registers /\ 5 \in Registers
  BY <1>2, NextIn DEF Registers
<1>4. CASE n = 1
  <2>1. /\ Sets(4, WrapWord(0)) /\ SameArgs /\ mem' = mem /\ Passes(p, f, k, n)
    BY <1>1, <1>4, DoesLI DEF Are4
  <2>2. Goes(p, LineAt(p, f, k, 2))
    BY <1>2, <1>4, <2>1, NextIn
  <2>3. gp'[4] = 0
    BY <2>1, WordFacts, WordsFit DEF Sets
  <2>4. LineReady(p, f, i, 2, mem', gp', fr')
    BY <2>1, <2>3, ReadyForOp
  <2> QED
    BY <2>1, <2>2, <2>4, StaysInside DEF Passes
<1>5. CASE n = 2
  <2>1. /\ Sets(5, x) /\ SameArgs /\ mem' = mem /\ Passes(p, f, k, n)
    BY <1>1, <1>3, <1>5, DoesLD DEF Are4
  <2>2. Goes(p, LineAt(p, f, k, 3))
    BY <1>2, <1>5, <2>1, NextIn
  <2>3. gp[4] = 0
    BY <1>5, DoesView, ReadyForOp
  <2>4. gp'[4] = 0 /\ gp'[5] = x
    BY <1>3, <2>1, <2>3 DEF Sets
  <2>5. LineReady(p, f, i, 3, mem', gp', fr')
    BY <2>1, <2>4, ReadyForOp
  <2> QED
    BY <2>1, <2>2, <2>5, StaysInside DEF Passes
<1>6. CASE n = 3
  <2>1. /\ Sets(4, WrapWord(gp[4] - gp[5]))
        /\ SameArgs /\ mem' = mem /\ Passes(p, f, k, n)
    BY <1>1, <1>6, DoesArithmetic DEF Are4
  <2>2. Goes(p, LineAt(p, f, k, 4))
    BY <1>2, <1>6, <2>1, NextIn
  <2>3. gp[4] = 0 /\ gp[5] = x
    BY <1>6, DoesView, ReadyForOp
  <2>4. x \in Int
    BY DoesView, SlotsAreWords DEF UsesSlots, LoadsSrc
  <2>5. 0 - x = -x
    BY <2>4
  <2>6. gp'[4] = WrapWord(-x)
    BY <2>1, <2>3, <2>5 DEF Sets
  <2>7. LineReady(p, f, i, 4, mem', gp', fr')
    BY <2>1, <2>6, ReadyForOp
  <2> QED
    BY <2>1, <2>2, <2>7, StaysInside DEF Passes
<1>7. CASE n = 4
  <2>1. gp[4] = WrapWord(-x)
    BY <1>7, DoesView, ReadyForOp
  <2>2. gp[4] = IR!Result(i)
    BY <2>1, ResultIs
  <2>3. NextOf(p, LineAt(p, f, k, n)) = NextInstr(p, f, k)
    BY <1>2, <1>7, DoesLine, NextInShort DEF AllInstr
  <2> QED
    BY <1>1, <1>7, <2>2, <2>3, Computes DEF Are4, WritesDst
<1> QED
  BY <1>3, <1>4, <1>5, <1>6, <1>7

LEMMA DoesMemLoad ==
    ASSUME NEW p, NEW f, NEW k, NEW n, Does(p, f, k, n), InstrAt(p, f, k).op = "MEM_LOAD"
    PROVE  Simulated
<1> DEFINE i == InstrAt(p, f, k)
           u == Unit(p, f, k)
           x == Cell(p, f, mem, i.src)
           r == LineAt(p, f, k, n)
<1>1. Are3(u, LdSlot(p, f, 4, i.src), Asm("LDR", 5, 4, 0), StSlot(p, f, 5, i.dst))
  BY DoesLine DEF IRUnit, InstrAt
<1>2. AllInstr(u, 3)
  BY <1>1, FewInstr, LineKinds DEF StSlot, LdSlot
<1>3. n \in 1 .. 3 /\ 4 \in Registers /\ 5 \in Registers /\ gp \in [Registers -> Word]
  BY <1>2, NextIn, DoesView DEF Registers
<1>4. Runs(p, r) /\ r.line = u[n] /\ k + 1 \in 1 .. Len(p.functions[f].body)
  BY DoesLine DEF Does
<1>5. CASE n = 1
  <2>1. /\ Sets(4, x) /\ SameArgs /\ mem' = mem /\ Passes(p, f, k, n)
    BY <1>1, <1>3, <1>5, DoesLD DEF Are3
  <2>2. Goes(p, LineAt(p, f, k, 2))
    BY <1>2, <1>5, <2>1, NextIn
  <2>3. LineReady(p, f, i, 2, mem', gp', fr')
    BY <2>1, ReadyForOp DEF Sets
  <2> QED
    BY <2>1, <2>2, <2>3, StaysInside DEF Passes
<1>6. CASE n = 2
  <2>1. r.line.op = "LDR" /\ r.line.a = 5 /\ r.line.b = 4
    BY <1>1, <1>4, <1>6, LineKinds DEF Are3
  <2>2. gp[4] = x
    BY <1>6, DoesView, ReadyForOp
  <2>3. /\ gp' = [gp EXCEPT ![5] = mem[gp[4]]] /\ gp[4] \in 0 .. DataBase - 1
        /\ mem' = mem /\ output' = output /\ Goes(p, NextOf(p, r))
    BY <1>4, <2>1, RunsLDR
  <2>4. Sets(5, mem[gp[4]]) /\ SameArgs
    BY <1>3, <2>3, SetsOne
  <2>5. Goes(p, LineAt(p, f, k, 3))
    BY <1>2, <1>6, <2>3, NextIn DEF Passes
  <2>6. x \in 0 .. DataBase - 1 /\ gp'[5] = mem[x] /\ mem' = mem
    BY <2>2, <2>3, <2>4 DEF Sets
  <2>7. LineReady(p, f, i, 3, mem', gp', fr')
    BY <2>6, ReadyForOp
  <2> QED
    BY <2>3, <2>4, <2>5, <2>7, StaysInside
<1>7. CASE n = 3
  <2>1. x \in 0 .. DataBase - 1 /\ gp[5] = mem[x]
    BY <1>7, DoesView, ReadyForOp
  <2>2. r.line = Asm("ST", 5, SlotAddress(p, f, i.dst), 0)
    BY <1>1, <1>4, <1>7 DEF Are3, StSlot
  <2>3. r.line.op = "ST" /\ r.line.a = 5 /\ r.line.b = SlotAddress(p, f, i.dst)
    BY <2>2, LineKinds
  <2>4. /\ mem' = [mem EXCEPT ![SlotAddress(p, f, i.dst)] = gp[5]]
        /\ SlotAddress(p, f, i.dst) \in Addresses
        /\ gp' = gp /\ output' = output /\ Goes(p, NextOf(p, r))
    BY <1>4, <2>3, RunsST
  <2>5. Goes(p, NextInstr(p, f, k))
    BY <1>2, <1>7, <2>4, NextIn DEF Passes
  <2>6. UsesSlots(p, f, i) /\ IRRet = 0
    BY DoesView
  <2>7. i.dst \in SlotsOf(p, f) /\ i.src \in SlotsOf(p, f)
    BY <2>6 DEF UsesSlots, LoadsSrc, WritesDst
  <2>8. /\ IR!Assign(i.dst, gp[5])
        /\ IR!GoOn /\ Ready' /\ CallsPending' /\ IRRet' = 0
        /\ UNCHANGED <<Source, IRFrames, IRArgs, IRStore, output>>
    BY <1>4, <2>4, <2>5, <2>7, Stores
  <2>9. IR!here = i /\ IR!Doing({"MEM_LOAD"}) /\ IR!Value(i.src) = x
    BY <2>7, DoesInIR
  <2>10. gp[5] = IRStore[x]
    BY <2>1 DEF IRStore
  <2>11. IR!MemLoad
    BY <2>1, <2>6, <2>8, <2>9, <2>10 DEF IR!MemLoad
  <2>12. IR!Next
    BY <2>11 DEF IR!Next
  <2> QED
    BY <2>8, <2>12 DEF Simulated
<1> QED
  BY <1>3, <1>5, <1>6, <1>7

LEMMA DoesMemStore ==
    ASSUME NEW p, NEW f, NEW k, NEW n, Does(p, f, k, n), InstrAt(p, f, k).op = "MEM_STORE"
    PROVE  Simulated
<1> DEFINE i == InstrAt(p, f, k)
           u == Unit(p, f, k)
           x == Cell(p, f, mem, i.src)
           a == Cell(p, f, mem, i.dst)
           r == LineAt(p, f, k, n)
<1>1. Are3(u, LdSlot(p, f, 4, i.dst), LdSlot(p, f, 5, i.src), Asm("STR", 5, 4, 0))
  BY DoesLine DEF IRUnit, InstrAt
<1>2. AllInstr(u, 3)
  BY <1>1, FewInstr, LineKinds DEF LdSlot
<1>3. n \in 1 .. 3 /\ 4 \in Registers /\ 5 \in Registers /\ gp \in [Registers -> Word]
  BY <1>2, NextIn, DoesView DEF Registers
<1>4. Runs(p, r) /\ r.line = u[n] /\ k + 1 \in 1 .. Len(p.functions[f].body) /\ WellFormed(p)
  BY DoesLine DEF Does
<1>5. CASE n = 1
  <2>1. /\ Sets(4, a) /\ SameArgs /\ mem' = mem /\ Passes(p, f, k, n)
    BY <1>1, <1>3, <1>5, DoesLD DEF Are3
  <2>2. Goes(p, LineAt(p, f, k, 2))
    BY <1>2, <1>5, <2>1, NextIn
  <2>3. LineReady(p, f, i, 2, mem', gp', fr')
    BY <2>1, ReadyForOp DEF Sets
  <2> QED
    BY <2>1, <2>2, <2>3, StaysInside DEF Passes
<1>6. CASE n = 2
  <2>1. /\ Sets(5, x) /\ SameArgs /\ mem' = mem /\ Passes(p, f, k, n)
    BY <1>1, <1>3, <1>6, DoesLD DEF Are3
  <2>2. gp[4] = a
    BY <1>6, DoesView, ReadyForOp
  <2>3. Goes(p, LineAt(p, f, k, 3))
    BY <1>2, <1>6, <2>1, NextIn
  <2>4. gp'[4] = a /\ gp'[5] = x
    BY <1>3, <2>1, <2>2 DEF Sets
  <2>5. LineReady(p, f, i, 3, mem', gp', fr')
    BY <2>1, <2>4, ReadyForOp
  <2> QED
    BY <2>1, <2>3, <2>5, StaysInside DEF Passes
<1>7. CASE n = 3
  <2>1. gp[4] = a /\ gp[5] = x
    BY <1>7, DoesView, ReadyForOp
  <2>2. r.line.op = "STR" /\ r.line.a = 5 /\ r.line.b = 4
    BY <1>1, <1>4, <1>7, LineKinds DEF Are3
  <2>3. /\ mem' = [mem EXCEPT ![gp[4]] = gp[5]] /\ gp[4] \in 0 .. DataBase - 1
        /\ gp' = gp /\ output' = output /\ Goes(p, NextOf(p, r))
    BY <1>4, <2>2, RunsSTR
  <2>4. Goes(p, NextInstr(p, f, k))
    BY <1>2, <1>7, <2>3, NextIn DEF Passes
  <2>5. /\ UsesSlots(p, f, i) /\ IRRet = 0 /\ IRSlots = MemSlots(p, mem)
        /\ 0 .. DataBase - 1 \subseteq Addresses /\ mem \in [Addresses -> Word]
    BY DoesView
  <2>6. i.dst \in SlotsOf(p, f) /\ i.src \in SlotsOf(p, f)
    BY <2>5 DEF UsesSlots, LoadsSrc, WritesDst
  <2>7. /\ Source' = Source /\ IRFrames' = IRFrames
        /\ IRSlots' = MemSlots(p, mem') /\ IRRet' = 0
        /\ IR!GoOn /\ Ready' /\ CallsPending'
    BY <1>4, <2>4, Finishes
  <2>8. PICK b, w : b = gp[4] /\ w = gp[5]
    OBVIOUS
  <2>9. mem' = [mem EXCEPT ![b] = w] /\ b \in 0 .. DataBase - 1
    BY <2>3, <2>8
  <2>10. /\ \A y \in SlotNames(p) : InCell(p, mem', y) = InCell(p, mem, y)
         /\ IRStore' = [IRStore EXCEPT ![b] = w]
    BY <1>4, <2>5, <2>9, StoreIsNoSlot
  <2>11. IRSlots' = IRSlots
    BY <1>4, <2>5, <2>7, <2>10, SameCells
  <2>12. IRArgs' = IRArgs
    BY <2>3, ArgsStay DEF SameArgs
  <2>13. IR!here = i /\ IR!Doing({"MEM_STORE"}) /\ IR!Value(i.src) = x /\ IR!Value(i.dst) = a
    BY <2>6, DoesInIR
  <2>14. IR!MemStore
    BY <2>1, <2>3, <2>5, <2>7, <2>8, <2>9, <2>10, <2>11, <2>12, <2>13 DEF IR!MemStore
  <2>15. IR!Next
    BY <2>14 DEF IR!Next
  <2> QED
    BY <2>7, <2>15 DEF Simulated
<1> QED
  BY <1>3, <1>5, <1>6, <1>7

LEMMA DoesPrint ==
    ASSUME NEW p, NEW f, NEW k, NEW n, Does(p, f, k, n),
           InstrAt(p, f, k).op \in {"PRINT", "PRINTD"}
    PROVE  Simulated
<1> DEFINE i == InstrAt(p, f, k)
           u == Unit(p, f, k)
           x == Cell(p, f, mem, i.src)
           r == LineAt(p, f, k, n)
<1>1. Are2(u, LdSlot(p, f, 4, i.src), Asm(i.op, 4, 0, 0))
  BY DoesLine DEF IRUnit, InstrAt
<1>2. AllInstr(u, 2)
  BY <1>1, FewInstr, LineKinds DEF LdSlot
<1>3. n \in 1 .. 2 /\ 4 \in Registers
  BY <1>2, NextIn DEF Registers
<1>4. /\ Runs(p, r) /\ r.line = u[n] /\ k + 1 \in 1 .. Len(p.functions[f].body) /\ WellFormed(p)
  BY DoesLine DEF Does
<1>5. CASE n = 1
  <2>1. /\ Sets(4, x) /\ SameArgs /\ mem' = mem /\ Passes(p, f, k, n)
    BY <1>1, <1>3, <1>5, DoesLD DEF Are2
  <2>2. Goes(p, LineAt(p, f, k, 2))
    BY <1>2, <1>5, <2>1, NextIn
  <2>3. LineReady(p, f, i, 2, mem', gp', fr')
    BY <2>1, ReadyForOp DEF Sets
  <2> QED
    BY <2>1, <2>2, <2>3, StaysInside DEF Passes
<1>6. CASE n = 2
  <2>1. gp[4] = x
    BY <1>6, DoesView, ReadyForOp
  <2>2. r.line.op = i.op /\ r.line.a = 4
    BY <1>1, <1>4, <1>6, LineKinds DEF Are2
  <2>3. /\ gp' = gp /\ mem' = mem /\ output' = Append(output, <<i.op, gp[4]>>)
        /\ Goes(p, NextOf(p, r))
    BY <1>4, <2>2, RunsPrint
  <2>4. NextOf(p, r) = NextInstr(p, f, k)
    BY <1>2, <1>6, DoesLine, NextInShort DEF AllInstr
  <2>5. /\ Source' = Source /\ IRFrames' = IRFrames
        /\ IRSlots' = MemSlots(p, mem') /\ IRRet' = 0
        /\ IR!GoOn /\ Ready' /\ CallsPending'
    BY <1>4, <2>3, <2>4, Finishes
  <2>6. UsesSlots(p, f, i) /\ IRRet = 0 /\ IRSlots = MemSlots(p, mem)
    BY DoesView
  <2>7. i.src \in SlotsOf(p, f)
    BY <2>6 DEF UsesSlots, LoadsSrc
  <2>8. IR!here = i /\ IR!Doing({"PRINT", "PRINTD"}) /\ IR!Value(i.src) = x
    BY <2>7, DoesInIR
  <2>9. IRArgs' = IRArgs /\ IRStore' = IRStore
    BY <2>3, ArgsStay DEF SameArgs, IRStore
  <2>10. IR!PrintWord
    BY <2>1, <2>3, <2>5, <2>6, <2>8, <2>9 DEF IR!PrintWord
  <2>11. IR!Next
    BY <2>10 DEF IR!Next
  <2> QED
    BY <2>5, <2>11 DEF Simulated
<1> QED
  BY <1>3, <1>5, <1>6

LEMMA DoesReceive ==
    ASSUME NEW p, NEW f, NEW k, NEW n, Does(p, f, k, n),
           InstrAt(p, f, k).op = "CALL", n = 2
    PROVE  Simulated
<1> DEFINE i == InstrAt(p, f, k)
           u == Unit(p, f, k)
           r == LineAt(p, f, k, n)
<1>1. n \in DOMAIN u /\ IRUnit(p, f, k, u)
  BY DoesLine
<1>2. i.dst # "" /\ Are2(u, AsmTo("CALL", i.label), StSlot(p, f, 0, i.dst))
  <2>1. i.dst = "" => Are1(u, AsmTo("CALL", i.label))
    BY <1>1 DEF IRUnit, InstrAt
  <2>2. i.dst # "" => Are2(u, AsmTo("CALL", i.label), StSlot(p, f, 0, i.dst))
    BY <1>1 DEF IRUnit, InstrAt
  <2>3. ~ Are1(u, AsmTo("CALL", i.label))
    BY <1>1 DEF Are1
  <2> QED
    BY <2>1, <2>2, <2>3
<1>3. AllInstr(u, 2)
  <2>1. AsmTo("CALL", i.label).kind = "instr" /\ StSlot(p, f, 0, i.dst).kind = "instr"
    BY LineKinds DEF StSlot
  <2> QED
    BY <1>2, <2>1, FewInstr
<1>4. Runs(p, r) /\ r.line = u[2] /\ k + 1 \in 1 .. Len(p.functions[f].body)
  BY DoesLine DEF Does
<1>5. r.line = Asm("ST", 0, SlotAddress(p, f, i.dst), 0)
  BY <1>2, <1>4 DEF Are2, StSlot
<1>6. r.line.op = "ST" /\ r.line.a = 0 /\ r.line.b = SlotAddress(p, f, i.dst)
  BY <1>5, LineKinds
<1>7. /\ mem' = [mem EXCEPT ![SlotAddress(p, f, i.dst)] = gp[0]]
      /\ SlotAddress(p, f, i.dst) \in Addresses
      /\ gp' = gp /\ output' = output /\ Goes(p, NextOf(p, r))
  BY <1>4, <1>6, RunsST
<1>8. Goes(p, NextInstr(p, f, k))
  BY <1>3, <1>7, NextIn DEF Passes
<1>9. /\ UsesSlots(p, f, i) /\ IRRet = gp[0] /\ IRStatus = "running"
      /\ IRLoc = Place(f, k, "receive")
  BY DoesView
<1>10. i.dst \in SlotsOf(p, f)
  BY <1>2, <1>9 DEF UsesSlots
<1>11. /\ IR!Assign(i.dst, gp[0])
       /\ IR!GoOn /\ Ready' /\ CallsPending' /\ IRRet' = 0
       /\ UNCHANGED <<Source, IRFrames, IRArgs, IRStore, output>>
  BY <1>4, <1>7, <1>8, <1>10, Stores
<1>12. IR!here = i
  BY DoesInIR
<1>13. IR!Receive
  BY <1>9, <1>11, <1>12 DEF IR!Receive, Place, IR!NoWord
<1>14. IR!Next
  BY <1>13 DEF IR!Next
<1> QED
  BY <1>11, <1>14 DEF Simulated

LEMMA DoesArg ==
    ASSUME NEW p, NEW f, NEW k, NEW n, Does(p, f, k, n), InstrAt(p, f, k).op = "ARG"
    PROVE  Simulated
<1> DEFINE i == InstrAt(p, f, k)
           u == Unit(p, f, k)
           x == Cell(p, f, mem, i.src)
           r == LineAt(p, f, k, n)
<1>1. Are1(u, LdSlot(p, f, i.imm + 1, i.src))
  BY DoesLine DEF IRUnit, InstrAt
<1>2. AllInstr(u, 1)
  BY <1>1, FewInstr, LineKinds DEF LdSlot
<1>3. n = 1
  <2>1. n \in 1 .. 1
    BY <1>2, NextIn
  <2> QED
    BY <2>1
<1>4. Runs(p, r) /\ r.line = u[n] /\ k + 1 \in 1 .. Len(p.functions[f].body)
  BY DoesLine DEF Does
<1>5. r.line = Asm("LD", i.imm + 1, SlotAddress(p, f, i.src), 0)
  BY <1>1, <1>3, <1>4 DEF Are1, LdSlot
<1>6. /\ r.line.op = "LD" /\ r.line.a = i.imm + 1 /\ r.line.b = SlotAddress(p, f, i.src)
  BY <1>5, LineKinds
<1>7. /\ gp' = [gp EXCEPT ![i.imm + 1] = x]
      /\ mem' = mem /\ output' = output /\ Goes(p, NextOf(p, r))
  BY <1>4, <1>6, RunsLD DEF Cell
<1>8. i.imm + 1 \in Registers /\ gp \in [Registers -> Word]
  <2>1. instr.a = i.imm + 1 /\ instr.op = "LD" /\ Encoded(instr) /\ gp \in [Registers -> Word]
    BY <1>4, <1>6, PlainOperands DEF BranchOpcodes
  <2> QED
    BY <2>1 DEF Encoded, FirstIsRegister
<1>9. NextOf(p, r) = NextInstr(p, f, k)
  BY <1>2, <1>3, DoesLine, NextInShort DEF AllInstr
<1>10. /\ Source' = Source /\ IRFrames' = IRFrames
       /\ IRSlots' = MemSlots(p, mem') /\ IRRet' = 0
       /\ IR!GoOn /\ Ready' /\ CallsPending'
  BY <1>4, <1>7, <1>9, Finishes
<1>11. UsesSlots(p, f, i) /\ IRRet = 0 /\ IRSlots = MemSlots(p, mem)
  BY DoesView
<1>12. i.src \in SlotsOf(p, f) /\ i.imm <= 2
  BY <1>11 DEF UsesSlots, LoadsSrc
<1>13. IR!here = i /\ IR!Doing({"ARG"}) /\ IR!Value(i.src) = x
  BY <1>12, DoesInIR
<1>14. IRArgs' = [IRArgs EXCEPT ![i.imm + 1] = x]
  <2>1. PICK a, w : a = i.imm + 1 /\ w = x
    OBVIOUS
  <2>2. \A j \in 1 .. 3 : j \in Registers
    BY DEF Registers
  <2>3. \A j \in 1 .. 3 : gp'[j] = IF j = a THEN w ELSE gp[j]
    BY <1>7, <1>8, <2>1, <2>2
  <2> HIDE DEF i, x
  <2>4. IRArgs' = [j \in 1 .. 3 |-> IF j = a THEN w ELSE gp[j]]
    BY <2>3 DEF IRArgs
  <2>5. [IRArgs EXCEPT ![a] = w] = [j \in 1 .. 3 |-> IF j = a THEN w ELSE gp[j]]
    BY DEF IRArgs
  <2> QED
    BY <2>1, <2>4, <2>5
<1>15. IRStore' = IRStore
  BY <1>7 DEF IRStore
<1>16. IR!Arg
  BY <1>7, <1>10, <1>11, <1>13, <1>14, <1>15 DEF IR!Arg
<1>17. IR!Next
  BY <1>16 DEF IR!Next
<1> QED
  BY <1>10, <1>17 DEF Simulated

\* A label of a function is where the IR finds it.
LEMMA JumpTarget ==
    ASSUME NEW p, NEW f, NEW k, NEW n, Does(p, f, k, n), InstrAt(p, f, k).op \in JumpOps,
           NEW s, LabelLine(p, s, FnLabel(p, f, InstrAt(p, f, k).label)),
           NEW j, j = SkipTo(p, f, IR!LabelIndex(p, f, InstrAt(p, f, k).label))
    PROVE  NextOf(p, s) = LineAt(p, f, j, 1) /\ j \in 1 .. Len(p.functions[f].body)
<1> DEFINE body == p.functions[f].body
           label == InstrAt(p, f, k).label
<1>1. WellFormed(p) /\ f \in 1 .. Len(p.functions) /\ k \in 1 .. Len(body)
  BY DoesLine
<1>2. f \in DOMAIN p.functions /\ DOMAIN body = 1 .. Len(body) /\ Len(body) \in Nat
  BY <1>1, Lengths, BodyFacts
<1>3. Resolved(p)
  BY <1>1 DEF WellFormed
<1>4. \E m \in DOMAIN body : body[m].op = "LABEL" /\ body[m].label = label
  BY <1>1, <1>2, <1>3 DEF Resolved, InstrAt
<1>5. Charted(p, code, prog.map)
  BY HereIsOn DEF Does, Runs, Step
<1>6. ASSUME NEW m \in 1 .. Len(body), body[m].op = "LABEL", body[m].label = label
      PROVE  /\ LabelLine(p, LineAt(p, f, m, 1), FnLabel(p, f, label))
             /\ NextOf(p, LineAt(p, f, m, 1)) = LineAt(p, f, SkipTo(p, f, m + 1), 1)
             /\ SkipTo(p, f, m) = SkipTo(p, f, m + 1)
             /\ SkipTo(p, f, m) \in 1 .. Len(body)
  <2> DEFINE u == Unit(p, f, m)
  <2>1. IsUnit(p, f, m) /\ IRUnit(p, f, m, u) /\ m \in Nat /\ f \in 0 .. Len(p.functions)
    BY <1>1, <1>6, BodyUnitIs, Lengths
  <2>2. Are1(u, Label(FnLabel(p, f, label)))
    BY <1>6, <2>1 DEF IRUnit
  <2>3. u[1].kind = "label" /\ u[1].name = FnLabel(p, f, label) /\ DOMAIN u = 1 .. 1
    BY <2>2, LineKinds DEF Are1
  <2>4. 1 \in DOMAIN u /\ 1 + 1 \notin DOMAIN u
    BY <2>3
  <2>5. IsLine(p, f, m, 1) /\ ~ IsLine(p, f, m, 1 + 1)
    BY <2>1, <2>4 DEF IsLine
  <2>6. LineAt(p, f, m, 1).line = u[1] /\ ValidSite(p, LineAt(p, f, m, 1))
    BY <2>1, <2>5, LineIsSite
  <2>7. LabelLine(p, LineAt(p, f, m, 1), FnLabel(p, f, label))
    BY <2>3, <2>6 DEF LabelLine
  <2>8. NextOf(p, LineAt(p, f, m, 1)) = LineAt(p, f, SkipTo(p, f, m + 1), 1)
    BY <2>5, NextOfLine DEF AfterSite
  <2>9. SkipTo(p, f, m) \in m .. Len(body) /\ SkipTo(p, f, m) = SkipTo(p, f, m + 1)
    <3>1. WellFormed(p) /\ f \in 1 .. Len(p.functions) /\ m \in 1 .. Len(p.functions[f].body)
          /\ p.functions[f].body[m].op = "LABEL"
      BY <1>1, <1>6
    <3>2. SkipTo(p, f, m) \in m .. Len(p.functions[f].body)
      BY ONLY <3>1, SkipFacts
    <3>3. SkipTo(p, f, m) = SkipTo(p, f, m + 1)
      BY ONLY <3>1, SkipFacts
    <3> QED
      BY <3>2, <3>3
  <2>10. SkipTo(p, f, m) \in 1 .. Len(body)
    <3>1. m .. Len(body) \subseteq 1 .. Len(body)
      BY <1>2, <1>6
    <3> QED
      BY <2>9, <3>1
  <2> QED
    BY <2>7, <2>8, <2>9, <2>10
<1>7. PICK m : m = IR!LabelIndex(p, f, label)
  OBVIOUS
<1>8. m \in DOMAIN body /\ body[m].op = "LABEL" /\ body[m].label = label
  BY <1>4, <1>7 DEF IR!LabelIndex
<1>9. s = LineAt(p, f, m, 1)
  BY <1>2, <1>5, <1>6, <1>8 DEF Charted
<1> QED
  BY <1>2, <1>6, <1>7, <1>8, <1>9

\* The step of a jump: to the label, or on.
LEMMA JumpsInIR ==
    ASSUME NEW p, NEW f, NEW k, NEW n, Does(p, f, k, n), InstrAt(p, f, k).op \in JumpOps,
           NEW op \in {"JMP", "JZ", "JNZ"},
           Unit(p, f, k)[n] = AsmTo(op, FnLabel(p, f, InstrAt(p, f, k).label)),
           NextOf(p, LineAt(p, f, k, n)) = NextInstr(p, f, k),
           Taken(op, fr) <=> \/ InstrAt(p, f, k).op = "JUMP"
                             \/ /\ InstrAt(p, f, k).op = "JUMP_Z"
                                /\ Cell(p, f, mem, InstrAt(p, f, k).src) = 0
                             \/ /\ InstrAt(p, f, k).op = "JUMP_NZ"
                                /\ Cell(p, f, mem, InstrAt(p, f, k).src) # 0
    PROVE  Simulated
<1> DEFINE i == InstrAt(p, f, k)
           r == LineAt(p, f, k, n)
           x == Cell(p, f, mem, i.src)
           taken == \/ i.op = "JUMP"
                    \/ i.op = "JUMP_Z" /\ x = 0
                    \/ i.op = "JUMP_NZ" /\ x # 0
<1>1. /\ Runs(p, r) /\ r.line = AsmTo(op, FnLabel(p, f, i.label))
      /\ WellFormed(p) /\ f \in 1 .. Len(p.functions)
      /\ k + 1 \in 1 .. Len(p.functions[f].body)
  BY DoesLine DEF Does, JumpOps
<1>2. r.line.op = op /\ r.line.label = FnLabel(p, f, i.label)
  BY <1>1, LineKinds
<1>3. /\ gp' = gp /\ mem' = mem /\ fr' = fr /\ output' = output
      /\ ~ Taken(op, fr) => Goes(p, NextInstr(p, f, k))
      /\ Taken(op, fr) => \E s : LabelLine(p, s, FnLabel(p, f, i.label)) /\ Goes(p, NextOf(p, s))
  BY <1>1, <1>2, RunsJump DEF Jumps
<1>4. /\ Source = p /\ IRSlots = MemSlots(p, mem) /\ IRRet = 0 /\ UsesSlots(p, f, i)
  BY DoesView DEF JumpOps
<1>5. IRArgs' = IRArgs /\ IRStore' = IRStore
  BY <1>3, ArgsStay DEF SameArgs, IRStore
<1>6. /\ IR!fn = f /\ IR!here = i /\ IR!Doing({"JUMP", "JUMP_Z", "JUMP_NZ"})
      /\ i.op # "JUMP" => IR!Value(i.src) = x
  BY <1>4, DoesInIR DEF JumpOps, UsesSlots, LoadsSrc
<1>7. Taken(op, fr) <=> taken
  OBVIOUS
<1>8. CASE taken
  <2>1. PICK s : LabelLine(p, s, FnLabel(p, f, i.label)) /\ Goes(p, NextOf(p, s))
    BY <1>3, <1>7, <1>8
  <2>2. PICK j : j = SkipTo(p, f, IR!LabelIndex(p, f, i.label))
    OBVIOUS
  <2>3. NextOf(p, s) = LineAt(p, f, j, 1) /\ j \in 1 .. Len(p.functions[f].body)
    BY <2>1, <2>2, JumpTarget
  <2>4. There(p, LineAt(p, f, j, 1)) /\ PendingReturns' = PendingReturns
    BY <2>1, <2>3 DEF Goes
  <2>5. /\ Source' = p /\ IRSlots' = MemSlots(p, mem') /\ IRRet' = 0
        /\ IR!Goto(IR!At(f, j)) /\ Ready'
    BY <1>1, <2>3, <2>4, ComesTo
  <2>6. IRFrames' = IRFrames /\ CallsPending'
    BY <1>1, <2>4, CallsStay DEF Runs
  <2>7. IR!Goto(IR!At(IR!fn, IR!Skip(Source, IR!fn, IR!LabelIndex(Source, IR!fn, IR!here.label))))
    BY <1>4, <1>6, <2>2, <2>5, SameSkip
  <2>8. \/ IR!here.op = "JUMP"
        \/ IR!here.op = "JUMP_Z" /\ IR!Value(IR!here.src) = 0
        \/ IR!here.op = "JUMP_NZ" /\ IR!Value(IR!here.src) # 0
    BY <1>6, <1>8
  <2>9. IR!Jump
    BY <1>3, <1>4, <1>5, <1>6, <2>5, <2>6, <2>7, <2>8 DEF IR!Jump
  <2>10. IR!Next
    BY <2>9 DEF IR!Next
  <2> QED
    BY <2>5, <2>6, <2>10 DEF Simulated
<1>9. CASE ~ taken
  <2>1. Goes(p, NextInstr(p, f, k))
    BY <1>3, <1>7, <1>9
  <2>2. /\ Source' = Source /\ IRFrames' = IRFrames
        /\ IRSlots' = MemSlots(p, mem') /\ IRRet' = 0
        /\ IR!GoOn /\ Ready' /\ CallsPending'
    BY <1>1, <2>1, Finishes
  <2>3. ~ \/ IR!here.op = "JUMP"
          \/ IR!here.op = "JUMP_Z" /\ IR!Value(IR!here.src) = 0
          \/ IR!here.op = "JUMP_NZ" /\ IR!Value(IR!here.src) # 0
    BY <1>6, <1>9
  <2>4. IR!Jump
    BY <1>3, <1>4, <1>5, <1>6, <2>2, <2>3 DEF IR!Jump
  <2>5. IR!Next
    BY <2>4 DEF IR!Next
  <2> QED
    BY <2>2, <2>5 DEF Simulated
<1> QED
  BY <1>8, <1>9

LEMMA DoesJump ==
    ASSUME NEW p, NEW f, NEW k, NEW n, Does(p, f, k, n), InstrAt(p, f, k).op = "JUMP"
    PROVE  Simulated
<1> DEFINE i == InstrAt(p, f, k)
           u == Unit(p, f, k)
<1>1. Are1(u, AsmTo("JMP", FnLabel(p, f, i.label)))
  BY DoesLine DEF IRUnit, InstrAt
<1>2. AllInstr(u, 1)
  BY <1>1, FewInstr, LineKinds
<1>3. n = 1
  <2>1. n \in 1 .. 1
    BY <1>2, NextIn
  <2> QED
    BY <2>1
<1>4. NextOf(p, LineAt(p, f, k, n)) = NextInstr(p, f, k)
  BY <1>2, <1>3, DoesLine, NextInShort DEF AllInstr
<1>5. Taken("JMP", fr)
  BY DEF Taken
<1> QED
  BY <1>1, <1>3, <1>4, <1>5, JumpsInIR DEF JumpOps, Are1

LEMMA DoesJumpIf ==
    ASSUME NEW p, NEW f, NEW k, NEW n, Does(p, f, k, n),
           InstrAt(p, f, k).op \in {"JUMP_Z", "JUMP_NZ"}
    PROVE  Simulated
<1> DEFINE i == InstrAt(p, f, k)
           u == Unit(p, f, k)
           x == Cell(p, f, mem, i.src)
<1>1. PICK op : op = IF i.op = "JUMP_Z" THEN "JZ" ELSE "JNZ"
  OBVIOUS
<1>2. Are4(u, LdSlot(p, f, 4, i.src), Asm("LI", 5, 0, 0), Asm("CMP", 4, 5, 0),
           AsmTo(op, FnLabel(p, f, i.label)))
  BY <1>1, DoesLine DEF IRUnit, InstrAt
<1>3. AllInstr(u, 4)
  BY <1>2, FewInstr, LineKinds DEF LdSlot
<1>4. n \in 1 .. 4 /\ 4 \in Registers /\ 5 \in Registers
  BY <1>3, NextIn DEF Registers
<1>5. CASE n = 1
  <2>1. /\ Sets(4, x) /\ SameArgs /\ mem' = mem /\ Passes(p, f, k, n)
    BY <1>2, <1>4, <1>5, DoesLD DEF Are4
  <2>2. Goes(p, LineAt(p, f, k, 2))
    BY <1>3, <1>5, <2>1, NextIn
  <2>3. LineReady(p, f, i, 2, mem', gp', fr')
    BY <2>1, ReadyForOp DEF Sets
  <2> QED
    BY <2>1, <2>2, <2>3, StaysInside DEF Passes
<1>6. CASE n = 2
  <2>1. /\ Sets(5, WrapWord(0)) /\ SameArgs /\ mem' = mem /\ Passes(p, f, k, n)
    BY <1>2, <1>6, DoesLI DEF Are4
  <2>2. gp[4] = x
    BY <1>6, DoesView, ReadyForOp
  <2>3. Goes(p, LineAt(p, f, k, 3))
    BY <1>3, <1>6, <2>1, NextIn
  <2>4. gp'[4] = x /\ gp'[5] = 0
    BY <1>4, <2>1, <2>2, WordFacts, WordsFit DEF Sets
  <2>5. LineReady(p, f, i, 3, mem', gp', fr')
    BY <2>1, <2>4, ReadyForOp
  <2> QED
    BY <2>1, <2>3, <2>5, StaysInside DEF Passes
<1>7. CASE n = 3
  <2>1. FlagsOf(gp[4], gp[5], fr') /\ SameArgs /\ mem' = mem /\ Passes(p, f, k, n)
    BY <1>2, <1>7, DoesCMP DEF Are4
  <2>2. gp[4] = x /\ gp[5] = 0
    BY <1>7, DoesView, ReadyForOp
  <2>3. Goes(p, LineAt(p, f, k, 4))
    BY <1>3, <1>7, <2>1, NextIn
  <2>4. "Z" \in fr' <=> x = 0
    BY <2>1, <2>2 DEF FlagsOf
  <2>5. LineReady(p, f, i, 4, mem', gp', fr')
    BY <2>1, <2>4, ReadyForOp
  <2> QED
    BY <2>1, <2>3, <2>5, StaysInside DEF Passes
<1>8. CASE n = 4
  <2>1. "Z" \in fr <=> x = 0
    BY <1>8, DoesView, ReadyForOp
  <2>2. NextOf(p, LineAt(p, f, k, n)) = NextInstr(p, f, k)
    BY <1>3, <1>8, DoesLine, NextInShort DEF AllInstr
  <2>3. Taken(op, fr) <=> \/ i.op = "JUMP"
                          \/ i.op = "JUMP_Z" /\ x = 0
                          \/ i.op = "JUMP_NZ" /\ x # 0
    BY <1>1, <2>1 DEF Taken
  <2> QED
    BY <1>1, <1>2, <1>8, <2>2, <2>3, JumpsInIR DEF JumpOps, Are4
<1> QED
  BY <1>4, <1>5, <1>6, <1>7, <1>8

\* The branch of a comparison is taken when the comparison holds.
LEMMA BranchCompares ==
    ASSUME NEW op \in Booleans, NEW jump, jump = IF op = "NOT" THEN "JZ" ELSE JumpIf[op],
           NEW x \in Int, NEW y \in Int, NEW flags, FlagsOf(x, y, flags)
    PROVE  Taken(jump, flags) <=> Compares(op, x, y)
<1>1. CASE op = "NOT" \/ op = "CMP_EQ"
  <2>1. jump = "JZ"
    BY <1>1 DEF JumpIf
  <2> QED
    BY <1>1, <2>1 DEF Taken, Compares, FlagsOf
<1>2. CASE op = "CMP_NE"
  <2>1. jump = "JNZ"
    BY <1>2 DEF JumpIf
  <2> QED
    BY <1>2, <2>1 DEF Taken, Compares, FlagsOf
<1>3. CASE op = "CMP_GT"
  <2>1. jump = "JG"
    BY <1>3 DEF JumpIf
  <2> QED
    BY <1>3, <2>1 DEF Taken, Compares, FlagsOf
<1>4. CASE op = "CMP_LT"
  <2>1. jump = "JL"
    BY <1>4 DEF JumpIf
  <2> QED
    BY <1>4, <2>1 DEF Taken, Compares, FlagsOf
<1>5. CASE op = "CMP_GE"
  <2>1. jump = "JGE"
    BY <1>5 DEF JumpIf
  <2> QED
    BY <1>5, <2>1 DEF Taken, Compares, FlagsOf
<1>6. CASE op = "CMP_LE"
  <2>1. jump = "JLE"
    BY <1>6 DEF JumpIf
  <2> QED
    BY <1>6, <2>1 DEF Taken, Compares, FlagsOf
<1> QED
  BY <1>1, <1>2, <1>3, <1>4, <1>5, <1>6 DEF Booleans, Comparisons

LEMMA DoesBoolean ==
    ASSUME NEW p, NEW f, NEW k, NEW n, Does(p, f, k, n), InstrAt(p, f, k).op \in Booleans
    PROVE  Simulated
<1> DEFINE i == InstrAt(p, f, k)
           u == Unit(p, f, k)
           r == LineAt(p, f, k, n)
           x == First(p, f, mem, i)
           y == Second(p, f, mem, i)
           holds == Holds(p, f, mem, i)
           second == IF i.op = "NOT" THEN Asm("LI", 5, 0, 0) ELSE LdSlot(p, f, 5, i.src2)
<1>1. PICK jump, cnt : /\ jump = IF i.op = "NOT" THEN "JZ" ELSE JumpIf[i.op]
                       /\ cnt = CgCounter(p, f, k)
  OBVIOUS
<1>2. Materialized(u, LdSlot(p, f, 4, i.src), second, jump, cnt, StSlot(p, f, 4, i.dst))
  <2>1. IRUnit(p, f, k, u)
    BY DoesLine
  <2>2. CASE i.op = "NOT"
    BY <1>1, <2>1, <2>2 DEF IRUnit, InstrAt
  <2>3. CASE i.op \in Comparisons
    BY <1>1, <2>1, <2>3 DEF IRUnit, InstrAt, Comparisons
  <2> QED
    BY <2>2, <2>3 DEF Booleans
<1>3. /\ LdSlot(p, f, 4, i.src).kind = "instr" /\ second.kind = "instr"
      /\ StSlot(p, f, 4, i.dst).kind = "instr"
  BY LineKinds DEF LdSlot, StSlot
<1>4. /\ DOMAIN u = 1 .. 10 /\ \A z \in 1 .. 10 : u[z].kind = IF z \in {7, 9} THEN "label" ELSE "instr"
  BY <1>2, <1>3, MaterializedKinds
<1>5. /\ IsUnit(p, f, k) /\ n \in 1 .. 10 /\ u[n].kind = "instr" /\ WellFormed(p) /\ Runs(p, r)
      /\ r.line = u[n] /\ f \in 1 .. Len(p.functions) /\ k \in 1 .. Len(p.functions[f].body)
  <2>1. /\ IsUnit(p, f, k) /\ n \in DOMAIN u /\ u[n].kind = "instr" /\ WellFormed(p)
        /\ r.line = u[n] /\ f \in 1 .. Len(p.functions) /\ k \in 1 .. Len(p.functions[f].body)
    BY DoesLine
  <2>2. Runs(p, r)
    BY DEF Does
  <2>3. n \in 1 .. 10
    BY <1>4, <2>1
  <2> QED
    BY <2>1, <2>2, <2>3
<1>6. n \in {1, 2, 3, 4, 5, 6, 8, 10}
  <2>1. n # 7 /\ n # 9
    BY <1>4, <1>5
  <2> QED
    BY <1>5, <2>1
<1>7. /\ NextOf(p, LineAt(p, f, k, 1)) = LineAt(p, f, k, 2)
      /\ NextOf(p, LineAt(p, f, k, 2)) = LineAt(p, f, k, 3)
      /\ NextOf(p, LineAt(p, f, k, 3)) = LineAt(p, f, k, 4)
      /\ NextOf(p, LineAt(p, f, k, 4)) = LineAt(p, f, k, 5)
      /\ NextOf(p, LineAt(p, f, k, 5)) = LineAt(p, f, k, 6)
      /\ NextOf(p, LineAt(p, f, k, 7)) = LineAt(p, f, k, 8)
      /\ NextOf(p, LineAt(p, f, k, 8)) = LineAt(p, f, k, 10)
      /\ NextOf(p, LineAt(p, f, k, 9)) = LineAt(p, f, k, 10)
      /\ NextOf(p, LineAt(p, f, k, 10)) = NextInstr(p, f, k)
  BY <1>2, <1>3, <1>5, NextInLong
<1>8. /\ LabelLine(p, LineAt(p, f, k, 7), CgLabel(cnt))
      /\ LabelLine(p, LineAt(p, f, k, 9), CgLabel(cnt + 1))
  <2>1. f \in 0 .. Len(p.functions) /\ k \in Nat
    BY <1>5, Lengths
  <2>2. IsLine(p, f, k, 7) /\ IsLine(p, f, k, 9)
    BY <1>4, <1>5 DEF IsLine
  <2>3. /\ ValidSite(p, LineAt(p, f, k, 7)) /\ ValidSite(p, LineAt(p, f, k, 9))
        /\ LineAt(p, f, k, 7).line = u[7] /\ LineAt(p, f, k, 9).line = u[9]
    BY <2>1, <2>2, LineIsSite
  <2>4. u[7] = Label(CgLabel(cnt)) /\ u[9] = Label(CgLabel(cnt + 1))
    BY <1>2 DEF Materialized
  <2> QED
    BY <2>3, <2>4, LineKinds DEF LabelLine
<1>9. \A s : /\ LabelLine(p, s, CgLabel(cnt)) => s = LineAt(p, f, k, 7)
             /\ LabelLine(p, s, CgLabel(cnt + 1)) => s = LineAt(p, f, k, 9)
  <2>1. Charted(p, code, prog.map)
    BY HereIsOn DEF Does, Runs, Step
  <2> QED
    BY <1>8, <2>1 DEF Charted
<1>10. BoolReady(p, f, i, n, mem, gp, fr)
  BY DoesView, ReadyForOp
<1>11. x \in Int /\ y \in Int
  <2>1. UsesSlots(p, f, i)
    BY DoesView
  <2>2. i.src \in SlotsOf(p, f)
    BY <2>1 DEF UsesSlots, LoadsSrc, Booleans
  <2>3. i.op # "NOT" => i.src2 \in SlotsOf(p, f)
    BY <2>1 DEF UsesSlots, Booleans
  <2> QED
    BY <2>2, <2>3, SlotsAreWords DEF First, Second
<1>12. i.op # "CALL" /\ 4 \in Registers /\ 5 \in Registers /\ WrapWord(0) = 0 /\ WrapWord(BoolTrue) = BoolTrue
  BY WordFacts, WordsFit, CompiledRunAssumption DEF Booleans, Comparisons, Registers
<1>13. ASSUME NEW m, Goes(p, LineAt(p, f, k, m)), SameArgs, mem' = mem, output' = output,
              BoolReady(p, f, i, m, mem, gp', fr')
       PROVE  Simulated
  <2>1. LineReady(p, f, i, m, mem', gp', fr')
    BY <1>13, ReadyForOp
  <2> QED
    BY <1>12, <1>13, <2>1, StaysInside
<1> HIDE DEF x, y, holds, second
<1>14. CASE n = 1
  <2>1. Sets(4, x) /\ SameArgs /\ mem' = mem /\ Passes(p, f, k, n)
    BY <1>2, <1>12, <1>14, DoesLD DEF Materialized, x, First
  <2>2. BoolReady(p, f, i, 2, mem, gp', fr')
    BY <2>1 DEF Sets, BoolReady, x
  <2> QED
    BY <1>7, <1>13, <1>14, <2>1, <2>2 DEF Passes
<1>15. CASE n = 2
  <2>1. Sets(5, y) /\ SameArgs /\ mem' = mem /\ Passes(p, f, k, n)
    <3>1. CASE i.op = "NOT"
      <4>1. u[n] = Asm("LI", 5, 0, 0) /\ y = 0
        BY <1>2, <1>15, <3>1 DEF Materialized, second, y, Second
      <4> QED
        BY <1>12, <4>1, DoesLI
    <3>2. CASE i.op # "NOT"
      <4>1. u[n] = LdSlot(p, f, 5, i.src2) /\ y = Cell(p, f, mem, i.src2)
        BY <1>2, <1>15, <3>2 DEF Materialized, second, y, Second
      <4> QED
        BY <1>12, <4>1, DoesLD
    <3> QED
      BY <3>1, <3>2
  <2>2. gp[4] = x
    BY <1>10, <1>15 DEF BoolReady, x
  <2>3. gp'[4] = x /\ gp'[5] = y
    BY <1>12, <2>1, <2>2 DEF Sets
  <2>4. BoolReady(p, f, i, 3, mem, gp', fr')
    BY <2>3 DEF BoolReady, x, y
  <2> QED
    BY <1>7, <1>13, <1>15, <2>1, <2>4 DEF Passes
<1>16. CASE n = 3
  <2>1. FlagsOf(gp[4], gp[5], fr') /\ SameArgs /\ mem' = mem /\ Passes(p, f, k, n)
    BY <1>2, <1>16, DoesCMP DEF Materialized
  <2>2. gp[4] = x /\ gp[5] = y
    BY <1>10, <1>16 DEF BoolReady, x, y
  <2>3. BoolReady(p, f, i, 4, mem, gp', fr')
    BY <2>1, <2>2 DEF BoolReady, x, y
  <2> QED
    BY <1>7, <1>13, <1>16, <2>1, <2>3 DEF Passes
<1>17. CASE n = 4
  <2>1. FlagsOf(x, y, fr)
    BY <1>10, <1>17 DEF BoolReady, x, y
  <2>2. Taken(jump, fr) <=> Compares(i.op, x, y)
    BY <1>1, <1>11, <2>1, BranchCompares
  <2>3. Taken(jump, fr) <=> holds
    BY <2>2 DEF holds, Holds, x, y
  <2>4. r.line = AsmTo(jump, CgLabel(cnt))
    BY <1>2, <1>5, <1>17 DEF Materialized
  <2>5. r.line.op = jump /\ r.line.label = CgLabel(cnt)
    BY <2>4, LineKinds
  <2>6. jump \in Jumps
    BY <1>1, JumpIfIsJump DEF Booleans, Jumps
  <2>7. /\ gp' = gp /\ mem' = mem /\ fr' = fr /\ output' = output
        /\ ~ Taken(jump, fr) => Goes(p, NextOf(p, r))
        /\ Taken(jump, fr) => \E s : LabelLine(p, s, CgLabel(cnt)) /\ Goes(p, NextOf(p, s))
    BY <1>5, <2>5, <2>6, RunsJump
  <2>8. CASE holds
    <3>1. Goes(p, LineAt(p, f, k, 8))
      BY <1>7, <1>9, <2>3, <2>7, <2>8
    <3>2. BoolReady(p, f, i, 8, mem, gp', fr')
      BY <2>8 DEF BoolReady, holds
    <3> QED
      BY <1>13, <2>7, <3>1, <3>2 DEF SameArgs
  <2>9. CASE ~ holds
    <3>1. Goes(p, LineAt(p, f, k, 5))
      BY <1>7, <1>17, <2>3, <2>7, <2>9
    <3>2. BoolReady(p, f, i, 5, mem, gp', fr')
      BY <2>9 DEF BoolReady, holds
    <3> QED
      BY <1>13, <2>7, <3>1, <3>2 DEF SameArgs
  <2> QED
    BY <2>8, <2>9
<1>18. CASE n = 5
  <2>1. Sets(4, WrapWord(0)) /\ SameArgs /\ mem' = mem /\ Passes(p, f, k, n)
    BY <1>2, <1>18, DoesLI DEF Materialized
  <2>2. ~ holds
    BY <1>10, <1>18 DEF BoolReady, holds
  <2>3. BoolReady(p, f, i, 6, mem, gp', fr')
    BY <1>12, <2>1, <2>2 DEF Sets, BoolReady, holds
  <2> QED
    BY <1>7, <1>13, <1>18, <2>1, <2>3 DEF Passes
<1>19. CASE n = 6
  <2>1. ~ holds /\ gp[4] = 0
    BY <1>10, <1>19 DEF BoolReady, holds
  <2>2. r.line = AsmTo("JMP", CgLabel(cnt + 1))
    BY <1>2, <1>5, <1>19 DEF Materialized
  <2>3. r.line.op = "JMP" /\ r.line.label = CgLabel(cnt + 1)
    BY <2>2, LineKinds
  <2>4. "JMP" \in Jumps /\ Taken("JMP", fr)
    BY DEF Jumps, Taken
  <2>5. /\ gp' = gp /\ mem' = mem /\ fr' = fr /\ output' = output
        /\ \E s : LabelLine(p, s, CgLabel(cnt + 1)) /\ Goes(p, NextOf(p, s))
    BY <1>5, <2>3, <2>4, RunsJump
  <2>6. Goes(p, LineAt(p, f, k, 10))
    BY <1>7, <1>9, <2>5
  <2>7. BoolReady(p, f, i, 10, mem, gp', fr')
    BY <2>1, <2>5 DEF BoolReady, holds, IR!Truth
  <2> QED
    BY <1>13, <2>5, <2>6, <2>7 DEF SameArgs
<1>20. CASE n = 8
  <2>1. Sets(4, WrapWord(BoolTrue)) /\ SameArgs /\ mem' = mem /\ Passes(p, f, k, n)
    BY <1>2, <1>20, DoesLI DEF Materialized
  <2>2. holds
    BY <1>10, <1>20 DEF BoolReady, holds
  <2>3. BoolReady(p, f, i, 10, mem, gp', fr')
    BY <1>12, <2>1, <2>2 DEF Sets, BoolReady, holds, IR!Truth
  <2> QED
    BY <1>7, <1>13, <1>20, <2>1, <2>3 DEF Passes
<1>21. CASE n = 10
  <2>1. gp[4] = IR!Truth(holds)
    BY <1>10, <1>21 DEF BoolReady, holds
  <2>2. gp[4] = IR!Result(i)
    BY <1>12, <2>1, ResultIs DEF holds
  <2>3. u[n] = StSlot(p, f, 4, i.dst) /\ NextOf(p, r) = NextInstr(p, f, k)
    BY <1>2, <1>7, <1>21 DEF Materialized
  <2>4. i.op \in WritesDst \ {"MEM_LOAD"}
    BY DEF WritesDst, Booleans, Comparisons
  <2> QED
    BY <2>2, <2>3, <2>4, Computes
<1> QED
  BY <1>6, <1>14, <1>15, <1>16, <1>17, <1>18, <1>19, <1>20, <1>21

-----------------------------------------------------------------------------
(* The end of a run, calls and returns.                                    *)

Halted(p) == prog = Compile(p) /\ outcome = "halted"

HaltView(p) ==
    /\ Source = p /\ IRSlots = MemSlots(p, mem) /\ IRRet = 0
    /\ IRLoc = IR!Nowhere /\ IRStatus = "halted"

LEMMA HaltedIsView ==
    ASSUME NEW p, WellFormed(p)
    PROVE  Halted(p) => HaltView(p)
<1> SUFFICES ASSUME Halted(p) PROVE HaltView(p)
  OBVIOUS
<1>1. /\ Source = p /\ outcome = "halted" /\ ~ InImage
      /\ \A x \in SlotNames(p) : prog.addr[x] = SlotAddress(p, x[1], x[2])
  BY DEF Halted, Compile, Source, InImage
<1>2. \A x \in SlotNames(p) : x = <<x[1], x[2]>>
  BY SlotNameCases
<1>3. \A x \in SlotNames(p) : mem[prog.addr[<<x[1], x[2]>>]] = InCell(p, mem, x)
  BY <1>1, <1>2 DEF InCell
<1>4. \A k : ~ NotYetInitialized(k) /\ ~ StillInRegister(k)
  BY <1>1 DEF NotYetInitialized, StillInRegister, InInit, InPrologue
<1>5. \A x \in SlotNames(p) : x[1] = 0 => GlobalValue(x[2]) = InCell(p, mem, x)
  BY <1>2, <1>3, <1>4 DEF GlobalValue
<1>6. \A x \in SlotNames(p) : LocalValue(x[1], x[2]) = InCell(p, mem, x)
  BY <1>2, <1>3, <1>4 DEF LocalValue
<1>7. IRSlots = MemSlots(p, mem)
  BY <1>1, <1>5, <1>6 DEF IRSlots, MemSlots
<1> QED
  BY <1>1, <1>7 DEF HaltView, IRRet, IRLoc, IRStatus, IR!Nowhere, IR!At, Place

LEMMA NextHaltedIsView ==
    ASSUME NEW p, WellFormed(p)
    PROVE  (Halted(p) => HaltView(p))'
<1>1. Halted(p) => HaltView(p)
  BY HaltedIsView
<1> QED
  BY <1>1, PTL

LEMMA HaltsInIR ==
    ASSUME NEW p, NEW r, Runs(p, r), r.line.op = "HALT",
           IRSlots = MemSlots(p, mem), IRRet = 0,
           IRLoc = IR!Return0 \/ IR!Doing({"HALT"})
    PROVE  Simulated
<1>1. /\ gp' = gp /\ mem' = mem /\ output' = output /\ prog' = prog
      /\ PendingReturns' = PendingReturns /\ outcome' = "halted"
  BY RunsHALT
<1>2. WellFormed(p) /\ Source = p /\ IRStatus = "running" /\ prog = Compile(p)
  BY HereIsView, HereIsOn DEF Runs, Step, On
<1>3. Halted(p)'
  BY <1>1, <1>2 DEF Halted
<1>4. HaltView(p)'
  BY <1>2, <1>3, NextHaltedIsView
<1>5. /\ Source' = p /\ IRSlots' = MemSlots(p, mem') /\ IRRet' = 0
      /\ IRLoc' = IR!Nowhere /\ IRStatus' = "halted"
  BY <1>4 DEF HaltView
<1>6. IRFrames' = IRFrames /\ CallsPending'
  BY <1>1, CallsStay DEF Runs
<1>7. IRArgs' = IRArgs /\ IRStore' = IRStore
  BY <1>1, ArgsStay DEF SameArgs, IRStore
<1>8. IR!Halt
  BY <1>1, <1>2, <1>5, <1>6, <1>7 DEF IR!Halt
<1>9. IR!Next
  BY <1>8 DEF IR!Next
<1>10. Ready'
  BY <1>1 DEF Ready
<1> QED
  BY <1>6, <1>9, <1>10 DEF Simulated

LEMMA DoesHalt ==
    ASSUME NEW p, NEW f, NEW k, NEW n, Does(p, f, k, n), InstrAt(p, f, k).op = "HALT"
    PROVE  Simulated
<1> DEFINE u == Unit(p, f, k)
           r == LineAt(p, f, k, n)
<1>1. IRUnit(p, f, k, u) /\ r.line = u[n] /\ n \in DOMAIN u /\ Runs(p, r)
  BY DoesLine DEF Does
<1>2. r.line.op = "HALT"
  <2>1. Are1(u, Asm("HALT", 0, 0, 0))
    BY <1>1 DEF IRUnit, InstrAt
  <2>2. n \in 1 .. 1 /\ u[1] = Asm("HALT", 0, 0, 0)
    BY <1>1, <2>1 DEF Are1
  <2>3. n = 1
    BY <2>2
  <2> QED
    BY <1>1, <2>2, <2>3, LineKinds
<1>3. IRSlots = MemSlots(p, mem) /\ IRRet = 0 /\ IR!Doing({"HALT"})
  BY DoesView, DoesInIR
<1> QED
  BY <1>1, <1>2, <1>3, HaltsInIR

\* The frames, one per pending return address.
Frame(map, q) == [fn |-> map[q].fn, ip |-> map[q].ip]

LEMMA FramesPush ==
    ASSUME NEW P \in Seq(Int), NEW e \in Int, NEW map, NEW Q, Q = <<e>> \o P
    PROVE  /\ [k \in DOMAIN Q |-> Frame(map, Q[k])]
                 = <<Frame(map, e)>> \o [k \in DOMAIN P |-> Frame(map, P[k])]
           /\ \A k \in DOMAIN Q : Q[k] = e \/ \E j \in DOMAIN P : Q[k] = P[j]
<1> DEFINE S == {Frame(map, q) : q \in Int}
           frames == [k \in 1 .. Len(P) |-> Frame(map, P[k])]
           pushed == <<Frame(map, e)>> \o frames
<1>1. Len(P) \in Nat /\ DOMAIN P = 1 .. Len(P) /\ \A k \in 1 .. Len(P) : P[k] \in Int
  OBVIOUS
<1>2. /\ Q \in Seq(Int) /\ Len(Q) = Len(P) + 1 /\ DOMAIN Q = 1 .. Len(P) + 1
      /\ Q[1] = e /\ \A k \in 2 .. Len(P) + 1 : Q[k] = P[k - 1]
  OBVIOUS
<1>3. \A k \in 1 .. Len(P) : Frame(map, P[k]) \in S
  BY <1>1
<1>4. Frame(map, e) \in S
  OBVIOUS
<1> HIDE DEF S
<1>5. frames \in Seq(S) /\ Len(frames) = Len(P)
  BY <1>1, <1>3, IsASeq, LenProperties
<1>6. /\ pushed \in Seq(S) /\ Len(pushed) = Len(P) + 1 /\ DOMAIN pushed = 1 .. Len(P) + 1
      /\ pushed[1] = Frame(map, e) /\ \A k \in 2 .. Len(P) + 1 : pushed[k] = frames[k - 1]
  <2> HIDE DEF frames
  <2> QED
    BY <1>1, <1>4, <1>5
<1>7. \A k \in 2 .. Len(P) + 1 : k - 1 \in 1 .. Len(P)
  BY <1>1
<1>8. \A k \in 2 .. Len(P) + 1 : pushed[k] = Frame(map, P[k - 1])
  BY <1>6, <1>7
<1>9. \A k \in 1 .. Len(P) + 1 : k = 1 \/ k \in 2 .. Len(P) + 1
  BY <1>1
<1>10. \A k \in 1 .. Len(P) + 1 : pushed[k] = Frame(map, Q[k])
  BY <1>2, <1>6, <1>8, <1>9
<1>11. pushed = [k \in 1 .. Len(P) + 1 |-> Frame(map, Q[k])]
  <2>1. pushed = [k \in DOMAIN pushed |-> pushed[k]]
    <3> HIDE DEF pushed
    <3> QED
      BY <1>6
  <2> HIDE DEF pushed
  <2> QED
    BY <1>6, <1>10, <2>1
<1> QED
  BY <1>1, <1>2, <1>7, <1>9, <1>11

LEMMA FramesPop ==
    ASSUME NEW P \in Seq(Int), P # <<>>, NEW map, NEW Q, Q = Tail(P),
           NEW F, F = [k \in DOMAIN P |-> Frame(map, P[k])]
    PROVE  /\ [k \in DOMAIN Q |-> Frame(map, Q[k])] = Tail(F)
           /\ Head(F) = Frame(map, P[1])
           /\ \A k \in DOMAIN Q : \E j \in DOMAIN P : Q[k] = P[j]
<1> DEFINE S == {Frame(map, q) : q \in Int}
<1>1. /\ Len(P) \in Nat /\ DOMAIN P = 1 .. Len(P) /\ Len(P) # 0
      /\ \A k \in 1 .. Len(P) : P[k] \in Int
  OBVIOUS
<1>2. /\ Q \in Seq(Int) /\ Len(Q) = Len(P) - 1 /\ DOMAIN Q = 1 .. Len(P) - 1
      /\ \A k \in 1 .. Len(P) - 1 : Q[k] = P[k + 1]
  BY <1>1
<1>3. \A k \in 1 .. Len(P) : Frame(map, P[k]) \in S
  BY <1>1
<1> HIDE DEF S
<1>4. F \in Seq(S) /\ Len(F) = Len(P) /\ \A k \in 1 .. Len(P) : F[k] = Frame(map, P[k])
  <2>1. F = [k \in 1 .. Len(P) |-> Frame(map, P[k])]
    BY <1>1
  <2> QED
    BY <1>1, <1>3, <2>1, IsASeq, LenProperties
<1>5. F # <<>>
  BY <1>1, <1>4
<1>6. /\ Tail(F) \in Seq(S) /\ Len(Tail(F)) = Len(P) - 1 /\ DOMAIN Tail(F) = 1 .. Len(P) - 1
      /\ \A k \in 1 .. Len(P) - 1 : Tail(F)[k] = F[k + 1]
      /\ Head(F) = F[1]
  BY <1>1, <1>4, <1>5
<1>7. \A k \in 1 .. Len(P) - 1 : k + 1 \in 1 .. Len(P)
  BY <1>1
<1>8. \A k \in 1 .. Len(P) - 1 : Tail(F)[k] = Frame(map, Q[k])
  BY <1>2, <1>4, <1>6, <1>7
<1>9. Tail(F) = [k \in 1 .. Len(P) - 1 |-> Frame(map, Q[k])]
  <2>1. PICK T : T = Tail(F)
    OBVIOUS
  <2>2. T = [k \in DOMAIN T |-> T[k]]
    BY <1>6, <2>1
  <2> QED
    BY <1>6, <1>8, <2>1, <2>2
<1>10. Head(F) = Frame(map, P[1])
  <2>1. 1 \in 1 .. Len(P)
    BY <1>1
  <2> QED
    BY <1>4, <1>6, <2>1
<1>11. [k \in DOMAIN Q |-> Frame(map, Q[k])] = Tail(F)
  BY <1>2, <1>9
<1>12. \A k \in DOMAIN Q : k + 1 \in DOMAIN P /\ Q[k] = P[k + 1]
  BY <1>1, <1>2, <1>7
<1> QED
  BY <1>10, <1>11, <1>12

LEMMA PushesFrame ==
    ASSUME NEW p, NEW r, Step(p, r), PendingReturns' = <<pc + 1>> \o PendingReturns, CallSite(p, r)
    PROVE  IRFrames' = <<[fn |-> r.fn, ip |-> r.ip]>> \o IRFrames /\ CallsPending'
<1>1. /\ code' = code /\ prog' = prog /\ CallsPending /\ Source = p
      /\ PendingReturns \in Seq(Int) /\ pc + 1 \in Int
      /\ pc + 1 \in DOMAIN code /\ r = prog.map[pc + 1]
  BY CodeStays, HereState, HereIsOn, HereIsView DEF Step, RunNext, Here, RInv
<1>2. PICK e, P, Q, map : e = pc + 1 /\ P = PendingReturns /\ Q = PendingReturns' /\ map = prog.map
  OBVIOUS
<1>3. /\ [k \in DOMAIN Q |-> Frame(map, Q[k])]
            = <<Frame(map, e)>> \o [k \in DOMAIN P |-> Frame(map, P[k])]
      /\ \A k \in DOMAIN Q : Q[k] = e \/ \E j \in DOMAIN P : Q[k] = P[j]
  BY <1>1, <1>2, FramesPush
<1>4. IRFrames = [k \in DOMAIN P |-> Frame(map, P[k])]
  BY <1>2 DEF IRFrames, Frame
<1>5. IRFrames' = [k \in DOMAIN Q |-> Frame(map, Q[k])]
  BY <1>1, <1>2 DEF IRFrames, Frame
<1>6. CallsPending'
  <2>1. \A j \in DOMAIN P : P[j] \in DOMAIN code /\ CallSite(p, map[P[j]])
    BY <1>1, <1>2 DEF CallsPending
  <2>2. \A k \in DOMAIN Q : Q[k] \in DOMAIN code /\ CallSite(p, map[Q[k]])
    BY <1>1, <1>2, <1>3, <2>1
  <2>3. Source' = p
    BY <1>1 DEF Source
  <2> QED
    BY <1>1, <1>2, <2>2, <2>3 DEF CallsPending
<1>7. Frame(map, e) = [fn |-> r.fn, ip |-> r.ip]
  BY <1>1, <1>2 DEF Frame
<1> QED
  BY <1>3, <1>4, <1>5, <1>6, <1>7

LEMMA PopsFrame ==
    ASSUME NEW p, NEW r, Step(p, r), PendingReturns # <<>>, PendingReturns' = Tail(PendingReturns),
           NEW c, c = prog.map[PendingReturns[1]]
    PROVE  /\ IRFrames' = Tail(IRFrames) /\ Head(IRFrames) = [fn |-> c.fn, ip |-> c.ip]
           /\ CallsPending'
<1>1. /\ code' = code /\ prog' = prog /\ CallsPending /\ Source = p
      /\ PendingReturns \in Seq(Int)
  BY CodeStays, HereState, HereIsView DEF Step, RunNext, Here, RInv
<1>2. PICK P, Q, map, F : /\ P = PendingReturns /\ Q = PendingReturns' /\ map = prog.map
                          /\ F = IRFrames
  OBVIOUS
<1>3. F = [k \in DOMAIN P |-> Frame(map, P[k])]
  BY <1>2 DEF IRFrames, Frame
<1>4. /\ [k \in DOMAIN Q |-> Frame(map, Q[k])] = Tail(F)
      /\ Head(F) = Frame(map, P[1])
      /\ \A k \in DOMAIN Q : \E j \in DOMAIN P : Q[k] = P[j]
  BY <1>1, <1>2, <1>3, FramesPop
<1>5. IRFrames' = [k \in DOMAIN Q |-> Frame(map, Q[k])]
  BY <1>1, <1>2 DEF IRFrames, Frame
<1>6. CallsPending'
  <2>1. \A j \in DOMAIN P : P[j] \in DOMAIN code /\ CallSite(p, map[P[j]])
    BY <1>1, <1>2 DEF CallsPending
  <2>2. \A k \in DOMAIN Q : Q[k] \in DOMAIN code /\ CallSite(p, map[Q[k]])
    BY <1>1, <1>2, <1>4, <2>1
  <2>3. Source' = p
    BY <1>1 DEF Source
  <2> QED
    BY <1>1, <1>2, <2>2, <2>3 DEF CallsPending
<1>7. Frame(map, P[1]) = [fn |-> c.fn, ip |-> c.ip]
  BY <1>2 DEF Frame
<1> QED
  BY <1>2, <1>4, <1>5, <1>6, <1>7

\* The function a call names, and where control goes.
FirstLine(p, g) ==
    IF p.functions[g].params = <<>> THEN LineAt(p, g, SkipTo(p, g, 1), 1) ELSE LineAt(p, g, 0, 2)

LEMMA CallTarget ==
    ASSUME NEW p, NEW r, Here(p, r), NEW name,
           \E f \in DOMAIN p.functions : p.functions[f].name = name,
           NEW g, g = IR!FunctionNumber(p, name), NEW s, LabelLine(p, s, name)
    PROVE  g \in 1 .. Len(p.functions) /\ NextOf(p, s) = FirstLine(p, g)
<1>1. WellFormed(p) /\ Charted(p, code, prog.map)
  BY HereIsOn
<1>2. g \in DOMAIN p.functions /\ p.functions[g].name = name
  BY DEF IR!FunctionNumber
<1>3. g \in 1 .. Len(p.functions) /\ g \in 0 .. Len(p.functions)
  BY <1>1, <1>2, Lengths
<1> DEFINE u == Unit(p, g, 0)
           m == Len(p.functions[g].params)
<1>4. /\ IsUnit(p, g, 0) /\ PrologueUnit(p, g, u)
      /\ p.functions[g].params \in Seq(STRING) /\ m \in Nat
  BY <1>1, <1>3, PrologueUnitIs
<1>5. /\ DOMAIN u = 1 .. m + 1 /\ u[1] = Label(name)
      /\ \A j \in 1 .. m : u[j + 1].kind = "instr"
  BY <1>2, <1>4, LineKinds DEF PrologueUnit
<1>6. 1 \in DOMAIN u
  BY <1>4, <1>5
<1>7. IsLine(p, g, 0, 1)
  BY <1>4, <1>6 DEF IsLine
<1>8. ValidSite(p, LineAt(p, g, 0, 1)) /\ LineAt(p, g, 0, 1).line = u[1]
  BY <1>3, <1>7, LineIsSite
<1>9. LabelLine(p, LineAt(p, g, 0, 1), name)
  BY <1>5, <1>8, LineKinds DEF LabelLine
<1>10. s = LineAt(p, g, 0, 1)
  BY <1>1, <1>9 DEF Charted
<1>11. NextOf(p, s) = AfterSite(p, g, 0, 1)
  BY <1>10, NextOfLine
<1>12. CASE p.functions[g].params = <<>>
  <2>1. m = 0
    BY <1>12
  <2>2. ~ IsLine(p, g, 0, 1 + 1)
    BY <1>5, <2>1 DEF IsLine
  <2>3. AfterSite(p, g, 0, 1) = LineAt(p, g, SkipTo(p, g, 0 + 1), 1)
    BY <2>2 DEF AfterSite
  <2> QED
    BY <1>3, <1>11, <1>12, <2>3 DEF FirstLine
<1>13. CASE p.functions[g].params # <<>>
  <2>1. m # 0
    BY <1>4, <1>13
  <2>2. 1 \in 1 .. m /\ 1 + 1 \in 1 .. m + 1
    BY <1>4, <2>1
  <2>3. IsLine(p, g, 0, 1 + 1) /\ u[1 + 1].kind = "instr"
    BY <1>4, <1>5, <2>2 DEF IsLine
  <2>4. AfterSite(p, g, 0, 1) = LineAt(p, g, 0, 1 + 1)
    BY <2>3 DEF AfterSite
  <2> QED
    BY <1>3, <1>11, <1>13, <2>4 DEF FirstLine
<1> QED
  BY <1>3, <1>12, <1>13

\* The last of the parameters of one name is what the IR takes, too.
IsParam(p, g, slot) == \E j \in DOMAIN p.functions[g].params : p.functions[g].params[j] = slot

IsParamIndex(p, g, slot, a) ==
    LET params == p.functions[g].params
    IN  /\ a \in 1 .. 3
        /\ a \in 1 .. Len(params)
        /\ params[a] = slot
        /\ a = IR!Max({k \in DOMAIN params : params[k] = slot})

LEMMA ParamIndex ==
    ASSUME NEW p, WellFormed(p), ~ CodegenFails(p), NEW g \in 1 .. Len(p.functions),
           NEW slot, IsParam(p, g, slot), NEW a, a = LastIndex(p.functions[g].params, slot)
    PROVE  IsParamIndex(p, g, slot, a)
<1> DEFINE params == p.functions[g].params
<1>1. /\ Len(params) \in Nat /\ DOMAIN params = 1 .. Len(params) /\ g \in DOMAIN p.functions
  BY PrologueUnitIs, Lengths
<1>2. Len(params) <= 3
  BY <1>1 DEF CodegenFails
<1>3. LastIndex(params, slot) \in 1 .. Len(params) /\ params[LastIndex(params, slot)] = slot
  BY <1>1, LastIndexFound DEF IsParam
<1>4. \A x \in 1 .. Len(params) : x \in 1 .. 3
  BY <1>1, <1>2
<1> QED
  BY <1>3, <1>4, SameMax DEF LastIndex, IsParamIndex

\* What the IR's slots become when a function is entered.
Entered(p, g, before, after) ==
    after = [x \in SlotNames(p) |->
               IF x[1] = g /\ IsParam(p, g, x[2]) THEN gp[LastIndex(p.functions[g].params, x[2])]
               ELSE before[x]]

\* A call, of main or of another function.
LEMMA Calls ==
    ASSUME NEW p, NEW r, Runs(p, r), r.line.op = "CALL", CallSite(p, r),
           IRSlots = MemSlots(p, mem), IRRet = 0,
           \E f \in DOMAIN p.functions : p.functions[f].name = r.line.label,
           NEW g, g = IR!FunctionNumber(p, r.line.label)
    PROVE  /\ IRFrames' = <<[fn |-> r.fn, ip |-> r.ip]>> \o IRFrames
           /\ IR!EnterFunction(g) /\ Ready' /\ CallsPending'
<1>1. /\ gp' = gp /\ output' = output /\ BelowStays(p)
      /\ PendingReturns' = <<pc + 1>> \o PendingReturns
  BY RunsCALL
<1>2. PICK s : LabelLine(p, s, r.line.label) /\ There(p, NextOf(p, s))
  BY RunsCALL
<1>3. Here(p, r) /\ WellFormed(p) /\ Source = p /\ ~ CodegenFails(p)
  BY HereIsView, HereIsOn DEF Runs, Step
<1>4. g \in 1 .. Len(p.functions) /\ NextOf(p, s) = FirstLine(p, g)
  BY <1>2, <1>3, CallTarget
<1>5. /\ IRFrames' = <<[fn |-> r.fn, ip |-> r.ip]>> \o IRFrames
      /\ CallsPending'
  BY <1>1, PushesFrame DEF Runs
<1>6. /\ \A x \in SlotNames(p) : InCell(p, mem', x) = InCell(p, mem, x)
      /\ IRStore' = IRStore
  BY <1>1, <1>3, BelowIsSame
<1>7. IRArgs' = IRArgs
  BY <1>1, ArgsStay DEF SameArgs
<1>8. MemSlots(p, mem') = MemSlots(p, mem)
  BY <1>3, <1>6, SameCells
<1>9. g # 0 /\ g \in Nat /\ 1 \in 1 .. Len(p.functions[g].body)
  <2>1. Len(p.functions[g].body) \in Nat \ {0}
    <3>1. WellFormed(p) /\ g \in 1 .. Len(p.functions)
      BY <1>3, <1>4
    <3> QED
      BY ONLY <3>1, BodyFacts
  <2>2. \A b \in Nat \ {0} : 1 \in 1 .. b
    OBVIOUS
  <2>3. g # 0 /\ g \in Nat
    BY <1>4
  <2> QED
    BY <2>1, <2>2, <2>3
<1>10. PICK j : j = SkipTo(p, g, 1)
  OBVIOUS
<1>11. j \in 1 .. Len(p.functions[g].body)
  BY <1>3, <1>4, <1>9, <1>10, SkipFacts
<1>12. /\ Source' = p /\ IRRet' = 0 /\ IR!Goto(IR!At(g, j)) /\ Ready'
       /\ Entered(p, g, IRSlots, IRSlots')
  <2>1. CASE p.functions[g].params = <<>>
    <3>1. There(p, LineAt(p, g, j, 1))
      BY <1>2, <1>4, <1>10, <2>1 DEF FirstLine
    <3>2. /\ Source' = p /\ IRSlots' = MemSlots(p, mem') /\ IRRet' = 0
          /\ IR!Goto(IR!At(g, j)) /\ Ready'
      BY <1>3, <1>4, <1>11, <3>1, ComesTo
    <3>3. \A slot : ~ IsParam(p, g, slot)
      BY <2>1 DEF IsParam
    <3>4. Entered(p, g, MemSlots(p, mem), MemSlots(p, mem))
      BY <3>3 DEF Entered, MemSlots
    <3> QED
      BY <1>8, <3>2, <3>4
  <2>2. CASE p.functions[g].params # <<>>
    <3>1. PICK t : t = LineAt(p, g, 0, 2)
      OBVIOUS
    <3>2. There(p, t)
      BY <1>2, <1>4, <2>2, <3>1 DEF FirstLine
    <3>3. t.fn = g /\ t.ip = 0 /\ t.nth = 2
      BY <3>1 DEF LineAt
    <3>4. /\ Source' = p
          /\ IRSlots' = SlotsOn(p, t, mem', gp') /\ IRRet' = RetOn(p, t, gp')
          /\ IR!Goto(PlaceOn(p, t))
      BY <1>3, <1>9, <3>2, <3>3, ThereIsView
    <3>5. ~ InBody(t) /\ ~ Receives(p, t) /\ t.fn # 0
      BY <1>9, <3>3 DEF InBody, Receives
    <3>6. RetOn(p, t, gp') = 0 /\ PlaceOn(p, t) = IR!At(g, j)
      BY <1>9, <1>10, <3>3, <3>5 DEF RetOn, PlaceOn, IR!At, Place
    <3>7. Ready'
      <4>1. ReadyAt(p, t, mem', gp', fr')
        BY <3>5 DEF ReadyAt
      <4> QED
        BY <3>2, <4>1, ReadyThere
    <3>8. \A slot : Waits(p, g, 2, slot) <=> IsParam(p, g, slot)
      <4>1. Len(p.functions[g].params) \in Nat /\ DOMAIN p.functions[g].params = 1 .. Len(p.functions[g].params)
        BY <1>3, <1>4, PrologueUnitIs
      <4>2. \A m \in DOMAIN p.functions[g].params : 2 <= m + 1
        BY <4>1
      <4> QED
        BY <4>2 DEF Waits, IsParam
    <3>9. IRSlots' = PrologueSlots(p, g, 2, mem', gp)
      BY <1>1, <1>9, <3>3, <3>4 DEF SlotsOn
    <3>10. PICK m, n : m = mem /\ n = mem'
      OBVIOUS
    <3>11. Entered(p, g, MemSlots(p, m), PrologueSlots(p, g, 2, n, gp))
      <4>1. \A x \in SlotNames(p) : MemSlots(p, m)[x] = InCell(p, n, x)
        BY <1>6, <3>10 DEF MemSlots
      <4> QED
        BY <3>8, <4>1 DEF Entered, PrologueSlots
    <3> QED
      BY <3>4, <3>6, <3>7, <3>9, <3>10, <3>11
  <2> QED
    BY <2>1, <2>2
<1>13. IR!EnterFunction(g)
  <2>1. /\ Source' = Source /\ IRRet' = IRRet /\ UNCHANGED <<IRArgs, IRStore, output>>
        /\ IR!Goto(IR!Entry(Source, g))
    BY <1>1, <1>3, <1>6, <1>7, <1>10, <1>12, SameSkip DEF IR!Entry
  <2>2. DOMAIN IRSlots = SlotNames(p)
    BY DEF MemSlots
  <2>3. \A x \in SlotNames(p) : IsParam(p, g, x[2]) =>
           gp[LastIndex(p.functions[g].params, x[2])]
              = IRArgs[IR!Max({k \in DOMAIN p.functions[g].params : p.functions[g].params[k] = x[2]})]
    <3> SUFFICES ASSUME NEW x \in SlotNames(p), IsParam(p, g, x[2])
                 PROVE  gp[LastIndex(p.functions[g].params, x[2])]
                           = IRArgs[IR!Max({k \in DOMAIN p.functions[g].params : p.functions[g].params[k] = x[2]})]
      OBVIOUS
    <3>1. PICK a : a = LastIndex(p.functions[g].params, x[2])
      OBVIOUS
    <3>2. a \in 1 .. 3 /\ a = IR!Max({k \in DOMAIN p.functions[g].params : p.functions[g].params[k] = x[2]})
      <4>1. PICK slot : slot = x[2]
        OBVIOUS
      <4>2. /\ WellFormed(p) /\ ~ CodegenFails(p) /\ g \in 1 .. Len(p.functions)
            /\ IsParam(p, g, slot)
        BY <1>3, <1>4, <4>1
      <4>3. a = LastIndex(p.functions[g].params, slot)
        BY <3>1, <4>1
      <4>4. IsParamIndex(p, g, slot, a)
        BY ONLY <4>2, <4>3, ParamIndex
      <4> QED
        BY <4>1, <4>4 DEF IsParamIndex
    <3>3. IRArgs[a] = gp[a]
      BY <3>2 DEF IRArgs
    <3> QED
      BY <3>1, <3>2, <3>3
  <2>4. IRSlots' = [x \in SlotNames(p) |->
           IF x[1] = g /\ \E k \in DOMAIN p.functions[g].params : p.functions[g].params[k] = x[2]
           THEN IRArgs[IR!Max({k \in DOMAIN p.functions[g].params : p.functions[g].params[k] = x[2]})]
           ELSE IRSlots[x]]
    BY <1>12, <2>3 DEF Entered, IsParam
  <2> QED
    BY <1>3, <2>1, <2>2, <2>4 DEF IR!EnterFunction
<1> QED
  BY <1>5, <1>12, <1>13

LEMMA DoesCall ==
    ASSUME NEW p, NEW f, NEW k, NEW n, Does(p, f, k, n),
           InstrAt(p, f, k).op = "CALL", n # 2
    PROVE  Simulated
<1> DEFINE i == InstrAt(p, f, k)
           u == Unit(p, f, k)
           r == LineAt(p, f, k, n)
<1>1. /\ IRUnit(p, f, k, u) /\ r.line = u[n] /\ n \in DOMAIN u /\ Runs(p, r) /\ WellFormed(p)
      /\ r.fn = f /\ r.ip = k /\ r.nth = n /\ InBody(r)
      /\ f \in 1 .. Len(p.functions) /\ k \in 1 .. Len(p.functions[f].body)
  BY DoesLine DEF Does
<1>2. n = 1 /\ u[1] = AsmTo("CALL", i.label)
  <2>1. i.dst = "" => Are1(u, AsmTo("CALL", i.label))
    BY <1>1 DEF IRUnit, InstrAt
  <2>2. i.dst # "" => Are2(u, AsmTo("CALL", i.label), StSlot(p, f, 0, i.dst))
    BY <1>1 DEF IRUnit, InstrAt
  <2>3. u[1] = AsmTo("CALL", i.label) /\ (DOMAIN u = 1 .. 1 \/ DOMAIN u = 1 .. 2)
    BY <2>1, <2>2 DEF Are1, Are2
  <2>4. n \in 1 .. 1 \/ n \in 1 .. 2
    BY <1>1, <2>3
  <2> QED
    BY <2>3, <2>4
<1>3. r.line.op = "CALL" /\ r.line.label = i.label
  BY <1>1, <1>2, LineKinds
<1>4. CallSite(p, r)
  BY <1>1, <1>2, HereIsOn DEF CallSite, InstrAt, Runs, Step
<1>5. \E g \in DOMAIN p.functions : p.functions[g].name = i.label
  <2>1. Resolved(p) /\ f \in DOMAIN p.functions /\ k \in DOMAIN p.functions[f].body
    BY <1>1, Lengths, BodyFacts DEF WellFormed
  <2> QED
    BY <2>1 DEF Resolved, InstrAt
<1>6. IRSlots = MemSlots(p, mem) /\ IRRet = 0 /\ Source = p
  BY <1>2, DoesView
<1>7. PICK g : g = IR!FunctionNumber(p, i.label)
  OBVIOUS
<1>8. /\ IRFrames' = <<[fn |-> f, ip |-> k]>> \o IRFrames
      /\ IR!EnterFunction(g) /\ Ready' /\ CallsPending'
  BY <1>1, <1>3, <1>4, <1>5, <1>6, <1>7, Calls
<1>9. IR!fn = f /\ IR!here = i /\ IRLoc.ip = k /\ IR!Doing({"CALL"})
  BY <1>2, DoesInIR
<1>10. IR!Call
  BY <1>6, <1>7, <1>8, <1>9 DEF IR!Call
<1>11. IR!Next
  BY <1>10 DEF IR!Next
<1> QED
  BY <1>8, <1>11 DEF Simulated

\* A slot of the globals is that of a global.
LEMMA GlobalIndexIs ==
    ASSUME NEW p, WellFormed(p), NEW slot, slot \in GlobalSlots(p),
           NEW k, k = GlobalIndex(p, slot)
    PROVE  k \in 1 .. Len(p.globals) /\ p.globals[k].slot = slot
<1> DEFINE names == [j \in DOMAIN p.globals |-> p.globals[j].slot]
<1>1. Len(p.globals) \in Nat /\ DOMAIN p.globals = 1 .. Len(p.globals)
  BY Lengths
<1>2. DOMAIN names = 1 .. Len(p.globals)
  BY <1>1
<1>3. \E j \in DOMAIN names : names[j] = slot
  BY <1>1 DEF GlobalSlots
<1> HIDE DEF names
<1>4. LastIndex(names, slot) \in 1 .. Len(p.globals) /\ names[LastIndex(names, slot)] = slot
  BY <1>1, <1>2, <1>3, LastIndexFound
<1>5. k \in 1 .. Len(p.globals) /\ names[k] = slot
  BY <1>4 DEF GlobalIndex, names
<1> QED
  BY <1>1, <1>5 DEF names

\* Once every global has its value, the slots are what memory has.
LEMMA AfterInit ==
    ASSUME NEW p, WellFormed(p), NEW n, n \in {2 * Len(p.globals) + 2, 2 * Len(p.globals) + 3}, NEW m
    PROVE  InitSlots(p, n, m) = MemSlots(p, m)
<1>1. Len(p.globals) \in Nat
  BY Lengths
<1>2. \A k \in 1 .. Len(p.globals) : ~ (n <= 2 * k + 1)
  BY <1>1
<1>3. \A x \in SlotNames(p) : x[1] = 0 => ~ (n <= 2 * GlobalIndex(p, x[2]) + 1)
  <2> SUFFICES ASSUME NEW x \in SlotNames(p), x[1] = 0
               PROVE  ~ (n <= 2 * GlobalIndex(p, x[2]) + 1)
    OBVIOUS
  <2>1. PICK slot, k : slot = x[2] /\ k = GlobalIndex(p, slot)
    OBVIOUS
  <2>2. slot \in GlobalSlots(p)
    <3>1. \A f \in 1 .. Len(p.functions) : f # 0
      BY Lengths
    <3> QED
      BY <2>1, <3>1, SlotNameCases
  <2>3. k \in 1 .. Len(p.globals)
    BY <2>1, <2>2, GlobalIndexIs
  <2> QED
    BY <1>2, <2>1, <2>3
<1> QED
  BY <1>3 DEF InitSlots, MemSlots

\* Leaving a function for the call site c.
LEMMA Leaves ==
    ASSUME NEW c, NEW words,
           IRFrames' = Tail(IRFrames), Head(IRFrames) = [fn |-> c.fn, ip |-> c.ip],
           Source' = Source, IRArgs' = IRArgs, IRSlots' = IRSlots, IRStore' = IRStore,
           output' = output,
           \/ c.fn = 0 /\ IR!Goto(IR!Return0) /\ IRRet' = 0
           \/ /\ c.fn # 0 /\ InstrAt(Source, c.fn, c.ip).dst = "" /\ IRRet' = 0
              /\ IR!Goto(IR!At(c.fn, IR!Skip(Source, c.fn, c.ip + 1)))
           \/ /\ c.fn # 0 /\ InstrAt(Source, c.fn, c.ip).dst # "" /\ IRRet' \in words
              /\ IR!Goto(IR!Receiving(c.fn, c.ip))
    PROVE  IR!Leave(words)
<1>1. PICK site : site = Head(IRFrames)
  OBVIOUS
<1>2. site.fn = c.fn /\ site.ip = c.ip
  <2>1. site = [fn |-> c.fn, ip |-> c.ip]
    BY <1>1, Zenon
  <2> QED
    BY ONLY <2>1
<1>3. UNCHANGED <<Source, IRArgs, IRSlots, IRStore, output>>
  OBVIOUS
<1>4. IF site.fn = 0
      THEN IR!Goto(IR!Return0) /\ IRRet' = IR!NoWord
      ELSE IF Source.functions[site.fn].body[site.ip].dst = ""
      THEN /\ IR!Goto(IR!At(site.fn, IR!Skip(Source, site.fn, site.ip + 1)))
           /\ IRRet' = IR!NoWord
      ELSE /\ IR!Goto(IR!Receiving(site.fn, site.ip))
           /\ IRRet' \in words
  BY <1>2 DEF InstrAt, IR!NoWord
<1> QED
  BY <1>1, <1>3, <1>4 DEF IR!Leave

\* A return: what was returned is in R0.
LEMMA Returns ==
    ASSUME NEW p, NEW r, Runs(p, r), r.line.op = "RET",
           IRSlots = MemSlots(p, mem), NEW words, gp[0] \in words
    PROVE  IR!Leave(words) /\ Ready' /\ CallsPending'
<1>1. PICK c : c = prog.map[PendingReturns[1]]
  OBVIOUS
<1>2. /\ gp' = gp /\ mem' = mem /\ fr' = fr /\ output' = output
      /\ PendingReturns # <<>> /\ PendingReturns' = Tail(PendingReturns)
      /\ CallSite(p, c) /\ There(p, NextOf(p, c))
  BY <1>1, RunsRET
<1>3. Step(p, r) /\ WellFormed(p) /\ Source = p
  BY HereIsView DEF Runs, Step
<1>4. /\ IRFrames' = Tail(IRFrames) /\ Head(IRFrames) = [fn |-> c.fn, ip |-> c.ip]
      /\ CallsPending'
  BY <1>1, <1>2, <1>3, PopsFrame
<1>5. IRArgs' = IRArgs /\ IRStore' = IRStore
  BY <1>2 DEF IRArgs, IRStore
<1>6. MemSlots(p, mem') = IRSlots
  BY <1>2
<1>7. /\ c.line.kind = "instr" /\ c.line.op = "CALL"
      /\ \/ c.fn = 0 /\ c.ip = 0 /\ NextOf(p, c) = LineAt(p, 0, 0, 2 * Len(p.globals) + 3)
         \/ /\ c.fn \in 1 .. Len(p.functions) /\ c.ip \in 1 .. Len(p.functions[c.fn].body)
            /\ p.functions[c.fn].body[c.ip].op = "CALL"
            /\ c.ip + 1 \in 1 .. Len(p.functions[c.fn].body)
            /\ c = LineAt(p, c.fn, c.ip, 1)
            /\ NextOf(p, c) = IF p.functions[c.fn].body[c.ip].dst = "" THEN NextInstr(p, c.fn, c.ip)
                              ELSE LineAt(p, c.fn, c.ip, 2)
  BY <1>2, <1>3, CallSiteIs
<1>8. CASE c.fn = 0
  <2>1. PICK t : t = LineAt(p, 0, 0, 2 * Len(p.globals) + 3)
    OBVIOUS
  <2>2. NextOf(p, c) = t
    <3>1. \A f \in 1 .. Len(p.functions) : f # 0
      BY <1>3, Lengths
    <3> QED
      BY <1>7, <1>8, <2>1, <3>1
  <2>3. t.fn = 0 /\ t.ip = 0 /\ t.nth = 2 * Len(p.globals) + 3 /\ t.line.op = "HALT"
    <3>1. InitUnit(p, Unit(p, 0, 0))
      BY <1>3, InitUnitIs
    <3>2. Unit(p, 0, 0)[2 * Len(p.globals) + 3].op = "HALT"
      BY <3>1, LineKinds DEF InitUnit
    <3> QED
      BY <2>1, <3>2 DEF LineAt
  <2>4. There(p, t) /\ t.fn \in Nat
    BY <1>2, <2>2, <2>3
  <2>5. /\ Source' = p
        /\ IRSlots' = SlotsOn(p, t, mem', gp') /\ IRRet' = RetOn(p, t, gp')
        /\ IR!Goto(PlaceOn(p, t))
    BY <1>3, <2>4, ThereIsView
  <2>6. PICK m : m = mem'
    OBVIOUS
  <2>7. InitSlots(p, 2 * Len(p.globals) + 3, m) = MemSlots(p, m)
    BY <1>3, AfterInit
  <2>8. IRSlots' = IRSlots
    BY <1>6, <2>3, <2>5, <2>6, <2>7 DEF SlotsOn
  <2>9. IRRet' = 0 /\ PlaceOn(p, t) = IR!Return0
    BY <2>3, <2>5 DEF RetOn, Receives, InBody, PlaceOn, Place, IR!Return0, IR!At
  <2>10. ReadyAt(p, t, mem', gp', fr')
    <3>1. Len(p.globals) \in Nat /\ DOMAIN p.globals = 1 .. Len(p.globals)
      BY <1>3, Lengths
    <3>2. \A k \in DOMAIN p.globals : 2 * Len(p.globals) + 3 # 2 * k + 1
      BY <3>1
    <3> QED
      BY <2>3, <3>2 DEF ReadyAt, InBody
  <2>11. Ready'
    BY <2>4, <2>10, ReadyThere
  <2> QED
    BY <1>2, <1>3, <1>4, <1>5, <1>8, <2>5, <2>8, <2>9, <2>11, Leaves
<1>9. CASE c.fn # 0
  <2>1. PICK f, k : f = c.fn /\ k = c.ip
    OBVIOUS
  <2> DEFINE i == InstrAt(p, f, k)
  <2>2. /\ f \in 1 .. Len(p.functions) /\ k \in 1 .. Len(p.functions[f].body)
        /\ i.op = "CALL" /\ k + 1 \in 1 .. Len(p.functions[f].body)
        /\ NextOf(p, c) = IF i.dst = "" THEN NextInstr(p, f, k) ELSE LineAt(p, f, k, 2)
    BY <1>7, <1>9, <2>1 DEF InstrAt
  <2>3. f # 0 /\ k # 0 /\ f \in Nat /\ k \in Nat
    BY <1>3, <2>2, BodyUnitIs
  <2>4. CASE i.dst = ""
    <3>1. PICK j : j = SkipTo(p, f, k + 1)
      OBVIOUS
    <3>2. There(p, LineAt(p, f, j, 1))
      BY <1>2, <2>2, <2>4, <3>1 DEF NextInstr
    <3>3. j \in 1 .. Len(p.functions[f].body)
      <4>1. k \in 0 .. Len(p.functions[f].body)
        <5>1. Len(p.functions[f].body) \in Nat
          BY <1>3, <2>2, BodyFacts
        <5>2. \A b \in Nat : 1 .. b \subseteq 0 .. b
          OBVIOUS
        <5> QED
          BY <2>2, <5>1, <5>2
      <4> QED
        BY <1>3, <2>2, <3>1, <4>1, NextInstrIs
    <3>4. /\ Source' = p /\ IRSlots' = MemSlots(p, mem') /\ IRRet' = 0
          /\ IR!Goto(IR!At(f, j)) /\ Ready'
      BY <1>3, <2>2, <3>2, <3>3, ComesTo
    <3>5. IR!Skip(p, f, k + 1) = j
      BY <3>1, SameSkip
    <3>6. /\ IR!Goto(IR!At(c.fn, IR!Skip(Source, c.fn, c.ip + 1))) /\ IRRet' = 0
          /\ Source' = Source /\ IRSlots' = IRSlots
      BY <1>3, <1>6, <2>1, <3>4, <3>5
    <3> QED
      BY <1>2, <1>3, <1>4, <1>5, <1>9, <2>1, <2>4, <3>4, <3>6, Leaves
  <2>5. CASE i.dst # ""
    <3>1. PICK t : t = LineAt(p, f, k, 2)
      OBVIOUS
    <3>2. There(p, t) /\ t.fn = f /\ t.ip = k /\ t.nth = 2
      BY <1>2, <2>2, <2>5, <3>1 DEF LineAt
    <3>3. /\ Source' = p
          /\ IRSlots' = SlotsOn(p, t, mem', gp') /\ IRRet' = RetOn(p, t, gp')
          /\ IR!Goto(PlaceOn(p, t))
      BY <1>3, <2>3, <3>2, ThereIsView
    <3>4. InBody(t) /\ Receives(p, t)
      BY <2>2, <2>3, <3>2 DEF InBody, Receives, InstrAt
    <3>5. IRRet' = gp'[0] /\ PlaceOn(p, t) = IR!Receiving(f, k)
      BY <3>2, <3>3, <3>4, <2>3 DEF RetOn, PlaceOn, Place, IR!Receiving
    <3>6. IRSlots' = IRSlots
      BY <1>6, <2>3, <3>2, <3>3 DEF SlotsOn
    <3>7. LineReady(p, f, i, 2, mem', gp', fr')
      BY <2>2 DEF LineReady, Booleans, Comparisons
    <3>8. ReadyAt(p, t, mem', gp', fr')
      BY <2>3, <3>2, <3>7 DEF ReadyAt, InstrAt
    <3>9. Ready'
      BY <3>2, <3>8, ReadyThere
    <3>10. IR!Goto(IR!Receiving(c.fn, c.ip)) /\ IRRet' \in words /\ Source' = Source
      BY <1>2, <1>3, <2>1, <3>3, <3>5
    <3> QED
      BY <1>2, <1>3, <1>4, <1>5, <1>9, <2>1, <2>5, <3>6, <3>9, <3>10, Leaves
  <2> QED
    BY <2>4, <2>5
<1> QED
  BY <1>8, <1>9

LEMMA DoesReturn ==
    ASSUME NEW p, NEW f, NEW k, NEW n, Does(p, f, k, n), InstrAt(p, f, k).op = "RETURN"
    PROVE  Simulated
<1> DEFINE i == InstrAt(p, f, k)
           u == Unit(p, f, k)
           x == Cell(p, f, mem, i.src)
           r == LineAt(p, f, k, n)
<1>1. Are2(u, LdSlot(p, f, 0, i.src), Asm("RET", 0, 0, 0))
  BY DoesLine DEF IRUnit, InstrAt
<1>2. AllInstr(u, 2)
  BY <1>1, FewInstr, LineKinds DEF LdSlot
<1>3. n \in 1 .. 2 /\ 0 \in Registers
  BY <1>2, NextIn DEF Registers
<1>4. Runs(p, r) /\ r.line = u[n] /\ WellFormed(p)
  BY DoesLine DEF Does
<1>5. CASE n = 1
  <2>1. /\ Sets(0, x) /\ SameArgs /\ mem' = mem /\ Passes(p, f, k, n)
    BY <1>1, <1>3, <1>5, DoesLD DEF Are2
  <2>2. Goes(p, LineAt(p, f, k, 2))
    BY <1>2, <1>5, <2>1, NextIn
  <2>3. LineReady(p, f, i, 2, mem', gp', fr')
    BY <2>1, ReadyForOp DEF Sets
  <2> QED
    BY <2>1, <2>2, <2>3, StaysInside DEF Passes
<1>6. CASE n = 2
  <2>1. gp[0] = x
    BY <1>6, DoesView, ReadyForOp
  <2>2. r.line.op = "RET"
    BY <1>1, <1>4, <1>6, LineKinds DEF Are2
  <2>3. UsesSlots(p, f, i) /\ IRSlots = MemSlots(p, mem)
    BY DoesView
  <2>4. i.src \in SlotsOf(p, f)
    BY <2>3 DEF UsesSlots, LoadsSrc
  <2>5. IR!here = i /\ IR!Doing({"RETURN"}) /\ IR!Value(i.src) = x
    BY <2>4, DoesInIR
  <2>6. IR!Leave({x}) /\ Ready' /\ CallsPending'
    BY <1>4, <2>1, <2>2, <2>3, Returns
  <2>7. IR!Return
    BY <2>5, <2>6 DEF IR!Return
  <2>8. IR!Next
    BY <2>7 DEF IR!Next
  <2> QED
    BY <2>6, <2>8 DEF Simulated
<1> QED
  BY <1>3, <1>5, <1>6

LEMMA DoesReturnVoid ==
    ASSUME NEW p, NEW f, NEW k, NEW n, Does(p, f, k, n), InstrAt(p, f, k).op = "RETURN_VOID"
    PROVE  Simulated
<1> DEFINE i == InstrAt(p, f, k)
           u == Unit(p, f, k)
           r == LineAt(p, f, k, n)
<1>1. Are1(u, Asm("RET", 0, 0, 0))
  BY DoesLine DEF IRUnit, InstrAt
<1>2. Runs(p, r) /\ r.line = u[n] /\ WellFormed(p) /\ n \in DOMAIN u
  BY DoesLine DEF Does
<1>3. r.line.op = "RET"
  BY <1>1, <1>2, LineKinds DEF Are1
<1>4. IRSlots = MemSlots(p, mem) /\ gp[0] \in Word
  <2>1. gp \in [Registers -> Word] /\ IRSlots = MemSlots(p, mem)
    BY DoesView
  <2> QED
    BY <2>1 DEF Registers
<1>5. IR!Doing({"RETURN_VOID"})
  BY DoesInIR
<1>6. IR!Leave(IR!Word) /\ Ready' /\ CallsPending'
  BY <1>2, <1>3, <1>4, Returns, SameWords
<1>7. IR!ReturnVoid
  BY <1>5, <1>6 DEF IR!ReturnVoid
<1>8. IR!Next
  BY <1>7 DEF IR!Next
<1> QED
  BY <1>6, <1>8 DEF Simulated

-----------------------------------------------------------------------------
(* A prologue: the parameters go from their registers to their slots.      *)

ParamStored(p, f, j, m, n, g) ==
    PrologueSlots(p, f, j + 2, n, g) = PrologueSlots(p, f, j + 1, m, g)

LEMMA StoreParam ==
    ASSUME NEW p, WellFormed(p), NEW f \in 1 .. Len(p.functions),
           NEW j \in 1 .. Len(p.functions[f].params), NEW slot, slot = p.functions[f].params[j],
           NEW m \in [Addresses -> Word], NEW n, NEW g,
           SlotAddress(p, f, slot) \in Addresses, CellWritten(p, f, slot, m, n, g[j])
    PROVE  /\ <<f, slot>> \in SlotNames(p)
           /\ ParamStored(p, f, j, m, n, g)
<1> DEFINE params == p.functions[f].params
           L == Len(params)
<1>1. /\ params \in Seq(STRING) /\ L \in Nat /\ DOMAIN params = 1 .. L
      /\ p.functions[f] \in IRFunctions /\ f # 0
  <2>1. params \in Seq(STRING) /\ L \in Nat /\ DOMAIN params = 1 .. L
    BY PrologueUnitIs
  <2>2. p.functions[f] \in IRFunctions
    BY Lengths
  <2> QED
    BY <2>1, <2>2
<1>2. j \in DOMAIN params
  BY <1>1
<1>3. slot \in SlotsOf(p, f) /\ slot \notin GlobalSlots(p)
  <2>1. /\ slot \in SlotsOf(p, f) /\ j \in DOMAIN Block(p.functions[f])
        /\ Block(p.functions[f])[j] = slot
    BY <1>1, <1>2, ParamsAreSlots
  <2>2. f \in DOMAIN p.functions
    BY Lengths
  <2> QED
    BY <2>1, <2>2 DEF WellFormed
<1>4. PICK x : x = <<f, slot>>
  OBVIOUS
<1>5. x \in SlotNames(p) /\ x[1] = f /\ x[2] = slot
  <2>1. Owned(p, f, slot) \in SlotNames(p)
    BY <1>3, OwnedSlot
  <2> QED
    BY <1>3, <1>4, <2>1 DEF Owned
<1>6. Writes(p, x, m, n, g[j])
  <2>1. /\ SlotAddress(p, x[1], x[2]) \in Addresses
        /\ n = [m EXCEPT ![SlotAddress(p, x[1], x[2])] = g[j]]
    BY <1>5 DEF CellWritten
  <2> QED
    BY <1>5, <2>1, WriteSlot
<1>7. \A s : Waits(p, f, j + 1, s) <=> Waits(p, f, j + 2, s) \/ s = slot
  <2>1. \A i \in 1 .. L : j + 1 <= i + 1 <=> (j + 2 <= i + 1 \/ i = j)
    BY <1>1
  <2> QED
    BY <1>1, <2>1 DEF Waits
<1>8. ~ Waits(p, f, j + 2, slot) => LastIndex(params, slot) = j
  <2>1. PICK a : a = LastIndex(params, slot)
    OBVIOUS
  <2>2. a \in 1 .. L /\ params[a] = slot /\ j <= a
    BY <1>1, <1>2, <2>1, LastIndexFound
  <2>3. ~ (j + 2 <= a + 1) => a = j
    BY <1>1, <2>2
  <2> QED
    BY <1>1, <2>1, <2>2, <2>3 DEF Waits
<1>9. ASSUME NEW y \in SlotNames(p)
      PROVE  PrologueSlots(p, f, j + 2, n, g)[y] = PrologueSlots(p, f, j + 1, m, g)[y]
  <2>1. InCell(p, n, y) = IF y = x THEN g[j] ELSE InCell(p, m, y)
    BY <1>6 DEF Writes
  <2>2. PrologueSlots(p, f, j + 2, n, g)[y] =
           IF y[1] = f /\ Waits(p, f, j + 2, y[2]) THEN g[LastIndex(params, y[2])] ELSE InCell(p, n, y)
    BY DEF PrologueSlots
  <2>3. PrologueSlots(p, f, j + 1, m, g)[y] =
           IF y[1] = f /\ Waits(p, f, j + 1, y[2]) THEN g[LastIndex(params, y[2])] ELSE InCell(p, m, y)
    BY DEF PrologueSlots
  <2>4. y = x <=> y[1] = f /\ y[2] = slot
    BY <1>4, <1>5, SlotNameCases
  <2> HIDE DEF params
  <2> QED
    BY <1>5, <1>7, <1>8, <2>1, <2>2, <2>3, <2>4
<1>10. PrologueSlots(p, f, j + 2, n, g) = PrologueSlots(p, f, j + 1, m, g)
  BY <1>9 DEF PrologueSlots
<1> QED
  BY <1>4, <1>5, <1>10 DEF ParamStored

LEMMA DoesPrologue ==
    ASSUME NEW p, NEW f \in 1 .. Len(p.functions), NEW n, Runs(p, LineAt(p, f, 0, n))
    PROVE  Simulated
<1> DEFINE r == LineAt(p, f, 0, n)
           u == Unit(p, f, 0)
           params == p.functions[f].params
           L == Len(params)
<1>1. /\ Step(p, r) /\ WellFormed(p) /\ Source = p /\ ~ CodegenFails(p) /\ Here(p, r)
      /\ ValidSite(p, r) /\ r.line.kind = "instr"
  BY HereIsView, HereIsOn DEF Runs, Step
<1>2. r.fn = f /\ r.ip = 0 /\ r.nth = n /\ r.line = u[n] /\ n \in DOMAIN u
  BY <1>1 DEF LineAt, ValidSite, IsLine
<1>3. /\ IsUnit(p, f, 0) /\ PrologueUnit(p, f, u) /\ params \in Seq(STRING)
      /\ L \in Nat /\ DOMAIN params = 1 .. L
  BY <1>1, PrologueUnitIs
<1>4. DOMAIN u = 1 .. L + 1 /\ u[1].kind = "label"
  BY <1>3, LineKinds DEF PrologueUnit
<1>5. PICK j \in 1 .. L : n = j + 1
  <2>1. n \in 1 .. L + 1 /\ n # 1
    BY <1>1, <1>2, <1>4
  <2>2. n - 1 \in 1 .. L /\ n = (n - 1) + 1
    BY <1>3, <2>1
  <2> QED
    BY <2>2
<1>6. PICK slot : slot = params[j]
  OBVIOUS
<1>7. u[n] = Asm("ST", j, SlotAddress(p, f, slot), 0)
  BY <1>3, <1>5, <1>6 DEF PrologueUnit
<1>8. r.line.op = "ST" /\ r.line.a = j /\ r.line.b = SlotAddress(p, f, slot)
  BY <1>2, <1>7, LineKinds
<1>9. /\ mem' = [mem EXCEPT ![SlotAddress(p, f, slot)] = gp[j]]
      /\ SlotAddress(p, f, slot) \in Addresses
      /\ gp' = gp /\ fr' = fr /\ output' = output
      /\ Goes(p, NextOf(p, r))
  BY <1>8, RunsST
<1>10. PICK m, mm, g : m = mem /\ mm = mem' /\ g = gp
  OBVIOUS
<1>11. m \in [Addresses -> Word] /\ 0 .. DataBase - 1 \subseteq Addresses
  <2>1. /\ mem \in [Addresses -> Word] /\ sp \in Addresses
        /\ NextFree(p) \in Nat /\ DataBase <= NextFree(p) /\ NextFree(p) <= sp + 1
    BY <1>1, HereState
  <2>2. 0 .. DataBase - 1 \subseteq Addresses
    BY <2>1, AddressMapAssumption, VMAssumption DEF Addresses
  <2> QED
    BY <1>10, <2>1, <2>2
<1>12. <<f, slot>> \in SlotNames(p) /\ ParamStored(p, f, j, m, mm, g)
  <2>1. CellWritten(p, f, slot, m, mm, g[j])
    BY <1>9, <1>10 DEF CellWritten
  <2> QED
    BY <1>1, <1>5, <1>6, <1>9, <1>11, <2>1, StoreParam
<1>13. IRStore' = IRStore
  <2>1. PICK x : x = <<f, slot>>
    OBVIOUS
  <2>2. /\ x \in SlotNames(p) /\ mem \in [Addresses -> Word]
        /\ mem' = [mem EXCEPT ![SlotAddress(p, x[1], x[2])] = gp[j]]
    BY <1>9, <1>10, <1>11, <1>12, <2>1
  <2> QED
    BY <1>1, <1>11, <2>2, SlotIsNotInStore
<1>14. f # 0 /\ f \in Nat /\ Len(p.functions[f].body) \in Nat \ {0}
  <2>1. Len(p.functions[f].body) \in Nat \ {0}
    BY <1>1, BodyFacts
  <2> QED
    BY <2>1
<1>15. NextOf(p, r) = AfterSite(p, f, 0, n)
  BY NextOfLine
<1>16. ~ Receives(p, r) /\ ~ InBody(r) /\ SlotsOn(p, r, mem, gp) = PrologueSlots(p, f, j + 1, m, g)
  BY <1>2, <1>5, <1>10, <1>14 DEF Receives, InBody, SlotsOn
<1>17. PlaceOn(p, r) = Place(f, SkipTo(p, f, 1), "go")
  BY <1>2, <1>14 DEF PlaceOn
<1>18. SameArgs
  BY <1>9 DEF SameArgs
<1>19. CASE j # L
  <2>1. PICK t : t = LineAt(p, f, 0, n + 1)
    OBVIOUS
  <2>2. j + 1 \in 1 .. L /\ n + 1 \in 1 .. L + 1 /\ n + 1 = (j + 1) + 1 /\ n + 1 = j + 2
    BY <1>3, <1>5, <1>19
  <2>3. IsLine(p, f, 0, n + 1) /\ u[n + 1].kind = "instr"
    <3>1. u[(j + 1) + 1].kind = "instr"
      BY <1>3, <2>2, LineKinds DEF PrologueUnit
    <3> QED
      BY <1>3, <1>4, <2>2, <3>1 DEF IsLine
  <2>4. NextOf(p, r) = t
    BY <1>15, <2>1, <2>3 DEF AfterSite
  <2>5. t.fn = f /\ t.ip = 0 /\ t.nth = j + 2
    BY <2>1, <2>2 DEF LineAt
  <2>6. /\ ~ Receives(p, t) /\ ~ InBody(t)
        /\ SlotsOn(p, t, mem', gp') = PrologueSlots(p, f, j + 2, mm, g)
    BY <1>9, <1>10, <1>14, <2>5 DEF Receives, InBody, SlotsOn
  <2>7. SlotsOn(p, t, mem', gp') = SlotsOn(p, r, mem, gp)
    BY <1>12, <1>16, <2>6 DEF ParamStored
  <2>8. PlaceOn(p, t) = PlaceOn(p, r)
    BY <1>14, <1>17, <2>5 DEF PlaceOn
  <2>9. RetOn(p, t, gp') = RetOn(p, r, gp)
    BY <1>16, <2>6 DEF RetOn
  <2>10. ReadyAt(p, t, mem', gp', fr')
    BY <1>14, <2>5, <2>6 DEF ReadyAt
  <2>11. Goes(p, t) /\ t.fn \in Nat
    BY <1>9, <1>14, <2>4, <2>5
  <2> QED
    BY <1>1, <1>9, <1>13, <1>18, <2>7, <2>8, <2>9, <2>10, <2>11, SilentStep
<1>20. CASE j = L
  <2>1. PICK k : k = SkipTo(p, f, 1)
    OBVIOUS
  <2>2. PICK t : t = LineAt(p, f, k, 1)
    OBVIOUS
  <2>3. ~ IsLine(p, f, 0, n + 1)
    BY <1>3, <1>4, <1>5, <1>20 DEF IsLine
  <2>4. NextOf(p, r) = t
    BY <1>15, <2>1, <2>2, <2>3 DEF AfterSite
  <2>5. k \in 1 .. Len(p.functions[f].body) /\ p.functions[f].body[k].op # "LABEL" /\ k # 0
    <3>1. \A b \in Nat \ {0} : 1 \in 1 .. b
      OBVIOUS
    <3>2. 1 \in 1 .. Len(p.functions[f].body)
      BY <1>14, <3>1
    <3>3. k \in 1 .. Len(p.functions[f].body) /\ p.functions[f].body[k].op # "LABEL"
      BY <1>1, <2>1, <3>2, SkipFacts
    <3> QED
      BY <1>1, <3>3, BodyUnitIs
  <2>6. t.fn = f /\ t.ip = k /\ t.nth = 1
    BY <2>2 DEF LineAt
  <2>7. ~ Receives(p, t) /\ SlotsOn(p, t, mem', gp') = MemSlots(p, mm)
    BY <1>10, <1>14, <2>5, <2>6 DEF Receives, SlotsOn
  <2>8. PrologueSlots(p, f, j + 2, mm, g) = MemSlots(p, mm)
    <3>1. \A i \in 1 .. L : ~ (j + 2 <= i + 1)
      BY <1>3, <1>20
    <3>2. \A s : ~ Waits(p, f, j + 2, s)
      BY <1>3, <3>1 DEF Waits
    <3> QED
      BY <3>2 DEF PrologueSlots, MemSlots
  <2>9. SlotsOn(p, t, mem', gp') = SlotsOn(p, r, mem, gp)
    BY <1>12, <1>16, <2>7, <2>8 DEF ParamStored
  <2>10. PlaceOn(p, t) = PlaceOn(p, r)
    BY <1>14, <1>17, <2>1, <2>5, <2>6, <2>7 DEF PlaceOn
  <2>11. RetOn(p, t, gp') = RetOn(p, r, gp)
    BY <1>16, <2>7 DEF RetOn
  <2>12. ReadyAt(p, t, mem', gp', fr')
    BY <1>14, <2>2, FirstLineReady
  <2>13. Goes(p, t) /\ t.fn \in Nat
    BY <1>9, <1>14, <2>4, <2>6
  <2> QED
    BY <1>1, <1>9, <1>13, <1>18, <2>9, <2>10, <2>11, <2>12, <2>13, SilentStep
<1> QED
  BY <1>19, <1>20

-----------------------------------------------------------------------------
(* _init: the globals get their values, main is called, the run halts.     *)

GlobalStored(p, k, m, n) == InitSlots(p, 2 * k + 2, n) = InitSlots(p, 2 * k + 1, m)

LEMMA StoreGlobal ==
    ASSUME NEW p, WellFormed(p), NEW k \in 1 .. Len(p.globals),
           NEW slot, slot = p.globals[k].slot, NEW m \in [Addresses -> Word], NEW n,
           SlotAddress(p, 0, slot) \in Addresses,
           CellWritten(p, 0, slot, m, n, WrapWord(p.globals[k].init))
    PROVE  <<0, slot>> \in SlotNames(p) /\ GlobalStored(p, k, m, n)
<1> DEFINE G == Len(p.globals)
           w == WrapWord(p.globals[k].init)
<1>1. G \in Nat /\ DOMAIN p.globals = 1 .. G
  BY Lengths
<1>2. slot \in GlobalSlots(p)
  BY <1>1 DEF GlobalSlots
<1>3. PICK x : x = <<0, slot>>
  OBVIOUS
<1>4. x \in SlotNames(p) /\ x[1] = 0 /\ x[2] = slot
  BY <1>2, <1>3 DEF SlotNames
<1>5. Writes(p, x, m, n, w)
  <2>1. /\ SlotAddress(p, x[1], x[2]) \in Addresses
        /\ n = [m EXCEPT ![SlotAddress(p, x[1], x[2])] = w]
    BY <1>4 DEF CellWritten
  <2> QED
    BY <1>4, <2>1, WriteSlot
<1>6. ASSUME NEW y \in SlotNames(p)
      PROVE  InitSlots(p, 2 * k + 2, n)[y] = InitSlots(p, 2 * k + 1, m)[y]
  <2>1. InCell(p, n, y) = IF y = x THEN w ELSE InCell(p, m, y)
    BY <1>5 DEF Writes
  <2>2. PICK i : i = GlobalIndex(p, y[2])
    OBVIOUS
  <2>3. InitSlots(p, 2 * k + 2, n)[y] =
           IF y[1] = 0 /\ 2 * k + 2 <= 2 * i + 1 THEN WrapWord(p.globals[i].init) ELSE InCell(p, n, y)
    BY <2>2 DEF InitSlots
  <2>4. InitSlots(p, 2 * k + 1, m)[y] =
           IF y[1] = 0 /\ 2 * k + 1 <= 2 * i + 1 THEN WrapWord(p.globals[i].init) ELSE InCell(p, m, y)
    BY <2>2 DEF InitSlots
  <2>5. CASE y[1] # 0
    BY <1>4, <2>1, <2>3, <2>4, <2>5
  <2>6. CASE y[1] = 0
    <3>1. y[2] \in GlobalSlots(p)
      <4>1. \A f \in 1 .. Len(p.functions) : f # 0
        BY Lengths
      <4> QED
        BY <2>6, <4>1, SlotNameCases
    <3>2. PICK s : s = y[2]
      OBVIOUS
    <3>3. i \in 1 .. G /\ p.globals[i].slot = s
      BY <2>2, <3>1, <3>2, GlobalIndexIs
    <3>4. y = x <=> s = slot
      BY <1>3, <1>4, <2>6, <3>2, SlotNameCases
    <3>5. s = slot <=> i = k
      BY <1>1, <3>3 DEF WellFormed
    <3>6. /\ i = k => 2 * k + 1 <= 2 * i + 1 /\ ~ (2 * k + 2 <= 2 * i + 1)
          /\ i # k => (2 * k + 2 <= 2 * i + 1 <=> 2 * k + 1 <= 2 * i + 1)
      BY <1>1, <3>3
    <3> QED
      BY <2>1, <2>3, <2>4, <2>6, <3>4, <3>5, <3>6
  <2> QED
    BY <2>5, <2>6
<1>7. InitSlots(p, 2 * k + 2, n) = InitSlots(p, 2 * k + 1, m)
  BY <1>6 DEF InitSlots
<1> QED
  BY <1>3, <1>4, <1>7 DEF GlobalStored

\* The lines of _init after its label come in pairs.
LEMMA EvenOrOdd ==
    ASSUME NEW G \in Nat, NEW j \in 2 .. 2 * G + 3
    PROVE  \/ j = 2 * G + 2 \/ j = 2 * G + 3
           \/ \E k \in 1 .. G : j = 2 * k \/ j = 2 * k + 1
<1>1. PICK k : k = j \div 2
  OBVIOUS
<1>2. k \in Int /\ (j = 2 * k \/ j = 2 * k + 1)
  BY <1>1
<1>3. k \in 1 .. G \/ k = G + 1
  BY <1>2
<1> QED
  BY <1>2, <1>3

\* Control in _init, at line n.
RunsInit(p, n) ==
    /\ WellFormed(p) /\ ~ CodegenFails(p) /\ Runs(p, LineAt(p, 0, 0, n))
    /\ n \in 2 .. 2 * Len(p.globals) + 3
    /\ LineAt(p, 0, 0, n).line = Unit(p, 0, 0)[n]

LEMMA AtInitLine ==
    ASSUME NEW p, NEW n, Runs(p, LineAt(p, 0, 0, n))
    PROVE  RunsInit(p, n)
<1> DEFINE r == LineAt(p, 0, 0, n)
           u == Unit(p, 0, 0)
           G == Len(p.globals)
<1>1. /\ WellFormed(p) /\ ~ CodegenFails(p)
      /\ ValidSite(p, r) /\ r.line.kind = "instr"
  BY HereIsOn DEF Runs, Step
<1>2. r.fn = 0 /\ r.ip = 0 /\ r.nth = n /\ r.line = u[n]
  BY DEF LineAt
<1>3. n \in DOMAIN u
  BY <1>1, <1>2 DEF ValidSite, IsLine
<1>4. G \in Nat /\ DOMAIN u = 1 .. 2 * G + 3 /\ u[1].kind = "label"
  BY <1>1, InitUnitIs, LineKinds DEF InitUnit
<1>5. n \in 1 .. 2 * G + 3 /\ n # 1
  BY <1>1, <1>2, <1>3, <1>4
<1>6. n \in 2 .. 2 * G + 3
  BY <1>4, <1>5
<1> QED
  BY <1>1, <1>2, <1>6 DEF RunsInit

LEMMA InitView ==
    ASSUME NEW p, NEW n, RunsInit(p, n)
    PROVE  LET r == LineAt(p, 0, 0, n)
           IN  /\ Step(p, r) /\ Source = p /\ IRSlots = InitSlots(p, n, mem) /\ IRRet = 0
               /\ r.fn = 0 /\ r.ip = 0 /\ r.nth = n /\ r.line = Unit(p, 0, 0)[n]
               /\ \A m, g : SlotsOn(p, r, m, g) = InitSlots(p, n, m) /\ RetOn(p, r, g) = 0
               /\ IRStatus = "running" /\ IRLoc = PlaceOn(p, r)
               /\ PlaceOn(p, r) = IF r.line.op = "HALT" THEN IR!Return0 ELSE IR!Begin
               /\ InitUnit(p, Unit(p, 0, 0)) /\ IsUnit(p, 0, 0) /\ Len(p.globals) \in Nat
               /\ NextOf(p, r) = AfterSite(p, 0, 0, n)
               /\ ReadyAt(p, r, mem, gp, fr)
               /\ mem \in [Addresses -> Word] /\ gp \in [Registers -> Word]
               /\ 0 .. DataBase - 1 \subseteq Addresses
<1> DEFINE r == LineAt(p, 0, 0, n)
<1>1. /\ Step(p, r) /\ Here(p, r) /\ WellFormed(p)
      /\ Source = p /\ IRStatus = "running"
      /\ IRSlots = SlotsOn(p, r, mem, gp) /\ IRRet = RetOn(p, r, gp) /\ IRLoc = PlaceOn(p, r)
  BY HereIsView DEF RunsInit, Runs, Step
<1>2. r.fn = 0 /\ r.ip = 0 /\ r.nth = n /\ r.line = Unit(p, 0, 0)[n]
  BY DEF LineAt
<1>3. \A m, g : SlotsOn(p, r, m, g) = InitSlots(p, n, m) /\ RetOn(p, r, g) = 0
  BY <1>2 DEF SlotsOn, RetOn, Receives, InBody
<1>4. PlaceOn(p, r) = IF r.line.op = "HALT" THEN IR!Return0 ELSE IR!Begin
  BY <1>2 DEF PlaceOn, Place, IR!Return0, IR!Begin, IR!At
<1>5. InitUnit(p, Unit(p, 0, 0)) /\ IsUnit(p, 0, 0) /\ Len(p.globals) \in Nat
  BY <1>1, InitUnitIs
<1>6. NextOf(p, r) = AfterSite(p, 0, 0, n)
  BY NextOfLine
<1>7. ReadyAt(p, r, mem, gp, fr)
  BY <1>1 DEF Here, RInv, Ready
<1>8. /\ mem \in [Addresses -> Word] /\ gp \in [Registers -> Word] /\ 0 .. DataBase - 1 \subseteq Addresses
  <2>1. /\ mem \in [Addresses -> Word] /\ gp \in [Registers -> Word] /\ sp \in Addresses
        /\ NextFree(p) \in Nat /\ DataBase <= NextFree(p) /\ NextFree(p) <= sp + 1
    BY <1>1, HereState
  <2>2. 0 .. DataBase - 1 \subseteq Addresses
    BY <2>1, AddressMapAssumption, VMAssumption DEF Addresses
  <2> QED
    BY <2>1, <2>2
<1> QED
  BY <1>1, <1>2, <1>3, <1>4, <1>5, <1>6, <1>7, <1>8

\* The line after one of _init's stores and loads.
LEMMA InitGoesOn ==
    ASSUME NEW p, NEW n, RunsInit(p, n), n # 2 * Len(p.globals) + 3
    PROVE  NextOf(p, LineAt(p, 0, 0, n)) = LineAt(p, 0, 0, n + 1)
<1> DEFINE u == Unit(p, 0, 0)
           G == Len(p.globals)
<1>1. /\ G \in Nat /\ InitUnit(p, u) /\ IsUnit(p, 0, 0)
      /\ NextOf(p, LineAt(p, 0, 0, n)) = AfterSite(p, 0, 0, n)
  BY InitView
<1>2. n \in 2 .. 2 * G + 3
  BY DEF RunsInit
<1>3. n + 1 \in 2 .. 2 * G + 3
  BY <1>1, <1>2
<1>4. DOMAIN u = 1 .. 2 * G + 3 /\ \A j \in 2 .. 2 * G + 3 : u[j].kind = "instr"
  <2>1. DOMAIN u = 1 .. 2 * G + 3
    BY <1>1 DEF InitUnit
  <2>2. \A k \in 1 .. G : u[2 * k].kind = "instr" /\ u[2 * k + 1].kind = "instr"
    BY <1>1, LineKinds DEF InitUnit
  <2>3. u[2 * G + 2].kind = "instr" /\ u[2 * G + 3].kind = "instr"
    BY <1>1, LineKinds DEF InitUnit
  <2>4. \A j \in 2 .. 2 * G + 3 : \/ j = 2 * G + 2 \/ j = 2 * G + 3
                                  \/ \E k \in 1 .. G : j = 2 * k \/ j = 2 * k + 1
    BY <1>1, EvenOrOdd
  <2> QED
    BY <2>1, <2>2, <2>3, <2>4
<1>5. IsLine(p, 0, 0, n + 1) /\ u[n + 1].kind = "instr"
  <2>1. \A j \in 2 .. 2 * G + 3 : j \in 1 .. 2 * G + 3
    BY <1>1
  <2> QED
    BY <1>1, <1>3, <1>4, <2>1 DEF IsLine
<1> QED
  BY <1>1, <1>5 DEF AfterSite

\* A line of _init on which the IR machine stands still.
LEMMA SilentInit ==
    ASSUME NEW p, NEW n, RunsInit(p, n), n # 2 * Len(p.globals) + 3,
           Unit(p, 0, 0)[n].op # "HALT", Unit(p, 0, 0)[n + 1].op # "HALT",
           Goes(p, NextOf(p, LineAt(p, 0, 0, n))),
           InitSlots(p, n + 1, mem') = InitSlots(p, n, mem),
           SameArgs, IRStore' = IRStore, output' = output,
           \A k \in DOMAIN p.globals : n + 1 = 2 * k + 1 => gp'[4] = WrapWord(p.globals[k].init)
    PROVE  Simulated
<1> DEFINE r == LineAt(p, 0, 0, n)
<1>1. PICK t : t = LineAt(p, 0, 0, n + 1)
  OBVIOUS
<1>2. t.fn = 0 /\ t.ip = 0 /\ t.nth = n + 1 /\ t.line = Unit(p, 0, 0)[n + 1]
  BY <1>1 DEF LineAt
<1>3. Goes(p, t) /\ t.fn \in Nat
  BY <1>1, <1>2, InitGoesOn
<1>4. /\ Step(p, r) /\ RetOn(p, r, gp) = 0
      /\ SlotsOn(p, r, mem, gp) = InitSlots(p, n, mem)
      /\ PlaceOn(p, r) = IR!Begin
  BY InitView
<1>5. /\ SlotsOn(p, t, mem', gp') = InitSlots(p, n + 1, mem')
      /\ RetOn(p, t, gp') = 0
      /\ PlaceOn(p, t) = IR!Begin
      /\ ReadyAt(p, t, mem', gp', fr')
  BY <1>2 DEF SlotsOn, RetOn, Receives, InBody, PlaceOn, Place, IR!Begin, IR!At, ReadyAt
<1> QED
  BY <1>3, <1>4, <1>5, SilentStep

LEMMA DoesInit ==
    ASSUME NEW p, NEW n, Runs(p, LineAt(p, 0, 0, n)), IRLoc = IR!Begin => IRFrames = <<>>
    PROVE  Simulated
<1> DEFINE r == LineAt(p, 0, 0, n)
           u == Unit(p, 0, 0)
           G == Len(p.globals)
<1>1. RunsInit(p, n) /\ WellFormed(p) /\ n \in 2 .. 2 * G + 3
  BY AtInitLine DEF RunsInit
<1>2. /\ Step(p, r) /\ Source = p /\ IRSlots = InitSlots(p, n, mem) /\ IRRet = 0
      /\ r.fn = 0 /\ r.ip = 0 /\ r.nth = n /\ r.line = u[n]
      /\ IRStatus = "running" /\ IRLoc = PlaceOn(p, r)
      /\ PlaceOn(p, r) = IF r.line.op = "HALT" THEN IR!Return0 ELSE IR!Begin
      /\ InitUnit(p, u) /\ G \in Nat
      /\ ReadyAt(p, r, mem, gp, fr)
      /\ mem \in [Addresses -> Word] /\ gp \in [Registers -> Word]
      /\ 0 .. DataBase - 1 \subseteq Addresses
  BY <1>1, InitView
<1>3. /\ \A k \in 1 .. G :
            /\ u[2 * k] = Asm("LI", 4, p.globals[k].init, 0)
            /\ u[2 * k + 1] = Asm("ST", 4, SlotAddress(p, 0, p.globals[k].slot), 0)
      /\ u[2 * G + 2] = AsmTo("CALL", "main")
      /\ u[2 * G + 3] = Asm("HALT", 0, 0, 0)
  BY <1>2 DEF InitUnit
<1>4. DOMAIN p.globals = 1 .. G
  BY <1>1, Lengths
<1>5. ASSUME NEW k \in 1 .. G, n = 2 * k
      PROVE  Simulated
  <2>1. n # 2 * G + 3 /\ n + 1 = 2 * k + 1
    BY <1>2, <1>5
  <2>2. u[n].op = "LI" /\ u[n].a = 4 /\ u[n].b = p.globals[k].init /\ u[n + 1].op = "ST"
    BY <1>3, <1>5, <2>1, LineKinds
  <2>3. /\ gp' = [gp EXCEPT ![4] = WrapWord(p.globals[k].init)]
        /\ mem' = mem /\ fr' = fr /\ output' = output
        /\ Goes(p, NextOf(p, r))
    BY <1>2, <2>2, RunsLI
  <2>4. SameArgs /\ gp'[4] = WrapWord(p.globals[k].init)
    <3>1. 4 \in Registers
      BY DEF Registers
    <3>2. Sets(4, WrapWord(p.globals[k].init)) /\ SameArgs
      BY <1>2, <2>3, <3>1, SetsOne
    <3> QED
      BY <3>2 DEF Sets
  <2>5. PICK m : m = mem
    OBVIOUS
  <2>6. InitSlots(p, n + 1, m) = InitSlots(p, n, m)
    <3>1. \A x \in SlotNames(p) : x[1] = 0 =>
             (n + 1 <= 2 * GlobalIndex(p, x[2]) + 1 <=> n <= 2 * GlobalIndex(p, x[2]) + 1)
      <4> SUFFICES ASSUME NEW x \in SlotNames(p), x[1] = 0
                   PROVE  n + 1 <= 2 * GlobalIndex(p, x[2]) + 1 <=> n <= 2 * GlobalIndex(p, x[2]) + 1
        OBVIOUS
      <4>1. PICK s, i : s = x[2] /\ i = GlobalIndex(p, s)
        OBVIOUS
      <4>2. s \in GlobalSlots(p)
        <5>1. \A f \in 1 .. Len(p.functions) : f # 0
          BY <1>1, Lengths
        <5> QED
          BY <1>1, <4>1, <5>1, SlotNameCases
      <4>3. i \in 1 .. G
        BY <1>1, <4>1, <4>2, GlobalIndexIs
      <4>4. n + 1 <= 2 * i + 1 <=> n <= 2 * i + 1
        BY <1>2, <1>5, <4>3
      <4> QED
        BY <4>1, <4>4
    <3> QED
      BY <3>1 DEF InitSlots
  <2>7. \A i \in DOMAIN p.globals : n + 1 = 2 * i + 1 => gp'[4] = WrapWord(p.globals[i].init)
    <3>1. \A i \in 1 .. G : n + 1 = 2 * i + 1 => i = k
      BY <1>2, <2>1
    <3> QED
      BY <1>4, <2>4, <3>1
  <2>8. IRStore' = IRStore
    BY <2>3 DEF IRStore
  <2>9. InitSlots(p, n + 1, mem') = InitSlots(p, n, mem)
    BY <2>3, <2>5, <2>6
  <2> QED
    BY <1>1, <2>1, <2>2, <2>3, <2>4, <2>7, <2>8, <2>9, SilentInit
<1>6. ASSUME NEW k \in 1 .. G, n = 2 * k + 1
      PROVE  Simulated
  <2>1. n # 2 * G + 3 /\ n + 1 = 2 * k + 2
    BY <1>2, <1>6
  <2>2. PICK slot : slot = p.globals[k].slot
    OBVIOUS
  <2>3. u[n].op = "ST" /\ u[n].a = 4 /\ u[n].b = SlotAddress(p, 0, slot)
    BY <1>3, <1>6, <2>2, LineKinds
  <2>4. u[n + 1].op # "HALT"
    <3>1. CASE k = G
      <4>1. n + 1 = 2 * G + 2
        BY <2>1, <3>1
      <4>2. u[n + 1] = AsmTo("CALL", "main")
        BY <1>3, <4>1
      <4>3. u[n + 1].op = "CALL"
        BY <4>2, LineKinds
      <4> QED
        BY <4>3
    <3>2. CASE k # G
      <4>1. k + 1 \in 1 .. G /\ n + 1 = 2 * (k + 1)
        BY <1>2, <2>1, <3>2
      <4>2. u[n + 1] = Asm("LI", 4, p.globals[k + 1].init, 0)
        BY <1>3, <4>1
      <4>3. u[n + 1].op = "LI"
        BY <4>2, LineKinds
      <4> QED
        BY <4>3
    <3> QED
      BY <3>1, <3>2
  <2>5. gp[4] = WrapWord(p.globals[k].init)
    <3>1. k \in DOMAIN p.globals
      BY <1>4
    <3> QED
      BY <1>2, <1>6, <3>1 DEF ReadyAt
  <2>6. /\ mem' = [mem EXCEPT ![SlotAddress(p, 0, slot)] = WrapWord(p.globals[k].init)]
        /\ SlotAddress(p, 0, slot) \in Addresses
        /\ gp' = gp /\ fr' = fr /\ output' = output
        /\ Goes(p, NextOf(p, r))
    BY <1>2, <2>3, <2>5, RunsST
  <2>7. PICK m, mm : m = mem /\ mm = mem'
    OBVIOUS
  <2>8. <<0, slot>> \in SlotNames(p) /\ GlobalStored(p, k, m, mm)
    <3>1. CellWritten(p, 0, slot, m, mm, WrapWord(p.globals[k].init)) /\ m \in [Addresses -> Word]
      BY <1>2, <2>6, <2>7 DEF CellWritten
    <3> QED
      BY <1>1, <2>2, <2>6, <3>1, StoreGlobal
  <2>9. InitSlots(p, n + 1, mem') = InitSlots(p, n, mem)
    BY <1>6, <2>1, <2>7, <2>8 DEF GlobalStored
  <2>10. IRStore' = IRStore
    <3>1. PICK x : x = <<0, slot>>
      OBVIOUS
    <3>2. /\ x \in SlotNames(p)
          /\ mem' = [mem EXCEPT ![SlotAddress(p, x[1], x[2])] = WrapWord(p.globals[k].init)]
      BY <2>6, <2>8, <3>1
    <3> QED
      BY <1>1, <1>2, <3>2, SlotIsNotInStore
  <2>11. \A i \in DOMAIN p.globals : n + 1 = 2 * i + 1 => gp'[4] = WrapWord(p.globals[i].init)
    <3>1. \A i \in 1 .. G : n + 1 # 2 * i + 1
      BY <1>2, <2>1
    <3> QED
      BY <1>4, <3>1
  <2>12. SameArgs
    BY <2>6 DEF SameArgs
  <2>13. u[n].op # "HALT"
    BY <2>3
  <2> QED
    BY <1>1, <2>1, <2>4, <2>6, <2>9, <2>10, <2>11, <2>12, <2>13, SilentInit
<1>7. CASE n = 2 * G + 2
  <2>1. r.line.op = "CALL" /\ r.line.label = "main"
    BY <1>2, <1>3, <1>7, LineKinds
  <2>2. IRLoc = IR!Begin /\ IRFrames = <<>>
    BY <1>2, <2>1
  <2>3. CallSite(p, r)
    <3>1. ValidSite(p, r)
      BY <1>2, HereIsOn DEF Step
    <3> QED
      BY <1>7, <3>1 DEF CallSite
  <2>4. IRSlots = MemSlots(p, mem)
    <3>1. PICK m : m = mem
      OBVIOUS
    <3>2. InitSlots(p, n, m) = MemSlots(p, m)
      BY <1>1, <1>7, AfterInit
    <3> QED
      BY <1>2, <3>1, <3>2
  <2>5. \E f \in DOMAIN p.functions : p.functions[f].name = "main"
    BY <1>1 DEF WellFormed, Resolved
  <2>6. PICK g : g = IR!FunctionNumber(p, "main")
    OBVIOUS
  <2>7. /\ IRFrames' = <<[fn |-> 0, ip |-> 0]>> \o IRFrames
        /\ IR!EnterFunction(g) /\ Ready' /\ CallsPending'
    BY <1>2, <2>1, <2>3, <2>4, <2>5, <2>6, Calls
  <2>8. IRFrames' = <<[fn |-> 0, ip |-> 0]>>
    <3>1. PICK e : e = [fn |-> 0, ip |-> 0]
      OBVIOUS
    <3>2. <<e>> \o <<>> = <<e>>
      OBVIOUS
    <3> QED
      BY <2>2, <2>7, <3>1, <3>2
  <2>9. IR!Start
    BY <1>2, <2>2, <2>6, <2>7, <2>8 DEF IR!Start
  <2>10. IR!Next
    BY <2>9 DEF IR!Next
  <2> QED
    BY <2>7, <2>10 DEF Simulated
<1>8. CASE n = 2 * G + 3
  <2>1. r.line.op = "HALT"
    BY <1>2, <1>3, <1>8, LineKinds
  <2>2. IRSlots = MemSlots(p, mem)
    <3>1. PICK m : m = mem
      OBVIOUS
    <3>2. InitSlots(p, n, m) = MemSlots(p, m)
      BY <1>1, <1>8, AfterInit
    <3> QED
      BY <1>2, <3>1, <3>2
  <2>3. IRLoc = IR!Return0
    BY <1>2, <2>1
  <2> QED
    BY <1>2, <2>1, <2>2, <2>3, HaltsInIR
<1>9. \/ n = 2 * G + 2 \/ n = 2 * G + 3
      \/ \E k \in 1 .. G : n = 2 * k \/ n = 2 * k + 1
  BY <1>1, <1>2, EvenOrOdd
<1> QED
  BY <1>5, <1>6, <1>7, <1>8, <1>9

-----------------------------------------------------------------------------
(* Every step.                                                             *)

LEMMA DoesBody ==
    ASSUME NEW p, NEW f, NEW k, NEW n, Does(p, f, k, n)
    PROVE  Simulated
<1> DEFINE op == InstrAt(p, f, k).op
<1>1. op # "LABEL"
  <2>1. /\ IRUnit(p, f, k, Unit(p, f, k)) /\ n \in DOMAIN Unit(p, f, k)
        /\ Unit(p, f, k)[n].kind = "instr"
    BY DoesLine
  <2>2. op = "LABEL" => Are1(Unit(p, f, k), Label(FnLabel(p, f, InstrAt(p, f, k).label)))
    BY <2>1 DEF IRUnit, InstrAt
  <2> QED
    BY <2>1, <2>2, LineKinds DEF Are1
<1>2. op \in IROps
  BY DoesLine
<1>3. \/ op = "CONST" \/ op = "COPY" \/ op \in {"ADD", "SUB"} \/ op = "NEG" \/ op \in Booleans
      \/ op = "MEM_LOAD" \/ op = "MEM_STORE" \/ op = "JUMP" \/ op \in {"JUMP_Z", "JUMP_NZ"}
      \/ op = "ARG" \/ op = "CALL" \/ op = "RETURN" \/ op = "RETURN_VOID"
      \/ op \in {"PRINT", "PRINTD"} \/ op = "HALT"
  BY <1>1, <1>2 DEF IROps, Booleans
<1> QED
  BY <1>3, DoesConst, DoesCopy, DoesSum, DoesNeg, DoesBoolean, DoesMemLoad, DoesMemStore,
     DoesJump, DoesJumpIf, DoesArg, DoesCall, DoesReceive, DoesReturn, DoesReturnVoid,
     DoesPrint, DoesHalt

\* Nothing is pending before main is called.
BeginsAlone == IRLoc = IR!Begin => IRFrames = <<>>

LEMMA EveryStep ==
    ASSUME NEW p, NEW r, Step(p, r), BeginsAlone
    PROVE  Simulated
<1>1. CASE outcome' \in Faults
  BY <1>1, FaultStep
<1>2. CASE outcome' \notin Faults
  <2>1. PICK f, k, n : f = r.fn /\ k = r.ip /\ n = r.nth
    OBVIOUS
  <2>2. WellFormed(p) /\ ValidSite(p, r)
    BY HereIsOn DEF Step
  <2>3. r = LineAt(p, f, k, n) /\ IsUnit(p, f, k) /\ Runs(p, LineAt(p, f, k, n))
    BY <1>2, <2>1, <2>2 DEF ValidSite, IsLine, Runs
  <2>4. CASE f = 0 /\ k = 0
    BY <2>3, <2>4, DoesInit DEF BeginsAlone
  <2>5. CASE f \in 1 .. Len(p.functions) /\ k = 0
    BY <2>3, <2>5, DoesPrologue
  <2>6. CASE f \in 1 .. Len(p.functions) /\ k # 0
    <3>1. k \in 0 .. Len(p.functions[f].body) /\ Len(p.functions[f].body) \in Nat
      <4>1. \A g \in 1 .. Len(p.functions) : g # 0
        BY <2>2, Lengths
      <4>2. k \in 0 .. Len(p.functions[f].body)
        BY <2>3, <2>6, <4>1 DEF IsUnit
      <4> QED
        BY <2>2, <2>6, <4>2, BodyFacts
    <3>2. k \in 1 .. Len(p.functions[f].body)
      BY <2>6, <3>1
    <3> QED
      BY <2>2, <2>3, <2>6, <3>2, DoesBody DEF Does
  <2> QED
    BY <2>3, <2>4, <2>5, <2>6 DEF IsUnit
<1> QED
  BY <1>1, <1>2

\* A call of the IR machine is one in the body of the function it is in.
LEMMA CallIsInBody ==
    ASSUME NEW p, NEW r, Here(p, r), IR!Call
    PROVE  LET f == IR!fn
               k == IRLoc.ip
           IN  /\ f \in DOMAIN p.functions /\ f # 0 /\ k \in DOMAIN p.functions[f].body
               /\ p.functions[f].body[k].op = "CALL" /\ IR!here = p.functions[f].body[k]
               /\ IR!FunctionNumber(p, IR!here.label) \in DOMAIN p.functions
               /\ CallsFunction(p, f, IR!FunctionNumber(p, IR!here.label))
<1>1. /\ WellFormed(p) /\ Source = p /\ IRLoc = PlaceOn(p, r)
      /\ \A f \in DOMAIN p.functions : f # 0
  BY HereIsView, Lengths
<1>2. PICK f, k : f = IR!fn /\ k = IRLoc.ip
  OBVIOUS
<1>3. f \in DOMAIN p.functions /\ p.functions[f].body[k].op = "CALL"
      /\ IR!here = p.functions[f].body[k]
  BY <1>1, <1>2 DEF IR!Call, IR!Doing, IR!here
<1>4. k \in DOMAIN p.functions[f].body
  <2>1. /\ f # 0 /\ f \in 1 .. Len(p.functions)
        /\ Len(p.functions[f].body) \in Nat \ {0}
        /\ DOMAIN p.functions[f].body = 1 .. Len(p.functions[f].body)
    <3>1. f # 0 /\ f \in 1 .. Len(p.functions)
      BY <1>1, <1>3, Lengths
    <3> QED
      BY <1>1, <3>1, BodyFacts
  <2>2. ValidSite(p, r)
    BY HereIsOn
  <2>3. \/ r.fn = f /\ r.ip = k /\ k # 0
        \/ k = SkipTo(p, f, 1)
    BY <1>1, <1>2, <2>1 DEF PlaceOn, Place, IR!fn
  <2>4. CASE r.fn = f /\ r.ip = k /\ k # 0
    <3>1. k \in 0 .. Len(p.functions[f].body)
      BY <2>1, <2>2, <2>4 DEF ValidSite, IsLine, IsUnit
    <3> QED
      BY <2>1, <2>4, <3>1
  <2>5. CASE k = SkipTo(p, f, 1)
    <3>1. \A b \in Nat \ {0} : 1 \in 1 .. b
      OBVIOUS
    <3>2. 1 \in 1 .. Len(p.functions[f].body)
      BY <2>1, <3>1
    <3>3. k \in 1 .. Len(p.functions[f].body)
      BY <1>1, <2>1, <2>5, <3>2, SkipFacts
    <3> QED
      BY <2>1, <3>3
  <2> QED
    BY <2>3, <2>4, <2>5
<1>5. PICK label : label = p.functions[f].body[k].label
  OBVIOUS
<1>6. \E g \in DOMAIN p.functions : p.functions[g].name = label
  BY <1>1, <1>3, <1>4, <1>5 DEF WellFormed, Resolved
<1>7. PICK g : g = IR!FunctionNumber(p, label)
  OBVIOUS
<1>8. g \in DOMAIN p.functions /\ p.functions[g].name = label
  BY <1>6, <1>7 DEF IR!FunctionNumber
<1>9. CallsFunction(p, f, g)
  BY <1>3, <1>4, <1>5, <1>8 DEF CallsFunction
<1> QED
  BY <1>1, <1>2, <1>3, <1>4, <1>5, <1>7, <1>8, <1>9

\* The IR machine begins once.
LEMMA BeginsOnce ==
    ASSUME NEW p, NEW r, Here(p, r), IR!Next
    PROVE  IRLoc' # IR!Begin
<1>1. /\ WellFormed(p) /\ Source = p /\ IRLoc = PlaceOn(p, r)
      /\ \A f \in DOMAIN p.functions : f # 0
  BY HereIsView, Lengths
<1>2. ASSUME NEW l, IR!Goto(l), l # IR!Begin
      PROVE  IRLoc' # IR!Begin
  BY <1>2 DEF IR!Goto, IR!Nowhere, IR!Begin, IR!At
<1>3. ASSUME NEW f, f # 0, NEW k, IR!Goto(IR!At(f, k)) \/ IR!Goto(IR!Receiving(f, k))
      PROVE  IRLoc' # IR!Begin
  <2>1. IR!At(f, k) # IR!Begin /\ IR!Receiving(f, k) # IR!Begin
    BY <1>3 DEF IR!At, IR!Receiving, IR!Begin
  <2> QED
    BY <1>2, <1>3, <2>1
<1>4. ASSUME NEW ops, IR!Doing(ops)
      PROVE  IR!fn \in DOMAIN p.functions /\ IR!fn # 0
  BY <1>1, <1>4 DEF IR!Doing
<1>5. ASSUME IR!GoOn, IR!fn # 0
      PROVE  IRLoc' # IR!Begin
  BY <1>3, <1>5 DEF IR!GoOn
<1>6. CASE IR!Compute \/ IR!MemLoad \/ IR!MemStore \/ IR!Arg \/ IR!PrintWord
  <2>1. IR!GoOn /\ \E ops : IR!Doing(ops)
    BY <1>6 DEF IR!Compute, IR!MemLoad, IR!MemStore, IR!Arg, IR!PrintWord
  <2> QED
    BY <1>4, <1>5, <2>1
<1>7. CASE IR!Jump
  <2>1. /\ \E ops : IR!Doing(ops)
        /\ IR!GoOn \/ \E k : IR!Goto(IR!At(IR!fn, k))
    BY <1>7 DEF IR!Jump
  <2>2. IR!fn # 0
    BY <1>4, <2>1
  <2> QED
    BY <1>3, <1>5, <2>1, <2>2
<1>8. ASSUME NEW g \in DOMAIN p.functions, IR!EnterFunction(g)
      PROVE  IRLoc' # IR!Begin
  <2>1. \E k : IR!Goto(IR!At(g, k))
    BY <1>8 DEF IR!EnterFunction, IR!Entry
  <2> QED
    BY <1>1, <1>3, <2>1
<1>9. CASE IR!Start
  <2>1. PICK g : g = IR!FunctionNumber(p, "main")
    OBVIOUS
  <2>2. \E f \in DOMAIN p.functions : p.functions[f].name = "main"
    BY <1>1 DEF WellFormed, Resolved
  <2>3. g \in DOMAIN p.functions
    BY <2>1, <2>2 DEF IR!FunctionNumber
  <2> QED
    BY <1>1, <1>8, <1>9, <2>1, <2>3 DEF IR!Start
<1>10. CASE IR!Call
  <2>1. PICK g : g = IR!FunctionNumber(p, IR!here.label)
    OBVIOUS
  <2>2. g \in DOMAIN p.functions
    BY <1>10, <2>1, CallIsInBody
  <2> QED
    BY <1>1, <1>8, <1>10, <2>1, <2>2 DEF IR!Call
<1>11. ASSUME NEW words, IR!Leave(words)
       PROVE  IRLoc' # IR!Begin
  <2>1. \/ IR!Goto(IR!Return0)
        \/ \E f, k : f # 0 /\ (IR!Goto(IR!At(f, k)) \/ IR!Goto(IR!Receiving(f, k)))
    BY <1>11 DEF IR!Leave
  <2>2. IR!Return0 # IR!Begin
    BY DEF IR!Return0, IR!Begin, IR!At
  <2> QED
    BY <1>2, <1>3, <2>1, <2>2
<1>12. CASE IR!Return \/ IR!ReturnVoid
  BY <1>11, <1>12 DEF IR!Return, IR!ReturnVoid
<1>13. CASE IR!Receive
  <2>1. IR!GoOn /\ IRLoc.phase = "receive"
    BY <1>13 DEF IR!Receive
  <2>2. IR!fn # 0
    BY <1>1, <2>1 DEF PlaceOn, Place, Receives, InBody, IR!fn
  <2> QED
    BY <1>5, <2>1, <2>2
<1>14. CASE IR!Halt \/ IR!Abort
  BY <1>14 DEF IR!Halt, IR!Abort, IR!Nowhere, IR!Begin, IR!At
<1> QED
  BY <1>6, <1>7, <1>9, <1>10, <1>12, <1>13, <1>14 DEF IR!Next

-----------------------------------------------------------------------------
(* The beginning, steps that change nothing, and the refinement.           *)

LEMMA RunBegins ==
    ASSUME RunInit, MemoryIsApart
    PROVE  \E p, r : /\ p \in IRSources /\ r = LineAt(p, 0, 0, 2) /\ Here(p, r)
                     /\ prog = Compile(p) /\ PendingReturns = <<>> /\ Reset
<1>1. PICK p \in IRSources : prog = Compile(p)
  BY DEF RunInit
<1>2. PICK r : r = LineAt(p, 0, 0, 2)
  OBVIOUS
<1>3. prog.error = "none" /\ code = prog.code /\ Reset
  BY DEF RunInit
<1>4. CInv /\ PendingReturns = <<>>
  BY RunInitEstablishesCInv, RunInitIsInit, InitSimulates DEF Stack!Init
<1>5. prog.ir = p /\ prog = Compile(prog.ir) /\ WellFormed(p)
  <2>1. Compile(p).ir = p
    BY DEF Compile
  <2> QED
    BY <1>1, <2>1, CompiledRunAssumption
<1>6. Charted(p, code, prog.map)
  BY <1>1, <1>3, <1>5, CompiledIsCharted
<1>7. Site = r
  <2>1. pc = 0 /\ 0 + 1 = 1
    BY <1>3 DEF Reset
  <2> QED
    BY <1>2, <1>6, <2>1 DEF Charted, Site
<1>8. Ready
  <2>1. r.fn = 0 /\ r.nth = 2
    BY <1>2 DEF LineAt
  <2>2. \A k \in DOMAIN p.globals : 2 # 2 * k + 1
    <3>1. Len(p.globals) \in Nat /\ DOMAIN p.globals = 1 .. Len(p.globals)
      BY <1>5, Lengths
    <3> QED
      BY <3>1
  <2>3. ReadyAt(p, r, mem, gp, fr)
    BY <2>1, <2>2 DEF ReadyAt, InBody
  <2> QED
    BY <1>5, <1>7, <2>3 DEF Ready, Source
<1>9. CallsPending
  <2>1. DOMAIN <<>> = {}
    OBVIOUS
  <2> QED
    BY <1>4, <2>1 DEF CallsPending
<1>10. outcome = "running"
  BY <1>3 DEF Reset
<1>11. Here(p, r)
  BY <1>3, <1>4, <1>5, <1>7, <1>8, <1>9, <1>10 DEF Here, RInv
<1> QED
  BY <1>1, <1>2, <1>3, <1>4, <1>11

LEMMA InitialSlotsAre ==
    ASSUME NEW p, WellFormed(p), NEW m, m = [x \in Addresses |-> 0],
           NextFree(p) <= MemorySize
    PROVE  InitSlots(p, 2, m) = IR!InitialSlots(p)
<1> DEFINE G == Len(p.globals)
<1>1. G \in Nat /\ DOMAIN p.globals = 1 .. G
  BY Lengths
<1>2. ASSUME NEW x \in SlotNames(p), x[1] = 0
      PROVE  InitSlots(p, 2, m)[x] = IR!InitialSlots(p)[x]
  <2>1. PICK slot, k : slot = x[2] /\ k = GlobalIndex(p, slot)
    OBVIOUS
  <2>2. slot \in GlobalSlots(p)
    <3>1. \A f \in 1 .. Len(p.functions) : f # 0
      BY Lengths
    <3> QED
      BY <1>2, <2>1, <3>1, SlotNameCases
  <2>3. k \in 1 .. G /\ p.globals[k].slot = slot
    BY <2>1, <2>2, GlobalIndexIs
  <2>4. 2 <= 2 * k + 1
    BY <1>1, <2>3
  <2>5. InitSlots(p, 2, m)[x] = WrapWord(p.globals[k].init)
    BY <1>2, <2>1, <2>4 DEF InitSlots
  <2>6. PICK j : j = CHOOSE i \in DOMAIN p.globals : p.globals[i].slot = slot
    OBVIOUS
  <2>7. j \in DOMAIN p.globals /\ p.globals[j].slot = slot
    BY <1>1, <2>3, <2>6
  <2>8. j = k
    BY <1>1, <2>3, <2>7 DEF WellFormed
  <2>9. IR!InitialSlots(p)[x] = WrapWord(p.globals[j].init)
    BY <1>2, <2>1, <2>6, SameSlotNames, SameWords DEF IR!InitialSlots
  <2> QED
    BY <2>5, <2>8, <2>9
<1>3. ASSUME NEW x \in SlotNames(p), x[1] # 0
      PROVE  InitSlots(p, 2, m)[x] = IR!InitialSlots(p)[x]
  <2>1. PICK a : a = SlotAddress(p, x[1], x[2])
    OBVIOUS
  <2>2. a \in Int /\ DataBase <= a /\ a < NextFree(p) /\ NextFree(p) \in Nat
    BY <2>1, SlotCell, NoSlotIsInStore
  <2>3. a \in Addresses
    BY <2>2, AddressMapAssumption, VMAssumption DEF Addresses
  <2>4. InitSlots(p, 2, m)[x] = 0
    BY <1>3, <2>1, <2>3 DEF InitSlots, InCell
  <2>5. IR!InitialSlots(p)[x] = 0
    BY <1>3, SameSlotNames DEF IR!InitialSlots
  <2> QED
    BY <2>4, <2>5
<1>4. DOMAIN InitSlots(p, 2, m) = SlotNames(p) /\ DOMAIN IR!InitialSlots(p) = SlotNames(p)
  BY SameSlotNames DEF InitSlots, IR!InitialSlots
<1> QED
  BY <1>2, <1>3, SameSlotNames DEF InitSlots, IR!InitialSlots

LEMMA RunInitIsIRInit ==
    ASSUME RunInit, MemoryIsApart
    PROVE  IR!Init /\ RInv /\ BeginsAlone
<1>1. PICK p, r : /\ p \in IRSources /\ r = LineAt(p, 0, 0, 2) /\ Here(p, r)
                  /\ prog = Compile(p) /\ PendingReturns = <<>> /\ Reset
  BY RunBegins
<1>2. /\ WellFormed(p) /\ Source = p /\ IRStatus = "running"
      /\ IRSlots = SlotsOn(p, r, mem, gp) /\ IRRet = RetOn(p, r, gp) /\ IRLoc = PlaceOn(p, r)
  BY <1>1, HereIsView
<1>3. /\ gp = [x \in Registers |-> 0] /\ sp = MemorySize - 1
      /\ mem = [x \in Addresses |-> 0] /\ output = <<>>
  BY <1>1 DEF Reset
<1>4. r.fn = 0 /\ r.nth = 2 /\ r.line = Unit(p, 0, 0)[2]
  BY <1>1 DEF LineAt
<1>5. r.line.op # "HALT"
  <2> DEFINE u == Unit(p, 0, 0)
             G == Len(p.globals)
  <2>1. G \in Nat /\ InitUnit(p, u)
    BY <1>2, InitUnitIs
  <2>2. CASE G = 0
    <3>1. 2 * G + 2 = 2
      BY <2>2
    <3>2. u[2] = AsmTo("CALL", "main")
      BY <2>1, <3>1 DEF InitUnit
    <3>3. u[2].op = "CALL"
      BY <3>2, LineKinds
    <3> QED
      BY <1>4, <3>3
  <2>3. CASE G # 0
    <3>1. 1 \in 1 .. G /\ 2 * 1 = 2
      BY <2>1, <2>3
    <3>2. u[2] = Asm("LI", 4, p.globals[1].init, 0)
      BY <2>1, <3>1 DEF InitUnit
    <3>3. u[2].op = "LI"
      BY <3>2, LineKinds
    <3> QED
      BY <1>4, <3>3
  <2> QED
    BY <2>2, <2>3
<1>6. IRLoc = IR!Begin /\ IRRet = 0
  BY <1>2, <1>4, <1>5 DEF PlaceOn, Place, IR!Begin, IR!At, RetOn, Receives, InBody
<1>7. IRFrames = <<>>
  <2>1. DOMAIN <<>> = {}
    OBVIOUS
  <2>2. IRFrames = [k \in {} |-> Frame(prog.map, PendingReturns[k])]
    BY <1>1, <2>1 DEF IRFrames, Frame
  <2>3. \A e : [k \in {} |-> e] = <<>>
    OBVIOUS
  <2> QED
    BY <2>1, <2>2
<1>8. NextFree(p) \in Nat /\ DataBase <= NextFree(p) /\ NextFree(p) <= MemorySize
  <2>1. NextFree(p) \in Nat /\ DataBase <= NextFree(p) /\ NextFree(p) <= sp + 1
    BY <1>1, HereState
  <2>2. (MemorySize - 1) + 1 = MemorySize
    BY VMAssumption
  <2> QED
    BY <1>3, <2>1, <2>2
<1>9. IRSlots = IR!InitialSlots(p)
  <2>1. PICK m : m = mem
    OBVIOUS
  <2>2. InitSlots(p, 2, m) = IR!InitialSlots(p)
    BY <1>2, <1>3, <1>8, <2>1, InitialSlotsAre
  <2> QED
    BY <1>2, <1>4, <2>1, <2>2 DEF SlotsOn
<1>10. IRStore = [x \in 0 .. DataBase - 1 |-> 0]
  <2>1. 0 .. DataBase - 1 \subseteq Addresses
    BY <1>8, AddressMapAssumption, VMAssumption DEF Addresses
  <2> QED
    BY <1>3, <2>1 DEF IRStore
<1>11. IRArgs = [k \in 1 .. 3 |-> 0]
  <2>1. 1 .. 3 \subseteq Registers
    BY DEF Registers
  <2> QED
    BY <1>3, <2>1 DEF IRArgs
<1>12. IR!Init
  BY <1>1, <1>2, <1>3, <1>6, <1>7, <1>9, <1>10, <1>11 DEF IR!Init, IR!NoWord
<1> QED
  BY <1>1, <1>7, <1>12 DEF Here, BeginsAlone

LEMMA StutterIsStutter ==
    ASSUME RInv, UNCHANGED runVars
    PROVE  UNCHANGED IR!vars /\ Ready' /\ CallsPending'
<1>1. /\ UNCHANGED <<code, prog, outcome, pc, mem, gp, sp, fr, output>>
  BY DEF runVars, vars
<1>2. PendingReturns' = PendingReturns
  BY <1>1 DEF PendingReturns, CellsAbove, StackTop
<1>3. Source' = Source /\ Site' = Site /\ (InImage' <=> InImage)
  BY <1>1 DEF Source, Site, InImage
<1>4. IRLoc' = IRLoc /\ IRRet' = IRRet
  BY <1>1, <1>3 DEF IRLoc, IRRet, IRPlace, AtReceive, FirstInstr
<1>5. IRSlots' = IRSlots
  BY <1>1, <1>3 DEF IRSlots, GlobalValue, LocalValue, StillInRegister, NotYetInitialized,
                    InPrologue, InInit
<1>6. IRFrames' = IRFrames
  BY <1>1, <1>2 DEF IRFrames
<1>7. IRArgs' = IRArgs /\ IRStore' = IRStore /\ IRStatus' = IRStatus
  BY <1>1 DEF IRArgs, IRStore, IRStatus
<1>8. Ready'
  BY <1>1, <1>3 DEF RInv, Ready
<1>9. CallsPending'
  BY <1>1, <1>2, <1>3 DEF RInv, CallsPending
<1> QED
  BY <1>1, <1>3, <1>4, <1>5, <1>6, <1>7, <1>8, <1>9 DEF IR!vars

\* The invariant of the refinement, with what it needs of the IR machine.
SimInv == RInv /\ BeginsAlone

LEMMA StepRefines ==
    ASSUME SimInv, MemoryIsApart, [RunNext]_runVars, WordsHoldAddresses
    PROVE  [IR!Next]_(IR!vars) /\ SimInv'
<1>1. RInv /\ CInv /\ BeginsAlone /\ StoresBelowStack
  BY LayoutKeepsStoresBelow DEF SimInv, RInv, MemoryIsApart, StoreIsApart
<1>2. CInv'
  BY <1>1, CInvIsInductive DEF WordsHoldAddresses
<1>3. CASE RunNext
  <2>1. PICK p, r : p = prog.ir /\ r = Site
    OBVIOUS
  <2>2. outcome = "running" /\ Next /\ prog' = prog
    BY <1>3 DEF RunNext, Next, LoadImmediate, Move, Load, Store, LoadIndirect, StoreIndirect,
                Add, Sub, Compare, Jmp, Jz, Jnz, Jg, Jl, Jge, Jle, Branch, Call, StackOverflow,
                Ret, StackUnderflow, PrintBase, PrintDecimal, PrintWord, Halt, Nop,
                PcOutOfBounds, UnknownOpcode, MemoryOutOfBounds, Executing, Fetchable
  <2>3. Here(p, r)
    BY <1>1, <2>1, <2>2 DEF Here
  <2>4. Step(p, r)
    BY <1>2, <1>3, <2>3 DEF Step
  <2>5. [IR!Next]_(IR!vars) /\ Ready' /\ CallsPending'
    BY <1>1, <2>4, EveryStep DEF Simulated
  <2>6. code' = code
    BY <2>2, CodeStays
  <2>7. RInv'
    BY <1>1, <1>2, <2>2, <2>5, <2>6 DEF RInv
  <2>8. BeginsAlone'
    <3>1. CASE IR!Next
      BY <2>3, <3>1, BeginsOnce DEF BeginsAlone
    <3>2. CASE UNCHANGED IR!vars
      BY <1>1, <3>2 DEF BeginsAlone, IR!vars
    <3> QED
      BY <2>5, <3>1, <3>2
  <2> QED
    BY <2>5, <2>7, <2>8 DEF SimInv
<1>4. CASE UNCHANGED runVars
  <2>1. UNCHANGED IR!vars /\ Ready' /\ CallsPending'
    BY <1>1, <1>4, StutterIsStutter
  <2>2. code' = code /\ prog' = prog
    BY <1>4 DEF runVars, vars
  <2>3. RInv'
    BY <1>1, <1>2, <2>1, <2>2 DEF RInv
  <2>4. BeginsAlone'
    BY <1>1, <2>1 DEF BeginsAlone, IR!vars
  <2> QED
    BY <2>1, <2>3, <2>4 DEF SimInv
<1> QED
  BY <1>3, <1>4

\* A compiled program does what its IR program means, whatever the program:
\* every run of the machine on the image is a run of the IR machine, as long as
\* the stack stays above the slots and store[] is used at its own addresses.
THEOREM CompiledCodeImplementsIR ==
    ASSUME \A p \in Programs : Len(p) <= WordMax
    PROVE  RunSpec /\ []MemoryIsApart => ImplementsIR
<1>1. RunInit /\ MemoryIsApart => IR!Init /\ SimInv
  BY RunInitIsIRInit DEF SimInv
<1>2. SimInv /\ MemoryIsApart /\ [RunNext]_runVars => [IR!Next]_(IR!vars) /\ SimInv'
  BY StepRefines DEF WordsHoldAddresses
<1> QED
  BY <1>1, <1>2, PTL DEF RunSpec, ImplementsIR, IR!Spec

-----------------------------------------------------------------------------
(* Programs without recursion: the depth of their calls.                   *)

\* A CALL in the code of a function is that of a call in its body.
LEMMA CallLineIsCall ==
    ASSUME NEW p, WellFormed(p), NEW r, ValidSite(p, r), r.fn # 0,
           r.line.kind = "instr", r.line.op = "CALL"
    PROVE  /\ r.fn \in 1 .. Len(p.functions) /\ r.ip \in 1 .. Len(p.functions[r.fn].body)
           /\ p.functions[r.fn].body[r.ip].op = "CALL"
<1>1. PICK f, k, n : f = r.fn /\ k = r.ip /\ n = r.nth
  OBVIOUS
<1>2. /\ f \in 1 .. Len(p.functions) /\ k \in 0 .. Len(p.functions[f].body)
      /\ n \in DOMAIN Unit(p, f, k) /\ r.line = Unit(p, f, k)[n]
  <2>1. IsUnit(p, f, k) /\ n \in DOMAIN Unit(p, f, k) /\ r = LineAt(p, f, k, n)
    BY <1>1 DEF ValidSite, IsLine
  <2>2. r.line = Unit(p, f, k)[n]
    BY <2>1 DEF LineAt
  <2> QED
    BY <1>1, <2>1, <2>2 DEF IsUnit
<1>3. PICK u : u = Unit(p, f, k)
  OBVIOUS
<1>4. u[n].kind = "instr" /\ u[n].op = "CALL" /\ n \in DOMAIN u
  BY <1>2, <1>3
<1>5. k # 0
  <2>1. SUFFICES ASSUME k = 0 PROVE FALSE
    OBVIOUS
  <2>2. PrologueUnit(p, f, u) /\ Len(p.functions[f].params) \in Nat
    BY <1>2, <1>3, <2>1, PrologueUnitIs
  <2>3. n = 1 \/ \E j \in 1 .. Len(p.functions[f].params) : n = j + 1
    <3>1. n \in 1 .. Len(p.functions[f].params) + 1
      BY <1>4, <2>2 DEF PrologueUnit
    <3>2. n = 1 \/ (n - 1 \in 1 .. Len(p.functions[f].params) /\ n = (n - 1) + 1)
      BY <2>2, <3>1
    <3> QED
      BY <3>2
  <2> QED
    BY <1>4, <2>2, <2>3, LineKinds DEF PrologueUnit
<1>6. k \in 1 .. Len(p.functions[f].body) /\ IRUnit(p, f, k, u) /\ p.functions[f].body[k].op \in IROps
  <2>1. Len(p.functions[f].body) \in Nat
    BY <1>2, BodyFacts
  <2>2. k \in 1 .. Len(p.functions[f].body)
    BY <1>2, <1>5, <2>1
  <2> QED
    BY <1>2, <1>3, <2>2, BodyUnitIs
<1>7. PICK i : i = p.functions[f].body[k]
  OBVIOUS
<1>8. i.op = "CALL"
  <2>1. SUFFICES ASSUME i.op # "CALL" PROVE FALSE
    OBVIOUS
  <2>2. CASE i.op \in Comparisons \cup {"NOT"}
    <3>1. PICK first, second, jump, c, last :
             /\ Materialized(u, first, second, jump, c, last)
             /\ first.op # "CALL" /\ second.op # "CALL" /\ jump # "CALL" /\ last.op # "CALL"
      <4>1. i.op \in Comparisons => JumpIf[i.op] # "CALL"
        BY DEF JumpIf, Comparisons
      <4>2. i.op \in Comparisons =>
               Materialized(u, LdSlot(p, f, 4, i.src), LdSlot(p, f, 5, i.src2), JumpIf[i.op],
                            CgCounter(p, f, k), StSlot(p, f, 4, i.dst))
        BY <1>6, <1>7 DEF IRUnit
      <4>3. i.op = "NOT" =>
               Materialized(u, LdSlot(p, f, 4, i.src), Asm("LI", 5, 0, 0), "JZ",
                            CgCounter(p, f, k), StSlot(p, f, 4, i.dst))
        BY <1>6, <1>7 DEF IRUnit
      <4>4. /\ \A x, s : LdSlot(p, f, x, s).op = "LD" /\ StSlot(p, f, x, s).op = "ST"
            /\ Asm("LI", 5, 0, 0).op = "LI"
        BY LineKinds DEF LdSlot, StSlot
      <4> QED
        BY <2>2, <4>1, <4>2, <4>3, <4>4
    <3>2. n \in 1 .. 10
      BY <1>4, <3>1 DEF Materialized
    <3> QED
      BY <1>4, <3>1, <3>2, LineKinds DEF Materialized
  <2>3. CASE i.op \notin Comparisons \cup {"NOT"}
    <3> DEFINE Other(l) == l.kind # "instr" \/ l.op # "CALL"
    <3>1. /\ \A x, s : Other(LdSlot(p, f, x, s)) /\ Other(StSlot(p, f, x, s))
          /\ \A l : Other(Label(l))
          /\ \A op, a, b, c : op # "CALL" => Other(Asm(op, a, b, c))
          /\ \A op, l : op # "CALL" => Other(AsmTo(op, l))
      BY LineKinds DEF LdSlot, StSlot
    <3>2. /\ \A a : ~ (Are1(u, a) /\ Other(a))
          /\ \A a, b : ~ (Are2(u, a, b) /\ Other(a) /\ Other(b))
          /\ \A a, b, c : ~ (Are3(u, a, b, c) /\ Other(a) /\ Other(b) /\ Other(c))
          /\ \A a, b, c, d : ~ (Are4(u, a, b, c, d) /\ Other(a) /\ Other(b) /\ Other(c) /\ Other(d))
      BY <1>4 DEF Are1, Are2, Are3, Are4
    <3> HIDE DEF Other
    <3>3. i.op # "CONST"
      <4>1. i.op = "CONST" => Are2(u, Asm("LI", 4, i.imm, 0), StSlot(p, f, 4, i.dst))
        BY <1>6, <1>7 DEF IRUnit
      <4> QED
        BY <3>1, <3>2, <4>1
    <3>4. i.op # "COPY"
      <4>1. i.op = "COPY" => Are2(u, LdSlot(p, f, 4, i.src), StSlot(p, f, 4, i.dst))
        BY <1>6, <1>7 DEF IRUnit
      <4> QED
        BY <3>1, <3>2, <4>1
    <3>5. i.op # "NEG"
      <4>1. i.op = "NEG" => Are4(u, Asm("LI", 4, 0, 0), LdSlot(p, f, 5, i.src), Asm("SUB", 4, 4, 5), StSlot(p, f, 4, i.dst))
        BY <1>6, <1>7 DEF IRUnit
      <4> QED
        BY <3>1, <3>2, <4>1
    <3>6. i.op # "ADD"
      <4>1. i.op = "ADD" => Are4(u, LdSlot(p, f, 4, i.src), LdSlot(p, f, 5, i.src2), Asm("ADD", 4, 4, 5), StSlot(p, f, 4, i.dst))
        BY <1>6, <1>7 DEF IRUnit
      <4> QED
        BY <3>1, <3>2, <4>1
    <3>7. i.op # "SUB"
      <4>1. i.op = "SUB" => Are4(u, LdSlot(p, f, 4, i.src), LdSlot(p, f, 5, i.src2), Asm("SUB", 4, 4, 5), StSlot(p, f, 4, i.dst))
        BY <1>6, <1>7 DEF IRUnit
      <4> QED
        BY <3>1, <3>2, <4>1
    <3>8. i.op # "MEM_LOAD"
      <4>1. i.op = "MEM_LOAD" => Are3(u, LdSlot(p, f, 4, i.src), Asm("LDR", 5, 4, 0), StSlot(p, f, 5, i.dst))
        BY <1>6, <1>7 DEF IRUnit
      <4> QED
        BY <3>1, <3>2, <4>1
    <3>9. i.op # "MEM_STORE"
      <4>1. i.op = "MEM_STORE" => Are3(u, LdSlot(p, f, 4, i.dst), LdSlot(p, f, 5, i.src), Asm("STR", 5, 4, 0))
        BY <1>6, <1>7 DEF IRUnit
      <4> QED
        BY <3>1, <3>2, <4>1
    <3>10. i.op # "LABEL"
      <4>1. i.op = "LABEL" => Are1(u, Label(FnLabel(p, f, i.label)))
        BY <1>6, <1>7 DEF IRUnit
      <4> QED
        BY <3>1, <3>2, <4>1
    <3>11. i.op # "JUMP"
      <4>1. i.op = "JUMP" => Are1(u, AsmTo("JMP", FnLabel(p, f, i.label)))
        BY <1>6, <1>7 DEF IRUnit
      <4> QED
        BY <3>1, <3>2, <4>1
    <3>12. i.op # "JUMP_Z"
      <4>1. i.op = "JUMP_Z" => Are4(u, LdSlot(p, f, 4, i.src), Asm("LI", 5, 0, 0), Asm("CMP", 4, 5, 0), AsmTo("JZ", FnLabel(p, f, i.label)))
        BY <1>6, <1>7 DEF IRUnit
      <4> QED
        BY <3>1, <3>2, <4>1
    <3>13. i.op # "JUMP_NZ"
      <4>1. i.op = "JUMP_NZ" => Are4(u, LdSlot(p, f, 4, i.src), Asm("LI", 5, 0, 0), Asm("CMP", 4, 5, 0), AsmTo("JNZ", FnLabel(p, f, i.label)))
        BY <1>6, <1>7 DEF IRUnit
      <4> QED
        BY <3>1, <3>2, <4>1
    <3>14. i.op # "ARG"
      <4>1. i.op = "ARG" => Are1(u, LdSlot(p, f, i.imm + 1, i.src))
        BY <1>6, <1>7 DEF IRUnit
      <4> QED
        BY <3>1, <3>2, <4>1
    <3>15. i.op # "RETURN"
      <4>1. i.op = "RETURN" => Are2(u, LdSlot(p, f, 0, i.src), Asm("RET", 0, 0, 0))
        BY <1>6, <1>7 DEF IRUnit
      <4> QED
        BY <3>1, <3>2, <4>1
    <3>16. i.op # "RETURN_VOID"
      <4>1. i.op = "RETURN_VOID" => Are1(u, Asm("RET", 0, 0, 0))
        BY <1>6, <1>7 DEF IRUnit
      <4> QED
        BY <3>1, <3>2, <4>1
    <3>17. i.op # "PRINT"
      <4>1. i.op = "PRINT" => Are2(u, LdSlot(p, f, 4, i.src), Asm("PRINT", 4, 0, 0))
        BY <1>6, <1>7 DEF IRUnit
      <4> QED
        BY <3>1, <3>2, <4>1
    <3>18. i.op # "PRINTD"
      <4>1. i.op = "PRINTD" => Are2(u, LdSlot(p, f, 4, i.src), Asm("PRINTD", 4, 0, 0))
        BY <1>6, <1>7 DEF IRUnit
      <4> QED
        BY <3>1, <3>2, <4>1
    <3>19. i.op # "HALT"
      <4>1. i.op = "HALT" => Are1(u, Asm("HALT", 0, 0, 0))
        BY <1>6, <1>7 DEF IRUnit
      <4> QED
        BY <3>1, <3>2, <4>1
    <3> QED
      BY <1>6, <1>7, <2>1, <2>3, <3>3, <3>4, <3>5, <3>6, <3>7, <3>8, <3>9, <3>10, <3>11, <3>12, <3>13, <3>14, <3>15, <3>16, <3>17, <3>18, <3>19 DEF IROps
  <2> QED
    BY <2>2, <2>3
<1> QED
  BY <1>1, <1>2, <1>6, <1>7, <1>8

\* The levels of the functions of a program without recursion.
Levels(p) ==
    {level \in [DOMAIN p.functions -> 0 .. Len(p.functions) - 1] :
        \A f, g \in DOMAIN p.functions : CallsFunction(p, f, g) => level[g] < level[f]}

\* _init is above them all.
LevelOf(p, level, f) == IF f = 0 THEN Len(p.functions) ELSE level[f]

\* With the calls F pending and control in f there is a level for every call.
Bounded(p, level, F, f) ==
    /\ Len(F) + LevelOf(p, level, f) <= Len(p.functions)
    /\ \A k \in DOMAIN F : Len(F) - k + LevelOf(p, level, F[k].fn) <= Len(p.functions)

Frames(p) == [fn : 0 .. Len(p.functions), ip : Nat]

LEMMA LevelsAre ==
    ASSUME NEW p, WellFormed(p), NEW level \in Levels(p), NEW f \in 0 .. Len(p.functions)
    PROVE  /\ LevelOf(p, level, f) \in 0 .. Len(p.functions) /\ Len(p.functions) \in Nat
           /\ f # 0 => LevelOf(p, level, f) < Len(p.functions)
<1>1. Len(p.functions) \in Nat /\ DOMAIN p.functions = 1 .. Len(p.functions)
  BY Lengths
<1>2. f # 0 => level[f] \in 0 .. Len(p.functions) - 1
  BY <1>1 DEF Levels
<1> QED
  BY <1>1, <1>2 DEF LevelOf

LEMMA PushBounded ==
    ASSUME NEW p, WellFormed(p), NEW level \in Levels(p),
           NEW F \in Seq(Frames(p)), NEW x \in Frames(p), NEW g \in 0 .. Len(p.functions),
           Bounded(p, level, F, x.fn), LevelOf(p, level, g) < LevelOf(p, level, x.fn),
           NEW G, G = <<x>> \o F
    PROVE  Bounded(p, level, G, g)
<1> DEFINE n == Len(p.functions)
           L(f) == LevelOf(p, level, f)
<1>1. n \in Nat /\ \A f \in 0 .. n : L(f) \in 0 .. n
  BY Lengths, LevelsAre
<1>2. /\ Len(F) \in Nat /\ DOMAIN F = 1 .. Len(F)
      /\ Len(G) = Len(F) + 1 /\ DOMAIN G = 1 .. Len(F) + 1
      /\ G[1] = x /\ \A k \in 2 .. Len(F) + 1 : G[k] = F[k - 1]
  OBVIOUS
<1>3. x.fn \in 0 .. n /\ \A k \in 1 .. Len(F) : F[k].fn \in 0 .. n
  <2>1. \A k \in 1 .. Len(F) : F[k] \in Frames(p)
    BY <1>2
  <2> QED
    BY <2>1 DEF Frames
<1>4. /\ Len(F) + L(x.fn) <= n /\ L(g) < L(x.fn)
      /\ \A k \in 1 .. Len(F) : Len(F) - k + L(F[k].fn) <= n
  BY <1>2 DEF Bounded
<1>5. Len(G) + L(g) <= n
  BY <1>1, <1>2, <1>3, <1>4
<1>6. ASSUME NEW k \in DOMAIN G PROVE Len(G) - k + L(G[k].fn) <= n
  <2>1. CASE k = 1
    BY <1>1, <1>2, <1>3, <1>4, <2>1
  <2>2. CASE k # 1
    <3>1. k - 1 \in 1 .. Len(F) /\ k \in 2 .. Len(F) + 1 /\ Len(G) - k = Len(F) - (k - 1)
      BY <1>2, <2>2
    <3>2. G[k] = F[k - 1]
      BY <1>2, <3>1
    <3> QED
      BY <1>4, <3>1, <3>2
  <2> QED
    BY <2>1, <2>2
<1> QED
  BY <1>5, <1>6 DEF Bounded

LEMMA PopBounded ==
    ASSUME NEW p, WellFormed(p), NEW level \in Levels(p),
           NEW F \in Seq(Frames(p)), F # <<>>, NEW f, Bounded(p, level, F, f)
    PROVE  Bounded(p, level, Tail(F), Head(F).fn)
<1> DEFINE n == Len(p.functions)
           L(g) == LevelOf(p, level, g)
           G == Tail(F)
<1>1. n \in Nat /\ \A g \in 0 .. n : L(g) \in 0 .. n
  BY Lengths, LevelsAre
<1>2. /\ Len(F) \in Nat \ {0} /\ DOMAIN F = 1 .. Len(F) /\ Head(F) = F[1]
      /\ Len(G) = Len(F) - 1 /\ DOMAIN G = 1 .. Len(F) - 1
      /\ \A k \in 1 .. Len(F) - 1 : G[k] = F[k + 1]
  OBVIOUS
<1>3. \A k \in 1 .. Len(F) : Len(F) - k + L(F[k].fn) <= n
  BY <1>2 DEF Bounded
<1>4. Len(G) + L(Head(F).fn) <= n
  BY <1>2, <1>3
<1>5. ASSUME NEW k \in DOMAIN G PROVE Len(G) - k + L(G[k].fn) <= n
  <2>1. k \in 1 .. Len(F) - 1 /\ k + 1 \in 1 .. Len(F) /\ Len(G) - k = Len(F) - (k + 1)
    BY <1>2
  <2>2. G[k] = F[k + 1]
    BY <1>2, <2>1
  <2> QED
    BY <1>3, <2>1, <2>2
<1> HIDE DEF G
<1> QED
  BY <1>4, <1>5 DEF Bounded, G

\* Where control is while the machine runs.
LEMMA SiteIsCharted ==
    ASSUME RInv, outcome = "running", NEW p, p = Source
    PROVE  WellFormed(p) /\ ChartedAt(p, code, prog.map, pc + 1) /\ ValidSite(p, Site)
<1>1. /\ CInv /\ prog = Compile(p) /\ code = Compile(p).code
      /\ prog.map = Compile(p).map /\ Compile(p).error = "none"
  BY DEF RInv, Source
<1>2. WellFormed(p)
  BY <1>1, CompiledRunAssumption DEF CInv, Source
<1>3. ~ CodegenFails(p)
  BY <1>1 DEF Compile
<1>4. Charted(p, code, prog.map)
  BY <1>1, <1>2, <1>3, CompiledIsCharted
<1>5. pc + 1 \in DOMAIN code
  BY <1>1, RunningFacts
<1> QED
  BY <1>2, <1>4, <1>5 DEF Charted, ChartedAt, Site

\* The calls in progress, and where the stack pointer is.
LEMMA FramesAre ==
    ASSUME RInv, outcome = "running", NEW p, p = Source
    PROVE  /\ WellFormed(p) /\ IRLoc.fn = Site.fn /\ Site.fn \in 0 .. Len(p.functions)
           /\ IRFrames \in Seq(Frames(p)) /\ sp \in Int
           /\ Len(IRFrames) = MemorySize - 1 - sp
           /\ Site.fn # 0 => IRFrames # <<>>
<1>1. CInv /\ IInv /\ CallsPending
  BY DEF RInv, CInv
<1>5. Fetchable /\ PendingReturns \in Seq(Int) /\ Placed(code, prog.map, pc, PendingReturns)
  BY <1>1, RunningFacts
<1>6. WellFormed(p) /\ ValidSite(p, Site)
  BY SiteIsCharted
<1>7. Site.fn \in 0 .. Len(p.functions)
  BY <1>6 DEF ValidSite
<1>8. IRLoc.fn = Site.fn
  <2>1. InImage
    BY <1>5 DEF InImage, Fetchable
  <2>2. IRPlace(Site).fn = Site.fn
    BY DEF IRPlace, Place
  <2> QED
    BY <2>1, <2>2 DEF IRLoc
<1>9. /\ sp \in Addresses /\ PendingReturns = CellsAbove(mem, sp) /\ mem \in [Addresses -> Word]
  BY <1>1, RunningStack
<1>10. Len(PendingReturns) = MemorySize - 1 - sp /\ sp \in Int
  BY <1>9, CellsAboveIsSequence, VMAssumption DEF Addresses
<1>11. PICK P, map : P = PendingReturns /\ map = prog.map
  OBVIOUS
<1>12. IRFrames = [k \in 1 .. Len(P) |-> Frame(map, P[k])] /\ Len(P) \in Nat
  BY <1>5, <1>11 DEF IRFrames, Frame
<1>13. \A k \in 1 .. Len(P) : Frame(map, P[k]) \in Frames(p)
  <2>1. \A k \in 1 .. Len(P) : CallSite(p, map[P[k]])
    BY <1>1, <1>5, <1>11, <1>12 DEF CallsPending
  <2> QED
    BY <2>1 DEF CallSite, ValidSite, Frame, Frames
<1>14. IRFrames \in Seq(Frames(p)) /\ Len(IRFrames) = Len(P)
  BY <1>12, <1>13
<1>15. Site.fn # 0 => IRFrames # <<>>
  <2>1. Site.fn # 0 => P # <<>>
    BY <1>5, <1>11 DEF Placed, Site
  <2>2. P # <<>> => Len(P) # 0
    BY <1>5, <1>11
  <2> QED
    BY <1>14, <2>1, <2>2
<1> QED
  BY <1>6, <1>7, <1>8, <1>10, <1>11, <1>14, <1>15

\* A step of the IR machine keeps its calls bounded.
LEMMA StepKeepsBound ==
    ASSUME NEW p, NEW r, Here(p, r), NEW level \in Levels(p), IR!Next,
           Bounded(p, level, IRFrames, IRLoc.fn), IRStatus' = "running"
    PROVE  Bounded(p, level, IRFrames', IRLoc'.fn)
<1>1. /\ WellFormed(p) /\ Source = p /\ IRLoc.fn = r.fn /\ r.fn \in 0 .. Len(p.functions)
      /\ IRFrames \in Seq(Frames(p)) /\ (r.fn # 0 => IRFrames # <<>>)
  BY HereIsView, FramesAre DEF Here
<1>2. /\ Len(p.functions) \in Nat /\ DOMAIN p.functions = 1 .. Len(p.functions)
      /\ \A f \in DOMAIN p.functions : f # 0 /\ f \in 0 .. Len(p.functions)
  BY <1>1, Lengths
<1>3. ASSUME NEW l, IR!Goto(l) PROVE IRLoc' = l
  BY <1>3 DEF IR!Goto
<1>4. \A f, k : IR!At(f, k).fn = f /\ IR!Receiving(f, k).fn = f
  BY DEF IR!At, IR!Receiving
<1>5. ASSUME IR!GoOn PROVE IRLoc'.fn = IRLoc.fn
  BY <1>3, <1>4, <1>5 DEF IR!GoOn, IR!fn
<1>6. CASE IRFrames' = IRFrames /\ IRLoc'.fn = IRLoc.fn
  BY <1>6
<1>7. CASE \/ IR!Compute \/ IR!MemLoad \/ IR!MemStore \/ IR!Arg \/ IR!PrintWord \/ IR!Receive
  <2>1. IR!GoOn /\ IRFrames' = IRFrames
    BY <1>7 DEF IR!Compute, IR!MemLoad, IR!MemStore, IR!Arg, IR!PrintWord, IR!Receive
  <2> QED
    BY <1>5, <1>6, <2>1
<1>8. CASE IR!Jump
  <2>1. /\ IRFrames' = IRFrames
        /\ IR!GoOn \/ \E k : IR!Goto(IR!At(IR!fn, k))
    BY <1>8 DEF IR!Jump
  <2>2. IRLoc'.fn = IRLoc.fn
    BY <1>3, <1>4, <1>5, <2>1 DEF IR!fn
  <2> QED
    BY <1>6, <2>1, <2>2
<1>9. ASSUME NEW g, g \in DOMAIN p.functions, NEW x \in Frames(p), x.fn = IRLoc.fn,
             LevelOf(p, level, g) < LevelOf(p, level, x.fn),
             IRFrames' = <<x>> \o IRFrames, IR!EnterFunction(g)
      PROVE  Bounded(p, level, IRFrames', IRLoc'.fn)
  <2>1. IRLoc'.fn = g
    BY <1>3, <1>4, <1>9 DEF IR!EnterFunction, IR!Entry
  <2>2. PICK G : G = IRFrames'
    OBVIOUS
  <2>3. Bounded(p, level, G, g)
    BY <1>1, <1>2, <1>9, <2>2, PushBounded
  <2> QED
    BY <2>1, <2>2, <2>3
<1>10. CASE IR!Start
  <2>1. PICK g : g = IR!FunctionNumber(p, "main")
    OBVIOUS
  <2>2. g \in DOMAIN p.functions
    BY <1>1, <2>1 DEF WellFormed, Resolved, IR!FunctionNumber
  <2>3. /\ IRLoc.fn = 0 /\ IRFrames' = <<[fn |-> 0, ip |-> 0]>> /\ IR!EnterFunction(g)
    BY <1>1, <1>10, <2>1 DEF IR!Start, IR!Begin, IR!At
  <2>4. PICK x : x = [fn |-> 0, ip |-> 0]
    OBVIOUS
  <2>5. x \in Frames(p) /\ x.fn = 0
    BY <1>2, <2>4 DEF Frames
  <2>6. IRFrames = <<>>
    <3>1. Len(IRFrames) + Len(p.functions) <= Len(p.functions) /\ Len(IRFrames) \in Nat
      BY <1>1, <2>3 DEF Bounded, LevelOf
    <3>2. Len(IRFrames) = 0
      BY <1>2, <3>1
    <3> QED
      BY <1>1, <3>2
  <2>7. IRFrames' = <<x>> \o IRFrames
    BY <2>3, <2>4, <2>5, <2>6
  <2>8. LevelOf(p, level, g) < LevelOf(p, level, x.fn)
    BY <1>1, <1>2, <2>2, <2>5, LevelsAre DEF LevelOf
  <2> QED
    BY <1>9, <2>2, <2>3, <2>5, <2>7, <2>8
<1>11. CASE IR!Call
  <2>1. PICK f, g : f = IR!fn /\ g = IR!FunctionNumber(p, IR!here.label)
    OBVIOUS
  <2>2. /\ f \in DOMAIN p.functions /\ g \in DOMAIN p.functions /\ CallsFunction(p, f, g)
        /\ IRLoc.ip \in DOMAIN p.functions[f].body
    BY <1>11, <2>1, CallIsInBody
  <2>3. PICK x : x = [fn |-> f, ip |-> IRLoc.ip]
    OBVIOUS
  <2>4. IRFrames' = <<x>> \o IRFrames /\ IR!EnterFunction(g) /\ IRLoc.fn = f
    BY <1>1, <1>11, <2>1, <2>3 DEF IR!Call, IR!fn
  <2>5. x \in Frames(p) /\ x.fn = f
    <3>1. IRLoc.ip \in Nat
      <4>1. f \in 1 .. Len(p.functions)
        BY <1>2, <2>2
      <4>2. Len(p.functions[f].body) \in Nat
            /\ DOMAIN p.functions[f].body = 1 .. Len(p.functions[f].body)
        BY <1>1, <4>1, BodyFacts
      <4> QED
        BY <2>2, <4>2
    <3> QED
      BY <1>2, <2>2, <2>3, <3>1 DEF Frames
  <2>6. LevelOf(p, level, g) < LevelOf(p, level, f)
    BY <1>2, <2>2 DEF LevelOf, Levels
  <2> QED
    BY <1>9, <2>2, <2>4, <2>5, <2>6
<1>12. CASE IR!Return \/ IR!ReturnVoid
  <2>1. PICK words : IR!Leave(words)
    BY <1>12 DEF IR!Return, IR!ReturnVoid
  <2>2. IR!fn \in DOMAIN p.functions
    BY <1>1, <1>12 DEF IR!Return, IR!ReturnVoid, IR!Doing
  <2>3. IRFrames # <<>>
    BY <1>1, <1>2, <2>2 DEF IR!fn
  <2>4. PICK site : site = Head(IRFrames)
    OBVIOUS
  <2>5. IRFrames' = Tail(IRFrames) /\ IRLoc'.fn = site.fn
    <3>1. IRFrames' = Tail(IRFrames)
      BY <2>1 DEF IR!Leave
    <3>2. \/ site.fn = 0 /\ IR!Goto(IR!Return0)
          \/ \E k : IR!Goto(IR!At(site.fn, k)) \/ IR!Goto(IR!Receiving(site.fn, k))
      BY <2>1, <2>4 DEF IR!Leave
    <3> QED
      BY <1>3, <1>4, <3>1, <3>2 DEF IR!Return0
  <2> QED
    BY <1>1, <2>3, <2>4, <2>5, PopBounded
<1>13. CASE IR!Halt \/ IR!Abort
  BY <1>13 DEF IR!Halt, IR!Abort
<1> QED
  BY <1>7, <1>8, <1>10, <1>11, <1>12, <1>13 DEF IR!Next

CallsBounded(level) ==
    IRStatus = "running" => Bounded(Source, level, IRFrames, IRLoc.fn)

\* As long as there is a level for every call, no more calls are pending than
\* there are functions.
LEMMA BoundedDepth ==
    ASSUME RInv, NEW level \in Levels(Source), CallsBounded(level), outcome = "running"
    PROVE  Len(PendingReturns) <= Len(Source.functions)
<1>1. PICK p, r, n : p = Source /\ r = Site /\ n = Len(p.functions)
  OBVIOUS
<1>2. /\ WellFormed(p) /\ IRLoc.fn = r.fn /\ r.fn \in 0 .. n
      /\ Len(IRFrames) = MemorySize - 1 - sp /\ Len(IRFrames) \in Nat
  BY <1>1, FramesAre
<1>3. /\ Len(IRFrames) + LevelOf(p, level, r.fn) <= n /\ LevelOf(p, level, r.fn) \in 0 .. n
  <2>1. Bounded(p, level, IRFrames, r.fn)
    BY <1>1, <1>2 DEF CallsBounded, IRStatus
  <2> QED
    BY <1>1, <1>2, <2>1, LevelsAre DEF Bounded
<1>4. n \in Nat
  BY <1>1, <1>2, Lengths
<1>5. Len(PendingReturns) = MemorySize - 1 - sp
  <2>1. mem \in [Addresses -> Word] /\ sp \in Addresses
    BY DEF RInv, CInv, IInv, TypeOK, StackPointerInMemory
  <2>2. StackTop = sp
    BY <2>1, VMAssumption DEF StackTop, Addresses
  <2> QED
    BY <2>1, <2>2, CellsAboveIsSequence DEF PendingReturns
<1> QED
  BY <1>1, <1>2, <1>3, <1>4, <1>5

\* Nor does the stack meet the slots.
LEMMA BoundedStackFits ==
    ASSUME RInv, HasRoom(Source), NEW level \in Levels(Source), CallsBounded(level)
    PROVE  StackAboveSlots /\ CallsAboveSlots
<1> SUFFICES ASSUME outcome = "running" PROVE StackAboveSlots /\ CallsAboveSlots
  BY DEF StackAboveSlots, CallsAboveSlots, Fetchable
<1>1. PICK p, r, n : p = Source /\ r = Site /\ n = Len(p.functions)
  OBVIOUS
<1>2. /\ WellFormed(p) /\ IRLoc.fn = r.fn /\ r.fn \in 0 .. n /\ sp \in Int
      /\ Len(IRFrames) = MemorySize - 1 - sp /\ Len(IRFrames) \in Nat
  BY <1>1, FramesAre
<1>3. /\ Len(IRFrames) + LevelOf(p, level, r.fn) <= n /\ NextFree(p) + n <= MemorySize
      /\ LevelOf(p, level, r.fn) \in 0 .. n
  <2>1. Bounded(p, level, IRFrames, r.fn)
    BY <1>1, <1>2 DEF CallsBounded, IRStatus
  <2> QED
    BY <1>1, <1>2, <2>1, LevelsAre DEF Bounded, HasRoom
<1>4. NextFree(p) \in Nat /\ n \in Nat /\ MemorySize \in Nat
  BY <1>1, <1>2, NoSlotIsInStore, Lengths, VMAssumption
<1>5. NextFree(p) <= sp + 1
  BY <1>2, <1>3, <1>4
<1>6. ASSUME Fetchable, instr.op = "CALL" PROVE NextFree(p) <= sp
  <2>1. LevelOf(p, level, r.fn) > 0
    <3>1. CASE r.fn = 0
      <4>1. PICK f : f \in 1 .. n
        <5>1. \E f \in DOMAIN p.functions : p.functions[f].name = "main"
          BY <1>2 DEF WellFormed, Resolved
        <5>2. DOMAIN p.functions = 1 .. n
          BY <1>1, <1>2, Lengths
        <5> QED
          BY <5>1, <5>2
      <4> QED
        BY <1>1, <1>4, <3>1, <4>1 DEF LevelOf
    <3>2. CASE r.fn # 0
      <4>1. ValidSite(p, r) /\ r.line.kind = "instr" /\ r.line.op = "CALL"
        <5>1. ChartedAt(p, code, prog.map, pc + 1) /\ ValidSite(p, r)
          BY <1>1, SiteIsCharted
        <5>2. r = prog.map[pc + 1] /\ code[pc + 1].op = "CALL"
          BY <1>1, <1>6 DEF Site, instr
        <5> QED
          BY <5>1, <5>2 DEF ChartedAt
      <4>2. PICK f, k : f = r.fn /\ k = r.ip
        OBVIOUS
      <4>3. f \in 1 .. n /\ k \in 1 .. Len(p.functions[f].body) /\ p.functions[f].body[k].op = "CALL"
        BY <1>1, <1>2, <3>2, <4>1, <4>2, CallLineIsCall
      <4>4. f \in DOMAIN p.functions /\ k \in DOMAIN p.functions[f].body
        BY <1>1, <1>2, <4>3, Lengths, BodyFacts
      <4>5. PICK g \in DOMAIN p.functions : CallsFunction(p, f, g)
        <5>1. PICK label : label = p.functions[f].body[k].label
          OBVIOUS
        <5>2. \E g \in DOMAIN p.functions : p.functions[g].name = label
          BY <1>2, <4>3, <4>4, <5>1 DEF WellFormed, Resolved
        <5> QED
          BY <4>3, <4>4, <5>1, <5>2 DEF CallsFunction
      <4>6. level[g] < level[f] /\ level[g] \in 0 .. n - 1 /\ level[f] \in 0 .. n - 1
        BY <1>1, <4>4, <4>5 DEF Levels
      <4> QED
        BY <1>4, <3>2, <4>2, <4>6 DEF LevelOf
    <3> QED
      BY <3>1, <3>2
  <2> QED
    BY <1>2, <1>3, <1>4, <2>1
<1> QED
  BY <1>1, <1>5, <1>6 DEF StackAboveSlots, CallsAboveSlots

LEMMA BoundIsKept ==
    ASSUME SimInv, MemoryIsApart, [RunNext]_runVars, WordsHoldAddresses,
           NEW level \in Levels(Source), CallsBounded(level)
    PROVE  CallsBounded(level)' /\ Source' = Source
<1>1. RInv /\ BeginsAlone
  BY DEF SimInv
<1>2. Source' = Source
  BY DEF RunNext, runVars, Source
<1>3. [IR!Next]_(IR!vars)
  BY StepRefines
<1>4. PICK p, r : p = Source /\ r = Site
  OBVIOUS
<1>5. CASE IR!Next
  <2>1. IRStatus = "running"
    BY <1>5 DEF IR!Next, IR!Start, IR!Compute, IR!MemLoad, IR!MemStore, IR!Jump, IR!Arg, IR!Call,
                IR!Return, IR!ReturnVoid, IR!Receive, IR!PrintWord, IR!Halt, IR!Abort, IR!Doing
  <2>2. outcome = "running"
    BY <2>1 DEF IRStatus
  <2>3. Here(p, r)
    BY <1>1, <1>4, <2>2 DEF Here, Source
  <2>4. Bounded(p, level, IRFrames, IRLoc.fn)
    BY <1>4, <2>1 DEF CallsBounded
  <2>5. IRStatus' = "running" => Bounded(p, level, IRFrames', IRLoc'.fn)
    BY <1>4, <1>5, <2>3, <2>4, StepKeepsBound
  <2> QED
    BY <1>2, <1>4, <2>5 DEF CallsBounded
<1>6. CASE UNCHANGED IR!vars
  BY <1>2, <1>6 DEF CallsBounded, IR!vars
<1> QED
  BY <1>2, <1>3, <1>5, <1>6

\* The programs the claim is about, and the levels their calls in progress
\* have, the same all along.
DepthInv ==
    /\ SimInv
    /\ HasRoom(Source)
    /\ \E level \in Levels(Source) : CallsBounded(level)

LEMMA LevelsExist ==
    ASSUME NEW p, NoRecursion(p)
    PROVE  Levels(p) # {}
  BY DEF NoRecursion, Levels

LEMMA RunInitBounded ==
    ASSUME RunInit, NoRecursion(Source), HasRoom(Source), StoreIsApart
    PROVE  DepthInv /\ MemoryIsApart
<1>1. PICK p \in IRSources : prog = Compile(p)
  BY DEF RunInit
<1>2. prog.error = "none" /\ code = prog.code /\ Reset
  BY DEF RunInit
<1>3. Compile(p).ir = p
  BY DEF Compile
<1>4. Source = p /\ WellFormed(p)
  BY <1>1, <1>2, <1>3, CompiledRunAssumption DEF Source
<1>5. sp = MemorySize - 1 /\ MemorySize \in Nat
  BY <1>2, VMAssumption DEF Reset
<1>6. NextFree(p) \in Nat /\ Len(p.functions) \in Nat /\ Len(p.functions) # 0
  <2>1. \E f \in DOMAIN p.functions : p.functions[f].name = "main"
    BY <1>4 DEF WellFormed, Resolved
  <2>2. DOMAIN p.functions = 1 .. Len(p.functions) /\ Len(p.functions) \in Nat
    BY <1>4, Lengths
  <2> QED
    BY <1>4, <2>1, <2>2, NoSlotIsInStore
<1>7. NextFree(p) + Len(p.functions) <= MemorySize
  BY <1>4 DEF HasRoom
<1>8. MemoryIsApart
  BY <1>4, <1>5, <1>6, <1>7 DEF MemoryIsApart, StackAboveSlots, CallsAboveSlots, StoreIsApart
<1>9. IR!Init /\ SimInv
  BY <1>8, RunInitIsIRInit DEF SimInv
<1>10. PICK level : level \in Levels(p)
  BY <1>4, LevelsExist
<1>11. CallsBounded(level)
  <2>1. IRFrames = <<>> /\ IRLoc.fn = 0
    BY <1>9 DEF IR!Init, IR!Begin, IR!At
  <2>2. Len(<<>>) = 0 /\ DOMAIN <<>> = {}
    OBVIOUS
  <2>3. Bounded(p, level, <<>>, 0)
    BY <1>6, <2>2 DEF Bounded, LevelOf
  <2> QED
    BY <1>4, <2>1, <2>3 DEF CallsBounded
<1> QED
  BY <1>4, <1>8, <1>9, <1>10, <1>11 DEF DepthInv

LEMMA DepthInvIsInductive ==
    ASSUME DepthInv, StoreIsApart, [RunNext]_runVars, WordsHoldAddresses
    PROVE  MemoryIsApart /\ DepthInv'
<1>1. PICK level : level \in Levels(Source) /\ CallsBounded(level)
  BY DEF DepthInv
<1>2. SimInv /\ RInv /\ HasRoom(Source)
  BY DEF DepthInv, SimInv
<1>3. MemoryIsApart
  BY <1>1, <1>2, BoundedStackFits DEF MemoryIsApart, StoreIsApart
<1>4. SimInv'
  BY <1>2, <1>3, StepRefines
<1>5. CallsBounded(level)' /\ Source' = Source
  BY <1>1, <1>2, <1>3, BoundIsKept
<1> QED
  BY <1>1, <1>2, <1>3, <1>4, <1>5 DEF DepthInv

LEMMA BoundedIsApart ==
    ASSUME DepthInv, StoreIsApart
    PROVE  /\ MemoryIsApart
           /\ outcome = "running" => Len(PendingReturns) <= Len(Source.functions)
<1>1. PICK level : level \in Levels(Source) /\ CallsBounded(level)
  BY DEF DepthInv
<1>2. MemoryIsApart
  BY <1>1, BoundedStackFits DEF DepthInv, SimInv, MemoryIsApart, StoreIsApart
<1>3. ASSUME outcome = "running" PROVE Len(PendingReturns) <= Len(Source.functions)
  BY <1>1, <1>3, BoundedDepth DEF DepthInv, SimInv
<1> QED
  BY <1>2, <1>3

\* The claims of StaticAllocationIsSafe hold of every program: of one with a
\* recursive function or without room because nothing is claimed, and that does
\* not change while it runs.
NothingClaimed == ~ (NoRecursion(Source) /\ HasRoom(Source))

LEMMA ClaimStays ==
    ASSUME NothingClaimed, [RunNext]_runVars
    PROVE  NothingClaimed'
<1>1. Source' = Source
  BY DEF RunNext, runVars, Source
<1> QED
  BY <1>1 DEF NothingClaimed

\* Without recursion static allocation is safe: in every run of a compiled
\* program whose functions do not call themselves, with memory for its slots and
\* a return address to every function, no more calls are pending than there are
\* functions and the stack never meets a slot, whatever the program, its loops
\* and its calls (addresses.py:14).
THEOREM NoRecursionIsSafe ==
    ASSUME \A p \in Programs : Len(p) <= WordMax
    PROVE  RunSpec /\ []StoreIsApart => []StaticAllocationIsSafe
<1>1. RunInit /\ StoreIsApart => NothingClaimed \/ DepthInv
  BY RunInitBounded DEF NothingClaimed
<1>2. NothingClaimed /\ [RunNext]_runVars => NothingClaimed'
  BY ClaimStays
<1>3. DepthInv /\ StoreIsApart /\ [RunNext]_runVars => DepthInv'
  BY DepthInvIsInductive DEF WordsHoldAddresses
<1>4. NothingClaimed => StaticAllocationIsSafe
  BY DEF NothingClaimed, StaticAllocationIsSafe
<1>5. DepthInv /\ StoreIsApart => StaticAllocationIsSafe
  BY BoundedIsApart DEF StaticAllocationIsSafe, MemoryIsApart
<1> QED
  BY <1>1, <1>2, <1>3, <1>4, <1>5, PTL DEF RunSpec

\* What such a program does: its compiled code does what its IR means, every
\* call returns behind its own CALL and no run ends by a fault of the code.
THEOREM NoRecursionIsRight ==
    ASSUME \A p \in Programs : Len(p) <= WordMax
    PROVE  RunSpec /\ NoRecursion(Source) /\ HasRoom(Source) /\ []StoreIsApart
              => ImplementsIR /\ CallsReturn /\ []NoCodeFault
<1>1. RunInit /\ NoRecursion(Source) /\ HasRoom(Source) /\ StoreIsApart => DepthInv
  BY RunInitBounded
<1>2. DepthInv /\ StoreIsApart /\ [RunNext]_runVars => DepthInv'
  BY DepthInvIsInductive DEF WordsHoldAddresses
<1>3. DepthInv /\ StoreIsApart => MemoryIsApart
  BY BoundedIsApart
<1>4. RunSpec /\ NoRecursion(Source) /\ HasRoom(Source) /\ []StoreIsApart => []MemoryIsApart
  BY <1>1, <1>2, <1>3, PTL DEF RunSpec
<1>5. MemoryIsApart => StackAboveSlots /\ StoreInStore
  BY DEF MemoryIsApart, StoreIsApart
<1>6. RunSpec /\ []MemoryIsApart => ImplementsIR
  BY CompiledCodeImplementsIR
<1>7. RunSpec /\ []StackAboveSlots /\ []StoreInStore => CallsReturn /\ []NoCodeFault
  BY CompiledCallsReturn
<1> QED
  BY <1>4, <1>5, <1>6, <1>7, PTL
=============================================================================
