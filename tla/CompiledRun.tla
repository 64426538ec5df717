---------------------------- MODULE CompiledRun ----------------------------
(***************************************************************************)
(* Compiled programs on the SeptaVM: the code generator, the assembler and *)
(* the machine together, as the command "run" composes them                *)
(* (septa/cli/main.py: generate, parse_asm, assemble, Machine.run), as an  *)
(* implementation of IRMachine.                                            *)
(***************************************************************************)
EXTENDS VMCalls, Codegen, Assembler

CONSTANT IRSources     \* the set of IR programs

\* What is compiled, what became of it, where each instruction comes from, and
\* where every slot went.
Compile(p) ==
    LET generated == Generate(p)
        lines     == Lines(generated)
        numbers   == InstrLines(lines)[Len(lines)]
        image     == Assemble(lines)
    IN  [ir    |-> p,
         error |-> IF CodegenFails(p) THEN "codegen" ELSE image.error,
         code  |-> image.code,
         map   |-> [q \in DOMAIN numbers |-> generated[numbers[q]]],
         addr  |-> [x \in SlotNames(p) |-> SlotAddress(p, x[1], x[2])]]

Images == {Compile(p).code : p \in IRSources}

\* The machine runs the images of programs that lowering can produce; the word
\* for true is a word (RadixConfig.bool_true).
ASSUME CompiledRunAssumption ==
    /\ Images \subseteq Programs
    /\ \A p \in IRSources : WellFormed(p)
    /\ BoolTrue \in Word

VARIABLE prog     \* the program that runs, as compiled

runVars == <<vars, prog>>

RunInit ==
    /\ prog \in {Compile(p) : p \in IRSources}
    /\ prog.error = "none"
    /\ code = prog.code
    /\ Reset

RunNext == Next /\ UNCHANGED prog

\* run() steps as long as it has not ended.
RunSpec == RunInit /\ [][RunNext]_runVars /\ WF_runVars(RunNext)

-----------------------------------------------------------------------------
(* The refinement mapping.  An IR instruction takes effect with the last   *)
(* line generated for it; until then its IR machine stands still.          *)

Source == prog.ir

\* After HALT control is nowhere.
InImage == pc >= 0 /\ pc < Len(code) /\ outcome # "halted"
Site == prog.map[pc + 1]     \* where the next instruction comes from

InPrologue == InImage /\ Site.fn # 0 /\ Site.ip = 0
InInit     == InImage /\ Site.fn = 0

\* After a call that has a destination, ST R0 is still to come.
AtReceive(site) ==
    /\ site.fn # 0 /\ site.ip # 0
    /\ Source.functions[site.fn].body[site.ip].op = "CALL"
    /\ site.nth = 2

\* Parameters still in their registers, globals not yet initialized.
StillInRegister(k) == InPrologue /\ Site.nth <= k + 1
NotYetInitialized(k) == InInit /\ Site.nth <= 2 * k + 1

GlobalValue(slot) ==
    LET k == LastIndex([j \in DOMAIN Source.globals |-> Source.globals[j].slot], slot)
    IN  IF NotYetInitialized(k) THEN WrapWord(Source.globals[k].init)
        ELSE mem[prog.addr[<<0, slot>>]]

LocalValue(f, slot) ==
    LET params == Source.functions[f].params
    IN  IF f = Site.fn /\ \E k \in DOMAIN params : params[k] = slot /\ StillInRegister(k)
        THEN gp[LastIndex(params, slot)] ELSE mem[prog.addr[<<f, slot>>]]

IRSlots ==
    [x \in SlotNames(Source) |->
        IF x[1] = 0 THEN GlobalValue(x[2]) ELSE LocalValue(x[1], x[2])]

IRFrames ==
    [k \in DOMAIN PendingReturns |->
        LET call == prog.map[PendingReturns[k]] IN [fn |-> call.fn, ip |-> call.ip]]

IRArgs  == [k \in 1 .. 3 |-> gp[k]]
IRRet   == IF InImage /\ AtReceive(Site) THEN gp[0] ELSE 0
IRStore == [x \in 0 .. DataBase - 1 |-> mem[x]]

IRStatus == IF outcome \in {"running", "halted"} THEN outcome ELSE "aborted"

Place(f, k, phase) == [fn |-> f, ip |-> k, phase |-> phase]

\* In the prologue of a function the IR machine is at its first instruction.
FirstInstr(f) ==
    LET body == Source.functions[f].body
    IN  Min({j \in 1 .. Len(body) : body[j].op # "LABEL"})

IRPlace(site) ==
    IF site.fn = 0 THEN Place(0, IF site.line.op = "HALT" THEN 2 ELSE 1, "go")
    ELSE IF site.ip = 0 THEN Place(site.fn, FirstInstr(site.fn), "go")
    ELSE Place(site.fn, site.ip, IF AtReceive(site) THEN "receive" ELSE "go")

IRLoc == IF outcome = "running" /\ InImage THEN IRPlace(Site) ELSE Place(0, 0, "go")

IR == INSTANCE IRMachine WITH
    StoreSize <- DataBase,
    MaxArgs   <- 3,
    Programs  <- IRSources,
    prog   <- Source,
    loc    <- IRLoc,
    frames <- IRFrames,
    args   <- IRArgs,
    ret    <- IRRet,
    slots  <- IRSlots,
    store  <- IRStore,
    out    <- output,
    status <- IRStatus

\* A compiled program does what its IR program means: it computes the same
\* words, takes the same branches, passes the same arguments and results,
\* outputs the same, and confuses no slot, store[] cell or return address.
ImplementsIR == IR!Spec

-----------------------------------------------------------------------------
(* What nothing checks while a program runs: that the stack does not grow  *)
(* into the slots, and that store[] is used at its own addresses.          *)

\* The stack has not grown into the slots.
StackAboveSlots == outcome = "running" => NextFree(Source) <= sp + 1

\* A call does not push into the slots.
CallsAboveSlots == Fetchable /\ instr.op = "CALL" => NextFree(Source) <= sp

\* store[] is only written at addresses it has.
StoreInStore ==
    (Fetchable /\ instr.op = "STR" /\ Operand \in Addresses) => Operand < DataBase

\* store[] is only read at addresses it has.
LoadInStore ==
    (Fetchable /\ instr.op = "LDR" /\ Operand \in Addresses) => Operand < DataBase

\* No index of store[] is one of the addresses behind it.
StoreIsApart == StoreInStore /\ LoadInStore

\* store[], slots and stack are used apart from each other: what a program
\* with calls nested less deep than memory allows, and with every index of
\* store[] below data_base or outside memory, can rely on.
MemoryIsApart == StackAboveSlots /\ CallsAboveSlots /\ StoreIsApart

\* Function number f has a call of function number g.
CallsFunction(p, f, g) ==
    \E k \in DOMAIN p.functions[f].body :
        /\ p.functions[f].body[k].op = "CALL"
        /\ p.functions[f].body[k].label = p.functions[g].name

\* No function calls itself, directly or through others: the functions have
\* levels, and each of them calls only functions below its own.
NoRecursion(p) ==
    \E level \in [DOMAIN p.functions -> 0 .. Len(p.functions) - 1] :
        \A f, g \in DOMAIN p.functions : CallsFunction(p, f, g) => level[g] < level[f]

\* Memory has room for the slots and a return address to every function.
HasRoom(p) == NextFree(p) + Len(p.functions) <= MemorySize

\* "No recursion in v0.1, so static allocation is safe" (addresses.py:14), with
\* the room that takes: where no function calls itself and memory has a cell for
\* every slot and for a return address to every function, never more calls are
\* pending than there are functions, so that the stack, however the calls of the
\* program return and nest again, stops short of the slots.  No stage checks
\* either condition.
StaticAllocationIsSafe ==
    NoRecursion(Source) /\ HasRoom(Source) =>
        /\ outcome = "running" => Len(PendingReturns) <= Len(Source.functions)
        /\ StackAboveSlots
        /\ CallsAboveSlots

\* Compiled code never runs off its end, returns more often than it was
\* called, or holds an instruction the machine does not have: what ends a run
\* early is the step limit, a store[] address, or calls nested too deep.
NoCodeFault == outcome \notin {"pc out of bounds", "unknown opcode", "stack underflow"}
=============================================================================
