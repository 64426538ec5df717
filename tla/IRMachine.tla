----------------------------- MODULE IRMachine -----------------------------
(***************************************************************************)
(* What an IR program means (the comments of Op and Instr in               *)
(* septa/ir/ir.py), without registers, addresses, labels or a memory that  *)
(* slots, store[] and return addresses share.                              *)
(*                                                                         *)
(* Every function has one set of slots, whatever the number of its active  *)
(* calls: that is the language's rule, not the compiler's.  store[] is a   *)
(* memory of its own; an address outside it may end the run, and nothing   *)
(* is promised for one that does not.  The run may end anywhere, by a      *)
(* fault or by the step limit of the machine below.                        *)
(***************************************************************************)
EXTENDS Words, IRPrograms, FiniteSetsExt

CONSTANTS
    StoreSize,   \* store[] has the addresses 0 .. StoreSize - 1
    MaxArgs,     \* arguments a call can pass
    Programs     \* IR programs, as module IRPrograms describes them

VARIABLES
    prog,     \* the program
    loc,      \* where control is: [fn, ip, phase]
    frames,   \* the calls in progress, the innermost first: [fn, ip]
    args,     \* the argument words set by ARG
    ret,      \* the returned word on its way to the call's destination
    slots,    \* the word in each slot
    store,    \* store[]
    out,      \* what was output
    status    \* "running", "halted" or "aborted"

vars == <<prog, loc, frames, args, ret, slots, store, out, status>>

NoWord == 0   \* ret when nothing is returned

At(f, k) == [fn |-> f, ip |-> k, phase |-> "go"]
Receiving(f, k) == [fn |-> f, ip |-> k, phase |-> "receive"]
Begin   == At(0, 1)    \* before main is called
Return0 == At(0, 2)    \* after it returned
Nowhere == At(0, 0)    \* the run is over

\* A label is a place, not a step.
Skip(p, f, k) ==
    LET body == p.functions[f].body
    IN  Min({j \in k .. Len(body) : body[j].op # "LABEL"})

Entry(p, f) == At(f, Skip(p, f, 1))

FunctionNumber(p, name) ==
    CHOOSE f \in DOMAIN p.functions : p.functions[f].name = name

LabelIndex(p, f, label) ==
    CHOOSE k \in DOMAIN p.functions[f].body :
        /\ p.functions[f].body[k].op = "LABEL"
        /\ p.functions[f].body[k].label = label

\* Globals begin with their initial values, every other slot with 0.
InitialSlots(p) ==
    [x \in SlotNames(p) |->
        IF x[1] = 0
        THEN LET k == CHOOSE k \in DOMAIN p.globals : p.globals[k].slot = x[2]
             IN  WrapWord(p.globals[k].init)
        ELSE 0]

-----------------------------------------------------------------------------
fn == loc.fn
here == prog.functions[fn].body[loc.ip]
Doing(ops) ==
    /\ status = "running"
    /\ loc.phase = "go"
    /\ fn \in DOMAIN prog.functions
    /\ here.op \in ops

Value(slot) == slots[Owned(prog, fn, slot)]
Assign(slot, v) == slots' = [slots EXCEPT ![Owned(prog, fn, slot)] = v]

\* Control goes on, unless the run ends with this step.
Goto(l) ==
    \/ status' = "running" /\ loc' = l
    \/ status' = "aborted" /\ loc' = Nowhere

GoOn == Goto(At(fn, Skip(prog, fn, loc.ip + 1)))

Truth(b) == IF b THEN BoolTrue ELSE 0

Result(i) ==
    CASE i.op = "CONST"  -> WrapWord(i.imm)
      [] i.op = "COPY"   -> Value(i.src)
      [] i.op = "ADD"    -> WrapWord(Value(i.src) + Value(i.src2))
      [] i.op = "SUB"    -> WrapWord(Value(i.src) - Value(i.src2))
      [] i.op = "NEG"    -> WrapWord(-Value(i.src))
      [] i.op = "NOT"    -> Truth(Value(i.src) = 0)
      [] i.op = "CMP_EQ" -> Truth(Value(i.src) = Value(i.src2))
      [] i.op = "CMP_NE" -> Truth(Value(i.src) # Value(i.src2))
      [] i.op = "CMP_GT" -> Truth(Value(i.src) > Value(i.src2))
      [] i.op = "CMP_LT" -> Truth(Value(i.src) < Value(i.src2))
      [] i.op = "CMP_GE" -> Truth(Value(i.src) >= Value(i.src2))
      [] i.op = "CMP_LE" -> Truth(Value(i.src) <= Value(i.src2))

Compute ==
    /\ Doing({"CONST", "COPY", "ADD", "SUB", "NEG", "NOT", "CMP_EQ", "CMP_NE",
              "CMP_GT", "CMP_LT", "CMP_GE", "CMP_LE"})
    /\ Assign(here.dst, Result(here))
    /\ GoOn
    /\ UNCHANGED <<prog, frames, args, ret, store, out>>

MemLoad ==
    /\ Doing({"MEM_LOAD"})
    /\ Value(here.src) \in 0 .. StoreSize - 1
    /\ Assign(here.dst, store[Value(here.src)])
    /\ GoOn
    /\ UNCHANGED <<prog, frames, args, ret, store, out>>

MemStore ==
    /\ Doing({"MEM_STORE"})
    /\ Value(here.dst) \in 0 .. StoreSize - 1
    /\ store' = [store EXCEPT ![Value(here.dst)] = Value(here.src)]
    /\ GoOn
    /\ UNCHANGED <<prog, frames, args, ret, slots, out>>

Jump ==
    /\ Doing({"JUMP", "JUMP_Z", "JUMP_NZ"})
    /\ LET taken == \/ here.op = "JUMP"
                    \/ here.op = "JUMP_Z" /\ Value(here.src) = 0
                    \/ here.op = "JUMP_NZ" /\ Value(here.src) # 0
       IN  IF taken
           THEN Goto(At(fn, Skip(prog, fn, LabelIndex(prog, fn, here.label))))
           ELSE GoOn
    /\ UNCHANGED <<prog, frames, args, ret, slots, store, out>>

Arg ==
    /\ Doing({"ARG"})
    /\ args' = [args EXCEPT ![here.imm + 1] = Value(here.src)]
    /\ GoOn
    /\ UNCHANGED <<prog, frames, ret, slots, store, out>>

\* The callee's parameters become the arguments.
EnterFunction(g) ==
    /\ slots' = [x \in DOMAIN slots |->
          LET params == prog.functions[g].params
          IN  IF x[1] = g /\ \E k \in DOMAIN params : params[k] = x[2]
              THEN args[Max({k \in DOMAIN params : params[k] = x[2]})]
              ELSE slots[x]]
    /\ Goto(Entry(prog, g))
    /\ UNCHANGED <<prog, args, ret, store, out>>

Start ==
    /\ status = "running" /\ loc = Begin
    /\ frames' = <<[fn |-> 0, ip |-> 0]>>
    /\ EnterFunction(FunctionNumber(prog, "main"))

Call ==
    /\ Doing({"CALL"})
    /\ frames' = <<[fn |-> fn, ip |-> loc.ip]>> \o frames
    /\ EnterFunction(FunctionNumber(prog, here.label))

\* Back to the innermost call; its result, if it has a destination, is the
\* returned word -- any word at all after a RETURN_VOID.
Leave(words) ==
    LET site == Head(frames)
    IN  /\ frames' = Tail(frames)
        /\ IF site.fn = 0
           THEN Goto(Return0) /\ ret' = NoWord
           ELSE IF prog.functions[site.fn].body[site.ip].dst = ""
           THEN /\ Goto(At(site.fn, Skip(prog, site.fn, site.ip + 1)))
                /\ ret' = NoWord
           ELSE /\ Goto(Receiving(site.fn, site.ip))
                /\ ret' \in words
        /\ UNCHANGED <<prog, args, slots, store, out>>

Return == Doing({"RETURN"}) /\ Leave({Value(here.src)})

ReturnVoid == Doing({"RETURN_VOID"}) /\ Leave(Word)

Receive ==
    /\ status = "running" /\ loc.phase = "receive"
    /\ Assign(here.dst, ret)
    /\ ret' = NoWord
    /\ GoOn
    /\ UNCHANGED <<prog, frames, args, store, out>>

PrintWord ==
    /\ Doing({"PRINT", "PRINTD"})
    /\ out' = Append(out, <<here.op, Value(here.src)>>)
    /\ GoOn
    /\ UNCHANGED <<prog, frames, args, ret, slots, store>>

\* HALT, or main has returned.
Halt ==
    /\ status = "running"
    /\ loc = Return0 \/ Doing({"HALT"})
    /\ status' = "halted"
    /\ loc' = Nowhere
    /\ UNCHANGED <<prog, frames, args, ret, slots, store, out>>

Abort ==
    /\ status = "running"
    /\ status' = "aborted"
    /\ loc' = Nowhere
    /\ UNCHANGED <<prog, frames, args, ret, slots, store, out>>

Init ==
    /\ prog \in Programs
    /\ loc = Begin
    /\ frames = <<>>
    /\ args = [k \in 1 .. MaxArgs |-> 0]
    /\ ret = NoWord
    /\ slots = InitialSlots(prog)
    /\ store = [x \in 0 .. StoreSize - 1 |-> 0]
    /\ out = <<>>
    /\ status = "running"

Next ==
    \/ Start \/ Compute \/ MemLoad \/ MemStore \/ Jump \/ Arg \/ Call
    \/ Return \/ ReturnVoid \/ Receive \/ PrintWord \/ Halt \/ Abort

Spec == Init /\ [][Next]_vars
=============================================================================
