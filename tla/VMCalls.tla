------------------------------ MODULE VMCalls ------------------------------
(***************************************************************************)
(* The call stack of the SeptaVM as an implementation of CallReturn: the   *)
(* pending return addresses are the memory cells above the stack pointer.  *)
(***************************************************************************)
EXTENDS SeptaVM

\* The last cell the stack pointer passed.  A failing CALL leaves sp at -1,
\* where the cell it overwrote, 0, is not a return address.
StackTop == IF sp < 0 THEN 0 ELSE sp

CellsAbove(m, top) == [k \in 1 .. MemorySize - 1 - top |-> m[top + k]]

PendingReturns == CellsAbove(mem, StackTop)

StackStatus ==
    IF outcome \in {"running", "stack overflow", "stack underflow"}
    THEN outcome ELSE "stopped"

Stack == INSTANCE CallReturn WITH
    Depth   <- MemorySize - 1,
    Targets <- Int,
    Values  <- Word,
    pending <- PendingReturns,
    status  <- StackStatus

\* The store instruction about to be executed, if any, writes at or below
\* the stack pointer: what the compiler's memory layout is meant to ensure.
StoresBelowStack ==
    (Fetchable /\ instr.op \in {"ST", "STR"} /\ Operand \in Addresses) =>
        Operand <= sp

\* Every RET goes to the instruction after the CALL it matches, calls nest
\* MemorySize - 1 deep, and the fault reported is the one that happened.
\* Holds of images whose stores stay below the stack and whose addresses
\* are words; every compiled function call relies on it.
CallsReturn == Stack!Spec

\* The same of any image at all (whose addresses are words), but that a store
\* instruction may replace a pending return address -- and nothing else may:
\* not a return address pushed too far, nor one popped from outside.
OnlyStoresDisturbCalls == Stack!OverwritableSpec
=============================================================================
