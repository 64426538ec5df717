---------------------------- MODULE CallReturn ----------------------------
(***************************************************************************)
(* What CALL and RET promise (docs/ISA.md): CALL remembers the address of  *)
(* the instruction after it, RET goes back to the one remembered last.     *)
(* Between the two, control may go anywhere, but what is remembered does   *)
(* not change.  Nesting is limited, and exceeding the limit, or returning  *)
(* from nothing, is reported and ends the run.                             *)
(*                                                                         *)
(* There is no memory here: that the SeptaVM keeps the pending return      *)
(* addresses in the memory its store instructions write is what makes the  *)
(* promise hard to keep.                                                   *)
(***************************************************************************)
EXTENDS Integers, Sequences

CONSTANTS
    Depth,     \* how many calls may be pending
    Targets,   \* where control may go
    Values     \* what a store instruction can write

VARIABLES
    pc,
    pending,   \* return addresses, the most recent first
    status     \* "running", "stopped" or one of the two stack faults

vars == <<pc, pending, status>>

Init ==
    /\ pc = 0
    /\ pending = <<>>
    /\ status = "running"

Running == status = "running"
GoOnOrStop == status' \in {"running", "stopped"}

\* Any instruction but CALL and RET; also every end of the run that has
\* nothing to do with the stack.
Continue ==
    /\ Running
    /\ pc' \in Targets
    /\ GoOnOrStop
    /\ UNCHANGED pending

Call ==
    /\ Running
    /\ Len(pending) < Depth
    /\ pending' = <<pc + 1>> \o pending
    /\ pc' \in Targets
    /\ GoOnOrStop

Return ==
    /\ Running
    /\ pending # <<>>
    /\ pc' = Head(pending)
    /\ pending' = Tail(pending)
    /\ GoOnOrStop

Overflow ==
    /\ Running
    /\ Len(pending) = Depth
    /\ status' = "stack overflow"
    /\ UNCHANGED <<pc, pending>>

Underflow ==
    /\ Running
    /\ pending = <<>>
    /\ status' = "stack underflow"
    /\ UNCHANGED <<pc, pending>>

\* A store instruction hits the cell that holds a return address.
Overwrite ==
    /\ Running
    /\ \E k \in DOMAIN pending, v \in Values : pending' = [pending EXCEPT ![k] = v]
    /\ pc' = pc + 1
    /\ GoOnOrStop

Next == Continue \/ Call \/ Return \/ Overflow \/ Underflow

\* The promise.
Spec == Init /\ [][Next]_vars

\* The promise as far as images can keep it whose stores reach the stack.
OverwritableSpec == Init /\ [][Next \/ Overwrite]_vars
=============================================================================
