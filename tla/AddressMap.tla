----------------------------- MODULE AddressMap -----------------------------
(***************************************************************************)
(* The static address of every slot of an IR program                       *)
(* (septa/codegen/addresses.py).                                           *)
(***************************************************************************)
EXTENDS IRPrograms, FiniteSetsExt

CONSTANT DataBase     \* data_base(): where the static slots begin

ASSUME AddressMapAssumption == DataBase \in Nat

\* Mutant: a block has no room for its temporaries.
Cursor_NoTemps(p) ==
    LET C[f \in 0 .. Len(p.functions)] ==
            IF f = 0 THEN DataBase + Len(p.globals)
            ELSE C[f - 1] + Len(p.functions[f].params) + Len(p.functions[f].locals)
    IN  C

\* The cursor of allocate after the globals and the blocks of f functions.
Cursor(p) ==
    LET C[f \in 0 .. Len(p.functions)] ==
            IF f = 0 THEN DataBase + Len(p.globals)
            ELSE C[f - 1] + Len(Block(p.functions[f]))
    IN  C

BlockStart(p, f) == Cursor(p)[f - 1]

\* AddressMap.next_free: the first address after all slots.
NextFree(p) == Cursor(p)[Len(p.functions)]

\* The address map is a dict: of two entries with one key the later remains.
LastIndex(seq, slot) == Max({k \in DOMAIN seq : seq[k] = slot})

\* The address of a slot as function number f sees it.
SlotAddress(p, f, slot) ==
    IF slot \in GlobalSlots(p)
    THEN DataBase - 1 + LastIndex([k \in DOMAIN p.globals |-> p.globals[k].slot], slot)
    ELSE BlockStart(p, f) - 1 + LastIndex(Block(p.functions[f]), slot)
=============================================================================
