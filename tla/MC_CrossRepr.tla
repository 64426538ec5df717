---------------------------- MODULE MC_CrossRepr ----------------------------
(***************************************************************************)
(* Instances of CrossRepr for TLC: every image of ImageLength instructions *)
(* that make, keep, compare, print and follow words on both sides of the   *)
(* middle.                                                                 *)
(***************************************************************************)
EXTENDS CrossRepr

CONSTANTS Base, WordWidth, ImageLength

RadixModulus    == Base ^ WordWidth
RadixMemorySize == Base ^ 5

I(op, a, b, c) == [op |-> op, a |-> a, b |-> b, c |-> c]

\* R0 becomes the word below zero or the largest of the balanced ones.
Crossing ==
    {I("LI", 0, Modulus - 1, 0), I("LI", 0, Half, 0), I("LI", 1, 1, 0),
     I("ADD", 0, 0, 1), I("SUB", 0, 1, 0), I("CMP", 0, 1, 0), I("ST", 0, 1, 0),
     I("LDR", 1, 0, 0), I("STR", 0, 1, 0), I("ST", 0, MemorySize - 1, 0),
     I("CALL", 1, 0, 0), I("RET", 0, 0, 0), I("JL", 0, 0, 0),
     I("PRINTD", 0, 0, 0), I("HALT", 0, 0, 0)}

CrossingImages == [1 .. ImageLength -> Crossing]

\* Programs such as printd(0 - 1).
Differences ==
    [1 .. ImageLength -> {I("LI", 1, 1, 0), I("SUB", 0, 0, 1), I("PRINTD", 0, 0, 0),
                          I("HALT", 0, 0, 0)}]
=============================================================================
