------------------------- MODULE CompiledRun_proofs -------------------------
(***************************************************************************)
(* What the image of an IR program is, for every IR program that lowering  *)
(* can produce, and that it is safe to run, for every radix, memory and    *)
(* step limit.                                                             *)
(*                                                                         *)
(* Two slots never share a cell.  Compiled code never runs off its end,    *)
(* never returns more often than it was called, and holds no instruction   *)
(* the machine does not have, as long as its stores stay below the stack.  *)
(* And the image can be read as a chart of the generated lines: each of    *)
(* its instructions is one line, the next one is the line that comes after *)
(* it, and a branch goes to what comes after its label.                    *)
(***************************************************************************)
EXTENDS CompiledRun, SeptaVM_proofs, Induction

-----------------------------------------------------------------------------
(* Sequences of sequences.                                                 *)

\* F[i] is the first i sequences, one after the other.
Accumulates(ss, F) ==
    F = [i \in 1 .. Len(ss) |-> IF i = 1 THEN ss[i] ELSE F[i - 1] \o ss[i]]

\* FlattenSeq joins sequences one at a time, and what holds of each and is
\* kept by joining two holds of all of them joined.
LEMMA FlattenPrefixes ==
    ASSUME NEW G, NEW ss \in Seq(G), Len(ss) >= 1,
           \A s \in G, t \in G : s \o t \in G
    PROVE  \E F \in [1 .. Len(ss) -> G] :
              /\ F[1] = ss[1]
              /\ \A i \in 2 .. Len(ss) : F[i] = F[i - 1] \o ss[i]
              /\ FlattenSeq(ss) = F[Len(ss)]
<1> DEFINE n == Len(ss)
           h == [i \in 1 .. n |-> [s \in G |-> IF i = 1 THEN ss[i] ELSE s \o ss[i]]]
<1>1. n \in Nat /\ n >= 1 /\ ss[1] \in G /\ \A i \in 1 .. n : ss[i] \in G
  OBVIOUS
<1>2. h \in [1 .. n -> [G -> G]]
  BY <1>1
<1>3. \A i \in 1 .. n, s \in G : h[i][s] = IF i = 1 THEN ss[i] ELSE s \o ss[i]
  OBVIOUS
<1> HIDE DEF h
<1>4. PICK g \in [0 .. n -> G] : GeneratesTo(n, ss[1], h, g)
  BY <1>1, <1>2, FiniteRecursion
<1> DEFINE e == [i \in 1 .. n |-> g[i]]
<1>5. ASSUME NEW i \in 1 .. n PROVE g[i] = IF i = 1 THEN ss[i] ELSE g[i - 1] \o ss[i]
  <2>1. i \in 0 .. n /\ i # 0 /\ i - 1 \in 0 .. n
    BY <1>1
  <2>2. g[i] = h[i][g[i - 1]] /\ g[i - 1] \in G
    BY <2>1, <1>4 DEF GeneratesTo
  <2> QED
    BY <2>2, <1>3
<1>6. Accumulates(ss, e)
  <2>1. ASSUME NEW i \in 1 .. n PROVE e[i] = IF i = 1 THEN ss[i] ELSE e[i - 1] \o ss[i]
    <3>1. i # 1 => i - 1 \in 1 .. n
      BY <1>1
    <3> QED
      BY <3>1, <1>5
  <2>2. e = [i \in 1 .. n |-> e[i]]
    OBVIOUS
  <2> HIDE DEF e
  <2> QED
    BY <2>1, <2>2 DEF Accumulates
<1>7. PICK F : Accumulates(ss, F) /\ FlattenSeq(ss) = F[n]
  <2> DEFINE F == CHOOSE F : Accumulates(ss, F)
  <2>1. Accumulates(ss, F)
    <3> HIDE DEF e
    <3> QED
      BY <1>6
  <2>2. n # 0
    BY <1>1
  <2>3. FlattenSeq(ss) = F[n]
    BY <2>2 DEF FlattenSeq, Accumulates
  <2> HIDE DEF F
  <2> QED
    BY <2>1, <2>3
<1>8. F[1] = ss[1] /\ \A i \in 2 .. n : F[i] = F[i - 1] \o ss[i]
  BY <1>1, <1>7 DEF Accumulates
<1> DEFINE S == {i \in Nat : i \in 1 .. n => F[i] \in G}
<1>9. Nat \subseteq S
  <2>1. 0 \in S
    OBVIOUS
  <2>2. ASSUME NEW i \in Nat, i \in S PROVE i + 1 \in S
    <3>1. CASE i + 1 = 1
      BY <3>1, <1>1, <1>8
    <3>2. CASE i + 1 \in 2 .. n
      <4>1. F[i + 1] = F[(i + 1) - 1] \o ss[i + 1]
        BY <3>2, <1>8
      <4>2. F[i] \in G /\ ss[i + 1] \in G /\ (i + 1) - 1 = i
        BY <3>2, <2>2, <1>1
      <4>3. F[i + 1] \in G
        BY <4>1, <4>2
      <4> QED
        BY <4>3
    <3>3. CASE i + 1 \notin 1 .. n
      BY <3>3
    <3>4. i + 1 = 1 \/ i + 1 \in 2 .. n \/ i + 1 \notin 1 .. n
      BY <1>1
    <3> QED
      BY <3>1, <3>2, <3>3, <3>4
  <2> HIDE DEF S
  <2> QED
    BY <2>1, <2>2, SetInduction
<1>10. F \in [1 .. n -> G]
  <2>1. \A i \in 1 .. n : F[i] \in G
    BY <1>9, <1>1
  <2> QED
    BY <2>1, <1>7 DEF Accumulates
<1> QED
  BY <1>7, <1>8, <1>9

LEMMA FlattenIn ==
    ASSUME NEW G, NEW ss \in Seq(G), <<>> \in G,
           \A s \in G, t \in G : s \o t \in G
    PROVE  FlattenSeq(ss) \in G
<1>1. CASE Len(ss) = 0
  <2>1. ss = <<>>
    BY <1>1
  <2>2. FlattenSeq(ss) = ss
    BY <1>1 DEF FlattenSeq
  <2> QED
    BY <2>1, <2>2
<1>2. CASE Len(ss) # 0
  <2>1. Len(ss) >= 1 /\ Len(ss) \in 1 .. Len(ss)
    BY <1>2
  <2>2. PICK F \in [1 .. Len(ss) -> G] : FlattenSeq(ss) = F[Len(ss)]
    BY <2>1, FlattenPrefixes
  <2> QED
    BY <2>1, <2>2
<1> QED
  BY <1>1, <1>2

\* The last of several sequences ends what they are joined to.
LEMMA FlattenEnds ==
    ASSUME NEW S, NEW ss \in Seq(Seq(S)), Len(ss) >= 1
    PROVE  /\ FlattenSeq(ss) \in Seq(S)
           /\ \E t \in Seq(S) : FlattenSeq(ss) = t \o ss[Len(ss)]
<1> DEFINE n == Len(ss)
           G == Seq(S)
<1>1. n \in Nat /\ n >= 1 /\ ss[n] \in Seq(S) /\ n \in 1 .. n
  OBVIOUS
<1>2. PICK F \in [1 .. n -> G] : /\ F[1] = ss[1]
                                 /\ \A i \in 2 .. n : F[i] = F[i - 1] \o ss[i]
                                 /\ FlattenSeq(ss) = F[n]
  <2>1. \A s \in G, t \in G : s \o t \in G
    OBVIOUS
  <2> HIDE DEF G
  <2>2. ss \in Seq(G)
    BY DEF G
  <2> QED
    BY <2>1, <2>2, FlattenPrefixes
<1>3. CASE n = 1
  <2>1. FlattenSeq(ss) = <<>> \o ss[n] /\ <<>> \in Seq(S)
    BY <1>1, <1>2, <1>3
  <2> QED
    BY <2>1, <1>1, <1>2
<1>4. CASE n # 1
  <2>1. n \in 2 .. n /\ n - 1 \in 1 .. n
    <3> HIDE DEF n
    <3>1. n >= 2
      <4>1. n \in Nat /\ n >= 1 /\ n # 1
        BY <1>1, <1>4
      <4> QED
        BY <4>1
    <3> QED
      BY <3>1, <1>1
  <2>2. F[n - 1] \in Seq(S) /\ FlattenSeq(ss) = F[n - 1] \o ss[n]
    BY <2>1, <1>2
  <2> QED
    BY <2>2, <1>1, <1>2
<1> QED
  BY <1>3, <1>4

-----------------------------------------------------------------------------
(* Where the slots are.                                                    *)

LEMMA Lengths ==
    ASSUME NEW p, WellFormed(p)
    PROVE  /\ Len(p.globals) \in Nat /\ DOMAIN p.globals = 1 .. Len(p.globals)
           /\ Len(p.functions) \in Nat /\ DOMAIN p.functions = 1 .. Len(p.functions)
           /\ \A f \in 1 .. Len(p.functions) :
                 p.functions[f] \in IRFunctions /\ EndsWithReturn(p.functions[f].body)
<1> DEFINE G == [slot : STRING, init : Int]
<1>1. /\ p.globals \in Seq(G) /\ p.functions \in Seq(IRFunctions)
      /\ \A f \in DOMAIN p.functions : EndsWithReturn(p.functions[f].body)
  BY Zenon DEF WellFormed
<1> HIDE DEF G
<1>2. Len(p.globals) \in Nat /\ DOMAIN p.globals = 1 .. Len(p.globals)
  BY <1>1
<1>3. /\ Len(p.functions) \in Nat /\ DOMAIN p.functions = 1 .. Len(p.functions)
      /\ \A f \in 1 .. Len(p.functions) : p.functions[f] \in IRFunctions
  BY <1>1
<1> QED
  BY <1>1, <1>2, <1>3

LEMMA BlockIsSequence ==
    ASSUME NEW function \in IRFunctions
    PROVE  Len(Block(function)) \in Nat /\ DOMAIN Block(function) = 1 .. Len(Block(function))
<1> DEFINE temps == [n \in 1 .. function.temps |-> TempSlot(n - 1)]
           S == STRING \cup {temps[n] : n \in 1 .. function.temps}
<1>1. /\ function.params \in Seq(STRING) /\ function.locals \in Seq(STRING)
      /\ function.temps \in Nat
  BY DEF IRFunctions
<1>2. Block(function) = function.params \o function.locals \o temps
  BY DEF Block
<1>3. temps = [n \in 1 .. function.temps |-> temps[n]]
  OBVIOUS
<1> HIDE DEF temps
<1>4. temps \in Seq(S)
  <2>1. \A n \in 1 .. function.temps : temps[n] \in S
    OBVIOUS
  <2> HIDE DEF S
  <2>2. temps \in [1 .. function.temps -> S]
    BY <1>3, <2>1
  <2> QED
    BY <1>1, <2>2
<1>5. function.params \in Seq(S) /\ function.locals \in Seq(S)
  BY <1>1
<1> HIDE DEF S
<1>6. function.params \o function.locals \o temps \in Seq(S)
  BY <1>4, <1>5
<1>7. Block(function) \in Seq(S)
  BY <1>2, <1>6
<1> QED
  BY <1>7

\* The cursor goes from the globals up by one block at a time.
LEMMA CursorSteps ==
    ASSUME NEW p, WellFormed(p)
    PROVE  /\ Cursor(p) \in [0 .. Len(p.functions) -> Nat]
           /\ Cursor(p)[0] = DataBase + Len(p.globals)
           /\ \A f \in 1 .. Len(p.functions) :
                 Cursor(p)[f] = Cursor(p)[f - 1] + Len(Block(p.functions[f]))
<1> DEFINE n == Len(p.functions)
           a == DataBase + Len(p.globals)
           l(f) == Len(Block(p.functions[f]))
           IsLoop(C) == C = [f \in 0 .. n |-> IF f = 0 THEN a ELSE C[f - 1] + l(f)]
           h == [f \in 1 .. n |-> [m \in Nat |-> m + l(f)]]
<1>1. n \in Nat /\ a \in Nat /\ \A f \in 1 .. n : l(f) \in Nat
  <2>2. n \in Nat /\ \A f \in 1 .. n : p.functions[f] \in IRFunctions
    BY Lengths
  <2>3. Len(p.globals) \in Nat
    BY Lengths
  <2>4. a \in Nat
    BY <2>3, AddressMapAssumption
  <2> HIDE DEF n, a
  <2> QED
    BY <2>2, <2>4, BlockIsSequence
<1>2. h \in [1 .. n -> [Nat -> Nat]] /\ \A f \in 1 .. n, m \in Nat : h[f][m] = m + l(f)
  <2> HIDE DEF n, l
  <2> QED
    BY <1>1
<1> HIDE DEF h, l, a, n
<1>3. PICK g \in [0 .. n -> Nat] : GeneratesTo(n, a, h, g)
  BY <1>1, <1>2, FiniteRecursion
<1>4. g[0] = a /\ \A f \in 1 .. n : g[f] = g[f - 1] + l(f)
  <2>1. ASSUME NEW f \in 1 .. n PROVE g[f] = g[f - 1] + l(f)
    <3>1. f - 1 \in 0 .. n
      BY <1>1
    <3>2. g[f] = h[f][g[f - 1]] /\ g[f - 1] \in Nat
      BY <3>1, <1>3 DEF GeneratesTo
    <3> QED
      BY <3>2, <1>2
  <2> QED
    BY <2>1, <1>3 DEF GeneratesTo
<1>5. IsLoop(g)
  <2>1. ASSUME NEW f \in 0 .. n PROVE g[f] = IF f = 0 THEN a ELSE g[f - 1] + l(f)
    <3>1. f = 0 \/ f \in 1 .. n
      BY <1>1
    <3> QED
      BY <3>1, <1>4
  <2> QED
    BY <2>1
<1> DEFINE C == Cursor(p)
<1>6. IsLoop(C)
  <2>1. \E f : IsLoop(f)
    BY <1>5
  <2> QED
    BY <2>1 DEF Cursor, n, a, l
<1> HIDE DEF C
<1>7. C[0] = a /\ \A f \in 1 .. n : C[f] = C[f - 1] + l(f)
  <2>1. ASSUME NEW f \in 0 .. n PROVE C[f] = IF f = 0 THEN a ELSE C[f - 1] + l(f)
    BY <1>6
  <2>2. 0 \in 0 .. n /\ \A f \in 1 .. n : f \in 0 .. n /\ f # 0
    BY <1>1
  <2> QED
    BY <2>1, <2>2
<1> DEFINE T == {f \in Nat : f \in 0 .. n => C[f] \in Nat}
<1>8. Nat \subseteq T
  <2>1. 0 \in T
    BY <1>1, <1>7
  <2>2. ASSUME NEW f \in Nat, f \in T PROVE f + 1 \in T
    <3>1. SUFFICES ASSUME f + 1 \in 0 .. n PROVE C[f + 1] \in Nat
      OBVIOUS
    <3>2. f + 1 \in 1 .. n /\ f \in 0 .. n /\ (f + 1) - 1 = f
      BY <3>1, <1>1
    <3>3. C[f] \in Nat /\ l(f + 1) \in Nat
      BY <2>2, <3>2, <1>1
    <3> QED
      BY <3>2, <3>3, <1>7
  <2> HIDE DEF T
  <2> QED
    BY <2>1, <2>2, SetInduction
<1>9. C \in [0 .. n -> Nat]
  <2>1. \A f \in 0 .. n : C[f] \in Nat
    BY <1>8, <1>1
  <2> QED
    BY <2>1, <1>6
<1> QED
  BY <1>7, <1>9 DEF C, n, a, l

LEMMA CursorGrows ==
    ASSUME NEW p, WellFormed(p),
           NEW e \in 0 .. Len(p.functions), NEW f \in 0 .. Len(p.functions), e <= f
    PROVE  Cursor(p)[e] <= Cursor(p)[f]
<1> DEFINE n == Len(p.functions)
           C == Cursor(p)
           T == {d \in Nat : e + d \in 0 .. n => C[e] <= C[e + d]}
<1>1. n \in Nat
  BY Lengths
<1>2. /\ C \in [0 .. n -> Nat]
      /\ \A k \in 1 .. n : C[k] = C[k - 1] + Len(Block(p.functions[k]))
  BY CursorSteps
<1>3. \A k \in 1 .. n : Len(Block(p.functions[k])) \in Nat
  <2>1. \A k \in 1 .. n : p.functions[k] \in IRFunctions
    BY Lengths
  <2> QED
    BY <2>1, BlockIsSequence
<1>4. e \in 0 .. n /\ f \in 0 .. n
  OBVIOUS
<1> HIDE DEF n, C
<1>5. Nat \subseteq T
  <2>1. 0 \in T
    <3>1. C[e] \in Nat /\ e + 0 = e
      BY <1>2, <1>4
    <3> QED
      BY <3>1
  <2>2. ASSUME NEW d \in Nat, d \in T PROVE d + 1 \in T
    <3>1. SUFFICES ASSUME e + (d + 1) \in 0 .. n PROVE C[e] <= C[e + (d + 1)]
      OBVIOUS
    <3>2. e + (d + 1) \in 1 .. n /\ e + d \in 0 .. n /\ (e + (d + 1)) - 1 = e + d
      BY <3>1, <1>1, <1>4
    <3>3. C[e] <= C[e + d] /\ C[e] \in Nat /\ C[e + d] \in Nat
      BY <2>2, <3>2, <1>2, <1>4
    <3>4. C[e + (d + 1)] = C[e + d] + Len(Block(p.functions[e + (d + 1)]))
      BY <3>2, <1>2
    <3>5. Len(Block(p.functions[e + (d + 1)])) \in Nat
      BY <3>2, <1>3
    <3> QED
      BY <3>3, <3>4, <3>5
  <2> HIDE DEF T
  <2> QED
    BY <2>1, <2>2, SetInduction
<1>6. f - e \in Nat /\ e + (f - e) = f
  BY <1>1, <1>4
<1>7. C[e] <= C[e + (f - e)]
  BY <1>4, <1>5, <1>6
<1> QED
  BY <1>6, <1>7 DEF C

\* The last place of a slot in a sequence that has it.
LEMMA LastIndexFound ==
    ASSUME NEW seq, NEW m \in Nat, DOMAIN seq = 1 .. m, NEW slot,
           \E k \in DOMAIN seq : seq[k] = slot
    PROVE  /\ LastIndex(seq, slot) \in 1 .. m /\ seq[LastIndex(seq, slot)] = slot
           /\ \A k \in 1 .. m : seq[k] = slot => k <= LastIndex(seq, slot)
<1> DEFINE K == {k \in DOMAIN seq : seq[k] = slot}
<1>1. K \in SUBSET Nat /\ K # {} /\ \A k \in K : k <= m
  OBVIOUS
<1>2. PICK x \in K : \A y \in K : y <= x
  <2> HIDE DEF K
  <2> QED
    BY <1>1, NatMaximum
<1>3. x \in K /\ \A y \in K : x >= y
  BY <1>1, <1>2
<1>4. LastIndex(seq, slot) \in K /\ \A y \in K : LastIndex(seq, slot) >= y
  BY <1>3 DEF LastIndex, Max
<1>5. \A k \in 1 .. m : seq[k] = slot => k <= LastIndex(seq, slot)
  BY <1>4
<1> QED
  BY <1>4, <1>5

\* A function's own slot is in its block, a global below the blocks.
LEMMA GlobalAddress ==
    ASSUME NEW p, WellFormed(p), NEW f, NEW slot \in GlobalSlots(p)
    PROVE  /\ SlotAddress(p, f, slot) \in Int
           /\ DataBase <= SlotAddress(p, f, slot)
           /\ SlotAddress(p, f, slot) < Cursor(p)[0]
           /\ p.globals[SlotAddress(p, f, slot) - DataBase + 1].slot = slot
<1> DEFINE m == Len(p.globals)
           names == [k \in DOMAIN p.globals |-> p.globals[k].slot]
           x == LastIndex(names, slot)
<1>1. m \in Nat /\ DOMAIN p.globals = 1 .. m /\ DOMAIN names = 1 .. m
  <2>1. m \in Nat /\ DOMAIN p.globals = 1 .. m
    BY Lengths
  <2> QED
    BY <2>1
<1>2. \E k \in DOMAIN names : names[k] = slot
  BY DEF GlobalSlots
<1>3. \A k \in 1 .. m : names[k] = p.globals[k].slot
  BY <1>1
<1>4. SlotAddress(p, f, slot) = DataBase - 1 + x
  BY DEF SlotAddress
<1>5. Cursor(p)[0] = DataBase + m
  BY CursorSteps
<1> HIDE DEF names, m
<1>6. x \in 1 .. m /\ names[x] = slot
  BY <1>1, <1>2, LastIndexFound
<1> HIDE DEF x
<1>7. DataBase - 1 + x \in Int /\ DataBase <= DataBase - 1 + x /\ DataBase - 1 + x < DataBase + m
  BY <1>1, <1>6, AddressMapAssumption
<1>8. DataBase - 1 + x - DataBase + 1 = x
  BY <1>1, <1>6, AddressMapAssumption
<1>9. p.globals[x].slot = slot
  BY <1>3, <1>6
<1> DEFINE s == SlotAddress(p, f, slot)
<1> HIDE DEF s
<1>10. s = DataBase - 1 + x
  BY <1>4 DEF s
<1>11. s \in Int /\ DataBase <= s /\ s < Cursor(p)[0] /\ s - DataBase + 1 = x
  BY <1>1, <1>5, <1>6, <1>10, AddressMapAssumption
<1> QED
  BY <1>9, <1>11 DEF s

LEMMA BlockAddress ==
    ASSUME NEW p, WellFormed(p), NEW f \in 1 .. Len(p.functions),
           NEW slot, slot \notin GlobalSlots(p),
           \E k \in DOMAIN Block(p.functions[f]) : Block(p.functions[f])[k] = slot
    PROVE  /\ SlotAddress(p, f, slot) \in Int
           /\ Cursor(p)[f - 1] <= SlotAddress(p, f, slot)
           /\ SlotAddress(p, f, slot) < Cursor(p)[f]
           /\ Block(p.functions[f])[SlotAddress(p, f, slot) - Cursor(p)[f - 1] + 1] = slot
<1> DEFINE block == Block(p.functions[f])
           m == Len(block)
           x == LastIndex(block, slot)
           c == Cursor(p)[f - 1]
<1>1. p.functions[f] \in IRFunctions /\ Len(p.functions) \in Nat
  BY Lengths
<1>2. m \in Nat /\ DOMAIN block = 1 .. m
  BY <1>1, BlockIsSequence
<1>3. Cursor(p)[f] = c + m /\ c \in Nat
  <2>1. f - 1 \in 0 .. Len(p.functions)
    BY <1>1
  <2> QED
    BY <2>1, CursorSteps
<1>4. SlotAddress(p, f, slot) = c - 1 + x
  BY DEF SlotAddress, BlockStart
<1> HIDE DEF block, m, c
<1>5. x \in 1 .. m /\ block[x] = slot
  BY <1>2, LastIndexFound DEF block
<1> HIDE DEF x
<1>6. c - 1 + x \in Int /\ c <= c - 1 + x /\ c - 1 + x < c + m /\ c - 1 + x - c + 1 = x
  BY <1>2, <1>3, <1>5
<1>7. SlotAddress(p, f, slot) - c + 1 = x
  <2>1. PICK a : a = SlotAddress(p, f, slot)
    OBVIOUS
  <2>2. a - c + 1 = x
    <3>1. a = c - 1 + x
      BY <1>4, <2>1
    <3> QED
      BY <1>2, <1>3, <1>5, <3>1
  <2> QED
    BY <2>1, <2>2
<1>8. block[SlotAddress(p, f, slot) - c + 1] = slot
  BY <1>5, <1>7
<1> QED
  BY <1>3, <1>4, <1>6, <1>8 DEF block, c

\* No slot is at or above the first free address.
LEMMA SlotsBelowNextFree ==
    ASSUME NEW p, WellFormed(p), NEW f \in 0 .. Len(p.functions), NEW slot,
           IF f = 0 THEN slot \in GlobalSlots(p) ELSE slot \in SlotsOf(p, f)
    PROVE  /\ SlotAddress(p, f, slot) \in Int
           /\ DataBase <= SlotAddress(p, f, slot)
           /\ SlotAddress(p, f, slot) < NextFree(p)
<1> DEFINE n == Len(p.functions)
           C == Cursor(p)
           s == SlotAddress(p, f, slot)
<1>1. n \in Nat
  BY Lengths
<1>2. /\ C \in [0 .. n -> Nat] /\ C[0] = DataBase + Len(p.globals)
      /\ Len(p.globals) \in Nat
  BY CursorSteps, Lengths
<1>3. NextFree(p) = C[n] /\ C[n] \in Nat /\ C[0] \in Nat
  BY <1>1, <1>2 DEF NextFree
<1>4. CASE slot \in GlobalSlots(p)
  <2>1. s \in Int /\ DataBase <= s /\ s < C[0]
    BY <1>4, GlobalAddress
  <2>2. C[0] <= C[n]
    BY <1>1, CursorGrows
  <2> HIDE DEF s, C
  <2> QED
    BY <1>3, <2>1, <2>2 DEF s
<1>5. CASE slot \notin GlobalSlots(p)
  <2>1. f \in 1 .. n /\ slot \in SlotsOf(p, f)
    BY <1>1, <1>5
  <2>2. \E k \in DOMAIN Block(p.functions[f]) : Block(p.functions[f])[k] = slot
    BY <1>5, <2>1 DEF SlotsOf
  <2>3. s \in Int /\ C[f - 1] <= s /\ s < C[f]
    BY <1>5, <2>1, <2>2, BlockAddress
  <2>4. f - 1 \in 0 .. n /\ n \in 0 .. n /\ 0 \in 0 .. n /\ 0 <= f - 1 /\ f <= n /\ f \in 0 .. n
    BY <1>1, <2>1
  <2>5. C[0] <= C[f - 1] /\ C[f] <= C[n]
    BY <2>4, CursorGrows
  <2>6. C[f - 1] \in Nat /\ C[f] \in Nat
    BY <1>2, <2>4
  <2> HIDE DEF s, C
  <2>7. DataBase <= s /\ s < C[n]
    BY <1>2, <1>3, <2>3, <2>5, <2>6, AddressMapAssumption
  <2> QED
    BY <1>3, <2>3, <2>7 DEF s
<1> QED
  BY <1>4, <1>5

\* What a slot name is: a global, or a slot of a function's block.
LEMMA SlotNameCases ==
    ASSUME NEW p, WellFormed(p), NEW x \in SlotNames(p)
    PROVE  /\ x = <<x[1], x[2]>>
           /\ \/ x[1] = 0 /\ x[2] \in GlobalSlots(p)
              \/ /\ x[1] \in 1 .. Len(p.functions)
                 /\ x[2] \notin GlobalSlots(p)
                 /\ \E k \in DOMAIN Block(p.functions[x[1]]) : Block(p.functions[x[1]])[k] = x[2]
<1>1. CASE x \in {0} \X GlobalSlots(p)
  BY <1>1
<1>2. CASE x \notin {0} \X GlobalSlots(p)
  <2>1. PICK f \in DOMAIN p.functions :
           x \in {<<f, Block(p.functions[f])[k]>> : k \in DOMAIN Block(p.functions[f])}
    BY <1>2 DEF SlotNames
  <2>2. PICK k \in DOMAIN Block(p.functions[f]) : x = <<f, Block(p.functions[f])[k]>>
    BY <2>1
  <2>3. Block(p.functions[f])[k] \notin GlobalSlots(p)
    BY DEF WellFormed
  <2>4. f \in 1 .. Len(p.functions)
    BY Lengths
  <2>5. x[1] = f /\ x[2] = Block(p.functions[f])[k]
    BY <2>2
  <2> QED
    BY <2>2, <2>3, <2>4, <2>5
<1> QED
  BY <1>1, <1>2

\* No two slots share a cell: neither those of one function, nor those of two
\* functions, nor a function's and a global (allocate, codegen/addresses.py).
THEOREM SlotsAreDistinct ==
    ASSUME NEW p, WellFormed(p), NEW x \in SlotNames(p), NEW y \in SlotNames(p),
           SlotAddress(p, x[1], x[2]) = SlotAddress(p, y[1], y[2])
    PROVE  x = y
<1> DEFINE n == Len(p.functions)
           C == Cursor(p)
           s == SlotAddress(p, x[1], x[2])
           Global(z) == z[1] = 0 /\ z[2] \in GlobalSlots(p)
           Own(z) == /\ z[1] \in 1 .. n
                     /\ z[2] \notin GlobalSlots(p)
                     /\ \E k \in DOMAIN Block(p.functions[z[1]]) :
                           Block(p.functions[z[1]])[k] = z[2]
<1>1. n \in Nat /\ C \in [0 .. n -> Nat]
  BY Lengths, CursorSteps
<1>2. /\ x = <<x[1], x[2]>> /\ y = <<y[1], y[2]>>
      /\ Global(x) \/ Own(x)
      /\ Global(y) \/ Own(y)
  BY SlotNameCases
<1>3. ASSUME NEW z \in SlotNames(p), Global(z), SlotAddress(p, z[1], z[2]) = s
      PROVE  s \in Int /\ s < C[0] /\ p.globals[s - DataBase + 1].slot = z[2]
  BY <1>3, GlobalAddress
<1>4. ASSUME NEW z \in SlotNames(p), Own(z), SlotAddress(p, z[1], z[2]) = s
      PROVE  /\ s \in Int /\ C[z[1] - 1] <= s /\ s < C[z[1]]
             /\ Block(p.functions[z[1]])[s - C[z[1] - 1] + 1] = z[2]
  <2>1. PICK f : f = z[1]
    OBVIOUS
  <2>2. PICK slot : slot = z[2]
    OBVIOUS
  <2>3. f \in 1 .. n /\ slot \notin GlobalSlots(p) /\ SlotAddress(p, f, slot) = s
    BY <1>4, <2>1, <2>2
  <2>4. \E k \in DOMAIN Block(p.functions[f]) : Block(p.functions[f])[k] = slot
    BY <1>4, <2>1, <2>2
  <2> HIDE DEF s
  <2>5. /\ s \in Int /\ C[f - 1] <= s /\ s < C[f]
        /\ Block(p.functions[f])[s - C[f - 1] + 1] = slot
    BY <2>3, <2>4, BlockAddress
  <2> QED
    BY <2>1, <2>2, <2>5
<1>5. s = SlotAddress(p, x[1], x[2]) /\ s = SlotAddress(p, y[1], y[2])
  OBVIOUS
<1> HIDE DEF s, C, n
<1>6. \A e, f \in 0 .. n : e <= f => C[e] <= C[f]
  BY CursorGrows DEF n, C
<1>7. ASSUME NEW u \in SlotNames(p), NEW v \in SlotNames(p), Global(u), Own(v),
             SlotAddress(p, u[1], u[2]) = s, SlotAddress(p, v[1], v[2]) = s
      PROVE  FALSE
  <2>1. s \in Int /\ s < C[0]
    BY <1>3, <1>7
  <2>2. C[v[1] - 1] <= s /\ v[1] \in 1 .. n
    BY <1>4, <1>7
  <2>3. v[1] - 1 \in 0 .. n /\ 0 \in 0 .. n /\ 0 <= v[1] - 1
    BY <1>1, <2>2
  <2>4. C[0] <= C[v[1] - 1] /\ C[0] \in Nat /\ C[v[1] - 1] \in Nat
    BY <1>1, <1>6, <2>3
  <2> QED
    BY <2>1, <2>2, <2>4
<1>8. ASSUME NEW u \in SlotNames(p), NEW v \in SlotNames(p), Own(u), Own(v), u[1] < v[1],
             SlotAddress(p, u[1], u[2]) = s, SlotAddress(p, v[1], v[2]) = s
      PROVE  FALSE
  <2>1. s \in Int /\ s < C[u[1]] /\ u[1] \in 1 .. n
    BY <1>4, <1>8
  <2>2. C[v[1] - 1] <= s /\ v[1] \in 1 .. n
    BY <1>4, <1>8
  <2>3. v[1] - 1 \in 0 .. n /\ u[1] \in 0 .. n /\ u[1] <= v[1] - 1
    BY <1>1, <1>8, <2>1, <2>2
  <2>4. C[u[1]] <= C[v[1] - 1] /\ C[u[1]] \in Nat /\ C[v[1] - 1] \in Nat
    BY <1>1, <1>6, <2>3
  <2> QED
    BY <2>1, <2>2, <2>4
<1>9. CASE Global(x) /\ Global(y)
  <2>1. x[2] = y[2]
    BY <1>3, <1>5, <1>9
  <2> QED
    BY <1>2, <1>9, <2>1
<1>10. CASE Own(x) /\ Own(y)
  <2>1. x[1] \in Int /\ y[1] \in Int
    BY <1>10
  <2>2. ~ (x[1] < y[1]) /\ ~ (y[1] < x[1])
    BY <1>5, <1>8, <1>10
  <2>3. x[1] = y[1]
    BY <2>1, <2>2
  <2>4. x[2] = y[2]
    BY <1>4, <1>5, <1>10, <2>3
  <2> QED
    BY <1>2, <2>3, <2>4
<1> QED
  BY <1>2, <1>5, <1>7, <1>9, <1>10

-----------------------------------------------------------------------------
(* The first pass of the assembler.                                        *)

\* The loop of pass 1, line by line.
LEMMA InstrLinesStep ==
    ASSUME NEW L, NEW lines \in Seq(L)
    PROVE  /\ InstrLines(lines) \in [0 .. Len(lines) -> Seq(1 .. Len(lines))]
           /\ InstrLines(lines)[0] = <<>>
           /\ \A k \in 1 .. Len(lines) :
                 InstrLines(lines)[k] =
                    IF lines[k].kind = "instr" THEN Append(InstrLines(lines)[k - 1], k)
                    ELSE InstrLines(lines)[k - 1]
<1> DEFINE n == Len(lines)
           S == Seq(1 .. n)
           IsLoop(f) == f = [k \in 0 .. n |->
              IF k = 0 THEN <<>>
              ELSE IF lines[k].kind = "instr" THEN Append(f[k - 1], k) ELSE f[k - 1]]
           h == [k \in 1 .. n |-> [s \in S |->
                   IF lines[k].kind = "instr" THEN Append(s, k) ELSE s]]
<1>1. n \in Nat /\ <<>> \in S
  OBVIOUS
<1>2. \A k \in 1 .. n, s \in S : Append(s, k) \in S
  <2> HIDE DEF n
  <2> QED
    BY <1>1
<1>3. h \in [1 .. n -> [S -> S]]
  <2> HIDE DEF S, n
  <2> QED
    BY <1>2
<1>4. \A k \in 1 .. n, s \in S :
         h[k][s] = IF lines[k].kind = "instr" THEN Append(s, k) ELSE s
  OBVIOUS
<1> DEFINE IsStep(f) == \A k \in 1 .. n :
              f[k] = IF lines[k].kind = "instr" THEN Append(f[k - 1], k) ELSE f[k - 1]
<1>5. PICK g \in [0 .. n -> S] : GeneratesTo(n, <<>>, h, g)
  <2> HIDE DEF h, S, n
  <2> QED
    BY <1>1, <1>3, FiniteRecursion
<1>6. g[0] = <<>> /\ IsStep(g)
  <2>1. ASSUME NEW k \in 1 .. n
        PROVE  g[k] = IF lines[k].kind = "instr" THEN Append(g[k - 1], k) ELSE g[k - 1]
    <3>1. k - 1 \in 0 .. n
      BY <1>1
    <3>2. g[k] = h[k][g[k - 1]] /\ g[k - 1] \in S
      BY <3>1, <1>5 DEF GeneratesTo
    <3> HIDE DEF h
    <3> QED
      BY <3>2, <1>4
  <2> QED
    BY <2>1, <1>5 DEF GeneratesTo
<1>7. IsLoop(g)
  <2>1. ASSUME NEW k \in 0 .. n
        PROVE  g[k] = IF k = 0 THEN <<>>
                      ELSE IF lines[k].kind = "instr" THEN Append(g[k - 1], k) ELSE g[k - 1]
    <3>1. k = 0 \/ k \in 1 .. n
      BY <1>1
    <3> QED
      BY <3>1, <1>6
  <2> QED
    BY <2>1
<1>8. IsLoop(InstrLines(lines))
  <2>1. \E f : IsLoop(f)
    BY <1>7
  <2> QED
    BY <2>1 DEF InstrLines
<1> DEFINE I == InstrLines(lines)
<1> HIDE DEF I
<1>9. I[0] = <<>> /\ IsStep(I)
  <2>1. ASSUME NEW k \in 1 .. n
        PROVE  I[k] = IF lines[k].kind = "instr" THEN Append(I[k - 1], k) ELSE I[k - 1]
    <3>1. k \in 0 .. n /\ k # 0
      BY <1>1
    <3> QED
      BY <3>1, <1>8 DEF I
  <2>2. I[0] = <<>>
    <3>1. 0 \in 0 .. n
      BY <1>1
    <3> QED
      BY <3>1, <1>8 DEF I
  <2> QED
    BY <2>1, <2>2
<1> DEFINE T == {k \in Nat : k \in 0 .. n => I[k] \in S}
<1>10. Nat \subseteq T
  <2>1. 0 \in T
    BY <1>1, <1>9
  <2>2. ASSUME NEW k \in Nat, k \in T PROVE k + 1 \in T
    <3>1. SUFFICES ASSUME k + 1 \in 0 .. n PROVE I[k + 1] \in S
      OBVIOUS
    <3>2. k + 1 \in 1 .. n /\ k \in 0 .. n /\ (k + 1) - 1 = k
      BY <3>1, <1>1
    <3>3. I[k] \in S
      BY <2>2, <3>2
    <3>4. I[k + 1] = IF lines[k + 1].kind = "instr" THEN Append(I[k], k + 1) ELSE I[k]
      BY <3>2, <1>9
    <3>5. Append(I[k], k + 1) \in S
      BY <3>2, <3>3, <1>2
    <3> HIDE DEF S
    <3> QED
      BY <3>3, <3>4, <3>5
  <2> HIDE DEF T
  <2> QED
    BY <2>1, <2>2, SetInduction
<1>11. I \in [0 .. n -> S]
  <2>1. \A k \in 0 .. n : I[k] \in S
    BY <1>10, <1>1
  <2> QED
    BY <2>1, <1>8 DEF I
<1> HIDE DEF S
<1>12. I \in [0 .. n -> S] /\ I[0] = <<>> /\ IsStep(I)
  BY <1>9, <1>11
<1> QED
  BY <1>12 DEF S, I

\* The instruction lines are found in order: the one found in line k is the
\* last of those in the first k lines.
LEMMA InstrLinesFound ==
    ASSUME NEW L, NEW lines \in Seq(L)
    PROVE  LET I == InstrLines(lines)
               N == I[Len(lines)]
           IN  /\ \A q \in DOMAIN N : /\ N[q] \in 1 .. Len(lines)
                                      /\ lines[N[q]].kind = "instr"
                                      /\ Len(I[N[q]]) = q
               /\ \A k \in 1 .. Len(lines) : lines[k].kind = "instr" =>
                     Len(I[k]) \in DOMAIN N /\ N[Len(I[k])] = k
<1> DEFINE n == Len(lines)
           I == InstrLines(lines)
           Instr(k) == lines[k].kind = "instr"
           Found(m) == \A q \in DOMAIN I[m] : /\ I[m][q] \in 1 .. m
                                              /\ Instr(I[m][q])
                                              /\ Len(I[I[m][q]]) = q
           Listed(m) == \A k \in 1 .. m : Instr(k) =>
                           Len(I[k]) \in DOMAIN I[m] /\ I[m][Len(I[k])] = k
           T == {m \in Nat : m \in 0 .. n => Found(m) /\ Listed(m)}
<1>1. n \in Nat
  OBVIOUS
<1>2. /\ I \in [0 .. n -> Seq(1 .. n)]
      /\ I[0] = <<>>
      /\ \A k \in 1 .. n : I[k] = IF Instr(k) THEN Append(I[k - 1], k) ELSE I[k - 1]
  BY InstrLinesStep
<1> HIDE DEF I, Instr, n
<1>3. 0 \in T
  <2>1. DOMAIN I[0] = {} /\ 1 .. 0 = {}
    BY <1>2
  <2> QED
    BY <2>1
<1>4. ASSUME NEW m \in Nat, m \in T PROVE m + 1 \in T
  <2>1. SUFFICES ASSUME m + 1 \in 0 .. n PROVE Found(m + 1) /\ Listed(m + 1)
    OBVIOUS
  <2>2. m + 1 \in 1 .. n /\ m \in 0 .. n /\ (m + 1) - 1 = m
    BY <2>1, <1>1
  <2>3. Found(m) /\ Listed(m)
    BY <1>4, <2>2
  <2>4. I[m] \in Seq(1 .. n) /\ I[m + 1] = IF Instr(m + 1) THEN Append(I[m], m + 1) ELSE I[m]
    BY <2>2, <1>2
  <2>5. CASE Instr(m + 1)
    <3> DEFINE s == I[m]
               t == I[m + 1]
               l == Len(s)
    <3>1. /\ l \in Nat /\ DOMAIN s = 1 .. l
          /\ Len(t) = l + 1 /\ DOMAIN t = 1 .. l + 1
          /\ t[l + 1] = m + 1
          /\ \A q \in 1 .. l : t[q] = s[q]
      <4>1. s \in Seq(1 .. n) /\ m + 1 \in 1 .. n /\ t = Append(s, m + 1)
        BY <2>2, <2>4, <2>5
      <4> HIDE DEF s, t
      <4> QED
        BY <4>1, <1>1
    <3> HIDE DEF l
    <3>2. Found(m + 1)
      <4> SUFFICES ASSUME NEW q \in 1 .. l + 1
                   PROVE  t[q] \in 1 .. m + 1 /\ Instr(t[q]) /\ Len(I[t[q]]) = q
        BY <3>1
      <4>1. CASE q = l + 1
        BY <4>1, <3>1, <2>5
      <4>2. CASE q # l + 1
        <5>1. q \in 1 .. l
          BY <4>2, <3>1
        <5>2. t[q] = s[q] /\ s[q] \in 1 .. m /\ Instr(s[q]) /\ Len(I[s[q]]) = q
          BY <5>1, <3>1, <2>3
        <5> QED
          BY <5>2
      <4> QED
        BY <4>1, <4>2
    <3>3. Listed(m + 1)
      <4> SUFFICES ASSUME NEW k \in 1 .. m + 1, Instr(k)
                   PROVE  Len(I[k]) \in 1 .. l + 1 /\ t[Len(I[k])] = k
        BY <3>1
      <4>1. CASE k = m + 1
        BY <4>1, <3>1
      <4>2. CASE k # m + 1
        <5>1. k \in 1 .. m
          BY <4>2
        <5>2. Len(I[k]) \in 1 .. l /\ s[Len(I[k])] = k
          BY <5>1, <3>1, <2>3
        <5>3. Len(I[k]) \in 1 .. l + 1 /\ t[Len(I[k])] = k
          BY <5>2, <3>1
        <5> QED
          BY <5>3
      <4> QED
        BY <4>1, <4>2
    <3> QED
      BY <3>2, <3>3
  <2>6. CASE ~ Instr(m + 1)
    <3>1. I[m + 1] = I[m]
      BY <2>6, <2>4
    <3>2. Found(m + 1)
      <4>1. \A x \in 1 .. m : x \in 1 .. m + 1
        OBVIOUS
      <4> QED
        BY <3>1, <4>1, <2>3
    <3>3. Listed(m + 1)
      <4>1. \A k \in 1 .. m + 1 : Instr(k) => k \in 1 .. m
        <5>1. \A k \in 1 .. m + 1 : k \in 1 .. m \/ k = m + 1
          OBVIOUS
        <5> QED
          BY <5>1, <2>6
      <4> QED
        BY <3>1, <4>1, <2>3
    <3> QED
      BY <3>2, <3>3
  <2> QED
    BY <2>5, <2>6
<1>5. Found(n) /\ Listed(n)
  <2>1. Nat \subseteq T
    <3> HIDE DEF T
    <3> QED
      BY <1>3, <1>4, SetInduction
  <2>2. n \in T /\ n \in 0 .. n
    BY <2>1, <1>1
  <2> QED
    BY <2>2
<1> QED
  BY <1>5 DEF I, Instr, n

-----------------------------------------------------------------------------
(* Control.                                                                *)

\* After these control does not go on to the next line.
Stops(line) == line.kind = "instr" /\ line.op \in {"RET", "HALT"}

\* Control does not run out of a function, nor out of _init.
Enclosed(T) ==
    \A k \in DOMAIN T : ~ Stops(T[k].line) =>
        k + 1 \in DOMAIN T /\ T[k + 1].fn = T[k].fn

LEMMA LinesOf ==
    ASSUME NEW S, NEW T \in Seq(S)
    PROVE  /\ Lines(T) \in Seq({T[k].line : k \in DOMAIN T})
           /\ Len(Lines(T)) = Len(T)
           /\ \A k \in DOMAIN T : Lines(T)[k] = T[k].line
<1>1. Len(T) \in Nat /\ DOMAIN T = 1 .. Len(T)
  OBVIOUS
<1>2. Lines(T) \in [1 .. Len(T) -> {T[k].line : k \in DOMAIN T}]
  BY <1>1 DEF Lines
<1> QED
  BY <1>1, <1>2 DEF Lines

\* From a line that does not stop control comes to an instruction of the same
\* function.
LEMMA InstrFollows ==
    ASSUME NEW S, NEW T \in Seq(S), Enclosed(T),
           NEW k \in DOMAIN T, ~ Stops(T[k].line)
    PROVE  LET I == InstrLines(Lines(T))
               N == I[Len(T)]
               q == Len(I[k]) + 1
           IN  q \in DOMAIN N /\ T[N[q]].fn = T[k].fn
<1> DEFINE n == Len(T)
           I == InstrLines(Lines(T))
           N == I[n]
           Follows(j) == /\ Len(I[j]) + 1 \in DOMAIN N
                         /\ T[N[Len(I[j]) + 1]].fn = T[j].fn
           U == {j \in 1 .. n : ~ Stops(T[j].line) /\ ~ Follows(j)}
<1>1. n \in Nat /\ DOMAIN T = 1 .. n
  OBVIOUS
<1>2. \A j \in 1 .. n : Lines(T)[j] = T[j].line
  BY <1>1, LinesOf
<1>3. /\ \A q \in DOMAIN N : /\ N[q] \in 1 .. n
                             /\ T[N[q]].line.kind = "instr"
                             /\ Len(I[N[q]]) = q
      /\ \A j \in 1 .. n : T[j].line.kind = "instr" =>
            Len(I[j]) \in DOMAIN N /\ N[Len(I[j])] = j
  <2>1. Lines(T) \in Seq({T[j].line : j \in DOMAIN T}) /\ Len(Lines(T)) = n
    BY LinesOf
  <2>2. /\ \A q \in DOMAIN N : /\ N[q] \in 1 .. n
                               /\ Lines(T)[N[q]].kind = "instr"
                               /\ Len(I[N[q]]) = q
        /\ \A j \in 1 .. n : Lines(T)[j].kind = "instr" =>
              Len(I[j]) \in DOMAIN N /\ N[Len(I[j])] = j
    <3> DEFINE lines == Lines(T)
               L == {T[j].line : j \in DOMAIN T}
    <3>1. lines \in Seq(L) /\ Len(lines) = n
      BY <2>1
    <3> HIDE DEF lines, L, n
    <3>2. /\ \A q \in DOMAIN InstrLines(lines)[Len(lines)] :
                /\ InstrLines(lines)[Len(lines)][q] \in 1 .. Len(lines)
                /\ lines[InstrLines(lines)[Len(lines)][q]].kind = "instr"
                /\ Len(InstrLines(lines)[InstrLines(lines)[Len(lines)][q]]) = q
          /\ \A j \in 1 .. Len(lines) : lines[j].kind = "instr" =>
                /\ Len(InstrLines(lines)[j]) \in DOMAIN InstrLines(lines)[Len(lines)]
                /\ InstrLines(lines)[Len(lines)][Len(InstrLines(lines)[j])] = j
      BY <3>1, InstrLinesFound
    <3> QED
      BY <3>1, <3>2 DEF lines
  <2> HIDE DEF I, N, n
  <2> QED
    BY <2>2, <1>2
<1>4. \A j \in 1 .. n : /\ I[j - 1] \in Seq(1 .. n)
                        /\ I[j] = IF T[j].line.kind = "instr" THEN Append(I[j - 1], j) ELSE I[j - 1]
  <2>1. Lines(T) \in Seq({T[j].line : j \in DOMAIN T}) /\ Len(Lines(T)) = n
    BY LinesOf
  <2>2. /\ I \in [0 .. n -> Seq(1 .. n)]
        /\ \A j \in 1 .. n :
              I[j] = IF Lines(T)[j].kind = "instr" THEN Append(I[j - 1], j) ELSE I[j - 1]
    BY <2>1, InstrLinesStep
  <2> HIDE DEF I, n
  <2>3. \A j \in 1 .. n : j - 1 \in 0 .. n
    BY <1>1
  <2> QED
    BY <2>2, <2>3, <1>2
<1> HIDE DEF I, N, n
<1>5. SUFFICES ASSUME U # {} PROVE FALSE
  BY <1>1 DEF N, I, n
<1>6. PICK j \in U : \A i \in U : i <= j
  <2>1. U \in SUBSET Nat /\ \A i \in U : i <= n
    BY <1>1
  <2> HIDE DEF U
  <2> QED
    BY <2>1, <1>1, <1>5, NatMaximum
<1>7. j \in 1 .. n /\ ~ Stops(T[j].line) /\ ~ Follows(j)
  OBVIOUS
<1>8. j + 1 \in 1 .. n /\ T[j + 1].fn = T[j].fn /\ (j + 1) - 1 = j
  BY <1>1, <1>7 DEF Enclosed
<1>9. CASE T[j + 1].line.kind = "instr"
  <2>1. I[j + 1] = Append(I[j], j + 1) /\ I[j] \in Seq(1 .. n)
    BY <1>4, <1>8, <1>9
  <2>2. Len(I[j + 1]) = Len(I[j]) + 1
    BY <2>1
  <2>3. Len(I[j + 1]) \in DOMAIN N /\ N[Len(I[j + 1])] = j + 1
    BY <1>3, <1>8, <1>9
  <2> QED
    BY <2>2, <2>3, <1>7, <1>8
<1>10. CASE T[j + 1].line.kind # "instr"
  <2>1. I[j + 1] = I[j]
    BY <1>4, <1>8, <1>10
  <2>2. ~ Stops(T[j + 1].line) /\ j + 1 \notin U
    <3>1. ~ (j + 1 <= j)
      BY <1>7
    <3> HIDE DEF U
    <3> QED
      BY <3>1, <1>6, <1>10 DEF Stops
  <2>3. Follows(j + 1)
    BY <2>2, <1>8
  <2> QED
    BY <2>1, <2>3, <1>7, <1>8
<1> QED
  BY <1>9, <1>10

-----------------------------------------------------------------------------
(* What the code generator emits.                                          *)

Jumps == {"JMP", "JZ", "JNZ", "JG", "JL", "JGE", "JLE"}

\* A label, or an instruction of the machine; ST writes below the first free
\* address.
Sound(p, line) ==
    \/ line.kind = "label"
    \/ /\ line.kind = "instr"
       /\ line.op \in Opcodes
       /\ line.op = "ST" => line.b < NextFree(p)

\* Between one and ten lines.
SoundLines(p, s) ==
    \E m \in 1 .. 10 : DOMAIN s = 1 .. m /\ \A n \in 1 .. m : Sound(p, s[n])

\* The last of the lines stops.
LastStops(s) == \E m \in Nat \ {0} : DOMAIN s = 1 .. m /\ Stops(s[m])

LEMMA SoundLabel ==
    ASSUME NEW p, NEW name
    PROVE  Sound(p, Label(name)) /\ ~ Stops(Label(name))
BY DEF Sound, Stops, Label

LEMMA SoundAsm ==
    ASSUME NEW p, NEW op \in Opcodes \ (Jumps \cup {"CALL", "ST"}), NEW a, NEW b, NEW c
    PROVE  Sound(p, Asm(op, a, b, c))
BY DEF Sound, Asm

LEMMA SoundStore ==
    ASSUME NEW p, NEW r, NEW x, x < NextFree(p)
    PROVE  Sound(p, Asm("ST", r, x, 0))
<1>1. "ST" \in Opcodes \ (Jumps \cup {"CALL"})
  BY DEF Opcodes, FirstIsRegister, Jumps
<1> QED
  BY <1>1 DEF Sound, Asm

LEMMA SoundAsmTo ==
    ASSUME NEW p, NEW op \in Jumps \cup {"CALL"}, NEW label
    PROVE  Sound(p, AsmTo(op, label))
<1>1. op \in Opcodes /\ op # "ST"
  BY DEF Opcodes, Jumps
<1> QED
  BY <1>1 DEF Sound, AsmTo

\* As many lines as an IR instruction has.
LEMMA FewLines ==
    ASSUME NEW p, NEW a, NEW b, NEW c, NEW d, Sound(p, a), Sound(p, b), Sound(p, c), Sound(p, d)
    PROVE  /\ SoundLines(p, <<a>>) /\ SoundLines(p, <<a, b>>)
           /\ SoundLines(p, <<a, b, c>>) /\ SoundLines(p, <<a, b, c, d>>)
           /\ Stops(a) => LastStops(<<a>>)
           /\ Stops(b) => LastStops(<<a, b>>)
<1>1. ASSUME NEW s, s = <<a>>
      PROVE  SoundLines(p, s) /\ (Stops(a) => LastStops(s))
  <2>1. /\ DOMAIN s = 1 .. 1 /\ s[1] = a /\ 1 \in 1 .. 10 /\ 1 \in Nat \ {0}
        /\ \A n \in 1 .. 1 : n = 1
    BY <1>1
  <2> QED
    BY <2>1 DEF SoundLines, LastStops
<1>2. ASSUME NEW s, s = <<a, b>>
      PROVE  SoundLines(p, s) /\ (Stops(b) => LastStops(s))
  <2>1. /\ DOMAIN s = 1 .. 2 /\ s[1] = a /\ s[2] = b /\ 2 \in 1 .. 10 /\ 2 \in Nat \ {0}
        /\ \A n \in 1 .. 2 : n = 1 \/ n = 2
    BY <1>2
  <2> QED
    BY <2>1 DEF SoundLines, LastStops
<1>3. ASSUME NEW s, s = <<a, b, c>> PROVE SoundLines(p, s)
  <2>1. /\ DOMAIN s = 1 .. 3 /\ s[1] = a /\ s[2] = b /\ s[3] = c /\ 3 \in 1 .. 10
        /\ \A n \in 1 .. 3 : n = 1 \/ n = 2 \/ n = 3
    BY <1>3
  <2> QED
    BY <2>1 DEF SoundLines
<1>4. ASSUME NEW s, s = <<a, b, c, d>> PROVE SoundLines(p, s)
  <2>1. /\ DOMAIN s = 1 .. 4 /\ s[1] = a /\ s[2] = b /\ s[3] = c /\ s[4] = d /\ 4 \in 1 .. 10
        /\ \A n \in 1 .. 4 : n = 1 \/ n = 2 \/ n = 3 \/ n = 4
    BY <1>4
  <2> QED
    BY <2>1 DEF SoundLines
<1> QED
  BY <1>1, <1>2, <1>3, <1>4

LEMMA MaterializeLines ==
    ASSUME NEW p, NEW first, NEW second, NEW jump \in Jumps, NEW n, NEW last,
           Sound(p, first), Sound(p, second), Sound(p, last)
    PROVE  SoundLines(p, Materialize(first, second, jump, n, last))
<1> DEFINE s == Materialize(first, second, jump, n, last)
           a == Asm("CMP", 4, 5, 0)
           b == AsmTo(jump, CgLabel(n))
           c == Asm("LI", 4, 0, 0)
           d == AsmTo("JMP", CgLabel(n + 1))
           e == Label(CgLabel(n))
           f == Asm("LI", 4, BoolTrue, 0)
           g == Label(CgLabel(n + 1))
<1>1. /\ {"CMP", "LI"} \subseteq Opcodes \ (Jumps \cup {"CALL", "ST"})
      /\ "JMP" \in Jumps
  BY DEF Opcodes, FirstIsRegister, Jumps
<1>2. Sound(p, a) /\ Sound(p, b) /\ Sound(p, c) /\ Sound(p, d) /\ Sound(p, e) /\ Sound(p, f) /\ Sound(p, g)
  BY <1>1, SoundAsm, SoundAsmTo, SoundLabel
<1>3. s = <<first, second, a, b, c, d, e, f, g, last>>
  BY DEF Materialize
<1> HIDE DEF s, a, b, c, d, e, f, g
<1>4. /\ DOMAIN s = 1 .. 10 /\ 10 \in 1 .. 10
      /\ s[1] = first /\ s[2] = second /\ s[3] = a /\ s[4] = b /\ s[5] = c
      /\ s[6] = d /\ s[7] = e /\ s[8] = f /\ s[9] = g /\ s[10] = last
  BY <1>3
<1>5. \A k \in 1 .. 10 : \/ k = 1 \/ k = 2 \/ k = 3 \/ k = 4 \/ k = 5
                         \/ k = 6 \/ k = 7 \/ k = 8 \/ k = 9 \/ k = 10
  OBVIOUS
<1>6. \A k \in 1 .. 10 : Sound(p, s[k])
  BY <1>2, <1>4, <1>5
<1> QED
  BY <1>4, <1>6 DEF SoundLines, s

\* An instruction that has a slot to write writes it below the first free address.
StoreFits(p, f, i) ==
    /\ i.op \in WritesDst => i.dst # ""
    /\ i.op \in WritesDst \cup {"CALL"} /\ i.dst # "" => SlotAddress(p, f, i.dst) < NextFree(p)

LEMMA InstructionsFit ==
    ASSUME NEW p, WellFormed(p), NEW f \in 1 .. Len(p.functions),
           NEW k \in DOMAIN p.functions[f].body
    PROVE  StoreFits(p, f, p.functions[f].body[k])
<1> DEFINE i == p.functions[f].body[k]
<1>1. f \in DOMAIN p.functions /\ f # 0 /\ f \in 0 .. Len(p.functions)
  BY Lengths
<1>2. {i.dst, i.src, i.src2} \subseteq SlotsOf(p, f) \cup {""} /\ (i.op \in WritesDst => i.dst # "")
  BY <1>1, Zenon DEF WellFormed
<1> HIDE DEF i
<1>3. i.dst # "" => SlotAddress(p, f, i.dst) < NextFree(p)
  BY <1>1, <1>2, SlotsBelowNextFree
<1> QED
  BY <1>2, <1>3 DEF StoreFits, i

\* Every IR instruction becomes sound lines, and a return stops.
LEMMA EmitIRLines ==
    ASSUME NEW p, NEW f, NEW k, p.functions[f].body[k].op \in IROps,
           StoreFits(p, f, p.functions[f].body[k])
    PROVE  /\ SoundLines(p, EmitIR(p, f, k))
           /\ p.functions[f].body[k].op \in {"RETURN", "RETURN_VOID"} =>
                 LastStops(EmitIR(p, f, k))
<1> DEFINE i == p.functions[f].body[k]
           E == EmitIR(p, f, k)
           n == CgCounter(p, f, k)
           LD(r, slot) == Asm("LD", r, SlotAddress(p, f, slot), 0)
           ST(r, slot) == Asm("ST", r, SlotAddress(p, f, slot), 0)
           LI(r, imm)  == Asm("LI", r, imm, 0)
<1>1. {"LD", "LI", "LDR", "STR", "ADD", "SUB", "CMP", "RET", "HALT", "PRINT", "PRINTD"}
         \subseteq Opcodes \ (Jumps \cup {"CALL", "ST"})
  BY DEF Opcodes, FirstIsRegister, Jumps
<1>2. /\ i.op \in WritesDst => \A r : Sound(p, ST(r, i.dst))
      /\ i.op = "CALL" /\ i.dst # "" => \A r : Sound(p, ST(r, i.dst))
  BY SoundStore DEF StoreFits
<1>3. /\ \A r, slot : Sound(p, LD(r, slot))
      /\ \A r, imm : Sound(p, LI(r, imm))
      /\ \A op \in {"LDR", "STR", "ADD", "SUB", "CMP", "RET", "HALT", "PRINT", "PRINTD"} :
            \A a, b, c : Sound(p, Asm(op, a, b, c))
  BY <1>1, SoundAsm
<1>4. \A op \in Jumps \cup {"CALL"} : \A label : Sound(p, AsmTo(op, label))
  BY SoundAsmTo
<1>5. \A name : Sound(p, Label(name))
  BY SoundLabel
<1>6. CASE i.op = "CONST"
  <2>1. E = <<LI(4, i.imm), ST(4, i.dst)>>
    BY <1>6 DEF EmitIR, Comparisons
  <2>2. Sound(p, LI(4, i.imm)) /\ Sound(p, ST(4, i.dst))
    BY <1>2, <1>3, <1>4, <1>5, <1>6 DEF Jumps, WritesDst, Comparisons
  <2>3. SoundLines(p, E)
    <3> HIDE DEF E, i, LD, ST, LI
    <3> QED
      BY <2>1, <2>2, FewLines
  <2> QED
    BY <2>3, <1>6
<1>7. CASE i.op = "COPY"
  <2>1. E = <<LD(4, i.src), ST(4, i.dst)>>
    BY <1>7 DEF EmitIR, Comparisons
  <2>2. Sound(p, LD(4, i.src)) /\ Sound(p, ST(4, i.dst))
    BY <1>2, <1>3, <1>4, <1>5, <1>7 DEF Jumps, WritesDst, Comparisons
  <2>3. SoundLines(p, E)
    <3> HIDE DEF E, i, LD, ST, LI
    <3> QED
      BY <2>1, <2>2, FewLines
  <2> QED
    BY <2>3, <1>7
<1>8. CASE i.op \in {"ADD", "SUB"}
  <2>1. E = <<LD(4, i.src), LD(5, i.src2), Asm(i.op, 4, 4, 5), ST(4, i.dst)>>
    BY <1>8 DEF EmitIR, Comparisons
  <2>2. /\ Sound(p, LD(4, i.src))
        /\ Sound(p, LD(5, i.src2))
        /\ Sound(p, Asm(i.op, 4, 4, 5))
        /\ Sound(p, ST(4, i.dst))
    BY <1>2, <1>3, <1>4, <1>5, <1>8 DEF Jumps, WritesDst, Comparisons
  <2>3. SoundLines(p, E)
    <3> HIDE DEF E, i, LD, ST, LI
    <3> QED
      BY <2>1, <2>2, FewLines
  <2> QED
    BY <2>3, <1>8
<1>9. CASE i.op = "NEG"
  <2>1. E = <<LI(4, 0), LD(5, i.src), Asm("SUB", 4, 4, 5), ST(4, i.dst)>>
    BY <1>9 DEF EmitIR, Comparisons
  <2>2. /\ Sound(p, LI(4, 0))
        /\ Sound(p, LD(5, i.src))
        /\ Sound(p, Asm("SUB", 4, 4, 5))
        /\ Sound(p, ST(4, i.dst))
    BY <1>2, <1>3, <1>4, <1>5, <1>9 DEF Jumps, WritesDst, Comparisons
  <2>3. SoundLines(p, E)
    <3> HIDE DEF E, i, LD, ST, LI
    <3> QED
      BY <2>1, <2>2, FewLines
  <2> QED
    BY <2>3, <1>9
<1>10. CASE i.op = "NOT"
  <2>1. E = Materialize(LD(4, i.src), LI(5, 0), "JZ", n, ST(4, i.dst))
    BY <1>10 DEF EmitIR, Comparisons
  <2>2. Sound(p, LD(4, i.src)) /\ Sound(p, LI(5, 0)) /\ Sound(p, ST(4, i.dst))
    BY <1>2, <1>3, <1>10 DEF WritesDst, Comparisons
  <2>3. "JZ" \in Jumps
    BY <1>10 DEF Jumps, JumpIf, Comparisons
  <2> HIDE DEF E, i, LD, ST, LI, n
  <2>4. SoundLines(p, E)
    BY <2>1, <2>2, <2>3, MaterializeLines
  <2>5. ~ (i.op \in {"RETURN", "RETURN_VOID"})
    BY <1>10 DEF Comparisons
  <2> QED
    BY <2>4, <2>5 DEF E, i
<1>11. CASE i.op \in Comparisons
  <2>1. E = Materialize(LD(4, i.src), LD(5, i.src2), JumpIf[i.op], n, ST(4, i.dst))
    BY <1>11 DEF EmitIR, Comparisons
  <2>2. Sound(p, LD(4, i.src)) /\ Sound(p, LD(5, i.src2)) /\ Sound(p, ST(4, i.dst))
    BY <1>2, <1>3, <1>11 DEF WritesDst, Comparisons
  <2>3. JumpIf[i.op] \in Jumps
    BY <1>11 DEF Jumps, JumpIf, Comparisons
  <2> HIDE DEF E, i, LD, ST, LI, n
  <2>4. SoundLines(p, E)
    BY <2>1, <2>2, <2>3, MaterializeLines
  <2>5. ~ (i.op \in {"RETURN", "RETURN_VOID"})
    BY <1>11 DEF Comparisons
  <2> QED
    BY <2>4, <2>5 DEF E, i
<1>12. CASE i.op = "MEM_LOAD"
  <2>1. E = <<LD(4, i.src), Asm("LDR", 5, 4, 0), ST(5, i.dst)>>
    BY <1>12 DEF EmitIR, Comparisons
  <2>2. Sound(p, LD(4, i.src)) /\ Sound(p, Asm("LDR", 5, 4, 0)) /\ Sound(p, ST(5, i.dst))
    BY <1>2, <1>3, <1>4, <1>5, <1>12 DEF Jumps, WritesDst, Comparisons
  <2>3. SoundLines(p, E)
    <3> HIDE DEF E, i, LD, ST, LI
    <3> QED
      BY <2>1, <2>2, FewLines
  <2> QED
    BY <2>3, <1>12
<1>13. CASE i.op = "MEM_STORE"
  <2>1. E = <<LD(4, i.dst), LD(5, i.src), Asm("STR", 5, 4, 0)>>
    BY <1>13 DEF EmitIR, Comparisons
  <2>2. Sound(p, LD(4, i.dst)) /\ Sound(p, LD(5, i.src)) /\ Sound(p, Asm("STR", 5, 4, 0))
    BY <1>3, <1>4, <1>5, <1>13 DEF Jumps
  <2>3. SoundLines(p, E)
    <3> HIDE DEF E, i, LD, ST, LI
    <3> QED
      BY <2>1, <2>2, FewLines
  <2> QED
    BY <2>3, <1>13
<1>14. CASE i.op = "LABEL"
  <2>1. E = <<Label(FnLabel(p, f, i.label))>>
    BY <1>14 DEF EmitIR, Comparisons
  <2>2. Sound(p, Label(FnLabel(p, f, i.label)))
    BY <1>3, <1>4, <1>5, <1>14 DEF Jumps
  <2>3. SoundLines(p, E)
    <3> HIDE DEF E, i, LD, ST, LI
    <3> QED
      BY <2>1, <2>2, FewLines
  <2> QED
    BY <2>3, <1>14
<1>15. CASE i.op = "JUMP"
  <2>1. E = <<AsmTo("JMP", FnLabel(p, f, i.label))>>
    BY <1>15 DEF EmitIR, Comparisons
  <2>2. Sound(p, AsmTo("JMP", FnLabel(p, f, i.label)))
    BY <1>3, <1>4, <1>5, <1>15 DEF Jumps
  <2>3. SoundLines(p, E)
    <3> HIDE DEF E, i, LD, ST, LI
    <3> QED
      BY <2>1, <2>2, FewLines
  <2> QED
    BY <2>3, <1>15
<1>16. CASE i.op \in {"JUMP_Z", "JUMP_NZ"}
  <2>1. E = <<LD(4, i.src), LI(5, 0), Asm("CMP", 4, 5, 0),
            AsmTo(IF i.op = "JUMP_Z" THEN "JZ" ELSE "JNZ", FnLabel(p, f, i.label))>>
    BY <1>16 DEF EmitIR, Comparisons
  <2>2. /\ Sound(p, LD(4, i.src))
        /\ Sound(p, LI(5, 0))
        /\ Sound(p, Asm("CMP", 4, 5, 0))
        /\ Sound(p, AsmTo(IF i.op = "JUMP_Z" THEN "JZ" ELSE "JNZ", FnLabel(p, f, i.label)))
    BY <1>3, <1>4, <1>5, <1>16 DEF Jumps
  <2>3. SoundLines(p, E)
    <3> HIDE DEF E, i, LD, ST, LI
    <3> QED
      BY <2>1, <2>2, FewLines
  <2> QED
    BY <2>3, <1>16
<1>17. CASE i.op = "ARG"
  <2>1. E = <<LD(i.imm + 1, i.src)>>
    BY <1>17 DEF EmitIR, Comparisons
  <2>2. Sound(p, LD(i.imm + 1, i.src))
    BY <1>3, <1>4, <1>5, <1>17 DEF Jumps
  <2>3. SoundLines(p, E)
    <3> HIDE DEF E, i, LD, ST, LI
    <3> QED
      BY <2>1, <2>2, FewLines
  <2> QED
    BY <2>3, <1>17
<1>18. CASE i.op = "CALL"
  <2>1. E = IF i.dst = "" THEN <<AsmTo("CALL", i.label)>>
            ELSE <<AsmTo("CALL", i.label), ST(0, i.dst)>>
    BY <1>18 DEF EmitIR, Comparisons
  <2>2. Sound(p, AsmTo("CALL", i.label)) /\ (i.dst # "" => Sound(p, ST(0, i.dst)))
    BY <1>2, <1>4, <1>18
  <2> HIDE DEF E, i, ST
  <2>3. ASSUME i.dst = "" PROVE SoundLines(p, E)
    BY <2>1, <2>2, <2>3, FewLines
  <2>4. ASSUME i.dst # "" PROVE SoundLines(p, E)
    BY <2>1, <2>2, <2>4, FewLines
  <2>5. SoundLines(p, E)
    BY <2>3, <2>4
  <2> QED
    BY <2>5, <1>18 DEF E, i
<1>19. CASE i.op = "RETURN"
  <2>1. E = <<LD(0, i.src), Asm("RET", 0, 0, 0)>>
    BY <1>19 DEF EmitIR, Comparisons
  <2>2. Sound(p, LD(0, i.src)) /\ Sound(p, Asm("RET", 0, 0, 0))
    BY <1>3, <1>4, <1>5, <1>19 DEF Jumps
  <2>3. Stops(Asm("RET", 0, 0, 0))
    BY DEF Stops, Asm
  <2>4. SoundLines(p, E) /\ LastStops(E)
    <3> HIDE DEF E, i, LD
    <3> QED
      BY <2>1, <2>2, <2>3, FewLines
  <2> QED
    BY <2>4, <1>19
<1>20. CASE i.op = "RETURN_VOID"
  <2>1. E = <<Asm("RET", 0, 0, 0)>>
    BY <1>20 DEF EmitIR, Comparisons
  <2>2. Sound(p, Asm("RET", 0, 0, 0))
    BY <1>3, <1>4, <1>5, <1>20 DEF Jumps
  <2>3. Stops(Asm("RET", 0, 0, 0))
    BY DEF Stops, Asm
  <2>4. SoundLines(p, E) /\ LastStops(E)
    <3> HIDE DEF E, i, LD
    <3> QED
      BY <2>1, <2>2, <2>3, FewLines
  <2> QED
    BY <2>4, <1>20
<1>21. CASE i.op \in {"PRINT", "PRINTD"}
  <2>1. E = <<LD(4, i.src), Asm(i.op, 4, 0, 0)>>
    BY <1>21 DEF EmitIR, Comparisons
  <2>2. Sound(p, LD(4, i.src)) /\ Sound(p, Asm(i.op, 4, 0, 0))
    BY <1>3, <1>4, <1>5, <1>21 DEF Jumps
  <2>3. SoundLines(p, E)
    <3> HIDE DEF E, i, LD, ST, LI
    <3> QED
      BY <2>1, <2>2, FewLines
  <2> QED
    BY <2>3, <1>21
<1>22. CASE i.op = "HALT"
  <2>1. E = <<Asm("HALT", 0, 0, 0)>>
    BY <1>22 DEF EmitIR, Comparisons
  <2>2. Sound(p, Asm("HALT", 0, 0, 0))
    BY <1>3, <1>4, <1>5, <1>22 DEF Jumps
  <2>3. SoundLines(p, E)
    <3> HIDE DEF E, i, LD, ST, LI
    <3> QED
      BY <2>1, <2>2, FewLines
  <2> QED
    BY <2>3, <1>22
<1> QED
  BY <1>6, <1>7, <1>8, <1>9, <1>10, <1>11, <1>12, <1>13, <1>14, <1>15, <1>16, <1>17, <1>18, <1>19, <1>20, <1>21, <1>22 DEF IROps, Comparisons

\* A section of the code: the lines of one function, or of _init, which is 0.
Section(p, f, X, s) ==
    /\ \A r \in X : r.fn = f /\ Sound(p, r.line)
    /\ s \in Seq(X)
    /\ Len(s) >= 1

\* Lines that keep their origin: X has them.
Tagged(p, f, ip, m, s, X) ==
    /\ Section(p, f, X, From(f, ip, s))
    /\ \A r \in X : \E n \in 1 .. m : r.line = s[n]
    /\ Len(From(f, ip, s)) = m
    /\ \A n \in 1 .. m : From(f, ip, s)[n].line = s[n]

LEMMA FromLines ==
    ASSUME NEW p, NEW f, NEW ip, NEW m \in Nat, m >= 1, NEW s, DOMAIN s = 1 .. m,
           \A n \in 1 .. m : Sound(p, s[n])
    PROVE  \E X : Tagged(p, f, ip, m, s, X)
<1> DEFINE Tag(n) == [fn |-> f, ip |-> ip, nth |-> n, line |-> s[n]]
           X == {Tag(n) : n \in 1 .. m}
<1>1. From(f, ip, s) = [n \in 1 .. m |-> Tag(n)]
  BY DEF From
<1>2. \A n \in 1 .. m : Tag(n).fn = f /\ Tag(n).line = s[n] /\ Tag(n) \in X
  OBVIOUS
<1>3. \A r \in X : r.fn = f /\ Sound(p, r.line) /\ \E n \in 1 .. m : r.line = s[n]
  BY <1>2
<1> HIDE DEF Tag, X
<1>4. From(f, ip, s) \in [1 .. m -> X]
  BY <1>1, <1>2
<1>5. From(f, ip, s) \in Seq(X) /\ Len(From(f, ip, s)) = m
  BY <1>4
<1>6. \A n \in 1 .. m : From(f, ip, s)[n] = Tag(n)
  BY <1>1
<1> QED
  BY <1>2, <1>3, <1>5, <1>6 DEF Section, Tagged

\* s has at k what u has there.
Agrees(s, u, k) == k \in DOMAIN s /\ s[k] = u[k]

LEMMA ParamsAreSlots ==
    ASSUME NEW p, NEW f, p.functions[f] \in IRFunctions, NEW k \in DOMAIN p.functions[f].params
    PROVE  /\ p.functions[f].params[k] \in SlotsOf(p, f)
           /\ k \in DOMAIN Block(p.functions[f])
           /\ Block(p.functions[f])[k] = p.functions[f].params[k]
<1> DEFINE fn == p.functions[f]
           temps == [n \in 1 .. fn.temps |-> TempSlot(n - 1)]
           rest == fn.locals \o temps
           S == STRING \cup {temps[n] : n \in 1 .. fn.temps}
<1>1. fn.params \in Seq(STRING) /\ fn.locals \in Seq(STRING) /\ fn.temps \in Nat
  BY DEF IRFunctions
<1>2. Block(fn) = fn.params \o fn.locals \o temps
  BY DEF Block
<1>3. temps = [n \in 1 .. fn.temps |-> temps[n]]
  OBVIOUS
<1> HIDE DEF temps
<1>4. temps \in Seq(S)
  <2>1. \A n \in 1 .. fn.temps : temps[n] \in S
    OBVIOUS
  <2> HIDE DEF S
  <2>2. PICK n : n = fn.temps
    OBVIOUS
  <2>3. temps \in [1 .. n -> S] /\ n \in Nat
    BY <1>1, <1>3, <2>1, <2>2
  <2> QED
    BY ONLY <2>3
<1>5. fn.params \in Seq(S) /\ fn.locals \in Seq(S)
  BY <1>1
<1>6. k \in 1 .. Len(fn.params)
  BY <1>1
<1> HIDE DEF S, fn
<1>7. ASSUME NEW A, NEW u \in Seq(A), NEW v \in Seq(A), NEW w \in Seq(A), k \in 1 .. Len(u)
      PROVE  Agrees(u \o v \o w, u, k)
  <2>1. u \o v \in Seq(A) /\ Len(u \o v) = Len(u) + Len(v) /\ (u \o v)[k] = u[k]
    BY <1>7
  <2> DEFINE uv == u \o v
  <2> HIDE DEF uv
  <2>2. uv \in Seq(A) /\ k \in 1 .. Len(uv) /\ uv[k] = u[k]
    BY <1>7, <2>1 DEF uv
  <2>3. k \in DOMAIN (uv \o w) /\ (uv \o w)[k] = uv[k]
    BY <1>7, <2>2
  <2> QED
    BY <2>2, <2>3 DEF uv, Agrees
<1>8. Agrees(fn.params \o fn.locals \o temps, fn.params, k)
  BY <1>4, <1>5, <1>6, <1>7
<1>9. k \in DOMAIN Block(fn) /\ Block(fn)[k] = fn.params[k]
  BY <1>2, <1>8 DEF Agrees
<1> QED
  BY <1>9 DEF SlotsOf, fn

\* The label of a function and the stores of its parameters.
LEMMA PrologueLines ==
    ASSUME NEW p, WellFormed(p), NEW f \in 1 .. Len(p.functions)
    PROVE  \E m \in Nat : /\ m >= 1
                          /\ DOMAIN EmitPrologue(p, f) = 1 .. m
                          /\ \A n \in 1 .. m : Sound(p, EmitPrologue(p, f)[n])
<1> DEFINE fn == p.functions[f]
           first == <<Label(fn.name)>>
           stores == [k \in DOMAIN fn.params |-> Asm("ST", k, SlotAddress(p, f, fn.params[k]), 0)]
           Y == {Label(fn.name)} \cup {stores[k] : k \in DOMAIN fn.params}
           n == Len(fn.params)
<1>1. fn.params \in Seq(STRING) /\ fn \in IRFunctions
  BY Lengths DEF IRFunctions
<1>2. n \in Nat /\ DOMAIN fn.params = 1 .. n
  BY <1>1
<1>3. \A line \in Y : Sound(p, line)
  <2>1. ASSUME NEW k \in DOMAIN fn.params
        PROVE  SlotAddress(p, f, fn.params[k]) < NextFree(p)
    <3>1. fn.params[k] \in SlotsOf(p, f)
      BY <1>1, <1>2, ParamsAreSlots
    <3>2. f # 0 /\ f \in 0 .. Len(p.functions)
      OBVIOUS
    <3> HIDE DEF fn
    <3> QED
      BY <3>1, <3>2, SlotsBelowNextFree
  <2>2. \A k \in DOMAIN fn.params : Sound(p, stores[k])
    BY <2>1, SoundStore
  <2> HIDE DEF stores, fn
  <2> QED
    BY <2>2, SoundLabel
<1>4. stores \in [1 .. n -> Y]
  <2>1. stores = [k \in 1 .. n |-> stores[k]]
    BY <1>2
  <2> HIDE DEF stores, n
  <2> QED
    BY <2>1, <1>2
<1>5. EmitPrologue(p, f) = first \o stores
  BY DEF EmitPrologue
<1> HIDE DEF stores, n, fn
<1>6. first \in Seq(Y) /\ Len(first) = 1 /\ stores \in Seq(Y) /\ Len(stores) = n
  BY <1>2, <1>4
<1> HIDE DEF Y, first
<1>7. first \o stores \in Seq(Y) /\ Len(first \o stores) = n + 1
  <2>1. \A s \in Seq(Y), t \in Seq(Y) : s \o t \in Seq(Y) /\ Len(s \o t) = Len(s) + Len(t)
    OBVIOUS
  <2>2. Len(first \o stores) = 1 + n
    BY <1>6, <2>1
  <2> QED
    BY <1>2, <1>6, <2>1, <2>2
<1>8. DOMAIN (first \o stores) = 1 .. n + 1 /\ \A k \in 1 .. n + 1 : (first \o stores)[k] \in Y
  BY <1>2, <1>7
<1>9. n + 1 \in Nat /\ n + 1 >= 1
  BY <1>2
<1> QED
  BY <1>3, <1>5, <1>8, <1>9

\* The sequence u starts as s does and ends as t does.
Spans(s, t, u) == u[1] = s[1] /\ u[Len(u)] = t[Len(t)]

\* Two sections of one function, one after the other.
LEMMA JoinSections ==
    ASSUME NEW p, NEW f, NEW X, NEW s, NEW Y, NEW t, Section(p, f, X, s), Section(p, f, Y, t)
    PROVE  /\ Section(p, f, X \cup Y, s \o t)
           /\ Spans(s, t, s \o t)
<1> DEFINE Z == X \cup Y
<1>1. /\ s \in Seq(X) /\ t \in Seq(Y) /\ Len(s) >= 1 /\ Len(t) >= 1
      /\ \A r \in Z : r.fn = f /\ Sound(p, r.line)
  BY DEF Section
<1>2. s \in Seq(Z) /\ t \in Seq(Z)
  BY <1>1
<1> HIDE DEF Z
<1>3. /\ s \o t \in Seq(Z) /\ Len(s \o t) = Len(s) + Len(t)
      /\ \A n \in 1 .. Len(s) : (s \o t)[n] = s[n]
      /\ \A n \in 1 .. Len(t) : (s \o t)[Len(s) + n] = t[n]
  BY <1>2
<1>4. Len(t) \in 1 .. Len(t) /\ 1 \in 1 .. Len(s) /\ Len(s) \in Nat /\ Len(t) \in Nat
  BY <1>1, <1>2
<1>5. Len(s \o t) >= 1
  BY <1>1, <1>3, <1>4
<1>6. (s \o t)[Len(s \o t)] = t[Len(t)] /\ (s \o t)[1] = s[1]
  BY <1>3, <1>4
<1> QED
  BY <1>1, <1>3, <1>5, <1>6 DEF Section, Spans, Z

\* The lines of a function end with one that stops.
LEMMA FunctionLines ==
    ASSUME NEW p, WellFormed(p), NEW f \in 1 .. Len(p.functions)
    PROVE  \E X : /\ Section(p, f, X, EmitFunction(p, f))
                  /\ Stops(EmitFunction(p, f)[Len(EmitFunction(p, f))].line)
<1> DEFINE body == p.functions[f].body
           n == Len(body)
           B(k) == From(f, k, EmitIR(p, f, k))
           bs == [k \in DOMAIN body |-> B(k)]
           Y == {r \in UNION {{B(k)[j] : j \in DOMAIN B(k)} : k \in 1 .. n} :
                    r.fn = f /\ Sound(p, r.line)}
<1>1. body \in Seq(IRInstructions) /\ body # <<>> /\ body[n].op \in {"RETURN", "RETURN_VOID"}
  BY Lengths DEF IRFunctions, EndsWithReturn
<1>2. n \in Nat /\ n >= 1 /\ DOMAIN body = 1 .. n /\ \A k \in 1 .. n : body[k].op \in IROps
  <2> HIDE DEF body
  <2>1. n \in Nat /\ n # 0 /\ DOMAIN body = 1 .. n /\ \A k \in 1 .. n : body[k] \in IRInstructions
    BY <1>1
  <2>2. \A i \in IRInstructions : i.op \in IROps
    BY DEF IRInstructions
  <2> HIDE DEF n
  <2>3. n >= 1
    BY <2>1
  <2> QED
    BY <2>1, <2>2, <2>3
<1>3. ASSUME NEW k \in 1 .. n
      PROVE  /\ B(k) \in Seq(Y) /\ Len(B(k)) >= 1
             /\ LastStops(EmitIR(p, f, k)) => Stops(B(k)[Len(B(k))].line)
  <2> DEFINE s == EmitIR(p, f, k)
  <2>1. PICK m \in 1 .. 10 : DOMAIN s = 1 .. m /\ \A j \in 1 .. m : Sound(p, s[j])
    <3>1. StoreFits(p, f, body[k])
      BY <1>2, InstructionsFit
    <3> QED
      BY <3>1, <1>2, EmitIRLines DEF SoundLines
  <2> HIDE DEF s
  <2>2. PICK X : Tagged(p, f, k, m, s, X)
    <3>1. m \in Nat /\ m >= 1
      OBVIOUS
    <3> QED
      BY <3>1, <2>1, FromLines
  <2> DEFINE t == From(f, k, s)
  <2>3. t \in Seq(X) /\ Len(t) = m /\ DOMAIN t = 1 .. m /\ \A r \in X : r.fn = f /\ Sound(p, r.line)
    BY <2>2 DEF Section, Tagged
  <2>4. B(k) = t
    BY DEF s
  <2> HIDE DEF B, t
  <2>5. \A j \in 1 .. m : t[j] \in Y
    BY <2>3, <2>4
  <2> HIDE DEF Y
  <2>6. t \in Seq(Y)
    BY <2>3, <2>5
  <2>7. LastStops(s) => Stops(s[m])
    BY <2>1 DEF LastStops
  <2>8. t[m].line = s[m]
    BY <2>2 DEF t, Tagged
  <2> QED
    BY <2>3, <2>4, <2>6, <2>7, <2>8 DEF s
<1> HIDE DEF B, Y
<1>4. bs \in Seq(Seq(Y)) /\ Len(bs) = n /\ bs[n] = B(n)
  <2>1. bs = [k \in 1 .. n |-> B(k)]
    BY <1>2
  <2> HIDE DEF bs, n
  <2>2. bs \in [1 .. n -> Seq(Y)]
    BY <2>1, <1>3
  <2> QED
    BY <1>2, <2>1, <2>2
<1> HIDE DEF bs
<1>5. PICK t \in Seq(Y) : FlattenSeq(bs) = t \o bs[n] /\ FlattenSeq(bs) \in Seq(Y)
  BY <1>2, <1>4, FlattenEnds
<1> DEFINE s == FlattenSeq(bs)
<1> HIDE DEF s, n
<1>6. /\ s \in Seq(Y) /\ Len(s) >= 1
      /\ s[Len(s)] = B(n)[Len(B(n))]
  <2>1. s = t \o B(n) /\ B(n) \in Seq(Y) /\ Len(B(n)) >= 1 /\ s \in Seq(Y)
    BY <1>2, <1>3, <1>4, <1>5 DEF s
  <2> QED
    BY <2>1
<1>7. Stops(s[Len(s)].line)
  <2>1. n \in 1 .. n /\ body[n].op \in IROps
    BY <1>2
  <2>2. LastStops(EmitIR(p, f, n))
    <3>1. StoreFits(p, f, body[n])
      BY <1>2, <2>1, InstructionsFit
    <3> QED
      BY <1>1, <2>1, <3>1, EmitIRLines DEF n
  <2> QED
    BY <1>3, <1>6, <2>1, <2>2
<1>8. Section(p, f, Y, s)
  BY <1>6 DEF Section, Y
<1>9. PICK X, a : EmitFunction(p, f) = a \o s /\ Section(p, f, X, a)
  <2> DEFINE e == EmitPrologue(p, f)
             a == From(f, 0, e)
  <2>1. PICK m \in Nat : m >= 1 /\ DOMAIN e = 1 .. m /\ \A j \in 1 .. m : Sound(p, e[j])
    BY PrologueLines
  <2>2. PICK X : Section(p, f, X, a)
    <3> HIDE DEF e
    <3> QED
      BY <2>1, FromLines DEF Tagged
  <2>3. EmitFunction(p, f) = a \o s
    BY DEF EmitFunction, s, bs, B
  <2> QED
    BY <2>2, <2>3
<1>10. Section(p, f, X \cup Y, a \o s) /\ Spans(a, s, a \o s)
  <2>1. Section(p, f, X, a) /\ Section(p, f, Y, s)
    BY <1>8, <1>9
  <2> QED
    BY <2>1, JoinSections
<1> QED
  BY <1>7, <1>9, <1>10 DEF Spans

\* A section that ends with a line that stops is enclosed.
LEMMA SectionEnclosed ==
    ASSUME NEW p, NEW f, NEW X, NEW s, Section(p, f, X, s), Stops(s[Len(s)].line)
    PROVE  Enclosed(s)
<1> SUFFICES ASSUME NEW k \in DOMAIN s, ~ Stops(s[k].line)
             PROVE  k + 1 \in DOMAIN s /\ s[k + 1].fn = s[k].fn
  BY DEF Enclosed
<1>1. s \in Seq(X) /\ \A r \in X : r.fn = f
  BY DEF Section
<1>2. Len(s) \in Nat /\ DOMAIN s = 1 .. Len(s) /\ \A j \in 1 .. Len(s) : s[j] \in X
  BY <1>1
<1>3. k # Len(s)
  OBVIOUS
<1>4. k + 1 \in 1 .. Len(s)
  BY <1>2, <1>3
<1>5. s[k].fn = f /\ s[k + 1].fn = f
  BY <1>1, <1>2, <1>4
<1> QED
  BY <1>2, <1>4, <1>5

LEMMA EnclosedJoin ==
    ASSUME NEW X, NEW s \in Seq(X), NEW t \in Seq(X), Enclosed(s), Enclosed(t)
    PROVE  Enclosed(s \o t)
<1> DEFINE u == s \o t
           l == Len(s)
           m == Len(t)
<1>1. /\ l \in Nat /\ m \in Nat /\ DOMAIN s = 1 .. l /\ DOMAIN t = 1 .. m
      /\ DOMAIN u = 1 .. l + m
      /\ \A n \in 1 .. l : u[n] = s[n]
      /\ \A n \in 1 .. m : u[l + n] = t[n]
  OBVIOUS
<1> HIDE DEF u, l, m
<1> SUFFICES ASSUME NEW k \in DOMAIN u, ~ Stops(u[k].line)
             PROVE  k + 1 \in DOMAIN u /\ u[k + 1].fn = u[k].fn
  BY DEF Enclosed, u
<1>2. CASE k \in 1 .. l
  <2>1. u[k] = s[k] /\ k \in DOMAIN s
    BY <1>1, <1>2
  <2>2. k + 1 \in 1 .. l /\ s[k + 1].fn = s[k].fn
    BY <1>1, <2>1 DEF Enclosed
  <2>3. u[k + 1] = s[k + 1] /\ k + 1 \in 1 .. l + m
    BY <1>1, <2>2
  <2> QED
    BY <1>1, <2>1, <2>2, <2>3
<1>3. CASE k \notin 1 .. l
  <2> DEFINE j == k - l
  <2>1. j \in 1 .. m /\ l + j = k /\ l + (j + 1) = k + 1
    BY <1>1, <1>3
  <2> HIDE DEF j
  <2>2. u[k] = t[j] /\ j \in DOMAIN t
    BY <1>1, <2>1
  <2>3. j + 1 \in 1 .. m /\ t[j + 1].fn = t[j].fn
    BY <1>1, <2>2 DEF Enclosed
  <2>4. u[l + (j + 1)] = t[j + 1] /\ l + (j + 1) \in 1 .. l + m
    BY <1>1, <2>3
  <2> QED
    BY <1>1, <2>1, <2>2, <2>3, <2>4
<1> QED
  BY <1>2, <1>3

\* _init consists of these, and of its label.
InitOps == {"LI", "ST", "CALL", "HALT"}

InitLine(line) == line.kind = "label" \/ (line.kind = "instr" /\ line.op \in InitOps)

\* The initialization of the globals.
LEMMA GlobalsLines ==
    ASSUME NEW p, WellFormed(p)
    PROVE  \E X : /\ EmitGlobals(p) \in Seq(X)
                  /\ \A line \in X : Sound(p, line) /\ InitLine(line)
<1> DEFINE n == Len(p.globals)
           LI(k) == Asm("LI", 4, p.globals[k].init, 0)
           ST(k) == Asm("ST", 4, SlotAddress(p, 0, p.globals[k].slot), 0)
           X == UNION {{LI(k), ST(k)} : k \in 1 .. n}
           G == Seq(X)
           ss == [k \in 1 .. n |-> <<LI(k), ST(k)>>]
<1>1. n \in Nat /\ DOMAIN p.globals = 1 .. n
  BY Lengths
<1>2. EmitGlobals(p) = FlattenSeq(ss)
  BY <1>1 DEF EmitGlobals
<1>3. \A k \in 1 .. n : Sound(p, LI(k)) /\ Sound(p, ST(k)) /\ InitLine(LI(k)) /\ InitLine(ST(k))
  <2> SUFFICES ASSUME NEW k \in 1 .. n
               PROVE  Sound(p, LI(k)) /\ Sound(p, ST(k)) /\ InitLine(LI(k)) /\ InitLine(ST(k))
    OBVIOUS
  <2>1. "LI" \in Opcodes \ (Jumps \cup {"CALL", "ST"})
    BY DEF Opcodes, FirstIsRegister, Jumps
  <2>2. SlotAddress(p, 0, p.globals[k].slot) < NextFree(p)
    <3>1. p.globals[k].slot \in GlobalSlots(p)
      BY <1>1 DEF GlobalSlots
    <3>2. 0 \in 0 .. Len(p.functions)
      BY Lengths
    <3> QED
      BY <3>1, <3>2, SlotsBelowNextFree
  <2>3. Sound(p, LI(k)) /\ Sound(p, ST(k))
    BY <2>1, <2>2, SoundAsm, SoundStore
  <2>4. InitLine(LI(k)) /\ InitLine(ST(k))
    BY DEF InitLine, InitOps, Asm
  <2> QED
    BY <2>3, <2>4
<1> HIDE DEF n, LI, ST
<1>4. \A line \in X : Sound(p, line) /\ InitLine(line)
  BY <1>3
<1>5. \A k \in 1 .. n : <<LI(k), ST(k)>> \in G
  <2> SUFFICES ASSUME NEW k \in 1 .. n PROVE <<LI(k), ST(k)>> \in Seq(X)
    OBVIOUS
  <2>1. LI(k) \in X /\ ST(k) \in X
    OBVIOUS
  <2> HIDE DEF X
  <2> QED
    BY <2>1
<1>6. <<>> \in G /\ \A s \in G, t \in G : s \o t \in G
  <2> HIDE DEF X
  <2> QED
    OBVIOUS
<1> HIDE DEF X
<1>7. ss \in Seq(G)
  <2> HIDE DEF G
  <2>1. ss \in [1 .. n -> G]
    BY <1>5
  <2> HIDE DEF ss
  <2> QED
    BY <1>1, <2>1
<1>8. FlattenSeq(ss) \in G
  <2> HIDE DEF G, ss
  <2> QED
    BY <1>6, <1>7, FlattenIn
<1> QED
  BY <1>2, <1>4, <1>8

\* _init begins with its label and ends with HALT.
LEMMA InitLines ==
    ASSUME NEW p, WellFormed(p)
    PROVE  \E m \in Nat : /\ m >= 1
                          /\ DOMAIN EmitInit(p) = 1 .. m
                          /\ \A n \in 1 .. m : Sound(p, EmitInit(p)[n]) /\ InitLine(EmitInit(p)[n])
                          /\ ~ Stops(EmitInit(p)[1])
                          /\ Stops(EmitInit(p)[m])
<1> DEFINE first == Label("_init")
           call == AsmTo("CALL", "main")
           halt == Asm("HALT", 0, 0, 0)
           g == EmitGlobals(p)
<1>1. PICK X : g \in Seq(X) /\ \A line \in X : Sound(p, line) /\ InitLine(line)
  BY GlobalsLines
<1> DEFINE Y == X \cup {first, call, halt}
           e == <<first>> \o g \o <<call, halt>>
           m == Len(g) + 3
<1>2. EmitInit(p) = e
  BY DEF EmitInit
<1>3. ~ Stops(first) /\ Stops(halt)
  BY SoundLabel DEF Stops, Asm
<1>4. \A line \in Y : Sound(p, line) /\ InitLine(line)
  <2>1. Sound(p, first) /\ InitLine(first)
    BY SoundLabel DEF InitLine, Label
  <2>2. Sound(p, call) /\ InitLine(call)
    BY SoundAsmTo DEF Opcodes, InitLine, InitOps, AsmTo
  <2>3. "HALT" \in Opcodes \ (Jumps \cup {"CALL", "ST"})
    BY DEF Opcodes, FirstIsRegister, Jumps
  <2>4. Sound(p, halt) /\ InitLine(halt)
    BY <2>3, SoundAsm DEF InitLine, InitOps, Asm
  <2> QED
    BY <1>1, <2>1, <2>2, <2>4
<1> HIDE DEF first, call, halt, g
<1>5. first \in Y /\ call \in Y /\ halt \in Y /\ g \in Seq(Y)
  BY <1>1
<1> HIDE DEF Y
<1>6. /\ e \in Seq(Y) /\ Len(e) = m /\ m \in Nat /\ m >= 1
      /\ e[1] = first /\ e[m] = halt
  BY <1>5
<1> HIDE DEF e, m
<1>7. DOMAIN e = 1 .. m /\ \A n \in 1 .. m : e[n] \in Y
  BY <1>6
<1> QED
  BY <1>2, <1>3, <1>4, <1>6, <1>7

\* What is generated for a program that lowering can produce: lines of the
\* machine's instructions, from which control does not run out, beginning with
\* the label of _init.
SoundCode(p, T, Y) ==
    /\ T \in Seq(Y)
    /\ Enclosed(T)
    /\ Len(T) >= 1 /\ T[1].fn = 0 /\ ~ Stops(T[1].line)
    /\ \A r \in Y : Sound(p, r.line) /\ (r.fn = 0 => InitLine(r.line))

LEMMA GeneratedLines ==
    ASSUME NEW p, WellFormed(p)
    PROVE  \E Y : SoundCode(p, Generate(p), Y)
<1> DEFINE n == Len(p.functions)
           init == From(0, 0, EmitInit(p))
           F(f) == EmitFunction(p, f)
           fs == [f \in 1 .. n |-> F(f)]
           Good(r) == Sound(p, r.line) /\ (r.fn = 0 => InitLine(r.line))
<1>1. /\ n \in Nat /\ DOMAIN p.functions = 1 .. n
      /\ \A f \in 1 .. n : /\ p.functions[f] \in IRFunctions
                           /\ EndsWithReturn(p.functions[f].body)
  BY Lengths
<1>2. Generate(p) = init \o FlattenSeq(fs)
  BY <1>1 DEF Generate
<1>3. PICK X : /\ Section(p, 0, X, init) /\ \A r \in X : InitLine(r.line)
               /\ ~ Stops(init[1].line) /\ Stops(init[Len(init)].line)
  <2> DEFINE e == EmitInit(p)
  <2>1. PICK m \in Nat : /\ m >= 1
                         /\ DOMAIN e = 1 .. m
                         /\ \A k \in 1 .. m : Sound(p, e[k]) /\ InitLine(e[k])
                         /\ ~ Stops(e[1])
                         /\ Stops(e[m])
    BY InitLines
  <2>2. PICK X : Tagged(p, 0, 0, m, e, X)
    <3> HIDE DEF e
    <3> QED
      BY <2>1, FromLines
  <2> HIDE DEF e
  <2>3. Section(p, 0, X, init) /\ Len(init) = m
    BY <2>2 DEF Tagged, e
  <2>4. \A r \in X : InitLine(r.line)
    BY <2>1, <2>2 DEF Tagged
  <2>5. init[1].line = e[1] /\ init[m].line = e[m]
    <3>1. 1 \in 1 .. m /\ m \in 1 .. m
      BY <2>1
    <3> QED
      BY <2>2, <3>1 DEF Tagged, e
  <2> QED
    BY <2>1, <2>3, <2>4, <2>5
<1> DEFINE Y == X \cup {r \in UNION {{F(f)[j] : j \in DOMAIN F(f)} : f \in 1 .. n} : Good(r)}
           G == {s \in Seq(Y) : Enclosed(s)}
<1>4. \A r \in Y : Good(r)
  BY <1>3 DEF Section
<1> HIDE DEF init, F, n, Good
<1>5. init \in G /\ init[1].fn = 0 /\ Len(init) >= 1
  <2>1. Enclosed(init)
    BY <1>3, SectionEnclosed
  <2>2. init \in Seq(X) /\ Len(init) >= 1 /\ \A r \in X : r.fn = 0
    BY <1>3 DEF Section
  <2>3. init \in Seq(Y)
    BY <2>2
  <2>4. init[1] \in X
    BY <2>2
  <2> QED
    BY <2>1, <2>2, <2>3, <2>4
<1>6. ASSUME NEW f \in 1 .. n PROVE F(f) \in G
  <2>1. PICK Z : Section(p, f, Z, F(f)) /\ Stops(F(f)[Len(F(f))].line)
    BY <1>1, FunctionLines DEF F
  <2>2. Enclosed(F(f))
    BY <2>1, SectionEnclosed
  <2>3. F(f) \in Seq(Z) /\ \A r \in Z : r.fn = f /\ Sound(p, r.line)
    BY <2>1 DEF Section
  <2>4. \A r \in Z : Good(r)
    BY <1>1, <2>3 DEF Good
  <2>5. \A j \in DOMAIN F(f) : F(f)[j] \in Z
    BY <2>3
  <2>6. \A j \in DOMAIN F(f) : F(f)[j] \in Y
    BY <2>4, <2>5
  <2> HIDE DEF Y
  <2>7. F(f) \in Seq(Y)
    BY <2>3, <2>6
  <2> QED
    BY <2>2, <2>7
<1>7. <<>> \in G /\ \A s \in G, t \in G : s \o t \in G
  <2> HIDE DEF Y
  <2>1. <<>> \in G
    BY DEF Enclosed
  <2>2. ASSUME NEW s \in G, NEW t \in G PROVE s \o t \in G
    <3>1. s \in Seq(Y) /\ t \in Seq(Y) /\ Enclosed(s) /\ Enclosed(t)
      BY <2>2
    <3>2. Enclosed(s \o t)
      BY <3>1, EnclosedJoin
    <3>3. s \o t \in Seq(Y)
      BY <3>1
    <3> QED
      BY <3>2, <3>3
  <2> QED
    BY <2>1, <2>2
<1>8. fs \in Seq(G)
  <2> HIDE DEF G
  <2>1. fs \in [1 .. n -> G]
    BY <1>6
  <2> HIDE DEF fs
  <2> QED
    BY <1>1, <2>1
<1>9. FlattenSeq(fs) \in G
  <2> HIDE DEF G, fs
  <2> QED
    BY <1>7, <1>8, FlattenIn
<1> DEFINE T == init \o FlattenSeq(fs)
<1>10. T \in G /\ T[1] = init[1] /\ Len(T) >= 1
  <2> HIDE DEF fs, Y
  <2>1. T \in G
    BY <1>5, <1>7, <1>9
  <2>2. FlattenSeq(fs) \in Seq(Y) /\ init \in Seq(Y)
    BY <1>5, <1>9
  <2> QED
    BY <1>5, <2>1, <2>2
<1> HIDE DEF T
<1>11. Generate(p) = T
  BY <1>2 DEF T
<1>12. T \in Seq(Y) /\ Enclosed(T)
  <2> HIDE DEF Y
  <2> QED
    BY <1>10
<1> HIDE DEF Y, G
<1> QED
  BY <1>3, <1>4, <1>5, <1>10, <1>11, <1>12 DEF SoundCode, Good

-----------------------------------------------------------------------------
(* The image.                                                              *)

\* What instruction q of the image c, which comes from at[q], may do: it goes
\* on to an instruction of its function, or branches to an instruction; _init
\* neither branches nor returns; ST writes below the address end.
SafeAt(c, at, end, q) ==
    /\ c[q].op \in Opcodes
    /\ c[q].op \notin {"RET", "HALT"} => q + 1 \in DOMAIN c /\ at[q + 1].fn = at[q].fn
    /\ c[q].op \in Jumps \cup {"CALL"} => c[q].a + 1 \in DOMAIN c
    /\ at[q].fn = 0 => c[q].op \in InitOps
    /\ c[q].op = "ST" => c[q].b < end

SafeImage(c, at, end) ==
    /\ 1 \in DOMAIN c /\ at[1].fn = 0
    /\ \A q \in DOMAIN c : SafeAt(c, at, end, q)

\* What the first pass finds of the lines T; N[q] is the line of instruction q,
\* Len(I[k]) how many instructions there are in the first k lines.
LEMMA PassFacts ==
    ASSUME NEW p, NEW Y, NEW T, SoundCode(p, T, Y),
           NEW I, I = InstrLines(Lines(T)), NEW N, N = I[Len(T)]
    PROVE  /\ 1 \in DOMAIN N /\ T[N[1]].fn = 0
           /\ \A q \in DOMAIN N : /\ N[q] \in DOMAIN T
                                  /\ T[N[q]].line.kind = "instr"
                                  /\ Sound(p, T[N[q]].line)
                                  /\ T[N[q]].fn = 0 => InitLine(T[N[q]].line)
                                  /\ ~ Stops(T[N[q]].line) =>
                                        q + 1 \in DOMAIN N /\ T[N[q + 1]].fn = T[N[q]].fn
           /\ \A k \in DOMAIN T : T[k].line.kind = "label" =>
                 Len(I[k - 1]) + 1 \in DOMAIN N
<1> DEFINE n == Len(T)
           L == Lines(T)
           K == {T[k].line : k \in DOMAIN T}
<1>1. /\ T \in Seq(Y) /\ Enclosed(T)
      /\ n >= 1 /\ T[1].fn = 0 /\ ~ Stops(T[1].line)
      /\ \A r \in Y : Sound(p, r.line) /\ (r.fn = 0 => InitLine(r.line))
  BY DEF SoundCode
<1>2. n \in Nat /\ DOMAIN T = 1 .. n /\ \A k \in 1 .. n : T[k] \in Y
  BY <1>1
<1>3. L \in Seq(K) /\ Len(L) = n /\ \A k \in 1 .. n : L[k] = T[k].line
  BY <1>1, <1>2, LinesOf
<1> HIDE DEF L, K
<1>4. /\ I[0] = <<>>
      /\ \A k \in 1 .. n : I[k] = IF T[k].line.kind = "instr" THEN Append(I[k - 1], k)
                                  ELSE I[k - 1]
  <2>1. /\ InstrLines(L)[0] = <<>>
        /\ \A k \in 1 .. n : InstrLines(L)[k] =
              IF L[k].kind = "instr" THEN Append(InstrLines(L)[k - 1], k)
              ELSE InstrLines(L)[k - 1]
    BY <1>3, InstrLinesStep
  <2> QED
    BY <1>3, <2>1 DEF L
<1>5. \A q \in DOMAIN N : /\ N[q] \in 1 .. n
                          /\ L[N[q]].kind = "instr"
                          /\ Len(I[N[q]]) = q
  <2>1. I = InstrLines(L) /\ N = I[Len(L)]
    BY <1>3 DEF L
  <2> HIDE DEF n
  <2>2. \A q \in DOMAIN InstrLines(L)[Len(L)] :
            /\ InstrLines(L)[Len(L)][q] \in 1 .. Len(L)
            /\ L[InstrLines(L)[Len(L)][q]].kind = "instr"
            /\ Len(InstrLines(L)[InstrLines(L)[Len(L)][q]]) = q
    BY <1>3, InstrLinesFound
  <2> QED
    BY <1>3, <2>1, <2>2
<1>6. ASSUME NEW k \in 1 .. n, ~ Stops(T[k].line)
      PROVE  Len(I[k]) + 1 \in DOMAIN N /\ T[N[Len(I[k]) + 1]].fn = T[k].fn
  BY <1>1, <1>2, <1>6, InstrFollows
<1>7. ASSUME NEW k \in 1 .. n, T[k].line.kind = "label"
      PROVE  /\ I[k] = I[k - 1] /\ ~ Stops(T[k].line)
  BY <1>4, <1>7 DEF Stops
<1> HIDE DEF n
<1>8. 1 \in DOMAIN N /\ T[N[1]].fn = 0
  <2>1. 1 \in 1 .. n /\ 1 - 1 = 0
    BY <1>1, <1>2 DEF n
  <2>2. CASE T[1].line.kind = "instr"
    <3>1. I[1] = Append(<<>>, 1)
      BY <1>4, <2>1, <2>2
    <3>2. Len(Append(<<>>, 1)) = 1
      OBVIOUS
    <3> DEFINE J == InstrLines(L)
    <3>3. Len(I[1]) \in DOMAIN N /\ N[Len(I[1])] = 1
      <4>1. L[1].kind = "instr"
        BY <1>3, <2>1, <2>2 DEF n
      <4>2. Len(J[1]) \in DOMAIN J[Len(L)] /\ J[Len(L)][Len(J[1])] = 1
        <5>1. \A k \in 1 .. Len(L) : L[k].kind = "instr" =>
                 /\ Len(InstrLines(L)[k]) \in DOMAIN InstrLines(L)[Len(L)]
                 /\ InstrLines(L)[Len(L)][Len(InstrLines(L)[k])] = k
          BY <1>3, InstrLinesFound
        <5> QED
          BY <5>1, <4>1, <2>1, <1>3 DEF n
      <4> QED
        BY <4>2, <1>3 DEF L, n
    <3>4. Len(I[1]) = 1
      BY <3>1, <3>2
    <3> QED
      BY <1>1, <3>3, <3>4
  <2>3. CASE T[1].line.kind # "instr"
    <3>1. I[1] = <<>>
      BY <1>4, <2>1, <2>3
    <3>2. Len(I[1]) + 1 = 1
      BY <3>1
    <3> QED
      BY <1>1, <1>6, <2>1, <3>2
  <2> QED
    BY <2>2, <2>3
<1>9. ASSUME NEW q \in DOMAIN N
      PROVE  /\ N[q] \in DOMAIN T
             /\ T[N[q]].line.kind = "instr"
             /\ Sound(p, T[N[q]].line)
             /\ T[N[q]].fn = 0 => InitLine(T[N[q]].line)
             /\ ~ Stops(T[N[q]].line) => q + 1 \in DOMAIN N /\ T[N[q + 1]].fn = T[N[q]].fn
  <2>1. N[q] \in 1 .. n /\ L[N[q]].kind = "instr" /\ Len(I[N[q]]) = q
    BY <1>5
  <2>2. T[N[q]] \in Y /\ L[N[q]] = T[N[q]].line /\ N[q] \in DOMAIN T
    BY <1>2, <1>3, <2>1 DEF n
  <2> QED
    BY <1>1, <1>6, <2>1, <2>2
<1>10. \A k \in DOMAIN T : T[k].line.kind = "label" => Len(I[k - 1]) + 1 \in DOMAIN N
  <2> SUFFICES ASSUME NEW k \in DOMAIN T, T[k].line.kind = "label"
               PROVE  Len(I[k - 1]) + 1 \in DOMAIN N
    OBVIOUS
  <2>1. k \in 1 .. n
    BY <1>2 DEF n
  <2> QED
    BY <1>6, <1>7, <2>1
<1> QED
  BY <1>8, <1>9, <1>10

\* What the second pass does with them: every branch names a label, and a name
\* labels one line.
Assembled(p, T, I, N, labels) ==
    /\ Compile(p).code = [q \in DOMAIN N |-> Encode(Lines(T)[N[q]], labels)]
    /\ Compile(p).map = [q \in DOMAIN N |-> T[N[q]]]
    /\ \A q \in DOMAIN N : Lines(T)[N[q]].op \in BranchOpcodes =>
          \E k \in DOMAIN Lines(T) : /\ Lines(T)[k].kind = "label"
                                     /\ Lines(T)[k].name = Lines(T)[N[q]].label
    /\ \A k \in DOMAIN Lines(T) : Lines(T)[k].kind = "label" =>
          labels[Lines(T)[k].name] = Len(I[k - 1])
    /\ \A k, m \in DOMAIN Lines(T) :
          /\ Lines(T)[k].kind = "label" /\ Lines(T)[m].kind = "label"
          /\ Lines(T)[k].name = Lines(T)[m].name
          => k = m

LEMMA ImageOf ==
    ASSUME NEW p, NEW T, T = Generate(p), Compile(p).error = "none",
           NEW I, I = InstrLines(Lines(T)), NEW N, N = I[Len(Lines(T))]
    PROVE  \E labels : Assembled(p, T, I, N, labels)
<1> DEFINE L == Lines(T)
           at == {k \in DOMAIN L : L[k].kind = "label"}
           labels == [name \in {L[k].name : k \in at} |->
                         Len(I[(CHOOSE k \in at : L[k].name = name) - 1])]
           instrs == [q \in DOMAIN N |-> L[N[q]]]
           duplicate == \E k, m \in at : k # m /\ L[k].name = L[m].name
           undefined == \E k \in DOMAIN instrs : /\ instrs[k].op \in BranchOpcodes
                                                 /\ instrs[k].label \notin DOMAIN labels
<1>1. /\ Pass1(L).instrs = instrs /\ Pass1(L).labels = labels
      /\ Pass1(L).duplicate = duplicate
  BY DEF Pass1
<1>2. /\ Assemble(L).error = "none"
      /\ Compile(p).code = Assemble(L).code
      /\ Compile(p).map = [q \in DOMAIN N |-> T[N[q]]]
  BY DEF Compile
<1> HIDE DEF L, at, labels, instrs, duplicate
<1>3. ~ Pass1(L).duplicate /\ ~ duplicate /\ ~ undefined
  BY <1>1, <1>2 DEF Assemble
<1>4. Assemble(L).code = [k \in DOMAIN instrs |-> Encode(instrs[k], labels)]
  BY <1>1, <1>3 DEF Assemble
<1>5. Compile(p).code = [q \in DOMAIN N |-> Encode(L[N[q]], labels)]
  BY <1>2, <1>4 DEF instrs
<1>6. ASSUME NEW q \in DOMAIN N, L[N[q]].op \in BranchOpcodes
      PROVE  \E k \in DOMAIN L : L[k].kind = "label" /\ L[k].name = L[N[q]].label
  <2>1. L[N[q]].label \in DOMAIN labels
    BY <1>3, <1>6 DEF instrs
  <2>2. PICK k \in at : L[k].name = L[N[q]].label
    BY <2>1 DEF labels
  <2> QED
    BY <2>2 DEF at
<1>7. ASSUME NEW k \in DOMAIN L, L[k].kind = "label"
      PROVE  labels[L[k].name] = Len(I[k - 1])
  <2> DEFINE j == CHOOSE j \in at : L[j].name = L[k].name
  <2>1. k \in at
    BY <1>7 DEF at
  <2>2. j \in at /\ L[j].name = L[k].name
    BY <2>1
  <2>3. labels[L[k].name] = Len(I[j - 1])
    BY <2>1 DEF labels
  <2> HIDE DEF j
  <2>4. j = k
    BY <1>3, <2>1, <2>2 DEF duplicate
  <2> QED
    BY <2>3, <2>4
<1>8. ASSUME NEW k \in DOMAIN L, NEW m \in DOMAIN L, L[k].kind = "label", L[m].kind = "label",
             L[k].name = L[m].name
      PROVE  k = m
  BY <1>3, <1>8 DEF at, duplicate
<1>9. Assembled(p, T, I, N, labels)
  BY <1>2, <1>5, <1>6, <1>7, <1>8 DEF Assembled, L
<1> QED
  BY <1>9

LEMMA CompiledIsSafe ==
    ASSUME NEW p, WellFormed(p), Compile(p).error = "none"
    PROVE  SafeImage(Compile(p).code, Compile(p).map, NextFree(p))
<1> DEFINE T == Generate(p)
           I == InstrLines(Lines(T))
           N == I[Len(T)]
           c == Compile(p).code
           at == Compile(p).map
           end == NextFree(p)
<1>1. PICK Y : SoundCode(p, T, Y)
  BY GeneratedLines
<1>2. /\ T \in Seq(Y) /\ Len(Lines(T)) = Len(T) /\ DOMAIN Lines(T) = DOMAIN T
      /\ \A k \in DOMAIN T : Lines(T)[k] = T[k].line
  <2>1. T \in Seq(Y)
    BY <1>1 DEF SoundCode
  <2> HIDE DEF T
  <2>2. DOMAIN Lines(T) = DOMAIN T
    BY DEF Lines
  <2> QED
    BY <2>1, <2>2, LinesOf
<1>3. PICK labels : Assembled(p, T, I, N, labels)
  <2>1. N = I[Len(Lines(T))]
    BY <1>2
  <2> HIDE DEF N
  <2> QED
    BY <2>1, ImageOf
<1>4. /\ 1 \in DOMAIN N /\ T[N[1]].fn = 0
      /\ \A q \in DOMAIN N : /\ N[q] \in DOMAIN T
                             /\ T[N[q]].line.kind = "instr"
                             /\ Sound(p, T[N[q]].line)
                             /\ T[N[q]].fn = 0 => InitLine(T[N[q]].line)
                             /\ ~ Stops(T[N[q]].line) =>
                                   q + 1 \in DOMAIN N /\ T[N[q + 1]].fn = T[N[q]].fn
      /\ \A k \in DOMAIN T : T[k].line.kind = "label" => Len(I[k - 1]) + 1 \in DOMAIN N
  <2> HIDE DEF T
  <2> QED
    BY <1>1, PassFacts
<1> HIDE DEF T, I, N
<1>5. c = [q \in DOMAIN N |-> Encode(Lines(T)[N[q]], labels)] /\ at = [q \in DOMAIN N |-> T[N[q]]]
  BY <1>3 DEF Assembled
<1> HIDE DEF c, at, end
<1>6. \A q \in DOMAIN N : c[q] = Encode(T[N[q]].line, labels) /\ at[q] = T[N[q]]
  BY <1>2, <1>4, <1>5
<1>7. ASSUME NEW q \in DOMAIN N, T[N[q]].line.op \in BranchOpcodes
      PROVE  labels[T[N[q]].line.label] + 1 \in DOMAIN N
  <2>1. PICK k \in DOMAIN Lines(T) : /\ Lines(T)[k].kind = "label"
                                     /\ Lines(T)[k].name = T[N[q]].line.label
    BY <1>2, <1>3, <1>4, <1>7 DEF Assembled
  <2>2. labels[T[N[q]].line.label] = Len(I[k - 1])
    BY <1>3, <2>1 DEF Assembled
  <2>3. k \in DOMAIN T /\ T[k].line.kind = "label"
    BY <1>2, <2>1
  <2>4. Len(I[k - 1]) + 1 \in DOMAIN N
    BY <1>4, <2>3
  <2> QED
    BY <2>2, <2>4
<1>8. ASSUME NEW q \in DOMAIN N PROVE SafeAt(c, at, end, q)
  <2> DEFINE line == T[N[q]].line
  <2>1. /\ line.kind = "instr" /\ Sound(p, line)
        /\ T[N[q]].fn = 0 => InitLine(line)
        /\ ~ Stops(line) => q + 1 \in DOMAIN N /\ T[N[q + 1]].fn = T[N[q]].fn
    BY <1>4
  <2>2. /\ c[q].op = line.op /\ c[q].b = line.b
        /\ line.op \in BranchOpcodes => c[q].a = labels[line.label]
    <3>1. c[q] = Encode(line, labels)
      BY <1>6
    <3>2. Encode(line, labels).op = line.op /\ Encode(line, labels).b = line.b
      BY DEF Encode
    <3>3. line.op \in BranchOpcodes => Encode(line, labels).a = labels[line.label]
      BY DEF Encode
    <3> HIDE DEF line
    <3> QED
      BY <3>1, <3>2, <3>3
  <2> HIDE DEF line
  <2>3. c[q].op \in Opcodes
    BY <2>1, <2>2 DEF Sound
  <2>4. c[q].op \notin {"RET", "HALT"} => q + 1 \in DOMAIN c /\ at[q + 1].fn = at[q].fn
    BY <1>5, <1>6, <2>1, <2>2 DEF Stops
  <2>5. ASSUME c[q].op \in Jumps \cup {"CALL"} PROVE c[q].a + 1 \in DOMAIN c
    <3>1. line.op \in BranchOpcodes
      BY <2>2, <2>5 DEF Jumps, BranchOpcodes
    <3>2. labels[line.label] + 1 \in DOMAIN N
      BY <1>7, <3>1 DEF line
    <3> QED
      BY <1>5, <2>2, <3>1, <3>2
  <2>6. at[q].fn = 0 => c[q].op \in InitOps
    BY <1>6, <2>1, <2>2 DEF InitLine
  <2>7. c[q].op = "ST" => c[q].b < end
    BY <2>1, <2>2 DEF Sound, end
  <2> QED
    BY <2>3, <2>4, <2>5, <2>6, <2>7 DEF SafeAt
<1>9. 1 \in DOMAIN c /\ at[1].fn = 0
  BY <1>4, <1>5, <1>6
<1> QED
  BY <1>5, <1>8, <1>9 DEF SafeImage, c, at, end

-----------------------------------------------------------------------------
(* The machine on such an image.                                           *)

\* Control is at x with the calls P pending: both are instructions, and the
\* bottom of the calls is _init.
Placed(c, at, x, P) ==
    /\ x + 1 \in DOMAIN c
    /\ \A k \in DOMAIN P : P[k] + 1 \in DOMAIN c
    /\ P = <<>> => at[x + 1].fn = 0
    /\ P # <<>> => at[P[Len(P)] + 1].fn = 0

LEMMA PlacedGoesOn ==
    ASSUME NEW c, NEW at, NEW end, NEW x \in Int, NEW P \in Seq(Int),
           SafeImage(c, at, end), Placed(c, at, x, P), c[x + 1].op \notin {"RET", "HALT"}
    PROVE  Placed(c, at, x + 1, P)
<1>1. SafeAt(c, at, end, x + 1)
  BY DEF SafeImage, Placed
<1>2. (x + 1) + 1 \in DOMAIN c /\ at[(x + 1) + 1].fn = at[x + 1].fn
  BY <1>1 DEF SafeAt
<1> QED
  BY <1>2 DEF Placed

LEMMA PlacedJumps ==
    ASSUME NEW c, NEW at, NEW end, NEW x \in Int, NEW P \in Seq(Int),
           SafeImage(c, at, end), Placed(c, at, x, P), c[x + 1].op \in Jumps
    PROVE  Placed(c, at, c[x + 1].a, P)
<1>1. SafeAt(c, at, end, x + 1)
  BY DEF SafeImage, Placed
<1>2. c[x + 1].a + 1 \in DOMAIN c
  BY <1>1 DEF SafeAt
<1>3. at[x + 1].fn # 0
  BY <1>1 DEF SafeAt, InitOps, Jumps
<1> QED
  BY <1>2, <1>3 DEF Placed

LEMMA PlacedCalls ==
    ASSUME NEW c, NEW at, NEW end, NEW x \in Int, NEW P \in Seq(Int),
           SafeImage(c, at, end), Placed(c, at, x, P), c[x + 1].op = "CALL"
    PROVE  Placed(c, at, c[x + 1].a, <<x + 1>> \o P)
<1> DEFINE Q == <<x + 1>> \o P
           l == Len(P)
<1>1. SafeAt(c, at, end, x + 1)
  BY DEF SafeImage, Placed
<1>2. /\ c[x + 1].a + 1 \in DOMAIN c
      /\ (x + 1) + 1 \in DOMAIN c /\ at[(x + 1) + 1].fn = at[x + 1].fn
  BY <1>1 DEF SafeAt
<1>3. /\ l \in Nat /\ Len(Q) = l + 1 /\ DOMAIN Q = 1 .. l + 1 /\ DOMAIN P = 1 .. l
      /\ Q[1] = x + 1 /\ \A k \in 1 .. l : Q[k + 1] = P[k]
  <2>1. x + 1 \in Int
    OBVIOUS
  <2> QED
    BY <2>1
<1> HIDE DEF Q, l
<1>4. \A k \in DOMAIN Q : Q[k] + 1 \in DOMAIN c
  <2> SUFFICES ASSUME NEW k \in 1 .. l + 1 PROVE Q[k] + 1 \in DOMAIN c
    BY <1>3
  <2>1. CASE k = 1
    BY <2>1, <1>2, <1>3
  <2>2. CASE k # 1
    <3>1. k - 1 \in 1 .. l /\ (k - 1) + 1 = k
      BY <2>2, <1>3
    <3>2. Q[k] = P[k - 1] /\ k - 1 \in DOMAIN P
      BY <1>3, <3>1
    <3> QED
      BY <3>2 DEF Placed
  <2> QED
    BY <2>1, <2>2
<1>5. Q # <<>>
  BY <1>3
<1>6. at[Q[Len(Q)] + 1].fn = 0
  <2>1. CASE P = <<>>
    <3>1. l = 0 /\ Q[Len(Q)] = x + 1
      BY <2>1, <1>3 DEF l
    <3> QED
      BY <2>1, <3>1, <1>2 DEF Placed
  <2>2. CASE P # <<>>
    <3>1. l \in 1 .. l
      BY <2>2, <1>3 DEF l
    <3>2. Q[Len(Q)] = P[l]
      BY <1>3, <3>1
    <3> QED
      BY <2>2, <3>2 DEF Placed, l
  <2> QED
    BY <2>1, <2>2
<1>7. Placed(c, at, c[x + 1].a, Q)
  BY <1>2, <1>4, <1>5, <1>6 DEF Placed
<1> QED
  BY <1>7 DEF Q

LEMMA PlacedReturns ==
    ASSUME NEW c, NEW at, NEW x \in Int, NEW P \in Seq(Int),
           Placed(c, at, x, P), P # <<>>
    PROVE  Placed(c, at, Head(P), Tail(P))
<1> DEFINE Q == Tail(P)
           l == Len(P)
<1>1. /\ l \in Nat /\ l >= 1 /\ Len(Q) = l - 1 /\ DOMAIN Q = 1 .. l - 1
      /\ Head(P) = P[1] /\ DOMAIN P = 1 .. l
      /\ \A k \in 1 .. l - 1 : Q[k] = P[k + 1]
  OBVIOUS
<1> HIDE DEF Q
<1>2. Q = <<>> => l = 1
  <2> HIDE DEF l
  <2>1. Len(<<>>) = 0
    OBVIOUS
  <2> QED
    BY <1>1, <2>1
<1>3. P[1] + 1 \in DOMAIN c
  BY <1>1 DEF Placed
<1>4. \A k \in DOMAIN Q : Q[k] + 1 \in DOMAIN c
  <2> HIDE DEF l
  <2> SUFFICES ASSUME NEW k \in 1 .. l - 1 PROVE Q[k] + 1 \in DOMAIN c
    BY <1>1
  <2>1. k + 1 \in DOMAIN P /\ Q[k] = P[k + 1]
    BY <1>1
  <2> QED
    BY <2>1 DEF Placed
<1>5. at[P[l] + 1].fn = 0
  BY DEF Placed
<1>6. CASE Q = <<>>
  <2>1. Head(P) = P[l]
    BY <1>1, <1>2, <1>6
  <2> QED
    BY <1>3, <1>1, <1>4, <1>5, <1>6, <2>1 DEF Placed, Q
<1>7. CASE Q # <<>>
  <2>1. Len(Q) # 0
    <3>1. Q \in Seq(Int)
      BY DEF Q
    <3> QED
      BY <3>1, <1>7
  <2>2. Q[Len(Q)] = P[l]
    <3> HIDE DEF l
    <3>1. l - 1 \in 1 .. l - 1 /\ (l - 1) + 1 = l
      BY <1>1, <2>1
    <3>2. Q[l - 1] = P[l]
      BY <1>1, <3>1
    <3> QED
      BY <1>1, <3>2
  <2>3. Head(P) + 1 \in DOMAIN c
    BY <1>1, <1>3
  <2>4. Placed(c, at, Head(P), Q)
    BY <1>4, <1>5, <1>7, <2>2, <2>3 DEF Placed
  <2> QED
    BY <2>4 DEF Q
<1> QED
  BY <1>6, <1>7

\* _init does not return.
LEMMA PlacedHasCaller ==
    ASSUME NEW c, NEW at, NEW end, NEW x, NEW P,
           SafeImage(c, at, end), Placed(c, at, x, P), c[x + 1].op = "RET"
    PROVE  P # <<>>
<1>1. SafeAt(c, at, end, x + 1)
  BY DEF SafeImage, Placed
<1>2. at[x + 1].fn # 0
  BY <1>1 DEF SafeAt, InitOps
<1> QED
  BY <1>2 DEF Placed

\* The inductive invariant: that of the machine; the image is one that
\* compiling gave; and as long as the machine runs, control is placed.
CInv ==
    /\ IInv
    /\ prog.ir \in IRSources
    /\ SafeImage(code, prog.map, NextFree(prog.ir))
    /\ NoCodeFault
    /\ outcome = "running" => Placed(code, prog.map, pc, PendingReturns)

LEMMA RunInitIsInit ==
    ASSUME RunInit
    PROVE  Init
<1>1. PICK p \in IRSources : prog = Compile(p)
  BY DEF RunInit
<1>2. code = prog.code /\ Reset
  BY DEF RunInit
<1>3. prog.code \in Images
  BY <1>1 DEF Images
<1>4. code \in Programs
  BY <1>2, <1>3, CompiledRunAssumption
<1> QED
  BY <1>2, <1>4 DEF Init

LEMMA RunInitEstablishesCInv ==
    ASSUME RunInit
    PROVE  CInv
<1>1. PICK p \in IRSources : prog = Compile(p)
  BY DEF RunInit
<1>2. prog.error = "none" /\ code = prog.code /\ Reset
  BY DEF RunInit
<1>4. Init
  BY RunInitIsInit
<1>5. prog.ir = p /\ SafeImage(code, prog.map, NextFree(prog.ir))
  <2>1. Compile(p).ir = p
    BY DEF Compile
  <2> QED
    BY <1>1, <1>2, <2>1, CompiledRunAssumption, CompiledIsSafe
<1>6. PendingReturns = <<>>
  BY <1>4, InitSimulates DEF Stack!Init
<1>7. pc = 0 /\ outcome = "running"
  BY <1>2 DEF Reset
<1>8. Placed(code, prog.map, pc, <<>>)
  <2>1. 0 + 1 = 1
    OBVIOUS
  <2>2. DOMAIN <<>> = {}
    OBVIOUS
  <2> QED
    BY <1>5, <1>7, <2>1, <2>2 DEF SafeImage, Placed
<1> QED
  BY <1>1, <1>4, <1>5, <1>6, <1>7, <1>8, InitEstablishesIInv DEF CInv, NoCodeFault

\* An instruction that completes ends no run by a fault.
LEMMA CompletedIsPlaced ==
    ASSUME CInv, IInv', Completed, UNCHANGED prog,
           Placed(code, prog.map, pc', PendingReturns')
    PROVE  CInv'
<1>1. code' = code /\ outcome' \in {"running", "step limit"}
  BY DEF Completed
<1> QED
  BY <1>1 DEF CInv, NoCodeFault

LEMMA EndIsSafe ==
    ASSUME CInv, IInv', UNCHANGED <<code, prog>>, NoCodeFault', outcome' # "running"
    PROVE  CInv'
BY DEF CInv

\* What holds while control is placed.
LEMMA RunningFacts ==
    ASSUME CInv, outcome = "running"
    PROVE  /\ Fetchable
           /\ pc \in Int /\ pc + 1 \in DOMAIN code
           /\ PendingReturns \in Seq(Int)
           /\ Placed(code, prog.map, pc, PendingReturns)
           /\ SafeImage(code, prog.map, NextFree(prog.ir))
           /\ instr.op \in Opcodes
<1>1. /\ IInv /\ SafeImage(code, prog.map, NextFree(prog.ir))
      /\ Placed(code, prog.map, pc, PendingReturns)
  BY DEF CInv
<1>2. /\ sp \in Addresses /\ PendingReturns = CellsAbove(mem, sp)
      /\ mem \in [Addresses -> Word] /\ pc \in Int
  BY <1>1, RunningStack
<1>3. PendingReturns \in Seq(Int)
  <2>1. PendingReturns \in Seq(Word)
    BY <1>2, CellsAboveIsSequence
  <2>2. \A w \in Word : w \in Int
    BY WordFacts
  <2> HIDE DEF PendingReturns
  <2> QED
    BY <2>1, <2>2
<1>4. code \in Seq(Instructions)
  BY <1>1, VMAssumption DEF IInv, TypeOK
<1>5. pc + 1 \in DOMAIN code /\ DOMAIN code = 1 .. Len(code)
  BY <1>1, <1>4 DEF Placed
<1>6. pc >= 0 /\ pc < Len(code)
  BY <1>2, <1>4, <1>5
<1>7. instr.op \in Opcodes
  BY <1>1, <1>5 DEF SafeImage, SafeAt, instr
<1> QED
  BY <1>1, <1>2, <1>3, <1>5, <1>6, <1>7 DEF Fetchable

\* The step from one placed state to the next.
LEMMA StepKeepsCInv ==
    ASSUME CInv, IInv', RunNext, StoresBelowStack, \A p \in Programs : Len(p) <= WordMax
    PROVE  CInv'
<1> DEFINE op == instr.op
           P == PendingReturns
<1>1. Next /\ prog' = prog /\ IInv
  BY DEF RunNext, CInv
<1>2. outcome = "running"
  BY <1>1 DEF Next, LoadImmediate, Move, Load, Store, LoadIndirect, StoreIndirect, Add, Sub,
              Compare, Jmp, Jz, Jnz, Jg, Jl, Jge, Jle, Branch, Call, StackOverflow, Ret,
              StackUnderflow, PrintBase, PrintDecimal, PrintWord, Halt, Nop, PcOutOfBounds,
              UnknownOpcode, MemoryOutOfBounds, Executing, Fetchable
<1>3. /\ Fetchable
      /\ pc \in Int /\ pc + 1 \in DOMAIN code
      /\ P \in Seq(Int)
      /\ Placed(code, prog.map, pc, P)
      /\ SafeImage(code, prog.map, NextFree(prog.ir))
      /\ op \in Opcodes
  BY <1>2, RunningFacts
<1>4. /\ gp \in [Registers -> Word] /\ code \in Programs
      /\ Encoded(instr) /\ instr \in Instructions
  BY <1>1, <1>3, FetchedIsEncoded DEF IInv, TypeOK
<1>5. ASSUME Completed, op \notin {"RET", "HALT"}, pc' = pc + 1, PendingReturns' = P
      PROVE  CInv'
  <2>1. Placed(code, prog.map, pc + 1, P)
    BY <1>3, <1>5, PlacedGoesOn DEF instr
  <2> QED
    BY <1>1, <1>5, <2>1, CompletedIsPlaced
<1>6. CASE \/ LoadImmediate \/ Move \/ Load \/ LoadIndirect \/ Add \/ Sub \/ Compare
           \/ PrintBase \/ PrintDecimal \/ Nop
  <2>1. Completed /\ op \notin {"RET", "HALT"} /\ pc' = pc + 1 /\ UNCHANGED <<sp, mem>>
    BY <1>6 DEF LoadImmediate, Move, Load, LoadIndirect, Add, Sub, Arithmetic,
                Compare, PrintBase, PrintDecimal, PrintWord, Nop, Executing, Advance
  <2>2. Stack!Continue
    BY <1>1, <1>3, <2>1, CompletedContinues
  <2> QED
    BY <1>5, <2>1, <2>2 DEF Stack!Continue
<1>7. CASE Jmp \/ Jz \/ Jnz \/ Jg \/ Jl \/ Jge \/ Jle
  <2>1. /\ Completed /\ op \in Jumps /\ UNCHANGED <<sp, mem>>
        /\ pc' = instr.a \/ pc' = pc + 1
    BY <1>7 DEF Jmp, Jz, Jnz, Jg, Jl, Jge, Jle, Branch, Executing, Jumps
  <2>2. PendingReturns' = P
    <3>1. Stack!Continue
      BY <1>1, <1>3, <2>1, CompletedContinues
    <3> QED
      BY <3>1 DEF Stack!Continue
  <2>3. CASE pc' = instr.a
    <3>1. Placed(code, prog.map, instr.a, P)
      BY <1>3, <2>1, PlacedJumps DEF instr
    <3> QED
      BY <1>1, <2>1, <2>2, <2>3, <3>1, CompletedIsPlaced
  <2>4. CASE pc' = pc + 1
    <3>1. op \notin {"RET", "HALT"}
      BY <2>1 DEF Jumps
    <3> QED
      BY <1>5, <2>1, <2>2, <2>4, <3>1
  <2> QED
    BY <2>1, <2>3, <2>4
<1>8. CASE Store
  <2>1. op = "ST" /\ instr.a \in Registers /\ instr.b \in Addresses
    BY <1>4, <1>8 DEF Store, Executing, Encoded, FirstIsRegister
  <2>2. gp[instr.a] \in Int
    BY <1>4, <2>1, WordFacts
  <2>3. StoreWord(instr.b, gp[instr.a]) /\ Advance /\ sp' = sp
    BY <1>8 DEF Store
  <2>4. instr.b <= sp
    BY <1>3, <2>1 DEF StoresBelowStack, Operand
  <2>5. Stack!Continue
    BY <1>1, <1>3, <2>1, <2>2, <2>3, <2>4, StoreIsContinueOrOverwrite
  <2> QED
    BY <1>5, <2>1, <2>3, <2>5 DEF Stack!Continue, Advance
<1>9. CASE StoreIndirect
  <2>1. op = "STR" /\ instr.a \in Registers /\ gp[instr.b] \in Addresses
    BY <1>4, <1>9 DEF StoreIndirect, Executing, Encoded, FirstIsRegister
  <2>2. gp[instr.a] \in Int
    BY <1>4, <2>1, WordFacts
  <2>3. StoreWord(gp[instr.b], gp[instr.a]) /\ Advance /\ sp' = sp
    BY <1>9 DEF StoreIndirect
  <2>4. gp[instr.b] <= sp
    BY <1>3, <2>1 DEF StoresBelowStack, Operand
  <2>5. Stack!Continue
    BY <1>1, <1>3, <2>1, <2>2, <2>3, <2>4, StoreIsContinueOrOverwrite
  <2> QED
    BY <1>5, <2>1, <2>3, <2>5 DEF Stack!Continue, Advance
<1>10. CASE Call
  <2>1. op = "CALL" /\ Completed /\ pc' = instr.a
    BY <1>10 DEF Call, Executing
  <2>2. PendingReturns' = <<pc + 1>> \o P
    BY <1>1, <1>10, CallIsCall DEF Stack!Call
  <2>3. Placed(code, prog.map, instr.a, <<pc + 1>> \o P)
    BY <1>3, <2>1, PlacedCalls DEF instr
  <2> QED
    BY <1>1, <2>1, <2>2, <2>3, CompletedIsPlaced
<1>11. CASE Ret
  <2>1. Completed
    BY <1>11 DEF Ret
  <2>2. P # <<>> /\ pc' = Head(P) /\ PendingReturns' = Tail(P)
    BY <1>1, <1>11, RetIsReturn DEF Stack!Return
  <2>3. Placed(code, prog.map, Head(P), Tail(P))
    BY <1>3, <2>2, PlacedReturns
  <2> QED
    BY <1>1, <2>1, <2>2, <2>3, CompletedIsPlaced
<1>12. CASE StackUnderflow
  <2>1. op = "RET"
    BY <1>12 DEF StackUnderflow, Executing
  <2>2. P # <<>>
    BY <1>3, <2>1, PlacedHasCaller DEF instr
  <2>3. P = <<>>
    BY <1>1, <1>12, UnderflowIsUnderflow DEF Stack!Underflow
  <2> QED
    BY <2>2, <2>3
<1>13. CASE StackOverflow \/ MemoryOutOfBounds \/ Halt
  <2>1. code' = code /\ outcome' \in {"stack overflow", "memory out of bounds", "halted"}
    BY <1>13 DEF StackOverflow, MemoryOutOfBounds, Halt, Fault
  <2>2. NoCodeFault' /\ outcome' # "running"
    BY <2>1 DEF NoCodeFault
  <2> QED
    BY <1>1, <2>1, <2>2, EndIsSafe
<1>14. CASE PcOutOfBounds \/ UnknownOpcode
  BY <1>3, <1>14 DEF PcOutOfBounds, UnknownOpcode, Fetchable
<1> QED
  BY <1>1, <1>6, <1>7, <1>8, <1>9, <1>10, <1>11, <1>12, <1>13, <1>14 DEF Next

LEMMA StutterKeepsCInv ==
    ASSUME CInv, IInv', UNCHANGED runVars
    PROVE  CInv'
<1>1. UNCHANGED <<code, prog, outcome, pc, mem, sp>>
  BY DEF runVars, vars
<1>2. PendingReturns' = PendingReturns
  BY <1>1 DEF PendingReturns, CellsAbove, StackTop
<1> QED
  BY <1>1, <1>2 DEF CInv, NoCodeFault

LEMMA CInvIsInductive ==
    ASSUME CInv, StoresBelowStack, [RunNext]_runVars, \A p \in Programs : Len(p) <= WordMax
    PROVE  CInv'
<1>1. IInv'
  <2>1. [Next]_vars
    BY DEF RunNext, runVars
  <2> QED
    BY <2>1, StepKeepsIInv DEF CInv
<1> QED
  BY <1>1, StepKeepsCInv, StutterKeepsCInv

\* Compiled code never runs off its end, returns more often than it was called,
\* or holds an instruction the machine does not have: whatever the program, as
\* long as its stores stay below the stack and its addresses are words.
THEOREM CompiledCodeIsSafe ==
    ASSUME \A p \in Programs : Len(p) <= WordMax
    PROVE  RunSpec /\ []StoresBelowStack => []NoCodeFault
<1>1. RunInit => CInv
  BY RunInitEstablishesCInv
<1>2. CInv /\ StoresBelowStack /\ [RunNext]_runVars => CInv'
  BY CInvIsInductive
<1>3. CInv => NoCodeFault
  BY DEF CInv
<1> QED
  BY <1>1, <1>2, <1>3, PTL DEF RunSpec

-----------------------------------------------------------------------------
(* When the stores stay below the stack.                                   *)

LEMMA NoSlotIsInStore ==
    ASSUME NEW p, WellFormed(p)
    PROVE  NextFree(p) \in Nat /\ DataBase <= NextFree(p)
<1> DEFINE n == Len(p.functions)
           C == Cursor(p)
<1>1. n \in Nat /\ Len(p.globals) \in Nat
  BY Lengths
<1>2. C \in [0 .. n -> Nat] /\ C[0] = DataBase + Len(p.globals)
  BY CursorSteps
<1>3. 0 \in 0 .. n /\ n \in 0 .. n /\ 0 <= n
  BY <1>1
<1>4. C[0] <= C[n]
  BY <1>3, CursorGrows
<1>5. NextFree(p) = C[n]
  BY DEF NextFree
<1> HIDE DEF n, C
<1> QED
  BY <1>1, <1>2, <1>3, <1>4, <1>5, AddressMapAssumption

LEMMA LayoutKeepsStoresBelow ==
    ASSUME CInv, StackAboveSlots, StoreInStore
    PROVE  StoresBelowStack
<1> SUFFICES ASSUME Fetchable, instr.op \in {"ST", "STR"}, Operand \in Addresses
             PROVE  Operand <= sp
  BY DEF StoresBelowStack
<1> DEFINE end == NextFree(prog.ir)
<1>1. outcome = "running"
  BY DEF Fetchable
<1>2. sp \in Int /\ Operand \in Int
  <2>1. sp \in Addresses
    BY <1>1, RunningStack DEF CInv
  <2> HIDE DEF Operand
  <2> QED
    BY <2>1, VMAssumption DEF Addresses
<1>3. end \in Nat /\ DataBase <= end
  BY CompiledRunAssumption, NoSlotIsInStore DEF CInv
<1>4. end <= sp + 1
  BY <1>1 DEF StackAboveSlots, Source
<1>5. Operand < end
  <2>1. CASE instr.op = "ST"
    <3>1. pc + 1 \in DOMAIN code /\ SafeImage(code, prog.map, end)
      BY <1>1, RunningFacts
    <3>2. instr.b < end
      BY <2>1, <3>1 DEF SafeImage, SafeAt, instr
    <3> QED
      BY <2>1, <3>2 DEF Operand
  <2>2. CASE instr.op = "STR"
    <3>1. Operand < DataBase
      BY <2>2 DEF StoreInStore
    <3> HIDE DEF Operand, end
    <3> QED
      BY <1>2, <1>3, <3>1, AddressMapAssumption
  <2> QED
    BY <2>1, <2>2
<1> HIDE DEF Operand, end
<1> QED
  BY <1>2, <1>3, <1>4, <1>5

\* The layout of memory keeps compiled code from overwriting return addresses:
\* ST never reaches the stack, and so no store does, as long as the stack has
\* not grown into the slots and store[] is written where it is.
THEOREM CompiledStoresStayBelow ==
    ASSUME \A p \in Programs : Len(p) <= WordMax
    PROVE  RunSpec /\ []StackAboveSlots /\ []StoreInStore => []StoresBelowStack
<1>1. RunInit => CInv
  BY RunInitEstablishesCInv
<1>2. CInv /\ StackAboveSlots /\ StoreInStore => StoresBelowStack
  BY LayoutKeepsStoresBelow
<1>3. CInv /\ StoresBelowStack /\ [RunNext]_runVars => CInv'
  BY CInvIsInductive
<1> QED
  BY <1>1, <1>2, <1>3, PTL DEF RunSpec

\* Every call of a compiled program returns to where it was made, and no fault
\* is one of the code, under the same two conditions.
THEOREM CompiledCallsReturn ==
    ASSUME \A p \in Programs : Len(p) <= WordMax
    PROVE  RunSpec /\ []StackAboveSlots /\ []StoreInStore => CallsReturn /\ []NoCodeFault
<1>1. RunSpec /\ []StackAboveSlots /\ []StoreInStore => []StoresBelowStack
  BY CompiledStoresStayBelow
<1>2. RunSpec /\ []StoresBelowStack => []NoCodeFault
  BY CompiledCodeIsSafe
<1>3. RunInit => Stack!Init /\ CInv
  <2>1. RunInit => Init
    BY RunInitIsInit
  <2> QED
    BY <2>1, InitSimulates, RunInitEstablishesCInv
<1>4. CInv /\ StoresBelowStack /\ [RunNext]_runVars => CInv'
  BY CInvIsInductive
<1>5. CInv /\ CInv' /\ StoresBelowStack /\ [RunNext]_runVars => [Stack!Next]_(Stack!vars)
  <2> SUFFICES ASSUME CInv, CInv', StoresBelowStack, [RunNext]_runVars
               PROVE  [Stack!Next]_(Stack!vars)
    OBVIOUS
  <2>1. [Next]_vars
    BY DEF RunNext, runVars
  <2> QED
    BY <2>1, StepSimulates DEF CInv
<1> QED
  BY <1>1, <1>2, <1>3, <1>4, <1>5, PTL DEF RunSpec, CallsReturn, Stack!Spec

-----------------------------------------------------------------------------
(* Where the elements of joined sequences are.                             *)

LEMMA ConcatIndex ==
    ASSUME NEW S, NEW s \in Seq(S), NEW t \in Seq(S)
    PROVE  /\ s \o t \in Seq(S)
           /\ Len(s \o t) = Len(s) + Len(t)
           /\ \A g \in 1 .. Len(s) : (s \o t)[g] = s[g]
           /\ \A j \in 1 .. Len(t) : (s \o t)[Len(s) + j] = t[j]
<1>1. Len(s) \in Nat /\ Len(t) \in Nat
  OBVIOUS
<1>2. s \o t \in Seq(S) /\ Len(s \o t) = Len(s) + Len(t)
  OBVIOUS
<1>3. \A g \in 1 .. Len(s) + Len(t) :
         (s \o t)[g] = IF g <= Len(s) THEN s[g] ELSE t[g - Len(s)]
  OBVIOUS
<1>4. ASSUME NEW j \in 1 .. Len(t) PROVE (s \o t)[Len(s) + j] = t[j]
  <2>1. /\ Len(s) + j \in 1 .. Len(s) + Len(t)
        /\ ~ (Len(s) + j <= Len(s)) /\ Len(s) + j - Len(s) = j
    BY <1>1
  <2> QED
    BY <1>3, <2>1
<1>5. ASSUME NEW g \in 1 .. Len(s) PROVE (s \o t)[g] = s[g]
  <2>1. g \in 1 .. Len(s) + Len(t) /\ g <= Len(s)
    BY <1>1
  <2> QED
    BY <1>3, <2>1
<1> QED
  BY <1>2, <1>4, <1>5

\* s has sequence number i of ss from o[i - 1] + 1 to o[i], for i up to n.
JoinedAt(ss, n, o, s) ==
    /\ Len(s) = o[n]
    /\ \A i \in 1 .. n : \A j \in 1 .. Len(ss[i]) :
          o[i - 1] + j \in 1 .. Len(s) /\ s[o[i - 1] + j] = ss[i][j]
    /\ \A g \in 1 .. Len(s) :
          \E i \in 1 .. n : \E j \in 1 .. Len(ss[i]) : g = o[i - 1] + j

LEMMA JoinOneMore ==
    ASSUME NEW S, NEW ss \in Seq(Seq(S)), NEW n \in 1 .. Len(ss),
           NEW o \in [0 .. Len(ss) -> Nat], o[n] = o[n - 1] + Len(ss[n]),
           NEW s \in Seq(S), JoinedAt(ss, n - 1, o, s)
    PROVE  JoinedAt(ss, n, o, s \o ss[n])
<1> DEFINE t == s \o ss[n]
           a == o[n - 1]
           m == Len(ss[n])
<1>1. /\ ss[n] \in Seq(S) /\ m \in Nat /\ n \in Nat /\ n - 1 \in 0 .. Len(ss)
      /\ a \in Nat /\ Len(s) = a
  BY DEF JoinedAt
<1>2. /\ Len(t) = a + m
      /\ \A g \in 1 .. a : t[g] = s[g]
      /\ \A j \in 1 .. m : t[a + j] = ss[n][j]
  <2>1. /\ Len(s \o ss[n]) = Len(s) + Len(ss[n])
        /\ \A g \in 1 .. Len(s) : (s \o ss[n])[g] = s[g]
        /\ \A j \in 1 .. Len(ss[n]) : (s \o ss[n])[Len(s) + j] = ss[n][j]
    <3>1. PICK u \in Seq(S) : u = ss[n]
      BY <1>1
    <3>2. /\ Len(s \o u) = Len(s) + Len(u)
          /\ \A g \in 1 .. Len(s) : (s \o u)[g] = s[g]
          /\ \A j \in 1 .. Len(u) : (s \o u)[Len(s) + j] = u[j]
      BY ConcatIndex
    <3> QED
      BY <3>1, <3>2
  <2>2. Len(s) = a
    BY <1>1
  <2> HIDE DEF a
  <2> QED
    BY <2>1, <2>2
<1>3. ASSUME NEW i \in 1 .. n, NEW j \in 1 .. Len(ss[i])
      PROVE  o[i - 1] + j \in 1 .. Len(t) /\ t[o[i - 1] + j] = ss[i][j]
  <2>1. CASE i = n
    <3>1. a + j \in 1 .. a + m
      BY <1>1, <2>1
    <3> QED
      BY <1>2, <2>1, <3>1
  <2>2. CASE i # n
    <3>1. i \in 1 .. n - 1
      BY <1>1, <2>2
    <3>2. o[i - 1] + j \in 1 .. a /\ s[o[i - 1] + j] = ss[i][j]
      BY <1>1, <3>1 DEF JoinedAt
    <3>3. 1 .. a \subseteq 1 .. a + m
      BY <1>1
    <3> QED
      BY <1>2, <3>2, <3>3
  <2> QED
    BY <2>1, <2>2
<1>4. ASSUME NEW g \in 1 .. Len(t)
      PROVE  \E i \in 1 .. n : \E j \in 1 .. Len(ss[i]) : g = o[i - 1] + j
  <2>1. CASE g \in 1 .. a
    <3>1. PICK i \in 1 .. n - 1 : \E j \in 1 .. Len(ss[i]) : g = o[i - 1] + j
      BY <1>1, <2>1 DEF JoinedAt
    <3>2. i \in 1 .. n
      BY <1>1
    <3> QED
      BY <3>1, <3>2
  <2>2. CASE g \notin 1 .. a
    <3>1. g - a \in 1 .. m /\ g = a + (g - a)
      BY <1>1, <1>2, <2>2
    <3> QED
      BY <1>1, <3>1
  <2> QED
    BY <2>1, <2>2
<1>5. Len(t) = o[n]
  BY <1>1, <1>2
<1> QED
  BY <1>3, <1>4, <1>5 DEF JoinedAt

LEMMA FlattenIndex ==
    ASSUME NEW S, NEW ss \in Seq(Seq(S))
    PROVE  /\ FlattenSeq(ss) \in Seq(S)
           /\ \E o \in [0 .. Len(ss) -> Nat] :
                 /\ o[0] = 0
                 /\ \A i \in 1 .. Len(ss) : o[i] = o[i - 1] + Len(ss[i])
                 /\ JoinedAt(ss, Len(ss), o, FlattenSeq(ss))
<1> DEFINE n == Len(ss)
<1>1. n \in Nat
  OBVIOUS
<1>2. CASE n = 0
  <2>1. ss = <<>>
    BY <1>2
  <2>2. FlattenSeq(ss) = <<>>
    BY <2>1 DEF FlattenSeq
  <2> DEFINE o == [i \in 0 .. n |-> 0]
  <2>3. o \in [0 .. n -> Nat] /\ o[0] = 0 /\ o[n] = 0
    BY <1>2
  <2>4. Len(FlattenSeq(ss)) = 0 /\ 1 .. n = {} /\ 1 .. 0 = {}
    BY <1>2, <2>2
  <2> HIDE DEF o
  <2>5. JoinedAt(ss, n, o, FlattenSeq(ss))
    BY <2>3, <2>4 DEF JoinedAt
  <2> QED
    <3>1. \A i \in 1 .. n : o[i] = o[i - 1] + Len(ss[i])
      BY <2>4
    <3>2. FlattenSeq(ss) \in Seq(S)
      BY <2>2
    <3> QED
      BY <2>3, <2>5, <3>1, <3>2
<1>3. CASE n # 0
  <2>1. PICK F \in [1 .. n -> Seq(S)] :
           /\ F[1] = ss[1]
           /\ \A i \in 2 .. n : F[i] = F[i - 1] \o ss[i]
           /\ FlattenSeq(ss) = F[n]
    <3>1. \A s \in Seq(S), t \in Seq(S) : s \o t \in Seq(S)
      OBVIOUS
    <3>2. Len(ss) >= 1
      BY <1>1, <1>3
    <3> QED
      BY <3>1, <3>2, FlattenPrefixes
  <2> DEFINE o == [i \in 0 .. n |-> IF i = 0 THEN 0 ELSE Len(F[i])]
             E == [i \in 0 .. n |-> IF i = 0 THEN <<>> ELSE F[i]]
  <2>2. /\ E \in [0 .. n -> Seq(S)] /\ E[0] = <<>> /\ E[n] = FlattenSeq(ss)
        /\ \A i \in 1 .. n : E[i] = E[i - 1] \o ss[i]
    <3>1. ASSUME NEW i \in 1 .. n PROVE E[i] = E[i - 1] \o ss[i]
      <4>1. i \in 0 .. n /\ i - 1 \in 0 .. n /\ i # 0
        BY <1>1
      <4>2. E[i] = F[i] /\ (i - 1 = 0 => E[i - 1] = <<>>) /\ (i - 1 # 0 => E[i - 1] = F[i - 1])
        BY <4>1
      <4> HIDE DEF E
      <4>3. CASE i = 1
        <5>1. ss[i] \in Seq(S)
          OBVIOUS
        <5>2. <<>> \o ss[i] = ss[i]
          BY <5>1
        <5>3. i - 1 = 0
          BY <4>3
        <5>4. E[i] = ss[i]
          BY <2>1, <4>2, <4>3
        <5>5. E[i - 1] = <<>>
          BY <4>2, <5>3
        <5> QED
          BY <5>2, <5>4, <5>5
      <4>4. CASE i # 1
        <5>1. i \in 2 .. n /\ i - 1 # 0
          BY <1>1, <4>4
        <5> QED
          BY <2>1, <4>2, <5>1
      <4> QED
        BY <4>3, <4>4
    <3>2. E \in [0 .. n -> Seq(S)] /\ E[0] = <<>> /\ E[n] = FlattenSeq(ss)
      <4>1. <<>> \in Seq(S) /\ \A i \in 1 .. n : F[i] \in Seq(S)
        BY <2>1
      <4>2. \A i \in 0 .. n : i # 0 => i \in 1 .. n
        BY <1>1
      <4>3. n \in 0 .. n /\ 0 \in 0 .. n
        BY <1>1
      <4> QED
        BY <1>3, <2>1, <4>1, <4>2, <4>3
    <3> HIDE DEF E
    <3> QED
      BY <3>1, <3>2
  <2>3. o = [i \in 0 .. n |-> Len(E[i])]
    OBVIOUS
  <2> HIDE DEF o, E
  <2>4. /\ o \in [0 .. n -> Nat] /\ o[0] = 0
        /\ \A i \in 1 .. n : o[i] = o[i - 1] + Len(ss[i])
    <3>1. ASSUME NEW i \in 1 .. n PROVE o[i] = o[i - 1] + Len(ss[i])
      <4>1. i \in 0 .. n /\ i - 1 \in 0 .. n
        BY <1>1
      <4>2. E[i] = E[i - 1] \o ss[i] /\ E[i - 1] \in Seq(S) /\ ss[i] \in Seq(S)
        <5>1. ss[i] \in Seq(S)
          OBVIOUS
        <5> QED
          BY <2>2, <4>1, <5>1
      <4>3. Len(E[i]) = Len(E[i - 1]) + Len(ss[i])
        BY <4>2, ConcatIndex
      <4> QED
        BY <2>3, <4>1, <4>3
    <3> QED
      BY <2>2, <2>3, <3>1
  <2> DEFINE Q == {i \in Nat : i \in 0 .. n => JoinedAt(ss, i, o, E[i])}
  <2>5. 0 \in Q
    <3>1. JoinedAt(ss, 0, o, E[0])
      BY <2>2, <2>4 DEF JoinedAt
    <3> QED
      BY <3>1
  <2>6. ASSUME NEW i \in Nat, i \in Q PROVE i + 1 \in Q
    <3> SUFFICES ASSUME i + 1 \in 0 .. n PROVE JoinedAt(ss, i + 1, o, E[i + 1])
      OBVIOUS
    <3>1. i \in 0 .. n /\ i + 1 \in 1 .. n /\ (i + 1) - 1 = i
      OBVIOUS
    <3>2. JoinedAt(ss, (i + 1) - 1, o, E[i]) /\ E[i] \in Seq(S)
      BY <2>2, <2>6, <3>1
    <3>3. E[i + 1] = E[i] \o ss[i + 1] /\ o[i + 1] = o[(i + 1) - 1] + Len(ss[i + 1])
      BY <2>2, <2>4, <3>1
    <3> HIDE DEF Q
    <3> QED
      BY <2>4, <3>1, <3>2, <3>3, JoinOneMore
  <2>7. n \in Q
    <3> HIDE DEF Q
    <3>1. Nat \subseteq Q
      BY <2>5, <2>6, SetInduction
    <3> QED
      BY <1>1, <3>1
  <2>8. JoinedAt(ss, n, o, FlattenSeq(ss))
    BY <1>1, <2>2, <2>7
  <2>9. FlattenSeq(ss) \in Seq(S)
    BY <1>1, <2>2
  <2> QED
    BY <2>4, <2>8, <2>9
<1> QED
  BY <1>2, <1>3

-----------------------------------------------------------------------------
(* The units of the code: _init, the prologue of a function, and the lines *)
(* of an IR instruction.                                                   *)

Unit(p, f, k) ==
    IF f = 0 THEN EmitInit(p) ELSE IF k = 0 THEN EmitPrologue(p, f) ELSE EmitIR(p, f, k)

IsUnit(p, f, k) ==
    \/ f = 0 /\ k = 0
    \/ f \in 1 .. Len(p.functions) /\ k \in 0 .. Len(p.functions[f].body)

LEMMA LineKinds ==
    /\ \A op, a, b, c : /\ Asm(op, a, b, c).kind = "instr" /\ Asm(op, a, b, c).op = op
                        /\ Asm(op, a, b, c).a = a /\ Asm(op, a, b, c).b = b
                        /\ Asm(op, a, b, c).c = c
    /\ \A op, l : /\ AsmTo(op, l).kind = "instr" /\ AsmTo(op, l).op = op
                  /\ AsmTo(op, l).label = l
    /\ \A l : Label(l).kind = "label" /\ Label(l).name = l
  BY DEF Asm, AsmTo, Label

\* _init, line by line.
InitUnit(p, u) ==
    LET G == Len(p.globals)
    IN  /\ DOMAIN u = 1 .. 2 * G + 3
        /\ u[1] = Label("_init")
        /\ \A k \in 1 .. G :
              /\ u[2 * k] = Asm("LI", 4, p.globals[k].init, 0)
              /\ u[2 * k + 1] = Asm("ST", 4, SlotAddress(p, 0, p.globals[k].slot), 0)
        /\ u[2 * G + 2] = AsmTo("CALL", "main")
        /\ u[2 * G + 3] = Asm("HALT", 0, 0, 0)

LEMMA GlobalsUnit ==
    ASSUME NEW p, WellFormed(p)
    PROVE  LET G == Len(p.globals)
               s == EmitGlobals(p)
           IN  \E S : /\ s \in Seq(S)
                      /\ Len(s) = 2 * G
                      /\ \A k \in 1 .. G :
                            /\ s[2 * k - 1] = Asm("LI", 4, p.globals[k].init, 0)
                            /\ s[2 * k] = Asm("ST", 4, SlotAddress(p, 0, p.globals[k].slot), 0)
<1> DEFINE G == Len(p.globals)
           li(k) == Asm("LI", 4, p.globals[k].init, 0)
           st(k) == Asm("ST", 4, SlotAddress(p, 0, p.globals[k].slot), 0)
           ss == [k \in DOMAIN p.globals |-> <<li(k), st(k)>>]
           S == {li(k) : k \in 1 .. G} \cup {st(k) : k \in 1 .. G}
<1>1. G \in Nat /\ DOMAIN p.globals = 1 .. G
  BY Lengths
<1>2. EmitGlobals(p) = FlattenSeq(ss)
  BY DEF EmitGlobals
<1> HIDE DEF li, st
<1>3. ASSUME NEW k \in 1 .. G
      PROVE  /\ <<li(k), st(k)>> \in Seq(S) /\ Len(<<li(k), st(k)>>) = 2
             /\ <<li(k), st(k)>>[1] = li(k) /\ <<li(k), st(k)>>[2] = st(k)
  <2>1. li(k) \in S /\ st(k) \in S
    OBVIOUS
  <2> HIDE DEF S
  <2> QED
    BY <2>1
<1> HIDE DEF S
<1>4. ss \in Seq(Seq(S)) /\ Len(ss) = G
  <2>1. ss \in [1 .. G -> Seq(S)]
    BY <1>1, <1>3
  <2> HIDE DEF ss
  <2> QED
    BY <1>1, <2>1
<1>5. \A k \in 1 .. G : ss[k] = <<li(k), st(k)>>
  BY <1>1
<1> HIDE DEF ss
<1>6. /\ FlattenSeq(ss) \in Seq(S)
      /\ \E o \in [0 .. G -> Nat] :
            /\ o[0] = 0
            /\ \A i \in 1 .. G : o[i] = o[i - 1] + Len(ss[i])
            /\ JoinedAt(ss, G, o, FlattenSeq(ss))
  BY <1>4, FlattenIndex
<1>7. PICK o \in [0 .. G -> Nat] :
            /\ o[0] = 0
            /\ \A i \in 1 .. G : o[i] = o[i - 1] + Len(ss[i])
            /\ JoinedAt(ss, G, o, FlattenSeq(ss))
  BY <1>6
<1> HIDE DEF G
<1> DEFINE Q == {i \in Nat : i \in 0 .. G => o[i] = 2 * i}
<1>8. Nat \subseteq Q
  <2>1. 0 \in Q
    BY <1>7
  <2>2. ASSUME NEW i \in Nat, i \in Q PROVE i + 1 \in Q
    <3> SUFFICES ASSUME i + 1 \in 0 .. G PROVE o[i + 1] = 2 * (i + 1)
      OBVIOUS
    <3>1. i + 1 \in 1 .. G /\ (i + 1) - 1 = i /\ i \in 0 .. G
      <4>1. G \in Nat
        BY <1>1
      <4> HIDE DEF Q
      <4> QED
        BY <4>1
    <3>2. o[i + 1] = o[i] + 2
      BY <1>3, <1>5, <1>7, <3>1
    <3> QED
      BY <2>2, <3>1, <3>2
  <2> HIDE DEF Q
  <2> QED
    BY <2>1, <2>2, SetInduction
<1>9. \A i \in 0 .. G : o[i] = 2 * i
  BY <1>1, <1>8
<1>10. ASSUME NEW k \in 1 .. G
       PROVE  FlattenSeq(ss)[2 * k - 1] = li(k) /\ FlattenSeq(ss)[2 * k] = st(k)
  <2>1. 1 \in 1 .. Len(ss[k]) /\ 2 \in 1 .. Len(ss[k]) /\ ss[k][1] = li(k) /\ ss[k][2] = st(k)
    BY <1>3, <1>5
  <2>2. o[k - 1] + 1 = 2 * k - 1 /\ o[k - 1] + 2 = 2 * k
    <3>1. k - 1 \in 0 .. G
      BY <1>1
    <3> QED
      BY <1>9, <3>1
  <2>3. FlattenSeq(ss)[o[k - 1] + 1] = ss[k][1] /\ FlattenSeq(ss)[o[k - 1] + 2] = ss[k][2]
    BY <1>7, <2>1 DEF JoinedAt
  <2> QED
    BY <2>1, <2>2, <2>3
<1>11. Len(FlattenSeq(ss)) = 2 * G
  <2>1. G \in 0 .. G
    BY <1>1
  <2> QED
    BY <1>7, <1>9, <2>1 DEF JoinedAt
<1> QED
  BY <1>2, <1>6, <1>10, <1>11 DEF G, li, st

LEMMA InitLineByLine ==
    ASSUME NEW p, WellFormed(p)
    PROVE  InitUnit(p, EmitInit(p))
<1> DEFINE G == Len(p.globals)
           s == EmitGlobals(p)
           a == Label("_init")
           b == AsmTo("CALL", "main")
           c == Asm("HALT", 0, 0, 0)
           li(k) == Asm("LI", 4, p.globals[k].init, 0)
           st(k) == Asm("ST", 4, SlotAddress(p, 0, p.globals[k].slot), 0)
           u == <<a>> \o s \o <<b, c>>
<1>1. G \in Nat
  BY Lengths
<1>2. EmitInit(p) = u
  BY DEF EmitInit
<1>3. PICK S : /\ s \in Seq(S) /\ Len(s) = 2 * G
               /\ \A k \in 1 .. G : s[2 * k - 1] = li(k) /\ s[2 * k] = st(k)
  BY GlobalsUnit
<1> HIDE DEF a, b, c, G, s, li, st
<1> DEFINE X == S \cup {a, b, c}
<1>4. s \in Seq(X) /\ <<a>> \in Seq(X) /\ <<b, c>> \in Seq(X)
  <2>1. S \subseteq X /\ a \in X /\ b \in X /\ c \in X
    OBVIOUS
  <2> HIDE DEF X
  <2> QED
    BY <1>3, <2>1
<1> HIDE DEF X
<1> DEFINE v == <<a>> \o s
<1>5. /\ v \in Seq(X) /\ Len(v) = 1 + 2 * G /\ v[1] = a
      /\ \A j \in 1 .. 2 * G : v[1 + j] = s[j]
  <2>1. /\ <<a>> \o s \in Seq(X) /\ Len(<<a>> \o s) = Len(<<a>>) + Len(s)
        /\ \A g \in 1 .. Len(<<a>>) : (<<a>> \o s)[g] = <<a>>[g]
        /\ \A j \in 1 .. Len(s) : (<<a>> \o s)[Len(<<a>>) + j] = s[j]
    BY <1>4, ConcatIndex
  <2>2. Len(<<a>>) = 1 /\ <<a>>[1] = a /\ 1 \in 1 .. 1
    OBVIOUS
  <2> QED
    BY <1>3, <2>1, <2>2
<1> HIDE DEF v
<1>6. /\ v \o <<b, c>> \in Seq(X) /\ Len(v \o <<b, c>>) = 2 * G + 3
      /\ \A g \in 1 .. 2 * G + 1 : (v \o <<b, c>>)[g] = v[g]
      /\ (v \o <<b, c>>)[2 * G + 2] = b /\ (v \o <<b, c>>)[2 * G + 3] = c
  <2> DEFINE w == <<b, c>>
  <2>1. w \in Seq(X) /\ Len(w) = 2 /\ w[1] = b /\ w[2] = c
    BY <1>4
  <2> HIDE DEF w
  <2>2. /\ v \o w \in Seq(X) /\ Len(v \o w) = Len(v) + Len(w)
        /\ \A g \in 1 .. Len(v) : (v \o w)[g] = v[g]
        /\ \A j \in 1 .. Len(w) : (v \o w)[Len(v) + j] = w[j]
    <3> SUFFICES ASSUME NEW x \in Seq(X), NEW y \in Seq(X)
                 PROVE  /\ x \o y \in Seq(X) /\ Len(x \o y) = Len(x) + Len(y)
                        /\ \A g \in 1 .. Len(x) : (x \o y)[g] = x[g]
                        /\ \A j \in 1 .. Len(y) : (x \o y)[Len(x) + j] = y[j]
      BY <1>5, <2>1
    <3> QED
      BY ConcatIndex
  <2>3. Len(v) + 1 = 2 * G + 2 /\ Len(v) + 2 = 2 * G + 3 /\ 1 \in 1 .. 2 /\ 2 \in 1 .. 2
        /\ Len(v) = 2 * G + 1
    BY <1>1, <1>5
  <2>4. /\ Len(v \o w) = 2 * G + 3
        /\ \A g \in 1 .. 2 * G + 1 : (v \o w)[g] = v[g]
        /\ (v \o w)[2 * G + 2] = b /\ (v \o w)[2 * G + 3] = c
    BY <1>1, <2>1, <2>2, <2>3
  <2> QED
    BY <2>2, <2>4 DEF w
<1>7. u = v \o <<b, c>>
  BY DEF v
<1> HIDE DEF u
<1>8. DOMAIN u = 1 .. 2 * G + 3 /\ u[1] = a /\ u[2 * G + 2] = b /\ u[2 * G + 3] = c
  BY <1>1, <1>5, <1>6, <1>7
<1>9. ASSUME NEW k \in 1 .. G
      PROVE  u[2 * k] = li(k) /\ u[2 * k + 1] = st(k)
  <2>1. /\ 2 * k - 1 \in 1 .. 2 * G /\ 2 * k \in 1 .. 2 * G
        /\ 1 + (2 * k - 1) = 2 * k /\ 1 + 2 * k = 2 * k + 1
        /\ 2 * k \in 1 .. 2 * G + 1 /\ 2 * k + 1 \in 1 .. 2 * G + 1
    BY <1>1
  <2>2. v[1 + (2 * k - 1)] = s[2 * k - 1] /\ v[1 + 2 * k] = s[2 * k]
    BY <1>5, <2>1
  <2>3. u[2 * k] = v[2 * k] /\ u[2 * k + 1] = v[2 * k + 1]
    BY <1>6, <1>7, <2>1
  <2> QED
    BY <1>3, <2>1, <2>2, <2>3
<1> QED
  BY <1>2, <1>8, <1>9 DEF InitUnit, G, a, b, c, li, st

\* A prologue, line by line.
PrologueUnit(p, f, u) ==
    LET fn == p.functions[f]
    IN  /\ DOMAIN u = 1 .. Len(fn.params) + 1
        /\ u[1] = Label(fn.name)
        /\ \A k \in 1 .. Len(fn.params) :
              u[k + 1] = Asm("ST", k, SlotAddress(p, f, fn.params[k]), 0)

LEMMA PrologueLineByLine ==
    ASSUME NEW p, WellFormed(p), NEW f \in 1 .. Len(p.functions)
    PROVE  PrologueUnit(p, f, EmitPrologue(p, f))
<1> DEFINE fun == p.functions[f]
           n == Len(fun.params)
           a == Label(fun.name)
           st(k) == Asm("ST", k, SlotAddress(p, f, fun.params[k]), 0)
           s == [k \in DOMAIN fun.params |-> st(k)]
<1>1. fun.params \in Seq(STRING)
  BY Lengths DEF IRFunctions
<1>2. n \in Nat /\ DOMAIN fun.params = 1 .. n
  BY <1>1
<1>3. EmitPrologue(p, f) = <<a>> \o s
  BY DEF EmitPrologue
<1> HIDE DEF a, st
<1> DEFINE X == {a} \cup {st(k) : k \in 1 .. n}
<1>4. s \in Seq(X) /\ Len(s) = n /\ <<a>> \in Seq(X)
  <2>1. a \in X /\ \A k \in 1 .. n : st(k) \in X
    OBVIOUS
  <2> HIDE DEF X
  <2>2. s \in [1 .. n -> X]
    BY <1>2, <2>1
  <2> HIDE DEF s
  <2> QED
    BY <1>2, <2>1, <2>2
<1>5. \A k \in 1 .. n : s[k] = st(k)
  BY <1>2
<1> HIDE DEF X, s, n
<1>6. /\ <<a>> \o s \in Seq(X) /\ Len(<<a>> \o s) = n + 1
      /\ (<<a>> \o s)[1] = a
      /\ \A k \in 1 .. n : (<<a>> \o s)[k + 1] = st(k)
  <2>1. /\ <<a>> \o s \in Seq(X) /\ Len(<<a>> \o s) = Len(<<a>>) + Len(s)
        /\ \A g \in 1 .. Len(<<a>>) : (<<a>> \o s)[g] = <<a>>[g]
        /\ \A j \in 1 .. Len(s) : (<<a>> \o s)[Len(<<a>>) + j] = s[j]
    BY <1>4, ConcatIndex
  <2>2. Len(<<a>>) = 1 /\ <<a>>[1] = a /\ 1 \in 1 .. 1
    OBVIOUS
  <2>3. \A k \in 1 .. n : k + 1 = 1 + k
    BY <1>2
  <2> QED
    BY <1>2, <1>4, <1>5, <2>1, <2>2, <2>3
<1>7. DOMAIN (<<a>> \o s) = 1 .. n + 1
  BY <1>6
<1> QED
  BY <1>3, <1>6, <1>7 DEF PrologueUnit, n, a, st

LdSlot(p, f, r, slot) == Asm("LD", r, SlotAddress(p, f, slot), 0)
StSlot(p, f, r, slot) == Asm("ST", r, SlotAddress(p, f, slot), 0)

Are1(u, a) == DOMAIN u = 1 .. 1 /\ u[1] = a
Are2(u, a, b) == DOMAIN u = 1 .. 2 /\ u[1] = a /\ u[2] = b
Are3(u, a, b, c) == DOMAIN u = 1 .. 3 /\ u[1] = a /\ u[2] = b /\ u[3] = c
Are4(u, a, b, c, d) == DOMAIN u = 1 .. 4 /\ u[1] = a /\ u[2] = b /\ u[3] = c /\ u[4] = d

\* A comparison, line by line.
Materialized(u, first, second, jump, n, last) ==
    /\ DOMAIN u = 1 .. 10
    /\ u[1] = first /\ u[2] = second /\ u[3] = Asm("CMP", 4, 5, 0)
    /\ u[4] = AsmTo(jump, CgLabel(n))
    /\ u[5] = Asm("LI", 4, 0, 0) /\ u[6] = AsmTo("JMP", CgLabel(n + 1))
    /\ u[7] = Label(CgLabel(n)) /\ u[8] = Asm("LI", 4, BoolTrue, 0)
    /\ u[9] = Label(CgLabel(n + 1)) /\ u[10] = last

LEMMA Tuples ==
    /\ \A a : Are1(<<a>>, a)
    /\ \A a, b : Are2(<<a, b>>, a, b)
    /\ \A a, b, c : Are3(<<a, b, c>>, a, b, c)
    /\ \A a, b, c, d : Are4(<<a, b, c, d>>, a, b, c, d)
  BY DEF Are1, Are2, Are3, Are4

LEMMA MaterializedLines ==
    ASSUME NEW first, NEW second, NEW jump, NEW n, NEW last
    PROVE  Materialized(Materialize(first, second, jump, n, last), first, second, jump, n, last)
<1> DEFINE s == Materialize(first, second, jump, n, last)
           a == Asm("CMP", 4, 5, 0)
           b == AsmTo(jump, CgLabel(n))
           c == Asm("LI", 4, 0, 0)
           d == AsmTo("JMP", CgLabel(n + 1))
           e == Label(CgLabel(n))
           f == Asm("LI", 4, BoolTrue, 0)
           g == Label(CgLabel(n + 1))
<1>1. s = <<first, second, a, b, c, d, e, f, g, last>>
  BY DEF Materialize
<1> HIDE DEF s, a, b, c, d, e, f, g
<1>2. /\ DOMAIN s = 1 .. 10
      /\ s[1] = first /\ s[2] = second /\ s[3] = a /\ s[4] = b /\ s[5] = c
      /\ s[6] = d /\ s[7] = e /\ s[8] = f /\ s[9] = g /\ s[10] = last
  BY <1>1
<1> QED
  BY <1>2 DEF Materialized, s, a, b, c, d, e, f, g

\* The unit of an IR instruction, line by line.
IRUnit(p, f, k, u) ==
    LET i == p.functions[f].body[k]
        n == CgCounter(p, f, k)
        LD(r, slot) == LdSlot(p, f, r, slot)
        ST(r, slot) == StSlot(p, f, r, slot)
        LI(r, imm)  == Asm("LI", r, imm, 0)
        cmp == Asm("CMP", 4, 5, 0)
        to(op) == AsmTo(op, FnLabel(p, f, i.label))
    IN  /\ i.op = "CONST" => Are2(u, LI(4, i.imm), ST(4, i.dst))
        /\ i.op = "COPY" => Are2(u, LD(4, i.src), ST(4, i.dst))
        /\ i.op \in {"ADD", "SUB"} =>
              Are4(u, LD(4, i.src), LD(5, i.src2), Asm(i.op, 4, 4, 5), ST(4, i.dst))
        /\ i.op = "NEG" => Are4(u, LI(4, 0), LD(5, i.src), Asm("SUB", 4, 4, 5), ST(4, i.dst))
        /\ i.op = "NOT" => Materialized(u, LD(4, i.src), LI(5, 0), "JZ", n, ST(4, i.dst))
        /\ i.op \in Comparisons =>
              Materialized(u, LD(4, i.src), LD(5, i.src2), JumpIf[i.op], n, ST(4, i.dst))
        /\ i.op = "MEM_LOAD" => Are3(u, LD(4, i.src), Asm("LDR", 5, 4, 0), ST(5, i.dst))
        /\ i.op = "MEM_STORE" => Are3(u, LD(4, i.dst), LD(5, i.src), Asm("STR", 5, 4, 0))
        /\ i.op = "LABEL" => Are1(u, Label(FnLabel(p, f, i.label)))
        /\ i.op = "JUMP" => Are1(u, to("JMP"))
        /\ i.op = "JUMP_Z" => Are4(u, LD(4, i.src), LI(5, 0), cmp, to("JZ"))
        /\ i.op = "JUMP_NZ" => Are4(u, LD(4, i.src), LI(5, 0), cmp, to("JNZ"))
        /\ i.op = "ARG" => Are1(u, LD(i.imm + 1, i.src))
        /\ i.op = "CALL" /\ i.dst = "" => Are1(u, AsmTo("CALL", i.label))
        /\ i.op = "CALL" /\ i.dst # "" => Are2(u, AsmTo("CALL", i.label), ST(0, i.dst))
        /\ i.op = "RETURN" => Are2(u, LD(0, i.src), Asm("RET", 0, 0, 0))
        /\ i.op = "RETURN_VOID" => Are1(u, Asm("RET", 0, 0, 0))
        /\ i.op \in {"PRINT", "PRINTD"} => Are2(u, LD(4, i.src), Asm(i.op, 4, 0, 0))
        /\ i.op = "HALT" => Are1(u, Asm("HALT", 0, 0, 0))

LEMMA EmittedLines ==
    ASSUME NEW p, NEW f, NEW k, p.functions[f].body[k].op \in IROps
    PROVE  IRUnit(p, f, k, EmitIR(p, f, k))
<1> DEFINE i == p.functions[f].body[k]
           E == EmitIR(p, f, k)
           n == CgCounter(p, f, k)
           LD(r, slot) == LdSlot(p, f, r, slot)
           ST(r, slot) == StSlot(p, f, r, slot)
           LI(r, imm)  == Asm("LI", r, imm, 0)
<1>1. CASE i.op = "CONST"
  <2>1. E = <<LI(4, i.imm), ST(4, i.dst)>>
    BY <1>1 DEF EmitIR, Comparisons, LdSlot, StSlot
  <2> HIDE DEF E, LD, ST, LI
  <2>2. Are2(E, LI(4, i.imm), ST(4, i.dst))
    BY <2>1, Tuples
  <2> HIDE DEF i
  <2>3. IRUnit(p, f, k, E)
    BY <1>1, <2>2 DEF IRUnit, Comparisons, LD, ST, LI, i
  <2> QED
    BY <2>3 DEF E
<1>2. CASE i.op = "COPY"
  <2>1. E = <<LD(4, i.src), ST(4, i.dst)>>
    BY <1>2 DEF EmitIR, Comparisons, LdSlot, StSlot
  <2> HIDE DEF E, LD, ST, LI
  <2>2. Are2(E, LD(4, i.src), ST(4, i.dst))
    BY <2>1, Tuples
  <2> HIDE DEF i
  <2>3. IRUnit(p, f, k, E)
    BY <1>2, <2>2 DEF IRUnit, Comparisons, LD, ST, LI, i
  <2> QED
    BY <2>3 DEF E
<1>3. CASE i.op \in {"ADD", "SUB"}
  <2>1. E = <<LD(4, i.src), LD(5, i.src2), Asm(i.op, 4, 4, 5), ST(4, i.dst)>>
    BY <1>3 DEF EmitIR, Comparisons, LdSlot, StSlot
  <2> HIDE DEF E, LD, ST, LI
  <2>2. Are4(E, LD(4, i.src), LD(5, i.src2), Asm(i.op, 4, 4, 5), ST(4, i.dst))
    BY <2>1, Tuples
  <2> HIDE DEF i
  <2>3. IRUnit(p, f, k, E)
    BY <1>3, <2>2 DEF IRUnit, Comparisons, LD, ST, LI, i
  <2> QED
    BY <2>3 DEF E
<1>4. CASE i.op = "NEG"
  <2>1. E = <<LI(4, 0), LD(5, i.src), Asm("SUB", 4, 4, 5), ST(4, i.dst)>>
    BY <1>4 DEF EmitIR, Comparisons, LdSlot, StSlot
  <2> HIDE DEF E, LD, ST, LI
  <2>2. Are4(E, LI(4, 0), LD(5, i.src), Asm("SUB", 4, 4, 5), ST(4, i.dst))
    BY <2>1, Tuples
  <2> HIDE DEF i
  <2>3. IRUnit(p, f, k, E)
    BY <1>4, <2>2 DEF IRUnit, Comparisons, LD, ST, LI, i
  <2> QED
    BY <2>3 DEF E
<1>5. CASE i.op = "NOT"
  <2>1. E = Materialize(LD(4, i.src), LI(5, 0), "JZ", n, ST(4, i.dst))
    BY <1>5 DEF EmitIR, Comparisons, LdSlot, StSlot
  <2> HIDE DEF E, LD, ST, LI
  <2>2. Materialized(E, LD(4, i.src), LI(5, 0), "JZ", n, ST(4, i.dst))
    BY <2>1, MaterializedLines
  <2> HIDE DEF i
  <2>3. IRUnit(p, f, k, E)
    BY <1>5, <2>2 DEF IRUnit, Comparisons, LD, ST, LI, i
  <2> QED
    BY <2>3 DEF E
<1>6. CASE i.op \in Comparisons
  <2>1. E = Materialize(LD(4, i.src), LD(5, i.src2), JumpIf[i.op], n, ST(4, i.dst))
    BY <1>6 DEF EmitIR, Comparisons, LdSlot, StSlot
  <2> HIDE DEF E, LD, ST, LI
  <2>2. Materialized(E, LD(4, i.src), LD(5, i.src2), JumpIf[i.op], n, ST(4, i.dst))
    BY <2>1, MaterializedLines
  <2> HIDE DEF i
  <2>3. IRUnit(p, f, k, E)
    BY <1>6, <2>2 DEF IRUnit, Comparisons, LD, ST, LI, i
  <2> QED
    BY <2>3 DEF E
<1>7. CASE i.op = "MEM_LOAD"
  <2>1. E = <<LD(4, i.src), Asm("LDR", 5, 4, 0), ST(5, i.dst)>>
    BY <1>7 DEF EmitIR, Comparisons, LdSlot, StSlot
  <2> HIDE DEF E, LD, ST, LI
  <2>2. Are3(E, LD(4, i.src), Asm("LDR", 5, 4, 0), ST(5, i.dst))
    BY <2>1, Tuples
  <2> HIDE DEF i
  <2>3. IRUnit(p, f, k, E)
    BY <1>7, <2>2 DEF IRUnit, Comparisons, LD, ST, LI, i
  <2> QED
    BY <2>3 DEF E
<1>8. CASE i.op = "MEM_STORE"
  <2>1. E = <<LD(4, i.dst), LD(5, i.src), Asm("STR", 5, 4, 0)>>
    BY <1>8 DEF EmitIR, Comparisons, LdSlot, StSlot
  <2> HIDE DEF E, LD, ST, LI
  <2>2. Are3(E, LD(4, i.dst), LD(5, i.src), Asm("STR", 5, 4, 0))
    BY <2>1, Tuples
  <2> HIDE DEF i
  <2>3. IRUnit(p, f, k, E)
    BY <1>8, <2>2 DEF IRUnit, Comparisons, LD, ST, LI, i
  <2> QED
    BY <2>3 DEF E
<1>9. CASE i.op = "LABEL"
  <2>1. E = <<Label(FnLabel(p, f, i.label))>>
    BY <1>9 DEF EmitIR, Comparisons
  <2> HIDE DEF E, LD, ST, LI
  <2>2. Are1(E, Label(FnLabel(p, f, i.label)))
    BY <2>1, Tuples
  <2> HIDE DEF i
  <2>3. IRUnit(p, f, k, E)
    BY <1>9, <2>2 DEF IRUnit, Comparisons, LD, ST, LI, i
  <2> QED
    BY <2>3 DEF E
<1>10. CASE i.op = "JUMP"
  <2>1. E = <<AsmTo("JMP", FnLabel(p, f, i.label))>>
    BY <1>10 DEF EmitIR, Comparisons, LdSlot, StSlot
  <2> HIDE DEF E, LD, ST, LI
  <2>2. Are1(E, AsmTo("JMP", FnLabel(p, f, i.label)))
    BY <2>1, Tuples
  <2> HIDE DEF i
  <2>3. IRUnit(p, f, k, E)
    BY <1>10, <2>2 DEF IRUnit, Comparisons, LD, ST, LI, i
  <2> QED
    BY <2>3 DEF E
<1>11. CASE i.op = "JUMP_Z"
  <2>1. E = <<LD(4, i.src), LI(5, 0), Asm("CMP", 4, 5, 0), AsmTo("JZ", FnLabel(p, f, i.label))>>
    BY <1>11 DEF EmitIR, Comparisons, LdSlot, StSlot
  <2> HIDE DEF E, LD, ST, LI
  <2>2. Are4(E, LD(4, i.src), LI(5, 0), Asm("CMP", 4, 5, 0), AsmTo("JZ", FnLabel(p, f, i.label)))
    BY <2>1, Tuples
  <2> HIDE DEF i
  <2>3. IRUnit(p, f, k, E)
    BY <1>11, <2>2 DEF IRUnit, Comparisons, LD, ST, LI, i
  <2> QED
    BY <2>3 DEF E
<1>12. CASE i.op = "JUMP_NZ"
  <2>1. E = <<LD(4, i.src), LI(5, 0), Asm("CMP", 4, 5, 0), AsmTo("JNZ", FnLabel(p, f, i.label))>>
    BY <1>12 DEF EmitIR, Comparisons, LdSlot, StSlot
  <2> HIDE DEF E, LD, ST, LI
  <2>2. Are4(E, LD(4, i.src), LI(5, 0), Asm("CMP", 4, 5, 0), AsmTo("JNZ", FnLabel(p, f, i.label)))
    BY <2>1, Tuples
  <2> HIDE DEF i
  <2>3. IRUnit(p, f, k, E)
    BY <1>12, <2>2 DEF IRUnit, Comparisons, LD, ST, LI, i
  <2> QED
    BY <2>3 DEF E
<1>13. CASE i.op = "ARG"
  <2>1. E = <<LD(i.imm + 1, i.src)>>
    BY <1>13 DEF EmitIR, Comparisons, LdSlot, StSlot
  <2> HIDE DEF E, LD, ST, LI
  <2>2. Are1(E, LD(i.imm + 1, i.src))
    BY <2>1, Tuples
  <2> HIDE DEF i
  <2>3. IRUnit(p, f, k, E)
    BY <1>13, <2>2 DEF IRUnit, Comparisons, LD, ST, LI, i
  <2> QED
    BY <2>3 DEF E
<1>14. CASE i.op = "CALL" /\ i.dst = ""
  <2>1. E = <<AsmTo("CALL", i.label)>>
    BY <1>14 DEF EmitIR, Comparisons, LdSlot, StSlot
  <2> HIDE DEF E, LD, ST, LI
  <2>2. Are1(E, AsmTo("CALL", i.label))
    BY <2>1, Tuples
  <2> HIDE DEF i
  <2>3. IRUnit(p, f, k, E)
    BY <1>14, <2>2 DEF IRUnit, Comparisons, LD, ST, LI, i
  <2> QED
    BY <2>3 DEF E
<1>15. CASE i.op = "CALL" /\ i.dst # ""
  <2>1. E = <<AsmTo("CALL", i.label), ST(0, i.dst)>>
    BY <1>15 DEF EmitIR, Comparisons, LdSlot, StSlot
  <2> HIDE DEF E, LD, ST, LI
  <2>2. Are2(E, AsmTo("CALL", i.label), ST(0, i.dst))
    BY <2>1, Tuples
  <2> HIDE DEF i
  <2>3. IRUnit(p, f, k, E)
    BY <1>15, <2>2 DEF IRUnit, Comparisons, LD, ST, LI, i
  <2> QED
    BY <2>3 DEF E
<1>16. CASE i.op = "RETURN"
  <2>1. E = <<LD(0, i.src), Asm("RET", 0, 0, 0)>>
    BY <1>16 DEF EmitIR, Comparisons, LdSlot, StSlot
  <2> HIDE DEF E, LD, ST, LI
  <2>2. Are2(E, LD(0, i.src), Asm("RET", 0, 0, 0))
    BY <2>1, Tuples
  <2> HIDE DEF i
  <2>3. IRUnit(p, f, k, E)
    BY <1>16, <2>2 DEF IRUnit, Comparisons, LD, ST, LI, i
  <2> QED
    BY <2>3 DEF E
<1>17. CASE i.op = "RETURN_VOID"
  <2>1. E = <<Asm("RET", 0, 0, 0)>>
    BY <1>17 DEF EmitIR, Comparisons, LdSlot, StSlot
  <2> HIDE DEF E, LD, ST, LI
  <2>2. Are1(E, Asm("RET", 0, 0, 0))
    BY <2>1, Tuples
  <2> HIDE DEF i
  <2>3. IRUnit(p, f, k, E)
    BY <1>17, <2>2 DEF IRUnit, Comparisons, LD, ST, LI, i
  <2> QED
    BY <2>3 DEF E
<1>18. CASE i.op \in {"PRINT", "PRINTD"}
  <2>1. E = <<LD(4, i.src), Asm(i.op, 4, 0, 0)>>
    BY <1>18 DEF EmitIR, Comparisons, LdSlot, StSlot
  <2> HIDE DEF E, LD, ST, LI
  <2>2. Are2(E, LD(4, i.src), Asm(i.op, 4, 0, 0))
    BY <2>1, Tuples
  <2> HIDE DEF i
  <2>3. IRUnit(p, f, k, E)
    BY <1>18, <2>2 DEF IRUnit, Comparisons, LD, ST, LI, i
  <2> QED
    BY <2>3 DEF E
<1>19. CASE i.op = "HALT"
  <2>1. E = <<Asm("HALT", 0, 0, 0)>>
    BY <1>19 DEF EmitIR, Comparisons, LdSlot, StSlot
  <2> HIDE DEF E, LD, ST, LI
  <2>2. Are1(E, Asm("HALT", 0, 0, 0))
    BY <2>1, Tuples
  <2> HIDE DEF i
  <2>3. IRUnit(p, f, k, E)
    BY <1>19, <2>2 DEF IRUnit, Comparisons, LD, ST, LI, i
  <2> QED
    BY <2>3 DEF E
<1> QED
  BY <1>1, <1>2, <1>3, <1>4, <1>5, <1>6, <1>7, <1>8, <1>9, <1>10, <1>11, <1>12, <1>13, <1>14, <1>15, <1>16, <1>17, <1>18, <1>19 DEF IROps, Comparisons

AllInstr(u, m) == m \in Nat \ {0} /\ DOMAIN u = 1 .. m /\ \A n \in 1 .. m : u[n].kind = "instr"

LEMMA FewInstr ==
    ASSUME NEW u
    PROVE  /\ \A a : Are1(u, a) /\ a.kind = "instr" => AllInstr(u, 1)
           /\ \A a, b : Are2(u, a, b) /\ a.kind = "instr" /\ b.kind = "instr" => AllInstr(u, 2)
           /\ \A a, b, c : Are3(u, a, b, c) /\ a.kind = "instr" /\ b.kind = "instr"
                             /\ c.kind = "instr" => AllInstr(u, 3)
           /\ \A a, b, c, d : Are4(u, a, b, c, d) /\ a.kind = "instr" /\ b.kind = "instr"
                                /\ c.kind = "instr" /\ d.kind = "instr" => AllInstr(u, 4)
<1>1. /\ 1 .. 1 = {1} /\ 1 .. 2 = {1, 2} /\ 1 .. 3 = {1, 2, 3} /\ 1 .. 4 = {1, 2, 3, 4}
  OBVIOUS
<1> QED
  BY <1>1 DEF Are1, Are2, Are3, Are4, AllInstr

\* Behind the first line of a unit a label is followed by an instruction; a
\* unit begins with a label if it is that of a LABEL, which has no other line;
\* and after its last line comes another unit of the function, or nothing.
UnitShape(p, f, k, m) ==
    LET u == Unit(p, f, k)
        body == p.functions[f].body
    IN  /\ m \in Nat \ {0} /\ DOMAIN u = 1 .. m
        /\ \A n \in 1 .. m : u[n].kind \in {"label", "instr"}
        /\ \A n \in 2 .. m : u[n].kind = "label" => n + 1 \in 1 .. m /\ u[n + 1].kind = "instr"
        /\ k # 0 => /\ body[k].op # "LABEL" => u[1].kind = "instr"
                    /\ body[k].op = "LABEL" => u[1].kind = "label" /\ m = 1
        /\ Stops(u[m]) \/ (f # 0 /\ k < Len(body))

LEMMA InitShape ==
    ASSUME NEW p, WellFormed(p)
    PROVE  \E m \in Nat : UnitShape(p, 0, 0, m)
<1> DEFINE u == EmitInit(p)
           G == Len(p.globals)
           m == 2 * G + 3
<1>1. G \in Nat /\ InitUnit(p, u)
  BY InitLineByLine, Lengths
<1>2. Unit(p, 0, 0) = u
  BY DEF Unit
<1> HIDE DEF u, G
<1>3. /\ DOMAIN u = 1 .. m /\ u[1].kind = "label"
      /\ \A k \in 1 .. G : u[2 * k].kind = "instr" /\ u[2 * k + 1].kind = "instr"
      /\ u[2 * G + 2].kind = "instr" /\ u[2 * G + 3].kind = "instr" /\ Stops(u[m])
  BY <1>1, LineKinds DEF InitUnit, Stops, G
<1>4. ASSUME NEW n \in 2 .. m PROVE u[n].kind = "instr"
  <2>1. \/ \E k \in 1 .. G : n = 2 * k \/ n = 2 * k + 1
        \/ n = 2 * G + 2 \/ n = 2 * G + 3
    <3>1. n \div 2 \in Nat /\ (n = 2 * (n \div 2) \/ n = 2 * (n \div 2) + 1)
      BY <1>1
    <3>2. n \div 2 \in 1 .. G + 1
      BY <1>1, <3>1
    <3> QED
      BY <1>1, <3>1, <3>2
  <2> QED
    BY <1>3, <2>1
<1>5. m \in Nat \ {0} /\ m \in 1 .. m /\ \A n \in 1 .. m : n = 1 \/ n \in 2 .. m
  BY <1>1
<1>6. UnitShape(p, 0, 0, m)
  <2> HIDE DEF m
  <2> QED
    BY <1>2, <1>3, <1>4, <1>5 DEF UnitShape
<1> QED
  BY <1>5, <1>6

LEMMA PrologueShape ==
    ASSUME NEW p, WellFormed(p), NEW f \in 1 .. Len(p.functions)
    PROVE  \E m \in Nat : UnitShape(p, f, 0, m)
<1> DEFINE u == EmitPrologue(p, f)
           n == Len(p.functions[f].params)
           m == n + 1
<1>1. n \in Nat /\ Len(p.functions) \in Nat /\ Len(p.functions[f].body) \in Nat /\ Len(p.functions[f].body) # 0
  <2>1. p.functions[f] \in IRFunctions /\ EndsWithReturn(p.functions[f].body)
    BY Lengths
  <2>2. p.functions[f].params \in Seq(STRING) /\ p.functions[f].body \in Seq(IRInstructions)
    BY <2>1 DEF IRFunctions
  <2> QED
    BY <2>1, <2>2, Lengths DEF EndsWithReturn
<1>2. f # 0 /\ f \in Nat
  BY <1>1
<1>3. Unit(p, f, 0) = u /\ PrologueUnit(p, f, u)
  BY <1>2, PrologueLineByLine DEF Unit
<1>4. DOMAIN u = 1 .. m /\ u[1].kind = "label" /\ \A k \in 1 .. n : u[k + 1].kind = "instr"
  BY <1>3, LineKinds DEF PrologueUnit
<1> HIDE DEF u, n
<1>5. \A k \in 2 .. m : u[k].kind = "instr"
  <2>1. \A k \in 2 .. m : k - 1 \in 1 .. n /\ (k - 1) + 1 = k
    BY <1>1
  <2> QED
    BY <1>4, <2>1
<1>6. m \in Nat \ {0} /\ \A k \in 1 .. m : k = 1 \/ k \in 2 .. m
  BY <1>1
<1>7. 0 < Len(p.functions[f].body)
  BY <1>1
<1>8. UnitShape(p, f, 0, m)
  <2> HIDE DEF m
  <2> QED
    BY <1>2, <1>3, <1>4, <1>5, <1>6, <1>7 DEF UnitShape
<1> QED
  BY <1>6, <1>8

LEMMA JumpIfIsJump ==
    ASSUME NEW op \in Comparisons
    PROVE  JumpIf[op] \in {"JZ", "JNZ", "JG", "JL", "JGE", "JLE"}
  BY DEF JumpIf, Comparisons

LEMMA MaterializedKinds ==
    ASSUME NEW u, NEW a, NEW b, NEW jump, NEW n, NEW c, Materialized(u, a, b, jump, n, c),
           a.kind = "instr", b.kind = "instr", c.kind = "instr"
    PROVE  /\ DOMAIN u = 1 .. 10
           /\ \A x \in 1 .. 10 : u[x].kind = IF x \in {7, 9} THEN "label" ELSE "instr"
<1>1. /\ u[1].kind = "instr" /\ u[2].kind = "instr" /\ u[3].kind = "instr" /\ u[4].kind = "instr"
      /\ u[5].kind = "instr" /\ u[6].kind = "instr" /\ u[7].kind = "label" /\ u[8].kind = "instr"
      /\ u[9].kind = "label" /\ u[10].kind = "instr"
  BY LineKinds DEF Materialized
<1>2. \A k \in 1 .. 10 : \/ k = 1 \/ k = 2 \/ k = 3 \/ k = 4 \/ k = 5
                         \/ k = 6 \/ k = 7 \/ k = 8 \/ k = 9 \/ k = 10
  OBVIOUS
<1>3. DOMAIN u = 1 .. 10
  BY DEF Materialized
<1> QED
  BY <1>1, <1>2, <1>3

LEMMA IRUnitKinds ==
    ASSUME NEW p, NEW f, NEW k, NEW u, IRUnit(p, f, k, u), p.functions[f].body[k].op \in IROps
    PROVE  \/ p.functions[f].body[k].op = "LABEL" /\ DOMAIN u = 1 .. 1 /\ u[1].kind = "label"
           \/ p.functions[f].body[k].op # "LABEL" /\ \E m \in Nat : AllInstr(u, m)
           \/ /\ p.functions[f].body[k].op # "LABEL"
              /\ DOMAIN u = 1 .. 10
              /\ \A x \in 1 .. 10 : u[x].kind = IF x \in {7, 9} THEN "label" ELSE "instr"
<1> DEFINE i == p.functions[f].body[k]
           n == CgCounter(p, f, k)
<1>1. /\ \A op, a, b, c : Asm(op, a, b, c).kind = "instr"
      /\ \A op, l : AsmTo(op, l).kind = "instr"
      /\ \A l : Label(l).kind = "label"
      /\ \A r, slot : LdSlot(p, f, r, slot).kind = "instr" /\ StSlot(p, f, r, slot).kind = "instr"
  BY LineKinds DEF LdSlot, StSlot
<1>2. CASE i.op = "LABEL"
  BY <1>1, <1>2 DEF IRUnit, Are1
<1>3. CASE i.op = "NOT"
  <2>1. Materialized(u, LdSlot(p, f, 4, i.src), Asm("LI", 5, 0, 0), "JZ", n, StSlot(p, f, 4, i.dst))
    BY <1>3 DEF IRUnit
  <2> HIDE DEF i, n
  <2>2. DOMAIN u = 1 .. 10 /\ \A x \in 1 .. 10 : u[x].kind = IF x \in {7, 9} THEN "label" ELSE "instr"
    BY <1>1, <2>1, MaterializedKinds
  <2> QED
    BY <1>3, <2>2 DEF i
<1>4. CASE i.op \in Comparisons
  <2>1. Materialized(u, LdSlot(p, f, 4, i.src), LdSlot(p, f, 5, i.src2), JumpIf[i.op], n, StSlot(p, f, 4, i.dst))
    BY <1>4 DEF IRUnit
  <2>2. i.op # "LABEL"
    BY <1>4 DEF Comparisons
  <2> HIDE DEF i, n
  <2>3. DOMAIN u = 1 .. 10 /\ \A x \in 1 .. 10 : u[x].kind = IF x \in {7, 9} THEN "label" ELSE "instr"
    BY <1>1, <2>1, MaterializedKinds
  <2> QED
    BY <2>2, <2>3 DEF i
<1>5. CASE i.op \notin Comparisons \cup {"NOT", "LABEL"}
  <2>1. AllInstr(u, 1) \/ AllInstr(u, 2) \/ AllInstr(u, 3) \/ AllInstr(u, 4)
    <3> DEFINE L(r, slot) == LdSlot(p, f, r, slot)
               S(r, slot) == StSlot(p, f, r, slot)
    <3>1. CASE i.op = "CONST"
      <4>1. Are2(u, Asm("LI", 4, i.imm, 0), S(4, i.dst))
        BY <3>1 DEF IRUnit
      <4> HIDE DEF i, L, S
      <4> QED
        BY <1>1, <4>1, FewInstr DEF L, S
    <3>2. CASE i.op = "COPY"
      <4>1. Are2(u, L(4, i.src), S(4, i.dst))
        BY <3>2 DEF IRUnit
      <4> HIDE DEF i, L, S
      <4> QED
        BY <1>1, <4>1, FewInstr DEF L, S
    <3>3. CASE i.op \in {"ADD", "SUB"}
      <4>1. Are4(u, L(4, i.src), L(5, i.src2), Asm(i.op, 4, 4, 5), S(4, i.dst))
        BY <3>3 DEF IRUnit
      <4> HIDE DEF i, L, S
      <4> QED
        BY <1>1, <4>1, FewInstr DEF L, S
    <3>4. CASE i.op = "NEG"
      <4>1. Are4(u, Asm("LI", 4, 0, 0), L(5, i.src), Asm("SUB", 4, 4, 5), S(4, i.dst))
        BY <3>4 DEF IRUnit
      <4> HIDE DEF i, L, S
      <4> QED
        BY <1>1, <4>1, FewInstr DEF L, S
    <3>5. CASE i.op = "MEM_LOAD"
      <4>1. Are3(u, L(4, i.src), Asm("LDR", 5, 4, 0), S(5, i.dst))
        BY <3>5 DEF IRUnit
      <4> HIDE DEF i, L, S
      <4> QED
        BY <1>1, <4>1, FewInstr DEF L, S
    <3>6. CASE i.op = "MEM_STORE"
      <4>1. Are3(u, L(4, i.dst), L(5, i.src), Asm("STR", 5, 4, 0))
        BY <3>6 DEF IRUnit
      <4> HIDE DEF i, L, S
      <4> QED
        BY <1>1, <4>1, FewInstr DEF L, S
    <3>7. CASE i.op = "JUMP"
      <4>1. Are1(u, AsmTo("JMP", FnLabel(p, f, i.label)))
        BY <3>7 DEF IRUnit
      <4> HIDE DEF i, L, S
      <4> QED
        BY <1>1, <4>1, FewInstr DEF L, S
    <3>8. CASE i.op = "JUMP_Z"
      <4>1. Are4(u, L(4, i.src), Asm("LI", 5, 0, 0), Asm("CMP", 4, 5, 0), AsmTo("JZ", FnLabel(p, f, i.label)))
        BY <3>8 DEF IRUnit
      <4> HIDE DEF i, L, S
      <4> QED
        BY <1>1, <4>1, FewInstr DEF L, S
    <3>9. CASE i.op = "JUMP_NZ"
      <4>1. Are4(u, L(4, i.src), Asm("LI", 5, 0, 0), Asm("CMP", 4, 5, 0), AsmTo("JNZ", FnLabel(p, f, i.label)))
        BY <3>9 DEF IRUnit
      <4> HIDE DEF i, L, S
      <4> QED
        BY <1>1, <4>1, FewInstr DEF L, S
    <3>10. CASE i.op = "ARG"
      <4>1. Are1(u, L(i.imm + 1, i.src))
        BY <3>10 DEF IRUnit
      <4> HIDE DEF i, L, S
      <4> QED
        BY <1>1, <4>1, FewInstr DEF L, S
    <3>11. CASE i.op = "CALL" /\ i.dst = ""
      <4>1. Are1(u, AsmTo("CALL", i.label))
        BY <3>11 DEF IRUnit
      <4> HIDE DEF i, L, S
      <4> QED
        BY <1>1, <4>1, FewInstr DEF L, S
    <3>12. CASE i.op = "CALL" /\ i.dst # ""
      <4>1. Are2(u, AsmTo("CALL", i.label), S(0, i.dst))
        BY <3>12 DEF IRUnit
      <4> HIDE DEF i, L, S
      <4> QED
        BY <1>1, <4>1, FewInstr DEF L, S
    <3>13. CASE i.op = "RETURN"
      <4>1. Are2(u, L(0, i.src), Asm("RET", 0, 0, 0))
        BY <3>13 DEF IRUnit
      <4> HIDE DEF i, L, S
      <4> QED
        BY <1>1, <4>1, FewInstr DEF L, S
    <3>14. CASE i.op = "RETURN_VOID"
      <4>1. Are1(u, Asm("RET", 0, 0, 0))
        BY <3>14 DEF IRUnit
      <4> HIDE DEF i, L, S
      <4> QED
        BY <1>1, <4>1, FewInstr DEF L, S
    <3>15. CASE i.op \in {"PRINT", "PRINTD"}
      <4>1. Are2(u, L(4, i.src), Asm(i.op, 4, 0, 0))
        BY <3>15 DEF IRUnit
      <4> HIDE DEF i, L, S
      <4> QED
        BY <1>1, <4>1, FewInstr DEF L, S
    <3>16. CASE i.op = "HALT"
      <4>1. Are1(u, Asm("HALT", 0, 0, 0))
        BY <3>16 DEF IRUnit
      <4> HIDE DEF i, L, S
      <4> QED
        BY <1>1, <4>1, FewInstr DEF L, S
    <3> QED
      BY <1>5, <3>1, <3>2, <3>3, <3>4, <3>5, <3>6, <3>7, <3>8, <3>9, <3>10, <3>11, <3>12, <3>13, <3>14, <3>15, <3>16 DEF IROps
  <2>2. i.op # "LABEL"
    BY <1>5
  <2> QED
    BY <2>1, <2>2
<1> QED
  BY <1>2, <1>3, <1>4, <1>5

LEMMA BodyShape ==
    ASSUME NEW p, WellFormed(p), NEW f \in 1 .. Len(p.functions),
           NEW k \in 1 .. Len(p.functions[f].body)
    PROVE  \E m \in Nat : UnitShape(p, f, k, m)
<1> DEFINE body == p.functions[f].body
           u == EmitIR(p, f, k)
<1>1. /\ p.functions[f] \in IRFunctions /\ EndsWithReturn(body)
      /\ Len(body) \in Nat /\ DOMAIN body = 1 .. Len(body) /\ body[k] \in IRInstructions
      /\ Len(p.functions) \in Nat
  <2>1. p.functions[f] \in IRFunctions /\ EndsWithReturn(body) /\ Len(p.functions) \in Nat
    BY Lengths
  <2>2. body \in Seq(IRInstructions)
    BY <2>1 DEF IRFunctions
  <2> QED
    BY <2>1, <2>2
<1>2. body[k].op \in IROps
  BY <1>1 DEF IRInstructions
<1>3. f # 0 /\ k # 0 /\ f \in Nat /\ k \in Nat
  BY <1>1
<1>4. Unit(p, f, k) = u /\ IRUnit(p, f, k, u)
  BY <1>2, <1>3, EmittedLines DEF Unit
<1>5. k < Len(body) \/ LastStops(u)
  <2>1. CASE k = Len(body)
    <3>1. body[k].op \in {"RETURN", "RETURN_VOID"}
      BY <1>1, <2>1 DEF EndsWithReturn
    <3>2. StoreFits(p, f, body[k])
      BY <1>1, InstructionsFit
    <3> QED
      BY <1>2, <3>1, <3>2, EmitIRLines
  <2> QED
    BY <1>1, <2>1
<1> HIDE DEF u, body
<1>6. \E m \in Nat \ {0} :
         /\ DOMAIN u = 1 .. m
         /\ \A n \in 1 .. m : u[n].kind \in {"label", "instr"}
         /\ \A n \in 2 .. m : u[n].kind = "label" => n + 1 \in 1 .. m /\ u[n + 1].kind = "instr"
         /\ body[k].op # "LABEL" => u[1].kind = "instr"
         /\ body[k].op = "LABEL" => u[1].kind = "label" /\ m = 1
  <2>1. CASE body[k].op = "LABEL" /\ DOMAIN u = 1 .. 1 /\ u[1].kind = "label"
    <3>1. \A n \in 1 .. 1 : n = 1
      OBVIOUS
    <3>2. 2 .. 1 = {}
      OBVIOUS
    <3> QED
      BY <2>1, <3>1, <3>2
  <2>2. CASE body[k].op # "LABEL" /\ \E m \in Nat : AllInstr(u, m)
    <3>1. PICK m \in Nat : AllInstr(u, m)
      BY <2>2
    <3>2. m \in Nat \ {0} /\ 1 \in 1 .. m /\ \A n \in 2 .. m : n \in 1 .. m
      BY <3>1 DEF AllInstr
    <3> QED
      BY <2>2, <3>1, <3>2 DEF AllInstr
  <2>3. CASE /\ body[k].op # "LABEL"
             /\ DOMAIN u = 1 .. 10
             /\ \A x \in 1 .. 10 : u[x].kind = IF x \in {7, 9} THEN "label" ELSE "instr"
    <3>1. \A n \in 2 .. 10 : n \in 1 .. 10
                /\ (n \in {7, 9} => n + 1 \in 1 .. 10 /\ n + 1 \notin {7, 9})
      OBVIOUS
    <3>2. 10 \in Nat \ {0} /\ 1 \in 1 .. 10 /\ 1 \notin {7, 9}
      OBVIOUS
    <3>3. \A n \in 1 .. 10 : u[n].kind \in {"label", "instr"}
      BY <2>3
    <3>4. u[1].kind = "instr"
      BY <2>3, <3>2
    <3>5. ASSUME NEW n \in 2 .. 10, u[n].kind = "label"
          PROVE  n + 1 \in 1 .. 10 /\ u[n + 1].kind = "instr"
      <4>1. n \in 1 .. 10 /\ n \in {7, 9}
        BY <2>3, <3>1, <3>5
      <4> QED
        BY <2>3, <3>1, <4>1
    <3> QED
      BY <2>3, <3>2, <3>3, <3>4, <3>5
  <2> QED
    BY <1>2, <1>4, <2>1, <2>2, <2>3, IRUnitKinds DEF body
<1>7. PICK m \in Nat \ {0} :
         /\ DOMAIN u = 1 .. m
         /\ \A n \in 1 .. m : u[n].kind \in {"label", "instr"}
         /\ \A n \in 2 .. m : u[n].kind = "label" => n + 1 \in 1 .. m /\ u[n + 1].kind = "instr"
         /\ body[k].op # "LABEL" => u[1].kind = "instr"
         /\ body[k].op = "LABEL" => u[1].kind = "label" /\ m = 1
  BY <1>6
<1>8. LastStops(u) => Stops(u[m])
  <2> SUFFICES ASSUME LastStops(u) PROVE Stops(u[m])
    OBVIOUS
  <2>1. PICK j \in Nat \ {0} : DOMAIN u = 1 .. j /\ Stops(u[j])
    BY DEF LastStops
  <2>2. j = m
    <3>1. 1 .. j = 1 .. m /\ j \in 1 .. j /\ m \in 1 .. m
      BY <1>7, <2>1
    <3> QED
      BY <3>1
  <2> QED
    BY <2>1, <2>2
<1>9. UnitShape(p, f, k, m)
  BY <1>3, <1>4, <1>5, <1>7, <1>8 DEF UnitShape, body
<1> QED
  BY <1>9

LEMMA UnitsHaveShape ==
    ASSUME NEW p, WellFormed(p), NEW f, NEW k, IsUnit(p, f, k)
    PROVE  \E m \in Nat : UnitShape(p, f, k, m)
<1>1. CASE f = 0 /\ k = 0
  BY <1>1, InitShape
<1>2. CASE f \in 1 .. Len(p.functions) /\ k = 0
  BY <1>2, PrologueShape
<1>3. CASE f \in 1 .. Len(p.functions) /\ k \in 1 .. Len(p.functions[f].body)
  BY <1>3, BodyShape
<1>4. f \in 1 .. Len(p.functions) /\ k \in 0 .. Len(p.functions[f].body) =>
         k = 0 \/ k \in 1 .. Len(p.functions[f].body)
  OBVIOUS
<1> QED
  BY <1>1, <1>2, <1>3, <1>4 DEF IsUnit

-----------------------------------------------------------------------------
(* The layout of the generated code: which line comes after which.         *)

IsLine(p, f, k, n) == IsUnit(p, f, k) /\ n \in DOMAIN Unit(p, f, k)

LineAt(p, f, k, n) == [fn |-> f, ip |-> k, nth |-> n, line |-> Unit(p, f, k)[n]]

LinesOfFn(p, f) == {LineAt(p, f, k, n) : k \in Nat, n \in Nat}

\* s consists of the lines of the functions F; every line is followed by the
\* next of its unit, the last of a unit by the first of the function's next.
Lays(p, F, s) ==
    /\ \A g \in 1 .. Len(s) :
          \E f \in F, k \in Nat, n \in Nat : IsLine(p, f, k, n) /\ s[g] = LineAt(p, f, k, n)
    /\ \A g \in 1 .. Len(s), f \in F, k \in Nat, n \in Nat :
          IsLine(p, f, k, n) /\ s[g] = LineAt(p, f, k, n) =>
             /\ IsLine(p, f, k, n + 1) =>
                   g + 1 \in 1 .. Len(s) /\ s[g + 1] = LineAt(p, f, k, n + 1)
             /\ ~ IsLine(p, f, k, n + 1) /\ f # 0 /\ IsUnit(p, f, k + 1) =>
                   g + 1 \in 1 .. Len(s) /\ s[g + 1] = LineAt(p, f, k + 1, 1)
    /\ \A f \in F, k \in Nat, n \in Nat :
          IsLine(p, f, k, n) => \E g \in 1 .. Len(s) : s[g] = LineAt(p, f, k, n)

LEMMA LaysNext ==
    ASSUME NEW p, NEW F, NEW T, Lays(p, F, T), NEW f \in F, NEW k \in Nat, NEW n \in Nat,
           IsLine(p, f, k, n), NEW g \in 1 .. Len(T), T[g] = LineAt(p, f, k, n)
    PROVE  /\ IsLine(p, f, k, n + 1) =>
                 g + 1 \in 1 .. Len(T) /\ T[g + 1] = LineAt(p, f, k, n + 1)
           /\ ~ IsLine(p, f, k, n + 1) /\ f # 0 /\ IsUnit(p, f, k + 1) =>
                 g + 1 \in 1 .. Len(T) /\ T[g + 1] = LineAt(p, f, k + 1, 1)
  BY DEF Lays

LEMMA SameLine ==
    ASSUME NEW p, NEW f, NEW k, NEW n, NEW g, NEW j, NEW m, LineAt(p, f, k, n) = LineAt(p, g, j, m)
    PROVE  f = g /\ k = j /\ n = m
<1>1. LineAt(p, f, k, n).fn = f /\ LineAt(p, f, k, n).ip = k /\ LineAt(p, f, k, n).nth = n
  BY DEF LineAt
<1>2. LineAt(p, g, j, m).fn = g /\ LineAt(p, g, j, m).ip = j /\ LineAt(p, g, j, m).nth = m
  BY DEF LineAt
<1> QED
  BY <1>1, <1>2

LEMMA UnitLines ==
    ASSUME NEW p, WellFormed(p), NEW f, NEW k \in Nat, IsUnit(p, f, k)
    PROVE  LET s == From(f, k, Unit(p, f, k))
           IN  /\ s \in Seq(LinesOfFn(p, f))
               /\ Len(s) \in Nat \ {0}
               /\ DOMAIN Unit(p, f, k) = 1 .. Len(s)
               /\ \A n \in 1 .. Len(s) : s[n] = LineAt(p, f, k, n)
<1> DEFINE s == From(f, k, Unit(p, f, k))
           X == LinesOfFn(p, f)
<1>1. PICK m \in Nat : UnitShape(p, f, k, m)
  BY UnitsHaveShape
<1>2. DOMAIN Unit(p, f, k) = 1 .. m /\ m # 0
  BY <1>1 DEF UnitShape
<1>3. s = [n \in 1 .. m |-> LineAt(p, f, k, n)]
  BY <1>2 DEF From, LineAt
<1>4. \A n \in 1 .. m : LineAt(p, f, k, n) \in X
  BY DEF LinesOfFn
<1> HIDE DEF s, X
<1>5. s \in [1 .. m -> X]
  BY <1>3, <1>4
<1>6. s \in Seq(X) /\ Len(s) = m
  BY <1>5
<1> QED
  BY <1>2, <1>3, <1>6 DEF s, X

\* Unit k of function f begins after at[k] lines of s.
StartsAt(p, f, B, at, s) ==
    /\ Len(s) \in Nat
    /\ \A k \in 0 .. B : \A n \in DOMAIN Unit(p, f, k) :
          at[k] + n \in 1 .. Len(s) /\ s[at[k] + n] = LineAt(p, f, k, n)
    /\ \A g \in 1 .. Len(s) :
          \E k \in 0 .. B : \E n \in DOMAIN Unit(p, f, k) : g = at[k] + n

LEMMA FunctionStarts ==
    ASSUME NEW p, WellFormed(p), NEW f \in 1 .. Len(p.functions)
    PROVE  LET B == Len(p.functions[f].body)
           IN  /\ EmitFunction(p, f) \in Seq(LinesOfFn(p, f))
               /\ \E at \in [0 .. B -> Nat] :
                    /\ StartsAt(p, f, B, at, EmitFunction(p, f))
                    /\ \A k \in 1 .. B :
                          \A m \in Nat : DOMAIN Unit(p, f, k - 1) = 1 .. m => at[k] = at[k - 1] + m
<1> DEFINE body == p.functions[f].body
           B == Len(body)
           X == LinesOfFn(p, f)
           a == From(f, 0, Unit(p, f, 0))
           us == [k \in 1 .. B |-> From(f, k, Unit(p, f, k))]
           b == FlattenSeq(us)
<1>1. /\ B \in Nat /\ DOMAIN body = 1 .. B /\ f # 0 /\ f \in Nat
      /\ \A k \in 0 .. B : IsUnit(p, f, k) /\ k \in Nat
  <2>1. p.functions[f] \in IRFunctions /\ Len(p.functions) \in Nat
    BY Lengths
  <2>2. body \in Seq(IRInstructions)
    BY <2>1 DEF IRFunctions
  <2>3. B \in Nat /\ DOMAIN body = 1 .. B
    BY <2>2
  <2>4. \A k \in 0 .. B : IsUnit(p, f, k) /\ k \in Nat
    BY <2>3 DEF IsUnit
  <2> QED
    BY <2>1, <2>3, <2>4
<1>2. EmitFunction(p, f) = a \o b
  <2>1. EmitPrologue(p, f) = Unit(p, f, 0)
    BY <1>1 DEF Unit
  <2>2. \A k \in 1 .. B : EmitIR(p, f, k) = Unit(p, f, k)
    BY <1>1 DEF Unit
  <2>3. [k \in DOMAIN body |-> From(f, k, EmitIR(p, f, k))] = us
    BY <1>1, <2>2
  <2> HIDE DEF us
  <2> QED
    BY <2>1, <2>3 DEF EmitFunction
<1>3. /\ a \in Seq(X) /\ Len(a) \in Nat \ {0} /\ DOMAIN Unit(p, f, 0) = 1 .. Len(a)
      /\ \A n \in 1 .. Len(a) : a[n] = LineAt(p, f, 0, n)
  <2>1. 0 \in Nat /\ IsUnit(p, f, 0)
    BY <1>1
  <2> QED
    BY <2>1, UnitLines
<1>4. ASSUME NEW k \in 1 .. B
      PROVE  /\ us[k] \in Seq(X) /\ Len(us[k]) \in Nat \ {0}
             /\ DOMAIN Unit(p, f, k) = 1 .. Len(us[k])
             /\ \A n \in 1 .. Len(us[k]) : us[k][n] = LineAt(p, f, k, n)
  <2>1. IsUnit(p, f, k) /\ k \in Nat /\ us[k] = From(f, k, Unit(p, f, k))
    BY <1>1
  <2> HIDE DEF us
  <2> QED
    BY <2>1, UnitLines
<1>5. us \in Seq(Seq(X)) /\ Len(us) = B
  <2>1. us \in [1 .. B -> Seq(X)]
    BY <1>4
  <2> HIDE DEF us, X
  <2> QED
    BY <1>1, <2>1
<1> HIDE DEF us, a, X, body
<1>6. /\ b \in Seq(X)
      /\ \E o \in [0 .. B -> Nat] :
            /\ o[0] = 0
            /\ \A i \in 1 .. B : o[i] = o[i - 1] + Len(us[i])
            /\ JoinedAt(us, B, o, b)
  BY <1>5, FlattenIndex
<1>7. PICK o \in [0 .. B -> Nat] :
            /\ o[0] = 0
            /\ \A i \in 1 .. B : o[i] = o[i - 1] + Len(us[i])
            /\ JoinedAt(us, B, o, b)
  BY <1>6
<1> HIDE DEF b, B
<1> DEFINE s == a \o b
           A == Len(a)
           at == [k \in 0 .. B |-> IF k = 0 THEN 0 ELSE A + o[k - 1]]
<1>8. /\ s \in Seq(X) /\ Len(s) = A + Len(b)
      /\ \A g \in 1 .. A : s[g] = a[g]
      /\ \A j \in 1 .. Len(b) : s[A + j] = b[j]
  BY <1>3, <1>6, ConcatIndex
<1>9. A \in Nat /\ Len(b) \in Nat /\ B \in Nat
  BY <1>1, <1>3, <1>6
<1> HIDE DEF s, A
<1>10. /\ at \in [0 .. B -> Nat] /\ at[0] = 0
       /\ \A k \in 1 .. B : at[k] = A + o[k - 1] /\ k - 1 \in 0 .. B
  <2>1. \A k \in 0 .. B : k # 0 => k - 1 \in 0 .. B /\ A + o[k - 1] \in Nat
    BY <1>9
  <2>2. \A k \in 1 .. B : k \in 0 .. B /\ k # 0
    BY <1>9
  <2>3. 0 \in 0 .. B
    BY <1>9
  <2> QED
    BY <2>1, <2>2, <2>3
<1> HIDE DEF at
<1>11. ASSUME NEW k \in 0 .. B, NEW n \in DOMAIN Unit(p, f, k)
       PROVE  at[k] + n \in 1 .. Len(s) /\ s[at[k] + n] = LineAt(p, f, k, n)
  <2>1. CASE k = 0
    <3>1. n \in 1 .. A
      BY <1>3, <2>1 DEF A
    <3>2. at[k] + n = n /\ n \in 1 .. Len(s)
      BY <1>8, <1>9, <1>10, <2>1, <3>1
    <3> QED
      BY <1>3, <1>8, <2>1, <3>1, <3>2 DEF A
  <2>2. CASE k # 0
    <3>1. k \in 1 .. B
      BY <1>9, <2>2
    <3>2. n \in 1 .. Len(us[k])
      BY <1>4, <3>1
    <3>3. o[k - 1] + n \in 1 .. Len(b) /\ b[o[k - 1] + n] = us[k][n]
      BY <1>7, <3>1, <3>2 DEF JoinedAt
    <3>4. o[k - 1] \in Nat /\ n \in Nat
      BY <1>10, <3>1, <3>2
    <3>5. at[k] + n = A + (o[k - 1] + n)
      BY <1>9, <1>10, <3>1, <3>4
    <3>6. PICK j : j = o[k - 1] + n
      OBVIOUS
    <3>7. j \in 1 .. Len(b) /\ b[j] = us[k][n] /\ at[k] + n = A + j
      BY <3>3, <3>5, <3>6
    <3>8. A + j \in 1 .. Len(s) /\ s[A + j] = b[j]
      BY <1>8, <1>9, <3>7
    <3>9. us[k][n] = LineAt(p, f, k, n)
      BY <1>4, <3>1, <3>2
    <3> QED
      BY <3>7, <3>8, <3>9
  <2> QED
    BY <2>1, <2>2
<1>12. ASSUME NEW g \in 1 .. Len(s)
       PROVE  \E k \in 0 .. B : \E n \in DOMAIN Unit(p, f, k) : g = at[k] + n
  <2>1. CASE g \in 1 .. A
    <3>1. 0 \in 0 .. B /\ g = at[0] + g
      BY <1>9, <1>10, <2>1
    <3>2. g \in DOMAIN Unit(p, f, 0)
      BY <1>3, <2>1 DEF A
    <3> QED
      BY <3>1, <3>2
  <2>2. CASE g \notin 1 .. A
    <3>1. g - A \in 1 .. Len(b) /\ g = A + (g - A)
      BY <1>8, <1>9, <2>2
    <3>2. PICK k \in 1 .. B : \E n \in 1 .. Len(us[k]) : g - A = o[k - 1] + n
      BY <1>7, <3>1 DEF JoinedAt
    <3>3. PICK n \in 1 .. Len(us[k]) : g - A = o[k - 1] + n
      BY <3>2
    <3>4. o[k - 1] \in Nat /\ n \in Nat
      BY <1>10, <3>2, <3>3
    <3>5. g = at[k] + n
      <4>1. at[k] = A + o[k - 1]
        BY <1>10
      <4>2. g \in Int /\ \A x \in Int, y \in Int : g - A = x + y => g = (A + x) + y
        BY <1>8, <1>9
      <4> QED
        BY <3>3, <3>4, <4>1, <4>2
    <3>6. k \in 0 .. B /\ n \in DOMAIN Unit(p, f, k)
      BY <1>4, <1>9, <3>2, <3>3
    <3> QED
      BY <3>5, <3>6
  <2> QED
    BY <2>1, <2>2
<1>13. ASSUME NEW k \in 1 .. B, NEW m \in Nat, DOMAIN Unit(p, f, k - 1) = 1 .. m
       PROVE  at[k] = at[k - 1] + m
  <2>1. CASE k = 1
    <3>1. DOMAIN Unit(p, f, 0) = 1 .. m
      BY <1>13, <2>1
    <3>2. m = A
      BY <1>3, <1>9, <3>1 DEF A
    <3> QED
      BY <1>7, <1>9, <1>10, <2>1, <3>2
  <2>2. CASE k # 1
    <3>1. k - 1 \in 1 .. B
      BY <1>9, <2>2
    <3>2. 1 .. m = 1 .. Len(us[k - 1]) /\ Len(us[k - 1]) \in Nat
      BY <1>4, <1>13, <3>1
    <3>3. m = Len(us[k - 1])
      BY <3>2
    <3>4. at[k] = A + o[k - 1] /\ at[k - 1] = A + o[(k - 1) - 1]
      BY <1>10, <3>1
    <3>5. o[k - 1] = o[(k - 1) - 1] + Len(us[k - 1])
      BY <1>7, <3>1
    <3>6. o[(k - 1) - 1] \in Nat
      BY <1>10, <3>1
    <3>7. PICK y, z : y = o[k - 1] /\ z = o[(k - 1) - 1]
      OBVIOUS
    <3>8. at[k] = A + y /\ at[k - 1] = A + z /\ y = z + m
      BY <3>3, <3>4, <3>5, <3>7
    <3>9. A \in Nat /\ z \in Nat /\ m \in Nat
      BY <1>9, <3>6, <3>7
    <3> QED
      BY ONLY <3>8, <3>9
  <2> QED
    BY <2>1, <2>2
<1>14. StartsAt(p, f, B, at, s)
  <2>1. Len(s) \in Nat
    BY <1>8, <1>9
  <2>2. \A k \in 0 .. B : \A n \in DOMAIN Unit(p, f, k) :
           at[k] + n \in 1 .. Len(s) /\ s[at[k] + n] = LineAt(p, f, k, n)
    BY <1>11
  <2>3. \A g \in 1 .. Len(s) : \E k \in 0 .. B : \E n \in DOMAIN Unit(p, f, k) : g = at[k] + n
    BY <1>12
  <2> QED
    BY ONLY <2>1, <2>2, <2>3, Zenon DEF StartsAt
<1> QED
  BY <1>2, <1>8, <1>10, <1>13, <1>14 DEF s, X, B, body

LEMMA FunctionLays ==
    ASSUME NEW p, WellFormed(p), NEW f \in 1 .. Len(p.functions)
    PROVE  /\ EmitFunction(p, f) \in Seq(LinesOfFn(p, f))
           /\ Lays(p, {f}, EmitFunction(p, f))
<1> DEFINE B == Len(p.functions[f].body)
           s == EmitFunction(p, f)
<1>1. /\ s \in Seq(LinesOfFn(p, f))
      /\ \E at \in [0 .. B -> Nat] :
            /\ StartsAt(p, f, B, at, s)
            /\ \A k \in 1 .. B :
                  \A m \in Nat : DOMAIN Unit(p, f, k - 1) = 1 .. m => at[k] = at[k - 1] + m
  BY FunctionStarts
<1>2. PICK at \in [0 .. B -> Nat] :
            /\ StartsAt(p, f, B, at, s)
            /\ \A k \in 1 .. B :
                  \A m \in Nat : DOMAIN Unit(p, f, k - 1) = 1 .. m => at[k] = at[k - 1] + m
  BY <1>1
<1>3. B \in Nat /\ f # 0 /\ f \in Nat /\ \A k : IsUnit(p, f, k) <=> k \in 0 .. B
  <2>1. p.functions[f] \in IRFunctions /\ Len(p.functions) \in Nat
    BY Lengths
  <2>2. p.functions[f].body \in Seq(IRInstructions)
    BY <2>1 DEF IRFunctions
  <2> QED
    BY <2>1, <2>2 DEF IsUnit
<1> HIDE DEF s, B
<1>4. ASSUME NEW g \in 1 .. Len(s)
      PROVE  \E k \in 0 .. B : \E n \in DOMAIN Unit(p, f, k) : g = at[k] + n /\ s[g] = LineAt(p, f, k, n)
  BY <1>2 DEF StartsAt
<1>5. \A k \in 0 .. B : \A n \in DOMAIN Unit(p, f, k) : n \in Nat /\ k \in Nat
  <2> SUFFICES ASSUME NEW k \in 0 .. B, NEW n \in DOMAIN Unit(p, f, k) PROVE n \in Nat /\ k \in Nat
    OBVIOUS
  <2>1. PICK m \in Nat : UnitShape(p, f, k, m)
    BY <1>3, UnitsHaveShape
  <2> QED
    BY <1>3, <2>1 DEF UnitShape
<1>6. ASSUME NEW g \in 1 .. Len(s)
      PROVE  \E k \in Nat, n \in Nat : IsLine(p, f, k, n) /\ s[g] = LineAt(p, f, k, n)
  BY <1>3, <1>4, <1>5 DEF IsLine
<1>7. ASSUME NEW g \in 1 .. Len(s), NEW k \in Nat, NEW n \in Nat,
             IsLine(p, f, k, n), s[g] = LineAt(p, f, k, n)
      PROVE  /\ IsLine(p, f, k, n + 1) =>
                   g + 1 \in 1 .. Len(s) /\ s[g + 1] = LineAt(p, f, k, n + 1)
             /\ ~ IsLine(p, f, k, n + 1) /\ f # 0 /\ IsUnit(p, f, k + 1) =>
                   g + 1 \in 1 .. Len(s) /\ s[g + 1] = LineAt(p, f, k + 1, 1)
  <2>1. g = at[k] + n /\ k \in 0 .. B /\ at[k] \in Nat
    <3>1. PICK j \in 0 .. B : \E m \in DOMAIN Unit(p, f, j) : g = at[j] + m /\ s[g] = LineAt(p, f, j, m)
      BY <1>4
    <3>2. PICK m \in DOMAIN Unit(p, f, j) : g = at[j] + m /\ s[g] = LineAt(p, f, j, m)
      BY <3>1
    <3>3. j = k /\ m = n
      BY <1>7, <3>2, SameLine
    <3> QED
      BY <1>2, <3>1, <3>2, <3>3
  <2>2. ASSUME IsLine(p, f, k, n + 1)
        PROVE  g + 1 \in 1 .. Len(s) /\ s[g + 1] = LineAt(p, f, k, n + 1)
    <3>1. at[k] + (n + 1) \in 1 .. Len(s) /\ s[at[k] + (n + 1)] = LineAt(p, f, k, n + 1)
      BY <1>2, <2>1, <2>2 DEF StartsAt, IsLine
    <3>2. at[k] + (n + 1) = g + 1
      BY <2>1
    <3> QED
      BY <3>1, <3>2
  <2>3. ASSUME ~ IsLine(p, f, k, n + 1), IsUnit(p, f, k + 1)
        PROVE  g + 1 \in 1 .. Len(s) /\ s[g + 1] = LineAt(p, f, k + 1, 1)
    <3>1. PICK m \in Nat : UnitShape(p, f, k, m)
      BY <1>7, UnitsHaveShape DEF IsLine
    <3>2. DOMAIN Unit(p, f, k) = 1 .. m /\ n = m
      <4>1. DOMAIN Unit(p, f, k) = 1 .. m
        BY <3>1 DEF UnitShape
      <4>2. n \in 1 .. m /\ n + 1 \notin 1 .. m
        BY <1>7, <2>3, <4>1 DEF IsLine
      <4> QED
        BY <4>1, <4>2
    <3>3. k + 1 \in 1 .. B /\ (k + 1) - 1 = k
      BY <1>3, <2>3
    <3>4. at[k + 1] = at[k] + m
      BY <1>2, <3>2, <3>3
    <3>5. 1 \in DOMAIN Unit(p, f, k + 1)
      <4>1. PICK j \in Nat : UnitShape(p, f, k + 1, j)
        BY <2>3, UnitsHaveShape
      <4> QED
        BY <4>1 DEF UnitShape
    <3>6. at[k + 1] + 1 \in 1 .. Len(s) /\ s[at[k + 1] + 1] = LineAt(p, f, k + 1, 1)
      BY <1>2, <1>3, <3>3, <3>5 DEF StartsAt
    <3>7. at[k + 1] + 1 = g + 1
      BY <2>1, <3>2, <3>4
    <3> QED
      BY <3>6, <3>7
  <2> QED
    BY <2>2, <2>3
<1>8. ASSUME NEW k \in Nat, NEW n \in Nat, IsLine(p, f, k, n)
      PROVE  \E g \in 1 .. Len(s) : s[g] = LineAt(p, f, k, n)
  BY <1>2, <1>3, <1>8 DEF IsLine, StartsAt
<1>9. Lays(p, {f}, s)
  BY <1>6, <1>7, <1>8 DEF Lays
<1> QED
  BY <1>1, <1>9 DEF s

LEMMA InitLays ==
    ASSUME NEW p, WellFormed(p)
    PROVE  /\ From(0, 0, EmitInit(p)) \in Seq(LinesOfFn(p, 0))
           /\ Lays(p, {0}, From(0, 0, EmitInit(p)))
<1> DEFINE s == From(0, 0, Unit(p, 0, 0))
<1>1. EmitInit(p) = Unit(p, 0, 0) /\ IsUnit(p, 0, 0)
  BY DEF Unit, IsUnit
<1>2. /\ s \in Seq(LinesOfFn(p, 0)) /\ Len(s) \in Nat
      /\ DOMAIN Unit(p, 0, 0) = 1 .. Len(s)
      /\ \A n \in 1 .. Len(s) : s[n] = LineAt(p, 0, 0, n)
  BY <1>1, UnitLines
<1>3. \A k, n : IsLine(p, 0, k, n) <=> k = 0 /\ n \in 1 .. Len(s)
  <2>1. Len(p.functions) \in Nat
    BY Lengths
  <2> QED
    BY <1>2, <2>1 DEF IsLine, IsUnit
<1> HIDE DEF s
<1>4. ASSUME NEW g \in 1 .. Len(s)
      PROVE  \E k \in Nat, n \in Nat : IsLine(p, 0, k, n) /\ s[g] = LineAt(p, 0, k, n)
  <2>1. g \in Nat /\ 0 \in Nat
    OBVIOUS
  <2> QED
    BY <1>2, <1>3, <2>1
<1>5. ASSUME NEW g \in 1 .. Len(s), NEW k \in Nat, NEW n \in Nat,
             IsLine(p, 0, k, n), s[g] = LineAt(p, 0, k, n), IsLine(p, 0, k, n + 1)
      PROVE  g + 1 \in 1 .. Len(s) /\ s[g + 1] = LineAt(p, 0, k, n + 1)
  <2>1. s[g] = LineAt(p, 0, 0, g)
    BY <1>2
  <2>2. k = 0 /\ n = g
    BY <1>5, <2>1, SameLine
  <2> QED
    BY <1>2, <1>3, <1>5, <2>2
<1>6. ASSUME NEW k \in Nat, NEW n \in Nat, IsLine(p, 0, k, n)
      PROVE  \E g \in 1 .. Len(s) : s[g] = LineAt(p, 0, k, n)
  BY <1>2, <1>3, <1>6
<1>7. Lays(p, {0}, s)
  BY <1>4, <1>5, <1>6 DEF Lays
<1> QED
  BY <1>1, <1>2, <1>7 DEF s

LEMMA JoinLays ==
    ASSUME NEW p, NEW X, NEW s \in Seq(X), NEW t \in Seq(X), NEW F, NEW H,
           Lays(p, F, s), Lays(p, H, t)
    PROVE  Lays(p, F \cup H, s \o t)
<1> DEFINE u == s \o t
           a == Len(s)
<1>1. /\ Len(u) = a + Len(t) /\ a \in Nat /\ Len(t) \in Nat
      /\ \A g \in 1 .. a : u[g] = s[g]
      /\ \A j \in 1 .. Len(t) : u[a + j] = t[j]
  <2>1. a \in Nat /\ Len(t) \in Nat
    OBVIOUS
  <2> QED
    BY <2>1, ConcatIndex
<1> HIDE DEF u, a
<1>2. \A g \in 1 .. Len(u) : g \in 1 .. a \/ (g - a \in 1 .. Len(t) /\ g = a + (g - a))
  BY <1>1
<1>3. /\ \A g \in 1 .. a : g \in 1 .. Len(u)
      /\ \A j \in 1 .. Len(t) : a + j \in 1 .. Len(u)
  BY <1>1
<1>4. ASSUME NEW g \in 1 .. Len(u)
      PROVE  \E f \in F \cup H, k \in Nat, n \in Nat : IsLine(p, f, k, n) /\ u[g] = LineAt(p, f, k, n)
  <2>1. CASE g \in 1 .. a
    <3>1. \E f \in F, k \in Nat, n \in Nat : IsLine(p, f, k, n) /\ s[g] = LineAt(p, f, k, n)
      BY <2>1 DEF Lays, a
    <3> QED
      BY <1>1, <2>1, <3>1
  <2>2. CASE g - a \in 1 .. Len(t) /\ g = a + (g - a)
    <3> DEFINE j == g - a
    <3>1. \E f \in H, k \in Nat, n \in Nat : IsLine(p, f, k, n) /\ t[j] = LineAt(p, f, k, n)
      BY <2>2 DEF Lays
    <3>2. u[g] = t[j]
      BY <1>1, <2>2
    <3> HIDE DEF j
    <3> QED
      BY <3>1, <3>2
  <2> QED
    BY <1>2, <2>1, <2>2
<1>5. ASSUME NEW g \in 1 .. Len(u), NEW f \in F \cup H, NEW k \in Nat, NEW n \in Nat,
             IsLine(p, f, k, n), u[g] = LineAt(p, f, k, n)
      PROVE  /\ IsLine(p, f, k, n + 1) =>
                   g + 1 \in 1 .. Len(u) /\ u[g + 1] = LineAt(p, f, k, n + 1)
             /\ ~ IsLine(p, f, k, n + 1) /\ f # 0 /\ IsUnit(p, f, k + 1) =>
                   g + 1 \in 1 .. Len(u) /\ u[g + 1] = LineAt(p, f, k + 1, 1)
  <2>1. CASE g \in 1 .. a
    <3>1. s[g] = LineAt(p, f, k, n)
      BY <1>1, <1>5, <2>1
    <3>2. f \in F
      <4>1. PICK e \in F, j \in Nat, m \in Nat : IsLine(p, e, j, m) /\ s[g] = LineAt(p, e, j, m)
        BY <2>1 DEF Lays, a
      <4>2. LineAt(p, e, j, m) = LineAt(p, f, k, n)
        BY <3>1, <4>1
      <4> QED
        BY <4>2, SameLine
    <3>3. /\ IsLine(p, f, k, n + 1) =>
                g + 1 \in 1 .. a /\ s[g + 1] = LineAt(p, f, k, n + 1)
          /\ ~ IsLine(p, f, k, n + 1) /\ f # 0 /\ IsUnit(p, f, k + 1) =>
                g + 1 \in 1 .. a /\ s[g + 1] = LineAt(p, f, k + 1, 1)
      BY <1>5, <2>1, <3>1, <3>2, LaysNext DEF a
    <3> QED
      BY <1>1, <1>3, <3>3
  <2>2. CASE g - a \in 1 .. Len(t) /\ g = a + (g - a)
    <3>1. PICK j \in 1 .. Len(t) : g = a + j
      BY <2>2
    <3>2. t[j] = LineAt(p, f, k, n)
      BY <1>1, <1>5, <3>1
    <3>3. f \in H
      <4>1. PICK e \in H, i \in Nat, m \in Nat : IsLine(p, e, i, m) /\ t[j] = LineAt(p, e, i, m)
        BY DEF Lays
      <4>2. LineAt(p, e, i, m) = LineAt(p, f, k, n)
        BY <3>2, <4>1
      <4> QED
        BY <4>2, SameLine
    <3>4. /\ IsLine(p, f, k, n + 1) =>
                j + 1 \in 1 .. Len(t) /\ t[j + 1] = LineAt(p, f, k, n + 1)
          /\ ~ IsLine(p, f, k, n + 1) /\ f # 0 /\ IsUnit(p, f, k + 1) =>
                j + 1 \in 1 .. Len(t) /\ t[j + 1] = LineAt(p, f, k + 1, 1)
      BY <1>5, <3>2, <3>3, LaysNext
    <3>5. g + 1 = a + (j + 1)
      BY <1>1, <3>1
    <3>6. j + 1 \in 1 .. Len(t) => g + 1 \in 1 .. Len(u) /\ u[g + 1] = t[j + 1]
      BY <1>1, <1>3, <3>5
    <3> QED
      BY <3>4, <3>6
  <2> QED
    BY <1>2, <2>1, <2>2
<1>6. ASSUME NEW f \in F \cup H, NEW k \in Nat, NEW n \in Nat, IsLine(p, f, k, n)
      PROVE  \E g \in 1 .. Len(u) : u[g] = LineAt(p, f, k, n)
  <2>1. CASE f \in F
    <3>1. PICK g \in 1 .. a : s[g] = LineAt(p, f, k, n)
      BY <1>6, <2>1 DEF Lays, a
    <3> QED
      BY <1>1, <1>3, <3>1
  <2>2. CASE f \in H
    <3>1. PICK j \in 1 .. Len(t) : t[j] = LineAt(p, f, k, n)
      BY <1>6, <2>2 DEF Lays
    <3> QED
      BY <1>1, <1>3, <3>1
  <2> QED
    BY <2>1, <2>2
<1>7. Lays(p, F \cup H, u)
  BY <1>4, <1>5, <1>6 DEF Lays
<1> QED
  BY <1>7 DEF u

LEMMA FlattenLays ==
    ASSUME NEW p, NEW X, NEW ss \in Seq(Seq(X)), \A i \in 1 .. Len(ss) : Lays(p, {i}, ss[i])
    PROVE  FlattenSeq(ss) \in Seq(X) /\ Lays(p, 1 .. Len(ss), FlattenSeq(ss))
<1> DEFINE n == Len(ss)
<1>1. n \in Nat
  OBVIOUS
<1>2. CASE n = 0
  <2>1. ss = <<>>
    BY <1>2
  <2>2. FlattenSeq(ss) = <<>>
    BY <2>1 DEF FlattenSeq
  <2>3. Len(FlattenSeq(ss)) = 0 /\ 1 .. 0 = {} /\ 1 .. n = {} /\ FlattenSeq(ss) \in Seq(X)
    BY <1>2, <2>2
  <2> QED
    BY <2>3 DEF Lays
<1>3. CASE n # 0
  <2>1. PICK E \in [1 .. n -> Seq(X)] :
           /\ E[1] = ss[1]
           /\ \A i \in 2 .. n : E[i] = E[i - 1] \o ss[i]
           /\ FlattenSeq(ss) = E[n]
    <3>1. \A s \in Seq(X), t \in Seq(X) : s \o t \in Seq(X)
      OBVIOUS
    <3>2. Len(ss) >= 1
      BY <1>1, <1>3
    <3> QED
      BY <3>1, <3>2, FlattenPrefixes
  <2> DEFINE Q == {i \in Nat : i + 1 \in 1 .. n => Lays(p, 1 .. i + 1, E[i + 1])}
  <2>2. 0 \in Q
    <3>1. 1 .. 0 + 1 = {1} /\ 1 \in 1 .. n /\ 0 + 1 = 1
      BY <1>1, <1>3
    <3>2. Lays(p, {1}, E[1])
      BY <2>1, <3>1
    <3> QED
      BY <3>1, <3>2
  <2>3. ASSUME NEW i \in Nat, i \in Q PROVE i + 1 \in Q
    <3> SUFFICES ASSUME (i + 1) + 1 \in 1 .. n PROVE Lays(p, 1 .. (i + 1) + 1, E[(i + 1) + 1])
      OBVIOUS
    <3>1. /\ i + 1 \in 1 .. n /\ (i + 1) + 1 \in 2 .. n /\ ((i + 1) + 1) - 1 = i + 1
      BY <1>1
    <3>2. Lays(p, 1 .. i + 1, E[i + 1])
      BY <2>3, <3>1
    <3>3. PICK m \in 2 .. n : m = (i + 1) + 1
      BY <3>1
    <3>4. m - 1 = i + 1 /\ m \in 1 .. n /\ i + 1 \in 1 .. n
      BY <1>1, <3>1, <3>3
    <3>5. 1 .. m = (1 .. i + 1) \cup {m}
      BY <1>1, <3>3
    <3>6. E[m] = E[i + 1] \o ss[m]
      BY <2>1, <3>4
    <3>7. Lays(p, {m}, ss[m])
      BY <3>4
    <3>8. ss[m] \in Seq(X)
      BY <3>4
    <3>9. E[i + 1] \in Seq(X)
      BY <2>1, <3>4
    <3>10. Lays(p, (1 .. i + 1) \cup {m}, E[i + 1] \o ss[m])
      <4> SUFFICES ASSUME NEW s \in Seq(X), NEW t \in Seq(X), Lays(p, 1 .. i + 1, s), Lays(p, {m}, t)
                   PROVE  Lays(p, (1 .. i + 1) \cup {m}, s \o t)
        BY <3>2, <3>7, <3>8, <3>9
      <4> QED
        BY JoinLays
    <3>11. Lays(p, 1 .. m, E[m])
      BY <3>5, <3>6, <3>10
    <3> QED
      BY <3>3, <3>11
  <2>4. Nat \subseteq Q
    <3> HIDE DEF Q
    <3> QED
      BY <2>2, <2>3, SetInduction
  <2>5. n - 1 \in Nat /\ (n - 1) + 1 = n /\ n \in 1 .. n
    BY <1>1, <1>3
  <2>6. Lays(p, 1 .. (n - 1) + 1, E[(n - 1) + 1])
    <3>1. n - 1 \in Q
      BY <2>4, <2>5
    <3> QED
      BY <2>5, <3>1
  <2>7. Lays(p, 1 .. n, E[n])
    BY <2>5, <2>6
  <2> QED
    BY <2>1, <2>5, <2>7
<1> QED
  BY <1>2, <1>3

SitesOf(p) == UNION {LinesOfFn(p, f) : f \in 0 .. Len(p.functions)}

LEMMA GeneratedLays ==
    ASSUME NEW p, WellFormed(p)
    PROVE  Generate(p) \in Seq(SitesOf(p)) /\ Lays(p, 0 .. Len(p.functions), Generate(p))
<1> DEFINE F == Len(p.functions)
           X == SitesOf(p)
           a == From(0, 0, EmitInit(p))
           ss == [f \in 1 .. F |-> EmitFunction(p, f)]
<1>1. F \in Nat /\ DOMAIN p.functions = 1 .. F
  BY Lengths
<1>2. \A f \in 0 .. F : LinesOfFn(p, f) \subseteq X
  BY DEF SitesOf
<1>3. Generate(p) = a \o FlattenSeq(ss)
  BY <1>1 DEF Generate
<1>4. a \in Seq(X) /\ Lays(p, {0}, a)
  <2>1. a \in Seq(LinesOfFn(p, 0)) /\ Lays(p, {0}, a)
    BY InitLays
  <2>2. LinesOfFn(p, 0) \subseteq X
    BY <1>1, <1>2
  <2> HIDE DEF a, X
  <2> QED
    BY <2>1, <2>2
<1>5. ASSUME NEW f \in 1 .. F
      PROVE  EmitFunction(p, f) \in Seq(X) /\ Lays(p, {f}, EmitFunction(p, f))
  <2>1. EmitFunction(p, f) \in Seq(LinesOfFn(p, f)) /\ Lays(p, {f}, EmitFunction(p, f))
    BY FunctionLays
  <2>2. LinesOfFn(p, f) \subseteq X
    BY <1>1, <1>2
  <2> HIDE DEF X
  <2> QED
    BY <2>1, <2>2
<1> HIDE DEF a, X, F
<1>6. ss \in Seq(Seq(X)) /\ Len(ss) = F
  <2>1. ss \in [1 .. F -> Seq(X)]
    BY <1>5
  <2> HIDE DEF ss
  <2> QED
    BY <1>1, <2>1
<1>7. \A i \in 1 .. Len(ss) : Lays(p, {i}, ss[i])
  BY <1>5, <1>6
<1> HIDE DEF ss
<1>8. FlattenSeq(ss) \in Seq(X) /\ Lays(p, 1 .. F, FlattenSeq(ss))
  <2>1. FlattenSeq(ss) \in Seq(X) /\ Lays(p, 1 .. Len(ss), FlattenSeq(ss))
    BY <1>6, <1>7, FlattenLays
  <2> QED
    BY <1>6, <2>1
<1>9. {0} \cup (1 .. F) = 0 .. F
  BY <1>1
<1>10. a \o FlattenSeq(ss) \in Seq(X) /\ Lays(p, {0} \cup (1 .. F), a \o FlattenSeq(ss))
  <2>1. a \o FlattenSeq(ss) \in Seq(X)
    BY <1>4, <1>8, ConcatIndex
  <2> QED
    BY <1>4, <1>8, <2>1, JoinLays
<1> QED
  BY <1>3, <1>9, <1>10 DEF X, F

-----------------------------------------------------------------------------
(* The instruction that comes after a line.                                *)

\* The first IR instruction from k on that is not a label.
SkipTo(p, f, k) ==
    LET body == p.functions[f].body
    IN  Min({j \in k .. Len(body) : body[j].op # "LABEL"})

LEMMA BodyFacts ==
    ASSUME NEW p, WellFormed(p), NEW f \in 1 .. Len(p.functions)
    PROVE  LET body == p.functions[f].body
           IN  /\ Len(body) \in Nat \ {0} /\ DOMAIN body = 1 .. Len(body)
               /\ body[Len(body)].op \in {"RETURN", "RETURN_VOID"}
               /\ \A k \in 1 .. Len(body) : body[k] \in IRInstructions /\ body[k].op \in IROps
               /\ f # 0
               /\ \A k : IsUnit(p, f, k) <=> k \in 0 .. Len(body)
<1> DEFINE body == p.functions[f].body
<1>1. p.functions[f] \in IRFunctions /\ Len(p.functions) \in Nat /\ EndsWithReturn(body)
  BY Lengths
<1>2. body \in Seq(IRInstructions) /\ body # <<>>
  BY <1>1 DEF IRFunctions, EndsWithReturn
<1>3. Len(body) \in Nat \ {0} /\ DOMAIN body = 1 .. Len(body)
  BY <1>2
<1>4. \A k \in 1 .. Len(body) : body[k] \in IRInstructions
  BY <1>2
<1>5. f # 0 /\ \A k : IsUnit(p, f, k) <=> k \in 0 .. Len(body)
  BY <1>1 DEF IsUnit
<1>6. \A i \in IRInstructions : i.op \in IROps
  BY DEF IRInstructions
<1> QED
  BY <1>1, <1>3, <1>4, <1>5, <1>6 DEF EndsWithReturn

LEMMA SkipFacts ==
    ASSUME NEW p, WellFormed(p), NEW f \in 1 .. Len(p.functions),
           NEW k \in 1 .. Len(p.functions[f].body)
    PROVE  LET body == p.functions[f].body
           IN  /\ SkipTo(p, f, k) \in k .. Len(body)
               /\ body[SkipTo(p, f, k)].op # "LABEL"
               /\ body[k].op # "LABEL" => SkipTo(p, f, k) = k
               /\ body[k].op = "LABEL" =>
                     k + 1 \in 1 .. Len(body) /\ SkipTo(p, f, k) = SkipTo(p, f, k + 1)
<1> DEFINE body == p.functions[f].body
           B == Len(body)
           S(j) == {x \in j .. B : body[x].op # "LABEL"}
<1>1. B \in Nat /\ body[B].op # "LABEL" /\ SkipTo(p, f, k) = Min(S(k)) /\ SkipTo(p, f, k + 1) = Min(S(k + 1))
  BY BodyFacts DEF SkipTo
<1> HIDE DEF B
<1>2. B \in S(k) /\ S(k) \in SUBSET Nat
  BY <1>1 DEF B
<1>3. PICK x \in S(k) : \A y \in S(k) : x <= y
  BY <1>2, NatMinimum
<1>4. \A y \in S(k) : (\A z \in S(k) : y <= z) => y = x
  BY <1>2, <1>3
<1>5. Min(S(k)) = x
  <2> HIDE DEF S
  <2> QED
    BY <1>3, <1>4 DEF Min
<1>6. body[k].op # "LABEL" => x = k
  <2> SUFFICES ASSUME body[k].op # "LABEL" PROVE x = k
    OBVIOUS
  <2>1. k \in S(k) /\ x \in k .. B
    BY <1>1, <1>3 DEF B
  <2>2. x <= k
    BY <1>3, <2>1
  <2> QED
    BY <1>1, <2>1, <2>2
<1>7. body[k].op = "LABEL" => k + 1 \in 1 .. B /\ S(k) = S(k + 1)
  <2> SUFFICES ASSUME body[k].op = "LABEL" PROVE k + 1 \in 1 .. B /\ S(k) = S(k + 1)
    OBVIOUS
  <2>1. k # B /\ k \in 1 .. B
    BY <1>1 DEF B
  <2>2. k + 1 \in 1 .. B /\ \A y : y \in k .. B <=> y = k \/ y \in k + 1 .. B
    BY <1>1, <2>1
  <2> QED
    BY <2>2
<1>8. x \in k .. B /\ body[x].op # "LABEL"
  BY <1>3
<1> HIDE DEF S
<1> QED
  BY <1>1, <1>5, <1>6, <1>7, <1>8 DEF B

\* Where control is after line n of a unit, if it goes on.
AfterSite(p, f, k, n) ==
    IF IsLine(p, f, k, n + 1)
    THEN LineAt(p, f, k, IF Unit(p, f, k)[n + 1].kind = "instr" THEN n + 1 ELSE n + 2)
    ELSE LineAt(p, f, SkipTo(p, f, k + 1), 1)

\* The first g lines hold cnt[g] instructions; N lists the instructions.
Counts(T, cnt, N) ==
    /\ cnt[0] = 0
    /\ \A g \in 1 .. Len(T) :
          /\ cnt[g] \in Nat /\ cnt[g - 1] \in Nat
          /\ T[g].line.kind = "instr" =>
                /\ cnt[g] = cnt[g - 1] + 1
                /\ cnt[g] \in DOMAIN N /\ N[cnt[g]] = g
          /\ T[g].line.kind # "instr" => cnt[g] = cnt[g - 1]
    /\ \A q \in DOMAIN N : /\ N[q] \in 1 .. Len(T)
                           /\ T[N[q]].line.kind = "instr"
                           /\ cnt[N[q]] = q

LEMMA LinesAreCounted ==
    ASSUME NEW X, NEW T \in Seq(X),
           NEW I, I = InstrLines(Lines(T)), NEW N, N = I[Len(Lines(T))]
    PROVE  /\ Counts(T, [g \in 0 .. Len(T) |-> Len(I[g])], N)
           /\ Len(Lines(T)) = Len(T)
           /\ \A g \in 1 .. Len(T) : Lines(T)[g] = T[g].line
<1> DEFINE L == {T[k].line : k \in DOMAIN T}
           ls == Lines(T)
           cnt == [g \in 0 .. Len(T) |-> Len(I[g])]
<1>1. ls \in Seq(L) /\ Len(ls) = Len(T) /\ \A k \in 1 .. Len(T) : ls[k] = T[k].line
  <2>1. DOMAIN T = 1 .. Len(T)
    OBVIOUS
  <2> QED
    BY <2>1, LinesOf
<1>2. Len(T) \in Nat
  OBVIOUS
<1> HIDE DEF ls, L
<1>3. /\ I \in [0 .. Len(ls) -> Seq(1 .. Len(ls))]
      /\ I[0] = <<>>
      /\ \A k \in 1 .. Len(ls) :
            I[k] = IF ls[k].kind = "instr" THEN Append(I[k - 1], k) ELSE I[k - 1]
  BY <1>1, InstrLinesStep DEF ls
<1>4. /\ \A q \in DOMAIN N : /\ N[q] \in 1 .. Len(ls)
                             /\ ls[N[q]].kind = "instr"
                             /\ Len(I[N[q]]) = q
      /\ \A k \in 1 .. Len(ls) : ls[k].kind = "instr" =>
            Len(I[k]) \in DOMAIN N /\ N[Len(I[k])] = k
  BY <1>1, InstrLinesFound DEF ls
<1>5. ASSUME NEW g \in 1 .. Len(T)
      PROVE  /\ Len(I[g]) \in Nat /\ Len(I[g - 1]) \in Nat
             /\ ls[g].kind = "instr" => Len(I[g]) = Len(I[g - 1]) + 1
             /\ ls[g].kind # "instr" => Len(I[g]) = Len(I[g - 1])
  <2>1. g \in 0 .. Len(T) /\ g - 1 \in 0 .. Len(T)
    BY <1>2
  <2>2. I[g] \in Seq(1 .. Len(ls)) /\ I[g - 1] \in Seq(1 .. Len(ls))
    BY <1>1, <1>3, <2>1
  <2>3. \A s \in Seq(1 .. Len(ls)) : \A x \in 1 .. Len(ls) :
           Len(s) \in Nat /\ Len(Append(s, x)) = Len(s) + 1
    OBVIOUS
  <2> QED
    BY <1>1, <1>3, <2>2, <2>3
<1>6. cnt[0] = 0 /\ \A g \in 1 .. Len(T) : cnt[g] = Len(I[g]) /\ cnt[g - 1] = Len(I[g - 1])
  <2>1. 0 \in 0 .. Len(T) /\ \A g \in 1 .. Len(T) : g \in 0 .. Len(T) /\ g - 1 \in 0 .. Len(T)
    BY <1>2
  <2>2. Len(<<>>) = 0
    OBVIOUS
  <2> QED
    BY <1>3, <2>1, <2>2
<1> HIDE DEF cnt
<1>7. Counts(T, cnt, N)
  <2>1. ASSUME NEW g \in 1 .. Len(T)
        PROVE  /\ cnt[g] \in Nat /\ cnt[g - 1] \in Nat
               /\ T[g].line.kind = "instr" =>
                    /\ cnt[g] = cnt[g - 1] + 1
                    /\ cnt[g] \in DOMAIN N /\ N[cnt[g]] = g
               /\ T[g].line.kind # "instr" => cnt[g] = cnt[g - 1]
    <3>1. cnt[g] = Len(I[g]) /\ cnt[g - 1] = Len(I[g - 1]) /\ ls[g] = T[g].line /\ g \in 1 .. Len(ls)
      BY <1>1, <1>6
    <3>2. ls[g].kind = "instr" => Len(I[g]) \in DOMAIN N /\ N[Len(I[g])] = g
      BY <1>4, <3>1
    <3> QED
      BY <1>5, <3>1, <3>2
  <2>2. ASSUME NEW q \in DOMAIN N
        PROVE  N[q] \in 1 .. Len(T) /\ T[N[q]].line.kind = "instr" /\ cnt[N[q]] = q
    <3>1. N[q] \in 1 .. Len(T) /\ ls[N[q]].kind = "instr" /\ Len(I[N[q]]) = q
      BY <1>1, <1>4
    <3> QED
      BY <1>1, <1>6, <3>1
  <2> QED
    BY <1>6, <2>1, <2>2 DEF Counts
<1> QED
  BY <1>1, <1>7 DEF cnt, ls

\* After what precedes unit k of f comes an instruction of the unit k skips to.
LandsAt(p, T, cnt, N, f, k) ==
    \A g \in 1 .. Len(T) : T[g] = LineAt(p, f, k, 1) =>
       cnt[g - 1] + 1 \in DOMAIN N /\ T[N[cnt[g - 1] + 1]] = LineAt(p, f, SkipTo(p, f, k), 1)

LEMMA SkipLands ==
    ASSUME NEW p, WellFormed(p), NEW T, Len(T) \in Nat, Lays(p, 0 .. Len(p.functions), T),
           NEW cnt, NEW N, Counts(T, cnt, N), NEW f \in 1 .. Len(p.functions)
    PROVE  \A k \in 1 .. Len(p.functions[f].body) : LandsAt(p, T, cnt, N, f, k)
<1> DEFINE body == p.functions[f].body
           B == Len(body)
           Lands(k) == LandsAt(p, T, cnt, N, f, k)
           Q == {d \in Nat : d \in 0 .. B - 1 => Lands(B - d)}
<1>1. /\ B \in Nat \ {0} /\ f # 0 /\ f \in 0 .. Len(p.functions)
      /\ body[B].op # "LABEL"
      /\ \A k : IsUnit(p, f, k) <=> k \in 0 .. B
  <2>1. Len(p.functions) \in Nat
    BY Lengths
  <2>2. B \in Nat \ {0} /\ body[B].op \in {"RETURN", "RETURN_VOID"} /\ f # 0
    BY BodyFacts
  <2>3. \A k : IsUnit(p, f, k) <=> k \in 0 .. B
    BY BodyFacts
  <2> QED
    BY <2>1, <2>2, <2>3
<1>2. ASSUME NEW k \in 1 .. B
      PROVE  /\ body[k].op # "LABEL" => SkipTo(p, f, k) = k
             /\ body[k].op = "LABEL" => k + 1 \in 1 .. B /\ SkipTo(p, f, k) = SkipTo(p, f, k + 1)
             /\ IsUnit(p, f, k) /\ k # 0 /\ k \in Nat
             /\ \E m \in Nat : UnitShape(p, f, k, m)
  <2>1. IsUnit(p, f, k) /\ k # 0 /\ k \in Nat
    BY <1>1
  <2>2. \E m \in Nat : UnitShape(p, f, k, m)
    BY <2>1, UnitsHaveShape
  <2>3. body[k].op # "LABEL" => SkipTo(p, f, k) = k
    BY SkipFacts
  <2>4. body[k].op = "LABEL" => k + 1 \in 1 .. B
    BY SkipFacts
  <2>5. body[k].op = "LABEL" => SkipTo(p, f, k) = SkipTo(p, f, k + 1)
    BY SkipFacts, ZenonT(20)
  <2> QED
    BY <2>1, <2>2, <2>3, <2>4, <2>5
<1> HIDE DEF Q, Lands, B
<1>3. ASSUME NEW k \in 1 .. B, body[k].op # "LABEL"
      PROVE  Lands(k)
  <2> SUFFICES ASSUME NEW g \in 1 .. Len(T), T[g] = LineAt(p, f, k, 1)
               PROVE  cnt[g - 1] + 1 \in DOMAIN N /\ T[N[cnt[g - 1] + 1]] = LineAt(p, f, SkipTo(p, f, k), 1)
    BY DEF Lands, LandsAt
  <2>1. SkipTo(p, f, k) = k
    BY <1>2, <1>3
  <2>2. PICK m \in Nat : UnitShape(p, f, k, m)
    BY <1>2
  <2>3. T[g].line.kind = "instr"
    BY <1>2, <1>3, <2>2 DEF UnitShape, LineAt
  <2> QED
    BY <2>1, <2>3 DEF Counts
<1>4. ASSUME NEW k \in 1 .. B, body[k].op = "LABEL", k + 1 \in 1 .. B => Lands(k + 1)
      PROVE  Lands(k)
  <2> SUFFICES ASSUME NEW g \in 1 .. Len(T), T[g] = LineAt(p, f, k, 1)
               PROVE  cnt[g - 1] + 1 \in DOMAIN N /\ T[N[cnt[g - 1] + 1]] = LineAt(p, f, SkipTo(p, f, k), 1)
    BY DEF Lands, LandsAt
  <2>1. k + 1 \in 1 .. B /\ SkipTo(p, f, k) = SkipTo(p, f, k + 1)
    BY <1>2, <1>4
  <2>2. PICK m \in Nat : UnitShape(p, f, k, m)
    BY <1>2
  <2>3. DOMAIN Unit(p, f, k) = 1 .. 1 /\ Unit(p, f, k)[1].kind = "label"
    BY <1>2, <1>4, <2>2 DEF UnitShape
  <2>4. IsLine(p, f, k, 1) /\ ~ IsLine(p, f, k, 1 + 1)
    BY <1>2, <2>3 DEF IsLine
  <2>5. g + 1 \in 1 .. Len(T) /\ T[g + 1] = LineAt(p, f, k + 1, 1)
    <3>1. k \in Nat /\ 1 \in Nat /\ IsUnit(p, f, k + 1)
      BY <1>2, <2>1
    <3>2. /\ Lays(p, 0 .. Len(p.functions), T) /\ f \in 0 .. Len(p.functions)
          /\ IsLine(p, f, k, 1) /\ g \in 1 .. Len(T) /\ T[g] = LineAt(p, f, k, 1)
      BY <1>1, <2>4
    <3>3. ~ IsLine(p, f, k, 1 + 1) /\ f # 0 /\ IsUnit(p, f, k + 1) =>
             g + 1 \in 1 .. Len(T) /\ T[g + 1] = LineAt(p, f, k + 1, 1)
      BY ONLY <3>1, <3>2, LaysNext
    <3> QED
      BY <1>1, <2>4, <3>1, <3>3
  <2>6. cnt[g] = cnt[g - 1] /\ (g + 1) - 1 = g
    <3>1. T[g].line.kind = "label"
      BY <2>3 DEF LineAt
    <3>2. cnt[g] = cnt[g - 1]
      BY <3>1 DEF Counts
    <3>3. (g + 1) - 1 = g
      OBVIOUS
    <3> QED
      BY <3>2, <3>3
  <2>7. cnt[(g + 1) - 1] + 1 \in DOMAIN N /\ T[N[cnt[(g + 1) - 1] + 1]] = LineAt(p, f, SkipTo(p, f, k + 1), 1)
    BY <1>4, <2>1, <2>5 DEF Lands, LandsAt
  <2> QED
    BY <2>1, <2>6, <2>7
<1>5. 0 \in Q
  <2>1. B \in 1 .. B /\ B - 0 = B
    BY <1>1
  <2> QED
    BY <1>1, <1>3, <2>1 DEF Q
<1>6. ASSUME NEW d \in Nat, d \in Q PROVE d + 1 \in Q
  <2> SUFFICES ASSUME d + 1 \in 0 .. B - 1 PROVE Lands(B - (d + 1))
    BY DEF Q
  <2>1. Lands(B - d)
    BY <1>1, <1>6 DEF Q
  <2>2. PICK k \in 1 .. B : k = B - (d + 1) /\ k + 1 = B - d
    BY <1>1
  <2>3. CASE body[k].op = "LABEL"
    BY <1>4, <2>1, <2>2, <2>3
  <2>4. CASE body[k].op # "LABEL"
    BY <1>3, <2>2, <2>4
  <2> QED
    BY <2>2, <2>3, <2>4
<1>7. Nat \subseteq Q
  BY <1>5, <1>6, SetInduction
<1>8. ASSUME NEW k \in 1 .. B PROVE Lands(k)
  <2>1. B - k \in Nat /\ B - k \in 0 .. B - 1 /\ B - (B - k) = k
    BY <1>1
  <2>2. B - k \in Q
    BY <1>7, <2>1
  <2>3. Lands(B - (B - k))
    BY <2>1, <2>2 DEF Q
  <2> QED
    BY <2>1, <2>3
<1> QED
  BY <1>8 DEF Lands, B

LEMMA AfterLine ==
    ASSUME NEW p, WellFormed(p), NEW T, Len(T) \in Nat, Lays(p, 0 .. Len(p.functions), T),
           NEW cnt, NEW N, Counts(T, cnt, N),
           NEW f \in 0 .. Len(p.functions), NEW k \in Nat, NEW n \in Nat, IsLine(p, f, k, n),
           NEW g \in 1 .. Len(T), T[g] = LineAt(p, f, k, n), ~ Stops(Unit(p, f, k)[n])
    PROVE  cnt[g] + 1 \in DOMAIN N /\ T[N[cnt[g] + 1]] = AfterSite(p, f, k, n)
<1> DEFINE u == Unit(p, f, k)
<1>1. PICK m \in Nat : UnitShape(p, f, k, m)
  BY UnitsHaveShape DEF IsLine
<1>2. DOMAIN u = 1 .. m /\ n \in 1 .. m /\ (g + 1) - 1 = g
  BY <1>1 DEF UnitShape, IsLine
<1> DEFINE Goes(x, j) ==
             /\ IsLine(p, f, k, j + 1) =>
                   x + 1 \in 1 .. Len(T) /\ T[x + 1] = LineAt(p, f, k, j + 1)
             /\ ~ IsLine(p, f, k, j + 1) /\ f # 0 /\ IsUnit(p, f, k + 1) =>
                   x + 1 \in 1 .. Len(T) /\ T[x + 1] = LineAt(p, f, k + 1, 1)
<1>10. ASSUME NEW x \in 1 .. Len(T), NEW j \in Nat, IsLine(p, f, k, j), T[x] = LineAt(p, f, k, j)
       PROVE  Goes(x, j)
  <2> HIDE DEF Goes
  <2> DEFINE F == 0 .. Len(p.functions)
  <2>1. f \in F /\ Lays(p, F, T)
    OBVIOUS
  <2> HIDE DEF F
  <2> QED
    BY <1>10, <2>1, LaysNext DEF Goes
<1>3. CASE IsLine(p, f, k, n + 1)
  <2>1. g + 1 \in 1 .. Len(T) /\ T[g + 1] = LineAt(p, f, k, n + 1)
    BY <1>3, <1>10
  <2>2. n + 1 \in 2 .. m
    BY <1>2, <1>3 DEF IsLine
  <2>3. T[g + 1].line = u[n + 1]
    BY <2>1 DEF LineAt
  <2>4. CASE u[n + 1].kind = "instr"
    <3>1. cnt[g + 1] = cnt[g] + 1 /\ cnt[g + 1] \in DOMAIN N /\ N[cnt[g + 1]] = g + 1
      BY <1>2, <2>1, <2>3, <2>4 DEF Counts
    <3>2. AfterSite(p, f, k, n) = LineAt(p, f, k, n + 1)
      BY <1>3, <2>4 DEF AfterSite
    <3> QED
      BY <2>1, <3>1, <3>2
  <2>5. CASE u[n + 1].kind # "instr"
    <3>1. u[n + 1].kind = "label" /\ (n + 1) + 1 \in 1 .. m /\ u[(n + 1) + 1].kind = "instr"
      <4>1. n + 1 \in 1 .. m
        BY <2>2
      <4>2. u[n + 1].kind = "label"
        BY <1>1, <2>5, <4>1 DEF UnitShape
      <4> QED
        BY <1>1, <2>2, <4>2 DEF UnitShape
    <3>2. IsLine(p, f, k, (n + 1) + 1)
      BY <1>2, <3>1 DEF IsLine
    <3>3. n + 1 \in Nat
      OBVIOUS
    <3>4. (g + 1) + 1 \in 1 .. Len(T) /\ T[(g + 1) + 1] = LineAt(p, f, k, (n + 1) + 1)
      BY <1>3, <1>10, <2>1, <3>2, <3>3
    <3>5. cnt[g + 1] = cnt[g]
      BY <1>2, <2>1, <2>3, <2>5 DEF Counts
    <3>6. T[(g + 1) + 1].line.kind = "instr"
      BY <3>1, <3>4 DEF LineAt
    <3>7. /\ cnt[(g + 1) + 1] = cnt[g + 1] + 1 /\ cnt[(g + 1) + 1] \in DOMAIN N
          /\ N[cnt[(g + 1) + 1]] = (g + 1) + 1
      <4>1. ((g + 1) + 1) - 1 = g + 1
        BY <1>2
      <4> QED
        BY <3>4, <3>6, <4>1 DEF Counts
    <3>8. AfterSite(p, f, k, n) = LineAt(p, f, k, n + 2) /\ n + 2 = (n + 1) + 1
      BY <1>3, <2>5 DEF AfterSite
    <3> QED
      BY <3>4, <3>5, <3>7, <3>8
  <2> QED
    BY <2>4, <2>5
<1>4. CASE ~ IsLine(p, f, k, n + 1)
  <2>1. n = m
    <3>1. n + 1 \notin 1 .. m
      BY <1>2, <1>4 DEF IsLine
    <3> QED
      BY <1>2, <3>1
  <2>2. f # 0 /\ k < Len(p.functions[f].body)
    BY <1>1, <2>1 DEF UnitShape
  <2>3. f \in 1 .. Len(p.functions)
    BY <2>2
  <2>4. k + 1 \in 1 .. Len(p.functions[f].body) /\ IsUnit(p, f, k + 1)
    <3>1. Len(p.functions[f].body) \in Nat
      BY <2>3, BodyFacts
    <3>2. k + 1 \in 1 .. Len(p.functions[f].body) /\ k + 1 \in 0 .. Len(p.functions[f].body)
      BY <2>2, <3>1
    <3> QED
      BY <2>3, <3>2, BodyFacts
  <2>5. g + 1 \in 1 .. Len(T) /\ T[g + 1] = LineAt(p, f, k + 1, 1)
    BY <1>4, <1>10, <2>2, <2>4
  <2>6. /\ cnt[(g + 1) - 1] + 1 \in DOMAIN N
        /\ T[N[cnt[(g + 1) - 1] + 1]] = LineAt(p, f, SkipTo(p, f, k + 1), 1)
    <3>1. \A j \in 1 .. Len(p.functions[f].body) : LandsAt(p, T, cnt, N, f, j)
      BY <2>3, SkipLands
    <3> QED
      BY <2>4, <2>5, <3>1 DEF LandsAt
  <2>7. AfterSite(p, f, k, n) = LineAt(p, f, SkipTo(p, f, k + 1), 1)
    BY <1>4 DEF AfterSite
  <2> QED
    BY <1>2, <2>6, <2>7
<1> QED
  BY <1>3, <1>4

-----------------------------------------------------------------------------
(* The image as a chart of the code: where each instruction comes from,    *)
(* and where control goes from it.                                         *)

ValidSite(p, r) ==
    /\ r.fn \in 0 .. Len(p.functions) /\ r.ip \in Nat /\ r.nth \in Nat
    /\ IsLine(p, r.fn, r.ip, r.nth)
    /\ r = LineAt(p, r.fn, r.ip, r.nth)

LabelLine(p, r, name) == ValidSite(p, r) /\ r.line.kind = "label" /\ r.line.name = name

NextOf(p, r) == AfterSite(p, r.fn, r.ip, r.nth)

ChartedAt(p, c, at, q) ==
    LET r == at[q]
    IN  /\ ValidSite(p, r) /\ r.line.kind = "instr"
        /\ c[q].op = r.line.op /\ c[q].b = r.line.b /\ c[q].c = r.line.c
        /\ r.line.op \notin BranchOpcodes => c[q].a = r.line.a
        /\ ~ Stops(r.line) => q + 1 \in DOMAIN c /\ at[q + 1] = NextOf(p, r)
        /\ r.line.op \in BranchOpcodes =>
              \E s : /\ LabelLine(p, s, r.line.label)
                     /\ c[q].a + 1 \in DOMAIN c /\ at[c[q].a + 1] = NextOf(p, s)

Charted(p, c, at) ==
    /\ 1 \in DOMAIN c /\ at[1] = LineAt(p, 0, 0, 2)
    /\ \A q \in DOMAIN c : ChartedAt(p, c, at, q)
    /\ \A name, r, s : LabelLine(p, r, name) /\ LabelLine(p, s, name) => r = s

LEMMA LineIsSite ==
    ASSUME NEW p, NEW f \in 0 .. Len(p.functions), NEW k \in Nat, NEW n \in Nat, IsLine(p, f, k, n)
    PROVE  /\ ValidSite(p, LineAt(p, f, k, n))
           /\ NextOf(p, LineAt(p, f, k, n)) = AfterSite(p, f, k, n)
           /\ LineAt(p, f, k, n).line = Unit(p, f, k)[n]
           /\ LineAt(p, f, k, n).fn = f /\ LineAt(p, f, k, n).ip = k /\ LineAt(p, f, k, n).nth = n
<1> DEFINE r == LineAt(p, f, k, n)
<1>1. r.fn = f /\ r.ip = k /\ r.nth = n /\ r.line = Unit(p, f, k)[n]
  BY DEF LineAt
<1> HIDE DEF r
<1>2. r = LineAt(p, r.fn, r.ip, r.nth)
  BY <1>1 DEF r
<1> QED
  BY <1>1, <1>2 DEF ValidSite, NextOf, r

LEMMA CompiledIsCharted ==
    ASSUME NEW p, WellFormed(p), Compile(p).error = "none"
    PROVE  Charted(p, Compile(p).code, Compile(p).map)
<1> DEFINE T == Generate(p)
           I == InstrLines(Lines(T))
           N == I[Len(Lines(T))]
           cnt == [g \in 0 .. Len(T) |-> Len(I[g])]
           c == Compile(p).code
           at == Compile(p).map
           X == SitesOf(p)
<1>1. T \in Seq(X) /\ Lays(p, 0 .. Len(p.functions), T)
  BY GeneratedLays
<1>2. PICK labels : Assembled(p, T, I, N, labels)
  BY ImageOf
<1>3. T[1] = LineAt(p, 0, 0, 1) /\ 1 \in 1 .. Len(T) /\ IsLine(p, 0, 0, 1) /\ IsLine(p, 0, 0, 2)
      /\ Unit(p, 0, 0)[1].kind = "label" /\ Unit(p, 0, 0)[2].kind = "instr"
  <2> DEFINE u == Unit(p, 0, 0)
             a == From(0, 0, u)
             b == FlattenSeq([f \in DOMAIN p.functions |-> EmitFunction(p, f)])
  <2>1. u = EmitInit(p) /\ IsUnit(p, 0, 0) /\ T = a \o b
    BY DEF Unit, IsUnit, Generate
  <2>2. Len(p.globals) \in Nat /\ InitUnit(p, u)
    BY <2>1, Lengths, InitLineByLine
  <2>3. 1 \in DOMAIN u /\ 2 \in DOMAIN u
    BY <2>2 DEF InitUnit
  <2>4. u[1].kind = "label" /\ u[2].kind = "instr"
    <3>1. u[1].kind = "label"
      BY <2>2, LineKinds DEF InitUnit
    <3>2. CASE Len(p.globals) = 0
      <4>1. u[2] = AsmTo("CALL", "main")
        BY <2>2, <3>2 DEF InitUnit
      <4> QED
        BY <3>1, <4>1, LineKinds
    <3>3. CASE Len(p.globals) # 0
      <4>1. 1 \in 1 .. Len(p.globals) /\ 2 * 1 = 2
        BY <2>2, <3>3
      <4>2. u[2] = Asm("LI", 4, p.globals[1].init, 0)
        BY <2>2, <4>1 DEF InitUnit
      <4> QED
        BY <3>1, <4>2, LineKinds
    <3> QED
      BY <3>2, <3>3
  <2>5. a \in Seq(LinesOfFn(p, 0)) /\ Len(a) \in Nat /\ DOMAIN u = 1 .. Len(a)
        /\ \A n \in 1 .. Len(a) : a[n] = LineAt(p, 0, 0, n)
    <3>1. 0 \in Nat
      OBVIOUS
    <3> QED
      BY <2>1, <3>1, UnitLines
  <2>6. 1 \in 1 .. Len(T) /\ T[1] = a[1]
    <3>1. \E Y : a \in Seq(Y) /\ b \in Seq(Y)
      <4>1. DOMAIN p.functions = 1 .. Len(p.functions) /\ Len(p.functions) \in Nat
        BY Lengths
      <4> DEFINE ss == [f \in DOMAIN p.functions |-> EmitFunction(p, f)]
      <4>2. \A f \in 1 .. Len(p.functions) : EmitFunction(p, f) \in Seq(X)
        <5> SUFFICES ASSUME NEW f \in 1 .. Len(p.functions) PROVE EmitFunction(p, f) \in Seq(X)
          OBVIOUS
        <5>1. EmitFunction(p, f) \in Seq(LinesOfFn(p, f))
          BY FunctionLays
        <5>2. LinesOfFn(p, f) \subseteq X
          <6>1. f \in 0 .. Len(p.functions)
            BY <4>1
          <6> QED
            BY <6>1 DEF SitesOf
        <5> HIDE DEF X
        <5> QED
          BY <5>1, <5>2
      <4> HIDE DEF X
      <4>3. ss \in [1 .. Len(p.functions) -> Seq(X)]
        BY <4>1, <4>2
      <4> HIDE DEF ss
      <4>4. ss \in Seq(Seq(X))
        BY <4>1, <4>3
      <4>5. FlattenSeq(ss) \in Seq(X)
        BY <4>4, FlattenIndex
      <4>6. a \in Seq(X)
        <5>1. LinesOfFn(p, 0) \subseteq X
          <6>1. 0 \in 0 .. Len(p.functions)
            BY <4>1
          <6> QED
            BY <6>1 DEF SitesOf, X
        <5> HIDE DEF a
        <5> QED
          BY <2>5, <5>1
      <4> QED
        BY <4>5, <4>6 DEF ss
    <3>2. PICK Y : a \in Seq(Y) /\ b \in Seq(Y)
      BY <3>1
    <3>3. 1 \in 1 .. Len(a)
      BY <2>3, <2>5
    <3> HIDE DEF a, b, T
    <3>4. Len(a \o b) = Len(a) + Len(b) /\ Len(b) \in Nat /\ \A g \in 1 .. Len(a) : (a \o b)[g] = a[g]
      <4>1. Len(b) \in Nat
        BY <3>2
      <4> QED
        BY <3>2, <4>1, ConcatIndex
    <3> QED
      BY <2>1, <2>5, <3>3, <3>4
  <2> HIDE DEF a, T, u
  <2>7. T[1] = LineAt(p, 0, 0, 1)
    BY <2>3, <2>5, <2>6
  <2> QED
    BY <2>1, <2>3, <2>4, <2>6, <2>7 DEF IsLine, u
<1> HIDE DEF T
<1>4. /\ Counts(T, cnt, N)
      /\ Len(Lines(T)) = Len(T)
      /\ \A g \in 1 .. Len(T) : Lines(T)[g] = T[g].line
  BY <1>1, LinesAreCounted
<1>5. Len(T) \in Nat /\ DOMAIN Lines(T) = 1 .. Len(T)
  <2>1. DOMAIN T = 1 .. Len(T) /\ Len(T) \in Nat
    BY <1>1
  <2>2. DOMAIN Lines(T) = DOMAIN T
    BY DEF Lines
  <2> QED
    BY <2>1, <2>2
<1>6. \A g \in 1 .. Len(T) : cnt[g] = Len(I[g]) /\ cnt[g - 1] = Len(I[g - 1])
  <2>1. \A g \in 1 .. Len(T) : g \in 0 .. Len(T) /\ g - 1 \in 0 .. Len(T)
    BY <1>5
  <2> QED
    BY <2>1
<1> HIDE DEF cnt, X, c, at, I, N
<1>7. ASSUME NEW g \in 1 .. Len(T)
      PROVE  /\ ValidSite(p, T[g])
             /\ ~ Stops(T[g].line) => cnt[g] + 1 \in DOMAIN N /\ T[N[cnt[g] + 1]] = NextOf(p, T[g])
  <2>1. PICK f \in 0 .. Len(p.functions), k \in Nat, n \in Nat :
           IsLine(p, f, k, n) /\ T[g] = LineAt(p, f, k, n)
    BY <1>1 DEF Lays
  <2>2. ValidSite(p, T[g]) /\ NextOf(p, T[g]) = AfterSite(p, f, k, n) /\ T[g].line = Unit(p, f, k)[n]
    <3>1. /\ ValidSite(p, LineAt(p, f, k, n))
          /\ NextOf(p, LineAt(p, f, k, n)) = AfterSite(p, f, k, n)
          /\ LineAt(p, f, k, n).line = Unit(p, f, k)[n]
      BY <2>1, LineIsSite
    <3> QED
      BY <2>1, <3>1
  <2>3. ASSUME ~ Stops(T[g].line)
        PROVE  cnt[g] + 1 \in DOMAIN N /\ T[N[cnt[g] + 1]] = NextOf(p, T[g])
    <3>1. ~ Stops(Unit(p, f, k)[n])
      BY <2>2, <2>3
    <3>2. cnt[g] + 1 \in DOMAIN N /\ T[N[cnt[g] + 1]] = AfterSite(p, f, k, n)
      BY <1>1, <1>4, <1>5, <2>1, <3>1, AfterLine
    <3> QED
      BY <2>2, <3>2
  <2> QED
    BY <2>2, <2>3
<1>8. /\ c = [q \in DOMAIN N |-> Encode(Lines(T)[N[q]], labels)]
      /\ at = [q \in DOMAIN N |-> T[N[q]]]
      /\ \A q \in DOMAIN N : Lines(T)[N[q]].op \in BranchOpcodes =>
            \E k \in DOMAIN Lines(T) : /\ Lines(T)[k].kind = "label"
                                       /\ Lines(T)[k].name = Lines(T)[N[q]].label
      /\ \A k \in DOMAIN Lines(T) : Lines(T)[k].kind = "label" =>
            labels[Lines(T)[k].name] = Len(I[k - 1])
      /\ \A k, m \in DOMAIN Lines(T) :
            /\ Lines(T)[k].kind = "label" /\ Lines(T)[m].kind = "label"
            /\ Lines(T)[k].name = Lines(T)[m].name
            => k = m
  BY <1>2 DEF Assembled, c, at
<1>9. 1 \in DOMAIN c /\ at[1] = LineAt(p, 0, 0, 2)
  <2>1. ~ Stops(T[1].line) /\ T[1].line.kind = "label"
    BY <1>3 DEF LineAt, Stops
  <2>2. cnt[1] = 0
    BY <1>3, <1>4, <2>1 DEF Counts
  <2>3. cnt[1] + 1 \in DOMAIN N /\ T[N[cnt[1] + 1]] = NextOf(p, T[1])
    BY <1>3, <1>7, <2>1
  <2>4. 1 \in DOMAIN N /\ T[N[1]] = NextOf(p, T[1])
    BY <2>2, <2>3
  <2>5. NextOf(p, T[1]) = LineAt(p, 0, 0, 2)
    <3>1. NextOf(p, T[1]) = AfterSite(p, 0, 0, 1)
      BY <1>3 DEF NextOf, LineAt
    <3>2. AfterSite(p, 0, 0, 1) = LineAt(p, 0, 0, 1 + 1)
      BY <1>3 DEF AfterSite
    <3> QED
      BY <3>1, <3>2
  <2> QED
    BY <1>8, <2>4, <2>5
<1>10. ASSUME NEW q \in DOMAIN c PROVE ChartedAt(p, c, at, q)
  <2>1. q \in DOMAIN N /\ N[q] \in 1 .. Len(T) /\ T[N[q]].line.kind = "instr" /\ cnt[N[q]] = q
        /\ at[q] = T[N[q]] /\ c[q] = Encode(Lines(T)[N[q]], labels) /\ DOMAIN c = DOMAIN N
    BY <1>4, <1>8 DEF Counts
  <2> DEFINE r == T[N[q]]
  <2>2. Lines(T)[N[q]] = r.line
    BY <1>4, <2>1
  <2>3. /\ c[q].op = r.line.op /\ c[q].b = r.line.b /\ c[q].c = r.line.c
        /\ c[q].a = IF r.line.op \in BranchOpcodes THEN labels[r.line.label] ELSE r.line.a
    <3> HIDE DEF r
    <3> QED
      BY <2>1, <2>2 DEF Encode
  <2>4. ValidSite(p, r)
    BY <1>7, <2>1
  <2>5. ASSUME ~ Stops(r.line) PROVE q + 1 \in DOMAIN c /\ at[q + 1] = NextOf(p, r)
    <3>1. cnt[N[q]] + 1 \in DOMAIN N /\ T[N[cnt[N[q]] + 1]] = NextOf(p, r)
      BY <1>7, <2>1, <2>5
    <3>2. q + 1 \in DOMAIN N /\ T[N[q + 1]] = NextOf(p, r)
      BY <2>1, <3>1
    <3> QED
      BY <1>8, <2>1, <3>2
  <2>6. ASSUME r.line.op \in BranchOpcodes
        PROVE  \E s : /\ LabelLine(p, s, r.line.label)
                      /\ c[q].a + 1 \in DOMAIN c /\ at[c[q].a + 1] = NextOf(p, s)
    <3>1. PICK g \in 1 .. Len(T) : Lines(T)[g].kind = "label" /\ Lines(T)[g].name = r.line.label
      <4>1. Lines(T)[N[q]].op \in BranchOpcodes
        BY <2>2, <2>6
      <4>2. PICK g \in DOMAIN Lines(T) : Lines(T)[g].kind = "label" /\ Lines(T)[g].name = Lines(T)[N[q]].label
        BY <1>8, <2>1, <4>1
      <4> QED
        BY <1>5, <2>2, <4>2
    <3>2. T[g].line.kind = "label" /\ T[g].line.name = r.line.label
      BY <1>4, <3>1
    <3>3. labels[r.line.label] = cnt[g]
      <4>1. labels[Lines(T)[g].name] = Len(I[g - 1])
        BY <1>5, <1>8, <3>1
      <4>2. cnt[g] = cnt[g - 1]
        BY <1>4, <3>2 DEF Counts
      <4> QED
        BY <1>6, <3>1, <4>1, <4>2
    <3>4. ~ Stops(T[g].line)
      BY <3>2 DEF Stops
    <3>5. cnt[g] + 1 \in DOMAIN N /\ T[N[cnt[g] + 1]] = NextOf(p, T[g]) /\ ValidSite(p, T[g])
      BY <1>7, <3>4
    <3>6. c[q].a = cnt[g]
      BY <2>3, <2>6, <3>3
    <3>7. LabelLine(p, T[g], r.line.label)
      BY <3>2, <3>5 DEF LabelLine
    <3>8. c[q].a + 1 \in DOMAIN c /\ at[c[q].a + 1] = NextOf(p, T[g])
      BY <1>8, <2>1, <3>5, <3>6
    <3> QED
      BY <3>7, <3>8
  <2>7. at[q] = r /\ r.line.kind = "instr"
    BY <2>1
  <2> HIDE DEF r
  <2> QED
    BY <2>3, <2>4, <2>5, <2>6, <2>7 DEF ChartedAt
<1>11. ASSUME NEW name, NEW r, NEW s, LabelLine(p, r, name), LabelLine(p, s, name)
       PROVE  r = s
  <2>1. ASSUME NEW x, LabelLine(p, x, name)
        PROVE  \E g \in 1 .. Len(T) : T[g] = x /\ Lines(T)[g].kind = "label" /\ Lines(T)[g].name = name
    <3>1. /\ x.fn \in 0 .. Len(p.functions) /\ x.ip \in Nat /\ x.nth \in Nat
          /\ IsLine(p, x.fn, x.ip, x.nth) /\ x = LineAt(p, x.fn, x.ip, x.nth)
          /\ x.line.kind = "label" /\ x.line.name = name
      BY <2>1 DEF LabelLine, ValidSite
    <3>2. PICK g \in 1 .. Len(T) : T[g] = LineAt(p, x.fn, x.ip, x.nth)
      BY <1>1, <3>1 DEF Lays
    <3> QED
      BY <1>4, <3>1, <3>2
  <2>2. PICK g \in 1 .. Len(T) : T[g] = r /\ Lines(T)[g].kind = "label" /\ Lines(T)[g].name = name
    BY <1>11, <2>1
  <2>3. PICK h \in 1 .. Len(T) : T[h] = s /\ Lines(T)[h].kind = "label" /\ Lines(T)[h].name = name
    BY <1>11, <2>1
  <2>4. g = h
    BY <1>5, <1>8, <2>2, <2>3
  <2> QED
    BY <2>2, <2>3, <2>4
<1> QED
  BY <1>9, <1>10, <1>11 DEF Charted, c, at
=============================================================================
