-------------------------------- MODULE Amo --------------------------------
(***************************************************************************)
(* The atomic memory operations, as the two reference models of the        *)
(* HPDcache testbench compute them: the scoreboard (from the operation of  *)
(* the core request) and the memory response model (from the operation on  *)
(* the memory interface).  A word is two granules of 32 bits, scaled down  *)
(* to the digits 0 .. M-1, so an operation on 4 bytes works modulo M and   *)
(* one on 8 bytes modulo M * M.                                            *)
(***************************************************************************)
EXTENDS Naturals, Integers, FiniteSetsExt

CONSTANT Bits       \* the width of a granule (32 in the code)

ASSUME BitsAssumption == Bits \in Nat \ {0}

M == 2 ^ Bits
Granule == {0, 1}
Val == 0 .. M - 1
Word == [Granule -> Val]

\* The operations of hpdcache_test_transaction_req.
AmoOps == {"AMO_SWAP", "AMO_ADD", "AMO_AND", "AMO_OR", "AMO_XOR",
           "AMO_MAX", "AMO_MAXU", "AMO_MIN", "AMO_MINU"}

\* (addr % 8) * 8 and e.bytes: the digits of word d from granule g on.
Extract(d, g, sz) == IF sz = 1 THEN d[g] ELSE d[0] + M * d[1]

\* x << offset in a 64-bit word: what leaves the word at the top is lost.
ShiftIn(x, g) == [i \in Granule |-> IF i < g THEN 0 ELSE (x \div M ^ (i - g)) % M]

Merge(old, new, be) == [i \in Granule |-> IF i \in be THEN new[i] ELSE old[i]]

Modulus(sz) == M ^ sz
Signed(x, sz) == IF 2 * x >= Modulus(sz) THEN x - Modulus(sz) ELSE x

Bit(x, i) == (x \div 2 ^ i) % 2
Bitwise2(Op(_, _), x, y) ==
    MapThenSumSet(LAMBDA i : 2 ^ i * Op(Bit(x, i), Bit(y, i)), 0 .. 2 * Bits - 1)
BitAnd(x, y) == Bitwise2(LAMBDA p, q : p * q, x, y)
BitOr(x, y) == Bitwise2(LAMBDA p, q : IF p + q = 0 THEN 0 ELSE 1, x, y)
BitXor(x, y) == Bitwise2(LAMBDA p, q : (p + q) % 2, x, y)
\* ~x over 64 bits
BitNot(x) == Modulus(2) - 1 - x

\* hpdcache_test_amo::compute_amo, on the operation of the core request.  ld +
\* st keeps its carry out of the granule (the sum is a uint64_t).
ScoreboardAmo(op, ld, st, sz) ==
    LET umax == ld > st
        smax == Signed(ld, sz) > Signed(st, sz)
    IN  CASE op = "AMO_SWAP" -> st
          [] op = "AMO_ADD"  -> (ld + st) % Modulus(2)
          [] op = "AMO_AND"  -> BitAnd(ld, st)
          [] op = "AMO_OR"   -> BitOr(ld, st)
          [] op = "AMO_XOR"  -> BitXor(ld, st)
          [] op = "AMO_MAX"  -> IF smax THEN ld ELSE st
          [] op = "AMO_MAXU" -> IF umax THEN ld ELSE st
          [] op = "AMO_MIN"  -> IF smax THEN st ELSE ld
          [] op = "AMO_MINU" -> IF umax THEN st ELSE ld

\* hpdcache_test_mem_resp_model_base::compute_amo, on the atomic code of the
\* memory interface.
MemoryAmo(atop, ld, st, sz) ==
    LET umax == ld > st
        smax == Signed(ld, sz) > Signed(st, sz)
    IN  CASE atop = "ADD"  -> (ld + st) % Modulus(2)
          [] atop = "CLR"  -> BitAnd(ld, BitNot(st))
          [] atop = "SET"  -> BitOr(ld, st)
          [] atop = "EOR"  -> BitXor(ld, st)
          [] atop = "SMAX" -> IF smax THEN ld ELSE st
          [] atop = "UMAX" -> IF umax THEN ld ELSE st
          [] atop = "SMIN" -> IF smax THEN st ELSE ld
          [] atop = "UMIN" -> IF umax THEN st ELSE ld
          [] atop = "SWAP" -> st

\* The word the scoreboard writes to its RAM when the AMO is answered: both
\* operands are cut to their granule and the result is shifted back.
ScoreboardWord(op, old, st, g, sz) ==
    ShiftIn(ScoreboardAmo(op, Extract(old, g, sz), Extract(st, g, sz), sz), g)

\* The word the memory response model writes.
MemoryWord(atop, old, st, g, sz) ==
    ShiftIn(MemoryAmo(atop, Extract(old, g, sz), Extract(st, g, sz), sz), g)

\* Mutant: 4 bytes are extended with zeros.
SignExtendZero(x, sz) == x

\* mem_val, core_val of memory_amo: 4 bytes are sign-extended to 64 bits, for
\* the unsigned comparisons too.
SignExtend(x, sz) ==
    IF sz = 1 /\ 2 * x >= M THEN x + Modulus(2) - M ELSE x

\* memory_amo of the simulator's perfect memory: the atomic computed on the
\* extended values, and the low 4 bytes (or all 8) of the result stored.
PerfectAmo(atop, ld, st, sz) ==
    LET mem_val == SignExtend(ld, sz)
        core_val == SignExtend(st, sz)
        s(x) == Signed(x, 2)
    IN  (CASE atop = "ADD"  -> mem_val + core_val
           [] atop = "CLR"  -> BitAnd(mem_val, BitNot(core_val))
           [] atop = "SET"  -> BitOr(mem_val, core_val)
           [] atop = "EOR"  -> BitXor(mem_val, core_val)
           [] atop = "SMAX" -> IF s(mem_val) > s(core_val) THEN mem_val ELSE core_val
           [] atop = "SMIN" -> IF s(mem_val) < s(core_val) THEN mem_val ELSE core_val
           [] atop = "UMAX" -> IF mem_val > core_val THEN mem_val ELSE core_val
           [] atop = "UMIN" -> IF mem_val < core_val THEN mem_val ELSE core_val
           [] atop = "SWAP" -> core_val) % Modulus(sz)

\* The codes the cache puts on the memory interface: AND is sent as CLR.
Atop(op) ==
    CASE op = "AMO_SWAP" -> "SWAP" [] op = "AMO_ADD" -> "ADD"
      [] op = "AMO_AND" -> "CLR"   [] op = "AMO_OR" -> "SET"
      [] op = "AMO_XOR" -> "EOR"   [] op = "AMO_MAX" -> "SMAX"
      [] op = "AMO_MAXU" -> "UMAX" [] op = "AMO_MIN" -> "SMIN"
      [] op = "AMO_MINU" -> "UMIN"

\* ... with its operand complemented.
AtopData(op, d) == IF op = "AMO_AND" THEN [i \in Granule |-> M - 1 - d[i]] ELSE d
=============================================================================
