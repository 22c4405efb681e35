------------------------------ MODULE MC_Parts ------------------------------
(***************************************************************************)
(* Seven parts of the testbench and of the simulator, each on its own: the *)
(* stimulus side with a cache that accepts at any time and a scoreboard    *)
(* that may be slow, the cache directory, the atomic operations, the JTAG  *)
(* server, the commit log, the checkpoints, and the perfect memory with    *)
(* its loader and its host calls.  They share no state, so a behaviour     *)
(* picks one part and the others stay where they start.                    *)
(***************************************************************************)
EXTENDS Stimulus, CacheDirectory, RemoteBitbang, CommitLog, Checkpoint, SimMemory

VARIABLES part,     \* the part that runs
          x,        \* an atomic operation and its operands
          new       \* what each implementation writes, or nothing yet

amoVars == <<x, new>>
tbVars == <<stimulusVars, dirVars, amoVars>>
simVars == <<bitbangVars, logVars, checkpointVars, memoryVars>>
vars == <<part, tbVars, simVars>>

WordSegs == {[base |-> 0, length |-> 2, uncached |-> FALSE, amo_supported |-> TRUE,
              wr_policy |-> "AUTO"]}
OneData == {[g \in Granule |-> g]}

AlignedAccesses == {a \in [g : Granule, sz : {1, 2}] : a.g % a.sz = 0}
Operations == [op : AmoOps, old : Word, st : Word, a : AlignedAccesses]
be == x.a.g .. (x.a.g + x.a.sz - 1)

\* Two segments of up to five bytes each, at every offset in a word, that do not
\* overlap and ascend, as the headers of an ELF file do.
Segments == {s \in [paddr : 0 .. 7, filesz : 0 .. 5, memsz : 1 .. 5] : s.filesz <= s.memsz}

Ascending == {p \in Segments \X Segments :
                /\ Headers(p)
                /\ p[1].paddr \in 1 .. 3 /\ p[1].memsz < 4}

StoreEnables == {{1, 2}, {3, 4}}

Init ==
    /\ part \in {"sequence", "directory", "amo", "bitbang", "log", "checkpoint", "memory"}
    /\ InitStimulus
    /\ part # "sequence" => addr = 0 /\ between = 0
    /\ InitDirectory
    /\ x \in IF part = "amo" THEN Operations ELSE {None}
    /\ new = <<>>
    /\ InitBitbang /\ InitLog /\ InitCheckpoint
    /\ InitMemory(IF part = "memory" THEN Ascending ELSE {<<>>})
-----------------------------------------------------------------------------
Sequence ==
    /\ part = "sequence" /\ NextStimulus
    /\ UNCHANGED <<part, dirVars, amoVars, simVars>>

Directory ==
    /\ part = "directory" /\ NextDirectory
    /\ UNCHANGED <<part, stimulusVars, amoVars, simVars>>

\* Compute the new word in the scoreboard, the memory response model and the
\* perfect memory of the simulator.
Compute ==
    /\ part = "amo" /\ new = <<>>
    /\ LET g == x.a.g
           sz == x.a.sz
           st == AtopData(x.op, x.st)
           perfect == ShiftIn(PerfectAmo(Atop(x.op), Extract(x.old, g, sz),
                                         Extract(st, g, sz), sz), g)
       IN  new' = <<Merge(x.old, ScoreboardWord(x.op, x.old, x.st, g, sz), be),
                    Merge(x.old, MemoryWord(Atop(x.op), x.old, st, g, sz), be),
                    Merge(x.old, perfect, be)>>
    /\ UNCHANGED <<part, stimulusVars, dirVars, x, simVars>>

JtagServer ==
    /\ part = "bitbang" /\ Server
    /\ UNCHANGED <<part, tbVars, logVars, checkpointVars, memoryVars>>

JtagClient ==
    /\ part = "bitbang" /\ Client
    /\ UNCHANGED <<part, tbVars, logVars, checkpointVars, memoryVars>>

Logging ==
    /\ part = "log" /\ NextLog
    /\ UNCHANGED <<part, tbVars, bitbangVars, checkpointVars, memoryVars>>

Saving ==
    /\ part = "checkpoint" /\ NextCheckpoint
    /\ UNCHANGED <<part, tbVars, bitbangVars, logVars, memoryVars>>

Running ==
    /\ part = "memory" /\ NextMemory
    /\ UNCHANGED <<part, tbVars, bitbangVars, logVars, checkpointVars>>

Next == Sequence \/ Directory \/ Compute \/ JtagServer \/ JtagClient
        \/ Logging \/ Saving \/ Running

\* The simulator keeps running and retries its reads; the client owes nothing.
Spec == Init /\ [][Next]_vars /\ WF_vars(JtagServer)
-----------------------------------------------------------------------------
\* The scoreboard predicts an atomic from the operation of the core, the memory
\* model executes the code of the memory interface: they must store the same
\* word for every operand, offset and size, or correct caches would be reported
\* (carry out of a 4-byte sum, sign of a 4-byte operand, AND sent as CLR).
ModelsAgree == new # <<>> => new[1] = new[2]

\* The perfect memory sign-extends 4-byte operands even for the unsigned
\* comparisons; the word it stores is nevertheless the one of the other models.
PerfectAgrees == new # <<>> => new[2] = new[3]

\* The result of an operation on the access's own number, by its arithmetic
\* meaning: the largest or smallest in the order of the operation, the sum
\* modulo the size, and bit by bit for the logical ones.
Meaning ==
    new # <<>> =>
      LET a == Extract(x.old, x.a.g, x.a.sz)
          b == Extract(x.st, x.a.g, x.a.sz)
          r == Extract(new[1], x.a.g, x.a.sz)
          extreme(v(_)) == r \in {a, b} /\ v(r) >= v(a) /\ v(r) >= v(b)
          bits == 0 .. (x.a.sz * Bits - 1)
      IN  CASE x.op = "AMO_SWAP" -> r = b
            [] x.op = "AMO_ADD" -> \E c \in {0, 1} : a + b = r + c * Modulus(x.a.sz)
            [] x.op = "AMO_MAX" -> extreme(LAMBDA v : Signed(v, x.a.sz))
            [] x.op = "AMO_MIN" -> extreme(LAMBDA v : 0 - Signed(v, x.a.sz))
            [] x.op = "AMO_MAXU" -> extreme(LAMBDA v : v)
            [] x.op = "AMO_MINU" -> extreme(LAMBDA v : 0 - v)
            [] x.op = "AMO_AND" -> \A i \in bits : Bit(r, i) = 1 <=> Bit(a, i) = 1 /\ Bit(b, i) = 1
            [] x.op = "AMO_OR" -> \A i \in bits : Bit(r, i) = 1 <=> Bit(a, i) = 1 \/ Bit(b, i) = 1
            [] x.op = "AMO_XOR" -> \A i \in bits : Bit(r, i) = 1 <=> Bit(a, i) # Bit(b, i)

\* The three implementations of an atomic store one word, the right one.
AmoExact == ModelsAgree /\ PerfectAgrees /\ Meaning
=============================================================================
