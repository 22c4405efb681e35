----------------------------- MODULE SimMemory -----------------------------
(***************************************************************************)
(* The perfect memory of the simulator (Memory32 and its DPI calls of      *)
(* dpi_perfect_memory.cpp), filled by the ELF loader of loadelf.cpp and    *)
(* read by the host calls of dpi_host.cpp.  A byte is a token that says    *)
(* where it comes from; a word that is not in the map reads as zero.       *)
(***************************************************************************)
EXTENDS Integers, Sequences

CONSTANTS NWords,      \* words of the address space
          LineWords,   \* words of a bus line (BUS_WIDTH / 32)
          Enables,     \* byte enables of the guest's stores, as sets of bytes of a line
          FromHost,    \* the first of the two words at the symbol fromhost
          MaxStores,   \* bound: stores of the guest
          MaxCalls,    \* bound: write system calls
          MaxLength    \* bound: bytes of one write system call

ASSUME MemoryAssumption ==
    /\ NWords \in Nat /\ LineWords \in Nat \ {0} /\ NWords % LineWords = 0
    /\ FromHost \in Nat /\ FromHost + 2 <= NWords
    /\ {MaxStores, MaxCalls, MaxLength} \subseteq Nat

Words == 0 .. NWords - 1
Bytes == 0 .. 4 * NWords - 1
MemLines == 0 .. (NWords \div LineWords) - 1
LineBytes == 4 * LineWords

Zero == <<"zero">>
Stray == <<"stray">>      \* a byte read outside the buffer that is written
Undefined == <<"undefined">>   \* a byte that nobody has defined

NoWord == [b \in 0 .. 3 |-> <<"absent">>]
ZeroWord == [b \in 0 .. 3 |-> Zero]

Result == <<"result">>    \* a byte of the answer of the host

NoCall == [bytes |-> <<>>, wanted |-> <<>>]

VARIABLES mem,      \* Memory32::mem
          todo,     \* program headers not loaded yet
          out,      \* the last system call: the bytes written and the bytes of the guest's
                    \* buffer, until the guest stores again
          aborted,  \* an assertion of Memory32 has failed
          stores, calls,
          ref       \* what every byte should be

memoryVars == <<mem, todo, out, aborted, stores, calls, ref>>

\* Memory32::read
read(m, w) == IF m[w] = NoWord THEN ZeroWord ELSE m[w]

\* Memory32::write, of the bytes in mask.
write(m, w, data, mask) ==
    [m EXCEPT ![w] = [b \in 0 .. 3 |-> IF b \in mask THEN data[b] ELSE read(m, w)[b]]]

\* The buffer of a block: token i of source, and something else around it.
Buffer(source, size, i) == IF i >= 0 /\ i < size THEN source[i] ELSE Stray

\* The mask of the prologue: four bits, shifted right by the bytes that are
\* not wanted and then left to the first that is.
PrologueMask(offset, size) ==
    LET m_size == 4 - offset
        excess == IF m_size > size THEN m_size - size ELSE 0
    IN  {b + offset : b \in 0 .. 3 - excess} \intersect 0 .. 3

\* Mutant: the last byte is left out.
EpilogueMaskShort(size) == 0 .. size - 2

EpilogueMask(size) == 0 .. size - 1

\* The bytes of a block before its first whole word, that word, and the bytes
\* from there on.
Part(addr, size) ==
    IF addr % 4 = 0 THEN 0 ELSE IF 4 - (addr % 4) > size THEN size ELSE 4 - (addr % 4)
First(addr, size) == (addr + Part(addr, size)) \div 4
Rest(addr, size) == size - Part(addr, size)

\* The word of the block at w: bytes of the buffer, and whatever is around it.
BlockWord(addr, size, source, w) ==
    [b \in 0 .. 3 |-> IF 4 * w + b < addr THEN Stray ELSE Buffer(source, size, 4 * w + b - addr)]

\* Memory32::write_block
Prologue(m, addr, size, source) ==
    IF addr % 4 = 0 THEN m
    ELSE write(m, addr \div 4, BlockWord(addr, size, source, addr \div 4), PrologueMask(addr % 4, size))

Block(m, addr, size, source) ==
    [w \in Words |->
        IF w >= First(addr, size) /\ w < First(addr, size) + Rest(addr, size) \div 4
        THEN write(m, w, BlockWord(addr, size, source, w), 0 .. 3)[w] ELSE m[w]]

Epilogue(m, addr, size, source) ==
    LET last == First(addr, size) + Rest(addr, size) \div 4
    IN  IF Rest(addr, size) % 4 = 0 THEN m
        ELSE write(m, last, BlockWord(addr, size, source, last), EpilogueMask(Rest(addr, size) % 4))

write_block(m, addr, size, source) ==
    LET pro == Prologue(m, addr, size, source)
        blk == Block(pro, addr, size, source)
    IN  Epilogue(blk, addr, size, source)

Segment(s) == s.paddr .. s.paddr + s.memsz - 1

\* What the byte of a segment should hold: the file's, then zeros.
Wanted(s, a) == IF a < s.paddr + s.filesz THEN <<"file", s.paddr, a - s.paddr>> ELSE Zero

\* The headers of an ELF file: its segments ascend, do not overlap, and lie in
\* the address space.
Header == [paddr : Nat, filesz : Nat, memsz : Nat]
Headers(l) ==
    /\ l \in Seq(Header)
    /\ \A i \in 1 .. Len(l) : l[i].filesz <= l[i].memsz /\ l[i].paddr + l[i].memsz <= 4 * NWords
    /\ \A i, j \in 1 .. Len(l) : i < j => l[i].paddr + l[i].memsz <= l[j].paddr

\* A file with one of these lists of headers is to be loaded.
InitMemory(lists) ==
    /\ mem = [w \in Words |-> NoWord]
    /\ todo \in lists
    /\ out = NoCall /\ aborted = FALSE /\ stores = 0 /\ calls = 0
    /\ ref = [a \in Bytes |-> Undefined]

\* One PT_LOAD header of elfLoader: its file contents, then its zeros.
load ==
    LET s == Head(todo)
        contents == [i \in 0 .. s.filesz - 1 |-> Wanted(s, s.paddr + i)]
        zeros == [i \in 0 .. s.memsz - s.filesz - 1 |-> Zero]
        m1 == IF s.filesz > 0 THEN write_block(mem, s.paddr, s.filesz, contents) ELSE mem
    IN  /\ todo # <<>>
        /\ todo' = Tail(todo)
        /\ mem' = IF s.memsz > s.filesz
                  THEN write_block(m1, s.paddr + s.filesz, s.memsz - s.filesz, zeros)
                  ELSE m1
        /\ ref' = [a \in Bytes |-> IF a \in Segment(s) THEN Wanted(s, a) ELSE ref[a]]
        /\ UNCHANGED <<out, aborted, stores, calls>>

Runs == todo = <<>> /\ ~aborted

\* The enables of word i of the line.
WordMask(be, i) == {b \in 0 .. 3 : 4 * i + b \in be}

\* memory_write: the words of the line that have a byte enabled.
memory_write(l, be) ==
    LET token(a) == <<"guest", stores, a>>
        masked(w) == WordMask(be, w % LineWords)
    IN  /\ Runs /\ stores < MaxStores
        /\ stores' = stores + 1
        /\ mem' = [w \in Words |->
                     IF w \div LineWords = l /\ masked(w) # {}
                     THEN write(mem, w, [b \in 0 .. 3 |-> token(4 * w + b)], masked(w))[w]
                     ELSE mem[w]]
        /\ ref' = [a \in Bytes |-> IF a \div LineBytes = l /\ a % LineBytes \in be
                                   THEN token(a) ELSE ref[a]]
        /\ out' = NoCall
        /\ UNCHANGED <<todo, aborted, calls>>

\* Byte i of the buffer: the word of the bytes i / 4, and the byte i % 4 of it.
HostByte(ptr, i) == read(mem, (ptr + 4 * (i \div 4)) \div 4)[i % 4]

\* tohost with SYS_write.  The words are read at the address the guest gave, so
\* an address that is not aligned fails the assertion of Memory32::read.  The
\* result of the call is stored at fromhost.
tohost(ptr, length) ==
    /\ Runs /\ calls < MaxCalls
    /\ calls' = calls + 1
    /\ IF length > 0 /\ ptr % 4 # 0
       THEN aborted' = TRUE /\ out' = NoCall /\ UNCHANGED <<mem, ref>>
       ELSE /\ aborted' = FALSE
            /\ out' = [bytes |-> [i \in 1 .. length |-> HostByte(ptr, i - 1)],
                       wanted |-> [i \in 1 .. length |-> ref[ptr + i - 1]]]
            /\ LET word == [b \in 0 .. 3 |-> Result]
               IN  mem' = write(write(mem, FromHost, word, 0 .. 3), FromHost + 1, word, 0 .. 3)
            /\ ref' = [a \in Bytes |-> IF a \div 4 \in {FromHost, FromHost + 1}
                                       THEN Result ELSE ref[a]]
    /\ UNCHANGED <<todo, stores>>

NextMemory ==
    \/ load
    \/ \E l \in MemLines, be \in Enables : memory_write(l, be)
    \/ \E ptr \in Bytes, length \in 0 .. MaxLength :
          ptr + length <= 4 * NWords /\ tohost(ptr, length)

MemorySpec(lists) == InitMemory(lists) /\ [][NextMemory]_memoryVars
-----------------------------------------------------------------------------
\* Every byte that the file or the guest defines is what the memory returns.
\* The prologue of write_block writes past the end of a short block that starts
\* inside a word, with bytes from behind its buffer; it must not be seen, and is
\* not, because the headers of a file come in ascending order and the next
\* segment is loaded over it.
MemoryExact == \A a \in Bytes : ref[a] # Undefined => read(mem, a \div 4)[a % 4] = ref[a]

\* The host writes the bytes of the guest's buffer and of nothing else, for
\* every length; a buffer that is not aligned to a word is never written wrong,
\* it stops the simulation.
HostExact ==
    \A i \in DOMAIN out.bytes :
        out.wanted[i] # Undefined => out.bytes[i] = out.wanted[i]

\* Memory and host: what was written is read back, by the guest and by the host.
MemoryInv == MemoryExact /\ HostExact
=============================================================================
