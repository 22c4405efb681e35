-------------------------- MODULE GraduationList ---------------------------
(***************************************************************************)
(* The graduation list (graduation_list.sv): the ring of instructions in   *)
(* flight in program order, filled at register read, marked out of order   *)
(* by the write-back ports, emptied in order two at a time by commit, and  *)
(* cut back behind a mispredicted branch.  One record remembers the oldest *)
(* exception.  A step is a clock cycle.                                    *)
(***************************************************************************)
EXTENDS Wrap

CONSTANTS GL_NUM_ENTRIES,
          Payload         \* what an entry remembers of its instruction

ASSUME GraduationListConstants == GL_NUM_ENTRIES \in Nat /\ GL_NUM_ENTRIES >= 3

VARIABLES gl_head, gl_tail, num,
          valid_bit,    \* the instruction has finished
          entries,      \* [data, ex]: the instruction and its ex_valid bit
          exception     \* [valid, index]: exception_q and exception_index_q

gl_vars == <<gl_head, gl_tail, num, valid_bit, entries, exception>>

Index == 0 .. GL_NUM_ENTRIES - 1
NoIndex == -1
\* Mutant: the pointer sum is not truncated.
PtrWide(x) == x
GlPtr(x) == Trunc(x, GL_NUM_ENTRIES)

(* Inputs of a cycle: instr is [valid, data, ex, done], where done says     *)
(* that the instruction needs no write-back (store, AMO, vector of length   *)
(* 0); read is the number of retired instructions; wb is the set of records *)
(* [index, ex] on the write-back ports; exe is the index of an exception    *)
(* raised in the execution stage, or NoIndex.                               *)
NoInstr == [valid |-> FALSE]

\* Mutant: full when the last entry is taken too.
FullLate == num = GL_NUM_ENTRIES
Full == num = GL_NUM_ENTRIES - 1
IsEmpty == num = 0

\* Mutant: the comparison forgets that the ring wraps.
OlderFlat(i, j) == i < j

\* The comparison of indices that the RTL spells out three times: i is older
\* than j, seen from head.
Older(i, j) ==
    \/ i >= gl_head /\ i < j /\ gl_head < j
    \/ i >= gl_head /\ i > j /\ gl_head > j
    \/ i < gl_head /\ i < j /\ gl_head > j

GlAge(i) == Dist(gl_head, i, GL_NUM_ENTRIES)
GlLive(i) == GlAge(i) < num

\* Pointers, counter and entries stay within their widths.
GlTypeOK ==
    /\ gl_head \in Index /\ gl_tail \in Index /\ num \in 0 .. 2 * GL_NUM_ENTRIES - 1
    /\ valid_bit \in [Index -> BOOLEAN]
    /\ entries \in [Index -> [data : Payload \cup {NoIndex}, ex : BOOLEAN]]
    /\ exception \in [valid : BOOLEAN, index : Index]

\* Mutant: the last entry may be written.
WriteEnableLast(instr) == instr.valid /\ num < GL_NUM_ENTRIES
GlWriteEnable(instr) == instr.valid /\ num < GL_NUM_ENTRIES - 1

GlInit ==
    /\ gl_head = 0 /\ gl_tail = 0 /\ num = 0
    /\ valid_bit = [i \in Index |-> FALSE]
    /\ entries = [i \in Index |-> [data |-> NoIndex, ex |-> FALSE]]
    /\ exception = [valid |-> FALSE, index |-> 0]

\* The write-back ports set the finished bit and accumulate ex_valid, over
\* the entries e and bits b of the cycle.
WriteBack(b, e, wb) ==
    /\ valid_bit' = [i \in Index |-> b[i] \/ \E w \in wb : w.index = i]
    /\ entries' = [i \in Index |->
           IF \E w \in wb : w.index = i
           THEN [e[i] EXCEPT !.ex = entries[i].ex \/ \E w \in wb : w.index = i /\ w.ex]
           ELSE e[i]]

\* Mutant: an exception of the execution stage replaces any other.
TakesExeAlways(exe) == exe # NoIndex
\* An exception of the execution stage replaces no exception or a younger one.
TakesExe(exe) == exe # NoIndex /\ (exception.valid => Older(exe, exception.index))

\* flush_commit_i: everything goes.
FlushCommit(wb) ==
    /\ gl_head' = 0 /\ gl_tail' = 0 /\ num' = 0
    /\ WriteBack(valid_bit, entries, wb)
    /\ exception' = [valid |-> FALSE, index |-> 0]

\* flush_i: the instructions younger than entry i go.
Flush(i, read, wb, exe) ==
    /\ IF num > 0
       THEN /\ gl_tail' = GlPtr(i + 1)
            /\ gl_head' = GlPtr(gl_head + read)
            /\ num' = Dist(GlPtr(gl_head + read), GlPtr(i + 1), GL_NUM_ENTRIES)
       ELSE UNCHANGED <<gl_tail, gl_head, num>>
    /\ WriteBack(valid_bit, entries, wb)
    /\ exception' = IF TakesExe(exe) THEN [valid |-> TRUE, index |-> exe]
                    ELSE IF exception.valid /\ Older(i, exception.index)
                         THEN [valid |-> FALSE, index |-> 0]
                    ELSE exception

GlAdvance(instr, read, wb, exe) ==
    LET we == GlWriteEnable(instr) IN
    /\ gl_tail' = GlPtr(gl_tail + (IF we THEN 1 ELSE 0))
    /\ gl_head' = GlPtr(gl_head + read)
    /\ num' = Trunc(num + (IF we THEN 1 ELSE 0) - read, 2 * GL_NUM_ENTRIES)
    /\ IF we
       THEN WriteBack([valid_bit EXCEPT ![gl_tail] = instr.done \/ instr.ex],
                      [entries EXCEPT ![gl_tail] = [data |-> instr.data, ex |-> instr.ex]], wb)
       ELSE WriteBack(valid_bit, entries, wb)
    /\ exception' = IF TakesExe(exe) THEN [valid |-> TRUE, index |-> exe]
                    ELSE IF we /\ instr.ex /\ ~exception.valid /\ exe = NoIndex
                         THEN [valid |-> TRUE, index |-> gl_tail]
                    ELSE exception

\* instruction_o: the number of instructions offered to commit.
Offered == IF num = 0 \/ ~valid_bit[gl_head] THEN 0
           ELSE IF num > 1 /\ valid_bit[GlPtr(gl_head + 1)] THEN 2 ELSE 1

-----------------------------------------------------------------------------
(* The list under every client that keeps its protocol.  A write-back port *)
(* and the execution stage name live entries that do not retire in this    *)
(* cycle, two ports never the same one.  A write-back brings an exception  *)
(* only after the execution stage has reported it.  Retirement stops at    *)
(* the recorded exception, whose commit is followed by flush_commit_i.  A  *)
(* mispredicted branch flushes from its own write-back, and what the       *)
(* execution stage reports in that cycle is older than it.                 *)

Staying(read) == {i \in Index : GlLive(i) /\ GlAge(i) >= read}
Reported(i) == exception.valid /\ GlAge(exception.index) <= GlAge(i)
Ports(done, failed) == {[index |-> i, ex |-> i \in failed] : i \in done}
MayRetire(read) == read <= Offered /\ (exception.valid => read <= GlAge(exception.index))

\* A cycle that retires read instructions and writes back done, failed ones
\* with an exception, while the execution stage reports exe.
CycleOf(read, done, failed, exe) ==
    \/ \E i \in done : /\ exe # NoIndex => GlAge(exe) < GlAge(i)
                       /\ Flush(i, read, Ports(done, failed), exe)
    \/ GlAdvance(NoInstr, read, Ports(done, failed), exe)
    \/ \E data \in Payload, ex, ready \in BOOLEAN :
           GlAdvance([valid |-> TRUE, data |-> data, ex |-> ex, done |-> ready],
                   read, Ports(done, failed), exe)

GlNext ==
    \/ \E done \in SUBSET Staying(0) : \E failed \in SUBSET done :
           FlushCommit(Ports(done, failed))
    \/ \E read \in 0 .. 2 : \E done \in SUBSET Staying(read) :
           \E failed \in SUBSET {i \in done : Reported(i)}, exe \in Staying(read) \cup {NoIndex} :
               MayRetire(read) /\ CycleOf(read, done, failed, exe)

GlSpec == GlInit /\ [][GlNext]_gl_vars

-----------------------------------------------------------------------------
(* The three ways the list knows its occupancy agree after every write,    *)
(* double retirement and flush, and one entry always stays free, without   *)
(* which a full list would look empty to the pointers.                     *)
Occupancy == num < GL_NUM_ENTRIES /\ gl_tail = GlPtr(gl_head + num)

(* The single exception record is the oldest: it names a live entry, and   *)
(* no live entry older than it carries an exception.                       *)
RecordOldest ==
    /\ exception.valid => GlLive(exception.index)
    /\ \A i \in Index : GlLive(i) /\ entries[i].ex => Reported(i)

(* Commit takes the cause of an exception from the record and the fact     *)
(* from the entry (commit_xcpt in datapath.sv): at the head they belong to *)
(* the same instruction.                                                   *)
ExceptionAtHead ==
    num > 0 /\ entries[gl_head].ex => exception.valid /\ exception.index = gl_head
=============================================================================
