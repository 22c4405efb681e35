------------------------------ MODULE Backend ------------------------------
(***************************************************************************)
(* The back end of the core: rename (IR), register read (RR), execution    *)
(* (EXE), write-back (WB) and commit of datapath.sv, under the stall,      *)
(* flush, checkpoint and recovery rules of control_unit.sv.  The free      *)
(* list, the rename table and the graduation list are the component        *)
(* modules.  A step is one clock cycle; everything the RTL leaves to data  *)
(* or to the world around the back end is chosen in each cycle.            *)
(***************************************************************************)
EXTENDS Wrap, Sequences, FiniteSets

CONSTANTS NUM_ENTRIES,        \* graduation list entries, and free registers
          NUM_CHECKPOINTS,
          NUM_ISA_REGISTERS,
          Kinds,              \* kinds of instruction that are fetched
          Sources,            \* registers that they read, 0 for none
          Exceptions          \* which causes of a flush at commit happen

(* ALU: one cycle.  BR: a branch or JALR, one cycle, takes a checkpoint.   *)
(* LONG: a load, multiplication, division, FP or SIMD operation, any       *)
(* number of cycles.  STORE: finished for commit when it enters the        *)
(* graduation list, executed at commit.  CSR: any stall_csr_fence          *)
(* instruction, executed at commit.                                        *)
AllKinds == {"ALU", "BR", "LONG", "STORE", "CSR"}
AllExceptions == {"frontend", "branch", "memory", "csr"}

ASSUME BackendConstants ==
    /\ NUM_ENTRIES \in Nat /\ NUM_ENTRIES >= 3
    /\ NUM_CHECKPOINTS \in Nat /\ NUM_CHECKPOINTS >= 2
    /\ NUM_ISA_REGISTERS \in Nat /\ NUM_ISA_REGISTERS >= 1
    /\ Kinds \subseteq AllKinds
    /\ Sources \subseteq 0 .. NUM_ISA_REGISTERS - 1
    /\ Exceptions \subseteq AllExceptions

VARIABLES fl_head, fl_tail, fl_num, fl_ring, fl_vh, fl_vt, fl_ck,
          rt_map, rt_ready, rt_commit, rt_vh, rt_vt, rt_ck,
          gl_head, gl_tail, gl_num, gl_valid, gl_entries, gl_ex,
          rr,         \* the instruction in RR, or None
          exe,        \* the instruction in EXE, or None
          units,      \* instructions inside the units of several cycles
          wb,         \* results in WB
          xq,         \* exception_enable_q
          cq,         \* csr_enable_q
          fence       \* csr_fence_in_pipeline, from the moment the queue is past it

flVars == <<fl_head, fl_tail, fl_num, fl_ring, fl_vh, fl_vt, fl_ck>>
rtVars == <<rt_map, rt_ready, rt_commit, rt_vh, rt_vt, rt_ck>>
glVars == <<gl_head, gl_tail, gl_num, gl_valid, gl_entries, gl_ex>>
vars == <<flVars, rtVars, glVars, rr, exe, units, wb, xq, cq, fence>>

FL == INSTANCE FreeList WITH
        ZERO_IS_FREEABLE <- FALSE,
        head <- fl_head, tail <- fl_tail, num_registers <- fl_num,
        register_table <- fl_ring, version_head <- fl_vh,
        version_tail <- fl_vt, num_checkpoints <- fl_ck
RT == INSTANCE RenameTable WITH
        HARDWIRED_ZERO <- TRUE,
        register_table <- rt_map, ready_table <- rt_ready,
        commit_table <- rt_commit, version_head <- rt_vh,
        version_tail <- rt_vt, num_checkpoints <- rt_ck
GL == INSTANCE GraduationList WITH
        Payload <- [kind : Kinds, rd : 0 .. NUM_ISA_REGISTERS - 1,
                    prd : FL!Phys, old : FL!Phys],
        GL_NUM_ENTRIES <- NUM_ENTRIES, num <- gl_num,
        valid_bit <- gl_valid, entries <- gl_entries, exception <- gl_ex

Reg == 0 .. NUM_ISA_REGISTERS - 1
Index == 0 .. NUM_ENTRIES - 1
NoIndex == -1
None == [kind |-> "none"]

(* An instruction in RR or EXE.  Register 0 as rd or rs stands for no      *)
(* destination or source: x0 is never renamed, never freed, always ready.  *)
Instr == [kind : AllKinds, rd : Reg, rs : Reg, prd : FL!Phys, old : FL!Phys,
          prs : FL!Phys, rdy : BOOLEAN, ck : BOOLEAN, chkp : FL!Ckpt,
          index : Index \cup {NoIndex}]
Result == [index : Index, rd : Reg, prd : FL!Phys, ex : BOOLEAN,
           ck : BOOLEAN, chkp : FL!Ckpt, ok : BOOLEAN]

-----------------------------------------------------------------------------
(* Signals that depend on the registers only.                              *)

\* jump at WB: the branch in WB was mispredicted.
Mispredicted == {w \in wb : ~w.ok}
mis == Mispredicted # {}
missed == CHOOSE w \in wb : ~w.ok

\* Ports of the register file and the ready table in this cycle.
Broadcast == {<<w.rd, w.prd>> : w \in {w \in wb : w.rd # 0}}

\* snoop_rr_rdy and snoop_exe_rdy: a waiting source hears the write-backs.
Snoop(i) == IF i = None THEN None
            ELSE [i EXCEPT !.rdy = @ \/ (i.rs # 0 /\ \E b \in Broadcast : b[2] = i.prs)]

flush_ir == xq \/ cq \/ mis

\* exe_cu_i.stall: operands missing, or the unit is busy.
exe_stall(busy) == exe # None /\ ~mis /\ (~Snoop(exe).rdy \/ busy)
stall_rr(busy) == exe_stall(busy) \/ GL!Full
\* Mutant: a full graduation list flushes RR even when EXE is stalled.
flush_rrFull(busy) == flush_ir \/ GL!Full
flush_rr(busy) == flush_ir \/ (GL!Full /\ ~exe_stall(busy))

-----------------------------------------------------------------------------
(* Commit.  The inputs of the cycle: done, the store at the head has been  *)
(* accepted; memex, the graduation list index of a memory exception;       *)
(* csrx, the CSRs answer the command with an exception or a return.        *)

Oldest == gl_entries[gl_head]
Second == gl_entries[GL!GlPtr(gl_head + 1)]
Offered == IF xq THEN 0 ELSE GL!Offered
CommitsStore == Offered > 0 /\ Oldest.data.kind = "STORE" /\ ~Oldest.ex
CommitsCsr == Offered > 0 /\ Oldest.data.kind = "CSR" /\ ~Oldest.ex

commit_xcpt(memex) ==
    /\ Offered > 0
    /\ IF CommitsStore THEN memex = gl_head ELSE gl_ex.valid /\ Oldest.ex

commit_2_blocked ==
    \/ Offered < 2
    \/ Oldest.ex
    \/ Oldest.data.kind = "CSR"
    \/ Second.data.kind \in {"STORE", "CSR"}
    \/ Second.ex

\* retire_inst_o: how many instructions leave the graduation list.
Retire(done, memex) ==
    IF Offered = 0 THEN 0
    ELSE IF commit_xcpt(memex) THEN 1
    ELSE IF CommitsStore /\ ~done THEN 0
    ELSE IF commit_2_blocked THEN 1 ELSE 2

exception_enable_d(memex, csrx) == ~xq /\ (commit_xcpt(memex) \/ csrx)
csr_enable_d(memex, csrx) ==
    /\ ~cq
    /\ Offered > 0 /\ Oldest.data.kind = "CSR"
    /\ ~commit_xcpt(memex) /\ ~csrx

\* Mutant: an instruction with an exception frees its old register.
FreedAlways(n, done, memex, csrx) ==
    IF Retire(done, memex) >= n
    THEN (IF n = 1 THEN Oldest ELSE Second).data.old ELSE FL!NoReg

\* enable_commit_update: the retired destinations reach the committed map
\* and the registers they replace reach the free list.
Freed(n, done, memex, csrx) ==
    IF Retire(done, memex) >= n /\ ~exception_enable_d(memex, csrx)
    THEN (IF n = 1 THEN Oldest ELSE Second).data.old ELSE FL!NoReg
Committed(n, done, memex, csrx) ==
    LET d == (IF n = 1 THEN Oldest ELSE Second).data IN
    IF Retire(done, memex) >= n /\ ~exception_enable_d(memex, csrx)
    THEN [rd |-> d.rd, prd |-> d.prd] ELSE RT!NoReg

-----------------------------------------------------------------------------
(* Execution.  fin is the set of operations of several cycles that end in  *)
(* this cycle, memex the index of the one that raises an exception; ok and *)
(* brex are the outcome of the branch in EXE.                              *)

Finished(u, memex) ==
    [index |-> u.index, rd |-> u.rd, prd |-> u.prd, ex |-> u.index = memex,
     ck |-> FALSE, chkp |-> 0, ok |-> TRUE]

\* Mutant: a misprediction does not kill EXE.
ExecutesUnkilled(busy) == exe # None /\ ~exe_stall(busy)
Executes(busy) == exe # None /\ ~mis /\ ~exe_stall(busy)
Single(i) == i.kind \in {"ALU", "BR", "CSR"}

exe_results(busy, ok, brex) ==
    IF Executes(busy) /\ Single(exe)
    THEN {[index |-> exe.index, rd |-> exe.rd, prd |-> exe.prd, ex |-> brex,
           ck |-> exe.ck, chkp |-> exe.chkp, ok |-> ok]}
    ELSE {}

\* Mutant: the exception of the branch goes first.
ex_from_exeBranch(memex, brex) ==
    IF brex THEN exe.index ELSE IF memex # NoIndex THEN memex ELSE GL!NoIndex
\* ex_gl_o: a memory exception goes before the exception of the branch.
ex_from_exe(memex, brex) ==
    IF memex # NoIndex THEN memex
    ELSE IF brex THEN exe.index ELSE GL!NoIndex

\* What leaves the units: results, and the store that commits.
Leaves(fin, done) ==
    fin \cup {u \in units : done /\ CommitsStore /\ u.index = gl_head}

Execute(busy, ok, brex, fin, memex, done) ==
    IF xq \/ cq
    THEN /\ wb' = {}
         /\ units' = {}
    ELSE /\ wb' = exe_results(busy, ok, brex) \cup {Finished(u, memex) : u \in fin}
         /\ units' = (units \ Leaves(fin, done))
                     \cup (IF Executes(busy) /\ ~Single(exe) THEN {exe} ELSE {})

-----------------------------------------------------------------------------
(* Rename and register read.  iq is the head of the instruction queue, or  *)
(* None; rrex says that the instruction in RR carries an exception of the  *)
(* front end or is interrupted as it enters the graduation list.           *)

stall_iq(busy, f0, f1) ==
    stall_rr(busy) \/ FL!Empty(f0, f1) \/ RT!OutOfCheckpoints

do_checkpoint(iq, busy) ==
    /\ iq.kind = "BR"
    /\ ~RT!OutOfCheckpoints
    /\ ~flush_ir
    /\ ~stall_rr(busy)

renames(iq, busy, f0, f1) == iq # None /\ ~stall_iq(busy, f0, f1)
reads(iq, busy, f0, f1) == renames(iq, busy, f0, f1) /\ iq.rd # 0

\* IR to RR: the new instruction with its renamed registers.
Renamed(iq, busy, f0, f1) ==
    [kind |-> iq.kind, rd |-> iq.rd, rs |-> iq.rs,
     prd |-> FL!NewRegister(reads(iq, busy, f0, f1), f0, f1),
     old |-> RT!Mapping(iq.rd), prs |-> RT!Mapping(iq.rs),
     rdy |-> iq.rs = 0 \/ RT!Rdy(iq.rs, Broadcast),
     ck |-> do_checkpoint(iq, busy), chkp |-> rt_vh, index |-> NoIndex]

\* Mutant: a stalled RR does not hear the write-backs.
NextRRDeaf(iq, busy, f0, f1) ==
    IF flush_ir THEN None
    ELSE IF stall_rr(busy) THEN rr
    ELSE IF renames(iq, busy, f0, f1) THEN Renamed(iq, busy, f0, f1)
    ELSE None
NextRR(iq, busy, f0, f1) ==
    IF flush_ir THEN None
    ELSE IF stall_rr(busy) THEN Snoop(rr)
    ELSE IF renames(iq, busy, f0, f1) THEN Renamed(iq, busy, f0, f1)
    ELSE None

NextEXE(busy, rrex) ==
    IF flush_rr(busy) THEN None
    ELSE IF stall_rr(busy) THEN Snoop(exe)
    ELSE IF rr # None /\ ~rrex THEN [Snoop(rr) EXCEPT !.index = gl_tail]
    ELSE None

\* instruction_decode_gl
ToGL(busy, rrex) ==
    IF rr = None \/ stall_rr(busy) THEN GL!NoInstr
    ELSE [valid |-> TRUE, ex |-> rrex,
          data |-> [kind |-> rr.kind, rd |-> rr.rd, prd |-> rr.prd, old |-> rr.old],
          done |-> rr.kind = "STORE"]

ToGLPorts == {[index |-> w.index, ex |-> w.ex] : w \in wb}

-----------------------------------------------------------------------------
(* The three structures in one cycle.  A recovery at commit goes before a  *)
(* recovery at WB, which goes before renaming.                             *)

\* cu_ir_o: the recovery at WB and the deletion of a resolved checkpoint.
do_recover == mis /\ missed.ck
\* Mutant: a mispredicted branch deletes its checkpoint as well.
delete_checkpointAny == IF \E w \in wb : w.ck THEN 1 ELSE 0
delete_checkpoint == IF \E w \in wb : w.ok /\ w.ck THEN 1 ELSE 0

Rename(iq, busy, f0, f1, k0, k1) ==
    LET read == reads(iq, busy, f0, f1)
        ckpt == do_checkpoint(iq, busy)
        write == IF renames(iq, busy, f0, f1)
                 THEN [rd |-> iq.rd, prd |-> FL!NewRegister(read, f0, f1)]
                 ELSE RT!NoReg
    IN
    IF xq
    THEN /\ FL!RollBack
         /\ RT!RecoverCommit
    ELSE IF do_recover
    THEN /\ FL!Recover(f0, f1, missed.chkp, delete_checkpoint)
         /\ RT!Recover(k0, k1, Broadcast, missed.chkp, delete_checkpoint)
    ELSE /\ FL!Advance(read, f0, f1, ckpt, delete_checkpoint)
         /\ RT!Advance(write, k0, k1, Broadcast, ckpt, delete_checkpoint)

Graduate(instr, read, exindex) ==
    IF xq THEN GL!FlushCommit(ToGLPorts)
    ELSE IF mis THEN GL!Flush(missed.index, read, ToGLPorts, exindex)
    ELSE GL!GlAdvance(instr, read, ToGLPorts, exindex)

\* Inputs that the state makes possible in this cycle.
Choice(possible) == IF possible THEN BOOLEAN ELSE {FALSE}

Destination(kind) == IF kind = "STORE" THEN {0} ELSE Reg
Fetched == UNION {[kind : {k}, rd : Destination(k), rs : Sources] : k \in Kinds}

\* Nothing follows a stall_csr_fence instruction into the queue before it
\* has left the pipeline; in a cycle that recovers, stalls RR or has no
\* checkpoint left the head of the queue has no effect.
QueueHead(busy) ==
    {None} \cup (IF fence \/ cq \/ xq \/ do_recover \/ stall_rr(busy) \/ RT!OutOfCheckpoints
                 THEN {} ELSE Fetched)

InUnits(kind) == {u \in units : u.kind = kind}
MayFail == IF "memory" \in Exceptions /\ ~(xq \/ cq) THEN {u.index : u \in units} ELSE {}

Init ==
    /\ FL!Init /\ RT!Init /\ GL!GlInit
    /\ rr = None /\ exe = None /\ units = {} /\ wb = {}
    /\ xq = FALSE /\ cq = FALSE /\ fence = FALSE

NextFence(iq, busy, f0, f1) ==
    /\ ~xq /\ ~mis
    /\ \/ renames(iq, busy, f0, f1) /\ iq.kind = "CSR"
       \/ fence /\ ~(Offered > 0 /\ Oldest.data.kind = "CSR")

Cycle(iq, busy, rrex, ok, brex, fin, memex, done, csrx) ==
    LET f0 == Freed(1, done, memex, csrx)
        f1 == Freed(2, done, memex, csrx)
        k0 == Committed(1, done, memex, csrx)
        k1 == Committed(2, done, memex, csrx)
    IN
    /\ Rename(iq, busy, f0, f1, k0, k1)
    /\ Graduate(ToGL(busy, rrex), Retire(done, memex), ex_from_exe(memex, brex))
    /\ Execute(busy, ok, brex, fin, memex, done)
    /\ rr' = NextRR(iq, busy, f0, f1)
    /\ exe' = NextEXE(busy, rrex)
    /\ xq' = exception_enable_d(memex, csrx)
    /\ cq' = csr_enable_d(memex, csrx)
    /\ fence' = NextFence(iq, busy, f0, f1)

\* A clock cycle in which the unit that EXE needs is busy or not.
Step(busy) ==
    \E iq \in QueueHead(busy),
       rrex \in Choice(rr # None /\ ~stall_rr(busy) /\ "frontend" \in Exceptions),
       done \in Choice(CommitsStore /\ \E u \in units : u.index = gl_head),
       csrx \in Choice(CommitsCsr /\ "csr" \in Exceptions),
       memex \in {NoIndex} \cup MayFail,
       fin \in SUBSET (IF xq \/ cq THEN {} ELSE InUnits("LONG")) :
     /\ \A u \in fin : u.index # memex
     /\ LET branch == Executes(busy) /\ exe.kind = "BR" /\ ~(xq \/ cq)
            ended == fin \cup {u \in units : u.index = memex}
        IN \E wrong \in Choice(branch), brex \in Choice(branch /\ "branch" \in Exceptions) :
               Cycle(iq, busy, rrex, ~wrong, brex, ended, memex,
                     done /\ memex # gl_head, csrx)

MayBeBusy == Choice(exe # None /\ ~Single(exe))
Next == \E busy \in MayBeBusy : Step(busy)

Spec == Init /\ [][Next]_vars

(* What the world owes the back end: an operation inside a unit ends (a    *)
(* load is answered, a division terminates), and the store at the head of  *)
(* the graduation list is accepted.                                        *)
Answerable(i) ==
    \E u \in units : u.index = i /\ (u.kind = "LONG" \/ (CommitsStore /\ gl_head = i))

-----------------------------------------------------------------------------
(* Properties.  InFlight lists the instructions that have renamed and not  *)
(* retired, oldest first: the graduation list, then RR.                    *)

Live(i) == Dist(gl_head, i, NUM_ENTRIES) < gl_num
InFlight == [n \in 1 .. gl_num |-> gl_entries[GL!GlPtr(gl_head + n - 1)].data]
            \o (IF rr = None THEN <<>>
                ELSE <<[kind |-> rr.kind, rd |-> rr.rd, prd |-> rr.prd, old |-> rr.old]>>)
Position(i) == Dist(gl_head, i, NUM_ENTRIES) + 1

\* The map an in-order machine has after the first n instructions in flight.
MapAfter(n) ==
    [r \in Reg |->
        LET writers == {j \in 1 .. n : InFlight[j].rd = r /\ r # 0} IN
        IF writers = {} THEN rt_commit[r]
        ELSE InFlight[CHOOSE j \in writers : \A k \in writers : k <= j].prd]
\* How many registers the first n instructions in flight have been given.
Given(n) == Cardinality({j \in 1 .. n : InFlight[j].rd # 0})

\* Branches that have not been resolved, with their place in InFlight.
Unresolved ==
    {[chkp |-> w.chkp, at |-> Position(w.index)] : w \in {w \in wb : w.ck}}
    \cup {[chkp |-> i.chkp, at |-> IF i = rr THEN gl_num + 1 ELSE Position(i.index)] :
              i \in {i \in {rr, exe} : i # None /\ i.kind = "BR" /\ i.ck}}

\* The free list, the rename table and the graduation list stay typed under the
\* control unit, and the instructions in the stages are instructions.
TypeOK ==
    /\ FL!TypeOK
    /\ rt_map \in [Reg -> [FL!Ckpt -> FL!Phys]]
    /\ rt_ready \in [Reg -> [FL!Ckpt -> BOOLEAN]]
    /\ rt_commit \in [Reg -> FL!Phys]
    /\ gl_head \in Index /\ gl_tail \in Index /\ gl_num \in 0 .. NUM_ENTRIES - 1
    /\ rr \in Instr \cup {None}
    /\ exe \in Instr \cup {None}
    /\ units \subseteq Instr
    /\ wb \subseteq Result
    /\ xq \in BOOLEAN /\ cq \in BOOLEAN /\ fence \in BOOLEAN

(* No physical register is lost or held twice: whatever recoveries and     *)
(* exceptions happened, the ring and the committed map together hold every *)
(* physical register once.                                                 *)
RegistersConserved ==
    {fl_ring[i] : i \in FL!Entry} \cup {rt_commit[r] : r \in Reg} = FL!Phys

(* Renaming is exact: the current map is the one in-order execution of the *)
(* instructions in flight would give, and each of them frees at commit the *)
(* register its destination had just before it.                            *)
RenameExact ==
    ~xq => /\ \A r \in Reg : RT!Mapping(r) = MapAfter(Len(InFlight))[r]
           /\ \A n \in 1 .. Len(InFlight) :
                  InFlight[n].old = MapAfter(n - 1)[InFlight[n].rd]

(* The checkpoint of every unresolved branch holds the state just after    *)
(* the branch: its map and its count of free registers.  The registers     *)
(* given out lie in the ring from tail on, in program order, so that a     *)
(* recovery or a roll-back returns exactly those of the killed.            *)
CheckpointsExact ==
    LET holds(v, n) ==
            /\ FL!Live(v)
            /\ \A r \in Reg : rt_map[r][v] = MapAfter(n)[r]
            /\ NUM_ENTRIES - fl_num[v] = Given(n)
    IN ~xq => /\ holds(fl_vh, Len(InFlight))
              /\ \A b \in Unresolved : holds(b.chkp, b.at)
              /\ \A n \in 1 .. Len(InFlight) : InFlight[n].rd # 0 =>
                     InFlight[n].prd = fl_ring[FL!Ptr(fl_tail + Given(n - 1))]

(* The free list and the rename table, which count checkpoints separately, *)
(* agree on them (the assertion commented out in datapath.sv).             *)
VersionsTogether == <<fl_vh, fl_vt, fl_ck>> = <<rt_vh, rt_vt, rt_ck>>

(* The free list runs dry only when the graduation list is full, so the    *)
(* empty signals left unconnected for the FP and SIMD lists are not needed *)
(* and a branch stalled on an empty list takes no checkpoint.              *)
FullBeforeEmpty == ~xq /\ fl_num[fl_vh] = 0 => GL!Full

(* A source operand names the register of its youngest older writer, is    *)
(* ready only when that writer has finished, and waits only for a writer   *)
(* that has not: no wake-up is missed in any stage or stall.               *)
OperandsExact ==
    \A i \in {rr, exe} : i # None /\ i.rs # 0 /\ ~xq =>
        LET before == (IF i = rr THEN gl_num + 1 ELSE Position(i.index)) - 1
            producers == {n \in 1 .. before : InFlight[n].rd # 0 /\ InFlight[n].prd = i.prs}
            waits(n) == ~gl_valid[GL!GlPtr(gl_head + n - 1)]
            fails(n) == gl_entries[GL!GlPtr(gl_head + n - 1)].ex
        IN /\ i.prs = MapAfter(before)[i.rs]
           /\ i.rdy => \A n \in producers : ~waits(n)
           /\ ~i.rdy => \E n \in producers : waits(n) \/ fails(n)

(* An exception is taken for the oldest instruction that has one: the      *)
(* single record of the graduation list is valid exactly when some         *)
(* instruction in flight carries an exception and names the oldest.        *)
OldestException ==
    LET failing == {i \in Index : Live(i) /\ gl_entries[i].ex}
                   \cup {w.index : w \in {w \in wb : w.ex}}
    IN ~xq => /\ gl_ex.valid <=> failing # {}
              /\ gl_ex.valid => /\ gl_ex.index \in failing
                                /\ \A i \in failing : Position(gl_ex.index) <= Position(i)

(* Every instruction between register read and write-back still owns its   *)
(* graduation list entry: a result never lands on the entry or register of *)
(* another instruction, whatever was flushed in between.                   *)
ResultsOwnTheirEntry ==
    ~xq => \A i \in wb \cup units \cup ({exe} \ {None}) :
        /\ Live(i.index)
        /\ gl_entries[i.index].data.rd = i.rd
        /\ gl_entries[i.index].data.prd = i.prd
        /\ gl_valid[i.index] => gl_entries[i.index].data.kind = "STORE"

(* A stall_csr_fence instruction that reaches commit is alone in the back  *)
(* end: its register write has port 0 for itself and the flush that        *)
(* follows it, which does not touch the rename state, loses nothing.       *)
CsrAlone ==
    /\ Offered > 0 /\ Oldest.data.kind = "CSR" =>
           gl_num = 1 /\ rr = None /\ exe = None /\ units = {} /\ wb = {}
    /\ cq => gl_num = 0 /\ rr = None /\ exe = None /\ units = {} /\ wb = {}

(* The back end never waits for itself: with no result on its way, either  *)
(* the head of the graduation list can commit or EXE can execute.          *)
NoCircularWait ==
    gl_num > 0 /\ ~xq /\ units = {} /\ wb = {} =>
        gl_valid[gl_head] \/ (exe # None /\ exe.rdy)

(* The back end keeps the protocol under which the free list is proved     *)
(* correct: it returns only registers that every live version has given    *)
(* out, recovers only live checkpoints and deletes only existing ones.     *)
FreeListProtocol == FL!Spec

(* The graduation list without what its entries remember.                  *)
GLP == INSTANCE GraduationList WITH
         Payload <- {NoIndex},
         GL_NUM_ENTRIES <- NUM_ENTRIES, num <- gl_num,
         valid_bit <- gl_valid, exception <- gl_ex,
         entries <- [i \in Index |-> [data |-> NoIndex, ex |-> gl_entries[i].ex]]

(* The back end keeps the protocol under which the graduation list is      *)
(* proved correct: from one recovery at commit to the next, results and    *)
(* exceptions name live entries, a result fails only after its exception   *)
(* was reported, nothing retires past the recorded exception and a flush   *)
(* comes from a live branch.  The cycle that takes an exception retires    *)
(* its instruction, and the next one empties the list.                     *)
GraduationListProtocol == GLP!GlInit /\ [][xq \/ xq' \/ GLP!GlNext]_glVars

(* Every instruction that reaches the head of the graduation list leaves   *)
(* it: stalls of EXE on a unit or an operand and of rename on checkpoints  *)
(* and on a full list all end.  An empty free list stops nobody before the *)
(* graduation list is full (FullBeforeEmpty).                              *)
HeadRetires ==
    \A i \in Index : (gl_num > 0 /\ gl_head = i) ~> (gl_num = 0 \/ gl_head # i)

\* What keeps the pipeline going, together: every register of it is typed, a
\* CSR instruction is alone when it commits, somebody can always move, and the
\* graduation list is full before a free list is empty.
ControlInv == TypeOK /\ CsrAlone /\ NoCircularWait /\ FullBeforeEmpty
=============================================================================
