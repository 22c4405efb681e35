----------------------------- MODULE FreeList ------------------------------
(***************************************************************************)
(* The free list of physical registers (free_list.sv): a ring of register  *)
(* names with one shared tail, where freed registers are written, and one  *)
(* head and one count per checkpoint.  Version version_head is the current *)
(* one, versions version_tail .. version_head (wrapping) are live.         *)
(* A step is a clock cycle.                                                *)
(***************************************************************************)
EXTENDS Wrap

CONSTANTS NUM_ENTRIES,        \* length of the ring
          NUM_CHECKPOINTS,    \* number of versions
          NUM_ISA_REGISTERS,  \* registers 0 .. NUM_ISA_REGISTERS-1 are mapped at reset
          ZERO_IS_FREEABLE    \* FALSE for the scalar list: p0 is never freed

ASSUME FreeListConstants ==
    /\ NUM_ENTRIES \in Nat /\ NUM_ENTRIES >= 2
    /\ NUM_CHECKPOINTS \in Nat /\ NUM_CHECKPOINTS >= 2
    /\ NUM_ISA_REGISTERS \in Nat /\ NUM_ISA_REGISTERS >= 1
    /\ ZERO_IS_FREEABLE \in BOOLEAN

VARIABLES head,             \* read pointer of each version
          tail,             \* write pointer
          num_registers,    \* free registers of each version
          register_table,   \* the ring
          version_head,     \* current version
          version_tail,     \* oldest live version
          num_checkpoints   \* live checkpoints = version_head - version_tail

vars == <<head, tail, num_registers, register_table,
          version_head, version_tail, num_checkpoints>>

Entry == 0 .. NUM_ENTRIES - 1
Ckpt == 0 .. NUM_CHECKPOINTS - 1
Phys == 0 .. NUM_ISA_REGISTERS + NUM_ENTRIES - 1

Ptr(x) == Trunc(x, NUM_ENTRIES)          \* trunc_free_list_ptr_sum
Num(x) == Trunc(x, 2 * NUM_ENTRIES)      \* trunc_free_list_num_sum, one bit wider
Ver(x) == Trunc(x, NUM_CHECKPOINTS)      \* trunc_checkpoint_ptr_sum

\* Pointers, counters and entries stay within their widths.
TypeOK ==
    /\ head \in [Ckpt -> Entry]
    /\ tail \in Entry
    /\ num_registers \in [Ckpt -> 0 .. 2 * NUM_ENTRIES - 1]
    /\ register_table \in [Entry -> Phys]
    /\ version_head \in Ckpt
    /\ version_tail \in Ckpt
    /\ num_checkpoints \in 0 .. 2 * NUM_CHECKPOINTS - 1

-----------------------------------------------------------------------------
(* Combinational signals.  f0 and f1 are the registers on the two free      *)
(* ports, NoReg when the port's add_free_register_i bit is clear.           *)

NoReg == -1
Port == Phys \cup {NoReg}

\* write_enable_0 / write_enable_1: the scalar list drops register 0.
WriteEnable(f) == f # NoReg /\ (ZERO_IS_FREEABLE \/ f # 0)
Writes(f0, f1) == (IF WriteEnable(f0) THEN 1 ELSE 0) + (IF WriteEnable(f1) THEN 1 ELSE 0)
FirstWrite(f0, f1) == IF WriteEnable(f0) THEN f0 ELSE f1

\* empty_o: nothing free and nothing freed in this cycle.
Empty(f0, f1) == num_registers[version_head] = 0 /\ Writes(f0, f1) = 0

OutOfCheckpoints == num_checkpoints = NUM_CHECKPOINTS - 1

\* Mutant: an empty list is read.
ReadEnableUnguarded(read, f0, f1) == read

\* read_enable of a cycle that neither recovers nor rolls back.
ReadEnable(read, f0, f1) == read /\ ~Empty(f0, f1)

\* Mutant: a checkpoint is taken whatever the number of live ones.
CheckpointEnableUnguarded(do) == do

\* checkpoint_enable of a cycle that neither recovers nor rolls back.
CheckpointEnable(do) == do /\ num_checkpoints < NUM_CHECKPOINTS - 1

\* new_register_o: 0 when nothing is read; a register freed in this cycle is
\* forwarded when the list is empty.
NewRegister(read, f0, f1) ==
    IF ~ReadEnable(read, f0, f1) THEN 0
    ELSE IF num_registers[version_head] = 0 THEN FirstWrite(f0, f1)
    ELSE register_table[head[version_head]]

-----------------------------------------------------------------------------
Init ==
    /\ head = [v \in Ckpt |-> 0]
    /\ tail = 0
    /\ num_registers = [v \in Ckpt |-> NUM_ENTRIES]
    /\ register_table = [i \in Entry |-> NUM_ISA_REGISTERS + i]
    /\ version_head = 0
    /\ version_tail = 0
    /\ num_checkpoints = 0

\* commit_roll_back_i: the whole ring is free again, starting at tail.
RollBack ==
    /\ head' = [head EXCEPT ![0] = tail]
    /\ num_registers' = [num_registers EXCEPT ![0] = NUM_ENTRIES]
    /\ version_head' = 0
    /\ version_tail' = 0
    /\ num_checkpoints' = 0
    /\ UNCHANGED <<tail, register_table>>

\* Freed registers go to tail and tail+1 in port order.
WriteFreed(f0, f1) ==
    /\ tail' = Ptr(tail + Writes(f0, f1))
    /\ register_table' = [i \in Entry |->
           IF Writes(f0, f1) >= 1 /\ i = tail THEN FirstWrite(f0, f1)
           ELSE IF Writes(f0, f1) = 2 /\ i = Ptr(tail + 1) THEN f1
           ELSE register_table[i]]

\* Mutant: a recovery drops the registers freed in the same cycle.
RecoverUncounted(f0, f1, c, delete) ==
    /\ WriteFreed(f0, f1)
    /\ version_head' = c
    /\ version_tail' = Ver(version_tail + delete)
    /\ num_checkpoints' = Dist(version_tail, c, NUM_CHECKPOINTS)
    /\ UNCHANGED <<head, num_registers>>

\* do_recover_i: version c becomes current again.  Freed registers count in
\* every version; a deleted checkpoint leaves at version_tail.
Recover(f0, f1, c, delete) ==
    /\ WriteFreed(f0, f1)
    /\ num_registers' = [v \in Ckpt |-> Num(num_registers[v] + Writes(f0, f1))]
    /\ version_head' = c
    /\ version_tail' = Ver(version_tail + delete)
    /\ num_checkpoints' = Dist(version_tail, c, NUM_CHECKPOINTS)
    /\ UNCHANGED head

\* A cycle without recovery: read takes a register, do takes a checkpoint.
Advance(read, f0, f1, do, delete) ==
    LET rd == IF ReadEnable(read, f0, f1) THEN 1 ELSE 0
        ck == CheckpointEnable(do)
        next == Ver(version_head + 1)
        cur == {version_head} \cup (IF ck THEN {next} ELSE {})
    IN
    /\ WriteFreed(f0, f1)
    /\ head' = [v \in Ckpt |-> IF v \in cur THEN Ptr(head[version_head] + rd) ELSE head[v]]
    /\ num_registers' = [v \in Ckpt |->
           IF v \in cur THEN Num(num_registers[version_head] + Writes(f0, f1) - rd)
           ELSE Num(num_registers[v] + Writes(f0, f1))]
    /\ version_head' = IF ck THEN next ELSE version_head
    /\ version_tail' = Ver(version_tail + delete)
    /\ num_checkpoints' = Trunc(num_checkpoints + (IF ck THEN 1 ELSE 0) - delete,
                                2 * NUM_CHECKPOINTS)

-----------------------------------------------------------------------------
(* The list under every client that keeps its protocol: at most as many     *)
(* registers come back as the oldest live version has given out, a recovery *)
(* names a live older checkpoint, a deletion finds a checkpoint, and the    *)
(* two never share a cycle (one branch resolves per cycle).                 *)

Age(v) == Dist(version_tail, v, NUM_CHECKPOINTS)
Live(v) == Age(v) <= num_checkpoints

\* Registers the client may hand back: those the oldest version gave out.
Returnable == NUM_ENTRIES - num_registers[version_tail]
Deletes == IF num_checkpoints > 0 THEN {0, 1} ELSE {0}

Next ==
    \/ RollBack
    \/ \E f0, f1 \in Port :
        /\ Writes(f0, f1) <= Returnable
        /\ \/ \E c \in Ckpt : Age(c) < num_checkpoints /\ Recover(f0, f1, c, 0)
           \/ \E read, do \in BOOLEAN, delete \in Deletes :
                Advance(read, f0, f1, do, delete)

Spec == Init /\ [][Next]_vars

-----------------------------------------------------------------------------
(* The counter and the pointers of every live version describe the same     *)
(* segment of the ring: head + num = tail, with at most NUM_ENTRIES free.   *)
(* The RTL never compares them, it only updates them side by side.          *)
PointersAgree ==
    \A v \in Ckpt : Live(v) =>
        /\ num_registers[v] <= NUM_ENTRIES
        /\ Ptr(head[v] + num_registers[v]) = tail

(* The checkpoint counter is the distance between the version pointers and  *)
(* leaves at least one version for the current list.                        *)
VersionsAgree ==
    /\ num_checkpoints < NUM_CHECKPOINTS
    /\ version_head = Ver(version_tail + num_checkpoints)

(* An older live version has at least the registers of a younger one, so a  *)
(* recovery never makes a register unavailable.                             *)
OlderHasMore ==
    \A u, v \in Ckpt : Live(v) /\ Age(u) <= Age(v) =>
        num_registers[u] >= num_registers[v]
=============================================================================
