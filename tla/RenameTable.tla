---------------------------- MODULE RenameTable ----------------------------
(***************************************************************************)
(* The rename table (rename_table.sv): for every checkpoint a map from     *)
(* architectural to physical registers and the ready bits of the mapped    *)
(* registers, plus the map of the committed state.  A step is a clock      *)
(* cycle.                                                                  *)
(***************************************************************************)
EXTENDS Wrap

CONSTANTS NUM_ISA_REGISTERS,
          NUM_CHECKPOINTS,
          HARDWIRED_ZERO      \* TRUE for the scalar table: x0 is never renamed

VARIABLES register_table,     \* register_table[r][v]: mapping of r in version v
          ready_table,        \* ready_table[r][v]: that register has its value
          commit_table,       \* mapping of the committed state
          version_head, version_tail, num_checkpoints

vars == <<register_table, ready_table, commit_table,
          version_head, version_tail, num_checkpoints>>

Isa == 0 .. NUM_ISA_REGISTERS - 1
Ckpt == 0 .. NUM_CHECKPOINTS - 1
Ver(x) == Trunc(x, NUM_CHECKPOINTS)

(* Inputs of a cycle: a rename [rd, prd] or NoReg; the commit ports k0 and *)
(* k1, each [rd, prd] or NoReg; the set ready of pairs <<rd, prd>> on the  *)
(* write-back ports.                                                       *)
NoReg == [rd |-> -1, prd |-> -1]

\* write_enable and commit_write_enable: a hardwired x0 is never written.
Writes(w) == w # NoReg /\ (HARDWIRED_ZERO => w.rd # 0)

OutOfCheckpoints == num_checkpoints = NUM_CHECKPOINTS - 1
CheckpointEnable(do) == do /\ num_checkpoints < NUM_CHECKPOINTS - 1

\* The outputs that the next stage registers: source and old destination
\* mapping, and the ready bit with the write-backs of the cycle bypassed.
Mapping(r) == register_table[r][version_head]
Rdy(r, ready) == ready_table[r][version_head] \/ <<r, Mapping(r)>> \in ready

Init ==
    /\ register_table = [r \in Isa |-> [v \in Ckpt |-> r]]
    /\ ready_table = [r \in Isa |-> [v \in Ckpt |-> TRUE]]
    /\ commit_table = [r \in Isa |-> r]
    /\ version_head = 0
    /\ version_tail = 0
    /\ num_checkpoints = 0

\* recover_commit_i: version 0 becomes the committed map, everything ready.
RecoverCommit ==
    /\ register_table' = [r \in Isa |-> [register_table[r] EXCEPT ![0] = commit_table[r]]]
    /\ ready_table' = [r \in Isa |-> [ready_table[r] EXCEPT ![0] = TRUE]]
    /\ version_head' = 0
    /\ version_tail' = 0
    /\ num_checkpoints' = 0
    /\ UNCHANGED commit_table

\* Mutant: the older instruction wins.
CommitOlderWins(k0, k1) ==
    commit_table' = [r \in Isa |-> IF Writes(k0) /\ k0.rd = r THEN k0.prd
                                   ELSE IF Writes(k1) /\ k1.rd = r THEN k1.prd
                                   ELSE commit_table[r]]

\* Port 1 holds the younger instruction and wins on a common destination.
Commit(k0, k1) ==
    commit_table' = [r \in Isa |-> IF Writes(k1) /\ k1.rd = r THEN k1.prd
                                   ELSE IF Writes(k0) /\ k0.rd = r THEN k0.prd
                                   ELSE commit_table[r]]

\* The ready bit of r in version v after the write-backs of the cycle.
Marked(r, v, ready) == ready_table[r][v] \/ <<r, register_table[r][v]>> \in ready

\* Mutant: the checkpoint count survives a recovery.
RecoverKeepsCount(k0, k1, ready, c, delete) ==
    /\ Commit(k0, k1)
    /\ ready_table' = [r \in Isa |-> [v \in Ckpt |-> Marked(r, v, ready)]]
    /\ version_head' = c
    /\ version_tail' = Ver(version_tail + delete)
    /\ UNCHANGED <<register_table, num_checkpoints>>

\* do_recover_i: version c becomes current; nothing is renamed.
Recover(k0, k1, ready, c, delete) ==
    /\ Commit(k0, k1)
    /\ ready_table' = [r \in Isa |-> [v \in Ckpt |-> Marked(r, v, ready)]]
    /\ version_head' = c
    /\ version_tail' = Ver(version_tail + delete)
    /\ num_checkpoints' = Dist(version_tail, c, NUM_CHECKPOINTS)
    /\ UNCHANGED register_table

\* A cycle without recovery.  A checkpoint copies the current version to the
\* next one, and the destination renamed in the cycle is written to both.
Advance(w, k0, k1, ready, do, delete) ==
    LET ck == CheckpointEnable(do)
        next == Ver(version_head + 1)
        cur == {version_head} \cup (IF ck THEN {next} ELSE {})
        new(r) == Writes(w) /\ w.rd = r
    IN
    /\ Commit(k0, k1)
    /\ register_table' = [r \in Isa |-> [v \in Ckpt |->
           IF v \notin cur THEN register_table[r][v]
           ELSE IF new(r) THEN w.prd ELSE Mapping(r)]]
    /\ ready_table' = [r \in Isa |-> [v \in Ckpt |->
           IF v \notin cur THEN Marked(r, v, ready)
           ELSE ~new(r) /\ Marked(r, version_head, ready)]]
    /\ version_head' = IF ck THEN next ELSE version_head
    /\ version_tail' = Ver(version_tail + delete)
    /\ num_checkpoints' = Trunc(num_checkpoints + (IF ck THEN 1 ELSE 0) - delete,
                                2 * NUM_CHECKPOINTS)
=============================================================================
