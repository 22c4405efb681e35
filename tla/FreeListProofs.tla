-------------------------- MODULE FreeListProofs ---------------------------
(***************************************************************************)
(* Proofs about the free list, for every ring length and every number of   *)
(* checkpoints.                                                             *)
(***************************************************************************)
EXTENDS FreeList, TLAPS

(* The inductive invariant: the counters, the ring pointers and the version *)
(* pointers of the list agree in every live version.  PointersAgree alone   *)
(* is not inductive: that a count stays below NUM_ENTRIES when registers    *)
(* come back needs OlderHasMore, and the reach of Live needs VersionsAgree. *)
Inv == TypeOK /\ VersionsAgree /\ PointersAgree /\ OlderHasMore

\* Pointer arithmetic: adding to the count and to the tail keeps head + num =
\* tail, and so does moving one unit from the count to the head.
LEMMA PtrAdd ==
    ASSUME NEW h \in Entry, NEW n \in Nat, NEW k \in 0 .. 2, n + k <= NUM_ENTRIES
    PROVE  Ptr(h + (n + k)) = Ptr(Ptr(h + n) + k)
BY FreeListConstants DEF Entry, Ptr, Trunc

LEMMA PtrMove ==
    ASSUME NEW h \in Entry, NEW n \in 1 .. NUM_ENTRIES
    PROVE  Ptr(Ptr(h + 1) + (n - 1)) = Ptr(h + n)
BY FreeListConstants DEF Entry, Ptr, Trunc

\* At most two registers are written, and what is written is a register
\* (free_list.sv, write_enable_0 and write_enable_1).
LEMMA WritesType ==
    ASSUME NEW f0 \in Port, NEW f1 \in Port
    PROVE  /\ Writes(f0, f1) \in 0 .. 2
           /\ Writes(f0, f1) >= 1 => FirstWrite(f0, f1) \in Phys
           /\ Writes(f0, f1) = 2 => f1 \in Phys
BY FreeListConstants DEF Writes, WriteEnable, FirstWrite, Port, NoReg, Phys

\* The ring and its tail keep their types when freed registers are written.
LEMMA WriteFreedType ==
    ASSUME TypeOK, NEW f0 \in Port, NEW f1 \in Port, WriteFreed(f0, f1)
    PROVE  tail' \in Entry /\ register_table' \in [Entry -> Phys]
<1>1. Writes(f0, f1) \in 0 .. 2
    BY WritesType
<1>2. tail' \in Entry
    BY <1>1, FreeListConstants DEF WriteFreed, TypeOK, Entry, Ptr, Trunc
<1>3. ASSUME NEW i \in Entry PROVE register_table'[i] \in Phys
    BY WritesType DEF WriteFreed, TypeOK
<1>4. register_table' = [i \in Entry |-> register_table'[i]]
    BY DEF WriteFreed
<1> QED BY <1>2, <1>3, <1>4

\* Reset establishes the invariant.
LEMMA InitInv == Init => Inv
<1> SUFFICES ASSUME Init PROVE Inv
    OBVIOUS
<1>1. TypeOK
    BY FreeListConstants DEF Init, TypeOK, Entry, Ckpt, Phys
<1>2. VersionsAgree
    BY FreeListConstants DEF Init, VersionsAgree, Ver, Trunc
<1>3. PointersAgree
    BY FreeListConstants DEF Init, PointersAgree, Ptr, Trunc
<1>4. OlderHasMore
    BY FreeListConstants DEF Init, OlderHasMore, Ckpt
<1> QED BY <1>1, <1>2, <1>3, <1>4 DEF Inv

\* A roll back leaves one live version, the whole ring.
LEMMA RollBackInv == Inv /\ RollBack => Inv'
<1> SUFFICES ASSUME Inv, RollBack PROVE Inv'
    OBVIOUS
<1> USE FreeListConstants DEF Inv
<1>1. TypeOK'
    BY DEF RollBack, TypeOK, Entry, Ckpt
<1>2. VersionsAgree'
    BY DEF RollBack, VersionsAgree, Ver, Trunc
<1>3. ASSUME NEW v \in Ckpt, Live(v)' PROVE v = 0
    BY <1>3 DEF RollBack, Live, Age, Dist, Trunc, Ckpt
<1>4. /\ 0 \in Ckpt
      /\ num_registers'[0] = NUM_ENTRIES
      /\ head'[0] = tail
      /\ tail' = tail
    BY DEF RollBack, TypeOK, Ckpt
<1>5. PointersAgree'
  <2> SUFFICES ASSUME NEW v \in Ckpt, Live(v)'
               PROVE  /\ num_registers'[v] <= NUM_ENTRIES
                      /\ Ptr(head'[v] + num_registers'[v]) = tail'
      BY DEF PointersAgree, Ptr
  <2> QED BY <1>3, <1>4 DEF TypeOK, Entry, Ptr, Trunc
<1>6. OlderHasMore'
  <2> SUFFICES ASSUME NEW u \in Ckpt, NEW v \in Ckpt, Live(v)', Age(u)' <= Age(v)'
               PROVE  num_registers'[u] >= num_registers'[v]
      BY DEF OlderHasMore
  <2>1. v = 0 /\ u = 0
      BY <1>3 DEF RollBack, Age, Dist, Trunc, Ckpt
  <2> QED BY <2>1, <1>4
<1> QED BY <1>1, <1>2, <1>5, <1>6

\* A recovery shortens the list of live versions and adds the freed registers
\* to each of them.
LEMMA RecoverInv ==
    ASSUME Inv, NEW f0 \in Port, NEW f1 \in Port, NEW c \in Ckpt,
           Writes(f0, f1) <= Returnable, Age(c) < num_checkpoints,
           Recover(f0, f1, c, 0)
    PROVE  Inv'
<1> DEFINE w == Writes(f0, f1)
<1> USE FreeListConstants DEF Inv
<1>1. w \in 0 .. 2
    BY WritesType
<1>2. tail' \in Entry /\ register_table' \in [Entry -> Phys]
    BY WriteFreedType DEF Recover
<1>3. /\ version_tail' = version_tail
      /\ version_head' = c
      /\ num_checkpoints' = Age(c)
      /\ head' = head
      /\ tail' = Ptr(tail + w)
    BY DEF Recover, WriteFreed, Ver, Trunc, TypeOK, Ckpt, Age
<1>4. \A v \in Ckpt : Age(v)' = Age(v) /\ Age(v) \in 0 .. NUM_CHECKPOINTS - 1
    BY <1>3 DEF Age, Dist, Trunc, TypeOK, Ckpt
<1>5. \A v \in Ckpt : Live(v)' => Live(v)
    BY <1>3, <1>4 DEF Live, TypeOK
<1>6. Live(version_tail) /\ Age(version_tail) = 0
    BY DEF Live, Age, Dist, Trunc, TypeOK, Ckpt
<1>7. \A v \in Ckpt : Live(v) => num_registers[v] + w <= NUM_ENTRIES
    BY <1>1, <1>4, <1>6 DEF OlderHasMore, Returnable, TypeOK
<1>8. \A v \in Ckpt : Live(v) => num_registers'[v] = num_registers[v] + w
    BY <1>1, <1>7 DEF Recover, Num, Trunc, TypeOK
<1>9. TypeOK'
  <2>1. num_registers' \in [Ckpt -> 0 .. 2 * NUM_ENTRIES - 1]
    <3>1. ASSUME NEW v \in Ckpt
          PROVE  Num(num_registers[v] + w) \in 0 .. 2 * NUM_ENTRIES - 1
        BY <1>1 DEF Num, Trunc, TypeOK
    <3> QED BY <3>1 DEF Recover
  <2>2. num_checkpoints' \in 0 .. 2 * NUM_CHECKPOINTS - 1
    BY <1>3, <1>4
  <2> QED BY <1>2, <1>3, <2>1, <2>2 DEF TypeOK
<1>10. VersionsAgree'
    BY <1>3 DEF VersionsAgree, Ver, Age, Dist, Trunc, TypeOK, Ckpt
<1>11. PointersAgree'
  <2> SUFFICES ASSUME NEW v \in Ckpt, Live(v)'
               PROVE  /\ num_registers'[v] <= NUM_ENTRIES
                      /\ Ptr(head'[v] + num_registers'[v]) = tail'
      BY DEF PointersAgree, Ptr
  <2>1. Live(v)
      BY <1>5
  <2>2. Ptr(head[v] + num_registers[v]) = tail
      BY <2>1 DEF PointersAgree
  <2>3. num_registers'[v] = num_registers[v] + w /\ num_registers[v] + w <= NUM_ENTRIES
      BY <2>1, <1>7, <1>8
  <2>4. head[v] \in Entry /\ num_registers[v] \in Nat
      BY DEF TypeOK
  <2>5. Ptr(head[v] + (num_registers[v] + w)) = Ptr(tail + w)
      BY <1>1, <2>2, <2>3, <2>4, PtrAdd
  <2> QED BY <1>3, <2>3, <2>5
<1>12. OlderHasMore'
  <2> SUFFICES ASSUME NEW u \in Ckpt, NEW v \in Ckpt, Live(v)', Age(u)' <= Age(v)'
               PROVE  num_registers'[u] >= num_registers'[v]
      BY DEF OlderHasMore
  <2>1. Live(v) /\ Age(u) <= Age(v) /\ Live(u)
      BY <1>4, <1>5 DEF Live, TypeOK
  <2>2. num_registers[u] >= num_registers[v]
      BY <2>1 DEF OlderHasMore
  <2> QED BY <1>1, <1>8, <2>1, <2>2 DEF TypeOK
<1> QED BY <1>9, <1>10, <1>11, <1>12

\* A cycle without recovery: the current version may give a register out,
\* a checkpoint copies it to the next version, and a deletion drops the oldest.
LEMMA AdvanceInv ==
    ASSUME Inv, NEW f0 \in Port, NEW f1 \in Port, NEW read \in BOOLEAN,
           NEW do \in BOOLEAN, NEW delete \in Deletes,
           Writes(f0, f1) <= Returnable, Advance(read, f0, f1, do, delete)
    PROVE  Inv'
<1> DEFINE w == Writes(f0, f1)
           rd == IF ReadEnable(read, f0, f1) THEN 1 ELSE 0
           ck == IF CheckpointEnable(do) THEN 1 ELSE 0
           nxt == Ver(version_head + 1)
           fresh(v) == v = version_head \/ (CheckpointEnable(do) /\ v = nxt)
           old(v) == IF fresh(v) THEN version_head ELSE v
           out(v) == IF fresh(v) THEN rd ELSE 0
<1> USE FreeListConstants DEF Inv
<1>1. w \in 0 .. 2 /\ rd \in {0, 1} /\ ck \in {0, 1} /\ delete \in {0, 1}
    BY WritesType DEF Deletes
<1>2. tail' \in Entry /\ register_table' \in [Entry -> Phys]
    BY WriteFreedType DEF Advance
<1>3. /\ version_tail' = Ver(version_tail + delete)
      /\ version_head' = Ver(version_head + ck)
      /\ num_checkpoints' = num_checkpoints + ck - delete
      /\ tail' = Ptr(tail + w)
      /\ num_checkpoints' \in 0 .. NUM_CHECKPOINTS - 1
    BY <1>1 DEF Advance, WriteFreed, Ver, Trunc, TypeOK, Ckpt, VersionsAgree,
                CheckpointEnable, Deletes
<1>4. VersionsAgree' /\ version_head' \in Ckpt /\ version_tail' \in Ckpt
    BY <1>1, <1>3 DEF VersionsAgree, Ver, Trunc, TypeOK, Ckpt
<1>5. \A v \in Ckpt : /\ head'[v] = Ptr(head[old(v)] + out(v))
                      /\ num_registers'[v] = Num(num_registers[old(v)] + w - out(v))
  <2> SUFFICES ASSUME NEW v \in Ckpt
               PROVE  /\ head'[v] = Ptr(head[old(v)] + out(v))
                      /\ num_registers'[v] = Num(num_registers[old(v)] + w - out(v))
      OBVIOUS
  <2>1. CASE fresh(v)
      BY <2>1 DEF Advance
  <2>2. CASE ~fresh(v)
    <3>1. /\ head'[v] = head[v]
          /\ num_registers'[v] = Num(num_registers[v] + w)
        BY <2>2 DEF Advance
    <3>2. /\ Ptr(head[v] + 0) = head[v]
          /\ num_registers[v] + w - 0 = num_registers[v] + w
        BY <1>1 DEF TypeOK, Ptr, Trunc, Entry
    <3> QED BY <2>2, <3>1, <3>2
  <2> QED BY <2>1, <2>2
<1>6. \A v \in Ckpt : old(v) \in Ckpt
    BY DEF TypeOK
<1>7. Age(version_tail) = 0 /\ Age(version_head) = num_checkpoints
    BY DEF Age, Dist, Trunc, TypeOK, Ckpt, VersionsAgree, Ver
<1>8. Live(version_tail) /\ Live(version_head)
    BY <1>7 DEF Live, TypeOK
\* Seen from the new oldest version, a live version is a copy of the current
\* one or one that was live before.
<1>9. ASSUME NEW v \in Ckpt, Live(v)'
      PROVE  Live(old(v)) /\ Age(old(v)) <= num_checkpoints
    BY <1>1, <1>3, <1>7, <1>9
       DEF Live, Age, Dist, Ver, Trunc, TypeOK, Ckpt, VersionsAgree, CheckpointEnable
<1>10. \A v \in Ckpt : Live(v) => num_registers[v] + w <= NUM_ENTRIES
    BY <1>1, <1>7 DEF OlderHasMore, Returnable, TypeOK, Live, Age, Dist, Trunc, Ckpt
<1>11. rd = 1 => num_registers[version_head] + w >= 1
    BY <1>1 DEF ReadEnable, Empty, TypeOK
<1>12. ASSUME NEW v \in Ckpt, Live(v)'
       PROVE  /\ num_registers'[v] = num_registers[old(v)] + w - out(v)
              /\ num_registers'[v] \in 0 .. NUM_ENTRIES
    BY <1>1, <1>5, <1>6, <1>9, <1>10, <1>11, <1>12 DEF Num, Trunc, TypeOK
<1>13. TypeOK'
  <2>1. ASSUME NEW v \in Ckpt PROVE Num(num_registers[old(v)] + w - out(v)) \in 0 .. 2 * NUM_ENTRIES - 1
    <3>1. num_registers[old(v)] \in 0 .. 2 * NUM_ENTRIES - 1
        BY <1>6 DEF TypeOK
    <3>2. out(v) \in {0, 1}
        BY <1>1
    <3> QED BY <3>1, <3>2, <1>1 DEF Num, Trunc
  <2>2. num_registers' \in [Ckpt -> 0 .. 2 * NUM_ENTRIES - 1]
    <3>1. num_registers' = [v \in Ckpt |-> num_registers'[v]]
        BY DEF Advance
    <3> QED BY <2>1, <3>1, <1>5
  <2>3. ASSUME NEW v \in Ckpt PROVE Ptr(head[old(v)] + out(v)) \in Entry
      BY <1>1, <1>6 DEF Ptr, Trunc, TypeOK, Entry
  <2>4. head' \in [Ckpt -> Entry]
    <3>1. head' = [v \in Ckpt |-> head'[v]]
        BY DEF Advance
    <3> QED BY <2>3, <3>1, <1>5
  <2> QED BY <1>2, <1>3, <1>4, <2>2, <2>4 DEF TypeOK
<1>14. PointersAgree'
  <2> SUFFICES ASSUME NEW v \in Ckpt, Live(v)'
               PROVE  /\ num_registers'[v] <= NUM_ENTRIES
                      /\ Ptr(head'[v] + num_registers'[v]) = tail'
      BY DEF PointersAgree, Ptr
  <2> DEFINE h == head[old(v)]
             n == num_registers[old(v)]
  <2>1. Ptr(h + n) = tail /\ n + w <= NUM_ENTRIES
      BY <1>6, <1>9, <1>10 DEF PointersAgree
  <2>2. h \in Entry /\ n \in Nat
      BY <1>6 DEF TypeOK
  <2>3. Ptr(h + (n + w)) = tail'
      BY <2>1, <2>2, <1>1, <1>3, PtrAdd
  <2>4. CASE out(v) = 0
      BY <2>2, <2>3, <2>4, <1>1, <1>5, <1>12 DEF Ptr, Trunc, Entry
  <2>5. CASE out(v) = 1
    <3>1. n + w \in 1 .. NUM_ENTRIES
        BY <2>1, <2>2, <2>5, <1>1, <1>11
    <3>2. Ptr(Ptr(h + 1) + ((n + w) - 1)) = Ptr(h + (n + w))
      <4> HIDE DEF h, n, w
      <4> QED BY <3>1, <2>2, PtrMove
    <3>3. head'[v] = Ptr(h + 1) /\ num_registers'[v] = (n + w) - 1
      <4>1. head'[v] = Ptr(h + out(v)) /\ num_registers'[v] = n + w - out(v)
          BY <1>5, <1>12
      <4>2. n \in Int /\ w \in Int /\ h \in Int
          BY <2>2, <1>1 DEF Entry
      <4> HIDE DEF out, h, n, w
      <4> QED BY <4>1, <4>2, <2>5
    <3>4. num_registers'[v] <= NUM_ENTRIES
        BY <1>12
    <3> QED BY <2>3, <3>2, <3>3, <3>4
  <2> QED BY <2>4, <2>5, <1>1, <1>12
<1>15. OlderHasMore'
  <2> SUFFICES ASSUME NEW u \in Ckpt, NEW v \in Ckpt, Live(v)', Age(u)' <= Age(v)'
               PROVE  num_registers'[u] >= num_registers'[v]
      BY DEF OlderHasMore
  <2>1. Live(u)'
    <3>1. Age(u)' \in Int /\ Age(v)' \in Int /\ num_checkpoints' \in Int
        BY <1>3, <1>4 DEF Age, Dist, Trunc, Ckpt
    <3>2. Age(v)' <= num_checkpoints' /\ Age(u)' <= Age(v)'
        BY DEF Live
    <3>3. Age(u)' <= num_checkpoints'
      <4> HIDE DEF Age
      <4> QED BY <3>1, <3>2
    <3> QED BY <3>3 DEF Live
  <2>2. fresh(u) => fresh(v)
      BY <1>1, <1>3, <1>7 DEF Live, Age, Dist, Ver, Trunc, TypeOK, Ckpt,
                               VersionsAgree, CheckpointEnable
  <2>3. Age(old(u)) <= Age(old(v))
      BY <2>1, <2>2, <1>1, <1>3, <1>7 DEF Live, Age, Dist, Ver, Trunc, TypeOK, Ckpt,
                               VersionsAgree, CheckpointEnable
  <2>4. num_registers[old(u)] >= num_registers[old(v)]
      BY <2>3, <1>6, <1>9 DEF OlderHasMore
  <2>5. out(u) <= out(v)
      BY <2>2, <1>1
  <2> QED BY <2>1, <2>4, <2>5, <1>1, <1>6, <1>12 DEF TypeOK
<1> QED BY <1>4, <1>13, <1>14, <1>15

\* A cycle that changes nothing keeps the invariant.
LEMMA StutterInv == Inv /\ UNCHANGED vars => Inv'
BY DEF Inv, vars, TypeOK, VersionsAgree, PointersAgree, OlderHasMore, Live, Age, Ptr, Ver, Num

\* The invariant holds in every reachable state of the free list.
THEOREM FreeListInvariant == Spec => []Inv
<1>1. Inv /\ [Next]_vars => Inv'
  <2> SUFFICES ASSUME Inv, [Next]_vars PROVE Inv'
      OBVIOUS
  <2>1. CASE RollBack
      BY <2>1, RollBackInv
  <2>2. CASE \E f0, f1 \in Port : Writes(f0, f1) <= Returnable
               /\ \E c \in Ckpt : Age(c) < num_checkpoints /\ Recover(f0, f1, c, 0)
      BY <2>2, RecoverInv
  <2>3. CASE \E f0, f1 \in Port : Writes(f0, f1) <= Returnable
               /\ \E read, do \in BOOLEAN, delete \in Deletes :
                      Advance(read, f0, f1, do, delete)
      BY <2>3, AdvanceInv
  <2>4. CASE UNCHANGED vars
      BY <2>4, StutterInv
  <2> QED BY <2>1, <2>2, <2>3, <2>4 DEF Next
<1> QED BY InitInv, <1>1, PTL DEF Spec

\* free_list.sv keeps head, tail and num_registers as three registers that are
\* only ever updated side by side: in every live version they describe the
\* same segment of the ring.
THEOREM FreeListPointers == Spec => []PointersAgree
BY FreeListInvariant, PTL DEF Inv

\* The counter and the two pointers to versions, which a recovery, a checkpoint
\* and a deletion update separately, agree, and one version is always current.
THEOREM FreeListVersions == Spec => []VersionsAgree
BY FreeListInvariant, PTL DEF Inv

\* Recovering an older checkpoint never takes registers away.
THEOREM FreeListOlderHasMore == Spec => []OlderHasMore
BY FreeListInvariant, PTL DEF Inv
=============================================================================
