--------------------------- MODULE BackendProofs ----------------------------
(***************************************************************************)
(* Proofs about the back end, for every size of the graduation list, every *)
(* number of checkpoints and registers, every set of instruction kinds and *)
(* exceptions.  The first part: the two counts of checkpoints agree, every *)
(* register keeps its type, the stages between register read and           *)
(* write-back own their graduation list entries, the exception record      *)
(* names the oldest failing instruction, a CSR instruction commits alone,  *)
(* and the back end keeps the protocol of the graduation list.             *)
(*                                                                         *)
(* The second part: no physical register is lost or held twice, the map    *)
(* and every checkpoint are those of in-order execution, the free list is  *)
(* full enough whenever the graduation list is not, and the back end keeps *)
(* the protocol of the free list.                                          *)
(*                                                                         *)
(* The third part: operands are exact.  An instruction reads the register  *)
(* of its last writer and is ready once that one has written it, so no     *)
(* instruction waits for itself.                                           *)
(***************************************************************************)
EXTENDS Backend, FiniteSetTheorems, WellFoundedInduction, TLAPS

N == NUM_ENTRIES

\* The pointer arithmetic of the three structures is the same.
LEMMA SameWrap ==
    ASSUME NEW x, NEW y, NEW m
    PROVE  /\ FL!Trunc(x, m) = Trunc(x, m) /\ FL!Dist(x, y, m) = Dist(x, y, m)
           /\ RT!Trunc(x, m) = Trunc(x, m) /\ RT!Dist(x, y, m) = Dist(x, y, m)
           /\ GL!Trunc(x, m) = Trunc(x, m) /\ GL!Dist(x, y, m) = Dist(x, y, m)
BY Zenon DEF FL!Trunc, FL!Dist, RT!Trunc, RT!Dist, GL!Trunc, GL!Dist, Trunc, Dist
-----------------------------------------------------------------------------
(* The inputs of a clock cycle.                                              *)

Inputs(busy, rrex, ok, brex, fin, memex, done) ==
    /\ busy \in BOOLEAN /\ rrex \in BOOLEAN /\ ok \in BOOLEAN /\ brex \in BOOLEAN
    /\ done \in BOOLEAN
    /\ rrex => rr # None /\ ~stall_rr(busy)
    /\ done => CommitsStore /\ memex # gl_head /\ \E u \in units : u.index = gl_head
    /\ memex # NoIndex => ~(xq \/ cq) /\ \E u \in units : u.index = memex
    /\ fin \subseteq units
    /\ \A u \in fin : u.kind = "LONG" \/ u.index = memex
    /\ \A u \in units : u.index = memex => u \in fin
    /\ ~ok \/ brex => Executes(busy) /\ exe.kind = "BR" /\ ~(xq \/ cq)

Clock(iq, busy, rrex, ok, brex, fin, memex, done, csrx) ==
    /\ iq \in QueueHead(busy)
    /\ Inputs(busy, rrex, ok, brex, fin, memex, done)
    /\ Cycle(iq, busy, rrex, ok, brex, fin, memex, done, csrx)

\* Every step is a clock cycle with such inputs.
LEMMA NextIsClock ==
    Next => \E iq, busy, rrex, ok, brex, fin, memex, done, csrx :
               Clock(iq, busy, rrex, ok, brex, fin, memex, done, csrx)
<1> SUFFICES ASSUME Next
             PROVE  \E iq, busy, rrex, ok, brex, fin, memex, done, csrx :
                       Clock(iq, busy, rrex, ok, brex, fin, memex, done, csrx)
    OBVIOUS
<1>1. PICK busy \in MayBeBusy : Step(busy)
    BY DEF Next
<1>2. PICK iq \in QueueHead(busy),
           rrex \in Choice(rr # None /\ ~stall_rr(busy) /\ "frontend" \in Exceptions),
           done \in Choice(CommitsStore /\ \E u \in units : u.index = gl_head),
           csrx \in Choice(CommitsCsr /\ "csr" \in Exceptions),
           memex \in {NoIndex} \cup MayFail,
           fin \in SUBSET (IF xq \/ cq THEN {} ELSE InUnits("LONG")) :
             /\ \A u \in fin : u.index # memex
             /\ LET branch == Executes(busy) /\ exe.kind = "BR" /\ ~(xq \/ cq)
                    ended == fin \cup {u \in units : u.index = memex}
                IN \E wrong \in Choice(branch), brex \in Choice(branch /\ "branch" \in Exceptions) :
                       Cycle(iq, busy, rrex, ~wrong, brex, ended, memex,
                             done /\ memex # gl_head, csrx)
    BY <1>1 DEF Step
<1> DEFINE branch == Executes(busy) /\ exe.kind = "BR" /\ ~(xq \/ cq)
           ended == fin \cup {u \in units : u.index = memex}
           accepted == done /\ memex # gl_head
<1>3. PICK wrong \in Choice(branch), brex \in Choice(branch /\ "branch" \in Exceptions) :
         Cycle(iq, busy, rrex, ~wrong, brex, ended, memex, accepted, csrx)
    BY <1>2, Zenon
<1>4. /\ busy \in BOOLEAN /\ rrex \in BOOLEAN /\ done \in BOOLEAN
      /\ wrong \in BOOLEAN /\ brex \in BOOLEAN
      /\ rrex => rr # None /\ ~stall_rr(busy)
      /\ done => CommitsStore /\ \E u \in units : u.index = gl_head
      /\ wrong \/ brex => branch
    BY DEF Choice, MayBeBusy
<1>5. memex # NoIndex => ~(xq \/ cq) /\ \E u \in units : u.index = memex
    BY DEF MayFail
<1>6. /\ ended \subseteq units
      /\ \A u \in ended : u.kind = "LONG" \/ u.index = memex
      /\ \A u \in units : u.index = memex => u \in ended
    BY DEF InUnits
<1>7. Inputs(busy, rrex, ~wrong, brex, ended, memex, accepted)
    BY <1>4, <1>5, <1>6 DEF Inputs
<1>8. Clock(iq, busy, rrex, ~wrong, brex, ended, memex, accepted, csrx)
    BY <1>2, <1>3, <1>7 DEF Clock
<1> QED BY <1>8
-----------------------------------------------------------------------------
LEMMA VersionsKept ==
    ASSUME VersionsTogether, Next PROVE VersionsTogether'
<1>1. PICK iq, busy, rrex, ok, brex, fin, memex, done, csrx :
         Clock(iq, busy, rrex, ok, brex, fin, memex, done, csrx)
    BY NextIsClock
<1>2. \E f0, f1, k0, k1 : Rename(iq, busy, f0, f1, k0, k1)
    BY <1>1 DEF Clock, Cycle
<1>3. PICK f0, f1, k0, k1 : Rename(iq, busy, f0, f1, k0, k1)
    BY <1>2
<1>4. fl_vh = rt_vh /\ fl_vt = rt_vt /\ fl_ck = rt_ck
    BY DEF VersionsTogether
<1>5. fl_vh' = rt_vh' /\ fl_vt' = rt_vt' /\ fl_ck' = rt_ck'
  <2>1. CASE xq
      BY <1>3, <2>1 DEF Rename, FL!RollBack, RT!RecoverCommit
  <2>2. CASE ~xq /\ do_recover
    <3> DEFINE d == delete_checkpoint
               c == missed.chkp
    <3>1. FL!Recover(f0, f1, c, d) /\ RT!Recover(k0, k1, Broadcast, c, d)
        BY <1>3, <2>2 DEF Rename
    <3> HIDE DEF c, d
    <3>2. /\ fl_vh' = c /\ fl_vt' = Trunc(fl_vt + d, NUM_CHECKPOINTS)
          /\ fl_ck' = Dist(fl_vt, c, NUM_CHECKPOINTS)
        BY <3>1, SameWrap, Zenon DEF FL!Recover, FL!Ver
    <3>3. /\ rt_vh' = c /\ rt_vt' = Trunc(rt_vt + d, NUM_CHECKPOINTS)
          /\ rt_ck' = Dist(rt_vt, c, NUM_CHECKPOINTS)
        BY <3>1, SameWrap, Zenon DEF RT!Recover, RT!Ver
    <3> QED BY <1>4, <3>2, <3>3
  <2>3. CASE ~xq /\ ~do_recover
    <3> DEFINE d == delete_checkpoint
               ckpt == do_checkpoint(iq, busy)
               takes(ck) == ckpt /\ ck < NUM_CHECKPOINTS - 1
    <3>1. PICK read, write : /\ FL!Advance(read, f0, f1, ckpt, d)
                             /\ RT!Advance(write, k0, k1, Broadcast, ckpt, d)
        BY <1>3, <2>3 DEF Rename
    <3> HIDE DEF ckpt, d
    <3>2. /\ fl_vh' = IF takes(fl_ck) THEN Trunc(fl_vh + 1, NUM_CHECKPOINTS) ELSE fl_vh
          /\ fl_vt' = Trunc(fl_vt + d, NUM_CHECKPOINTS)
          /\ fl_ck' = Trunc(fl_ck + (IF takes(fl_ck) THEN 1 ELSE 0) - d, 2 * NUM_CHECKPOINTS)
        BY <3>1, SameWrap, Zenon DEF FL!Advance, FL!Ver, FL!CheckpointEnable
    <3>3. /\ rt_vh' = IF takes(rt_ck) THEN Trunc(rt_vh + 1, NUM_CHECKPOINTS) ELSE rt_vh
          /\ rt_vt' = Trunc(rt_vt + d, NUM_CHECKPOINTS)
          /\ rt_ck' = Trunc(rt_ck + (IF takes(rt_ck) THEN 1 ELSE 0) - d, 2 * NUM_CHECKPOINTS)
        BY <3>1, SameWrap, Zenon DEF RT!Advance, RT!Ver, RT!CheckpointEnable
    <3> QED BY <1>4, <3>2, <3>3
  <2> QED BY <2>1, <2>2, <2>3
<1> QED BY <1>5 DEF VersionsTogether

\* The free list and the rename table take, recover, delete and drop checkpoints
\* on the same conditions, so their separate counts never differ.
THEOREM CheckpointsTogether == Spec => []VersionsTogether
<1>1. Init => VersionsTogether
    BY DEF Init, FL!Init, RT!Init, VersionsTogether
<1>2. VersionsTogether /\ [Next]_vars => VersionsTogether'
  <2> SUFFICES ASSUME VersionsTogether, [Next]_vars PROVE VersionsTogether'
      OBVIOUS
  <2>1. CASE UNCHANGED vars
      BY <2>1 DEF vars, flVars, rtVars, VersionsTogether
  <2> QED BY <2>1, VersionsKept
<1> QED BY <1>1, <1>2, PTL DEF Spec
-----------------------------------------------------------------------------
(* The invariant of the pipeline.  TypeOK is not inductive by itself: what a *)
(* commit frees is a register only because the entry it retires was written, *)
(* and an index is one only because a stage owns its entry.                  *)

Data == [kind : AllKinds, rd : Reg, prd : FL!Phys, old : FL!Phys]
GLEntry == [data : Data \cup {NoIndex}, ex : BOOLEAN]

Types ==
    /\ TypeOK /\ VersionsTogether
    /\ gl_valid \in [Index -> BOOLEAN]
    /\ gl_entries \in [Index -> GLEntry]
    /\ gl_ex \in [valid : BOOLEAN, index : Index]

Age(i) == Dist(gl_head, i, N)

\* The stages that hold an instruction between register read and write-back.
Issued == units \cup ({exe} \ {None})

\* p is the instruction of its entry, which has neither finished (but for a
\* store, which does so when it enters) nor failed.
Owns(p) ==
    /\ p.index \in Index /\ Live(p.index)
    /\ gl_entries[p.index].data.rd = p.rd
    /\ gl_entries[p.index].data.prd = p.prd
    /\ gl_valid[p.index] => gl_entries[p.index].data.kind = "STORE"
    /\ ~gl_entries[p.index].ex

Occupied ==
    /\ gl_tail = Trunc(gl_head + gl_num, N)
    /\ \A i \in Index : Live(i) => gl_entries[i].data \in Data

Owners ==
    /\ \A p \in wb \cup Issued : Owns(p)
    /\ \A u \in Issued : gl_entries[u.index].data.kind = u.kind
    /\ \A w \in wb : ~w.ok => gl_entries[w.index].data.kind = "BR"

OneOwner ==
    /\ \A u \in units, w \in wb : u.index # w.index
    /\ \A u, v \in units : u.index = v.index => u = v
    /\ \A w, x \in wb : w.index = x.index => w = x
    /\ exe # None => \A p \in units \cup wb : p.index # exe.index

\* The instruction in EXE is the youngest of the graduation list, and a branch
\* that was mispredicted the youngest but for it.
InOrderIssue ==
    /\ exe # None => Age(exe.index) = gl_num - 1
    /\ \A w \in wb : ~w.ok => \A p \in wb \cup units : Age(p.index) <= Age(w.index)

Pipe == Occupied /\ Owners /\ OneOwner /\ InOrderIssue

IInv == Types /\ (~xq => Pipe)
-----------------------------------------------------------------------------
(* Types.                                                                    *)

\* What goes through a stage keeps its registers and its index.
LEMMA SnoopKeeps ==
    ASSUME NEW i \in Instr \cup {None}
    PROVE  /\ Snoop(i) \in Instr \cup {None} /\ (Snoop(i) = None <=> i = None)
           /\ i # None => /\ Snoop(i).index = i.index /\ Snoop(i).rd = i.rd
                          /\ Snoop(i).prd = i.prd /\ Snoop(i).kind = i.kind
           /\ i # None => LET j == [Snoop(i) EXCEPT !.index = gl_tail] IN
                          /\ gl_tail \in Index => j \in Instr
                          /\ j # None
                          /\ j.index = gl_tail /\ j.rd = i.rd
                          /\ j.prd = i.prd /\ j.kind = i.kind
<1>1. CASE i = None
    BY <1>1 DEF Snoop
<1>2. CASE i # None
  <2> DEFINE b == i.rdy \/ (i.rs # 0 /\ \E c \in Broadcast : c[2] = i.prs)
             s == [i EXCEPT !.rdy = b]
             j == [s EXCEPT !.index = gl_tail]
  <2>1. Snoop(i) = s
      BY <1>2 DEF Snoop
  <2>2. i \in Instr /\ b \in BOOLEAN
      BY <1>2
  <2> HIDE DEF b
  <2>3. /\ s \in Instr /\ s.index = i.index /\ s.rd = i.rd /\ s.prd = i.prd /\ s.kind = i.kind
      BY <2>2 DEF Instr
  <2>4. \A k \in Instr : k # None
      BY DEF Instr, None, AllKinds
  <2>5. gl_tail \in Index => j \in Instr
      BY <2>3 DEF Instr
  <2>6. j.index = gl_tail /\ j.rd = s.rd /\ j.prd = s.prd /\ j.kind = s.kind
      BY <2>3 DEF Instr
  <2>7. j # None
      BY <2>3, <2>6 DEF Instr, None, AllKinds
  <2> QED BY <1>2, <2>1, <2>3, <2>4, <2>5, <2>6, <2>7
<1> QED BY <1>1, <1>2

\* The constants.
LEMMA Sizes ==
    /\ N \in Nat /\ N >= 3 /\ NUM_CHECKPOINTS \in Nat /\ NUM_CHECKPOINTS >= 2
    /\ Index = 0 .. N - 1 /\ FL!Entry = 0 .. N - 1 /\ FL!Ckpt = 0 .. NUM_CHECKPOINTS - 1
    /\ RT!Ckpt = FL!Ckpt /\ RT!Isa = Reg /\ GL!Index = Index
    /\ Reg = 0 .. NUM_ISA_REGISTERS - 1 /\ 0 \in Reg
    /\ FL!Phys = 0 .. NUM_ISA_REGISTERS + N - 1 /\ 0 \in FL!Phys
    /\ NUM_ISA_REGISTERS \in Nat
BY BackendConstants
   DEF N, Index, FL!Entry, FL!Ckpt, RT!Ckpt, RT!Isa, GL!Index, Reg, FL!Phys

\* The free list under any inputs.
LEMMA FreeListTypes ==
    ASSUME FL!TypeOK, NEW f0 \in FL!Port, NEW f1 \in FL!Port, NEW delete \in {0, 1},
           NEW c \in FL!Ckpt, NEW read, NEW do,
           \/ FL!RollBack \/ FL!Recover(f0, f1, c, delete)
           \/ FL!Advance(read, f0, f1, do, delete)
    PROVE  FL!TypeOK'
<1>1. /\ fl_head \in [FL!Ckpt -> FL!Entry] /\ fl_tail \in FL!Entry
      /\ fl_num \in [FL!Ckpt -> 0 .. 2 * N - 1]
      /\ fl_ring \in [FL!Entry -> FL!Phys]
      /\ fl_vh \in FL!Ckpt /\ fl_vt \in FL!Ckpt
      /\ fl_ck \in 0 .. 2 * NUM_CHECKPOINTS - 1
    BY DEF FL!TypeOK, N
<1> DEFINE w == FL!Writes(f0, f1)
<1>2. /\ w \in 0 .. 2
      /\ w >= 1 => FL!FirstWrite(f0, f1) \in FL!Phys
      /\ w = 2 => f1 \in FL!Phys
    BY Sizes DEF FL!Writes, FL!WriteEnable, FL!FirstWrite, FL!Port, FL!NoReg
<1> HIDE DEF w
<1>3. ASSUME FL!WriteFreed(f0, f1)
      PROVE  fl_tail' \in FL!Entry /\ fl_ring' \in [FL!Entry -> FL!Phys]
  <2>1. /\ fl_tail' = Trunc(fl_tail + w, N)
        /\ fl_ring' = [i \in FL!Entry |->
               IF w >= 1 /\ i = fl_tail THEN FL!FirstWrite(f0, f1)
               ELSE IF w = 2 /\ i = FL!Ptr(fl_tail + 1) THEN f1
               ELSE fl_ring[i]]
      BY <1>3, SameWrap, Zenon DEF FL!WriteFreed, FL!Ptr, w, N
  <2>2. fl_tail' \in FL!Entry
      BY <1>1, <1>2, <2>1, Sizes DEF Trunc
  <2> QED BY <1>1, <1>2, <2>1, <2>2
<1>4. ASSUME NEW x \in -1 .. 2 * N + 1 PROVE Trunc(x, 2 * N) \in 0 .. 2 * N - 1
    BY Sizes DEF Trunc
<1>5. ASSUME NEW v \in FL!Ckpt, NEW n \in {0, 1}
      PROVE  Trunc(v + n, NUM_CHECKPOINTS) \in FL!Ckpt
    BY Sizes DEF Trunc
<1>6. CASE FL!RollBack
  <2>1. 0 \in FL!Ckpt /\ NUM_ENTRIES \in 0 .. 2 * N - 1 /\ 0 \in 0 .. 2 * NUM_CHECKPOINTS - 1
      BY Sizes DEF N
  <2> QED BY <1>1, <1>6, <2>1 DEF FL!RollBack, FL!TypeOK, N
<1>7. CASE FL!Recover(f0, f1, c, delete)
  <2>1. /\ FL!WriteFreed(f0, f1) /\ fl_head' = fl_head /\ fl_vh' = c
        /\ fl_num' = [v \in FL!Ckpt |-> Trunc(fl_num[v] + w, 2 * N)]
        /\ fl_vt' = Trunc(fl_vt + delete, NUM_CHECKPOINTS)
        /\ fl_ck' = Dist(fl_vt, c, NUM_CHECKPOINTS)
      BY <1>7, SameWrap, Zenon DEF FL!Recover, FL!Num, FL!Ver, w, N
  <2>2. fl_ck' \in 0 .. 2 * NUM_CHECKPOINTS - 1
      BY <1>1, <2>1, Sizes DEF Dist, Trunc
  <2>3. fl_num' \in [FL!Ckpt -> 0 .. 2 * N - 1]
    <3>1. ASSUME NEW v \in FL!Ckpt PROVE Trunc(fl_num[v] + w, 2 * N) \in 0 .. 2 * N - 1
      <4>1. fl_num[v] \in 0 .. 2 * N - 1
          BY <1>1
      <4>2. fl_num[v] + w \in -1 .. 2 * N + 1
          BY <4>1, <1>2, Sizes
      <4> QED BY <1>4, <4>2
    <3> QED BY <2>1, <3>1
  <2>4. fl_vt' \in FL!Ckpt
      BY <1>1, <1>5, <2>1
  <2> QED BY <1>1, <1>3, <2>1, <2>2, <2>3, <2>4 DEF FL!TypeOK, N
<1>8. CASE FL!Advance(read, f0, f1, do, delete)
  <2> DEFINE rd == IF FL!ReadEnable(read, f0, f1) THEN 1 ELSE 0
             ck == FL!CheckpointEnable(do)
             one == IF ck THEN 1 ELSE 0
             next == FL!Ver(fl_vh + 1)
             cur == {fl_vh} \cup (IF ck THEN {next} ELSE {})
  <2>1. /\ FL!WriteFreed(f0, f1)
        /\ fl_head' = [v \in FL!Ckpt |-> IF v \in cur THEN FL!Ptr(fl_head[fl_vh] + rd) ELSE fl_head[v]]
        /\ fl_num' = [v \in FL!Ckpt |-> IF v \in cur THEN FL!Num(fl_num[fl_vh] + w - rd)
                                        ELSE FL!Num(fl_num[v] + w)]
        /\ fl_vh' = IF ck THEN next ELSE fl_vh
        /\ fl_vt' = FL!Ver(fl_vt + delete)
        /\ fl_ck' = FL!Trunc(fl_ck + one - delete, 2 * NUM_CHECKPOINTS)
      BY <1>8 DEF FL!Advance, w
  <2>2. rd \in {0, 1} /\ one \in {0, 1}
      OBVIOUS
  <2>3. \A x : /\ FL!Ver(x) = Trunc(x, NUM_CHECKPOINTS) /\ FL!Ptr(x) = Trunc(x, N)
               /\ FL!Num(x) = Trunc(x, 2 * N)
               /\ FL!Trunc(x, 2 * NUM_CHECKPOINTS) = Trunc(x, 2 * NUM_CHECKPOINTS)
      BY SameWrap, Zenon DEF FL!Ver, FL!Ptr, FL!Num, N
  <2>4. next \in FL!Ckpt
      BY <1>1, <1>5, <2>3
  <2> HIDE DEF rd, ck, one, cur, next
  <2>5. fl_head' \in [FL!Ckpt -> FL!Entry]
    <3>1. fl_head[fl_vh] \in FL!Entry
        BY <1>1
    <3>2. Trunc(fl_head[fl_vh] + rd, N) \in FL!Entry
        BY <3>1, <2>2, Sizes DEF Trunc
    <3> QED BY <1>1, <2>1, <2>3, <3>2
  <2>6. fl_num' \in [FL!Ckpt -> 0 .. 2 * N - 1]
    <3>1. ASSUME NEW v \in FL!Ckpt
          PROVE  FL!Num(fl_num[v] + w) \in 0 .. 2 * N - 1 /\ FL!Num(fl_num[v] + w - rd) \in 0 .. 2 * N - 1
      <4>1. fl_num[v] \in 0 .. 2 * N - 1
          BY <1>1
      <4>2. fl_num[v] + w \in 0 .. 2 * N + 1
          BY <4>1, <1>2, Sizes
      <4>3. fl_num[v] + w - rd \in -1 .. 2 * N + 1
        <5>1. \A x \in 0 .. 2 * N - 1, y \in 0 .. 2, z \in {0, 1} : x + y - z \in -1 .. 2 * N + 1
            BY Sizes
        <5> QED BY <4>1, <1>2, <2>2, <5>1
      <4> QED BY <1>4, <2>3, <4>2, <4>3
    <3> QED BY <1>1, <2>1, <3>1
  <2>7. fl_ck' \in 0 .. 2 * NUM_CHECKPOINTS - 1
    <3>1. fl_ck + one - delete \in -1 .. 2 * NUM_CHECKPOINTS
        BY <1>1, <2>2, Sizes
    <3> QED BY <2>1, <2>3, <3>1, Sizes DEF Trunc
  <2>8. fl_vt' \in FL!Ckpt /\ fl_vh' \in FL!Ckpt
      BY <1>1, <1>5, <2>1, <2>3, <2>4
  <2> QED BY <1>3, <2>1, <2>5, <2>6, <2>7, <2>8 DEF FL!TypeOK, N
<1> QED BY <1>6, <1>7, <1>8
-----------------------------------------------------------------------------
(* Places in the graduation list, counted from its head.                     *)

LEMMA Places ==
    ASSUME NEW h \in Index
    PROVE  /\ \A i \in Index : /\ Dist(h, i, N) \in 0 .. N - 1
                              /\ Trunc(h + Dist(h, i, N), N) = i
           /\ \A n \in 0 .. N : Trunc(h + n, N) \in Index
           /\ \A n \in 0 .. N - 1 : Dist(h, Trunc(h + n, N), N) = n
           /\ \A i, j \in Index : Dist(h, i, N) = Dist(h, j, N) => i = j
<1>1. h \in 0 .. N - 1 /\ N \in Nat /\ Index = 0 .. N - 1
    BY Sizes
<1>2. \A i \in 0 .. N - 1 : Dist(h, i, N) \in 0 .. N - 1 /\ Trunc(h + Dist(h, i, N), N) = i
    BY <1>1 DEF Dist, Trunc
<1>3. \A n \in 0 .. N : Trunc(h + n, N) \in 0 .. N - 1
    BY <1>1 DEF Trunc
<1>4. \A n \in 0 .. N - 1 : Dist(h, Trunc(h + n, N), N) = n
    BY <1>1 DEF Dist, Trunc
<1> QED BY <1>1, <1>2, <1>3, <1>4

\* Places after the head has moved.
LEMMA PlacesShift ==
    ASSUME NEW h \in Index, NEW r \in 0 .. 2
    PROVE  /\ \A i \in Index : r <= Dist(h, i, N) =>
                  Dist(Trunc(h + r, N), i, N) = Dist(h, i, N) - r
           /\ \A i \in Index : r > Dist(h, i, N) =>
                  Dist(Trunc(h + r, N), i, N) = Dist(h, i, N) + N - r
           /\ \A n \in r .. N - 1 : Trunc(Trunc(h + r, N) + (n - r), N) = Trunc(h + n, N)
           /\ \A i \in Index : r <= Dist(h, i, N) /\ Dist(h, i, N) < N - 1 =>
                  Dist(Trunc(h + r, N), Trunc(i + 1, N), N) = Dist(h, i, N) + 1 - r
<1>1. h \in 0 .. N - 1 /\ N \in Nat /\ N >= 3 /\ Index = 0 .. N - 1
    BY Sizes
<1>2. \A i \in Index : r <= Dist(h, i, N) =>
          Dist(Trunc(h + r, N), i, N) = Dist(h, i, N) - r
    BY <1>1 DEF Dist, Trunc
<1>3. \A i \in Index : r > Dist(h, i, N) =>
          Dist(Trunc(h + r, N), i, N) = Dist(h, i, N) + N - r
    BY <1>1 DEF Dist, Trunc
<1>4. \A n \in r .. N - 1 : Trunc(Trunc(h + r, N) + (n - r), N) = Trunc(h + n, N)
    BY <1>1 DEF Trunc
<1>5. \A i \in Index : r <= Dist(h, i, N) /\ Dist(h, i, N) < N - 1 =>
          Dist(Trunc(h + r, N), Trunc(i + 1, N), N) = Dist(h, i, N) + 1 - r
    BY <1>1 DEF Dist, Trunc
<1> QED BY <1>2, <1>3, <1>4, <1>5, Zenon
-----------------------------------------------------------------------------
(* Commit.                                                                   *)

\* What retires was in the list and had finished.
LEMMA RetiresFinished ==
    ASSUME Types, NEW done, NEW memex
    PROVE  LET read == Retire(done, memex) IN
           /\ read \in 0 .. 2 /\ read <= gl_num
           /\ xq => read = 0
           /\ read >= 1 => Offered > 0 /\ gl_valid[gl_head]
           /\ read = 2 => gl_valid[Trunc(gl_head + 1, N)] /\ ~commit_2_blocked
           /\ read >= 1 => commit_xcpt(memex) \/ (CommitsStore => done)
<1>1. gl_num \in 0 .. N - 1 /\ gl_head \in Index /\ gl_valid \in [Index -> BOOLEAN]
    BY DEF Types, TypeOK, N
<1>2. GL!GlPtr(gl_head + 1) = Trunc(gl_head + 1, N)
    BY SameWrap, Zenon DEF GL!GlPtr, N
<1>3. /\ Offered \in 0 .. 2 /\ Offered <= gl_num
      /\ xq => Offered = 0
      /\ Offered > 0 => gl_valid[gl_head]
      /\ Offered = 2 => gl_valid[Trunc(gl_head + 1, N)]
    BY <1>1, <1>2, Sizes DEF Offered, GL!Offered
<1>4. commit_2_blocked \/ ~(Offered < 2)
    BY DEF commit_2_blocked
<1> DEFINE x == commit_xcpt(memex)
           s == CommitsStore
           b == commit_2_blocked
           read == Retire(done, memex)
<1>5. read = IF Offered = 0 THEN 0 ELSE IF x THEN 1 ELSE IF s /\ ~done THEN 0
             ELSE IF b THEN 1 ELSE 2
    BY DEF Retire
<1> HIDE DEF x, s, b, read
<1>6. /\ read \in 0 .. 2 /\ read <= gl_num /\ (xq => read = 0)
      /\ read >= 1 => Offered > 0 /\ gl_valid[gl_head]
      /\ read = 2 => Offered >= 2 /\ ~b
      /\ read >= 1 => x \/ (s => done)
    BY <1>1, <1>3, <1>4, <1>5 DEF b
<1> QED BY <1>3, <1>6 DEF x, s, b, read
\* An instruction that has not finished does not retire, but for the store at the
\* head, which leaves its unit in the same cycle.
LEMMA UnfinishedStay ==
    ASSUME Types, Pipe, NEW done, NEW memex, ~commit_xcpt(memex),
           done => \E u \in units : u.index = gl_head,
           NEW p \in wb \cup Issued, Age(p.index) < Retire(done, memex)
    PROVE  p.index = gl_head /\ CommitsStore /\ done /\ p \in units /\ p \notin wb /\ p # exe
<1> DEFINE read == Retire(done, memex)
           second == Trunc(gl_head + 1, N)
<1>1. /\ read \in 0 .. 2 /\ read <= gl_num
      /\ read >= 1 => Offered > 0 /\ gl_valid[gl_head] /\ (CommitsStore => done)
      /\ read = 2 => gl_valid[second] /\ ~commit_2_blocked
    BY RetiresFinished
<1>2. /\ p.index \in Index
      /\ gl_valid[p.index] => gl_entries[p.index].data.kind = "STORE"
      /\ ~gl_entries[p.index].ex
    BY DEF Pipe, Owners, Owns
<1>3. gl_head \in Index
    BY DEF Types, TypeOK
<1> HIDE DEF read, second
<1>4. Age(p.index) = 0 \/ (Age(p.index) = 1 /\ read = 2)
    BY <1>1, <1>2, <1>3, Places DEF Age, read
<1>5. Age(p.index) = 0 => p.index = gl_head
    BY <1>2, <1>3, Places, Sizes DEF Age, Trunc
<1>6. Age(p.index) # 1
  <2> SUFFICES ASSUME Age(p.index) = 1 PROVE FALSE
      OBVIOUS
  <2>1. p.index = second
      BY <1>2, <1>3, Places DEF Age, second
  <2>2. read = 2
      BY <1>4
  <2>3. Second.data.kind # "STORE"
      BY <1>1, <2>2 DEF commit_2_blocked
  <2>4. Second = gl_entries[second]
      BY SameWrap, Zenon DEF Second, GL!GlPtr, N, second
  <2> QED BY <1>1, <1>2, <2>1, <2>2, <2>3, <2>4
<1>7. p.index = gl_head /\ read >= 1
    BY <1>1, <1>4, <1>5, <1>6 DEF read
<1>8. CommitsStore /\ done
    BY <1>1, <1>2, <1>7 DEF CommitsStore, Oldest
<1>9. PICK u \in units : u.index = gl_head
    BY <1>8
<1>10. p \notin wb
    BY <1>7, <1>9 DEF Pipe, OneOwner
<1>11. p # exe \/ exe = None
    BY <1>7, <1>9 DEF Pipe, OneOwner
<1>12. p # None
  <2>1. \A v \in Instr : v # None
      BY DEF Instr, None, AllKinds
  <2> QED BY <1>10, <2>1 DEF Issued, Types, TypeOK
<1> QED BY <1>7, <1>8, <1>10, <1>11, <1>12 DEF Issued
-----------------------------------------------------------------------------
(* The graduation list in a cycle.                                           *)

Enters(busy) == rr # None /\ ~stall_rr(busy) /\ ~mis /\ ~xq
Taken == [kind |-> rr.kind, rd |-> rr.rd, prd |-> rr.prd, old |-> rr.old]

\* The write-back ports.
LEMMA PortsMark ==
    ASSUME Types, NEW b \in [Index -> BOOLEAN], NEW e \in [Index -> GLEntry],
           GL!WriteBack(b, e, ToGLPorts)
    PROVE  /\ gl_valid' \in [Index -> BOOLEAN]
           /\ gl_entries' \in [Index -> GLEntry]
           /\ \A i \in Index :
                /\ gl_valid'[i] <=> b[i] \/ \E w \in wb : w.index = i
                /\ gl_entries'[i].data = e[i].data
                /\ gl_entries'[i].ex <=> IF \E w \in wb : w.index = i
                                         THEN gl_entries[i].ex \/ \E w \in wb : w.index = i /\ w.ex
                                         ELSE e[i].ex
<1> DEFINE port(i) == \E w \in wb : w.index = i
           fails(i) == \E w \in wb : w.index = i /\ w.ex
<1>1. \A i : /\ (\E q \in ToGLPorts : q.index = i) <=> port(i)
             /\ (\E q \in ToGLPorts : q.index = i /\ q.ex) <=> fails(i)
  <2>1. \A q \in ToGLPorts : \E w \in wb : q.index = w.index /\ (q.ex <=> w.ex)
      BY DEF ToGLPorts
  <2>2. \A w \in wb : \E q \in ToGLPorts : q.index = w.index /\ (q.ex <=> w.ex)
    <3> SUFFICES ASSUME NEW w \in wb PROVE \E q \in ToGLPorts : q.index = w.index /\ (q.ex <=> w.ex)
        OBVIOUS
    <3> DEFINE q == [index |-> w.index, ex |-> w.ex]
    <3>1. q \in ToGLPorts /\ q.index = w.index /\ (q.ex <=> w.ex)
        BY DEF ToGLPorts
    <3> QED BY <3>1
  <2> QED BY <2>1, <2>2
<1>2. /\ gl_valid' = [i \in Index |-> b[i] \/ \E q \in ToGLPorts : q.index = i]
      /\ gl_entries' = [i \in Index |->
           IF \E q \in ToGLPorts : q.index = i
           THEN [e[i] EXCEPT !.ex = gl_entries[i].ex \/ \E q \in ToGLPorts : q.index = i /\ q.ex]
           ELSE e[i]]
    BY Sizes, Zenon DEF GL!WriteBack
<1> HIDE DEF port, fails
<1>3. \A i \in Index :
         /\ gl_valid'[i] = (b[i] \/ port(i))
         /\ gl_entries'[i] = IF port(i) THEN [e[i] EXCEPT !.ex = gl_entries[i].ex \/ fails(i)]
                             ELSE e[i]
  <2> SUFFICES ASSUME NEW i \in Index
               PROVE  /\ gl_valid'[i] = (b[i] \/ port(i))
                      /\ gl_entries'[i] = IF port(i) THEN [e[i] EXCEPT !.ex = gl_entries[i].ex \/ fails(i)]
                                          ELSE e[i]
      OBVIOUS
  <2>1. /\ gl_valid'[i] = (b[i] \/ \E q \in ToGLPorts : q.index = i)
        /\ gl_entries'[i] =
              IF \E q \in ToGLPorts : q.index = i
              THEN [e[i] EXCEPT !.ex = gl_entries[i].ex \/ \E q \in ToGLPorts : q.index = i /\ q.ex]
              ELSE e[i]
      BY <1>2, Zenon
  <2>2. /\ (\E q \in ToGLPorts : q.index = i) = port(i)
        /\ (\E q \in ToGLPorts : q.index = i /\ q.ex) = fails(i)
      BY <1>1, Zenon DEF port, fails
  <2> QED BY <2>1, <2>2, Zenon
<1>4. \A i \in Index : b[i] \in BOOLEAN /\ e[i] \in GLEntry
    OBVIOUS
<1>5. gl_valid' \in [Index -> BOOLEAN] /\ \A i \in Index : gl_valid'[i] <=> b[i] \/ port(i)
  <2>1. gl_valid' = [i \in Index |-> gl_valid'[i]]
      BY <1>2
  <2>2. \A i \in Index : gl_valid'[i] \in BOOLEAN
      BY <1>3
  <2> QED BY <1>3, <2>1, <2>2, Zenon
<1>6. ASSUME NEW i \in Index
      PROVE  /\ gl_entries'[i] \in GLEntry /\ gl_entries'[i].data = e[i].data
             /\ gl_entries'[i].ex <=> IF port(i) THEN gl_entries[i].ex \/ fails(i) ELSE e[i].ex
  <2> DEFINE x == gl_entries[i].ex \/ fails(i)
             c == e[i]
             d == [c EXCEPT !.ex = x]
  <2>1. c \in GLEntry /\ x \in BOOLEAN
      BY <1>4
  <2>2. gl_entries'[i] = IF port(i) THEN d ELSE c
      BY <1>3
  <2> HIDE DEF x, c
  <2>3. d \in GLEntry /\ d.data = c.data /\ d.ex = x
      BY <2>1 DEF GLEntry
  <2> QED BY <2>1, <2>2, <2>3 DEF x, c
<1>7. gl_entries' \in [Index -> GLEntry]
  <2>1. gl_entries' = [i \in Index |-> gl_entries'[i]]
      BY <1>2
  <2> QED BY <1>6, <2>1
<1> QED BY <1>5, <1>6, <1>7, Zenon DEF port, fails
\* What the instruction in RR is to the graduation list.
LEMMA EntersIsWrite ==
    ASSUME Types, NEW busy, NEW rrex \in BOOLEAN, ~xq, ~mis
    PROVE  LET instr == ToGL(busy, rrex) IN
           /\ GL!GlWriteEnable(instr) <=> Enters(busy)
           /\ Enters(busy) => /\ instr.data = Taken /\ instr.ex = rrex
                              /\ instr.done = (rr.kind = "STORE")
                              /\ gl_num < N - 1 /\ rr \in Instr
<1> DEFINE instr == ToGL(busy, rrex)
<1>1. gl_num \in 0 .. N - 1 /\ rr \in Instr \cup {None}
    BY DEF Types, TypeOK, N
<1>2. CASE rr = None \/ stall_rr(busy)
  <2>1. instr = GL!NoInstr /\ ~Enters(busy)
      BY <1>2 DEF ToGL, Enters
  <2>2. ~GL!NoInstr.valid
      BY DEF GL!NoInstr
  <2> QED BY <2>1, <2>2, Zenon DEF GL!GlWriteEnable
<1>3. CASE rr # None /\ ~stall_rr(busy)
  <2>1. instr = [valid |-> TRUE, ex |-> rrex, data |-> Taken, done |-> rr.kind = "STORE"]
      BY <1>3 DEF ToGL, Taken
  <2>2. instr.valid /\ instr.data = Taken /\ instr.ex = rrex /\ instr.done = (rr.kind = "STORE")
      BY <2>1
  <2>3. gl_num # N - 1
      BY <1>3 DEF stall_rr, GL!Full, N
  <2>4. gl_num < N - 1
      BY <1>1, <2>3, Sizes
  <2>5. Enters(busy)
      BY <1>3 DEF Enters
  <2>6. GL!GlWriteEnable(instr)
      BY <2>2, <2>4, Zenon DEF GL!GlWriteEnable, N
  <2> QED BY <1>1, <1>3, <2>2, <2>4, <2>5, <2>6
<1> QED BY <1>2, <1>3

LEMMA ListAfter ==
    ASSUME Types, NEW iq, NEW busy, NEW rrex, NEW ok, NEW brex, NEW fin, NEW memex, NEW done, NEW csrx,
           Clock(iq, busy, rrex, ok, brex, fin, memex, done, csrx)
    PROVE  LET read == Retire(done, memex)
               one == IF Enters(busy) THEN 1 ELSE 0
           IN
           /\ gl_valid' \in [Index -> BOOLEAN] /\ gl_entries' \in [Index -> GLEntry]
           /\ \A i \in Index :
                LET new == Enters(busy) /\ i = gl_tail IN
                /\ gl_valid'[i] <=> \/ IF new THEN rr.kind = "STORE" \/ rrex ELSE gl_valid[i]
                                    \/ \E w \in wb : w.index = i
                /\ gl_entries'[i].data = IF new THEN Taken ELSE gl_entries[i].data
                /\ gl_entries'[i].ex <=> IF \E w \in wb : w.index = i
                                         THEN gl_entries[i].ex \/ \E w \in wb : w.index = i /\ w.ex
                                         ELSE IF new THEN rrex ELSE gl_entries[i].ex
           /\ xq => gl_head' = 0 /\ gl_tail' = 0 /\ gl_num' = 0
           /\ ~xq /\ (gl_num > 0 \/ ~mis) => gl_head' = Trunc(gl_head + read, N)
           /\ ~xq /\ ~mis => /\ gl_tail' = Trunc(gl_tail + one, N)
                             /\ gl_num' = gl_num + one - read
           /\ ~xq /\ mis /\ gl_num > 0 => /\ gl_tail' = Trunc(missed.index + 1, N)
                                          /\ gl_num' = Dist(gl_head', gl_tail', N)
           /\ ~xq /\ mis /\ gl_num = 0 => UNCHANGED <<gl_head, gl_tail, gl_num>>
           /\ Enters(busy) => gl_num < N - 1 /\ rr \in Instr
<1> DEFINE read == Retire(done, memex)
           one == IF Enters(busy) THEN 1 ELSE 0
           instr == ToGL(busy, rrex)
           x == ex_from_exe(memex, brex)
<1>1. Graduate(instr, read, x) /\ rrex \in BOOLEAN
    BY Zenon DEF Clock, Cycle, Inputs
<1>2. /\ gl_head \in Index /\ gl_tail \in Index /\ gl_num \in 0 .. N - 1
      /\ gl_valid \in [Index -> BOOLEAN] /\ gl_entries \in [Index -> GLEntry]
      /\ rr \in Instr \cup {None}
    BY DEF Types, TypeOK, N
<1>3. \A y : GL!GlPtr(y) = Trunc(y, N) /\ GL!Trunc(y, 2 * N) = Trunc(y, 2 * N)
    BY SameWrap, Zenon DEF GL!GlPtr, N
<1>4. read \in 0 .. 2 /\ read <= gl_num
    BY RetiresFinished
<1> HIDE DEF read, instr, x
<1>5. CASE xq
  <2>1. GL!FlushCommit(ToGLPorts) /\ ~Enters(busy)
      BY <1>1, <1>5 DEF Graduate, Enters
  <2>2. GL!WriteBack(gl_valid, gl_entries, ToGLPorts) /\ gl_head' = 0 /\ gl_tail' = 0 /\ gl_num' = 0
      BY <2>1, Zenon DEF GL!FlushCommit
  <2> QED BY <1>2, <1>5, <2>1, <2>2, PortsMark
<1>6. CASE ~xq /\ mis
  <2>1. GL!Flush(missed.index, read, ToGLPorts, x) /\ ~Enters(busy)
      BY <1>1, <1>6 DEF Graduate, Enters
  <2>2. /\ GL!WriteBack(gl_valid, gl_entries, ToGLPorts)
        /\ IF gl_num > 0
           THEN /\ gl_tail' = GL!GlPtr(missed.index + 1) /\ gl_head' = GL!GlPtr(gl_head + read)
                /\ gl_num' = GL!Dist(GL!GlPtr(gl_head + read), GL!GlPtr(missed.index + 1), NUM_ENTRIES)
           ELSE UNCHANGED <<gl_tail, gl_head, gl_num>>
      BY <2>1, Zenon DEF GL!Flush
  <2>3. gl_num > 0 => /\ gl_tail' = Trunc(missed.index + 1, N) /\ gl_head' = Trunc(gl_head + read, N)
                      /\ gl_num' = Dist(gl_head', gl_tail', N)
      BY <1>3, <2>2, SameWrap, Zenon DEF N
  <2>4. gl_num = 0 => UNCHANGED <<gl_head, gl_tail, gl_num>>
      BY <1>2, <2>2
  <2> QED BY <1>2, <1>6, <2>1, <2>2, <2>3, <2>4, PortsMark DEF read
<1>7. CASE ~xq /\ ~mis
  <2>1. GL!GlAdvance(instr, read, ToGLPorts, x)
      BY <1>1, <1>7 DEF Graduate
  <2>2. /\ GL!GlWriteEnable(instr) <=> Enters(busy)
        /\ Enters(busy) => /\ instr.data = Taken /\ instr.ex = rrex
                           /\ instr.done = (rr.kind = "STORE")
                           /\ gl_num < N - 1 /\ rr \in Instr
      BY <1>1, <1>7, EntersIsWrite DEF instr
  <2>3. /\ gl_tail' = Trunc(gl_tail + one, N) /\ gl_head' = Trunc(gl_head + read, N)
        /\ gl_num' = Trunc(gl_num + one - read, 2 * N)
      BY <1>3, <2>1, <2>2, Zenon DEF GL!GlAdvance, N
  <2>4. gl_num' = gl_num + one - read
    <3>1. gl_num + one - read \in 0 .. N - 1
        BY <1>2, <1>4, <2>2, Sizes
    <3> QED BY <2>3, <3>1, Sizes DEF Trunc
  <2>5. CASE Enters(busy)
    <3> DEFINE b == [gl_valid EXCEPT ![gl_tail] = rr.kind = "STORE" \/ rrex]
               e == [gl_entries EXCEPT ![gl_tail] = [data |-> Taken, ex |-> rrex]]
    <3>1. GL!WriteBack([gl_valid EXCEPT ![gl_tail] = instr.done \/ instr.ex],
                       [gl_entries EXCEPT ![gl_tail] = [data |-> instr.data, ex |-> instr.ex]], ToGLPorts)
        BY <2>1, <2>2, <2>5, Zenon DEF GL!GlAdvance
    <3>2. GL!WriteBack(b, e, ToGLPorts)
        BY <2>2, <2>5, <3>1, Zenon
    <3>3. Taken \in Data
        BY <2>2, <2>5 DEF Taken, Data, Instr
    <3>4. /\ b \in [Index -> BOOLEAN] /\ e \in [Index -> GLEntry]
          /\ \A i \in Index :
                /\ b[i] <=> IF i = gl_tail THEN rr.kind = "STORE" \/ rrex ELSE gl_valid[i]
                /\ e[i].data = IF i = gl_tail THEN Taken ELSE gl_entries[i].data
                /\ e[i].ex <=> IF i = gl_tail THEN rrex ELSE gl_entries[i].ex
        BY <1>1, <1>2, <3>3 DEF GLEntry
    <3> HIDE DEF b, e
    <3>5. /\ gl_valid' \in [Index -> BOOLEAN] /\ gl_entries' \in [Index -> GLEntry]
          /\ \A i \in Index :
                /\ gl_valid'[i] <=> b[i] \/ \E w \in wb : w.index = i
                /\ gl_entries'[i].data = e[i].data
                /\ gl_entries'[i].ex <=> IF \E w \in wb : w.index = i
                                         THEN gl_entries[i].ex \/ \E w \in wb : w.index = i /\ w.ex
                                         ELSE e[i].ex
        BY <3>2, <3>4, PortsMark
    <3> QED BY <1>7, <2>2, <2>3, <2>4, <2>5, <3>4, <3>5 DEF read
  <2>6. CASE ~Enters(busy)
    <3>1. GL!WriteBack(gl_valid, gl_entries, ToGLPorts)
        BY <2>1, <2>2, <2>6, Zenon DEF GL!GlAdvance
    <3> QED BY <1>2, <1>7, <2>3, <2>4, <2>6, <3>1, PortsMark DEF read
  <2> QED BY <2>5, <2>6
<1> QED BY <1>5, <1>6, <1>7
-----------------------------------------------------------------------------
(* Every register of the pipeline stays typed.                               *)

PortRT == [rd : Reg, prd : FL!Phys] \cup {RT!NoReg}

\* What commit gives to the free list and to the committed map are registers.
LEMMA CommitPorts ==
    ASSUME Types, ~xq => Pipe, NEW n \in {1, 2}, NEW done, NEW memex, NEW csrx
    PROVE  /\ Freed(n, done, memex, csrx) \in FL!Port
           /\ Committed(n, done, memex, csrx) \in PortRT
<1> DEFINE read == Retire(done, memex)
           d == (IF n = 1 THEN Oldest ELSE Second).data
           go == read >= n /\ ~exception_enable_d(memex, csrx)
<1>1. read \in 0 .. 2 /\ read <= gl_num /\ (xq => read = 0)
    BY RetiresFinished
<1>2. gl_head \in Index /\ gl_num \in 0 .. N - 1
    BY DEF Types, TypeOK, N
<1>3. /\ Freed(n, done, memex, csrx) = IF go THEN d.old ELSE FL!NoReg
      /\ Committed(n, done, memex, csrx) = IF go THEN [rd |-> d.rd, prd |-> d.prd] ELSE RT!NoReg
    BY DEF Freed, Committed
<1>4. ASSUME read >= n PROVE d \in Data
  <2> DEFINE m == n - 1
             i == Trunc(gl_head + m, N)
  <2>1. i \in Index /\ Dist(gl_head, i, N) = n - 1
    <3>1. m \in 0 .. N - 1 /\ m \in 0 .. N
        BY Sizes
    <3> HIDE DEF m
    <3>2. Trunc(gl_head + m, N) \in Index /\ Dist(gl_head, Trunc(gl_head + m, N), N) = m
        BY <1>2, <3>1, Places
    <3> QED BY <3>2 DEF m
  <2>2. Live(i) /\ ~xq
      BY <1>1, <1>2, <1>4, <2>1 DEF Live, N
  <2>3. gl_entries[i].data \in Data
      BY <2>1, <2>2 DEF Pipe, Occupied
  <2>4. CASE n = 1
    <3>1. i = gl_head
        BY <1>2, <2>4, Sizes DEF Trunc
    <3> QED BY <2>3, <2>4, <3>1 DEF Oldest
  <2>5. CASE n = 2
    <3>1. i = Trunc(gl_head + 1, N)
        BY <2>5
    <3>2. Second = gl_entries[Trunc(gl_head + 1, N)]
        BY SameWrap, Zenon DEF Second, GL!GlPtr, N
    <3> QED BY <2>3, <2>5, <3>1, <3>2
  <2> QED BY <2>4, <2>5
<1> HIDE DEF d, read
<1>5. d \in Data => d.old \in FL!Phys /\ [rd |-> d.rd, prd |-> d.prd] \in [rd : Reg, prd : FL!Phys]
    BY DEF Data
<1> QED BY <1>3, <1>4, <1>5 DEF FL!Port, PortRT

\* The register given to a renamed destination.
LEMMA NewRegisterTyped ==
    ASSUME FL!TypeOK, NEW f0 \in FL!Port, NEW f1 \in FL!Port, NEW read
    PROVE  FL!NewRegister(read, f0, f1) \in FL!Phys
<1>1. FL!ReadEnable(read, f0, f1) /\ fl_num[fl_vh] = 0 => FL!FirstWrite(f0, f1) \in FL!Phys
    BY DEF FL!ReadEnable, FL!Empty, FL!Writes, FL!WriteEnable, FL!FirstWrite, FL!Port, FL!NoReg
<1>2. fl_ring[fl_head[fl_vh]] \in FL!Phys
    BY DEF FL!TypeOK
<1>3. 0 \in FL!Phys
    BY Sizes
<1> QED BY <1>1, <1>2, <1>3 DEF FL!NewRegister

TableTypes ==
    /\ rt_map \in [Reg -> [FL!Ckpt -> FL!Phys]]
    /\ rt_ready \in [Reg -> [FL!Ckpt -> BOOLEAN]]
    /\ rt_commit \in [Reg -> FL!Phys]

LEMMA RenameTableTypes ==
    ASSUME TableTypes, rt_vh \in FL!Ckpt, NEW w \in PortRT, NEW k0 \in PortRT, NEW k1 \in PortRT,
           NEW ready, NEW c, NEW do, NEW delete,
           \/ RT!RecoverCommit \/ RT!Recover(k0, k1, ready, c, delete)
           \/ RT!Advance(w, k0, k1, ready, do, delete)
    PROVE  TableTypes'
<1>1. /\ rt_map \in [Reg -> [FL!Ckpt -> FL!Phys]]
      /\ rt_ready \in [Reg -> [FL!Ckpt -> BOOLEAN]]
      /\ rt_commit \in [Reg -> FL!Phys]
      /\ RT!Isa = Reg /\ RT!Ckpt = FL!Ckpt
    BY Sizes DEF TableTypes
<1>2. \A k \in PortRT : RT!Writes(k) => k.prd \in FL!Phys
    BY DEF RT!Writes, PortRT
<1>3. ASSUME RT!Commit(k0, k1) PROVE rt_commit' \in [Reg -> FL!Phys]
    BY <1>1, <1>2, <1>3 DEF RT!Commit
<1>4. \A r \in Reg, v \in FL!Ckpt : RT!Marked(r, v, ready) \in BOOLEAN
    BY <1>1 DEF RT!Marked
<1>5. CASE RT!RecoverCommit
  <2>1. /\ rt_map' = [r \in Reg |-> [rt_map[r] EXCEPT ![0] = rt_commit[r]]]
        /\ rt_ready' = [r \in Reg |-> [rt_ready[r] EXCEPT ![0] = TRUE]]
        /\ rt_commit' = rt_commit
      BY <1>1, <1>5, Zenon DEF RT!RecoverCommit
  <2> QED BY <1>1, <2>1 DEF TableTypes
<1>6. CASE RT!Recover(k0, k1, ready, c, delete)
  <2>1. /\ rt_ready' = [r \in Reg |-> [v \in FL!Ckpt |-> RT!Marked(r, v, ready)]]
        /\ rt_map' = rt_map /\ RT!Commit(k0, k1)
      BY <1>1, <1>6, Zenon DEF RT!Recover
  <2>2. rt_ready' \in [Reg -> [FL!Ckpt -> BOOLEAN]]
      BY <1>4, <2>1, Zenon
  <2> QED BY <1>1, <1>3, <2>1, <2>2 DEF TableTypes
<1>7. CASE RT!Advance(w, k0, k1, ready, do, delete)
  <2> DEFINE ck == RT!CheckpointEnable(do)
             cur == {rt_vh} \cup (IF ck THEN {RT!Ver(rt_vh + 1)} ELSE {})
             new(r) == RT!Writes(w) /\ w.rd = r
             m(r, v) == IF v \notin cur THEN rt_map[r][v]
                        ELSE IF new(r) THEN w.prd ELSE RT!Mapping(r)
             y(r, v) == IF v \notin cur THEN RT!Marked(r, v, ready)
                        ELSE ~new(r) /\ RT!Marked(r, rt_vh, ready)
  <2>1. /\ RT!Commit(k0, k1)
        /\ rt_map' = [r \in Reg |-> [v \in FL!Ckpt |-> m(r, v)]]
        /\ rt_ready' = [r \in Reg |-> [v \in FL!Ckpt |-> y(r, v)]]
      BY <1>1, <1>7, Zenon DEF RT!Advance
  <2>2. \A r \in Reg, v \in FL!Ckpt : m(r, v) \in FL!Phys
      BY <1>1, <1>2 DEF RT!Mapping
  <2>3. \A r \in Reg, v \in FL!Ckpt : y(r, v) \in BOOLEAN
      BY <1>4
  <2> HIDE DEF m, y
  <2>4. rt_map' \in [Reg -> [FL!Ckpt -> FL!Phys]]
      BY <2>1, <2>2
  <2>5. rt_ready' \in [Reg -> [FL!Ckpt -> BOOLEAN]]
      BY <2>1, <2>3
  <2> QED BY <1>3, <2>1, <2>4, <2>5 DEF TableTypes
<1> QED BY <1>5, <1>6, <1>7
\* The registers of free list and rename table.
LEMMA RegistersTyped ==
    ASSUME Types, ~xq => Pipe,
           NEW iq, NEW busy, NEW rrex, NEW ok, NEW brex, NEW fin, NEW memex, NEW done, NEW csrx,
           Clock(iq, busy, rrex, ok, brex, fin, memex, done, csrx)
    PROVE  FL!TypeOK' /\ TableTypes' /\ rr' \in Instr \cup {None}
<1> DEFINE f0 == Freed(1, done, memex, csrx)
           f1 == Freed(2, done, memex, csrx)
           k0 == Committed(1, done, memex, csrx)
           k1 == Committed(2, done, memex, csrx)
           read == reads(iq, busy, f0, f1)
           new == FL!NewRegister(read, f0, f1)
           write == IF renames(iq, busy, f0, f1) THEN [rd |-> iq.rd, prd |-> new] ELSE RT!NoReg
           c == missed.chkp
           d == delete_checkpoint
           ck == do_checkpoint(iq, busy)
<1>1. /\ f0 \in FL!Port /\ f1 \in FL!Port
      /\ k0 \in PortRT /\ k1 \in PortRT
    BY CommitPorts
<1>2. FL!TypeOK /\ TableTypes /\ rt_vh \in FL!Ckpt /\ fl_vh \in FL!Ckpt
    BY DEF Types, TypeOK, TableTypes, VersionsTogether, FL!TypeOK
<1>3. new \in FL!Phys
    BY <1>1, <1>2, NewRegisterTyped
<1>4. d \in {0, 1}
    BY DEF delete_checkpoint
<1>5. IF xq THEN FL!RollBack /\ RT!RecoverCommit
      ELSE IF do_recover THEN FL!Recover(f0, f1, c, d) /\ RT!Recover(k0, k1, Broadcast, c, d)
      ELSE FL!Advance(read, f0, f1, ck, d) /\ RT!Advance(write, k0, k1, Broadcast, ck, d)
    BY Zenon DEF Clock, Cycle, Rename
<1>6. rr' = NextRR(iq, busy, f0, f1)
    BY Zenon DEF Clock, Cycle
<1>7. iq # None => iq.kind \in AllKinds /\ iq.rd \in Reg /\ iq.rs \in Reg
  <2> SUFFICES ASSUME iq # None PROVE iq.kind \in AllKinds /\ iq.rd \in Reg /\ iq.rs \in Reg
      OBVIOUS
  <2>1. iq \in Fetched
      BY DEF Clock, QueueHead
  <2>2. PICK k \in Kinds : iq \in [kind : {k}, rd : Destination(k), rs : Sources]
      BY <2>1 DEF Fetched
  <2>3. /\ Destination(k) \subseteq Reg /\ Sources \subseteq Reg /\ k \in AllKinds
      BY Sizes, BackendConstants DEF Destination, Reg
  <2> QED BY <2>2, <2>3
<1>8. renames(iq, busy, f0, f1) => iq # None
    BY DEF renames
<1>9. rr' \in Instr \cup {None}
  <2> DEFINE i == Renamed(iq, busy, f0, f1)
  <2>1. ASSUME renames(iq, busy, f0, f1) PROVE i \in Instr
    <3> DEFINE y == iq.rs = 0 \/ RT!Rdy(iq.rs, Broadcast)
    <3>1. i = [kind |-> iq.kind, rd |-> iq.rd, rs |-> iq.rs, prd |-> new,
               old |-> RT!Mapping(iq.rd), prs |-> RT!Mapping(iq.rs), rdy |-> y, ck |-> ck,
               chkp |-> rt_vh, index |-> NoIndex]
        BY Zenon DEF Renamed
    <3>2. RT!Mapping(iq.rd) \in FL!Phys /\ RT!Mapping(iq.rs) \in FL!Phys
        BY <1>2, <1>7, <1>8, <2>1 DEF RT!Mapping, TableTypes
    <3>3. y \in BOOLEAN /\ ck \in BOOLEAN
        BY DEF do_checkpoint
    <3> HIDE DEF y, ck, new, i
    <3> QED BY <1>2, <1>3, <1>7, <1>8, <2>1, <3>1, <3>2, <3>3 DEF Instr
  <2>2. Snoop(rr) \in Instr \cup {None}
      BY SnoopKeeps DEF Types, TypeOK
  <2> HIDE DEF i
  <2>3. NextRR(iq, busy, f0, f1) \in {None, Snoop(rr)} \/ (renames(iq, busy, f0, f1) /\ NextRR(iq, busy, f0, f1) = i)
      BY DEF NextRR, i
  <2> QED BY <1>6, <2>1, <2>2, <2>3
<1>10. write \in PortRT
    BY <1>3, <1>7, <1>8 DEF PortRT
<1>11. do_recover => c \in FL!Ckpt
  <2> SUFFICES ASSUME do_recover PROVE c \in FL!Ckpt
      OBVIOUS
  <2>1. missed \in wb
      BY DEF do_recover, mis, Mispredicted, missed
  <2> QED BY <2>1 DEF Types, TypeOK, Result
<1> HIDE DEF f0, f1, k0, k1, read, new, write, c, d, ck
<1>12. TableTypes'
    BY <1>1, <1>2, <1>5, <1>10, RenameTableTypes
<1>13. FL!TypeOK'
    BY <1>1, <1>2, <1>4, <1>5, <1>11, FreeListTypes, Sizes
<1> QED BY <1>9, <1>12, <1>13
-----------------------------------------------------------------------------
(* The stages in a cycle.                                                    *)

LEMMA StagesAfter ==
    ASSUME Types, NEW iq, NEW busy, NEW rrex, NEW ok, NEW brex, NEW fin, NEW memex, NEW done, NEW csrx,
           Clock(iq, busy, rrex, ok, brex, fin, memex, done, csrx)
    PROVE  /\ xq \/ cq => wb' = {} /\ units' = {} /\ exe' = None
           /\ ~(xq \/ cq) =>
                /\ wb' = exe_results(busy, ok, brex) \cup {Finished(u, memex) : u \in fin}
                /\ units' = (units \ Leaves(fin, done))
                            \cup (IF Executes(busy) /\ ~Single(exe) THEN {exe} ELSE {})
           /\ exe' # None =>
                /\ ~mis /\ ~xq /\ ~cq
                /\ \/ /\ exe # None /\ ~Executes(busy) /\ ~Enters(busy)
                      /\ exe' = Snoop(exe)
                   \/ /\ Enters(busy) /\ ~rrex
                      /\ exe' = [Snoop(rr) EXCEPT !.index = gl_tail]
           /\ Executes(busy) => exe # None /\ ~mis
<1>1. Execute(busy, ok, brex, fin, memex, done) /\ exe' = NextEXE(busy, rrex)
    BY Zenon DEF Clock, Cycle
<1>2. xq \/ cq => exe' = None
    BY <1>1 DEF NextEXE, flush_rr, flush_ir
<1>3. ASSUME exe' # None
      PROVE  /\ ~mis /\ ~xq /\ ~cq
             /\ \/ /\ exe # None /\ ~Executes(busy) /\ ~Enters(busy)
                   /\ exe' = Snoop(exe)
                \/ /\ Enters(busy) /\ ~rrex
                   /\ exe' = [Snoop(rr) EXCEPT !.index = gl_tail]
  <2>1. ~flush_rr(busy) /\ ~mis /\ ~xq /\ ~cq
      BY <1>1, <1>3 DEF NextEXE, flush_rr, flush_ir
  <2>2. CASE stall_rr(busy)
    <3>1. exe_stall(busy)
        BY <2>1, <2>2 DEF flush_rr, stall_rr
    <3>2. exe' = Snoop(exe)
        BY <1>1, <2>1, <2>2 DEF NextEXE
    <3> QED BY <2>1, <2>2, <3>1, <3>2 DEF exe_stall, Executes, Enters
  <2>3. CASE ~stall_rr(busy)
    <3>1. rr # None /\ ~rrex /\ exe' = [Snoop(rr) EXCEPT !.index = gl_tail]
        BY <1>1, <1>3, <2>1, <2>3 DEF NextEXE
    <3> QED BY <2>1, <2>3, <3>1 DEF Enters
  <2> QED BY <2>2, <2>3
<1>4. Executes(busy) => exe # None /\ ~mis
    BY DEF Executes
<1> QED BY <1>1, <1>2, <1>3, <1>4 DEF Execute

\* The exception record.
LEMMA RecordAfter ==
    ASSUME Types, NEW iq, NEW busy, NEW rrex, NEW ok, NEW brex, NEW fin, NEW memex, NEW done, NEW csrx,
           Clock(iq, busy, rrex, ok, brex, fin, memex, done, csrx)
    PROVE  LET x == ex_from_exe(memex, brex)
               takes == x # NoIndex /\ (gl_ex.valid => GL!Older(x, gl_ex.index))
           IN
           /\ xq => gl_ex' = [valid |-> FALSE, index |-> 0]
           /\ ~xq /\ takes => gl_ex' = [valid |-> TRUE, index |-> x]
           /\ ~xq /\ ~takes /\ mis =>
                gl_ex' = IF gl_ex.valid /\ GL!Older(missed.index, gl_ex.index)
                         THEN [valid |-> FALSE, index |-> 0] ELSE gl_ex
           /\ ~xq /\ ~takes /\ ~mis =>
                gl_ex' = IF Enters(busy) /\ rrex /\ ~gl_ex.valid /\ x = NoIndex
                         THEN [valid |-> TRUE, index |-> gl_tail] ELSE gl_ex
<1> DEFINE x == ex_from_exe(memex, brex)
           takes == x # NoIndex /\ (gl_ex.valid => GL!Older(x, gl_ex.index))
           instr == ToGL(busy, rrex)
           read == Retire(done, memex)
<1>1. Graduate(instr, read, x) /\ rrex \in BOOLEAN
    BY Zenon DEF Clock, Cycle, Inputs
<1>2. GL!NoIndex = NoIndex
    BY DEF GL!NoIndex, NoIndex
<1>3. GL!TakesExe(x) <=> takes
    BY <1>2, Zenon DEF GL!TakesExe
<1> HIDE DEF x, instr, read, takes
<1>4. CASE xq
    BY <1>1, <1>4, Zenon DEF Graduate, GL!FlushCommit
<1>5. CASE ~xq /\ mis
  <2>1. GL!Flush(missed.index, read, ToGLPorts, x)
      BY <1>1, <1>5 DEF Graduate
  <2>2. gl_ex' = IF GL!TakesExe(x) THEN [valid |-> TRUE, index |-> x]
                 ELSE IF gl_ex.valid /\ GL!Older(missed.index, gl_ex.index)
                      THEN [valid |-> FALSE, index |-> 0] ELSE gl_ex
      BY <2>1, Zenon DEF GL!Flush
  <2> QED BY <1>3, <1>5, <2>2, Zenon DEF takes, x
<1>6. CASE ~xq /\ ~mis
  <2>1. GL!GlAdvance(instr, read, ToGLPorts, x)
      BY <1>1, <1>6 DEF Graduate
  <2>2. gl_ex' = IF GL!TakesExe(x) THEN [valid |-> TRUE, index |-> x]
                 ELSE IF GL!GlWriteEnable(instr) /\ instr.ex /\ ~gl_ex.valid /\ x = GL!NoIndex
                      THEN [valid |-> TRUE, index |-> gl_tail] ELSE gl_ex
      BY <2>1, Zenon DEF GL!GlAdvance
  <2>3. (GL!GlWriteEnable(instr) <=> Enters(busy)) /\ (Enters(busy) => instr.ex = rrex)
      BY <1>1, <1>6, EntersIsWrite DEF instr
  <2> QED BY <1>2, <1>3, <1>6, <2>2, <2>3, Zenon DEF takes, x
<1> QED BY <1>4, <1>5, <1>6, Zenon DEF takes, x

\* The comparison of the RTL compares places in the list.
LEMMA OlderIsPlace ==
    ASSUME gl_head \in Index, NEW i \in Index, NEW j \in Index
    PROVE  GL!Older(i, j) <=> Age(i) < Age(j)
<1>1. gl_head \in 0 .. N - 1 /\ i \in 0 .. N - 1 /\ j \in 0 .. N - 1 /\ N \in Nat
    BY Sizes
<1> QED BY <1>1 DEF GL!Older, Age, Dist, Trunc
-----------------------------------------------------------------------------
(* IInv is kept: types.                                                      *)

LEMMA TypesKept ==
    ASSUME IInv, NEW iq, NEW busy, NEW rrex, NEW ok, NEW brex, NEW fin, NEW memex, NEW done, NEW csrx,
           Clock(iq, busy, rrex, ok, brex, fin, memex, done, csrx), VersionsTogether'
    PROVE  Types'
<1>1. /\ Types /\ (~xq => Pipe)
      /\ gl_head \in Index /\ gl_tail \in Index /\ gl_num \in 0 .. N - 1
      /\ rr \in Instr \cup {None} /\ exe \in Instr \cup {None}
      /\ units \subseteq Instr /\ wb \subseteq Result
      /\ gl_ex \in [valid : BOOLEAN, index : Index]
    BY DEF IInv, Types, TypeOK, N
<1>2. FL!TypeOK' /\ TableTypes' /\ rr' \in Instr \cup {None}
    BY <1>1, RegistersTyped
<1>3. Inputs(busy, rrex, ok, brex, fin, memex, done)
    BY DEF Clock
<1>4. xq' \in BOOLEAN /\ cq' \in BOOLEAN /\ fence' \in BOOLEAN
  <2>1. PICK f0, f1 : xq' = exception_enable_d(memex, csrx) /\ cq' = csr_enable_d(memex, csrx)
                      /\ fence' = NextFence(iq, busy, f0, f1)
      BY DEF Clock, Cycle
  <2> QED BY <2>1 DEF exception_enable_d, csr_enable_d, NextFence
<1>5. ~xq => /\ \A u \in units : u.index \in Index
             /\ exe # None => exe.index \in Index
             /\ \A w \in wb : w.index \in Index /\ gl_num > 0
  <2> SUFFICES ASSUME ~xq PROVE /\ \A p \in wb \cup Issued : p.index \in Index
                                /\ \A w \in wb : gl_num > 0
      BY DEF Issued
  <2>1. \A p \in wb \cup Issued : p.index \in Index /\ Live(p.index)
      BY <1>1 DEF Pipe, Owners, Owns
  <2>2. \A i \in Index : Live(i) => gl_num > 0
      BY <1>1, Places DEF Live, N
  <2> QED BY <2>1, <2>2
<1>6. wb' \subseteq Result
  <2>1. CASE xq \/ cq
      BY <2>1, <1>1, StagesAfter
  <2>2. CASE ~(xq \/ cq)
    <3>1. wb' = exe_results(busy, ok, brex) \cup {Finished(u, memex) : u \in fin}
        BY <2>2, <1>1, StagesAfter
    <3>2. exe_results(busy, ok, brex) \subseteq Result
      <4>1. CASE Executes(busy)
        <5>1. exe \in Instr /\ exe.index \in Index
            BY <1>1, <1>5, <2>2, <4>1 DEF Executes
        <5>2. ok \in BOOLEAN /\ brex \in BOOLEAN
            BY <1>3 DEF Inputs
        <5> DEFINE w == [index |-> exe.index, rd |-> exe.rd, prd |-> exe.prd, ex |-> brex,
                         ck |-> exe.ck, chkp |-> exe.chkp, ok |-> ok]
        <5>3. w \in Result
            BY <5>1, <5>2 DEF Instr, Result
        <5> QED BY <5>3 DEF exe_results
      <4> QED BY <4>1 DEF exe_results
    <3>3. ASSUME NEW u \in fin PROVE Finished(u, memex) \in Result
      <4>1. u \in Instr /\ u.index \in Index
          BY <1>1, <1>3, <1>5, <2>2 DEF Inputs
      <4>2. 0 \in FL!Ckpt
          BY Sizes
      <4> QED BY <4>1, <4>2 DEF Finished, Instr, Result
    <3> QED BY <3>1, <3>2, <3>3
  <2> QED BY <2>1, <2>2
<1>7. units' \subseteq Instr
    BY <1>1, StagesAfter
<1>8. exe' \in Instr \cup {None}
  <2>1. \/ exe' = None \/ exe' = Snoop(exe)
        \/ rr # None /\ exe' = [Snoop(rr) EXCEPT !.index = gl_tail]
      BY <1>1, StagesAfter DEF Enters
  <2>2. Snoop(exe) \in Instr \cup {None}
      BY <1>1, SnoopKeeps
  <2>3. rr # None => [Snoop(rr) EXCEPT !.index = gl_tail] \in Instr
      BY <1>1, SnoopKeeps
  <2> QED BY <2>1, <2>2, <2>3
<1>9. gl_valid' \in [Index -> BOOLEAN] /\ gl_entries' \in [Index -> GLEntry]
    BY <1>1, ListAfter
<1>10. gl_head' \in Index /\ gl_tail' \in Index /\ gl_num' \in 0 .. N - 1
  <2> DEFINE read == Retire(done, memex)
             one == IF Enters(busy) THEN 1 ELSE 0
  <2>1. /\ read \in 0 .. 2 /\ read <= gl_num
        /\ xq => gl_head' = 0 /\ gl_tail' = 0 /\ gl_num' = 0
        /\ ~xq /\ (gl_num > 0 \/ ~mis) => gl_head' = Trunc(gl_head + read, N)
        /\ ~xq /\ ~mis => /\ gl_tail' = Trunc(gl_tail + one, N)
                          /\ gl_num' = gl_num + one - read
        /\ ~xq /\ mis /\ gl_num > 0 => /\ gl_tail' = Trunc(missed.index + 1, N)
                                       /\ gl_num' = Dist(gl_head', gl_tail', N)
        /\ Enters(busy) => gl_num < N - 1
      BY <1>1, ListAfter, RetiresFinished
  <2>2. one \in {0, 1} /\ (one = 1 => gl_num < N - 1)
      BY <2>1
  <2> HIDE DEF one, read
  <2>3. read \in 0 .. N /\ 1 \in 0 .. N /\ one \in 0 .. N /\ 0 \in Index
      BY <2>1, <2>2, Sizes
  <2>4. CASE xq
      BY <2>1, <2>3, <2>4, Sizes
  <2>5. CASE ~xq /\ mis
    <3>1. missed \in wb
        BY <2>5 DEF mis, Mispredicted, missed
    <3>2. missed.index \in Index /\ gl_num > 0
        BY <1>5, <2>5, <3>1
    <3>3. gl_head' \in Index
        BY <1>1, <2>1, <2>3, <2>5, <3>2, Places
    <3>4. gl_tail' \in Index
      <4>1. Trunc(missed.index + 1, N) \in Index
          BY <3>2, Sizes DEF Trunc
      <4> QED BY <2>1, <2>5, <3>2, <4>1
    <3> QED BY <2>1, <2>5, <3>2, <3>3, <3>4, Places
  <2>6. CASE ~xq /\ ~mis
    <3>1. gl_head' \in Index /\ gl_tail' \in Index
        BY <1>1, <2>1, <2>3, <2>6, Places
    <3>2. gl_num' \in 0 .. N - 1
        BY <1>1, <2>1, <2>2, <2>6, Sizes
    <3> QED BY <3>1, <3>2
  <2> QED BY <2>4, <2>5, <2>6
<1>11. gl_ex' \in [valid : BOOLEAN, index : Index]
  <2> DEFINE x == ex_from_exe(memex, brex)
  <2>1. 0 \in Index
      BY Sizes
  <2>2. ~xq /\ x # NoIndex => x \in Index
    <3> SUFFICES ASSUME ~xq, x # NoIndex PROVE x \in Index
        OBVIOUS
    <3>1. CASE memex # NoIndex
        BY <1>3, <1>5, <3>1 DEF Inputs, ex_from_exe
    <3>2. CASE memex = NoIndex
      <4>1. brex /\ x = exe.index
          BY <3>2 DEF ex_from_exe, GL!NoIndex, NoIndex
      <4>2. exe # None
          BY <1>3, <4>1 DEF Inputs, Executes
      <4> QED BY <1>5, <4>1, <4>2
    <3> QED BY <3>1, <3>2
  <2> HIDE DEF x
  <2>3. \/ gl_ex' = [valid |-> FALSE, index |-> 0] \/ gl_ex' = gl_ex
        \/ ~xq /\ x # NoIndex /\ gl_ex' = [valid |-> TRUE, index |-> x]
        \/ gl_ex' = [valid |-> TRUE, index |-> gl_tail]
      BY <1>1, RecordAfter, Zenon DEF x
  <2>4. \A i \in Index, v \in BOOLEAN :
           [valid |-> v, index |-> i] \in [valid : BOOLEAN, index : Index]
      OBVIOUS
  <2> QED BY <1>1, <2>1, <2>2, <2>3, <2>4, Zenon
<1> QED BY <1>2, <1>4, <1>6, <1>7, <1>8, <1>9, <1>10, <1>11 DEF Types, TypeOK, TableTypes, N
-----------------------------------------------------------------------------
(* IInv is kept: the pipeline in a cycle that takes no exception.            *)

\* The instructions at places Retire .. Limit - 1 are the ones that stay.
Limit(busy) == IF mis THEN Age(missed.index) + 1
               ELSE gl_num + (IF Enters(busy) THEN 1 ELSE 0)
Stays(i, busy, done, memex) == Retire(done, memex) <= Age(i) /\ Age(i) < Limit(busy)

LEMMA PlacesAfter ==
    ASSUME Types, Pipe, ~xq,
           NEW iq, NEW busy, NEW rrex, NEW ok, NEW brex, NEW fin, NEW memex, NEW done, NEW csrx,
           Clock(iq, busy, rrex, ok, brex, fin, memex, done, csrx), ~commit_xcpt(memex)
    PROVE  LET read == Retire(done, memex)
               limit == Limit(busy)
           IN
           /\ read \in 0 .. 2 /\ limit \in 0 .. N - 1 /\ read <= limit /\ (mis => limit <= gl_num)
           /\ gl_num' = limit - read
           /\ gl_tail' = Trunc(gl_head' + gl_num', N)
           /\ gl_head' \in Index
           /\ Age(gl_tail) = gl_num
           /\ \A i \in Index :
                /\ Dist(gl_head', i, N) < gl_num' <=> Stays(i, busy, done, memex)
                /\ read <= Age(i) => Dist(gl_head', i, N) = Age(i) - read
           /\ mis => missed \in wb /\ Stays(missed.index, busy, done, memex)
<1> DEFINE read == Retire(done, memex)
           one == IF Enters(busy) THEN 1 ELSE 0
           limit == Limit(busy)
<1>1. /\ gl_head \in Index /\ gl_tail \in Index /\ gl_num \in 0 .. N - 1
      /\ gl_tail = Trunc(gl_head + gl_num, N)
    BY DEF Types, TypeOK, Pipe, Occupied, N
<1>2. /\ read \in 0 .. 2 /\ read <= gl_num
      /\ gl_num > 0 \/ ~mis => gl_head' = Trunc(gl_head + read, N)
      /\ ~mis => gl_tail' = Trunc(gl_tail + one, N) /\ gl_num' = gl_num + one - read
      /\ mis /\ gl_num > 0 => gl_tail' = Trunc(missed.index + 1, N) /\ gl_num' = Dist(gl_head', gl_tail', N)
      /\ Enters(busy) => gl_num < N - 1
    BY ListAfter, RetiresFinished
<1>3. one \in {0, 1} /\ gl_num + one <= N - 1
    BY <1>1, <1>2, Sizes
<1>4. limit = IF mis THEN Age(missed.index) + 1 ELSE gl_num + one
    BY DEF Limit
<1>5. mis => /\ missed \in wb /\ missed.index \in Index /\ gl_num > 0
             /\ Age(missed.index) \in 0 .. N - 1
             /\ read <= Age(missed.index) /\ Age(missed.index) < gl_num
  <2> SUFFICES ASSUME mis PROVE /\ missed \in wb /\ missed.index \in Index /\ gl_num > 0
                                /\ Age(missed.index) \in 0 .. N - 1
                                /\ read <= Age(missed.index) /\ Age(missed.index) < gl_num
      OBVIOUS
  <2>1. missed \in wb
      BY DEF mis, Mispredicted, missed
  <2>2. missed.index \in Index /\ Age(missed.index) < gl_num
      BY <2>1 DEF Pipe, Owners, Owns, Live, Age, N
  <2>3. Age(missed.index) \in 0 .. N - 1
      BY <1>1, <2>2, Places DEF Age
  <2>4. ~(Age(missed.index) < read)
    <3>1. done => \E u \in units : u.index = gl_head
        BY DEF Clock, Inputs
    <3> QED BY <2>1, <3>1, UnfinishedStay
  <2> QED BY <1>1, <1>2, <2>1, <2>2, <2>3, <2>4
<1> HIDE DEF read, one, limit
<1>6. limit \in 0 .. N - 1 /\ read <= limit /\ (mis => limit <= gl_num)
  <2>1. CASE mis
    <3> DEFINE a == Age(missed.index)
    <3>1. limit = a + 1 /\ a \in 0 .. N - 1 /\ a < gl_num /\ read <= a
        BY <1>4, <1>5, <2>1
    <3> HIDE DEF a
    <3> QED BY <1>1, <1>2, <3>1, Sizes
  <2>2. CASE ~mis
    <3>1. limit = gl_num + one
        BY <1>4, <2>2
    <3> QED BY <1>1, <1>2, <1>3, <2>2, <3>1, Sizes
  <2> QED BY <2>1, <2>2
<1>7. gl_head' = Trunc(gl_head + read, N) /\ gl_head' \in Index
  <2>1. gl_head' = Trunc(gl_head + read, N)
      BY <1>2, <1>5
  <2>2. Trunc(gl_head + read, N) \in Index
      BY <1>1, <1>2, Sizes DEF Trunc
  <2> QED BY <2>1, <2>2
<1>8. Age(gl_tail) = gl_num
    BY <1>1, Places DEF Age
<1>9. gl_tail' = Trunc(gl_head + limit, N) /\ gl_num' = limit - read
  <2>1. CASE mis
    <3> DEFINE a == Age(missed.index)
    <3>6. a \in 0 .. N - 1 /\ a < gl_num /\ read <= a
        BY <1>5, <2>1
    <3>1. a \in 0 .. N - 1 /\ a < N - 1 /\ read <= a /\ Trunc(gl_head + a, N) = missed.index
      <4>1. a < N - 1
        <5> HIDE DEF a
        <5> QED BY <1>1, <3>6, Sizes
      <4>2. Trunc(gl_head + a, N) = missed.index
          BY <1>1, <1>5, <2>1, Places DEF Age
      <4> QED BY <3>6, <4>1, <4>2
    <3>2. gl_num' = a + 1 - read
      <4>1. gl_num' = Dist(Trunc(gl_head + read, N), Trunc(missed.index + 1, N), N)
          BY <1>2, <1>5, <1>7, <2>1
      <4>2. \A i \in Index : read <= Dist(gl_head, i, N) /\ Dist(gl_head, i, N) < N - 1 =>
               Dist(Trunc(gl_head + read, N), Trunc(i + 1, N), N) = Dist(gl_head, i, N) + 1 - read
          BY <1>1, <1>2, PlacesShift
      <4>3. missed.index \in Index
          BY <1>5, <2>1
      <4> QED BY <3>1, <4>1, <4>2, <4>3 DEF Age
    <3>3. gl_tail' = Trunc(Trunc(gl_head + a, N) + 1, N)
        BY <1>2, <1>5, <2>1, <3>1
    <3> HIDE DEF a
    <3>4. gl_tail' = Trunc(gl_head + (a + 1), N)
        BY <1>1, <3>1, <3>3, Sizes DEF Trunc
    <3>5. limit = a + 1
        BY <1>4, <2>1 DEF a
    <3>7. gl_tail' = Trunc(gl_head + limit, N)
        BY <3>4, <3>5
    <3>8. gl_num' = limit - read
        BY <1>2, <3>1, <3>2, <3>5, Sizes
    <3> QED BY <3>7, <3>8
  <2>2. CASE ~mis
    <3>1. gl_tail' = Trunc(Trunc(gl_head + gl_num, N) + one, N) /\ limit = gl_num + one
        BY <1>1, <1>2, <1>4, <2>2
    <3>2. gl_tail' = Trunc(gl_head + limit, N)
        BY <1>1, <1>3, <3>1, Sizes DEF Trunc
    <3>3. gl_num' = gl_num + one - read
        BY <1>2, <2>2
    <3> QED BY <3>1, <3>2, <3>3, <1>1, <1>2, <1>3
  <2> QED BY <2>1, <2>2
<1>10. gl_tail' = Trunc(gl_head' + gl_num', N)
  <2>1. limit \in read .. N - 1
      BY <1>2, <1>6, Sizes
  <2> QED BY <1>1, <1>2, <1>7, <1>9, <2>1, PlacesShift
<1>11. ASSUME NEW i \in Index
       PROVE  /\ Dist(gl_head', i, N) < gl_num' <=> read <= Age(i) /\ Age(i) < limit
              /\ read <= Age(i) => Dist(gl_head', i, N) = Age(i) - read
  <2> DEFINE a == Age(i)
             b == Dist(gl_head', i, N)
  <2>1. a \in 0 .. N - 1 /\ b \in 0 .. N - 1
      BY <1>1, <1>7, Places DEF Age
  <2>3. (read <= a => b = a - read) /\ (read > a => b = a + N - read)
    <3>1. \A j \in Index : read <= Dist(gl_head, j, N) =>
              Dist(Trunc(gl_head + read, N), j, N) = Dist(gl_head, j, N) - read
        BY <1>1, <1>2, PlacesShift
    <3>2. \A j \in Index : read > Dist(gl_head, j, N) =>
              Dist(Trunc(gl_head + read, N), j, N) = Dist(gl_head, j, N) + N - read
        BY <1>1, <1>2, PlacesShift
    <3> QED BY <1>7, <3>1, <3>2 DEF Age
  <2> HIDE DEF a, b
  <2>2. b < gl_num' <=> read <= a /\ a < limit
      BY <1>2, <1>6, <1>9, <2>1, <2>3, Sizes
  <2> QED BY <2>2, <2>3 DEF a, b
<1>12. mis => read <= Age(missed.index) /\ Age(missed.index) < limit
    BY <1>4, <1>5
<1> QED BY <1>2, <1>5, <1>6, <1>7, <1>8, <1>9, <1>10, <1>11, <1>12 DEF Stays, read, limit

\* An entry whose owner has not reached write-back is not touched.
LEMMA EntryKept ==
    ASSUME Types, Pipe, ~xq,
           NEW iq, NEW busy, NEW rrex, NEW ok, NEW brex, NEW fin, NEW memex, NEW done, NEW csrx,
           Clock(iq, busy, rrex, ok, brex, fin, memex, done, csrx), ~commit_xcpt(memex),
           NEW p \in Issued
    PROVE  /\ p.index \in Index /\ Age(p.index) \in 0 .. N - 1 /\ Age(p.index) < gl_num
           /\ p.index # gl_tail
           /\ gl_entries'[p.index].data = gl_entries[p.index].data
           /\ gl_valid'[p.index] <=> gl_valid[p.index]
           /\ gl_entries'[p.index].ex <=> gl_entries[p.index].ex
<1>1. p.index \in Index /\ Age(p.index) < gl_num
    BY DEF Pipe, Owners, Owns, Live, Age, N
<1>2. gl_head \in Index /\ gl_num \in 0 .. N - 1
    BY DEF Types, TypeOK, N
<1>3. Age(p.index) \in 0 .. N - 1
    BY <1>1, <1>2, Places DEF Age
<1>4. p.index # gl_tail
  <2>1. Age(gl_tail) = gl_num
      BY PlacesAfter
  <2> QED BY <1>1, <1>2, <1>3, <2>1
<1>5. ~\E w \in wb : w.index = p.index
    BY DEF Pipe, OneOwner, Issued
<1>6. /\ gl_valid'[p.index] <=> gl_valid[p.index]
      /\ gl_entries'[p.index].data = gl_entries[p.index].data
      /\ gl_entries'[p.index].ex <=> gl_entries[p.index].ex
    BY <1>1, <1>4, <1>5, ListAfter
<1> QED BY <1>1, <1>3, <1>4, <1>6
\* Where the instructions in the stages come from; they all stay in the list.
LEMMA Inherit ==
    ASSUME Types, Pipe, ~xq,
           NEW iq, NEW busy, NEW rrex, NEW ok, NEW brex, NEW fin, NEW memex, NEW done, NEW csrx,
           Clock(iq, busy, rrex, ok, brex, fin, memex, done, csrx), ~commit_xcpt(memex)
    PROVE  /\ \A w \in wb' : \E p \in Issued :
                /\ w.index = p.index /\ w.rd = p.rd /\ w.prd = p.prd
                /\ Stays(p.index, busy, done, memex)
                /\ \/ p \in fin /\ w = Finished(p, memex) /\ w.ok /\ (w.ex <=> p.index = memex)
                   \/ /\ p = exe /\ Executes(busy) /\ Single(exe) /\ w.ok = ok /\ w.ex = brex
                      /\ wb' = {w} \cup {Finished(u, memex) : u \in fin}
           /\ \A u \in units' :
                /\ u \in Issued /\ Stays(u.index, busy, done, memex)
                /\ \/ u \in units /\ u \notin fin
                   \/ u = exe /\ Executes(busy) /\ ~Single(exe)
           /\ exe # None /\ ~mis => Stays(exe.index, busy, done, memex)
<1> DEFINE read == Retire(done, memex)
<1>1. Inputs(busy, rrex, ok, brex, fin, memex, done)
    BY DEF Clock
<1>2. done => \E u \in units : u.index = gl_head
    BY <1>1 DEF Inputs
<1>3. \A p \in Issued : /\ p.index \in Index /\ Age(p.index) \in 0 .. N - 1
                         /\ Age(p.index) < gl_num
    BY EntryKept
<1>4. read \in 0 .. 2 /\ Limit(busy) \in 0 .. N - 1
    BY PlacesAfter
<1>5. ~mis => gl_num <= Limit(busy)
  <2>1. ~mis => Limit(busy) = gl_num + (IF Enters(busy) THEN 1 ELSE 0)
      BY DEF Limit
  <2>2. gl_num \in 0 .. N - 1
      BY DEF Types, TypeOK, N
  <2> QED BY <2>1, <2>2, Sizes
<1>6. \A u \in units : Age(u.index) < Limit(busy)
  <2> SUFFICES ASSUME NEW u \in units PROVE Age(u.index) < Limit(busy)
      OBVIOUS
  <2>1. Age(u.index) \in 0 .. N - 1 /\ Age(u.index) < gl_num /\ gl_num \in 0 .. N - 1
      BY <1>3 DEF Issued, Types, TypeOK, N
  <2>2. CASE mis
    <3>1. missed \in wb /\ ~missed.ok
        BY <2>2 DEF mis, Mispredicted, missed
    <3>2. Age(u.index) <= Age(missed.index)
        BY <3>1 DEF Pipe, InOrderIssue
    <3>3. Limit(busy) = Age(missed.index) + 1
        BY <2>2 DEF Limit
    <3>4. Age(missed.index) \in 0 .. N - 1
        BY <3>1, Places DEF Pipe, Owners, Owns, Age, Types, TypeOK
    <3> QED BY <2>1, <3>2, <3>3, <3>4
  <2>3. CASE ~mis
      BY <1>4, <1>5, <2>1, <2>3
  <2> QED BY <2>2, <2>3
<1> HIDE DEF read
<1>7. \A p \in Issued : p \notin Leaves(fin, done) => read <= Age(p.index)
  <2> SUFFICES ASSUME NEW p \in Issued, ~(read <= Age(p.index)) PROVE p \in Leaves(fin, done)
      OBVIOUS
  <2>1. Age(p.index) < read
      BY <1>3, <1>4
  <2>2. p.index = gl_head /\ CommitsStore /\ done /\ p \in units
      BY <1>2, <2>1, UnfinishedStay DEF read
  <2> QED BY <2>2 DEF Leaves
<1>8. \A u \in fin : read <= Age(u.index)
  <2> SUFFICES ASSUME NEW u \in fin, ~(read <= Age(u.index)) PROVE FALSE
      OBVIOUS
  <2>1. u \in units /\ u \in Issued
      BY <1>1 DEF Inputs, Issued
  <2>2. Age(u.index) < read
      BY <1>3, <1>4, <2>1
  <2>3. u.index = gl_head /\ CommitsStore /\ done
      BY <1>2, <2>1, <2>2, UnfinishedStay DEF read
  <2>4. gl_entries[gl_head].data.kind = "STORE" /\ gl_entries[u.index].data.kind = u.kind
      BY <2>1, <2>3 DEF CommitsStore, Oldest, Pipe, Owners
  <2>5. u.index = memex
      BY <1>1, <2>3, <2>4 DEF Inputs
  <2> QED BY <1>1, <2>3, <2>5 DEF Inputs
<1>9. exe # None => /\ exe \in Issued /\ read <= Age(exe.index)
                    /\ ~mis => Age(exe.index) < Limit(busy)
  <2> SUFFICES ASSUME exe # None PROVE /\ exe \in Issued /\ read <= Age(exe.index)
                                       /\ ~mis => Age(exe.index) < Limit(busy)
      OBVIOUS
  <2>1. exe \in Issued
      BY DEF Issued
  <2>2. ~(Age(exe.index) < read)
      BY <1>2, <2>1, UnfinishedStay DEF read
  <2>3. /\ Age(exe.index) \in 0 .. N - 1 /\ Age(exe.index) < gl_num /\ gl_num \in 0 .. N - 1
      BY <1>3, <2>1 DEF Types, TypeOK, N
  <2> QED BY <1>4, <1>5, <2>1, <2>2, <2>3
<1>10. CASE cq
  <2>1. wb' = {} /\ units' = {}
      BY <1>10, StagesAfter
  <2> QED BY <1>9, <2>1 DEF Stays, read
<1>11. CASE ~cq
  <2>1. /\ wb' = exe_results(busy, ok, brex) \cup {Finished(u, memex) : u \in fin}
        /\ units' = (units \ Leaves(fin, done)) \cup (IF Executes(busy) /\ ~Single(exe) THEN {exe} ELSE {})
        /\ Executes(busy) => exe # None /\ ~mis
      BY <1>11, StagesAfter
  <2>2. ASSUME NEW w \in wb'
        PROVE  \E p \in Issued :
                /\ w.index = p.index /\ w.rd = p.rd /\ w.prd = p.prd
                /\ Stays(p.index, busy, done, memex)
                /\ \/ p \in fin /\ w = Finished(p, memex) /\ w.ok /\ (w.ex <=> p.index = memex)
                   \/ /\ p = exe /\ Executes(busy) /\ Single(exe) /\ w.ok = ok /\ w.ex = brex
                      /\ wb' = {w} \cup {Finished(u, memex) : u \in fin}
    <3>1. CASE w \in exe_results(busy, ok, brex)
      <4>1. Executes(busy) /\ Single(exe) /\ exe_results(busy, ok, brex) = {w}
          BY <3>1 DEF exe_results
      <4>2. w.index = exe.index /\ w.rd = exe.rd /\ w.prd = exe.prd /\ w.ok = ok /\ w.ex = brex
          BY <3>1, <4>1 DEF exe_results
      <4>3. exe \in Issued /\ Stays(exe.index, busy, done, memex)
          BY <1>9, <2>1, <4>1 DEF Stays, read
      <4> QED BY <2>1, <4>1, <4>2, <4>3
    <3>2. CASE w \notin exe_results(busy, ok, brex)
      <4>1. PICK p \in fin : w = Finished(p, memex)
          BY <2>1, <3>2
      <4>2. /\ w.index = p.index /\ w.rd = p.rd /\ w.prd = p.prd /\ w.ok /\ (w.ex <=> p.index = memex)
          BY <4>1 DEF Finished
      <4>3. p \in Issued /\ Stays(p.index, busy, done, memex)
          BY <1>1, <1>6, <1>8 DEF Inputs, Issued, Stays, read
      <4> QED BY <4>1, <4>2, <4>3
    <3> QED BY <3>1, <3>2
  <2>3. ASSUME NEW u \in units'
        PROVE  /\ u \in Issued /\ Stays(u.index, busy, done, memex)
               /\ \/ u \in units /\ u \notin fin
                  \/ u = exe /\ Executes(busy) /\ ~Single(exe)
    <3>1. CASE u \in units \ Leaves(fin, done)
        BY <1>6, <1>7, <3>1 DEF Issued, Stays, Leaves, read
    <3>2. CASE u \notin units \ Leaves(fin, done)
      <4>1. u = exe /\ Executes(busy) /\ ~Single(exe)
          BY <2>1, <3>2
      <4> QED BY <1>9, <2>1, <4>1 DEF Stays, read
    <3> QED BY <3>1, <3>2
  <2>4. exe # None /\ ~mis => Stays(exe.index, busy, done, memex)
      BY <1>9 DEF Stays, read
  <2> QED BY <2>2, <2>3, <2>4
<1> QED BY <1>10, <1>11
LEMMA PipeKept ==
    ASSUME IInv, NEW iq, NEW busy, NEW rrex, NEW ok, NEW brex, NEW fin, NEW memex, NEW done, NEW csrx,
           Clock(iq, busy, rrex, ok, brex, fin, memex, done, csrx), ~xq'
    PROVE  Pipe'
<1>1. Types
    BY DEF IInv
<1>2. CASE xq
  <2>1. /\ gl_head' = 0 /\ gl_tail' = 0 /\ gl_num' = 0 /\ wb' = {} /\ units' = {} /\ exe' = None
      BY <1>1, <1>2, ListAfter, StagesAfter
  <2>2. 0 \in Index /\ Trunc(0 + 0, N) = 0
      BY Sizes DEF Trunc
  <2>3. \A i \in Index : ~(Dist(0, i, N) < 0)
      BY <2>2, Places
  <2>4. Issued' = {}
      BY <2>1 DEF Issued
  <2>5. Occupied'
      BY <2>1, <2>2, <2>3 DEF Occupied, Live, N
  <2> QED BY <2>1, <2>4, <2>5 DEF Pipe, Owners, OneOwner, InOrderIssue
<1>3. CASE ~xq
  <2> DEFINE read == Retire(done, memex)
             stays(i) == Stays(i, busy, done, memex)
             limit == Limit(busy)
  <2>1. Pipe
      BY <1>3 DEF IInv
  <2>2. Inputs(busy, rrex, ok, brex, fin, memex, done)
      BY DEF Clock
  <2>3. ~commit_xcpt(memex)
    <3>1. xq' = exception_enable_d(memex, csrx)
        BY Zenon DEF Clock, Cycle
    <3> QED BY <1>3, <3>1 DEF exception_enable_d
  <2>4. gl_head \in Index /\ gl_num \in 0 .. N - 1 /\ gl_tail \in Index
        /\ exe \in Instr \cup {None} /\ rr \in Instr \cup {None}
      BY <1>1 DEF Types, TypeOK, N
  <2>5. /\ read \in 0 .. 2 /\ limit \in 0 .. N - 1 /\ read <= limit /\ (mis => limit <= gl_num)
        /\ gl_num' = limit - read
        /\ gl_tail' = Trunc(gl_head' + gl_num', N)
        /\ Age(gl_tail) = gl_num
        /\ \A i \in Index :
              /\ Dist(gl_head', i, N) < gl_num' <=> stays(i)
              /\ read <= Age(i) => Dist(gl_head', i, N) = Age(i) - read
      BY <1>1, <1>3, <2>1, <2>3, PlacesAfter
  <2>6. \A i : stays(i) <=> read <= Age(i) /\ Age(i) < limit
      BY DEF Stays
  <2>7. \A p \in Issued :
           /\ p.index \in Index /\ Age(p.index) \in 0 .. N - 1 /\ Age(p.index) < gl_num
           /\ p.index # gl_tail
           /\ gl_entries'[p.index].data = gl_entries[p.index].data
           /\ gl_valid'[p.index] <=> gl_valid[p.index]
           /\ gl_entries'[p.index].ex <=> gl_entries[p.index].ex
      BY <1>1, <1>3, <2>1, <2>3, EntryKept
  <2>8. \A w \in wb' : \E p \in Issued :
                /\ w.index = p.index /\ w.rd = p.rd /\ w.prd = p.prd /\ stays(p.index)
                /\ \/ p \in fin /\ w = Finished(p, memex) /\ w.ok
                   \/ /\ p = exe /\ Executes(busy) /\ Single(exe) /\ w.ok = ok
                      /\ wb' = {w} \cup {Finished(u, memex) : u \in fin}
      BY <1>1, <1>3, <2>1, <2>3, Inherit
  <2>9. \A u \in units' : /\ u \in Issued /\ stays(u.index)
                          /\ \/ u \in units /\ u \notin fin
                             \/ u = exe /\ Executes(busy) /\ ~Single(exe)
      BY <1>1, <1>3, <2>1, <2>3, Inherit
  <2>10. exe # None /\ ~mis => stays(exe.index)
      BY <1>1, <1>3, <2>1, <2>3, Inherit
  <2>11. exe' # None =>
             /\ ~mis
             /\ \/ /\ exe # None /\ ~Executes(busy) /\ ~Enters(busy)
                   /\ exe' = Snoop(exe)
                \/ /\ Enters(busy) /\ ~rrex /\ exe' = [Snoop(rr) EXCEPT !.index = gl_tail]
      BY <1>1, StagesAfter
  <2>12. Executes(busy) => exe # None
      BY DEF Executes
  <2>13. /\ ~mis /\ Enters(busy) => limit = gl_num + 1
         /\ ~mis /\ ~Enters(busy) => limit = gl_num
      BY <2>4 DEF Limit
  <2>14. Enters(busy) => rr \in Instr
      BY <2>4 DEF Enters
  <2> HIDE DEF read, stays, limit
  <2>15. /\ \A p, q \in Issued : p.index = q.index => p = q
         /\ exe # None => exe \notin units /\ exe \in Issued
         /\ fin \subseteq units
      BY <2>1, <2>2 DEF Pipe, OneOwner, Issued, Inputs
  \* The two ways an instruction is in EXE after the cycle.
  <2>16. exe' # None =>
            \/ /\ exe # None /\ ~mis /\ ~Executes(busy) /\ ~Enters(busy) /\ stays(exe.index)
               /\ exe'.index = exe.index /\ exe'.rd = exe.rd /\ exe'.prd = exe.prd /\ exe'.kind = exe.kind
            \/ /\ Enters(busy) /\ ~mis /\ ~rrex
               /\ exe'.index = gl_tail /\ exe'.rd = rr.rd /\ exe'.prd = rr.prd /\ exe'.kind = rr.kind
    <3>1. exe # None => /\ Snoop(exe).index = exe.index /\ Snoop(exe).rd = exe.rd
                        /\ Snoop(exe).prd = exe.prd /\ Snoop(exe).kind = exe.kind
        BY <2>4, SnoopKeeps
    <3> DEFINE j == [Snoop(rr) EXCEPT !.index = gl_tail]
    <3>2. rr # None => j.index = gl_tail /\ j.rd = rr.rd /\ j.prd = rr.prd /\ j.kind = rr.kind
        BY <2>4, SnoopKeeps
    <3>3. Enters(busy) => rr # None
        BY DEF Enters
    <3> HIDE DEF j
    <3> QED BY <2>10, <2>11, <3>1, <3>2, <3>3 DEF j
  <2>17. Occupied'
    <3>1. ASSUME NEW i \in Index, stays(i) PROVE gl_entries'[i].data \in Data
      <4>1. gl_entries'[i].data = IF Enters(busy) /\ i = gl_tail THEN Taken ELSE gl_entries[i].data
          BY <1>1, ListAfter
      <4>2. CASE Enters(busy) /\ i = gl_tail
        <5>1. Taken \in Data
            BY <2>14, <4>2 DEF Taken, Data, Instr
        <5> QED BY <4>1, <4>2, <5>1
      <4>3. CASE ~(Enters(busy) /\ i = gl_tail)
        <5>1. Age(i) \in 0 .. N - 1 /\ (Age(i) = gl_num => i = gl_tail)
            BY <2>4, <2>5, Places DEF Age
        <5>2. Age(i) < gl_num
            BY <2>4, <2>5, <2>6, <2>13, <3>1, <4>3, <5>1
        <5>3. gl_entries[i].data \in Data
            BY <2>1, <5>2 DEF Pipe, Occupied, Live, Age, N
        <5> QED BY <4>1, <4>3, <5>3
      <4> QED BY <4>2, <4>3
    <3>2. \A i \in Index : Live(i)' => stays(i)
        BY <2>5 DEF Live, N
    <3> QED BY <2>5, <3>1, <3>2 DEF Occupied
  \* What takes over from an instruction that stays owns its entry.
  <2>18. ASSUME NEW q, NEW p \in Issued, q.index = p.index, q.rd = p.rd, q.prd = p.prd, stays(p.index)
         PROVE  /\ Owns(q)' /\ gl_entries'[q.index].data.kind = p.kind
    <3>1. Owns(p) /\ gl_entries[p.index].data.kind = p.kind
        BY <2>1 DEF Pipe, Owners
    <3>2. Dist(gl_head', q.index, NUM_ENTRIES) < gl_num'
        BY <2>5, <2>7, <2>18 DEF N
    <3> QED BY <2>7, <2>18, <3>1, <3>2 DEF Owns, Live
  <2>19. ASSUME Enters(busy), ~mis, ~rrex, NEW q, q.index = gl_tail, q.rd = rr.rd, q.prd = rr.prd
         PROVE  Owns(q)' /\ gl_entries'[q.index].data.kind = rr.kind
    <3>1. Taken.rd = rr.rd /\ Taken.prd = rr.prd /\ Taken.kind = rr.kind
        BY DEF Taken
    <3>2. ~\E w \in wb : w.index = gl_tail
      <4>1. \A w \in wb : w.index \in Index /\ Age(w.index) < gl_num
          BY <2>1 DEF Pipe, Owners, Owns, Live, Age, N
      <4>2. \A w \in wb : Age(w.index) \in 0 .. N - 1
          BY <2>4, <4>1, Places DEF Age
      <4> QED BY <2>4, <2>5, <4>1, <4>2
    <3>3. /\ gl_valid'[gl_tail] <=> rr.kind = "STORE" \/ rrex
          /\ gl_entries'[gl_tail].data = Taken
          /\ gl_entries'[gl_tail].ex <=> rrex
        BY <1>1, <2>4, <2>19, <3>2, ListAfter
    <3>4. stays(gl_tail)
      <4>1. read <= gl_num
          BY <1>1, RetiresFinished DEF read
      <4> QED BY <2>4, <2>5, <2>6, <2>13, <2>19, <4>1
    <3>5. Dist(gl_head', gl_tail, NUM_ENTRIES) < gl_num'
        BY <2>4, <2>5, <3>4 DEF N
    <3> QED BY <2>4, <2>19, <3>1, <3>3, <3>5 DEF Owns, Live
  <2>20. Owners'
    <3>1. \A w \in wb' : Owns(w)'
        BY <2>8, <2>18
    <3>2. \A u \in units' : Owns(u)' /\ gl_entries'[u.index].data.kind = u.kind
        BY <2>9, <2>18
    <3>3. \A q : q = exe' /\ q # None => Owns(q)' /\ gl_entries'[q.index].data.kind = q.kind
        BY <2>15, <2>16, <2>18, <2>19
    <3>4. \A w \in wb' : ~w.ok => gl_entries'[w.index].data.kind = "BR"
      <4> SUFFICES ASSUME NEW w \in wb', ~w.ok PROVE gl_entries'[w.index].data.kind = "BR"
          OBVIOUS
      <4>1. exe \in Issued /\ w.index = exe.index /\ w.rd = exe.rd /\ w.prd = exe.prd /\ stays(exe.index) /\ ~ok
          BY <2>8
      <4>2. exe.kind = "BR"
          BY <2>2, <4>1 DEF Inputs
      <4> QED BY <2>18, <4>1, <4>2
    <3>5. \A q \in Issued' : q \in units' \/ (q = exe' /\ q # None)
        BY DEF Issued
    <3> QED BY <3>1, <3>2, <3>3, <3>4, <3>5 DEF Owners
  <2>21. OneOwner'
    <3>1. ASSUME NEW u \in units', NEW w \in wb', u.index = w.index PROVE FALSE
      <4>1. PICK p \in Issued : /\ w.index = p.index
                                /\ \/ p \in fin
                                   \/ p = exe /\ Executes(busy) /\ Single(exe)
          BY <2>8
      <4>2. u = p
          BY <2>9, <2>15, <3>1, <4>1
      <4> QED BY <2>9, <2>12, <2>15, <4>1, <4>2
    <3>2. \A u, v \in units' : u.index = v.index => u = v
        BY <2>9, <2>15
    <3>3. ASSUME NEW w \in wb', NEW x \in wb', w.index = x.index PROVE w = x
      <4>1. PICK p \in Issued :
                /\ w.index = p.index
                /\ \/ p \in fin /\ w = Finished(p, memex)
                   \/ /\ p = exe /\ Executes(busy)
                      /\ wb' = {w} \cup {Finished(u, memex) : u \in fin}
          BY <2>8
      <4>2. PICK q \in Issued :
                /\ x.index = q.index
                /\ \/ q \in fin /\ x = Finished(q, memex)
                   \/ /\ q = exe /\ Executes(busy)
                      /\ wb' = {x} \cup {Finished(u, memex) : u \in fin}
          BY <2>8
      <4>3. p = q
          BY <2>15, <3>3, <4>1, <4>2
      <4>4. CASE p \in fin
          BY <2>12, <2>15, <4>1, <4>2, <4>3, <4>4
      <4>5. CASE p \notin fin
        <5>1. p = exe /\ exe # None /\ x \in {w} \cup {Finished(u, memex) : u \in fin}
            BY <2>12, <4>1, <4>5
        <5>2. ASSUME NEW u \in fin, x = Finished(u, memex) PROVE FALSE
          <6>1. u.index = exe.index /\ u \in Issued
              BY <2>15, <4>2, <4>3, <5>1, <5>2 DEF Finished, Issued
          <6> QED BY <2>15, <5>1, <6>1
        <5> QED BY <5>1, <5>2
      <4> QED BY <4>4, <4>5
    <3>4. ASSUME exe' # None, NEW p \in units' \cup wb' PROVE p.index # exe'.index
      <4>1. PICK q \in Issued : p.index = q.index /\ (q \in units \/ (q = exe /\ Executes(busy)))
          BY <2>8, <2>9, <2>15
      <4> QED BY <2>7, <2>15, <2>16, <3>4, <4>1
    <3> QED BY <3>1, <3>2, <3>3, <3>4 DEF OneOwner
  <2>22. InOrderIssue'
    <3>1. exe # None => Age(exe.index) = gl_num - 1
        BY <2>1 DEF Pipe, InOrderIssue
    <3>2. exe' # None => Dist(gl_head', exe'.index, N) = gl_num' - 1
      <4> SUFFICES ASSUME exe' # None PROVE Dist(gl_head', exe'.index, N) = gl_num' - 1
          OBVIOUS
      <4>1. CASE exe # None /\ ~mis /\ ~Enters(busy) /\ stays(exe.index) /\ exe'.index = exe.index
        <5>1. exe.index \in Index /\ read <= Age(exe.index)
            BY <2>6, <2>7, <2>15, <4>1
        <5>2. Dist(gl_head', exe.index, N) = Age(exe.index) - read
            BY <2>5, <5>1
        <5>3. Age(exe.index) - read = gl_num' - 1
            BY <2>4, <2>5, <2>13, <3>1, <4>1
        <5> QED BY <4>1, <5>2, <5>3
      <4>2. CASE Enters(busy) /\ ~mis /\ exe'.index = gl_tail
        <5>1. read <= Age(gl_tail)
            BY <1>1, <2>5, RetiresFinished DEF read
        <5>2. Dist(gl_head', gl_tail, N) = Age(gl_tail) - read
            BY <2>4, <2>5, <5>1
        <5>3. Age(gl_tail) - read = gl_num' - 1
            BY <2>4, <2>5, <2>13, <4>2
        <5> QED BY <4>2, <5>2, <5>3
      <4> QED BY <2>16, <4>1, <4>2
    <3>3. ASSUME NEW w \in wb', ~w.ok, NEW p \in wb' \cup units'
          PROVE  Dist(gl_head', p.index, N) <= Dist(gl_head', w.index, N)
      <4>1. exe \in Issued /\ w.index = exe.index /\ stays(exe.index) /\ exe # None
          BY <2>8, <2>12, <3>3
      <4>2. PICK q \in Issued : p.index = q.index /\ stays(q.index)
          BY <2>8, <2>9
      <4>3. /\ Dist(gl_head', p.index, N) = Age(q.index) - read
            /\ Dist(gl_head', w.index, N) = Age(exe.index) - read
          BY <2>5, <2>6, <2>7, <4>1, <4>2
      <4>4. /\ Age(q.index) \in 0 .. N - 1 /\ Age(q.index) < gl_num
            /\ Age(exe.index) \in 0 .. N - 1 /\ Age(exe.index) = gl_num - 1
          BY <2>7, <3>1, <4>1
      <4> QED BY <2>4, <2>5, <4>3, <4>4
    <3> QED BY <3>2, <3>3 DEF InOrderIssue, Age
  <2> QED BY <2>17, <2>20, <2>21, <2>22 DEF Pipe
<1> QED BY <1>2, <1>3

LEMMA InitIInv == Init => IInv
<1> SUFFICES ASSUME Init PROVE IInv
    OBVIOUS
<1>1. /\ gl_head = 0 /\ gl_tail = 0 /\ gl_num = 0
      /\ gl_valid = [i \in Index |-> FALSE]
      /\ gl_entries = [i \in Index |-> [data |-> NoIndex, ex |-> FALSE]]
      /\ gl_ex = [valid |-> FALSE, index |-> 0]
    BY Sizes, Zenon DEF Init, GL!GlInit, GL!NoIndex, NoIndex
<1>2. /\ rr = None /\ exe = None /\ units = {} /\ wb = {} /\ xq = FALSE /\ cq = FALSE /\ fence = FALSE
    BY DEF Init
<1>3. FL!TypeOK
  <2>1. /\ fl_head = [v \in FL!Ckpt |-> 0] /\ fl_tail = 0 /\ fl_num = [v \in FL!Ckpt |-> NUM_ENTRIES]
        /\ fl_ring = [i \in FL!Entry |-> NUM_ISA_REGISTERS + i]
        /\ fl_vh = 0 /\ fl_vt = 0 /\ fl_ck = 0
      BY Zenon DEF Init, FL!Init
  <2>2. /\ 0 \in FL!Entry /\ 0 \in FL!Ckpt /\ NUM_ENTRIES \in 0 .. 2 * NUM_ENTRIES - 1
        /\ 0 \in 0 .. 2 * NUM_CHECKPOINTS - 1
      BY Sizes DEF N
  <2>3. \A i \in FL!Entry : NUM_ISA_REGISTERS + i \in FL!Phys
      BY Sizes
  <2> QED BY <2>1, <2>2, <2>3 DEF FL!TypeOK
<1>4. TableTypes /\ VersionsTogether
  <2>1. /\ rt_map = [r \in Reg |-> [v \in FL!Ckpt |-> r]]
        /\ rt_ready = [r \in Reg |-> [v \in FL!Ckpt |-> TRUE]]
        /\ rt_commit = [r \in Reg |-> r]
      BY Sizes, Zenon DEF Init, RT!Init
  <2>2. \A r \in Reg : r \in FL!Phys
      BY Sizes
  <2>3. VersionsTogether
      BY DEF Init, FL!Init, RT!Init, VersionsTogether
  <2> QED BY <2>1, <2>2, <2>3 DEF TableTypes
<1>5. 0 \in Index /\ 0 \in 0 .. N - 1
    BY Sizes
<1>6. Types
    BY <1>1, <1>2, <1>3, <1>4, <1>5 DEF Types, TypeOK, TableTypes, GLEntry, N
<1>7. Occupied
  <2>1. Trunc(0 + 0, N) = 0 /\ \A i \in Index : ~(Dist(0, i, N) < 0)
      BY <1>5, Sizes, Places DEF Trunc
  <2> QED BY <1>1, <2>1 DEF Occupied, Live, N
<1>8. Owners /\ OneOwner /\ InOrderIssue
    BY <1>2 DEF Owners, OneOwner, InOrderIssue, Issued
<1> QED BY <1>6, <1>7, <1>8 DEF IInv, Pipe

LEMMA IInvKept == IInv /\ [Next]_vars => IInv'
<1> SUFFICES ASSUME IInv, [Next]_vars PROVE IInv'
    OBVIOUS
<1>1. CASE UNCHANGED vars
  <2>1. UNCHANGED <<fl_head, fl_tail, fl_num, fl_ring, fl_vh, fl_vt, fl_ck, rt_map, rt_ready, rt_commit,
                    rt_vh, rt_vt, rt_ck, gl_head, gl_tail, gl_num, gl_valid, gl_entries, gl_ex,
                    rr, exe, units, wb, xq, cq, fence>>
      BY <1>1 DEF vars, flVars, rtVars, glVars
  <2>2. Types'
      BY <2>1 DEF IInv, Types, TypeOK, FL!TypeOK, VersionsTogether
  <2>3. ~xq' => Pipe'
      BY <2>1 DEF IInv, Pipe, Occupied, Owners, OneOwner, InOrderIssue, Owns, Issued, Live, Age
  <2> QED BY <2>2, <2>3 DEF IInv
<1>2. CASE Next
  <2>1. PICK iq, busy, rrex, ok, brex, fin, memex, done, csrx :
           Clock(iq, busy, rrex, ok, brex, fin, memex, done, csrx)
      BY <1>2, NextIsClock
  <2>2. VersionsTogether'
      BY <1>2, VersionsKept DEF IInv, Types
  <2>3. Types'
      BY <2>1, <2>2, TypesKept
  <2>4. ~xq' => Pipe'
      BY <2>1, PipeKept
  <2> QED BY <2>3, <2>4 DEF IInv
<1> QED BY <1>1, <1>2

\* Every register of the back end stays within its type: what commit hands to
\* the free list is a register, pointers stay inside their rings, and no count
\* leaves its range.
THEOREM BackendTyped == Spec => []TypeOK
<1>1. IInv => TypeOK
    BY DEF IInv, Types
<1> QED BY <1>1, InitIInv, IInvKept, PTL DEF Spec

\* Whatever was flushed, recovered or retired in between, an instruction between
\* register read and write-back owns its graduation list entry.
THEOREM EntriesOwned == Spec => []ResultsOwnTheirEntry
<1>1. IInv => ResultsOwnTheirEntry
  <2> SUFFICES ASSUME IInv, ~xq, NEW i \in wb \cup units \cup ({exe} \ {None}) PROVE Owns(i)
      BY DEF ResultsOwnTheirEntry, Owns
  <2> QED BY DEF IInv, Pipe, Owners, Issued
<1> QED BY <1>1, InitIInv, IInvKept, PTL DEF Spec
-----------------------------------------------------------------------------
(* The exception record.                                                     *)

\* Entries that carry an exception, or will at the end of the cycle.
Failing == {i \in Index : Live(i) /\ gl_entries[i].ex} \cup {w.index : w \in {w \in wb : w.ex}}

Record ==
    /\ gl_ex.valid <=> Failing # {}
    /\ gl_ex.valid => gl_ex.index \in Failing /\ \A i \in Failing : Age(gl_ex.index) <= Age(i)

\* Nothing that fails retires before its exception is taken.
LEMMA FailingStay ==
    ASSUME Types, Pipe, Record, NEW done, NEW memex, ~commit_xcpt(memex),
           done => \E u \in units : u.index = gl_head, NEW i \in Failing
    PROVE  /\ i \in Index /\ Age(i) \in 0 .. N - 1 /\ Age(i) < gl_num
           /\ Retire(done, memex) <= Age(i)
<1> DEFINE read == Retire(done, memex)
           second == Trunc(gl_head + 1, N)
<1>1. /\ read \in 0 .. 2 /\ read <= gl_num
      /\ read >= 1 => Offered > 0
      /\ read = 2 => ~commit_2_blocked
    BY RetiresFinished
<1>2. gl_head \in Index
    BY DEF Types, TypeOK
<1>3. i \in Index /\ Age(i) < gl_num
  <2>1. \A w \in wb : w.index \in Index /\ Age(w.index) < gl_num
      BY DEF Pipe, Owners, Owns, Live, Age, N
  <2> QED BY <2>1 DEF Failing, Live, Age, N
<1>4. Age(i) \in 0 .. N - 1
    BY <1>2, <1>3, Places DEF Age
<1> HIDE DEF read, second
<1>5. CASE \E w \in wb : w.index = i
  <2>1. PICK w \in wb : w.index = i
      BY <1>5
  <2>2. ~(Age(i) < read)
      BY <2>1, UnfinishedStay DEF read
  <2> QED BY <1>1, <1>3, <1>4, <2>2 DEF read
<1>6. CASE ~\E w \in wb : w.index = i
  <2>1. gl_entries[i].ex
      BY <1>6 DEF Failing
  <2>2. Age(i) = 0 => i = gl_head
      BY <1>2, <1>3, Places, Sizes DEF Age, Trunc
  <2>3. Age(i) = 1 => i = second
      BY <1>2, <1>3, Places DEF Age, second
  <2>4. ASSUME Age(i) = 0, read >= 1 PROVE FALSE
    <3>1. Oldest.ex /\ Offered > 0 /\ ~CommitsStore
        BY <1>1, <2>1, <2>2, <2>4 DEF Oldest, CommitsStore
    <3>2. gl_ex.valid
        BY DEF Record
    <3> QED BY <3>1, <3>2 DEF commit_xcpt
  <2>5. ASSUME Age(i) = 1, read = 2 PROVE FALSE
    <3>1. Second = gl_entries[second]
        BY SameWrap, Zenon DEF Second, GL!GlPtr, N, second
    <3>2. Second.ex
        BY <2>1, <2>3, <2>5, <3>1
    <3> QED BY <1>1, <2>5, <3>2 DEF commit_2_blocked
  <2> QED BY <1>1, <1>3, <1>4, <2>4, <2>5 DEF read
<1> QED BY <1>5, <1>6

\* What fails after a cycle: what failed and stays, and what raises an exception
\* in the units, in the branch unit and in register read.
LEMMA FailingAfter ==
    ASSUME Types, Pipe, Record, ~xq,
           NEW iq, NEW busy, NEW rrex, NEW ok, NEW brex, NEW fin, NEW memex, NEW done, NEW csrx,
           Clock(iq, busy, rrex, ok, brex, fin, memex, done, csrx), ~commit_xcpt(memex),
           NEW i
    PROVE  i \in Failing' <=>
             /\ i \in Index /\ Stays(i, busy, done, memex)
             /\ \/ i \in Failing \/ i = memex \/ (brex /\ i = exe.index)
                \/ (Enters(busy) /\ rrex /\ i = gl_tail)
<1> DEFINE stays(j) == Stays(j, busy, done, memex)
<1>1. Inputs(busy, rrex, ok, brex, fin, memex, done)
    BY DEF Clock
<1>2. gl_head \in Index /\ gl_tail \in Index /\ gl_num \in 0 .. N - 1
    BY DEF Types, TypeOK, N
<1>3. /\ Limit(busy) \in 0 .. N - 1 /\ (mis => Limit(busy) <= gl_num)
      /\ Age(gl_tail) = gl_num
      /\ \A j \in Index : Dist(gl_head', j, N) < gl_num' <=> stays(j)
    BY PlacesAfter
<1>4. \A j \in Index : Live(j)' <=> stays(j)
    BY <1>3 DEF Live, N
<1>5. \A w \in wb : w.index \in Index /\ Live(w.index)
    BY DEF Pipe, Owners, Owns
<1>6. \A j \in Index : Live(j) => j # gl_tail
    BY <1>2, <1>3, Places DEF Live, Age, N
<1>7. ASSUME NEW j \in Index, stays(j), ~(Enters(busy) /\ j = gl_tail) PROVE Live(j)
  <2>1. Age(j) \in 0 .. N - 1 /\ (Age(j) = gl_num => j = gl_tail)
      BY <1>2, <1>3, Places DEF Age
  <2>2. Age(j) < Limit(busy)
      BY <1>7 DEF Stays
  <2>3. /\ ~mis /\ Enters(busy) => Limit(busy) = gl_num + 1
        /\ ~mis /\ ~Enters(busy) => Limit(busy) = gl_num
      BY <1>2 DEF Limit
  <2>4. Age(j) < gl_num
      BY <1>2, <1>3, <1>7, <2>1, <2>2, <2>3
  <2> QED BY <2>4 DEF Live, Age, N
<1>8. \A j \in Index :
         gl_entries'[j].ex <=> IF \E w \in wb : w.index = j
                               THEN gl_entries[j].ex \/ \E w \in wb : w.index = j /\ w.ex
                               ELSE IF Enters(busy) /\ j = gl_tail THEN rrex ELSE gl_entries[j].ex
    BY ListAfter
<1>9. \A w \in wb' : w.ex => /\ w.index \in Index /\ stays(w.index)
                             /\ w.index = memex \/ (brex /\ w.index = exe.index)
  <2> SUFFICES ASSUME NEW w \in wb', w.ex
               PROVE  /\ w.index \in Index /\ stays(w.index)
                      /\ w.index = memex \/ (brex /\ w.index = exe.index)
      OBVIOUS
  <2>1. PICK p \in Issued : /\ w.index = p.index /\ stays(p.index)
                            /\ (w.ex <=> p.index = memex) \/ (p = exe /\ w.ex = brex)
    <3>1. \A v \in wb' : \E p \in Issued :
                /\ v.index = p.index /\ v.rd = p.rd /\ v.prd = p.prd /\ stays(p.index)
                /\ \/ p \in fin /\ v = Finished(p, memex) /\ v.ok /\ (v.ex <=> p.index = memex)
                   \/ /\ p = exe /\ Executes(busy) /\ Single(exe) /\ v.ok = ok /\ v.ex = brex
                      /\ wb' = {v} \cup {Finished(u, memex) : u \in fin}
        BY Inherit
    <3> HIDE DEF stays
    <3> QED BY <3>1
  <2>2. p.index \in Index
      BY EntryKept
  <2> QED BY <2>1, <2>2
<1>10. memex # NoIndex => \E w \in wb' : w.ex /\ w.index = memex
  <2> SUFFICES ASSUME memex # NoIndex PROVE \E w \in wb' : w.ex /\ w.index = memex
      OBVIOUS
  <2>1. PICK u \in units : u.index = memex /\ u \in fin /\ ~cq
      BY <1>1 DEF Inputs
  <2>2. Finished(u, memex) \in wb'
      BY <2>1, StagesAfter
  <2>3. Finished(u, memex).ex /\ Finished(u, memex).index = memex
      BY <2>1 DEF Finished
  <2> QED BY <2>2, <2>3
<1>21. ~cq => wb' = exe_results(busy, ok, brex) \cup {Finished(u, memex) : u \in fin}
    BY StagesAfter
<1>11. brex => \E w \in wb' : w.ex /\ w.index = exe.index
  <2> SUFFICES ASSUME brex PROVE \E w \in wb' : w.ex /\ w.index = exe.index
      OBVIOUS
  <2>1. Executes(busy) /\ Single(exe) /\ ~cq
      BY <1>1 DEF Inputs, Single
  <2> DEFINE w == [index |-> exe.index, rd |-> exe.rd, prd |-> exe.prd, ex |-> brex,
                   ck |-> exe.ck, chkp |-> exe.chkp, ok |-> ok]
  <2>2. w \in exe_results(busy, ok, brex) /\ w.ex /\ w.index = exe.index
      BY <2>1 DEF exe_results
  <2> QED BY <1>21, <2>1, <2>2
<1>12. Failing' = {j \in Index : Live(j)' /\ gl_entries'[j].ex} \cup {w.index : w \in {w \in wb' : w.ex}}
    BY DEF Failing, Index
<1>13. i \in Failing' <=> \/ i \in Index /\ stays(i) /\ gl_entries'[i].ex
                         \/ \E w \in wb' : w.ex /\ w.index = i
    BY <1>4, <1>12
<1>14. i \in Failing <=> \/ i \in Index /\ Live(i) /\ gl_entries[i].ex
                        \/ \E w \in wb : w.ex /\ w.index = i
    BY DEF Failing
<1>15. NoIndex \notin Index
    BY Sizes DEF NoIndex
<1> HIDE DEF stays
<1>16. ASSUME i \in Index, stays(i), gl_entries'[i].ex
       PROVE  i \in Failing \/ (Enters(busy) /\ rrex /\ i = gl_tail)
    BY <1>5, <1>7, <1>8, <1>14, <1>16
<1>17. ASSUME i \in Index, stays(i), i \in Failing
       PROVE  gl_entries'[i].ex
    BY <1>5, <1>6, <1>8, <1>14, <1>17
<1>18. ASSUME Enters(busy), rrex, i = gl_tail
       PROVE  gl_entries'[i].ex
    BY <1>2, <1>5, <1>6, <1>8, <1>18
<1>19. ASSUME i \in Failing'
       PROVE  /\ i \in Index /\ stays(i)
              /\ \/ i \in Failing \/ i = memex \/ (brex /\ i = exe.index)
                 \/ (Enters(busy) /\ rrex /\ i = gl_tail)
    BY <1>9, <1>13, <1>16, <1>19
<1>20. ASSUME /\ i \in Index /\ stays(i)
              /\ \/ i \in Failing \/ i = memex \/ (brex /\ i = exe.index)
                 \/ (Enters(busy) /\ rrex /\ i = gl_tail)
       PROVE  i \in Failing'
    BY <1>10, <1>11, <1>13, <1>15, <1>17, <1>18, <1>20
<1> QED BY <1>19, <1>20 DEF stays
LEMMA RecordKept ==
    ASSUME IInv, ~xq => Record,
           NEW iq, NEW busy, NEW rrex, NEW ok, NEW brex, NEW fin, NEW memex, NEW done, NEW csrx,
           Clock(iq, busy, rrex, ok, brex, fin, memex, done, csrx), ~xq'
    PROVE  Record'
<1>1. Types
    BY DEF IInv
<1>2. CASE xq
  <2>1. /\ gl_num' = 0 /\ gl_head' = 0 /\ wb' = {} /\ gl_ex' = [valid |-> FALSE, index |-> 0]
      BY <1>1, <1>2, ListAfter, StagesAfter, RecordAfter
  <2>2. \A i \in Index : ~Live(i)'
    <3>1. \A i \in Index : ~(Dist(0, i, N) < 0)
        BY Places, Sizes
    <3> QED BY <2>1, <3>1 DEF Live, N
  <2>3. Failing' = {}
      BY <2>1, <2>2 DEF Failing
  <2> QED BY <2>1, <2>3 DEF Record
<1>3. CASE ~xq
  <2> DEFINE read == Retire(done, memex)
             stays(i) == Stays(i, busy, done, memex)
             limit == Limit(busy)
             x == ex_from_exe(memex, brex)
             takes == x # NoIndex /\ (gl_ex.valid => GL!Older(x, gl_ex.index))
             raised(i) == \/ i \in Failing \/ i = memex \/ (brex /\ i = exe.index)
                          \/ (Enters(busy) /\ rrex /\ i = gl_tail)
  <2>1. Pipe /\ Record
      BY <1>3 DEF IInv
  <2>2. Inputs(busy, rrex, ok, brex, fin, memex, done)
      BY DEF Clock
  <2>3. ~commit_xcpt(memex)
    <3>1. xq' = exception_enable_d(memex, csrx)
        BY Zenon DEF Clock, Cycle
    <3> QED BY <1>3, <3>1 DEF exception_enable_d
  <2>4. gl_head \in Index /\ gl_num \in 0 .. N - 1 /\ gl_tail \in Index
        /\ gl_ex \in [valid : BOOLEAN, index : Index]
      BY <1>1 DEF Types, TypeOK, N
  <2>5. /\ read \in 0 .. 2 /\ limit \in 0 .. N - 1
        /\ Age(gl_tail) = gl_num
        /\ \A i \in Index : read <= Age(i) => Dist(gl_head', i, N) = Age(i) - read
        /\ mis => missed \in wb
      BY <1>1, <1>3, <2>1, <2>3, PlacesAfter
  <2>6. \A i : stays(i) <=> read <= Age(i) /\ Age(i) < limit
      BY DEF Stays
  <2>7. \A i : i \in Failing' <=> i \in Index /\ stays(i) /\ raised(i)
      BY <1>1, <1>3, <2>1, <2>3, FailingAfter
  <2>8. \A i \in Failing : i \in Index /\ Age(i) \in 0 .. N - 1 /\ Age(i) < gl_num /\ read <= Age(i)
    <3>1. done => \E u \in units : u.index = gl_head
        BY <2>2 DEF Inputs
    <3> QED BY <1>1, <2>1, <2>3, <3>1, FailingStay
  <2>9. /\ takes => gl_ex' = [valid |-> TRUE, index |-> x]
        /\ ~takes /\ mis =>
             gl_ex' = IF gl_ex.valid /\ GL!Older(missed.index, gl_ex.index)
                      THEN [valid |-> FALSE, index |-> 0] ELSE gl_ex
        /\ ~takes /\ ~mis =>
             gl_ex' = IF Enters(busy) /\ rrex /\ ~gl_ex.valid /\ x = NoIndex
                      THEN [valid |-> TRUE, index |-> gl_tail] ELSE gl_ex
      BY <1>1, <1>3, RecordAfter, Zenon
  <2>10. \A i \in Index : Age(i) \in 0 .. N - 1
      BY <2>4, Places DEF Age
  <2>11. memex # NoIndex => /\ memex \in Index /\ stays(memex) /\ Age(memex) < gl_num
                            /\ mis => Age(memex) <= Age(missed.index)
    <3> SUFFICES ASSUME memex # NoIndex
                 PROVE  /\ memex \in Index /\ stays(memex) /\ Age(memex) < gl_num
                        /\ mis => Age(memex) <= Age(missed.index)
        OBVIOUS
    <3>1. PICK u \in units : u.index = memex /\ u \in fin /\ ~cq
        BY <2>2 DEF Inputs
    <3>2. memex \in Index /\ Age(memex) < gl_num
        BY <2>1, <3>1 DEF Pipe, Owners, Owns, Issued, Live, Age, N
    <3>3. Finished(u, memex) \in wb'
        BY <1>1, <1>3, <3>1, StagesAfter
    <3>4. Finished(u, memex).index = memex
        BY <3>1 DEF Finished
    <3>5. \A w \in wb' : \E p \in Issued : w.index = p.index /\ stays(p.index)
        BY <1>1, <1>3, <2>1, <2>3, Inherit
    <3>6. stays(memex)
      <4> HIDE DEF stays
      <4> QED BY <3>3, <3>4, <3>5
    <3>7. mis => Age(memex) <= Age(missed.index)
      <4>1. mis => missed \in wb /\ ~missed.ok
          BY DEF mis, Mispredicted, missed
      <4> QED BY <2>1, <3>1, <4>1 DEF Pipe, InOrderIssue
    <3> QED BY <3>2, <3>6, <3>7
  <2>12. brex => /\ exe.index \in Index /\ stays(exe.index) /\ Age(exe.index) = gl_num - 1 /\ ~mis
    <3>1. brex => exe # None /\ ~mis
        BY <2>2 DEF Inputs, Executes
    <3>2. exe # None => exe.index \in Index /\ Age(exe.index) = gl_num - 1
        BY <2>1 DEF Pipe, Owners, Owns, Issued, InOrderIssue
    <3>3. exe # None /\ ~mis => stays(exe.index)
        BY <1>1, <1>3, <2>1, <2>3, Inherit
    <3> QED BY <3>1, <3>2, <3>3
  <2>13. x = IF memex # NoIndex THEN memex ELSE IF brex THEN exe.index ELSE NoIndex
      BY DEF ex_from_exe, GL!NoIndex, NoIndex
  <2>14. NoIndex \notin Index
      BY Sizes DEF NoIndex
  <2>15. Enters(busy) => ~mis
      BY DEF Enters
  <2>16. mis => limit = Age(missed.index) + 1 /\ missed.index \in Index
    <3>1. mis => limit = Age(missed.index) + 1
        BY DEF Limit
    <3>2. \A w \in wb : w.index \in Index
        BY <2>1 DEF Pipe, Owners, Owns
    <3> QED BY <2>5, <3>1, <3>2
  <2>17. ~mis => gl_num <= limit
      BY <2>4, Sizes DEF Limit
  <2>18. /\ gl_ex.valid => /\ gl_ex.index \in Failing
                            /\ \A i \in Failing : Age(gl_ex.index) <= Age(i)
         /\ ~gl_ex.valid => Failing = {}
      BY <2>1 DEF Record
  <2>19. \A i, j \in Index : GL!Older(i, j) <=> Age(i) < Age(j)
      BY <2>4, OlderIsPlace
  <2> HIDE DEF read, stays, limit, x
  \* An index e that is oldest among what is raised and stays.
  <2>20. ASSUME NEW e \in Index, stays(e), raised(e), gl_ex' = [valid |-> TRUE, index |-> e],
                \A i \in Index : stays(i) /\ raised(i) => Age(e) <= Age(i)
         PROVE  Record'
    <3>1. e \in Failing'
        BY <2>7, <2>20
    <3>2. ASSUME NEW i \in Failing' PROVE Dist(gl_head', e, N) <= Dist(gl_head', i, N)
      <4>1. i \in Index /\ stays(i) /\ raised(i)
          BY <2>7
      <4>2. /\ Dist(gl_head', e, N) = Age(e) - read
            /\ Dist(gl_head', i, N) = Age(i) - read
          BY <2>5, <2>6, <2>20, <4>1
      <4>3. Age(e) <= Age(i) /\ Age(e) \in 0 .. N - 1 /\ Age(i) \in 0 .. N - 1
          BY <2>10, <2>20, <4>1
      <4> QED BY <2>5, <4>2, <4>3
    <3>3. gl_ex'.valid /\ gl_ex'.index = e
        BY <2>20
    <3> QED BY <3>1, <3>2, <3>3 DEF Record, Age
  <2>21. ASSUME ~gl_ex'.valid, \A i \in Index : ~(stays(i) /\ raised(i))
         PROVE  Record'
    <3>1. Failing' = {}
        BY <2>7, <2>21
    <3> QED BY <2>21, <3>1 DEF Record
  <2> HIDE DEF raised, takes
  <2>22. CASE takes
    <3>1. x \in Index /\ stays(x) /\ raised(x) /\ Age(x) < gl_num
        BY <2>4, <2>10, <2>11, <2>12, <2>13, <2>22 DEF takes, raised
    <3>2. ASSUME NEW i \in Index, raised(i) PROVE Age(x) <= Age(i)
      <4>1. CASE i \in Failing
        <5>1. gl_ex.valid /\ gl_ex.index \in Index /\ Age(gl_ex.index) <= Age(i)
            BY <2>4, <2>18, <4>1
        <5>2. Age(x) < Age(gl_ex.index)
            BY <2>19, <2>22, <3>1, <5>1 DEF takes
        <5> QED BY <2>10, <3>1, <5>1, <5>2
      <4>2. CASE i = memex
        <5>1. x = memex
            BY <2>13, <2>14, <3>2, <4>2
        <5> QED BY <2>10, <4>2, <5>1
      <4>3. CASE brex /\ i = exe.index
          BY <2>4, <2>10, <2>12, <3>1, <4>3
      <4>4. CASE Enters(busy) /\ i = gl_tail
          BY <2>4, <2>5, <2>10, <3>1, <4>4
      <4> QED BY <3>2, <4>1, <4>2, <4>3, <4>4 DEF raised
    <3> QED BY <2>9, <2>20, <2>22, <3>1, <3>2
  <2>23. CASE ~takes /\ gl_ex.valid /\ ~(mis /\ GL!Older(missed.index, gl_ex.index))
    <3> DEFINE e == gl_ex.index
    <3>1. gl_ex' = gl_ex /\ gl_ex = [valid |-> TRUE, index |-> e]
        BY <2>4, <2>9, <2>23
    <3>2. e \in Index /\ e \in Failing /\ Age(e) \in 0 .. N - 1 /\ Age(e) < gl_num /\ read <= Age(e)
        BY <2>8, <2>18, <2>23
    <3> HIDE DEF e
    <3>3. raised(e)
        BY <3>2 DEF raised
    <3>4. Age(e) < limit
      <4>1. CASE mis
        <5>1. ~(Age(missed.index) < Age(e))
            BY <2>16, <2>19, <2>23, <3>2, <4>1 DEF e
        <5> QED BY <2>10, <2>16, <3>2, <4>1, <5>1
      <4>2. CASE ~mis
          BY <2>4, <2>5, <2>17, <3>2, <4>2
      <4> QED BY <4>1, <4>2
    <3>5. x # NoIndex => x \in Index /\ Age(e) <= Age(x)
      <4>1. x # NoIndex => x \in Index /\ ~(Age(x) < Age(e))
          BY <2>11, <2>12, <2>13, <2>19, <2>23, <3>2 DEF takes, e
      <4> QED BY <2>10, <3>2, <4>1
    <3>6. ASSUME NEW i \in Index, raised(i) PROVE Age(e) <= Age(i)
      <4>1. CASE i \in Failing
          BY <2>18, <2>23, <4>1 DEF e
      <4>2. CASE i = memex
        <5>1. x = memex /\ x # NoIndex
            BY <2>13, <2>14, <3>6, <4>2
        <5> QED BY <3>5, <4>2, <5>1
      <4>3. CASE brex /\ i = exe.index
          BY <2>4, <2>10, <2>12, <3>2, <4>3
      <4>4. CASE Enters(busy) /\ i = gl_tail
          BY <2>4, <2>5, <2>10, <3>2, <4>4
      <4> QED BY <3>6, <4>1, <4>2, <4>3, <4>4 DEF raised
    <3>7. stays(e)
        BY <2>6, <3>2, <3>4
    <3> QED BY <2>20, <3>1, <3>2, <3>3, <3>6, <3>7
  <2>24. CASE ~takes /\ gl_ex.valid /\ mis /\ GL!Older(missed.index, gl_ex.index)
    <3>1. gl_ex' = [valid |-> FALSE, index |-> 0]
        BY <2>9, <2>24
    <3>2. Age(missed.index) < Age(gl_ex.index)
        BY <2>4, <2>16, <2>19, <2>24
    <3>3. memex = NoIndex
      <4> SUFFICES ASSUME memex # NoIndex PROVE FALSE
          OBVIOUS
      <4>1. x = memex /\ memex \in Index /\ Age(memex) <= Age(missed.index)
          BY <2>11, <2>13, <2>24
      <4>2. Age(memex) < Age(gl_ex.index)
          BY <2>4, <2>10, <2>16, <2>24, <3>2, <4>1
      <4>3. GL!Older(memex, gl_ex.index)
          BY <2>4, <2>19, <4>1, <4>2
      <4> QED BY <2>24, <4>1, <4>3 DEF takes
    <3>4. ASSUME NEW i \in Index, stays(i), raised(i) PROVE FALSE
      <4>1. i \in Failing
          BY <2>12, <2>14, <2>15, <2>24, <3>3, <3>4 DEF raised
      <4>2. Age(gl_ex.index) <= Age(i)
          BY <2>18, <2>24, <4>1
      <4>3. Age(i) < Age(missed.index) + 1
          BY <2>6, <2>16, <2>24, <3>4
      <4> QED BY <2>4, <2>10, <2>16, <2>24, <3>2, <4>2, <4>3
    <3> QED BY <2>21, <3>1, <3>4
  <2>25. CASE ~takes /\ ~gl_ex.valid
    <3>1. x = NoIndex /\ Failing = {}
        BY <2>18, <2>25 DEF takes
    <3>2. memex = NoIndex /\ ~brex
        BY <2>12, <2>13, <2>14, <3>1
    <3>3. CASE Enters(busy) /\ rrex
      <4>1. gl_ex' = [valid |-> TRUE, index |-> gl_tail]
          BY <2>9, <2>15, <2>25, <3>1, <3>3
      <4>2. raised(gl_tail) /\ \A i \in Index : raised(i) => i = gl_tail
          BY <2>14, <3>1, <3>2, <3>3 DEF raised
      <4>3. read <= gl_num
          BY <1>1, RetiresFinished DEF read
      <4>4. limit = gl_num + 1
          BY <2>15, <3>3 DEF limit, Limit
      <4>5. stays(gl_tail)
          BY <2>4, <2>5, <2>6, <4>3, <4>4
      <4>6. Age(gl_tail) <= Age(gl_tail)
          BY <2>4, <2>5
      <4> QED BY <2>4, <2>20, <4>1, <4>2, <4>5, <4>6
    <3>4. CASE ~(Enters(busy) /\ rrex)
      <4>1. gl_ex' = gl_ex
          BY <2>9, <2>25, <3>4
      <4>2. \A i \in Index : ~raised(i)
          BY <2>14, <3>1, <3>2, <3>4 DEF raised
      <4> QED BY <2>21, <2>25, <4>1, <4>2
    <3> QED BY <3>3, <3>4
  <2> QED BY <2>22, <2>23, <2>24, <2>25
<1> QED BY <1>2, <1>3

RInv == ~xq => Record

LEMMA InitRInv == Init => RInv
<1> SUFFICES ASSUME Init PROVE Record
    BY DEF RInv
<1>1. gl_head = 0 /\ gl_num = 0 /\ wb = {} /\ ~gl_ex.valid
    BY DEF Init, GL!GlInit
<1>2. \A i \in Index : ~Live(i)
  <2>1. \A i \in Index : ~(Dist(0, i, N) < 0)
      BY Places, Sizes
  <2> QED BY <1>1, <2>1 DEF Live, N
<1> QED BY <1>1, <1>2 DEF Record, Failing

LEMMA RInvKept == IInv /\ RInv /\ [Next]_vars => RInv'
<1> SUFFICES ASSUME IInv, RInv, [Next]_vars, ~xq' PROVE Record'
    BY DEF RInv
<1>1. CASE UNCHANGED vars
    BY <1>1 DEF vars, glVars, RInv, Record, Failing, Live, Age
<1>2. CASE Next
  <2>1. PICK iq, busy, rrex, ok, brex, fin, memex, done, csrx :
           Clock(iq, busy, rrex, ok, brex, fin, memex, done, csrx)
      BY <1>2, NextIsClock
  <2> QED BY <2>1, RecordKept DEF RInv
<1> QED BY <1>1, <1>2

\* The single exception record always names the oldest instruction that fails,
\* and is valid exactly when one does: exceptions of register read, of the branch
\* unit and of memory are merged, flushed and retired without losing or
\* reordering any.
THEOREM OldestExceptionTaken == Spec => []OldestException
<1>1. IInv /\ RInv => OldestException
  <2> SUFFICES ASSUME IInv, Record PROVE OldestException
      BY DEF OldestException, RInv
  <2> DEFINE failing == {i \in Index : Live(i) /\ gl_entries[i].ex} \cup {w.index : w \in {w \in wb : w.ex}}
  <2>1. failing = Failing
      BY DEF Failing
  <2>2. /\ gl_ex.valid <=> failing # {}
        /\ gl_ex.valid => gl_ex.index \in failing
      BY <2>1 DEF Record
  <2>3. \A i \in failing : i \in Index
    <3>1. wb \subseteq Result
        BY DEF IInv, Types, TypeOK
    <3> QED BY <3>1 DEF Result
  <2>4. gl_head \in Index
      BY DEF IInv, Types, TypeOK
  <2>5. gl_ex.valid => \A i \in failing : Position(gl_ex.index) <= Position(i)
    <3> SUFFICES ASSUME gl_ex.valid, NEW i \in failing PROVE Position(gl_ex.index) <= Position(i)
        OBVIOUS
    <3>1. Age(gl_ex.index) <= Age(i) /\ gl_ex.index \in failing
        BY <2>1 DEF Record
    <3>2. Age(gl_ex.index) \in 0 .. N - 1 /\ Age(i) \in 0 .. N - 1
        BY <2>3, <2>4, <3>1, Places DEF Age
    <3>3. Position(i) = Age(i) + 1 /\ Position(gl_ex.index) = Age(gl_ex.index) + 1
        BY DEF Position, Age, N
    <3> QED BY <3>1, <3>2, <3>3
  <2> QED BY <2>2, <2>5 DEF OldestException
<1> QED BY <1>1, InitRInv, RInvKept, InitIInv, IInvKept, PTL DEF Spec
-----------------------------------------------------------------------------
(* Instructions that stall the fetch.                                        *)

IsCsr(i) == gl_entries[i].data.kind = "CSR"

\* A stall_csr_fence instruction in flight is the youngest, and the fence is up.
Fenced ==
    /\ rr # None /\ rr.kind = "CSR" => fence
    /\ \A i \in Index : Live(i) /\ IsCsr(i) => fence /\ Age(i) = gl_num - 1 /\ rr = None
    /\ cq => gl_num = 0 /\ rr = None

FInv == (~xq => Fenced) /\ (xq => ~cq)

\* A CSR instruction offered to commit is alone in the list and nothing was
\* mispredicted.
LEMMA CsrAtHead ==
    ASSUME Types, Pipe, Fenced, Offered > 0, Oldest.data.kind = "CSR"
    PROVE  /\ gl_num = 1 /\ rr = None /\ fence
           /\ \A p \in wb \cup Issued : FALSE
<1>1. gl_head \in Index /\ gl_num \in 0 .. N - 1
    BY DEF Types, TypeOK, N
<1>2. gl_num > 0 /\ gl_valid[gl_head]
    BY <1>1 DEF Offered, GL!Offered
<1>3. Age(gl_head) = 0
    BY <1>1, Sizes DEF Age, Dist, Trunc
<1>4. Live(gl_head) /\ IsCsr(gl_head)
    BY <1>1, <1>2, <1>3 DEF Live, Age, IsCsr, Oldest, N
<1>5. gl_num = 1 /\ rr = None /\ fence
    BY <1>1, <1>3, <1>4 DEF Fenced
<1>6. ASSUME NEW p \in wb \cup Issued PROVE FALSE
  <2>1. Owns(p)
      BY DEF Pipe, Owners
  <2>2. p.index \in Index /\ Age(p.index) < 1
      BY <1>5, <2>1 DEF Owns, Live, Age, N
  <2>3. p.index = gl_head
      BY <1>1, <1>3, <2>2, Places DEF Age
  <2> QED BY <1>2, <1>4, <2>1, <2>3 DEF Owns, IsCsr
<1> QED BY <1>5, <1>6

LEMMA FencedKept ==
    ASSUME IInv, FInv,
           NEW iq, NEW busy, NEW rrex, NEW ok, NEW brex, NEW fin, NEW memex, NEW done, NEW csrx,
           Clock(iq, busy, rrex, ok, brex, fin, memex, done, csrx)
    PROVE  FInv'
<1> DEFINE csr == Offered > 0 /\ Oldest.data.kind = "CSR"
           f0 == Freed(1, done, memex, csrx)
           f1 == Freed(2, done, memex, csrx)
           read == Retire(done, memex)
<1>1. Types /\ (~xq => Pipe /\ Fenced)
    BY DEF IInv, FInv
<1>2. /\ xq' = exception_enable_d(memex, csrx) /\ cq' = csr_enable_d(memex, csrx)
      /\ fence' = NextFence(iq, busy, f0, f1) /\ rr' = NextRR(iq, busy, f0, f1)
      /\ iq \in QueueHead(busy)
    BY Zenon DEF Clock, Cycle
<1>3. xq' => ~cq'
    BY <1>2 DEF exception_enable_d, csr_enable_d
<1>4. CASE xq
  <2>1. gl_num' = 0 /\ gl_head' = 0
      BY <1>1, <1>4, ListAfter
  <2>2. rr' = None
      BY <1>2, <1>4 DEF NextRR, flush_ir
  <2>3. \A i \in Index : ~Live(i)'
    <3>1. \A i \in Index : ~(Dist(0, i, N) < 0)
        BY Places, Sizes
    <3> QED BY <2>1, <3>1 DEF Live, N
  <2> QED BY <1>3, <2>1, <2>2, <2>3 DEF FInv, Fenced
<1>5. CASE ~xq /\ ~xq'
  <2>1. Pipe /\ Fenced /\ ~commit_xcpt(memex)
      BY <1>1, <1>2, <1>5 DEF exception_enable_d
  <2>2. /\ gl_head \in Index /\ gl_tail \in Index /\ gl_num \in 0 .. N - 1
        /\ rr \in Instr \cup {None}
      BY <1>1 DEF Types, TypeOK, N
  <2>3. fence => iq = None
      BY <1>2 DEF QueueHead
  <2>4. renames(iq, busy, f0, f1) => iq # None
      BY DEF renames
  <2>5. \/ rr' = None
        \/ ~mis /\ rr' = Snoop(rr) /\ stall_rr(busy)
        \/ ~mis /\ renames(iq, busy, f0, f1) /\ rr' = Renamed(iq, busy, f0, f1)
      BY <1>2 DEF NextRR, flush_ir
  <2>6. Snoop(rr) = None \/ (rr # None /\ Snoop(rr).kind = rr.kind)
      BY <2>2, SnoopKeeps
  <2>7. fence' <=> (~mis /\ ((renames(iq, busy, f0, f1) /\ iq.kind = "CSR") \/ (fence /\ ~csr)))
      BY <1>2, <1>5 DEF NextFence
  <2>8. Renamed(iq, busy, f0, f1).kind = iq.kind
      BY DEF Renamed
  <2>9. csr => /\ gl_num = 1 /\ rr = None /\ fence /\ ~mis /\ read >= 1
    <3> SUFFICES ASSUME csr PROVE gl_num = 1 /\ rr = None /\ fence /\ ~mis /\ read >= 1
        OBVIOUS
    <3>1. gl_num = 1 /\ rr = None /\ fence /\ \A p \in wb \cup Issued : FALSE
        BY <1>1, <2>1, CsrAtHead
    <3>2. ~mis
        BY <3>1 DEF mis, Mispredicted
    <3>3. ~CommitsStore /\ Offered # 0
        BY DEF CommitsStore
    <3>4. read >= 1
        BY <2>1, <3>3 DEF Retire
    <3> QED BY <3>1, <3>2, <3>4
  <2>10. /\ read \in 0 .. 2 /\ read <= gl_num /\ Limit(busy) \in 0 .. N - 1
         /\ gl_num' = Limit(busy) - read
         /\ Age(gl_tail) = gl_num
         /\ mis => missed \in wb
      BY <1>1, <1>5, <2>1, PlacesAfter, RetiresFinished
  <2>11. \A i \in Index :
            /\ Live(i)' <=> Stays(i, busy, done, memex)
            /\ read <= Age(i) => Age(i)' = Age(i) - read
    <3>1. \A i \in Index :
             /\ Dist(gl_head', i, N) < gl_num' <=> Stays(i, busy, done, memex)
             /\ read <= Age(i) => Dist(gl_head', i, N) = Age(i) - read
        BY <1>1, <1>5, <2>1, PlacesAfter
    <3> QED BY <3>1 DEF Live, Age, N
  <2>12. /\ ~mis /\ Enters(busy) => Limit(busy) = gl_num + 1
         /\ ~mis /\ ~Enters(busy) => Limit(busy) = gl_num
         /\ mis => Limit(busy) = Age(missed.index) + 1
      BY <2>2 DEF Limit
  <2>13. Enters(busy) => rr # None /\ ~stall_rr(busy) /\ ~mis
      BY DEF Enters
  <2> HIDE DEF csr, f0, f1, read
  <2>14. rr' # None /\ rr'.kind = "CSR" => fence'
    <3> SUFFICES ASSUME rr' # None, rr'.kind = "CSR" PROVE fence'
        OBVIOUS
    <3>1. CASE ~mis /\ rr' = Snoop(rr)
      <4>1. rr # None /\ fence
          BY <2>1, <2>6, <3>1 DEF Fenced
      <4> QED BY <2>7, <2>9, <3>1, <4>1
    <3>2. CASE ~mis /\ renames(iq, busy, f0, f1) /\ rr' = Renamed(iq, busy, f0, f1)
        BY <2>7, <2>8, <3>2
    <3> QED BY <2>5, <3>1, <3>2
  <2>15. ASSUME NEW i \in Index, Live(i)', IsCsr(i)'
         PROVE  fence' /\ Age(i)' = gl_num' - 1 /\ rr' = None
    <3>1. read <= Age(i) /\ Age(i) < Limit(busy)
        BY <2>11, <2>15 DEF Stays, read
    <3>2. gl_entries'[i].data = IF Enters(busy) /\ i = gl_tail THEN Taken ELSE gl_entries[i].data
        BY <1>1, ListAfter
    <3>3. Age(i) \in 0 .. N - 1 /\ (Age(i) = gl_num => i = gl_tail) /\ Age(i)' = Age(i) - read
      <4>1. Age(i) \in 0 .. N - 1 /\ (Age(i) = gl_num => i = gl_tail)
          BY <2>2, <2>10, Places DEF Age
      <4> QED BY <2>11, <3>1, <4>1
    <3>4. CASE Enters(busy) /\ i = gl_tail
      <4>1. rr.kind = "CSR"
          BY <2>15, <3>2, <3>4 DEF Taken, IsCsr
      <4>2. fence /\ ~mis /\ ~csr /\ ~stall_rr(busy)
          BY <2>1, <2>9, <2>13, <3>4, <4>1 DEF Fenced
      <4>3. fence' /\ rr' = None
          BY <2>3, <2>4, <2>5, <2>7, <4>2
      <4>4. Age(i)' = gl_num' - 1
          BY <2>2, <2>10, <2>12, <3>3, <3>4, <4>2
      <4> QED BY <4>3, <4>4
    <3>5. CASE ~(Enters(busy) /\ i = gl_tail)
      <4>1. IsCsr(i)
          BY <2>15, <3>2, <3>5 DEF IsCsr
      <4>2. mis => missed.index \in Index /\ Age(missed.index) \in 0 .. N - 1 /\ Age(missed.index) < gl_num
                   /\ ~IsCsr(missed.index)
        <5>1. mis => missed \in wb /\ ~missed.ok
            BY DEF mis, Mispredicted, missed
        <5>2. mis => missed.index \in Index /\ Age(missed.index) < gl_num /\ ~IsCsr(missed.index)
            BY <2>1, <5>1 DEF Pipe, Owners, Owns, Live, Age, IsCsr, N
        <5> QED BY <2>2, <5>2, Places DEF Age
      <4>3. Age(i) < gl_num
          BY <2>2, <2>10, <2>12, <2>13, <3>1, <3>3, <3>5, <4>2
      <4>4. fence /\ Age(i) = gl_num - 1 /\ rr = None
          BY <2>1, <4>1, <4>3 DEF Fenced, Live, Age, N
      <4>5. ~mis
        <5> SUFFICES ASSUME mis PROVE FALSE
            OBVIOUS
        <5>1. Age(missed.index) = Age(i)
            BY <2>2, <2>12, <3>1, <3>3, <4>2, <4>4
        <5>2. missed.index = i
            BY <2>2, <4>2, <5>1, Places DEF Age
        <5> QED BY <4>1, <4>2, <5>2
      <4>6. ~csr
          BY <2>2, <2>9, <2>10, <3>1, <3>3, <4>4
      <4>7. fence' /\ rr' = None
        <5>1. Snoop(None) = None
            BY DEF Snoop
        <5> QED BY <2>3, <2>4, <2>5, <2>7, <4>4, <4>5, <4>6, <5>1
      <4>8. Age(i)' = gl_num' - 1
          BY <2>2, <2>10, <2>12, <2>13, <3>3, <4>4, <4>5
      <4> QED BY <4>7, <4>8
    <3> QED BY <3>4, <3>5
  <2>16. cq' => gl_num' = 0 /\ rr' = None
    <3> SUFFICES ASSUME cq' PROVE gl_num' = 0 /\ rr' = None
        OBVIOUS
    <3>1. csr
        BY <1>2 DEF csr_enable_d, csr
    <3>2. gl_num = 1 /\ rr = None /\ fence /\ ~mis /\ read >= 1
        BY <2>9, <3>1
    <3>3. gl_num' = 0
        BY <2>10, <2>12, <2>13, <3>2
    <3>4. Snoop(None) = None
        BY DEF Snoop
    <3> QED BY <2>3, <2>4, <2>5, <3>2, <3>3, <3>4
  <2> QED BY <1>5, <2>14, <2>15, <2>16 DEF FInv, Fenced
<1>6. CASE ~xq /\ xq'
    BY <1>3, <1>6 DEF FInv
<1> QED BY <1>4, <1>5, <1>6

LEMMA InitFInv == Init => FInv
<1> SUFFICES ASSUME Init PROVE FInv
    OBVIOUS
<1>1. gl_head = 0 /\ gl_num = 0 /\ rr = None /\ ~cq
    BY DEF Init, GL!GlInit
<1>2. \A i \in Index : ~Live(i)
  <2>1. \A i \in Index : ~(Dist(0, i, N) < 0)
      BY Places, Sizes
  <2> QED BY <1>1, <2>1 DEF Live, N
<1> QED BY <1>1, <1>2 DEF FInv, Fenced

LEMMA FInvKept == IInv /\ FInv /\ [Next]_vars => FInv'
<1> SUFFICES ASSUME IInv, FInv, [Next]_vars PROVE FInv'
    OBVIOUS
<1>1. CASE UNCHANGED vars
    BY <1>1 DEF vars, glVars, FInv, Fenced, Live, Age, IsCsr
<1>2. CASE Next
  <2>1. PICK iq, busy, rrex, ok, brex, fin, memex, done, csrx :
           Clock(iq, busy, rrex, ok, brex, fin, memex, done, csrx)
      BY <1>2, NextIsClock
  <2> QED BY <2>1, FencedKept
<1> QED BY <1>1, <1>2

\* A stall_csr_fence instruction is alone in the back end when it commits, and
\* the flush that follows it finds the pipeline empty.
THEOREM CsrCommitsAlone == Spec => []CsrAlone
<1>1. IInv /\ FInv => CsrAlone
  <2> SUFFICES ASSUME IInv, FInv PROVE CsrAlone
      OBVIOUS
  <2>1. ASSUME Offered > 0, Oldest.data.kind = "CSR"
        PROVE  gl_num = 1 /\ rr = None /\ exe = None /\ units = {} /\ wb = {}
    <3>1. ~xq
        BY <2>1 DEF Offered
    <3>2. gl_num = 1 /\ rr = None /\ \A p \in wb \cup Issued : FALSE
        BY <2>1, <3>1, CsrAtHead DEF IInv, FInv
    <3> QED BY <3>2 DEF Issued
  <2>2. ASSUME cq PROVE gl_num = 0 /\ rr = None /\ exe = None /\ units = {} /\ wb = {}
    <3>1. ~xq /\ gl_num = 0 /\ rr = None /\ Pipe /\ Types
        BY <2>2 DEF IInv, FInv, Fenced
    <3>2. gl_head \in Index
        BY <3>1 DEF Types, TypeOK
    <3>3. \A i \in Index : ~Live(i)
        BY <3>1, <3>2, Places DEF Live, N
    <3>4. \A p \in wb \cup Issued : FALSE
        BY <3>1, <3>3 DEF Pipe, Owners, Owns
    <3> QED BY <3>1, <3>4 DEF Issued
  <2> QED BY <2>1, <2>2 DEF CsrAlone
<1> QED BY <1>1, InitFInv, FInvKept, InitIInv, IInvKept, PTL DEF Spec
-----------------------------------------------------------------------------
(* The protocol of the graduation list.  The list that GLP describes is this *)
(* one with entries that remember no instruction.                            *)

Shadow(e) == [i \in Index |-> [data |-> NoIndex, ex |-> e[i].ex]]

LEMMA ShadowWrap ==
    ASSUME NEW x, NEW y, NEW m
    PROVE  /\ GLP!Trunc(x, m) = GL!Trunc(x, m) /\ GLP!Dist(x, y, m) = GL!Dist(x, y, m)
           /\ GLP!Dist(x, y, m) = Dist(x, y, m) /\ GLP!GlPtr(x) = GL!GlPtr(x)
           /\ GLP!Older(x, y) = GL!Older(x, y) /\ GLP!TakesExe(x) = GL!TakesExe(x)
           /\ GLP!NoIndex = NoIndex /\ GL!NoIndex = NoIndex /\ GLP!Index = Index
<1>1. /\ GLP!Trunc(x, m) = GL!Trunc(x, m) /\ GLP!Dist(x, y, m) = GL!Dist(x, y, m)
      /\ GLP!Dist(x, y, m) = Dist(x, y, m)
    BY Zenon DEF GLP!Trunc, GLP!Dist, GL!Trunc, GL!Dist, Trunc, Dist
<1>2. GLP!GlPtr(x) = GL!GlPtr(x)
    BY Zenon DEF GLP!GlPtr, GL!GlPtr, GLP!Trunc, GL!Trunc
<1>3. GLP!Older(x, y) = GL!Older(x, y)
    BY Zenon DEF GLP!Older, GL!Older
<1>4. GLP!NoIndex = NoIndex /\ GL!NoIndex = NoIndex /\ GLP!Index = Index
    BY DEF GLP!NoIndex, GL!NoIndex, NoIndex, GLP!Index, Index
<1>5. GLP!TakesExe(x) = GL!TakesExe(x)
    BY <1>4, Zenon DEF GLP!TakesExe, GL!TakesExe, GLP!Older, GL!Older
<1> QED BY <1>1, <1>2, <1>3, <1>4, <1>5

LEMMA ShadowPorts ==
    ASSUME Types, Types', NEW b, NEW e, b \in [Index -> BOOLEAN], e \in [Index -> GLEntry],
           GL!WriteBack(b, e, ToGLPorts)
    PROVE  GLP!WriteBack(b, Shadow(e), ToGLPorts)
<1> DEFINE port(i) == \E w \in ToGLPorts : w.index = i
           fails(i) == \E w \in ToGLPorts : w.index = i /\ w.ex
<1>1. /\ gl_valid' = [i \in Index |-> b[i] \/ port(i)]
      /\ gl_entries' = [i \in Index |-> IF port(i) THEN [e[i] EXCEPT !.ex = gl_entries[i].ex \/ fails(i)] ELSE e[i]]
    BY Sizes, Zenon DEF GL!WriteBack
<1>2. GLP!Index = Index
    BY DEF GLP!Index, Index
<1> HIDE DEF port, fails
<1>3. ASSUME NEW i \in Index
      PROVE  [data |-> NoIndex, ex |-> gl_entries'[i].ex]
             = IF port(i) THEN [Shadow(e)[i] EXCEPT !.ex = Shadow(gl_entries)[i].ex \/ fails(i)]
               ELSE Shadow(e)[i]
  <2>1. e[i] \in GLEntry
      OBVIOUS
  <2>2. /\ Shadow(e)[i] = [data |-> NoIndex, ex |-> e[i].ex]
        /\ Shadow(gl_entries)[i].ex = gl_entries[i].ex
      BY DEF Shadow
  <2>3. [Shadow(e)[i] EXCEPT !.ex = Shadow(gl_entries)[i].ex \/ fails(i)]
        = [data |-> NoIndex, ex |-> gl_entries[i].ex \/ fails(i)]
      BY <2>2
  <2>4. gl_entries'[i].ex = IF port(i) THEN gl_entries[i].ex \/ fails(i) ELSE e[i].ex
      BY <1>1, <2>1 DEF GLEntry
  <2> QED BY <2>2, <2>3, <2>4
<1>4. [i \in Index |-> [data |-> NoIndex, ex |-> gl_entries'[i].ex]]
      = [i \in Index |-> IF port(i) THEN [Shadow(e)[i] EXCEPT !.ex = Shadow(gl_entries)[i].ex \/ fails(i)]
                         ELSE Shadow(e)[i]]
    BY <1>3
<1> QED BY <1>1, <1>2, <1>4, Zenon DEF GLP!WriteBack, Shadow, port, fails

\* What the back end gives to the list in a cycle that takes no exception.
LEMMA ListClient ==
    ASSUME Types, Pipe, Record, ~xq, ~xq',
           NEW iq, NEW busy, NEW rrex, NEW ok, NEW brex, NEW fin, NEW memex, NEW done, NEW csrx,
           Clock(iq, busy, rrex, ok, brex, fin, memex, done, csrx),
           NEW read, NEW x, read = Retire(done, memex), x = ex_from_exe(memex, brex)
    PROVE  /\ read \in 0 .. 2 /\ read <= GL!Offered
           /\ gl_ex.valid => read <= Age(gl_ex.index)
           /\ \A w \in wb : /\ w.index \in Index /\ Age(w.index) < gl_num /\ read <= Age(w.index)
                            /\ w.ex => gl_ex.valid /\ Age(gl_ex.index) <= Age(w.index)
           /\ x # NoIndex => /\ x \in Index /\ Age(x) < gl_num /\ read <= Age(x)
                             /\ mis => Age(x) < Age(missed.index)
<1>1. Inputs(busy, rrex, ok, brex, fin, memex, done)
    BY DEF Clock
<1>2. ~commit_xcpt(memex)
  <2>1. xq' = exception_enable_d(memex, csrx)
      BY Zenon DEF Clock, Cycle
  <2> QED BY <2>1 DEF exception_enable_d
<1>3. done => memex # gl_head /\ \E u \in units : u.index = gl_head
    BY <1>1 DEF Inputs
<1>4. gl_head \in Index /\ gl_num \in 0 .. N - 1 /\ \A i \in Index : Age(i) \in 0 .. N - 1
  <2>1. gl_head \in Index /\ gl_num \in 0 .. N - 1
      BY DEF Types, TypeOK, N
  <2> QED BY <2>1, Places DEF Age
<1>5. read \in 0 .. 2
    BY RetiresFinished
<1>6. read <= GL!Offered
  <2>1. Offered = GL!Offered /\ Offered \in {0, 1, 2}
      BY Zenon DEF Offered, GL!Offered
  <2>2. Offered = 0 => read = 0
      BY DEF Retire
  <2>3. read = 2 => Offered = 2
    <3>1. read = 2 => ~commit_2_blocked
        BY RetiresFinished
    <3> QED BY <2>1, <3>1 DEF commit_2_blocked
  <2> QED BY <1>5, <2>1, <2>2, <2>3
<1>7. ASSUME NEW i \in Failing PROVE i \in Index /\ read <= Age(i)
    BY <1>2, <1>3, <1>7, FailingStay
<1>8. gl_ex.valid => read <= Age(gl_ex.index)
    BY <1>7 DEF Record
<1>9. ASSUME NEW p \in wb \cup Issued
      PROVE  /\ p.index \in Index /\ Age(p.index) < gl_num
             /\ p \in wb \/ p = exe \/ p.index = memex => read <= Age(p.index)
  <2>1. p.index \in Index /\ Age(p.index) < gl_num
      BY DEF Pipe, Owners, Owns, Live, Age, N
  <2>2. ASSUME p \in wb \/ p = exe \/ p.index = memex, Age(p.index) < read PROVE FALSE
    <3>1. p.index = gl_head /\ done /\ p \notin wb /\ p # exe
        BY <1>2, <1>3, <2>2, UnfinishedStay
    <3> QED BY <1>3, <2>2, <3>1
  <2> QED BY <1>4, <1>5, <2>1, <2>2
<1>10. ASSUME NEW w \in wb, w.ex PROVE gl_ex.valid /\ Age(gl_ex.index) <= Age(w.index)
  <2>1. w.index \in Failing
      BY <1>10 DEF Failing
  <2> QED BY <2>1 DEF Record
<1>11. ASSUME x # NoIndex
       PROVE  /\ x \in Index /\ Age(x) < gl_num /\ read <= Age(x)
              /\ mis => Age(x) < Age(missed.index)
  <2>1. CASE memex # NoIndex
    <3>1. PICK u \in units : u.index = memex
        BY <1>1, <2>1 DEF Inputs
    <3>2. x = u.index
        BY <2>1, <3>1 DEF ex_from_exe
    <3>3. u \in wb \cup Issued
        BY DEF Issued
    <3>4. x \in Index /\ Age(x) < gl_num /\ read <= Age(x)
        BY <1>9, <3>1, <3>2, <3>3
    <3>5. ASSUME mis PROVE Age(x) < Age(missed.index)
      <4>1. missed \in wb /\ ~missed.ok
          BY <3>5 DEF mis, Mispredicted, missed
      <4>2. Age(x) <= Age(missed.index) /\ x # missed.index /\ missed.index \in Index
          BY <1>9, <3>2, <4>1 DEF Pipe, InOrderIssue, OneOwner
      <4>3. Age(x) # Age(missed.index)
          BY <1>4, <3>4, <4>2, Places DEF Age
      <4> QED BY <1>4, <3>4, <4>2, <4>3
    <3> QED BY <3>4, <3>5
  <2>2. CASE memex = NoIndex
    <3>1. brex /\ x = exe.index
        BY <1>11, <2>2 DEF ex_from_exe, GL!NoIndex, NoIndex
    <3>2. exe # None /\ ~mis
        BY <1>1, <3>1 DEF Inputs, Executes
    <3>3. exe \in wb \cup Issued
        BY <3>2 DEF Issued
    <3> QED BY <1>9, <3>1, <3>2, <3>3
  <2> QED BY <2>1, <2>2
<1> QED BY <1>5, <1>6, <1>8, <1>9, <1>10, <1>11

LEMMA ListStep ==
    ASSUME Types, Types', Pipe, Record, ~xq, ~xq',
           NEW iq, NEW busy, NEW rrex, NEW ok, NEW brex, NEW fin, NEW memex, NEW done, NEW csrx,
           Clock(iq, busy, rrex, ok, brex, fin, memex, done, csrx)
    PROVE  GLP!GlNext
<1>1. PICK read, x, instr, D, F :
          /\ read = Retire(done, memex) /\ x = ex_from_exe(memex, brex) /\ instr = ToGL(busy, rrex)
          /\ D = {w.index : w \in wb} /\ F = {w.index : w \in {w \in wb : w.ex}}
    OBVIOUS
<1>2. /\ read \in 0 .. 2 /\ read <= GL!Offered
      /\ gl_ex.valid => read <= Age(gl_ex.index)
      /\ \A w \in wb : /\ w.index \in Index /\ Age(w.index) < gl_num /\ read <= Age(w.index)
                       /\ w.ex => gl_ex.valid /\ Age(gl_ex.index) <= Age(w.index)
      /\ x # NoIndex => /\ x \in Index /\ Age(x) < gl_num /\ read <= Age(x)
                        /\ mis => Age(x) < Age(missed.index)
    BY <1>1, ListClient
<1>3. \A i : GLP!GlAge(i) = Age(i)
    BY ShadowWrap, Zenon DEF GLP!GlAge, Age, N
<1>4. GLP!Index = Index /\ GLP!NoIndex = NoIndex /\ GL!NoIndex = NoIndex
    BY ShadowWrap
<1>5. \A i \in Index : Age(i) < gl_num /\ read <= Age(i) => i \in GLP!Staying(read)
  <2> SUFFICES ASSUME NEW i \in Index, Age(i) < gl_num, read <= Age(i) PROVE i \in GLP!Staying(read)
      OBVIOUS
  <2>1. gl_head \in Index
      BY DEF Types, TypeOK
  <2>2. Age(i) \in 0 .. N - 1
      BY <2>1, Places DEF Age
  <2>3. GLP!GlLive(i) /\ GLP!GlAge(i) >= read
      BY <1>2, <1>3, <2>2 DEF GLP!GlLive
  <2> QED BY <1>4, <2>3 DEF GLP!Staying
<1>6. D \subseteq GLP!Staying(read) /\ x \in GLP!Staying(read) \cup {GLP!NoIndex}
    BY <1>1, <1>2, <1>4, <1>5
<1>7. F \subseteq {i \in D : GLP!Reported(i)}
  <2> SUFFICES ASSUME NEW w \in wb, w.ex PROVE w.index \in D /\ GLP!Reported(w.index)
      BY <1>1
  <2>1. gl_ex.valid /\ Age(gl_ex.index) <= Age(w.index)
      BY <1>2
  <2> QED BY <1>1, <1>3, <2>1 DEF GLP!Reported
<1>8. GLP!MayRetire(read)
  <2>1. GLP!Offered = GL!Offered
    <3>1. GLP!GlPtr(gl_head + 1) = GL!GlPtr(gl_head + 1)
        BY ShadowWrap
    <3> QED BY <3>1 DEF GLP!Offered, GL!Offered
  <2> QED BY <1>2, <1>3, <2>1 DEF GLP!MayRetire
<1>9. GLP!Ports(D, F) = ToGLPorts
  <2>1. ASSUME NEW w \in wb PROVE (w.index \in F) = w.ex
    <3>1. w.ex \in BOOLEAN
        BY DEF Types, TypeOK, Result
    <3>2. w.index \in F <=> w.ex
        BY <1>1 DEF Pipe, OneOwner
    <3> QED BY <3>1, <3>2
  <2>2. GLP!Ports(D, F) = {[index |-> w.index, ex |-> w.index \in F] : w \in wb}
      BY <1>1 DEF GLP!Ports
  <2> QED BY <2>1, <2>2 DEF ToGLPorts
<1>10. /\ gl_valid \in [Index -> BOOLEAN] /\ gl_entries \in [Index -> GLEntry] /\ gl_tail \in Index
       /\ rrex \in BOOLEAN
    BY Zenon DEF Types, TypeOK, Clock, Inputs
<1>11. Graduate(instr, read, x)
    BY <1>1, Zenon DEF Clock, Cycle
<1>12. GLP!CycleOf(read, D, F, x)
  <2>1. CASE mis
    <3>1. GL!Flush(missed.index, read, ToGLPorts, x)
        BY <1>11, <2>1 DEF Graduate
    <3>2. missed \in wb
        BY <2>1 DEF mis, Mispredicted, missed
    <3>3. GLP!WriteBack(gl_valid, Shadow(gl_entries), ToGLPorts)
      <4>1. GL!WriteBack(gl_valid, gl_entries, ToGLPorts)
          BY <3>1, Zenon DEF GL!Flush
      <4> QED BY <1>10, <4>1, ShadowPorts
    <3>4. GLP!Flush(missed.index, read, ToGLPorts, x)
        BY <3>1, <3>3, ShadowWrap, Zenon DEF GL!Flush, GLP!Flush, Shadow
    <3>5. x # GLP!NoIndex => GLP!GlAge(x) < GLP!GlAge(missed.index)
        BY <1>2, <1>3, <1>4, <2>1
    <3>6. missed.index \in D
        BY <1>1, <3>2
    <3> QED BY <1>9, <3>4, <3>5, <3>6, Zenon DEF GLP!CycleOf
  <2>2. CASE ~mis
    <3>1. GL!GlAdvance(instr, read, ToGLPorts, x)
        BY <1>11, <2>2 DEF Graduate
    <3>2. CASE rr = None \/ stall_rr(busy)
      <4>1. instr = GL!NoInstr
          BY <1>1, <3>2 DEF ToGL
      <4>2. ~GL!GlWriteEnable(instr) /\ ~GLP!GlWriteEnable(GLP!NoInstr)
          BY <4>1 DEF GL!GlWriteEnable, GLP!GlWriteEnable, GL!NoInstr, GLP!NoInstr
      <4>3. GL!WriteBack(gl_valid, gl_entries, ToGLPorts)
          BY <3>1, <4>2, Zenon DEF GL!GlAdvance
      <4>4. GLP!WriteBack(gl_valid, Shadow(gl_entries), ToGLPorts)
          BY <1>10, <4>3, ShadowPorts
      <4>5. GLP!GlAdvance(GLP!NoInstr, read, ToGLPorts, x)
          BY <3>1, <4>2, <4>4, ShadowWrap, Zenon DEF GL!GlAdvance, GLP!GlAdvance, Shadow
      <4> QED BY <1>9, <4>5, Zenon DEF GLP!CycleOf
    <3>3. CASE rr # None /\ ~stall_rr(busy)
      <4>1. PICK ready, d, i2 : /\ ready = (rr.kind = "STORE") /\ d = Taken
                                /\ i2 = [valid |-> TRUE, data |-> NoIndex, ex |-> rrex, done |-> ready]
          OBVIOUS
      <4>2. instr.valid /\ instr.data = d /\ instr.ex = rrex /\ instr.done = ready
          BY <1>1, <3>3, <4>1 DEF ToGL, Taken
      <4>3. i2.valid /\ i2.data = NoIndex /\ i2.ex = rrex /\ i2.done = ready /\ ready \in BOOLEAN
          BY <4>1
      <4>4. GL!GlWriteEnable(instr) /\ GLP!GlWriteEnable(i2)
        <5>1. Enters(busy)
            BY <2>2, <3>3 DEF Enters
        <5>2. GL!GlWriteEnable(instr)
            BY <1>1, <1>10, <2>2, <5>1, EntersIsWrite
        <5> QED BY <4>3, <5>2 DEF GL!GlWriteEnable, GLP!GlWriteEnable
      <4> DEFINE b == [gl_valid EXCEPT ![gl_tail] = ready \/ rrex]
                 e == [gl_entries EXCEPT ![gl_tail] = [data |-> d, ex |-> rrex]]
      <4>5. GL!WriteBack(b, e, ToGLPorts)
          BY <3>1, <4>2, <4>4, Zenon DEF GL!GlAdvance
      <4>6. /\ b \in [Index -> BOOLEAN] /\ e \in [Index -> GLEntry]
            /\ Shadow(e) = [Shadow(gl_entries) EXCEPT ![gl_tail] = [data |-> NoIndex, ex |-> rrex]]
        <5>1. d \in Data
            BY <3>3, <4>1 DEF Taken, Data, Types, TypeOK, Instr
        <5> QED BY <1>10, <4>3, <5>1 DEF GLEntry, Shadow
      <4> HIDE DEF b, e
      <4>7. GLP!WriteBack(b, [Shadow(gl_entries) EXCEPT ![gl_tail] = [data |-> NoIndex, ex |-> rrex]], ToGLPorts)
          BY <4>5, <4>6, ShadowPorts
      <4>8. GLP!GlAdvance(i2, read, ToGLPorts, x)
          BY <3>1, <4>2, <4>3, <4>4, <4>7, ShadowWrap, Zenon DEF GL!GlAdvance, GLP!GlAdvance, Shadow, b
      <4> QED BY <1>9, <1>10, <4>1, <4>3, <4>8, Zenon DEF GLP!CycleOf
    <3> QED BY <3>2, <3>3
  <2> QED BY <2>1, <2>2
<1> QED BY <1>2, <1>6, <1>7, <1>8, <1>12, Zenon DEF GLP!GlNext

\* The back end is a client under which the graduation list is proved correct:
\* results and exceptions name live entries that do not retire in the cycle, a
\* result fails only after its exception was recorded, nothing retires past the
\* record, and a flush comes from a branch younger than what fails.
THEOREM GraduationListClient == Spec => GraduationListProtocol
<1>1. Init => GLP!GlInit
  <2> SUFFICES ASSUME Init PROVE GLP!GlInit
      OBVIOUS
  <2>1. GL!GlInit
      BY DEF Init
  <2>2. GLP!Index = Index /\ GL!Index = Index /\ GLP!NoIndex = NoIndex
      BY ShadowWrap, Sizes
  <2>3. [i \in Index |-> [data |-> NoIndex, ex |-> gl_entries[i].ex]]
        = [i \in Index |-> [data |-> NoIndex, ex |-> FALSE]]
      BY <2>1, <2>2 DEF GL!GlInit
  <2> QED BY <2>1, <2>2, <2>3, Zenon DEF GL!GlInit, GLP!GlInit
<1>2. IInv /\ RInv /\ IInv' /\ [Next]_vars => [xq \/ xq' \/ GLP!GlNext]_glVars
  <2> SUFFICES ASSUME IInv, RInv, IInv', [Next]_vars, ~xq, ~xq'
               PROVE  GLP!GlNext \/ UNCHANGED glVars
      OBVIOUS
  <2>1. CASE UNCHANGED vars
      BY <2>1 DEF vars
  <2>2. CASE Next
    <3>1. PICK iq, busy, rrex, ok, brex, fin, memex, done, csrx :
             Clock(iq, busy, rrex, ok, brex, fin, memex, done, csrx)
        BY <2>2, NextIsClock
    <3>2. Types /\ Types' /\ Pipe /\ Record
        BY DEF IInv, RInv
    <3> QED BY <3>1, <3>2, ListStep
  <2> QED BY <2>1, <2>2
<1>3. GraduationListProtocol <=> GLP!GlInit /\ [][xq \/ xq' \/ GLP!GlNext]_glVars
    BY DEF GraduationListProtocol
<1> QED BY <1>1, <1>2, <1>3, InitIInv, IInvKept, InitRInv, RInvKept, PTL DEF Spec
-----------------------------------------------------------------------------
(* The second part: renaming.                                               *)

NC == NUM_CHECKPOINTS
Place == 0 .. N

\* 1 if an instruction is given a register, 0 if it has no destination.
One(d) == IF d.rd = 0 THEN 0 ELSE 1

(* The first n instructions of s, the ones in flight, in program order:    *)
(* c[k] registers were given to the k oldest, from t on in the ring q, and *)
(* m[k] is the map behind them, m[0] being the committed map g.            *)
Chain(c, m, s, n, t, q, g) ==
    /\ c \in [Place -> Int] /\ c[0] = 0
    /\ \A r \in Reg : m[0][r] = g[r]
    /\ \A k \in 0 .. n - 1 :
          /\ s[k].rd \in Reg
          /\ c[k + 1] = c[k] + One(s[k])
          /\ \A r \in Reg : m[k + 1][r] = IF r # 0 /\ s[k].rd = r THEN s[k].prd ELSE m[k][r]
          /\ s[k].old = m[k][s[k].rd]
          /\ s[k].rd # 0 => s[k].prd = q[Trunc(t + c[k], N)]
    /\ \A i, j \in 0 .. n : i <= j => c[i] <= c[j] /\ c[j] - c[i] <= j - i
    /\ \A i, j \in 0 .. n : \A r \in Reg :
          i <= j /\ (r = 0 \/ \A k \in i .. j - 1 : s[k].rd # r) => m[j][r] = m[i][r]

\* No more registers are out than instructions are in flight.
LEMMA ChainBounds ==
    ASSUME NEW c, NEW m, NEW s, NEW n, NEW t, NEW q, NEW g, n \in Place, Chain(c, m, s, n, t, q, g)
    PROVE  /\ \A k \in 0 .. n : c[k] \in 0 .. k /\ c[k] \in 0 .. N
           /\ \A k \in 0 .. n - 1 : s[k].rd # 0 => c[k] \in 0 .. N - 1
<1>1. N \in Nat /\ n \in 0 .. N
    BY Sizes DEF Place
<1>2. ASSUME NEW k \in 0 .. n PROVE c[k] \in 0 .. k /\ c[k] \in 0 .. N
  <2>1. c[k] \in Int /\ 0 \in 0 .. n /\ 0 <= k
      BY <1>1 DEF Chain, Place
  <2>2. c[0] <= c[k] /\ c[k] - c[0] <= k - 0 /\ c[0] = 0
      BY <2>1 DEF Chain
  <2> QED BY <1>1, <2>1, <2>2
<1>3. ASSUME NEW k \in 0 .. n - 1, s[k].rd # 0 PROVE c[k] \in 0 .. N - 1
  <2>1. k \in 0 .. n /\ k + 1 \in 0 .. n
      BY <1>1
  <2>2. c[k + 1] = c[k] + 1
      BY <1>3 DEF Chain, One
  <2>3. c[k] \in 0 .. N /\ c[k + 1] \in 0 .. N
      BY <1>2, <2>1
  <2> QED BY <1>1, <2>2, <2>3
<1> QED BY <1>2, <1>3

\* Pointers into a ring.
LEMMA TruncSum ==
    ASSUME NEW t \in 0 .. N - 1
    PROVE  /\ \A x \in 0 .. N : Trunc(t + x, N) \in 0 .. N - 1
           /\ \A x \in 0 .. N : \A y \in 0 .. N - x : Trunc(Trunc(t + x, N) + y, N) = Trunc(t + (x + y), N)
           /\ \A x, y \in 0 .. N - 1 : Trunc(t + x, N) = Trunc(t + y, N) => x = y
           /\ \A i \in 0 .. N - 1 : \E x \in 0 .. N - 1 : i = Trunc(t + x, N)
<1>1. N \in Nat /\ N >= 3
    BY Sizes
<1>2. \A x \in 0 .. N : Trunc(t + x, N) \in 0 .. N - 1
    BY <1>1 DEF Trunc
<1>3. ASSUME NEW x \in 0 .. N, NEW y \in 0 .. N - x
      PROVE  Trunc(Trunc(t + x, N) + y, N) = Trunc(t + (x + y), N)
    BY <1>1 DEF Trunc
<1>4. \A x, y \in 0 .. N - 1 : Trunc(t + x, N) = Trunc(t + y, N) => x = y
    BY <1>1 DEF Trunc
<1>5. ASSUME NEW i \in 0 .. N - 1 PROVE \E x \in 0 .. N - 1 : i = Trunc(t + x, N)
  <2>1. Dist(t, i, N) \in 0 .. N - 1 /\ Trunc(t + Dist(t, i, N), N) = i
      BY <1>1 DEF Dist, Trunc
  <2> QED BY <2>1
<1> QED BY <1>2, <1>3, <1>4, <1>5

\* The read oldest leave, those from place last on are killed, and d comes in.
ShiftC(c, read, last, d) ==
    [k \in Place |-> IF k + read <= last THEN c[k + read] - c[read]
                     ELSE c[last] - c[read] + One(d)]
ShiftM(m, read, last, d) ==
    [k \in Place |-> IF k + read <= last THEN m[k + read]
                     ELSE [r \in Reg |-> IF r # 0 /\ d.rd = r THEN d.prd ELSE m[last][r]]]

Shifts(c, m, s, t, q, last, read, new, d, s2, t2, q2, g2) ==
    /\ \A k \in 0 .. last - read - 1 : s2[k] = s[k + read]
    /\ new = 1 => /\ last < N /\ s2[last - read] = d
                  /\ d.rd \in Reg /\ d.old = m[last][d.rd]
                  /\ d.rd # 0 => d.prd = q[Trunc(t + c[last], N)] /\ c[last] < N
    /\ t2 = Trunc(t + c[read], N)
    /\ \A x \in c[read] .. N - 1 : q2[Trunc(t + x, N)] = q[Trunc(t + x, N)]
    /\ \A r \in Reg : g2[r] = m[read][r]

LEMMA ChainShift ==
    ASSUME NEW c, NEW m, NEW s, NEW n, NEW t, NEW q, NEW g, NEW last, NEW read, NEW new, NEW d,
           NEW s2, NEW t2, NEW q2, NEW g2,
           Chain(c, m, s, n, t, q, g), n \in Place, t \in 0 .. N - 1,
           last \in 0 .. n, read \in 0 .. last, new \in {0, 1},
           Shifts(c, m, s, t, q, last, read, new, d, s2, t2, q2, g2)
    PROVE  Chain(ShiftC(c, read, last, d), ShiftM(m, read, last, d), s2,
                 last - read + new, t2, q2, g2)
<1> USE DEF Shifts
<1> DEFINE n2 == last - read + new
<1>1. /\ N \in Nat /\ n \in 0 .. N /\ last \in 0 .. n /\ read \in 0 .. last
      /\ last \in 0 .. N /\ read \in 0 .. N /\ read \in 0 .. n /\ n2 \in 0 .. N
    BY Sizes DEF Place
<1>2. PICK c2 : c2 = ShiftC(c, read, last, d)
    OBVIOUS
<1>3. PICK m2 : m2 = ShiftM(m, read, last, d)
    OBVIOUS
<1>4. One(d) \in 0 .. 1
    BY DEF One
<1>5. \A k \in 0 .. n : c[k] \in 0 .. N
    BY ChainBounds
<1>6. /\ \A k \in 0 .. last - read : c2[k] = c[k + read] - c[read] /\ m2[k] = m[k + read]
      /\ new = 1 => /\ c2[n2] = c[last] - c[read] + One(d)
                    /\ \A r \in Reg : m2[n2][r] = IF r # 0 /\ d.rd = r THEN d.prd ELSE m[last][r]
  <2>1. ASSUME NEW k \in 0 .. last - read PROVE c2[k] = c[k + read] - c[read] /\ m2[k] = m[k + read]
    <3>1. k \in Place /\ k + read <= last
        BY <1>1 DEF Place
    <3> QED BY <1>2, <1>3, <3>1 DEF ShiftC, ShiftM
  <2>2. ASSUME new = 1
        PROVE  /\ c2[n2] = c[last] - c[read] + One(d)
               /\ m2[n2] = [r \in Reg |-> IF r # 0 /\ d.rd = r THEN d.prd ELSE m[last][r]]
    <3>1. n2 \in Place /\ ~(n2 + read <= last)
        BY <1>1, <2>2 DEF Place
    <3> HIDE DEF n2
    <3> QED BY <1>2, <1>3, <3>1 DEF ShiftC, ShiftM
  <2> QED BY <2>1, <2>2
<1>7. c2 \in [Place -> Int]
  <2>1. ASSUME NEW k \in Place
        PROVE  (IF k + read <= last THEN c[k + read] - c[read] ELSE c[last] - c[read] + One(d)) \in Int
    <3>1. k + read <= last => k + read \in 0 .. n
        BY <1>1 DEF Place
    <3> QED BY <1>1, <1>4, <1>5, <3>1
  <2> QED BY <1>2, <2>1 DEF ShiftC
<1>8. c2[0] = 0 /\ \A r \in Reg : m2[0][r] = g2[r]
  <2>1. 0 \in 0 .. last - read /\ 0 + read = read
      BY <1>1
  <2>2. c2[0] = c[read] - c[read] /\ m2[0] = m[read]
      BY <1>6, <2>1
  <2> QED BY <1>1, <1>5, <2>2
<1>9. ASSUME NEW k \in 0 .. last - read - 1
      PROVE  /\ s2[k].rd \in Reg
             /\ c2[k + 1] = c2[k] + One(s2[k])
             /\ \A r \in Reg : m2[k + 1][r] = IF r # 0 /\ s2[k].rd = r THEN s2[k].prd ELSE m2[k][r]
             /\ s2[k].old = m2[k][s2[k].rd]
             /\ s2[k].rd # 0 => s2[k].prd = q2[Trunc(t2 + c2[k], N)]
  <2> DEFINE j == k + read
  <2>1. /\ j \in 0 .. n - 1 /\ j \in 0 .. n /\ j + 1 \in 0 .. n /\ read <= j
        /\ k \in 0 .. last - read /\ k + 1 \in 0 .. last - read /\ (k + 1) + read = j + 1
      BY <1>1
  <2>2. s2[k] = s[j]
      OBVIOUS
  <2>3. /\ c2[k] = c[j] - c[read] /\ c2[k + 1] = c[j + 1] - c[read]
        /\ m2[k] = m[j] /\ m2[k + 1] = m[j + 1]
      BY <1>6, <2>1
  <2> HIDE DEF j
  <2>4. /\ s[j].rd \in Reg /\ c[j + 1] = c[j] + One(s[j])
        /\ \A r \in Reg : m[j + 1][r] = IF r # 0 /\ s[j].rd = r THEN s[j].prd ELSE m[j][r]
        /\ s[j].old = m[j][s[j].rd]
        /\ s[j].rd # 0 => s[j].prd = q[Trunc(t + c[j], N)]
      BY <2>1 DEF Chain
  <2>5. c[j] \in 0 .. N /\ c[read] \in 0 .. N /\ c[read] <= c[j] /\ One(s[j]) \in 0 .. 1
      BY <1>1, <1>5, <2>1 DEF Chain, One
  <2>6. c2[k + 1] = c2[k] + One(s[j])
      BY <2>3, <2>4, <2>5
  <2>7. ASSUME s[j].rd # 0 PROVE s[j].prd = q2[Trunc(t2 + c2[k], N)]
    <3>1. c[j] \in 0 .. N - 1
        BY <2>1, <2>7, ChainBounds
    <3>2. c[j] \in c[read] .. N - 1
        BY <2>5, <3>1
    <3> DEFINE x == c[read]
               y == c[j] - c[read]
    <3>3. x \in 0 .. N /\ y \in 0 .. N - x /\ x + y = c[j]
        BY <1>1, <2>5
    <3> HIDE DEF x, y
    <3>4. Trunc(Trunc(t + x, N) + y, N) = Trunc(t + (x + y), N)
        BY <3>3, TruncSum
    <3>5. Trunc(t2 + c2[k], N) = Trunc(t + c[j], N)
        BY <2>3, <3>3, <3>4 DEF x, y
    <3> QED BY <2>4, <2>7, <3>2, <3>5
  <2> QED BY <2>2, <2>3, <2>4, <2>6, <2>7
<1>10. ASSUME new = 1
       PROVE  LET k == last - read IN
             /\ s2[k].rd \in Reg
             /\ c2[k + 1] = c2[k] + One(s2[k])
             /\ \A r \in Reg : m2[k + 1][r] = IF r # 0 /\ s2[k].rd = r THEN s2[k].prd ELSE m2[k][r]
             /\ s2[k].old = m2[k][s2[k].rd]
             /\ s2[k].rd # 0 => s2[k].prd = q2[Trunc(t2 + c2[k], N)]
  <2> DEFINE k == last - read
  <2>1. k \in 0 .. last - read /\ k + read = last /\ k + 1 = n2
      BY <1>1, <1>10
  <2>2. c2[k] = c[last] - c[read] /\ m2[k] = m[last]
      BY <1>6, <2>1
  <2>3. /\ c2[k + 1] = c[last] - c[read] + One(d)
        /\ \A r \in Reg : m2[k + 1][r] = IF r # 0 /\ d.rd = r THEN d.prd ELSE m[last][r]
      BY <1>6, <1>10, <2>1
  <2>4. s2[k] = d /\ d.rd \in Reg /\ d.old = m[last][d.rd]
      BY <1>10
  <2> HIDE DEF k
  <2>5. c[last] \in 0 .. N /\ c[read] \in 0 .. N /\ c[read] <= c[last]
      BY <1>1, <1>5 DEF Chain
  <2>6. ASSUME d.rd # 0 PROVE d.prd = q2[Trunc(t2 + c2[k], N)]
    <3>1. d.prd = q[Trunc(t + c[last], N)] /\ c[last] < N
        BY <1>10, <2>6
    <3>2. c[last] \in c[read] .. N - 1
        BY <2>5, <3>1, <1>1
    <3> DEFINE x == c[read]
               y == c[last] - c[read]
    <3>3. x \in 0 .. N /\ y \in 0 .. N - x /\ x + y = c[last]
        BY <1>1, <2>5
    <3> HIDE DEF x, y
    <3>4. Trunc(Trunc(t + x, N) + y, N) = Trunc(t + (x + y), N)
        BY <3>3, TruncSum
    <3>5. Trunc(t2 + c2[k], N) = Trunc(t + c[last], N)
        BY <2>2, <3>3, <3>4 DEF x, y
    <3> QED BY <3>1, <3>2, <3>5
  <2> QED BY <2>2, <2>3, <2>4, <2>6 DEF k
<1>11. ASSUME NEW i \in 0 .. last - read, NEW j \in 0 .. last - read, i <= j
       PROVE  /\ c2[i] <= c2[j] /\ c2[j] - c2[i] <= j - i
              /\ \A r \in Reg : (r = 0 \/ \A k \in i .. j - 1 : s2[k].rd # r) => m2[j][r] = m2[i][r]
  <2> DEFINE a == i + read
             b == j + read
  <2>1. a \in 0 .. n /\ b \in 0 .. n /\ a <= b /\ b - a = j - i
      BY <1>1, <1>11
  <2>2. /\ c2[i] = c[a] - c[read] /\ c2[j] = c[b] - c[read] /\ m2[i] = m[a] /\ m2[j] = m[b]
      BY <1>6
  <2>3. \A k \in a .. b - 1 : k - read \in i .. j - 1 /\ s[k] = s2[k - read]
    <3> SUFFICES ASSUME NEW k \in a .. b - 1 PROVE k - read \in i .. j - 1 /\ s[k] = s2[k - read]
        OBVIOUS
    <3>1. k - read \in i .. j - 1 /\ k - read \in 0 .. last - read - 1 /\ (k - read) + read = k
        BY <1>1, <2>1
    <3> QED BY <3>1
  <2> HIDE DEF a, b
  <2>4. c[a] <= c[b] /\ c[b] - c[a] <= b - a
      BY <2>1 DEF Chain
  <2>5. c[a] \in Int /\ c[b] \in Int /\ c[read] \in Int
      BY <1>1, <1>5, <2>1
  <2>6. c2[i] <= c2[j] /\ c2[j] - c2[i] <= j - i
      BY <2>1, <2>2, <2>4, <2>5
  <2>7. ASSUME NEW r \in Reg, r = 0 \/ \A k \in i .. j - 1 : s2[k].rd # r PROVE m[b][r] = m[a][r]
    <3>1. r = 0 \/ \A k \in a .. b - 1 : s[k].rd # r
        BY <2>3, <2>7
    <3> QED BY <2>1, <3>1 DEF Chain
  <2> QED BY <2>2, <2>6, <2>7
<1>12. ASSUME NEW i \in 0 .. n2, NEW j \in 0 .. n2, i <= j
       PROVE  /\ c2[i] <= c2[j] /\ c2[j] - c2[i] <= j - i
              /\ \A r \in Reg : (r = 0 \/ \A k \in i .. j - 1 : s2[k].rd # r) => m2[j][r] = m2[i][r]
  <2>1. CASE j <= last - read
    <3>1. i \in 0 .. last - read /\ j \in 0 .. last - read
        BY <1>1, <1>12, <2>1
    <3> QED BY <1>11, <1>12, <3>1
  <2>2. CASE j > last - read /\ i = j
    <3>1. c2[i] \in Int
        BY <1>1, <1>7 DEF Place
    <3> QED BY <1>12, <2>2, <3>1
  <2>3. CASE j > last - read /\ i # j
    <3> DEFINE k == last - read
    <3>1. new = 1 /\ j = k + 1 /\ i \in 0 .. last - read /\ k \in 0 .. last - read /\ i <= k
        BY <1>1, <1>12, <2>3
    <3>2. /\ c2[i] <= c2[k] /\ c2[k] - c2[i] <= k - i
          /\ \A r \in Reg : (r = 0 \/ \A x \in i .. k - 1 : s2[x].rd # r) => m2[k][r] = m2[i][r]
        BY <1>11, <3>1
    <3>3. /\ c2[k + 1] = c2[k] + One(s2[k])
          /\ \A r \in Reg : m2[k + 1][r] = IF r # 0 /\ s2[k].rd = r THEN s2[k].prd ELSE m2[k][r]
        BY <1>10, <3>1
    <3>4. c2[i] \in Int /\ c2[k] \in Int /\ One(s2[k]) \in 0 .. 1
      <4>1. i \in Place /\ k \in Place
          BY <1>1, <3>1 DEF Place
      <4>2. One(s2[k]) \in 0 .. 1
          BY DEF One
      <4> QED BY <1>7, <4>1, <4>2
    <3>5. k \in i .. j - 1 /\ \A x \in i .. k - 1 : x \in i .. j - 1
        BY <1>1, <3>1
    <3> HIDE DEF k
    <3>6. c2[i] <= c2[j] /\ c2[j] - c2[i] <= j - i
        BY <3>1, <3>2, <3>3, <3>4
    <3> QED BY <3>1, <3>2, <3>3, <3>5, <3>6
  <2> QED BY <1>1, <1>12, <2>1, <2>2, <2>3
<1>13. ASSUME NEW k \in 0 .. n2 - 1
       PROVE  /\ s2[k].rd \in Reg
              /\ c2[k + 1] = c2[k] + One(s2[k])
              /\ \A r \in Reg : m2[k + 1][r] = IF r # 0 /\ s2[k].rd = r THEN s2[k].prd ELSE m2[k][r]
              /\ s2[k].old = m2[k][s2[k].rd]
              /\ s2[k].rd # 0 => s2[k].prd = q2[Trunc(t2 + c2[k], N)]
  <2>1. CASE k \in 0 .. last - read - 1
      BY <1>9, <2>1
  <2>2. CASE new = 1 /\ k = last - read
      BY <1>10, <2>2
  <2> QED BY <1>1, <2>1, <2>2
<1>14. /\ \A i, j \in 0 .. n2 : i <= j => c2[i] <= c2[j] /\ c2[j] - c2[i] <= j - i
       /\ \A i, j \in 0 .. n2 : \A r \in Reg :
             i <= j /\ (r = 0 \/ \A k \in i .. j - 1 : s2[k].rd # r) => m2[j][r] = m2[i][r]
    BY <1>12
<1> HIDE DEF n2
<1>15. Chain(c2, m2, s2, n2, t2, q2, g2)
    BY <1>7, <1>8, <1>13, <1>14 DEF Chain
<1> QED BY <1>2, <1>3, <1>15 DEF n2
-----------------------------------------------------------------------------
\* No physical register has two places in the ring q and the committed map g.
Distinct(q, g) ==
    /\ \A i, j \in FL!Entry : q[i] = q[j] => i = j
    /\ \A r, z \in Reg : g[r] = g[z] => r = z
    /\ \A i \in FL!Entry, r \in Reg : q[i] # g[r]

(* Every physical register is in the ring q or in the committed map g, in   *)
(* one place, and register 0 is the mapping of x0 only.                     *)
Conserved(q, g) ==
    /\ Distinct(q, g)
    /\ q \in [FL!Entry -> FL!Phys] /\ g \in [Reg -> FL!Phys]
    /\ g[0] = 0 /\ \A r \in Reg : r # 0 => g[r] # 0
    /\ \A i \in FL!Entry : q[i] # 0
    /\ \A p \in FL!Phys : (\E i \in FL!Entry : q[i] = p) \/ (\E r \in Reg : g[r] = p)

\* An instruction that commits puts its register into the map and the one it
\* replaces into the place the register had in the ring.
SwapQ(q, t, d) == IF d.rd = 0 THEN q ELSE [q EXCEPT ![t] = d.old]
SwapG(g, d) == IF d.rd = 0 THEN g ELSE [g EXCEPT ![d.rd] = d.prd]

LEMMA SwapConserves ==
    ASSUME NEW q, NEW g, NEW t, NEW d, Conserved(q, g), t \in FL!Entry, d.rd \in Reg,
           d.rd # 0 => d.prd = q[t], d.old = g[d.rd]
    PROVE  /\ Conserved(SwapQ(q, t, d), SwapG(g, d))
           /\ d.old \in FL!Phys /\ (d.old # 0 <=> d.rd # 0)
<1>1. /\ q \in [FL!Entry -> FL!Phys] /\ g \in [Reg -> FL!Phys]
      /\ g[0] = 0 /\ \A r \in Reg : r # 0 => g[r] # 0
      /\ \A i \in FL!Entry : q[i] # 0
      /\ \A p \in FL!Phys : (\E i \in FL!Entry : q[i] = p) \/ (\E r \in Reg : g[r] = p)
    BY DEF Conserved
<1>2. d.old \in FL!Phys /\ (d.old # 0 <=> d.rd # 0)
    BY <1>1
<1>3. CASE d.rd = 0
    BY <1>2, <1>3 DEF SwapQ, SwapG
<1>4. CASE d.rd # 0
  <2> DEFINE q2 == [q EXCEPT ![t] = d.old]
             g2 == [g EXCEPT ![d.rd] = d.prd]
  <2>1. d.prd \in FL!Phys /\ d.prd # 0 /\ d.old # 0
      BY <1>1, <1>2, <1>4
  <2>2. q2 \in [FL!Entry -> FL!Phys] /\ g2 \in [Reg -> FL!Phys]
      BY <1>1, <1>2, <2>1
  <2>3. /\ \A i \in FL!Entry : q2[i] = IF i = t THEN d.old ELSE q[i]
        /\ \A r \in Reg : g2[r] = IF r = d.rd THEN d.prd ELSE g[r]
      BY <1>1
  <2> HIDE DEF q2, g2
  <2>4. 0 \in Reg
      BY Sizes
  <2>5. g2[0] = 0 /\ (\A r \in Reg : r # 0 => g2[r] # 0) /\ \A i \in FL!Entry : q2[i] # 0
      BY <1>1, <1>4, <2>1, <2>3, <2>4
  <2>6. ASSUME NEW p \in FL!Phys
        PROVE  (\E i \in FL!Entry : q2[i] = p) \/ (\E r \in Reg : g2[r] = p)
    <3>1. CASE \E i \in FL!Entry : q[i] = p
      <4>1. PICK i \in FL!Entry : q[i] = p
          BY <3>1
      <4>2. CASE i = t
        <5>1. g2[d.rd] = p
            BY <1>4, <2>3, <4>1, <4>2
        <5> QED BY <5>1
      <4>3. CASE i # t
          BY <2>3, <4>1, <4>3
      <4> QED BY <4>2, <4>3
    <3>2. CASE \E r \in Reg : g[r] = p
      <4>1. PICK r \in Reg : g[r] = p
          BY <3>2
      <4>2. CASE r = d.rd
        <5>1. q2[t] = p
            BY <2>3, <4>1, <4>2
        <5> QED BY <5>1
      <4>3. CASE r # d.rd
          BY <2>3, <4>1, <4>3
      <4> QED BY <4>2, <4>3
    <3> QED BY <1>1, <3>1, <3>2
  <2>8. Distinct(q2, g2)
    <3>1. /\ \A i, j \in FL!Entry : q[i] = q[j] => i = j
          /\ \A r, z \in Reg : g[r] = g[z] => r = z
          /\ \A i \in FL!Entry, r \in Reg : q[i] # g[r]
        BY DEF Conserved, Distinct
    <3>2. d.prd = q[t]
        BY <1>4
    <3>3. \A i, j \in FL!Entry : q2[i] = q2[j] => i = j
        BY <2>3, <3>1
    <3>4. \A r, z \in Reg : g2[r] = g2[z] => r = z
        BY <2>3, <3>1, <3>2
    <3>5. \A i \in FL!Entry, r \in Reg : q2[i] # g2[r]
        BY <2>3, <3>1, <3>2
    <3> QED BY <3>3, <3>4, <3>5 DEF Distinct
  <2>7. Conserved(q2, g2)
      BY <2>2, <2>5, <2>6, <2>8 DEF Conserved
  <2> QED BY <1>2, <1>4, <2>7 DEF SwapQ, SwapG, q2, g2
<1> QED BY <1>3, <1>4

(* Two instructions that commit in a cycle.  The ring and the map are the   *)
(* ones free_list.sv and rename_table.sv compute from both ports at once.   *)
LEMMA CommitOne ==
    ASSUME NEW c, NEW m, NEW s, NEW n, NEW t, NEW q, NEW g, n \in Place, t \in FL!Entry,
           Chain(c, m, s, n, t, q, g), Conserved(q, g), n >= 1
    PROVE  /\ Conserved(SwapQ(q, t, s[0]), SwapG(g, s[0])) /\ c[1] = One(s[0])
           /\ s[0].rd \in Reg /\ s[0].old \in FL!Phys /\ (s[0].old # 0 <=> s[0].rd # 0)
           /\ \A r \in Reg : SwapG(g, s[0])[r] = m[1][r]
           /\ \A i \in FL!Entry : i # t => SwapQ(q, t, s[0])[i] = q[i]
           /\ s[0].rd # 0 => SwapQ(q, t, s[0])[t] = s[0].old
           /\ s[0].rd = 0 => SwapQ(q, t, s[0]) = q
<1>1. 0 \in 0 .. n - 1 /\ t \in 0 .. N - 1 /\ FL!Entry = 0 .. N - 1
    BY Sizes DEF Place
<1>2. Trunc(t + 0, N) = t
    BY <1>1, Sizes DEF Trunc
<1>3. /\ s[0].rd \in Reg /\ c[0 + 1] = c[0] + One(s[0])
      /\ \A r \in Reg : m[0 + 1][r] = IF r # 0 /\ s[0].rd = r THEN s[0].prd ELSE m[0][r]
      /\ s[0].old = m[0][s[0].rd]
      /\ s[0].rd # 0 => s[0].prd = q[Trunc(t + c[0], N)]
      /\ c[0] = 0 /\ \A r \in Reg : m[0][r] = g[r]
    BY <1>1, Zenon DEF Chain
<1>4. s[0].rd # 0 => s[0].prd = q[t]
    BY <1>2, <1>3
<1>5. s[0].old = g[s[0].rd]
    BY <1>3
<1>6. /\ Conserved(SwapQ(q, t, s[0]), SwapG(g, s[0]))
      /\ s[0].old \in FL!Phys /\ (s[0].old # 0 <=> s[0].rd # 0)
    BY <1>3, <1>4, <1>5, SwapConserves
<1>7. q \in [FL!Entry -> FL!Phys] /\ g \in [Reg -> FL!Phys]
    BY DEF Conserved
<1>8. c[1] = One(s[0]) /\ \A r \in Reg : m[1][r] = IF r # 0 /\ s[0].rd = r THEN s[0].prd ELSE g[r]
  <2>1. One(s[0]) \in Int /\ 0 + 1 = 1
      BY DEF One
  <2> QED BY <1>3, <2>1
<1>9. \A r \in Reg : SwapG(g, s[0])[r] = m[1][r]
    BY <1>3, <1>7, <1>8 DEF SwapG
<1>10. /\ \A i \in FL!Entry : i # t => SwapQ(q, t, s[0])[i] = q[i]
       /\ s[0].rd # 0 => SwapQ(q, t, s[0])[t] = s[0].old
       /\ s[0].rd = 0 => SwapQ(q, t, s[0]) = q
    BY <1>7 DEF SwapQ
<1> QED BY <1>3, <1>6, <1>8, <1>9, <1>10

LEMMA CommitTwo ==
    ASSUME NEW c, NEW m, NEW s, NEW n, NEW t, NEW q, NEW g, n \in Place, t \in FL!Entry,
           Chain(c, m, s, n, t, q, g), Conserved(q, g), n >= 2
    PROVE  \E q1, g1, t1 :
              /\ q1 = SwapQ(q, t, s[0]) /\ g1 = SwapG(g, s[0]) /\ t1 = Trunc(t + c[1], N)
              /\ Conserved(SwapQ(q1, t1, s[1]), SwapG(g1, s[1])) /\ c[2] = One(s[0]) + One(s[1])
              /\ s[1].rd \in Reg /\ s[1].old \in FL!Phys /\ (s[1].old # 0 <=> s[1].rd # 0)
              /\ \A r \in Reg : SwapG(g1, s[1])[r] = m[2][r]
              /\ t1 \in FL!Entry
              /\ \A i \in FL!Entry : SwapQ(q1, t1, s[1])[i] = IF s[1].rd # 0 /\ i = t1 THEN s[1].old ELSE q1[i]
<1>1. PICK q1 : q1 = SwapQ(q, t, s[0])
    OBVIOUS
<1>2. PICK g1 : g1 = SwapG(g, s[0])
    OBVIOUS
<1>3. PICK t1 : t1 = Trunc(t + c[1], N)
    OBVIOUS
<1>4. /\ 1 \in 0 .. n - 1 /\ n >= 1 /\ t \in 0 .. N - 1 /\ FL!Entry = 0 .. N - 1
      /\ 0 \in 0 .. N - 1 /\ N \in Nat /\ N >= 3
    BY Sizes DEF Place
<1>5. /\ Conserved(q1, g1) /\ c[1] = One(s[0]) /\ s[0].rd \in Reg
      /\ \A r \in Reg : g1[r] = m[1][r]
      /\ \A i \in FL!Entry : i # t => q1[i] = q[i]
      /\ s[0].rd = 0 => q1 = q
  <2>2. n >= 1
      BY <1>4
  <2>1. /\ Conserved(SwapQ(q, t, s[0]), SwapG(g, s[0])) /\ c[1] = One(s[0]) /\ s[0].rd \in Reg
        /\ \A r \in Reg : SwapG(g, s[0])[r] = m[1][r]
        /\ \A i \in FL!Entry : i # t => SwapQ(q, t, s[0])[i] = q[i]
        /\ s[0].rd = 0 => SwapQ(q, t, s[0]) = q
      BY <2>2, CommitOne
  <2> QED BY <1>1, <1>2, <2>1
<1>6. /\ s[1].rd \in Reg /\ c[1 + 1] = c[1] + One(s[1])
      /\ \A r \in Reg : m[1 + 1][r] = IF r # 0 /\ s[1].rd = r THEN s[1].prd ELSE m[1][r]
      /\ s[1].old = m[1][s[1].rd]
      /\ s[1].rd # 0 => s[1].prd = q[Trunc(t + c[1], N)]
    BY <1>4, Zenon DEF Chain
<1>7. t1 \in FL!Entry /\ (s[0].rd # 0 => t1 # t)
    BY <1>3, <1>4, <1>5 DEF Trunc, One
<1>8. s[1].rd # 0 => s[1].prd = q1[t1]
    BY <1>3, <1>5, <1>6, <1>7
<1>9. s[1].old = g1[s[1].rd]
    BY <1>5, <1>6
<1>10. /\ Conserved(SwapQ(q1, t1, s[1]), SwapG(g1, s[1]))
       /\ s[1].old \in FL!Phys /\ (s[1].old # 0 <=> s[1].rd # 0)
    BY <1>5, <1>6, <1>7, <1>8, <1>9, SwapConserves
<1>11. q1 \in [FL!Entry -> FL!Phys] /\ g1 \in [Reg -> FL!Phys]
    BY <1>5 DEF Conserved
<1>12. /\ c[2] = One(s[0]) + One(s[1])
       /\ \A r \in Reg : m[2][r] = IF r # 0 /\ s[1].rd = r THEN s[1].prd ELSE m[1][r]
  <2>1. 1 + 1 = 2
      OBVIOUS
  <2> QED BY <1>5, <1>6, <2>1
<1>13. \A r \in Reg : SwapG(g1, s[1])[r] = m[2][r]
    BY <1>5, <1>6, <1>11, <1>12 DEF SwapG
<1>14. \A i \in FL!Entry : SwapQ(q1, t1, s[1])[i] = IF s[1].rd # 0 /\ i = t1 THEN s[1].old ELSE q1[i]
    BY <1>7, <1>11 DEF SwapQ
<1> QED BY <1>1, <1>2, <1>3, <1>6, <1>7, <1>10, <1>12, <1>13, <1>14
-----------------------------------------------------------------------------
(* The invariant.                                                            *)

\* The instructions in flight, oldest first: the graduation list, then RR.
Size == gl_num + (IF rr = None THEN 0 ELSE 1)
Item(k) == IF k < gl_num THEN gl_entries[Trunc(gl_head + k, N)].data ELSE Taken
Items == [k \in Place |-> Item(k)]

Order(c, m) == Chain(c, m, Items, Size, fl_tail, fl_ring, rt_commit)

VAge(v) == Dist(fl_vt, v, NC)

\* The branch behind which n instructions of the chain are has not resolved, or
\* an instruction among them has failed.
Guarded(n) ==
    \/ \E w \in wb : w.ck /\ Age(w.index) + 1 = n
    \/ exe # None /\ exe.ck /\ Age(exe.index) + 1 = n
    \/ rr # None /\ rr.ck /\ gl_num + 1 = n
    \/ \E i \in Index : Live(i) /\ gl_entries[i].ex /\ Age(i) < n

(* Of the ck versions from vt on and the current one, vh, version v was      *)
(* taken behind the first b[v] of the n instructions in flight: its count,   *)
(* its pointer and its map are those behind them.                            *)
Marks(c, m, b, n, t, vt, ck, vh, num, head, map) ==
    /\ ck < NC /\ vh = Trunc(vt + ck, NC)
    /\ b \in [FL!Ckpt -> Int] /\ b[vh] = n
    /\ \A v \in FL!Ckpt : Dist(vt, v, NC) <= ck =>
          /\ b[v] \in 0 .. n
          /\ num[v] = N - c[b[v]]
          /\ head[v] = Trunc(t + c[b[v]], N)
          /\ \A r \in Reg : map[r][v] = m[b[v]][r]
    /\ \A u, v \in FL!Ckpt : Dist(vt, u, NC) < Dist(vt, v, NC) /\ Dist(vt, v, NC) < ck => b[u] < b[v]

\* Every version but the current one is guarded.
Versions(c, m, b) ==
    /\ Marks(c, m, b, Size, fl_tail, fl_vt, fl_ck, fl_vh, fl_num, fl_head, rt_map)
    /\ \A v \in FL!Ckpt : VAge(v) < fl_ck => Guarded(b[v])

\* Every branch that has not resolved has its version.
Branches(b) ==
    /\ \A w \in wb : w.ck => VAge(w.chkp) < fl_ck /\ b[w.chkp] = Age(w.index) + 1
    /\ \A w \in wb : ~w.ok => w.ck
    /\ \A w, x \in wb : w.ck /\ x.ck => w = x
    /\ exe # None => /\ exe.ck <=> exe.kind = "BR"
                     /\ exe.ck => VAge(exe.chkp) < fl_ck /\ b[exe.chkp] = Age(exe.index) + 1
    /\ rr # None => /\ rr.ck <=> rr.kind = "BR"
                    /\ rr.ck => VAge(rr.chkp) < fl_ck /\ b[rr.chkp] = gl_num + 1

Renaming(c, m, b) == Order(c, m) /\ Versions(c, m, b) /\ Branches(b)

BInv == IInv /\ RInv /\ FInv
NInv == Conserved(fl_ring, rt_commit) /\ (~xq => \E c, m, b : Renaming(c, m, b))
-----------------------------------------------------------------------------
(* Commit in a cycle.                                                        *)

\* The oldest two.
LEMMA Heads ==
    ASSUME Types
    PROVE  /\ Size \in Place /\ Size >= gl_num /\ Items \in [Place -> {Item(k) : k \in Place}]
           /\ \A k \in Place : Items[k] = Item(k)
           /\ gl_num >= 1 => Items[0] = Oldest.data
           /\ gl_num >= 2 => Items[1] = Second.data
<1>1. gl_num \in 0 .. N - 1 /\ gl_head \in 0 .. N - 1 /\ N \in Nat /\ N >= 3
    BY Sizes DEF Types, TypeOK, N
<1>2. Size \in Place /\ Size >= gl_num /\ 0 \in Place /\ 1 \in Place
    BY <1>1 DEF Size, Place
<1>3. Items \in [Place -> {Item(k) : k \in Place}] /\ \A k \in Place : Items[k] = Item(k)
    BY DEF Items
<1>4. gl_num >= 1 => Item(0) = Oldest.data
  <2>1. Trunc(gl_head + 0, N) = gl_head
      BY <1>1 DEF Trunc
  <2>2. gl_num >= 1 => 0 < gl_num
      BY <1>1
  <2> QED BY <2>1, <2>2 DEF Item, Oldest
<1>5. gl_num >= 2 => Item(1) = Second.data
  <2>1. Second = gl_entries[Trunc(gl_head + 1, N)]
      BY SameWrap, Zenon DEF Second, GL!GlPtr, N
  <2>2. gl_num >= 2 => 1 < gl_num
      BY <1>1
  <2> QED BY <2>1, <2>2 DEF Item
<1> QED BY <1>2, <1>3, <1>4, <1>5

\* The free list drops register 0.
LEMMA FreedPorts ==
    ASSUME NEW f0, NEW f1
    PROVE  /\ FL!Writes(f0, f1) = (IF f0 # -1 /\ f0 # 0 THEN 1 ELSE 0) + (IF f1 # -1 /\ f1 # 0 THEN 1 ELSE 0)
           /\ FL!FirstWrite(f0, f1) = IF f0 # -1 /\ f0 # 0 THEN f0 ELSE f1
BY DEF FL!Writes, FL!FirstWrite, FL!WriteEnable, FL!NoReg

\* What an idle port of commit carries.
Nothing == [rd |-> 0, prd |-> 0, old |-> 0]

\* The ring and the committed map after the two ports of commit are those of one
\* instruction after the other.
LEMMA TwoPorts ==
    ASSUME NEW q, NEW g, NEW t, NEW d, NEW e, NEW t1, NEW f0, NEW f1, NEW k0, NEW k1,
           Conserved(q, g), t \in FL!Entry,
           d.rd \in Reg, d.old \in FL!Phys, d.old # 0 <=> d.rd # 0,
           e.rd \in Reg, e.old \in FL!Phys, e.old # 0 <=> e.rd # 0,
           t1 = Trunc(t + One(d), N),
           fl_tail = t, fl_ring = q, rt_commit = g,
           f0 = d.old \/ (f0 = -1 /\ d.rd = 0), f1 = e.old \/ (f1 = -1 /\ e.rd = 0),
           k0 = [rd |-> d.rd, prd |-> d.prd] \/ (k0 = RT!NoReg /\ d.rd = 0),
           k1 = [rd |-> e.rd, prd |-> e.prd] \/ (k1 = RT!NoReg /\ e.rd = 0),
           FL!WriteFreed(f0, f1), RT!Commit(k0, k1),
           Conserved(SwapQ(SwapQ(q, t, d), t1, e), SwapG(SwapG(g, d), e))
    PROVE  /\ fl_ring' = SwapQ(SwapQ(q, t, d), t1, e)
           /\ rt_commit' = SwapG(SwapG(g, d), e)
           /\ fl_tail' = Trunc(t + (One(d) + One(e)), N)
           /\ FL!Writes(f0, f1) = One(d) + One(e)
           /\ \A x \in One(d) + One(e) .. N - 1 : fl_ring'[Trunc(t + x, N)] = q[Trunc(t + x, N)]
<1>1. /\ N \in Nat /\ N >= 3 /\ FL!Entry = 0 .. N - 1 /\ t \in 0 .. N - 1
      /\ FL!Phys \subseteq Nat /\ Reg \subseteq Nat
    BY Sizes
<1>2. /\ d.old # -1 /\ e.old # -1 /\ d.rd # -1 /\ e.rd # -1
      /\ f0 # -1 /\ f0 # 0 <=> d.rd # 0
      /\ f1 # -1 /\ f1 # 0 <=> e.rd # 0
      /\ d.rd # 0 => f0 = d.old
      /\ e.rd # 0 => f1 = e.old
    BY <1>1
<1>3. /\ FL!Writes(f0, f1) = One(d) + One(e)
      /\ FL!FirstWrite(f0, f1) = IF d.rd # 0 THEN d.old ELSE f1
    BY <1>2, FreedPorts DEF One
<1>4. /\ FL!Ptr(fl_tail + 1) = Trunc(t + 1, N)
      /\ FL!Ptr(fl_tail + FL!Writes(f0, f1)) = Trunc(t + (One(d) + One(e)), N)
    BY <1>3, SameWrap, Zenon DEF FL!Ptr, N
<1>5. fl_tail' = Trunc(t + (One(d) + One(e)), N)
    BY <1>4 DEF FL!WriteFreed
<1>6. fl_ring' = [i \in FL!Entry |->
                    IF One(d) + One(e) >= 1 /\ i = t THEN (IF d.rd # 0 THEN d.old ELSE f1)
                    ELSE IF One(d) + One(e) = 2 /\ i = Trunc(t + 1, N) THEN f1
                    ELSE q[i]]
    BY <1>3, <1>4 DEF FL!WriteFreed
<1>7. Trunc(t + 1, N) \in FL!Entry /\ Trunc(t + 1, N) # t /\ Trunc(t + 0, N) = t
    BY <1>1 DEF Trunc
<1>8. q \in [FL!Entry -> FL!Phys] /\ g \in [Reg -> FL!Phys]
    BY DEF Conserved
<1>9. fl_ring' = SwapQ(SwapQ(q, t, d), t1, e)
  <2> DEFINE q2 == SwapQ(SwapQ(q, t, d), t1, e)
  <2>1. q2 \in [FL!Entry -> FL!Phys]
      BY DEF Conserved
  <2>2. ASSUME NEW i \in FL!Entry PROVE fl_ring'[i] = q2[i]
    <3>1. CASE d.rd = 0 /\ e.rd = 0
        BY <1>6, <1>8, <3>1 DEF SwapQ, One
    <3>2. CASE d.rd # 0 /\ e.rd = 0
        BY <1>6, <1>8, <3>2 DEF SwapQ, One
    <3>3. CASE d.rd = 0 /\ e.rd # 0
      <4>1. t1 = t
          BY <1>7, <3>3 DEF One
      <4> QED BY <1>2, <1>6, <1>8, <3>3, <4>1 DEF SwapQ, One
    <3>4. CASE d.rd # 0 /\ e.rd # 0
      <4>1. t1 = Trunc(t + 1, N)
          BY <3>4 DEF One
      <4>2. One(d) + One(e) = 2
          BY <3>4 DEF One
      <4>3. fl_ring'[i] = IF i = t THEN d.old ELSE IF i = t1 THEN e.old ELSE q[i]
          BY <1>2, <1>6, <3>4, <4>1, <4>2
      <4>4. q2[i] = IF i = t1 THEN e.old ELSE IF i = t THEN d.old ELSE q[i]
          BY <1>7, <1>8, <3>4, <4>1 DEF SwapQ
      <4> QED BY <1>7, <4>1, <4>3, <4>4
    <3> QED BY <3>1, <3>2, <3>3, <3>4
  <2> HIDE DEF q2
  <2>3. fl_ring' = q2
      BY <1>6, <2>1, <2>2
  <2> QED BY <2>3 DEF q2
<1>10. rt_commit' = SwapG(SwapG(g, d), e)
  <2> DEFINE g2 == SwapG(SwapG(g, d), e)
  <2>1. g2 \in [Reg -> FL!Phys]
      BY DEF Conserved
  <2>2. /\ RT!Writes(k0) <=> d.rd # 0
        /\ RT!Writes(k1) <=> e.rd # 0
        /\ d.rd # 0 => k0.rd = d.rd /\ k0.prd = d.prd
        /\ e.rd # 0 => k1.rd = e.rd /\ k1.prd = e.prd
      BY <1>2 DEF RT!Writes, RT!NoReg
  <2>3. rt_commit' = [r \in Reg |-> IF e.rd # 0 /\ e.rd = r THEN e.prd
                                    ELSE IF d.rd # 0 /\ d.rd = r THEN d.prd ELSE g[r]]
      BY <2>2, Sizes DEF RT!Commit
  <2>4. ASSUME NEW r \in Reg PROVE rt_commit'[r] = g2[r]
      BY <1>8, <2>3 DEF SwapG
  <2> HIDE DEF g2
  <2>5. rt_commit' = g2
      BY <2>1, <2>3, <2>4
  <2> QED BY <2>5 DEF g2
<1>11. ASSUME NEW x \in One(d) + One(e) .. N - 1 PROVE fl_ring'[Trunc(t + x, N)] = q[Trunc(t + x, N)]
  <2>1. Trunc(t + x, N) \in FL!Entry
      BY <1>1 DEF Trunc, One
  <2>2. One(d) + One(e) >= 1 => Trunc(t + x, N) # t
      BY <1>1 DEF Trunc, One
  <2>3. One(d) + One(e) = 2 => Trunc(t + x, N) # Trunc(t + 1, N)
      BY <1>1 DEF Trunc, One
  <2> QED BY <1>6, <2>1, <2>2, <2>3
<1> QED BY <1>3, <1>5, <1>9, <1>10, <1>11

\* The ports of commit when the read oldest leave.
Ports(read, f0, f1, k0, k1) ==
    /\ f0 = IF read >= 1 THEN Oldest.data.old ELSE -1
    /\ f1 = IF read >= 2 THEN Second.data.old ELSE -1
    /\ k0 = IF read >= 1 THEN [rd |-> Oldest.data.rd, prd |-> Oldest.data.prd] ELSE RT!NoReg
    /\ k1 = IF read >= 2 THEN [rd |-> Second.data.rd, prd |-> Second.data.prd] ELSE RT!NoReg

\* What commit does to the ring, to its tail and to the committed map: the map
\* becomes the one behind the instructions that leave.
LEMMA CommitAfter ==
    ASSUME Types, NEW c, NEW m, NEW read, NEW f0, NEW f1, NEW k0, NEW k1,
           Order(c, m), Conserved(fl_ring, rt_commit), read \in 0 .. 2, read <= gl_num,
           Ports(read, f0, f1, k0, k1), FL!WriteFreed(f0, f1), RT!Commit(k0, k1)
    PROVE  /\ Conserved(fl_ring', rt_commit')
           /\ FL!Writes(f0, f1) = c[read]
           /\ fl_tail' = Trunc(fl_tail + c[read], N)
           /\ \A r \in Reg : rt_commit'[r] = m[read][r]
           /\ \A x \in c[read] .. N - 1 : fl_ring'[Trunc(fl_tail + x, N)] = fl_ring[Trunc(fl_tail + x, N)]
<1> USE DEF Ports
<1>1. PICK q, g, t, s : q = fl_ring /\ g = rt_commit /\ t = fl_tail /\ s = Items
    OBVIOUS
<1>2. /\ Chain(c, m, s, Size, t, q, g) /\ Conserved(q, g) /\ t \in FL!Entry /\ Size \in Place
      /\ gl_num \in Nat /\ Size \in Nat /\ Size >= gl_num
  <2>1. Chain(c, m, s, Size, t, q, g) /\ Conserved(q, g)
      BY <1>1, Zenon DEF Order
  <2>2. t \in FL!Entry /\ gl_num \in Nat
      BY <1>1, Sizes DEF Types, TypeOK, FL!TypeOK, N
  <2>3. Size \in Place /\ Size >= gl_num
      BY Heads
  <2> QED BY <2>1, <2>2, <2>3, Sizes DEF Place
<1>3. /\ Nothing.rd = 0 /\ Nothing.old = 0 /\ Nothing.rd \in Reg /\ Nothing.old \in FL!Phys
      /\ One(Nothing) = 0 /\ (Nothing.old # 0 <=> Nothing.rd # 0)
      /\ \A x, y : SwapQ(x, y, Nothing) = x
      /\ \A x : SwapG(x, Nothing) = x
    BY Sizes DEF Nothing, One, SwapQ, SwapG
<1>4. /\ gl_num >= 1 => s[0] = Oldest.data
      /\ gl_num >= 2 => s[1] = Second.data
    BY <1>1, Heads
<1>5. c[0] = 0 /\ \A r \in Reg : m[0][r] = g[r]
    BY <1>2 DEF Chain
<1>6. CASE read = 0
  <2>1. f0 = -1 /\ f1 = -1 /\ k0 = RT!NoReg /\ k1 = RT!NoReg
      BY <1>6
  <2>2. PICK t1 : t1 = Trunc(t + One(Nothing), N)
      OBVIOUS
  <2>3. Conserved(SwapQ(SwapQ(q, t, Nothing), t1, Nothing), SwapG(SwapG(g, Nothing), Nothing))
      BY <1>2, <1>3
  <2>4. /\ fl_ring' = SwapQ(SwapQ(q, t, Nothing), t1, Nothing)
        /\ rt_commit' = SwapG(SwapG(g, Nothing), Nothing)
        /\ fl_tail' = Trunc(t + (One(Nothing) + One(Nothing)), N)
        /\ FL!Writes(f0, f1) = One(Nothing) + One(Nothing)
        /\ \A x \in One(Nothing) + One(Nothing) .. N - 1 : fl_ring'[Trunc(t + x, N)] = q[Trunc(t + x, N)]
      BY <1>1, <1>2, <1>3, <2>1, <2>2, <2>3, TwoPorts
  <2>5. One(Nothing) + One(Nothing) = c[read]
      BY <1>3, <1>5, <1>6
  <2> QED BY <1>1, <1>2, <1>3, <1>5, <1>6, <2>3, <2>4, <2>5
<1>7. CASE read = 1
  <2>0. gl_num >= 1 /\ Size >= 1
      BY <1>2, <1>7
  <2>1. f0 = s[0].old /\ f1 = -1 /\ k0 = [rd |-> s[0].rd, prd |-> s[0].prd] /\ k1 = RT!NoReg
      BY <1>4, <1>7, <2>0
  <2>2. PICK t1 : t1 = Trunc(t + One(s[0]), N)
      OBVIOUS
  <2>6. /\ Conserved(SwapQ(q, t, s[0]), SwapG(g, s[0])) /\ c[1] = One(s[0])
        /\ s[0].rd \in Reg /\ s[0].old \in FL!Phys /\ (s[0].old # 0 <=> s[0].rd # 0)
        /\ \A r \in Reg : SwapG(g, s[0])[r] = m[1][r]
      BY <1>2, <2>0, CommitOne
  <2>3. Conserved(SwapQ(SwapQ(q, t, s[0]), t1, Nothing), SwapG(SwapG(g, s[0]), Nothing))
      BY <1>3, <2>6
  <2>4. /\ fl_ring' = SwapQ(SwapQ(q, t, s[0]), t1, Nothing)
        /\ rt_commit' = SwapG(SwapG(g, s[0]), Nothing)
        /\ fl_tail' = Trunc(t + (One(s[0]) + One(Nothing)), N)
        /\ FL!Writes(f0, f1) = One(s[0]) + One(Nothing)
        /\ \A x \in One(s[0]) + One(Nothing) .. N - 1 : fl_ring'[Trunc(t + x, N)] = q[Trunc(t + x, N)]
      BY <1>1, <1>2, <1>3, <2>1, <2>2, <2>3, <2>6, TwoPorts
  <2>5. One(s[0]) + One(Nothing) = c[read]
    <3>1. One(s[0]) \in Int
        BY DEF One
    <3> QED BY <1>3, <1>7, <2>6, <3>1
  <2> QED BY <1>1, <1>3, <1>7, <2>3, <2>4, <2>5, <2>6
<1>8. CASE read = 2
  <2>0. gl_num >= 2 /\ gl_num >= 1 /\ Size >= 2 /\ Size >= 1
      BY <1>2, <1>8
  <2>1. /\ f0 = s[0].old /\ f1 = s[1].old
        /\ k0 = [rd |-> s[0].rd, prd |-> s[0].prd] /\ k1 = [rd |-> s[1].rd, prd |-> s[1].prd]
      BY <1>4, <1>8, <2>0
  <2>6. /\ c[1] = One(s[0])
        /\ s[0].rd \in Reg /\ s[0].old \in FL!Phys /\ (s[0].old # 0 <=> s[0].rd # 0)
      BY <1>2, <2>0, CommitOne
  <2>7. PICK q1, g1, t1 :
              /\ q1 = SwapQ(q, t, s[0]) /\ g1 = SwapG(g, s[0]) /\ t1 = Trunc(t + c[1], N)
              /\ Conserved(SwapQ(q1, t1, s[1]), SwapG(g1, s[1])) /\ c[2] = One(s[0]) + One(s[1])
              /\ s[1].rd \in Reg /\ s[1].old \in FL!Phys /\ (s[1].old # 0 <=> s[1].rd # 0)
              /\ \A r \in Reg : SwapG(g1, s[1])[r] = m[2][r]
      BY <1>2, <2>0, CommitTwo
  <2>3. Conserved(SwapQ(SwapQ(q, t, s[0]), t1, s[1]), SwapG(SwapG(g, s[0]), s[1]))
      BY <2>7
  <2>8. t1 = Trunc(t + One(s[0]), N)
      BY <2>6, <2>7
  <2>4. /\ fl_ring' = SwapQ(SwapQ(q, t, s[0]), t1, s[1])
        /\ rt_commit' = SwapG(SwapG(g, s[0]), s[1])
        /\ fl_tail' = Trunc(t + (One(s[0]) + One(s[1])), N)
        /\ FL!Writes(f0, f1) = One(s[0]) + One(s[1])
        /\ \A x \in One(s[0]) + One(s[1]) .. N - 1 : fl_ring'[Trunc(t + x, N)] = q[Trunc(t + x, N)]
      BY <1>1, <1>2, <2>1, <2>3, <2>6, <2>7, <2>8, TwoPorts
  <2>5. One(s[0]) + One(s[1]) = c[read]
      BY <1>8, <2>7
  <2> QED BY <1>1, <1>8, <2>3, <2>4, <2>5, <2>7
<1> QED BY <1>6, <1>7, <1>8
-----------------------------------------------------------------------------
(* Register read in a cycle.                                                 *)

LEMMA SnoopCarries ==
    ASSUME NEW i \in Instr
    PROVE  /\ Snoop(i) # None /\ Snoop(i).kind = i.kind /\ Snoop(i).rd = i.rd /\ Snoop(i).prd = i.prd
           /\ Snoop(i).old = i.old /\ Snoop(i).ck = i.ck /\ Snoop(i).chkp = i.chkp
           /\ Snoop(i).index = i.index
           /\ LET j == [Snoop(i) EXCEPT !.index = gl_tail] IN
              j.ck = i.ck /\ j.chkp = i.chkp /\ j.index = gl_tail /\ j.kind = i.kind
<1> DEFINE b == i.rdy \/ (i.rs # 0 /\ \E c \in Broadcast : c[2] = i.prs)
           s == [i EXCEPT !.rdy = b]
           j == [s EXCEPT !.index = gl_tail]
<1>0. i # None
    BY DEF Instr, None, AllKinds
<1>1. Snoop(i) = s
    BY <1>0 DEF Snoop
<1>2. b \in BOOLEAN
    OBVIOUS
<1> HIDE DEF b
<1>3. /\ s \in Instr /\ s.index = i.index /\ s.rd = i.rd /\ s.prd = i.prd /\ s.kind = i.kind
      /\ s.old = i.old /\ s.ck = i.ck /\ s.chkp = i.chkp
    BY <1>2 DEF Instr
<1>4. s # None
    BY <1>3 DEF Instr, None, AllKinds
<1>5. j.ck = s.ck /\ j.chkp = s.chkp /\ j.index = gl_tail /\ j.kind = s.kind
    BY <1>3 DEF Instr
<1> QED BY <1>1, <1>3, <1>4, <1>5

\* What was fetched, and what renaming makes of it.
LEMMA RenamedFields ==
    ASSUME NEW iq, NEW busy, NEW f0, NEW f1, iq \in QueueHead(busy), iq # None
    PROVE  /\ iq.kind \in AllKinds /\ iq.rd \in Reg /\ ~cq /\ ~xq /\ ~stall_rr(busy) /\ ~do_recover
           /\ ~RT!OutOfCheckpoints
           /\ LET i == Renamed(iq, busy, f0, f1) IN
              /\ i # None /\ i.kind = iq.kind /\ i.rd = iq.rd
              /\ i.prd = FL!NewRegister(reads(iq, busy, f0, f1), f0, f1)
              /\ i.old = RT!Mapping(iq.rd) /\ i.ck = do_checkpoint(iq, busy) /\ i.chkp = rt_vh
<1>1. iq \in Fetched /\ ~cq /\ ~xq /\ ~stall_rr(busy) /\ ~do_recover /\ ~RT!OutOfCheckpoints
    BY DEF QueueHead
<1>2. PICK k \in Kinds : iq \in [kind : {k}, rd : Destination(k), rs : Sources]
    BY <1>1 DEF Fetched
<1>3. Destination(k) \subseteq Reg /\ k \in AllKinds
    BY Sizes, BackendConstants DEF Destination, Reg
<1>4. iq.kind \in AllKinds /\ iq.rd \in Reg
    BY <1>2, <1>3
<1> DEFINE i == Renamed(iq, busy, f0, f1)
           y == iq.rs = 0 \/ RT!Rdy(iq.rs, Broadcast)
           new == FL!NewRegister(reads(iq, busy, f0, f1), f0, f1)
           ck == do_checkpoint(iq, busy)
<1>5. i = [kind |-> iq.kind, rd |-> iq.rd, rs |-> iq.rs, prd |-> new,
           old |-> RT!Mapping(iq.rd), prs |-> RT!Mapping(iq.rs), rdy |-> y, ck |-> ck,
           chkp |-> rt_vh, index |-> NoIndex]
    BY Zenon DEF Renamed
<1> HIDE DEF i, y, new, ck
<1>6. /\ i.kind = iq.kind /\ i.rd = iq.rd /\ i.prd = new
      /\ i.old = RT!Mapping(iq.rd) /\ i.ck = ck /\ i.chkp = rt_vh
    BY <1>5
<1>7. i # None
    BY <1>4, <1>6 DEF None, AllKinds
<1> QED BY <1>1, <1>4, <1>6, <1>7 DEF i, new, ck

LEMMA ReadAfter ==
    ASSUME Types, ~xq, cq => rr = None,
           NEW iq, NEW busy, NEW rrex, NEW ok, NEW brex, NEW fin, NEW memex, NEW done, NEW csrx,
           Clock(iq, busy, rrex, ok, brex, fin, memex, done, csrx),
           NEW f0, NEW f1, f0 = Freed(1, done, memex, csrx), f1 = Freed(2, done, memex, csrx)
    PROVE  /\ mis \/ cq => rr' = None
           /\ renames(iq, busy, f0, f1) => iq # None /\ ~stall_rr(busy) /\ ~cq
           /\ ~mis /\ stall_rr(busy) => rr' = Snoop(rr)
           /\ ~mis /\ ~stall_rr(busy) => rr' = IF renames(iq, busy, f0, f1) THEN Renamed(iq, busy, f0, f1)
                                               ELSE None
<1>1. rr' = NextRR(iq, busy, f0, f1) /\ iq \in QueueHead(busy)
    BY Zenon DEF Clock, Cycle
<1>2. mis \/ cq => rr' = None
    BY <1>1 DEF NextRR, flush_ir
<1>3. renames(iq, busy, f0, f1) => iq # None /\ ~stall_rr(busy)
    BY DEF renames, stall_iq
<1>4. cq => iq = None
    BY <1>1 DEF QueueHead
<1>5. cq => Snoop(rr) = None
    BY DEF Snoop
<1>6. CASE cq
    BY <1>2, <1>3, <1>4, <1>5, <1>6
<1>7. CASE ~cq
    BY <1>1, <1>2, <1>3, <1>7 DEF NextRR, flush_ir
<1> QED BY <1>6, <1>7

\* How many of those in flight stay, and whether one comes in.
Last == IF mis THEN Age(missed.index) + 1 ELSE Size
Brings(iq, busy, f0, f1) == IF ~mis /\ renames(iq, busy, f0, f1) THEN 1 ELSE 0
DataOf(i) == [kind |-> i.kind, rd |-> i.rd, prd |-> i.prd, old |-> i.old]

LEMMA ItemsAfter ==
    ASSUME Types, Types', Pipe, Fenced, ~xq,
           NEW iq, NEW busy, NEW rrex, NEW ok, NEW brex, NEW fin, NEW memex, NEW done, NEW csrx,
           Clock(iq, busy, rrex, ok, brex, fin, memex, done, csrx), ~commit_xcpt(memex),
           NEW f0, NEW f1, f0 = Freed(1, done, memex, csrx), f1 = Freed(2, done, memex, csrx),
           NEW read, NEW last, NEW new, read = Retire(done, memex), last = Last,
           new = Brings(iq, busy, f0, f1)
    PROVE  /\ read \in 0 .. 2 /\ read <= gl_num /\ last \in 0 .. Size /\ read \in 0 .. last
           /\ new \in {0, 1} /\ (new = 1 => last = Size /\ Size < N)
           /\ Size' = last - read + new
           /\ \A k \in 0 .. last - read - 1 : Items'[k] = Items[k + read]
           /\ new = 1 => Items'[last - read] = DataOf(Renamed(iq, busy, f0, f1)) /\ gl_num' = Size - read
<1>1. /\ gl_num \in 0 .. N - 1 /\ gl_head \in 0 .. N - 1 /\ gl_head \in Index
      /\ N \in Nat /\ N >= 3 /\ Index = 0 .. N - 1
      /\ gl_tail = Trunc(gl_head + gl_num, N)
    BY Sizes DEF Types, TypeOK, N, Pipe, Occupied
<1>2. /\ read \in 0 .. 2 /\ read <= gl_num
      /\ gl_num > 0 \/ ~mis => gl_head' = Trunc(gl_head + read, N)
      /\ \A i \in Index : gl_entries'[i].data = IF Enters(busy) /\ i = gl_tail THEN Taken ELSE gl_entries[i].data
      /\ ~mis => gl_num' = gl_num + (IF Enters(busy) THEN 1 ELSE 0) - read
      /\ Enters(busy) => gl_num < N - 1 /\ rr \in Instr
    BY ListAfter, RetiresFinished
<1>3. /\ Limit(busy) \in 0 .. N - 1 /\ read <= Limit(busy) /\ (mis => Limit(busy) <= gl_num)
      /\ gl_num' = Limit(busy) - read
      /\ mis => missed \in wb /\ Stays(missed.index, busy, done, memex)
    BY PlacesAfter
<1>4. cq => rr = None
    BY DEF Fenced
<1>5. /\ mis \/ cq => rr' = None
      /\ renames(iq, busy, f0, f1) => iq # None /\ ~stall_rr(busy) /\ ~cq
      /\ ~mis /\ stall_rr(busy) => rr' = Snoop(rr)
      /\ ~mis /\ ~stall_rr(busy) => rr' = IF renames(iq, busy, f0, f1) THEN Renamed(iq, busy, f0, f1)
                                          ELSE None
    BY <1>4, ReadAfter
<1>6. iq # None => Renamed(iq, busy, f0, f1) # None
    BY RenamedFields DEF Clock
<1>7. rr = None \/ rr \in Instr
    BY DEF Types, TypeOK
<1>8. new \in {0, 1} /\ (new = 1 <=> ~mis /\ renames(iq, busy, f0, f1))
    BY DEF Brings
<1>9. /\ Size \in Place /\ Size \in Nat /\ (rr = None => Size = gl_num) /\ (rr # None => Size = gl_num + 1)
      /\ \A k \in Place : Items[k] = Item(k)
  <2>1. Size \in Place
      BY Heads
  <2> QED BY <1>1, <2>1 DEF Size, Place, Items
<1>10. \A k \in Place : Items'[k] = IF k < gl_num' THEN gl_entries'[Trunc(gl_head' + k, N)].data ELSE DataOf(rr')
    BY DEF Items, Item, Taken, DataOf, N
<1>11. /\ rr' = None => Size' = gl_num'
       /\ rr' # None => Size' = gl_num' + 1
  <2>1. gl_num' \in Int
      BY <1>1, <1>2, <1>3
  <2>3. \A x \in Int : x + 0 = x
      OBVIOUS
  <2>2. gl_num' + 0 = gl_num'
      BY <2>1, <2>3, Zenon
  <2> QED BY <2>2, Zenon DEF Size
<1>12. ASSUME NEW k \in 0 .. N - 1, k + read <= gl_num, k < gl_num'
       PROVE  /\ Items'[k] = gl_entries'[Trunc(gl_head + (k + read), N)].data
              /\ Trunc(gl_head + (k + read), N) \in Index
              /\ Trunc(gl_head + (k + read), N) = gl_tail <=> k + read = gl_num
  <2> DEFINE j == k + read
  <2>1. j \in read .. N - 1 /\ j \in 0 .. N - 1 /\ j - read = k /\ k \in Place
      BY <1>1, <1>2, <1>12 DEF Place
  <2>2. gl_num > 0 \/ ~mis
      BY <1>1, <1>2, <1>3, <1>12
  <2> HIDE DEF j
  <2>3. Trunc(gl_head' + k, N) = Trunc(gl_head + j, N)
    <3>1. \A n \in read .. N - 1 : Trunc(Trunc(gl_head + read, N) + (n - read), N) = Trunc(gl_head + n, N)
        BY <1>1, <1>2, PlacesShift
    <3>2. Trunc(Trunc(gl_head + read, N) + (j - read), N) = Trunc(gl_head + j, N)
        BY <2>1, <3>1
    <3> QED BY <1>2, <2>1, <2>2, <3>2
  <2>4. Trunc(gl_head + j, N) \in Index /\ (Trunc(gl_head + j, N) = gl_tail <=> j = gl_num)
      BY <1>1, <2>1 DEF Trunc
  <2> QED BY <1>10, <1>12, <2>1, <2>3, <2>4 DEF j
<1>13. ASSUME NEW k \in 0 .. N - 1, k + read < gl_num, k < gl_num'
       PROVE  Items'[k] = Items[k + read]
  <2>0. k + read <= gl_num /\ k + read # gl_num
      BY <1>1, <1>2, <1>13
  <2>1. /\ Items'[k] = gl_entries'[Trunc(gl_head + (k + read), N)].data
        /\ Trunc(gl_head + (k + read), N) \in Index
        /\ Trunc(gl_head + (k + read), N) # gl_tail
      BY <1>12, <1>13, <2>0
  <2>2. k + read \in Place
      BY <1>1, <1>2, <1>13 DEF Place
  <2>3. Items[k + read] = gl_entries[Trunc(gl_head + (k + read), N)].data
      BY <1>9, <1>13, <2>2 DEF Item
  <2> QED BY <1>2, <2>1, <2>3
<1>14. CASE mis
  <2>1. rr' = None /\ last = Limit(busy) /\ Size' = gl_num' /\ new = 0 /\ gl_num' = last - read
    <3>1. gl_num' \in Int
        BY <1>1, <1>2, <1>3
    <3>2. rr' = None /\ new = 0
        BY <1>5, <1>8, <1>14
    <3>3. Size' = gl_num'
        BY <1>11, <3>2, Zenon
    <3>4. last = Limit(busy)
        BY <1>14, Zenon DEF Last, Limit
    <3> QED BY <1>3, <3>2, <3>3, <3>4
  <2>2. last \in 0 .. gl_num /\ last \in 0 .. Size /\ read \in 0 .. last
      BY <1>1, <1>2, <1>3, <1>9, <1>14, <2>1
  <2>3. ASSUME NEW k \in 0 .. last - read - 1 PROVE Items'[k] = Items[k + read]
    <3>1. k \in 0 .. N - 1 /\ k + read < gl_num /\ k < gl_num'
        BY <1>1, <1>2, <2>1, <2>2
    <3> QED BY <1>13, <3>1
  <2> QED BY <1>2, <1>3, <2>1, <2>2, <2>3
<1>15. CASE ~mis /\ stall_rr(busy)
  <2>1. /\ rr' = Snoop(rr) /\ last = Size /\ gl_num' = gl_num - read /\ new = 0 /\ ~Enters(busy)
    <3>1. ~Enters(busy)
        BY <1>15 DEF Enters
    <3> QED BY <1>1, <1>2, <1>5, <1>8, <1>15, <3>1 DEF Last
  <2>2. (rr' = None <=> rr = None) /\ (rr # None => DataOf(rr') = Taken)
      BY <1>7, <2>1, SnoopCarries DEF DataOf, Taken, Snoop
  <2>3. Size' = last - read + new /\ read \in 0 .. last /\ last \in 0 .. Size
      BY <1>1, <1>2, <1>9, <1>11, <2>1, <2>2
  <2>4. ASSUME NEW k \in 0 .. last - read - 1 PROVE Items'[k] = Items[k + read]
    <3>1. CASE k + read < gl_num
      <4>1. k \in 0 .. N - 1 /\ k < gl_num'
          BY <1>1, <1>2, <2>1, <3>1
      <4> QED BY <1>13, <3>1, <4>1
    <3>2. CASE k + read = gl_num
      <4>1. k \in Place /\ ~(k < gl_num') /\ k + read \in Place /\ ~(k + read < gl_num)
          BY <1>1, <1>2, <2>1, <3>2 DEF Place
      <4>2. rr # None
          BY <1>1, <1>2, <1>9, <2>1, <3>2
      <4>3. Items'[k] = DataOf(rr')
          BY <1>10, <4>1
      <4>4. Items[k + read] = Taken
          BY <1>9, <4>1 DEF Item
      <4> QED BY <2>2, <4>2, <4>3, <4>4
    <3> QED BY <1>1, <1>2, <1>9, <2>1, <3>1, <3>2
  <2> QED BY <1>2, <2>1, <2>3, <2>4
<1>16. CASE ~mis /\ ~stall_rr(busy)
  <2>1. /\ rr' = IF new = 1 THEN Renamed(iq, busy, f0, f1) ELSE None
        /\ last = Size /\ (Enters(busy) <=> rr # None) /\ ~(new = 1 /\ rr' = None)
        /\ (new = 0 => rr' = None)
      BY <1>5, <1>6, <1>8, <1>16 DEF Last, Enters
  <2>2. gl_num' = Size - read /\ Size < N
    <3>1. gl_num < N - 1
        BY <1>1, <1>16 DEF stall_rr, GL!Full, N
    <3> QED BY <1>1, <1>2, <1>9, <1>16, <2>1, <3>1
  <2>6. read \in 0 .. last /\ last \in 0 .. Size
      BY <1>1, <1>2, <1>9, <2>1
  <2>3. Size' = last - read + new /\ read \in 0 .. last /\ last \in 0 .. Size
    <3>1. CASE new = 1
      <4>1. Size' = gl_num' + 1
          BY <1>11, <2>1, <3>1, Zenon
      <4> QED BY <1>2, <1>9, <2>1, <2>2, <2>6, <3>1, <4>1
    <3>2. CASE new = 0
      <4>1. Size' = gl_num'
          BY <1>11, <2>1, <3>2, Zenon
      <4> QED BY <1>2, <1>9, <2>1, <2>2, <2>6, <3>2, <4>1
    <3> QED BY <1>8, <3>1, <3>2
  <2>4. ASSUME NEW k \in 0 .. last - read - 1 PROVE Items'[k] = Items[k + read]
    <3>0. k \in 0 .. N - 1 /\ k < gl_num'
        BY <1>1, <1>2, <1>9, <2>1, <2>2
    <3>1. CASE k + read < gl_num
        BY <1>13, <3>0, <3>1
    <3>2. CASE k + read = gl_num
      <4>1. k + read \in Place /\ ~(k + read < gl_num) /\ k + read <= gl_num
          BY <1>1, <1>2, <2>1, <3>2 DEF Place
      <4>2. rr # None
          BY <1>1, <1>2, <1>9, <2>1, <3>2
      <4>3. Items'[k] = gl_entries'[gl_tail].data /\ gl_tail \in Index
          BY <1>12, <3>0, <3>2, <4>1
      <4>4. Items[k + read] = Taken
          BY <1>9, <4>1 DEF Item
      <4>5. gl_entries'[gl_tail].data = Taken
          BY <1>2, <2>1, <4>2, <4>3
      <4> QED BY <4>3, <4>4, <4>5
    <3> QED BY <1>1, <1>2, <1>9, <2>1, <3>1, <3>2
  <2>5. ASSUME new = 1 PROVE Items'[last - read] = DataOf(Renamed(iq, busy, f0, f1))
    <3>1. last - read \in Place /\ ~(last - read < gl_num')
        BY <1>1, <1>2, <1>9, <2>1, <2>2 DEF Place
    <3> QED BY <1>10, <2>1, <2>5, <3>1
  <2> QED BY <1>2, <1>8, <2>1, <2>2, <2>3, <2>4, <2>5
<1> QED BY <1>14, <1>15, <1>16
-----------------------------------------------------------------------------
(* Renaming in a cycle.                                                      *)

\* The current version describes all that are in flight.
LEMMA CurrentVersion ==
    ASSUME Types, NEW c, NEW m, NEW b, Order(c, m), Versions(c, m, b)
    PROVE  /\ fl_vh \in FL!Ckpt /\ VAge(fl_vh) = fl_ck /\ b[fl_vh] = Size
           /\ c[Size] \in 0 .. Size /\ c[Size] \in 0 .. N
           /\ fl_num[fl_vh] = N - c[Size]
           /\ fl_head[fl_vh] = Trunc(fl_tail + c[Size], N)
           /\ \A r \in Reg : rt_map[r][fl_vh] = m[Size][r]
<1>1. /\ fl_vt \in 0 .. NC - 1 /\ fl_ck \in 0 .. 2 * NC - 1 /\ fl_vh \in 0 .. NC - 1
      /\ NC \in Nat /\ NC >= 2 /\ FL!Ckpt = 0 .. NC - 1
    BY Sizes DEF Types, TypeOK, FL!TypeOK, NC
<1>2. fl_ck < NC /\ fl_vh = Trunc(fl_vt + fl_ck, NC) /\ b[fl_vh] = Size
    BY DEF Versions, Marks
<1>3. VAge(fl_vh) = fl_ck
    BY <1>1, <1>2 DEF VAge, Dist, Trunc
<1>4. /\ fl_num[fl_vh] = N - c[b[fl_vh]]
      /\ fl_head[fl_vh] = Trunc(fl_tail + c[b[fl_vh]], N)
      /\ \A r \in Reg : rt_map[r][fl_vh] = m[b[fl_vh]][r]
  <2>1. VAge(fl_vh) <= fl_ck /\ fl_vh \in FL!Ckpt
      BY <1>1, <1>3
  <2> QED BY <2>1 DEF Versions, Marks, VAge
<1>5. c[Size] \in 0 .. Size /\ c[Size] \in 0 .. N
  <2>1. Size \in Place /\ Chain(c, m, Items, Size, fl_tail, fl_ring, rt_commit)
      BY Heads DEF Order
  <2>2. Size \in 0 .. Size
      BY <2>1, Sizes DEF Place
  <2> QED BY <2>1, <2>2, ChainBounds
<1> QED BY <1>1, <1>2, <1>3, <1>4, <1>5

LEMMA NewItem ==
    ASSUME Types, ~xq, ~mis, NEW c, NEW m, NEW b, Order(c, m), Versions(c, m, b),
           NEW iq, NEW busy, NEW f0, NEW f1, iq \in QueueHead(busy)
    PROVE  /\ renames(iq, busy, f0, f1) =>
                /\ iq.rd \in Reg /\ RT!Mapping(iq.rd) = m[Size][iq.rd] /\ c[Size] < N
                /\ iq.rd # 0 => FL!NewRegister(reads(iq, busy, f0, f1), f0, f1) = fl_ring[Trunc(fl_tail + c[Size], N)]
           /\ FL!ReadEnable(reads(iq, busy, f0, f1), f0, f1) <=> renames(iq, busy, f0, f1) /\ iq.rd # 0
           /\ do_checkpoint(iq, busy) <=> renames(iq, busy, f0, f1) /\ iq.kind = "BR"
           /\ do_checkpoint(iq, busy) => fl_ck < NC - 1
<1>1. /\ gl_num \in 0 .. N - 1 /\ N \in Nat /\ N >= 3 /\ NC \in Nat /\ fl_ck \in 0 .. 2 * NC - 1
      /\ rt_vh = fl_vh /\ rt_ck = fl_ck
    BY Sizes DEF Types, TypeOK, VersionsTogether, FL!TypeOK, N, NC
<1>2. /\ fl_vh \in FL!Ckpt /\ c[Size] \in 0 .. Size
      /\ fl_num[fl_vh] = N - c[Size] /\ fl_head[fl_vh] = Trunc(fl_tail + c[Size], N)
      /\ \A r \in Reg : rt_map[r][fl_vh] = m[Size][r]
    BY CurrentVersion
<1>3. fl_ck < NC
    BY DEF Versions, Marks
<1>4. CASE iq = None
  <2>1. ~renames(iq, busy, f0, f1) /\ iq.kind # "BR"
      BY <1>4 DEF renames, None
  <2> QED BY <2>1 DEF FL!ReadEnable, reads, do_checkpoint
<1>5. CASE iq # None
  <2>1. iq.kind \in AllKinds /\ iq.rd \in Reg /\ ~cq /\ ~stall_rr(busy) /\ ~RT!OutOfCheckpoints
      BY <1>5, RenamedFields
  <2>2. gl_num < N - 1
      BY <1>1, <2>1 DEF stall_rr, GL!Full, N
  <2>3. Size \in 0 .. N - 1
      BY <1>1, <2>2 DEF Size
  <2>4. fl_num[fl_vh] # 0 /\ c[Size] < N
    <3> HIDE DEF Size
    <3> QED BY <1>1, <1>2, <2>3
  <2>5. ~FL!Empty(f0, f1)
      BY <2>4 DEF FL!Empty
  <2>6. renames(iq, busy, f0, f1)
      BY <1>5, <2>1, <2>5 DEF renames, stall_iq
  <2>7. FL!ReadEnable(reads(iq, busy, f0, f1), f0, f1) <=> iq.rd # 0
      BY <2>5, <2>6 DEF FL!ReadEnable, reads
  <2>8. do_checkpoint(iq, busy) <=> iq.kind = "BR"
      BY <2>1 DEF do_checkpoint, flush_ir
  <2>9. fl_ck < NC - 1
      BY <1>1, <1>3, <2>1 DEF RT!OutOfCheckpoints, NC
  <2>10. RT!Mapping(iq.rd) = m[Size][iq.rd]
      BY <1>1, <1>2, <2>1 DEF RT!Mapping
  <2>11. iq.rd # 0 => FL!NewRegister(reads(iq, busy, f0, f1), f0, f1) = fl_ring[Trunc(fl_tail + c[Size], N)]
      BY <1>2, <2>4, <2>7 DEF FL!NewRegister
  <2> QED BY <2>1, <2>4, <2>6, <2>7, <2>8, <2>9, <2>10, <2>11
<1> QED BY <1>4, <1>5
-----------------------------------------------------------------------------
(* Versions in a cycle.                                                      *)

\* The count and the pointer of a version with z registers given out before it,
\* when y of them come back.
LEMMA MarkShift ==
    ASSUME NEW t \in 0 .. N - 1, NEW y \in 0 .. N, NEW z \in 0 .. N, y <= z
    PROVE  /\ Trunc((N - z) + y, 2 * N) = N - (z - y)
           /\ Trunc(t + z, N) = Trunc(Trunc(t + y, N) + (z - y), N)
BY Sizes DEF Trunc

\* The recovery of version w.
Recovered(c, b, t, vt, num, w, read, b2, n2, t2, ck2, num2) ==
    /\ b2 = [v \in FL!Ckpt |-> b[v] - read]
    /\ n2 = b[w] - read /\ t2 = Trunc(t + c[read], N) /\ ck2 = Dist(vt, w, NC)
    /\ \A v \in FL!Ckpt : num2[v] = Trunc(num[v] + c[read], 2 * N)

LEMMA MarksRecover ==
    ASSUME NEW c, NEW m, NEW b, NEW n, NEW t, NEW vt, NEW ck, NEW vh, NEW num, NEW head, NEW map,
           NEW s, NEW q, NEW g, NEW w, NEW read, NEW d,
           NEW b2, NEW n2, NEW t2, NEW ck2, NEW num2,
           Marks(c, m, b, n, t, vt, ck, vh, num, head, map), Chain(c, m, s, n, t, q, g),
           n \in Place, t \in 0 .. N - 1, vt \in FL!Ckpt, ck \in Nat, w \in FL!Ckpt, Dist(vt, w, NC) < ck,
           read \in 0 .. b[w],
           \A v \in FL!Ckpt : Dist(vt, v, NC) < ck => read <= b[v],
           Recovered(c, b, t, vt, num, w, read, b2, n2, t2, ck2, num2)
    PROVE  Marks(ShiftC(c, read, b[w], d), ShiftM(m, read, b[w], d), b2, n2, t2, vt, ck2, w, num2, head, map)
<1>1. /\ N \in Nat /\ N >= 3 /\ NC \in Nat /\ NC >= 2 /\ FL!Ckpt = 0 .. NC - 1 /\ n \in 0 .. N
    BY Sizes DEF NC, Place
<1>2. /\ ck < NC /\ vh = Trunc(vt + ck, NC) /\ b \in [FL!Ckpt -> Int] /\ b[vh] = n
      /\ \A v \in FL!Ckpt : Dist(vt, v, NC) <= ck =>
          /\ b[v] \in 0 .. n
          /\ num[v] = N - c[b[v]]
          /\ head[v] = Trunc(t + c[b[v]], N)
          /\ \A r \in Reg : map[r][v] = m[b[v]][r]
      /\ \A u, v \in FL!Ckpt : Dist(vt, u, NC) < Dist(vt, v, NC) /\ Dist(vt, v, NC) < ck => b[u] < b[v]
    BY DEF Marks
<1>3. \A v \in FL!Ckpt : Dist(vt, v, NC) \in 0 .. NC - 1
    BY <1>1 DEF Dist, Trunc
<1>4. PICK last : last = b[w]
    OBVIOUS
<1>5. PICK k2 : k2 = Dist(vt, w, NC) /\ k2 = ck2
    BY DEF Recovered
<1>6. last \in 0 .. n /\ last \in Place /\ k2 \in 0 .. NC - 1 /\ k2 < ck /\ read \in 0 .. last /\ read \in 0 .. n
  <2>1. Dist(vt, w, NC) <= ck
      BY <1>1, <1>3
  <2>2. last \in 0 .. n
      BY <1>2, <1>4, <2>1
  <2>3. k2 \in 0 .. NC - 1 /\ k2 < ck
      BY <1>3, <1>5
  <2>4. read \in 0 .. last
      BY <1>4
  <2> QED BY <1>1, <2>2, <2>3, <2>4 DEF Place
<1>7. k2 < NC /\ w = Trunc(vt + k2, NC)
    BY <1>1, <1>5, <1>6 DEF Dist, Trunc
<1> DEFINE c2 == ShiftC(c, read, last, d)
           m2 == ShiftM(m, read, last, d)
<1>8. b2 \in [FL!Ckpt -> Int] /\ b2[w] = last - read /\ \A v \in FL!Ckpt : b2[v] = b[v] - read /\ b[v] \in Int
    BY <1>2, <1>4, <1>6 DEF Recovered
<1>9. \A k \in 0 .. n : c[k] \in 0 .. N
    BY ChainBounds
<1>10. \A i, j \in 0 .. n : i <= j => c[i] <= c[j]
    BY DEF Chain
<1>11. \A k \in 0 .. last - read : c2[k] = c[k + read] - c[read] /\ m2[k] = m[k + read]
  <2>1. last \in Place /\ read \in 0 .. last
      BY <1>6
  <2>2. ASSUME NEW k \in 0 .. last - read
        PROVE  /\ ShiftC(c, read, last, d)[k] = c[k + read] - c[read]
               /\ ShiftM(m, read, last, d)[k] = m[k + read]
    <3>1. k \in Place /\ k + read <= last
        BY <1>1, <1>6 DEF Place
    <3> QED BY <3>1 DEF ShiftC, ShiftM
  <2> QED BY <2>2
<1>12. \A v \in FL!Ckpt : num2[v] = Trunc(num[v] + c[read], 2 * N)
    BY DEF Recovered
<1> HIDE DEF c2, m2
<1>13. ASSUME NEW v \in FL!Ckpt, Dist(vt, v, NC) <= k2
       PROVE  /\ b2[v] \in 0 .. last - read
              /\ num2[v] = N - c2[b2[v]]
              /\ head[v] = Trunc(t2 + c2[b2[v]], N)
              /\ \A r \in Reg : map[r][v] = m2[b2[v]][r]
  <2>1. Dist(vt, v, NC) \in 0 .. NC - 1 /\ Dist(vt, v, NC) < ck
      BY <1>1, <1>3, <1>6, <1>13
  <2>2. read <= b[v] /\ b[v] \in 0 .. n
    <3>1. Dist(vt, v, NC) <= ck
        BY <1>1, <2>1
    <3>2. Dist(vt, v, NC) <= ck => b[v] \in 0 .. n
        BY <1>2, Zenon
    <3>3. read <= b[v]
        BY <2>1, Zenon
    <3> QED BY <3>1, <3>2, <3>3, Zenon
  <2>3. b[v] <= last
    <3>1. CASE Dist(vt, v, NC) = k2
      <4>1. v = w
          BY <1>1, <1>5, <3>1 DEF Dist, Trunc
      <4> QED BY <1>4, <1>6, <4>1
    <3>2. CASE Dist(vt, v, NC) # k2
      <4>1. Dist(vt, v, NC) < Dist(vt, w, NC)
          BY <1>3, <1>5, <1>6, <1>13, <3>2
      <4>2. b[v] < b[w]
          BY <1>2, <4>1
      <4> QED BY <1>4, <1>6, <2>2, <4>2
    <3> QED BY <3>1, <3>2
  <2>4. b2[v] = b[v] - read /\ b2[v] \in 0 .. last - read /\ b2[v] + read = b[v]
      BY <1>6, <1>8, <2>2, <2>3
  <2>5. c2[b2[v]] = c[b[v]] - c[read] /\ m2[b2[v]] = m[b[v]]
      BY <1>11, <2>4
  <2>6. num[v] = N - c[b[v]] /\ head[v] = Trunc(t + c[b[v]], N) /\ \A r \in Reg : map[r][v] = m[b[v]][r]
      BY <1>1, <1>2, <2>1
  <2>7. c[read] \in 0 .. N /\ c[b[v]] \in 0 .. N /\ c[read] <= c[b[v]]
      BY <1>6, <1>9, <1>10, <2>2
  <2>8. /\ Trunc(num[v] + c[read], 2 * N) = N - (c[b[v]] - c[read])
        /\ head[v] = Trunc(Trunc(t + c[read], N) + (c[b[v]] - c[read]), N)
    <3>1. /\ Trunc((N - c[b[v]]) + c[read], 2 * N) = N - (c[b[v]] - c[read])
          /\ Trunc(t + c[b[v]], N) = Trunc(Trunc(t + c[read], N) + (c[b[v]] - c[read]), N)
        BY <2>7, MarkShift, Zenon
    <3> QED BY <2>6, <3>1
  <2> QED BY <1>12, <2>4, <2>5, <2>6, <2>8 DEF Recovered
<1>14. ASSUME NEW u \in FL!Ckpt, NEW v \in FL!Ckpt,
              Dist(vt, u, NC) < Dist(vt, v, NC), Dist(vt, v, NC) < k2
       PROVE  b2[u] < b2[v]
  <2>1. Dist(vt, v, NC) < ck
      BY <1>1, <1>3, <1>6, <1>14
  <2>2. b[u] < b[v]
      BY <1>2, <1>14, <2>1
  <2> QED BY <1>6, <1>8, <2>2
<1>15. Marks(c2, m2, b2, n2, t2, vt, k2, w, num2, head, map)
    BY <1>4, <1>7, <1>8, <1>13, <1>14 DEF Marks, Recovered
<1> QED BY <1>4, <1>5, <1>15 DEF c2, m2

\* The same for the current version, which gives out x registers.
LEMMA MarkNew ==
    ASSUME NEW t \in 0 .. N - 1, NEW y \in 0 .. N, NEW z \in 0 .. N, NEW x \in 0 .. 1, y <= z, z + x <= N
    PROVE  /\ Trunc((N - z) + y - x, 2 * N) = N - (z - y + x)
           /\ Trunc(Trunc(t + z, N) + x, N) = Trunc(Trunc(t + y, N) + (z - y + x), N)
BY Sizes DEF Trunc

\* Version pointers.
LEMMA VersionShift ==
    ASSUME NEW vt, NEW ck, NEW del, NEW take,
           vt \in 0 .. NC - 1, ck \in 0 .. NC - 1, del \in {0, 1}, take \in {0, 1}, del <= ck,
           take = 1 => ck < NC - 1
    PROVE  /\ Trunc(ck + take - del, 2 * NC) = ck + take - del /\ ck + take - del < NC
           /\ Trunc(vt + ck, NC) \in 0 .. NC - 1 /\ Dist(vt, Trunc(vt + ck, NC), NC) = ck
           /\ Trunc(Trunc(vt + ck, NC) + take, NC) \in 0 .. NC - 1
           /\ Dist(vt, Trunc(Trunc(vt + ck, NC) + take, NC), NC) = ck + take
           /\ Trunc(Trunc(vt + ck, NC) + take, NC) = Trunc(Trunc(vt + del, NC) + (ck + take - del), NC)
           /\ \A v \in 0 .. NC - 1 :
                /\ Dist(vt, v, NC) \in 0 .. NC - 1
                /\ Dist(Trunc(vt + del, NC), v, NC) = IF Dist(vt, v, NC) >= del THEN Dist(vt, v, NC) - del ELSE NC - 1
           /\ \A u, v \in 0 .. NC - 1 : Dist(vt, u, NC) = Dist(vt, v, NC) => u = v
<1>1. NC \in Nat /\ NC >= 2
    BY Sizes DEF NC
<1>2. Trunc(ck + take - del, 2 * NC) = ck + take - del /\ ck + take - del < NC
    BY <1>1 DEF Trunc
<1>3. Trunc(vt + ck, NC) \in 0 .. NC - 1 /\ Dist(vt, Trunc(vt + ck, NC), NC) = ck
    BY <1>1 DEF Trunc, Dist
<1>4. /\ Trunc(Trunc(vt + ck, NC) + take, NC) \in 0 .. NC - 1
      /\ Dist(vt, Trunc(Trunc(vt + ck, NC) + take, NC), NC) = ck + take
    BY <1>1 DEF Trunc, Dist
<1>5. Trunc(Trunc(vt + ck, NC) + take, NC) = Trunc(Trunc(vt + del, NC) + (ck + take - del), NC)
    BY <1>1 DEF Trunc
<1>6. ASSUME NEW v \in 0 .. NC - 1
      PROVE  /\ Dist(vt, v, NC) \in 0 .. NC - 1
             /\ Dist(Trunc(vt + del, NC), v, NC) = IF Dist(vt, v, NC) >= del THEN Dist(vt, v, NC) - del ELSE NC - 1
    BY <1>1 DEF Trunc, Dist
<1>7. \A u, v \in 0 .. NC - 1 : Dist(vt, u, NC) = Dist(vt, v, NC) => u = v
    BY <1>1 DEF Trunc, Dist
<1> QED BY <1>2, <1>3, <1>4, <1>5, <1>6, <1>7

\* A cycle without recovery: the current version moves on, and is copied to the
\* next one if a checkpoint is taken.
Advanced(c, b, n, vh, num, head, map, read, d, take, new, one, cur, b2, num2, head2, map2) ==
    /\ one = IF new = 1 THEN One(d) ELSE 0
    /\ cur = {vh, Trunc(vh + take, NC)}
    /\ b2 = [v \in FL!Ckpt |-> IF v \in cur THEN n - read + new ELSE b[v] - read]
    /\ \A v \in FL!Ckpt : num2[v] = IF v \in cur THEN Trunc(num[vh] + c[read] - one, 2 * N)
                                    ELSE Trunc(num[v] + c[read], 2 * N)
    /\ \A v \in FL!Ckpt : head2[v] = IF v \in cur THEN Trunc(head[vh] + one, N) ELSE head[v]
    /\ \A r \in Reg, v \in FL!Ckpt :
          map2[r][v] = IF v \in cur THEN (IF new = 1 /\ r # 0 /\ d.rd = r THEN d.prd ELSE map[r][vh])
                       ELSE map[r][v]

LEMMA MarksAdvance ==
    ASSUME NEW c, NEW m, NEW b, NEW n, NEW t, NEW vt, NEW ck, NEW vh, NEW num, NEW head, NEW map,
           NEW s, NEW q, NEW g, NEW read, NEW d, NEW del, NEW take, NEW new, NEW one,
           NEW cur, NEW b2, NEW num2, NEW head2, NEW map2,
           Marks(c, m, b, n, t, vt, ck, vh, num, head, map), Chain(c, m, s, n, t, q, g),
           n \in Place, t \in 0 .. N - 1, vt \in FL!Ckpt, ck \in Nat, read \in 0 .. n,
           del \in {0, 1}, take \in {0, 1}, new \in {0, 1}, del <= ck,
           take = 1 => ck < NC - 1 /\ new = 1, new = 1 => n < N /\ c[n] < N,
           \A v \in FL!Ckpt : Dist(vt, v, NC) < ck => read <= b[v],
           Advanced(c, b, n, vh, num, head, map, read, d, take, new, one, cur, b2, num2, head2, map2)
    PROVE  Marks(ShiftC(c, read, n, d), ShiftM(m, read, n, d), b2, n - read + new, Trunc(t + c[read], N),
                 Trunc(vt + del, NC), ck + take - del, Trunc(vh + take, NC), num2, head2, map2)
<1> USE DEF Advanced
<1>1. /\ N \in Nat /\ N >= 3 /\ NC \in Nat /\ NC >= 2 /\ FL!Ckpt = 0 .. NC - 1 /\ n \in 0 .. N
      /\ vt \in 0 .. NC - 1
    BY Sizes DEF NC, Place
<1>2. /\ ck < NC /\ vh = Trunc(vt + ck, NC) /\ b \in [FL!Ckpt -> Int] /\ b[vh] = n
      /\ \A v \in FL!Ckpt : Dist(vt, v, NC) <= ck =>
          /\ b[v] \in 0 .. n
          /\ num[v] = N - c[b[v]]
          /\ head[v] = Trunc(t + c[b[v]], N)
          /\ \A r \in Reg : map[r][v] = m[b[v]][r]
      /\ \A u, v \in FL!Ckpt : Dist(vt, u, NC) < Dist(vt, v, NC) /\ Dist(vt, v, NC) < ck => b[u] < b[v]
    BY DEF Marks
<1>3. PICK vh2, vt2, ck2, n2, t2 :
          /\ vh2 = Trunc(vh + take, NC) /\ vt2 = Trunc(vt + del, NC) /\ ck2 = ck + take - del
          /\ n2 = n - read + new /\ t2 = Trunc(t + c[read], N)
    OBVIOUS
<1>4. /\ ck \in 0 .. NC - 1 /\ n2 \in 0 .. N /\ n2 \in Place /\ n - read \in 0 .. N
      /\ one \in 0 .. 1 /\ (new = 0 => one = 0)
  <2>1. One(d) \in 0 .. 1
      BY DEF One
  <2> QED BY <1>1, <1>2, <1>3, <2>1 DEF Place
<1>5. /\ ck2 < NC /\ ck2 \in Int /\ vh \in FL!Ckpt /\ vh2 \in FL!Ckpt /\ Dist(vt, vh, NC) = ck
      /\ Dist(vt, vh2, NC) = ck + take
      /\ vh2 = Trunc(vt2 + ck2, NC)
      /\ \A v \in FL!Ckpt :
           /\ Dist(vt, v, NC) \in 0 .. NC - 1
           /\ Dist(vt2, v, NC) = IF Dist(vt, v, NC) >= del THEN Dist(vt, v, NC) - del ELSE NC - 1
      /\ \A u, v \in FL!Ckpt : Dist(vt, u, NC) = Dist(vt, v, NC) => u = v
  <2>1. take = 1 => ck < NC - 1
      OBVIOUS
  <2>2. ck2 \in Int
      BY <1>3, <1>4
  <2>3. /\ Trunc(ck + take - del, 2 * NC) = ck + take - del /\ ck + take - del < NC
        /\ Trunc(vt + ck, NC) \in 0 .. NC - 1 /\ Dist(vt, Trunc(vt + ck, NC), NC) = ck
        /\ Trunc(Trunc(vt + ck, NC) + take, NC) \in 0 .. NC - 1
        /\ Dist(vt, Trunc(Trunc(vt + ck, NC) + take, NC), NC) = ck + take
        /\ Trunc(Trunc(vt + ck, NC) + take, NC) = Trunc(Trunc(vt + del, NC) + (ck + take - del), NC)
        /\ \A v \in 0 .. NC - 1 :
             /\ Dist(vt, v, NC) \in 0 .. NC - 1
             /\ Dist(Trunc(vt + del, NC), v, NC) = IF Dist(vt, v, NC) >= del THEN Dist(vt, v, NC) - del ELSE NC - 1
        /\ \A u, v \in 0 .. NC - 1 : Dist(vt, u, NC) = Dist(vt, v, NC) => u = v
      BY <1>1, <1>4, <2>1, VersionShift
  <2> QED BY <1>1, <1>2, <1>3, <2>2, <2>3
<1>6. /\ \A k \in 0 .. n : c[k] \in 0 .. N
      /\ \A i, j \in 0 .. n : i <= j => c[i] <= c[j]
  <2>1. \A k \in 0 .. n : c[k] \in 0 .. N
      BY ChainBounds
  <2>2. \A i, j \in 0 .. n : i <= j => c[i] <= c[j]
      BY DEF Chain
  <2> QED BY <2>1, <2>2
<1> DEFINE c2 == ShiftC(c, read, n, d)
           m2 == ShiftM(m, read, n, d)
<1>7. ASSUME NEW k \in 0 .. n - read PROVE c2[k] = c[k + read] - c[read] /\ m2[k] = m[k + read]
  <2>1. k \in Place /\ k + read <= n
      BY <1>1 DEF Place
  <2> QED BY <2>1 DEF ShiftC, ShiftM
<1>8. /\ c2[n2] = c[n] - c[read] + one
      /\ \A r \in Reg : m2[n2][r] = IF new = 1 /\ r # 0 /\ d.rd = r THEN d.prd ELSE m[n][r]
  <2>0. c[n] \in 0 .. N /\ c[read] \in 0 .. N
      BY <1>1, <1>6
  <2>1. CASE new = 1
    <3>1. n2 \in Place /\ ~(n2 + read <= n)
        BY <1>1, <1>3, <1>4, <2>1
    <3> QED BY <2>1, <3>1 DEF ShiftC, ShiftM
  <2>2. CASE new = 0
    <3>1. n2 \in 0 .. n - read /\ n2 + read = n
        BY <1>1, <1>3, <2>2
    <3>2. c2[n2] = c[n] - c[read] /\ m2[n2] = m[n]
        BY <1>7, <3>1
    <3> QED BY <1>4, <2>0, <2>2, <3>2
  <2> QED BY <2>1, <2>2
<1> HIDE DEF c2, m2
<1>9. \A v \in FL!Ckpt : /\ b2[v] = IF v \in cur THEN n2 ELSE b[v] - read
                         /\ b[v] \in Int
    BY <1>2, <1>3
<1>10. b2 \in [FL!Ckpt -> Int] /\ b2[vh2] = n2
  <2>1. vh2 \in cur /\ n2 \in Int /\ read \in Int
      BY <1>1, <1>3, <1>4
  <2> QED BY <1>2, <1>3, <1>5, <1>9, <2>1
<1>11. \A v \in FL!Ckpt : v \in cur \/ Dist(vt2, v, NC) <= ck2 =>
           Dist(vt, v, NC) <= ck + take /\ (v \notin cur => Dist(vt, v, NC) < ck /\ Dist(vt, v, NC) >= del)
  <2> SUFFICES ASSUME NEW v \in FL!Ckpt, v \in cur \/ Dist(vt2, v, NC) <= ck2
               PROVE  /\ Dist(vt, v, NC) <= ck + take
                      /\ v \notin cur => Dist(vt, v, NC) < ck /\ Dist(vt, v, NC) >= del
      OBVIOUS
  <2>1. CASE v \in cur
      BY <1>3, <1>4, <1>5, <2>1
  <2>2. CASE v \notin cur
    <3>1. v # vh /\ v # vh2 /\ Dist(vt2, v, NC) <= ck2
        BY <1>3, <2>2
    <3> DEFINE a == Dist(vt, v, NC)
    <3>2. a # ck /\ a # ck + take /\ a \in 0 .. NC - 1
        BY <1>5, <3>1
    <3>3. (IF a >= del THEN a - del ELSE NC - 1) <= ck2
        BY <1>5, <3>1
    <3> HIDE DEF a
    <3>4. a < ck /\ a >= del /\ a <= ck + take
        BY <1>1, <1>3, <1>4, <3>2, <3>3
    <3> QED BY <3>4 DEF a
  <2> QED BY <2>1, <2>2
<1>12. ASSUME NEW v \in FL!Ckpt, Dist(vt2, v, NC) <= ck2
       PROVE  /\ b2[v] \in 0 .. n2
              /\ num2[v] = N - c2[b2[v]]
              /\ head2[v] = Trunc(t2 + c2[b2[v]], N)
              /\ \A r \in Reg : map2[r][v] = m2[b2[v]][r]
  <2>0. /\ c[n] \in 0 .. N /\ c[read] \in 0 .. N /\ c[read] <= c[n] /\ c[n] + one <= N
        /\ num[vh] = N - c[n] /\ head[vh] = Trunc(t + c[n], N) /\ \A r \in Reg : map[r][vh] = m[n][r]
    <3>1. Dist(vt, vh, NC) <= ck
        BY <1>5
    <3>2. num[vh] = N - c[n] /\ head[vh] = Trunc(t + c[n], N) /\ \A r \in Reg : map[r][vh] = m[n][r]
        BY <1>2, <1>5, <3>1
    <3>3. c[n] \in 0 .. N /\ c[read] \in 0 .. N /\ c[read] <= c[n]
        BY <1>1, <1>6
    <3>4. c[n] + one <= N
        BY <1>1, <1>4, <3>3
    <3> QED BY <3>2, <3>3, <3>4
  <2>1. CASE v \in cur
    <3>1. b2[v] = n2 /\ n2 \in 0 .. n2
        BY <1>4, <1>9, <2>1
    <3>2. num2[v] = Trunc(num[vh] + c[read] - one, 2 * N) /\ head2[v] = Trunc(head[vh] + one, N)
        BY <2>1
    <3>3. /\ Trunc((N - c[n]) + c[read] - one, 2 * N) = N - (c[n] - c[read] + one)
          /\ Trunc(Trunc(t + c[n], N) + one, N) = Trunc(Trunc(t + c[read], N) + (c[n] - c[read] + one), N)
      <4> DEFINE y == c[read]
                 z == c[n]
      <4>1. y \in 0 .. N /\ z \in 0 .. N /\ y <= z /\ z + one <= N
          BY <2>0
      <4> HIDE DEF y, z
      <4>2. /\ Trunc((N - z) + y - one, 2 * N) = N - (z - y + one)
            /\ Trunc(Trunc(t + z, N) + one, N) = Trunc(Trunc(t + y, N) + (z - y + one), N)
          BY <1>4, <4>1, MarkNew
      <4> QED BY <4>2 DEF y, z
    <3>4. \A r \in Reg : map2[r][v] = m2[n2][r]
        BY <1>8, <2>0, <2>1
    <3> QED BY <1>3, <1>8, <2>0, <3>1, <3>2, <3>3, <3>4
  <2>2. CASE v \notin cur
    <3>1. Dist(vt, v, NC) < ck /\ Dist(vt, v, NC) >= del
        BY <1>11, <1>12, <2>2
    <3>2. Dist(vt, v, NC) <= ck
        BY <1>4, <1>5, <3>1
    <3>3. read <= b[v] /\ b[v] \in 0 .. n
        BY <1>2, <3>1, <3>2
    <3>4. num[v] = N - c[b[v]] /\ head[v] = Trunc(t + c[b[v]], N) /\ \A r \in Reg : map[r][v] = m[b[v]][r]
        BY <1>2, <3>2
    <3>5. b2[v] = b[v] - read /\ b2[v] \in 0 .. n2 /\ b2[v] \in 0 .. n - read /\ b2[v] + read = b[v]
      <4> DEFINE y == b[v]
      <4>1. b2[v] = y - read /\ y \in 0 .. n /\ read <= y
          BY <1>9, <2>2, <3>3
      <4> HIDE DEF y
      <4>2. y - read \in 0 .. n2 /\ y - read \in 0 .. n - read /\ (y - read) + read = y
          BY <1>1, <1>3, <4>1
      <4> QED BY <4>1, <4>2 DEF y
    <3>6. c2[b2[v]] = c[b[v]] - c[read] /\ m2[b2[v]] = m[b[v]]
        BY <1>7, <3>5
    <3>7. c[b[v]] \in 0 .. N /\ c[read] <= c[b[v]]
        BY <1>6, <3>3
    <3>8. /\ Trunc((N - c[b[v]]) + c[read], 2 * N) = N - (c[b[v]] - c[read])
          /\ Trunc(t + c[b[v]], N) = Trunc(Trunc(t + c[read], N) + (c[b[v]] - c[read]), N)
      <4> DEFINE y == c[read]
                 z == c[b[v]]
      <4>1. y \in 0 .. N /\ z \in 0 .. N /\ y <= z
          BY <2>0, <3>7
      <4> HIDE DEF y, z
      <4>2. /\ Trunc((N - z) + y, 2 * N) = N - (z - y)
            /\ Trunc(t + z, N) = Trunc(Trunc(t + y, N) + (z - y), N)
          BY <4>1, MarkShift
      <4> QED BY <4>2 DEF y, z
    <3>9. num2[v] = Trunc(num[v] + c[read], 2 * N) /\ head2[v] = head[v] /\ \A r \in Reg : map2[r][v] = map[r][v]
        BY <2>2
    <3> QED BY <1>3, <3>4, <3>5, <3>6, <3>8, <3>9
  <2> QED BY <2>1, <2>2
<1>13. ASSUME NEW u \in FL!Ckpt, NEW v \in FL!Ckpt,
              Dist(vt2, u, NC) < Dist(vt2, v, NC), Dist(vt2, v, NC) < ck2
       PROVE  b2[u] < b2[v]
  <2> DEFINE x == Dist(vt, u, NC)
             y == Dist(vt, v, NC)
             x2 == Dist(vt2, u, NC)
             y2 == Dist(vt2, v, NC)
  <2>1. /\ x \in 0 .. NC - 1 /\ y \in 0 .. NC - 1 /\ x2 < y2 /\ y2 < ck2
        /\ x2 = (IF x >= del THEN x - del ELSE NC - 1) /\ y2 = (IF y >= del THEN y - del ELSE NC - 1)
      BY <1>5, <1>13
  <2>2. (x = ck => u = vh) /\ (y = ck => v = vh) /\ (u \in cur => x = ck \/ x = ck + take)
        /\ (v \in cur => y = ck \/ y = ck + take)
      BY <1>3, <1>5
  <2> HIDE DEF x, y, x2, y2
  <2>3. x < y /\ x < ck /\ x >= del /\ y >= del /\ (y < ck \/ (y = ck /\ take = 1))
      BY <1>1, <1>3, <1>4, <2>1
  <2>4. u \notin cur /\ read <= b[u] /\ b[u] \in 0 .. n
    <3>1. u \notin cur
        BY <1>4, <2>1, <2>2, <2>3
    <3>2. x <= ck
        BY <1>4, <2>1, <2>3
    <3> QED BY <1>2, <2>3, <3>1, <3>2 DEF x
  <2>5. CASE y < ck
    <3>1. v \notin cur
        BY <1>4, <2>1, <2>2, <2>5
    <3>2. b[u] < b[v]
        BY <1>2, <2>3, <2>5 DEF x, y
    <3>3. b2[u] = b[u] - read /\ b2[v] = b[v] - read /\ b[u] \in Int /\ b[v] \in Int /\ read \in Int
        BY <1>1, <1>9, <2>4, <3>1
    <3> QED BY <3>2, <3>3
  <2>6. CASE y = ck /\ take = 1
    <3>1. v \in cur /\ new = 1
        BY <2>2, <2>6
    <3>2. b2[u] = b[u] - read /\ b2[v] = n2
        BY <1>9, <2>4, <3>1
    <3>3. n2 = n - read + 1 /\ read \in Int /\ n \in Int
        BY <1>1, <1>3, <3>1
    <3> QED BY <2>4, <3>2, <3>3
  <2> QED BY <2>3, <2>5, <2>6
<1>14. Marks(c2, m2, b2, n2, t2, vt2, ck2, vh2, num2, head2, map2)
    BY <1>5, <1>10, <1>12, <1>13 DEF Marks
<1> QED BY <1>3, <1>14 DEF c2, m2
-----------------------------------------------------------------------------
(* What guards a version.                                                    *)

LEMMA ExeAfter ==
    ASSUME Types, ~xq, ~cq, ~mis,
           NEW iq, NEW busy, NEW rrex, NEW ok, NEW brex, NEW fin, NEW memex, NEW done, NEW csrx,
           Clock(iq, busy, rrex, ok, brex, fin, memex, done, csrx)
    PROVE  /\ exe # None /\ ~Executes(busy) => exe' = Snoop(exe)
           /\ Enters(busy) /\ ~rrex => exe' = [Snoop(rr) EXCEPT !.index = gl_tail]
<1>1. exe' = NextEXE(busy, rrex)
    BY Zenon DEF Clock, Cycle
<1>2. ~flush_ir
    BY DEF flush_ir
<1>3. ASSUME exe # None, ~Executes(busy) PROVE exe' = Snoop(exe)
  <2>1. exe_stall(busy)
      BY <1>3 DEF Executes
  <2>2. ~flush_rr(busy) /\ stall_rr(busy)
      BY <1>2, <2>1 DEF flush_rr, stall_rr
  <2> QED BY <1>1, <2>2 DEF NextEXE
<1>4. ASSUME Enters(busy), ~rrex PROVE exe' = [Snoop(rr) EXCEPT !.index = gl_tail]
  <2>1. rr # None /\ ~stall_rr(busy)
      BY <1>4 DEF Enters
  <2>2. ~flush_rr(busy)
      BY <1>2, <2>1 DEF flush_rr, stall_rr
  <2> QED BY <1>1, <1>4, <2>1, <2>2 DEF NextEXE
<1> QED BY <1>3, <1>4

FailedBefore(n) == \E i \in Index : Live(i) /\ gl_entries[i].ex /\ Age(i) < n

\* No guarded place retires.
LEMMA GuardStays ==
    ASSUME Types, Pipe, Record, NEW done, NEW memex, ~commit_xcpt(memex),
           done => \E u \in units : u.index = gl_head, NEW n \in Int, Guarded(n)
    PROVE  Retire(done, memex) < n
<1> DEFINE read == Retire(done, memex)
<1>1. read \in 0 .. 2 /\ read <= gl_num /\ gl_num \in 0 .. N - 1 /\ gl_head \in Index
    BY RetiresFinished DEF Types, TypeOK, N
<1>2. ASSUME NEW p \in wb \cup Issued, p \in wb \/ p = exe
      PROVE  Age(p.index) \in 0 .. N - 1 /\ read <= Age(p.index)
  <2>1. p.index \in Index
      BY DEF Pipe, Owners, Owns
  <2>2. Age(p.index) \in 0 .. N - 1
      BY <1>1, <2>1, Places DEF Age
  <2>3. ~(Age(p.index) < read)
      BY <1>2, UnfinishedStay
  <2> QED BY <1>1, <2>2, <2>3
<1>3. \A i \in Failing : Age(i) \in 0 .. N - 1 /\ read <= Age(i)
    BY FailingStay
<1> HIDE DEF read
<1>4. CASE \E w \in wb : w.ck /\ Age(w.index) + 1 = n
  <2>1. PICK w \in wb : Age(w.index) + 1 = n
      BY <1>4
  <2>2. Age(w.index) \in 0 .. N - 1 /\ read <= Age(w.index)
      BY <1>2
  <2> QED BY <1>1, <2>1, <2>2 DEF read
<1>5. CASE exe # None /\ exe.ck /\ Age(exe.index) + 1 = n
  <2>1. exe \in Issued
      BY <1>5 DEF Issued
  <2>2. Age(exe.index) \in 0 .. N - 1 /\ read <= Age(exe.index)
      BY <1>2, <2>1
  <2> QED BY <1>1, <1>5, <2>2 DEF read
<1>6. CASE rr # None /\ rr.ck /\ gl_num + 1 = n
    BY <1>1, <1>6 DEF read
<1>7. CASE FailedBefore(n)
  <2>1. PICK i \in Index : Live(i) /\ gl_entries[i].ex /\ Age(i) < n
      BY <1>7 DEF FailedBefore
  <2>2. i \in Failing
      BY <2>1 DEF Failing
  <2>3. Age(i) \in 0 .. N - 1 /\ read <= Age(i)
      BY <1>3, <2>2
  <2> QED BY <1>1, <2>1, <2>3 DEF read
<1> QED BY <1>4, <1>5, <1>6, <1>7 DEF Guarded, FailedBefore

\* What failed stays failed and in its place.
LEMMA FailedKept ==
    ASSUME Types, Pipe, Record, ~xq,
           NEW iq, NEW busy, NEW rrex, NEW ok, NEW brex, NEW fin, NEW memex, NEW done, NEW csrx,
           Clock(iq, busy, rrex, ok, brex, fin, memex, done, csrx), ~commit_xcpt(memex),
           NEW read, NEW n, read = Retire(done, memex), n \in Int,
           FailedBefore(n), mis => n <= Age(missed.index) + 1
    PROVE  FailedBefore(n - read)'
<1>1. PICK i \in Index : Live(i) /\ gl_entries[i].ex /\ Age(i) < n
    BY DEF FailedBefore
<1>2. i \in Failing
    BY <1>1 DEF Failing
<1>3. done => \E u \in units : u.index = gl_head
    BY DEF Clock, Inputs
<1>4. Age(i) \in 0 .. N - 1 /\ Age(i) < gl_num /\ read <= Age(i)
    BY <1>2, <1>3, FailingStay
<1>5. /\ read \in 0 .. 2 /\ Limit(busy) \in 0 .. N - 1 /\ Age(gl_tail) = gl_num
      /\ Dist(gl_head', i, N) < gl_num' <=> Stays(i, busy, done, memex)
      /\ read <= Age(i) => Dist(gl_head', i, N) = Age(i) - read
      /\ mis => missed \in wb /\ Stays(missed.index, busy, done, memex)
    BY PlacesAfter
<1>6. gl_num \in 0 .. N - 1 /\ N \in Nat
    BY Sizes DEF Types, TypeOK, N
<1>7. Stays(i, busy, done, memex)
  <2>1. CASE mis
    <3>1. Age(i) < Age(missed.index) + 1
      <4>1. Age(missed.index) + 1 = Limit(busy)
          BY <2>1 DEF Limit
      <4> QED BY <1>1, <1>4, <1>5, <2>1, <4>1
    <3> QED BY <1>4, <2>1, <3>1 DEF Stays, Limit
  <2>2. CASE ~mis
      BY <1>4, <1>6, <2>2 DEF Stays, Limit
  <2> QED BY <2>1, <2>2
<1>8. Dist(gl_head', i, N) < gl_num' /\ Dist(gl_head', i, N) < n - read
    BY <1>1, <1>4, <1>5, <1>7
<1>9. gl_entries'[i].ex <=> IF \E w \in wb : w.index = i
                            THEN gl_entries[i].ex \/ \E w \in wb : w.index = i /\ w.ex
                            ELSE IF Enters(busy) /\ i = gl_tail THEN rrex ELSE gl_entries[i].ex
    BY ListAfter
<1>10. i # gl_tail
    BY <1>4, <1>5, <1>6
<1>11. gl_entries'[i].ex
    BY <1>1, <1>9, <1>10
<1>12. \E j \in Index : Live(j)' /\ gl_entries'[j].ex /\ Age(j)' < n - read
  <2>1. Live(i)' /\ Age(i)' < n - read
      BY <1>8 DEF Live, Age, N
  <2> QED BY <1>11, <2>1
<1> QED BY <1>12 DEF FailedBefore, Index

\* A branch goes on from stage to stage in its place.
LEMMA GuardKept ==
    ASSUME Types, Types', Pipe, Record, Fenced, ~xq, ~mis, NEW b, Branches(b),
           NEW iq, NEW busy, NEW rrex, NEW ok, NEW brex, NEW fin, NEW memex, NEW done, NEW csrx,
           Clock(iq, busy, rrex, ok, brex, fin, memex, done, csrx), ~commit_xcpt(memex),
           NEW read, NEW n, read = Retire(done, memex), n \in Int, Guarded(n),
           FailedBefore(n) \/ \A w \in wb : w.ck => Age(w.index) + 1 # n
    PROVE  Guarded(n - read)'
<1>1. done => \E u \in units : u.index = gl_head
    BY DEF Clock, Inputs
<1>2. /\ read \in 0 .. 2 /\ Limit(busy) \in 0 .. N - 1 /\ Age(gl_tail) = gl_num
      /\ gl_num' = Limit(busy) - read
      /\ \A i \in Index :
           /\ Dist(gl_head', i, N) < gl_num' <=> Stays(i, busy, done, memex)
           /\ read <= Age(i) => Dist(gl_head', i, N) = Age(i) - read
    BY PlacesAfter
<1>3. gl_num \in 0 .. N - 1 /\ N \in Nat /\ N >= 3 /\ gl_tail \in Index /\ read <= gl_num
    BY Sizes, RetiresFinished DEF Types, TypeOK, N
<1>4. CASE FailedBefore(n)
  <2>1. FailedBefore(n - read)'
      BY <1>4, FailedKept
  <2> QED BY <2>1 DEF FailedBefore, Guarded
<1>5. CASE exe # None /\ exe.ck /\ Age(exe.index) + 1 = n
  <2>1. exe \in Issued /\ exe \in Instr /\ exe.kind = "BR"
      BY <1>5 DEF Issued, Types, TypeOK, Branches
  <2>2. exe.index \in Index /\ Live(exe.index)
      BY <2>1 DEF Pipe, Owners, Owns
  <2>3. ~cq
    <3>1. Age(exe.index) \in 0 .. N - 1
        BY <2>2, Places DEF Age, Types, TypeOK
    <3>2. Age(exe.index) < gl_num
        BY <2>2 DEF Live, Age, N
    <3> QED BY <1>3, <3>1, <3>2 DEF Fenced
  <2>4. Stays(exe.index, busy, done, memex)
      BY <1>5, Inherit
  <2>5. Dist(gl_head', exe.index, N) = Age(exe.index) - read
      BY <1>2, <2>2, <2>4 DEF Stays
  <2>6. Age(exe.index) \in 0 .. N - 1
      BY <2>2, Places DEF Age, Types, TypeOK
  <2>7. Dist(gl_head', exe.index, N) + 1 = n - read
      BY <1>2, <1>5, <2>5, <2>6
  <2>8. CASE Executes(busy)
    <3> DEFINE w == [index |-> exe.index, rd |-> exe.rd, prd |-> exe.prd, ex |-> brex,
                     ck |-> exe.ck, chkp |-> exe.chkp, ok |-> ok]
    <3>1. w \in wb'
      <4>1. wb' = exe_results(busy, ok, brex) \cup {Finished(u, memex) : u \in fin}
          BY <2>3, StagesAfter
      <4>2. exe_results(busy, ok, brex) = {w}
          BY <2>1, <2>8 DEF exe_results, Single
      <4> QED BY <4>1, <4>2
    <3>2. w.ck /\ w.index = exe.index
        BY <1>5
    <3> HIDE DEF w
    <3>3. w.ck /\ Dist(gl_head', w.index, N) + 1 = n - read
        BY <2>7, <3>2
    <3> QED BY <3>1, <3>3 DEF Guarded, Age, N
  <2>9. CASE ~Executes(busy)
    <3>1. exe' = Snoop(exe)
        BY <1>5, <2>3, <2>9, ExeAfter
    <3>2. exe' # None /\ exe'.ck /\ exe'.index = exe.index
        BY <1>5, <2>1, <3>1, SnoopCarries
    <3>3. Dist(gl_head', exe'.index, N) + 1 = n - read
        BY <2>7, <3>2
    <3> QED BY <3>2, <3>3 DEF Guarded, Age, N
  <2> QED BY <2>8, <2>9
<1>6. CASE rr # None /\ rr.ck /\ gl_num + 1 = n
  <2>1. rr \in Instr /\ ~cq
      BY <1>6 DEF Types, TypeOK, Fenced
  <2>2. CASE ~Enters(busy)
    <3>1. stall_rr(busy)
        BY <1>6, <2>2 DEF Enters
    <3>2. rr' = Snoop(rr)
        BY <3>1, ReadAfter DEF Fenced
    <3>3. rr' # None /\ rr'.ck
        BY <1>6, <2>1, <3>2, SnoopCarries
    <3>4. gl_num' + 1 = n - read
        BY <1>2, <1>3, <1>6, <2>2 DEF Limit
    <3> QED BY <3>3, <3>4 DEF Guarded
  <2>3. CASE Enters(busy)
    <3>1. Limit(busy) = gl_num + 1 /\ Stays(gl_tail, busy, done, memex)
        BY <1>2, <1>3, <2>3 DEF Limit, Stays
    <3>2. Dist(gl_head', gl_tail, N) + 1 = n - read /\ Dist(gl_head', gl_tail, N) < gl_num'
      <4>1. Dist(gl_head', gl_tail, N) = gl_num - read
          BY <1>2, <1>3
      <4> QED BY <1>2, <1>3, <1>6, <3>1, <4>1
    <3>3. CASE rrex
      <4>1. \A w \in wb : w.index # gl_tail
        <5> SUFFICES ASSUME NEW w \in wb PROVE w.index # gl_tail
            OBVIOUS
        <5>1. Live(w.index)
            BY DEF Pipe, Owners, Owns
        <5>2. Age(w.index) < gl_num
            BY <5>1 DEF Live, Age, N
        <5> QED BY <1>2, <1>3, <5>2
      <4>2. gl_entries'[gl_tail].ex <=> IF \E w \in wb : w.index = gl_tail
                            THEN gl_entries[gl_tail].ex \/ \E w \in wb : w.index = gl_tail /\ w.ex
                            ELSE IF Enters(busy) /\ gl_tail = gl_tail THEN rrex ELSE gl_entries[gl_tail].ex
          BY <1>3, ListAfter
      <4>3. gl_entries'[gl_tail].ex
          BY <2>3, <3>3, <4>1, <4>2
      <4>4. PICK j : j = gl_tail
          OBVIOUS
      <4>5. j \in Index /\ gl_entries'[j].ex /\ Dist(gl_head', j, N) < gl_num' /\ Dist(gl_head', j, N) < n - read
        <5>1. \A x, y \in Int : x + 1 = y => x < y
            OBVIOUS
        <5>2. Dist(gl_head', gl_tail, N) \in Int
          <6>1. Dist(gl_head', gl_tail, N) = gl_num - read
              BY <1>2, <1>3
          <6> QED BY <1>2, <1>3, <6>1
        <5>3. n - read \in Int
            BY <1>2
        <5> QED BY <1>3, <3>2, <4>3, <4>4, <5>1, <5>2, <5>3
      <4> QED BY <4>5 DEF Guarded, Live, Age, N, Index
    <3>4. CASE ~rrex
      <4>1. exe' = [Snoop(rr) EXCEPT !.index = gl_tail]
          BY <2>1, <2>3, <3>4, ExeAfter
      <4>2. exe'.ck /\ exe'.index = gl_tail /\ exe'.kind = rr.kind
          BY <1>6, <2>1, <4>1, SnoopCarries
      <4>3. exe' # None
          BY <2>1, <4>2 DEF Instr, AllKinds, None
      <4>4. Dist(gl_head', exe'.index, N) + 1 = n - read
          BY <3>2, <4>2
      <4> QED BY <4>2, <4>3, <4>4 DEF Guarded, Age, N
    <3> QED BY <3>3, <3>4
  <2> QED BY <2>2, <2>3
<1> QED BY <1>4, <1>5, <1>6 DEF Guarded, FailedBefore

\* What is older than a branch in write-back is guarded by a failure.
LEMMA OlderGuard ==
    ASSUME Types, Pipe, NEW b, Branches(b), NEW w, NEW n, w \in wb, w.ck, n \in Int, n <= Age(w.index),
           Guarded(n)
    PROVE  FailedBefore(n)
<1>1. gl_num \in 0 .. N - 1 /\ N \in Nat /\ gl_head \in Index
    BY Sizes DEF Types, TypeOK, N
<1>2. w.index \in Index /\ Live(w.index)
    BY DEF Pipe, Owners, Owns
<1>3. Age(w.index) \in 0 .. N - 1 /\ Age(w.index) < gl_num
  <2>1. Age(w.index) \in 0 .. N - 1
      BY <1>1, <1>2, Places DEF Age
  <2>2. Age(w.index) < gl_num
      BY <1>2 DEF Live, Age, N
  <2> QED BY <2>1, <2>2
<1>4. ASSUME NEW x \in wb, x.ck, Age(x.index) + 1 = n PROVE FALSE
  <2>1. x = w
      BY <1>4 DEF Branches
  <2> QED BY <1>3, <1>4, <2>1
<1>5. ASSUME exe # None, Age(exe.index) + 1 = n PROVE FALSE
  <2>1. Age(exe.index) = gl_num - 1
      BY <1>5 DEF Pipe, InOrderIssue
  <2> QED BY <1>1, <1>3, <1>5, <2>1
<1>6. gl_num + 1 # n
    BY <1>1, <1>3
<1> QED BY <1>4, <1>5, <1>6 DEF Guarded, FailedBefore

\* The commit ports of a cycle that takes no exception.
LEMMA PortsOf ==
    ASSUME NEW done, NEW memex, NEW csrx, NEW f0, NEW f1, NEW k0, NEW k1,
           f0 = Freed(1, done, memex, csrx), f1 = Freed(2, done, memex, csrx),
           k0 = Committed(1, done, memex, csrx), k1 = Committed(2, done, memex, csrx)
    PROVE  Ports(IF exception_enable_d(memex, csrx) THEN 0 ELSE Retire(done, memex), f0, f1, k0, k1)
<1>1. 1 = 1 /\ 2 # 1 /\ ~(0 >= 1) /\ ~(0 >= 2)
    OBVIOUS
<1>2. FL!NoReg = -1
    BY DEF FL!NoReg
<1> QED BY <1>1, <1>2, Zenon DEF Freed, Committed, Ports

\* What renaming does in a cycle that recovers no state of commit.
LEMMA RenameStep ==
    ASSUME ~xq, NEW iq, NEW busy, NEW rrex, NEW ok, NEW brex, NEW fin, NEW memex, NEW done, NEW csrx,
           Clock(iq, busy, rrex, ok, brex, fin, memex, done, csrx),
           NEW f0, NEW f1, NEW k0, NEW k1,
           f0 = Freed(1, done, memex, csrx), f1 = Freed(2, done, memex, csrx),
           k0 = Committed(1, done, memex, csrx), k1 = Committed(2, done, memex, csrx)
    PROVE  /\ iq \in QueueHead(busy) /\ xq' = exception_enable_d(memex, csrx)
           /\ FL!WriteFreed(f0, f1) /\ RT!Commit(k0, k1)
           /\ do_recover => /\ FL!Recover(f0, f1, missed.chkp, delete_checkpoint)
                            /\ RT!Recover(k0, k1, Broadcast, missed.chkp, delete_checkpoint)
           /\ ~do_recover =>
                /\ FL!Advance(reads(iq, busy, f0, f1), f0, f1, do_checkpoint(iq, busy), delete_checkpoint)
                /\ RT!Advance(IF renames(iq, busy, f0, f1)
                              THEN [rd |-> iq.rd, prd |-> FL!NewRegister(reads(iq, busy, f0, f1), f0, f1)]
                              ELSE RT!NoReg,
                              k0, k1, Broadcast, do_checkpoint(iq, busy), delete_checkpoint)
<1>1. Rename(iq, busy, f0, f1, k0, k1) /\ xq' = exception_enable_d(memex, csrx) /\ iq \in QueueHead(busy)
    BY Zenon DEF Clock, Cycle
<1>2. /\ do_recover => /\ FL!Recover(f0, f1, missed.chkp, delete_checkpoint)
                       /\ RT!Recover(k0, k1, Broadcast, missed.chkp, delete_checkpoint)
      /\ ~do_recover =>
           /\ FL!Advance(reads(iq, busy, f0, f1), f0, f1, do_checkpoint(iq, busy), delete_checkpoint)
           /\ RT!Advance(IF renames(iq, busy, f0, f1)
                         THEN [rd |-> iq.rd, prd |-> FL!NewRegister(reads(iq, busy, f0, f1), f0, f1)]
                         ELSE RT!NoReg,
                         k0, k1, Broadcast, do_checkpoint(iq, busy), delete_checkpoint)
    BY <1>1, Zenon DEF Rename
<1>3. FL!WriteFreed(f0, f1)
    BY <1>2, Zenon DEF FL!Recover, FL!Advance
<1>4. RT!Commit(k0, k1)
    BY <1>2, Zenon DEF RT!Recover, RT!Advance
<1> QED BY <1>1, <1>2, <1>3, <1>4
-----------------------------------------------------------------------------
(* A cycle that takes no exception.                                          *)

\* The instructions in flight stay a chain, and no register is lost.
LEMMA OrderAfter ==
    ASSUME Types, Types', Pipe, Fenced, ~xq, ~xq',
           NEW c, NEW m, NEW b, Order(c, m), Versions(c, m, b), Conserved(fl_ring, rt_commit),
           NEW iq, NEW busy, NEW rrex, NEW ok, NEW brex, NEW fin, NEW memex, NEW done, NEW csrx,
           Clock(iq, busy, rrex, ok, brex, fin, memex, done, csrx),
           NEW f0, NEW f1, f0 = Freed(1, done, memex, csrx), f1 = Freed(2, done, memex, csrx),
           NEW read, NEW last, NEW new, NEW d, read = Retire(done, memex), last = Last,
           new = Brings(iq, busy, f0, f1), d = DataOf(Renamed(iq, busy, f0, f1))
    PROVE  /\ ~commit_xcpt(memex)
           /\ Conserved(fl_ring', rt_commit')
           /\ FL!Writes(f0, f1) = c[read] /\ fl_tail' = Trunc(fl_tail + c[read], N)
           /\ Order(ShiftC(c, read, last, d), ShiftM(m, read, last, d))'
           /\ read \in 0 .. 2 /\ last \in 0 .. Size /\ read \in 0 .. last
           /\ new \in {0, 1} /\ Size' = last - read + new
<1>1. PICK k0, k1 : k0 = Committed(1, done, memex, csrx) /\ k1 = Committed(2, done, memex, csrx)
    OBVIOUS
<1>2. /\ iq \in QueueHead(busy) /\ ~exception_enable_d(memex, csrx)
      /\ FL!WriteFreed(f0, f1) /\ RT!Commit(k0, k1)
    BY <1>1, RenameStep
<1>3. ~commit_xcpt(memex)
    BY <1>2 DEF exception_enable_d
<1>4. Ports(read, f0, f1, k0, k1)
    BY <1>1, <1>2, PortsOf
<1>5. /\ read \in 0 .. 2 /\ read <= gl_num /\ last \in 0 .. Size /\ read \in 0 .. last
      /\ new \in {0, 1} /\ (new = 1 => last = Size /\ Size < N)
      /\ Size' = last - read + new
      /\ \A k \in 0 .. last - read - 1 : Items'[k] = Items[k + read]
      /\ new = 1 => Items'[last - read] = DataOf(Renamed(iq, busy, f0, f1))
    BY <1>3, ItemsAfter
<1>6. /\ Conserved(fl_ring', rt_commit')
      /\ FL!Writes(f0, f1) = c[read]
      /\ fl_tail' = Trunc(fl_tail + c[read], N)
      /\ \A r \in Reg : rt_commit'[r] = m[read][r]
      /\ \A x \in c[read] .. N - 1 : fl_ring'[Trunc(fl_tail + x, N)] = fl_ring[Trunc(fl_tail + x, N)]
  <2>1. read \in 0 .. 2 /\ read <= gl_num /\ FL!WriteFreed(f0, f1) /\ RT!Commit(k0, k1)
      BY <1>2, <1>5
  <2> QED BY <1>4, <2>1, CommitAfter
<1>7. ASSUME new = 1
      PROVE  /\ d.rd \in Reg /\ d.old = m[last][d.rd] /\ last = Size /\ last < N
             /\ d.rd # 0 => d.prd = fl_ring[Trunc(fl_tail + c[last], N)] /\ c[last] < N
  <2>1. ~mis /\ renames(iq, busy, f0, f1) /\ last = Size /\ Size < N
      BY <1>5, <1>7 DEF Brings
  <2>2. iq # None
      BY <2>1 DEF renames
  <2>3. /\ iq.rd \in Reg /\ RT!Mapping(iq.rd) = m[Size][iq.rd] /\ c[Size] < N
        /\ iq.rd # 0 => FL!NewRegister(reads(iq, busy, f0, f1), f0, f1) = fl_ring[Trunc(fl_tail + c[Size], N)]
      BY <1>2, <2>1, NewItem
  <2>4. LET i == Renamed(iq, busy, f0, f1) IN
        /\ i.rd = iq.rd /\ i.old = RT!Mapping(iq.rd)
        /\ i.prd = FL!NewRegister(reads(iq, busy, f0, f1), f0, f1)
      BY <1>2, <2>2, RenamedFields
  <2>5. /\ d.rd = Renamed(iq, busy, f0, f1).rd /\ d.old = Renamed(iq, busy, f0, f1).old
        /\ d.prd = Renamed(iq, busy, f0, f1).prd
      BY DEF DataOf
  <2> QED BY <2>1, <2>3, <2>4, <2>5
<1>8. PICK s, n, t, q, g, s2, t2, q2, g2 :
          /\ s = Items /\ n = Size /\ t = fl_tail /\ q = fl_ring /\ g = rt_commit
          /\ s2 = Items' /\ t2 = fl_tail' /\ q2 = fl_ring' /\ g2 = rt_commit'
    OBVIOUS
<1>9. /\ Chain(c, m, s, n, t, q, g) /\ n \in Place /\ t \in 0 .. N - 1
      /\ last \in 0 .. n /\ read \in 0 .. last /\ new \in {0, 1}
  <2>1. Chain(c, m, s, n, t, q, g)
      BY <1>8, Zenon DEF Order
  <2>2. n \in Place /\ t \in 0 .. N - 1
      BY <1>8, Heads, Sizes DEF Types, TypeOK, FL!TypeOK
  <2> QED BY <1>5, <1>8, <2>1, <2>2
<1>10. /\ \A k \in 0 .. last - read - 1 : s2[k] = s[k + read]
       /\ new = 1 => /\ last < N /\ s2[last - read] = d
                     /\ d.rd \in Reg /\ d.old = m[last][d.rd]
                     /\ d.rd # 0 => d.prd = q[Trunc(t + c[last], N)] /\ c[last] < N
    BY <1>5, <1>7, <1>8
<1>11. /\ t2 = Trunc(t + c[read], N)
       /\ \A x \in c[read] .. N - 1 : q2[Trunc(t + x, N)] = q[Trunc(t + x, N)]
       /\ \A r \in Reg : g2[r] = m[read][r]
    BY <1>6, <1>8
<1>12. Chain(ShiftC(c, read, last, d), ShiftM(m, read, last, d), s2, last - read + new, t2, q2, g2)
  <2>1. Shifts(c, m, s, t, q, last, read, new, d, s2, t2, q2, g2)
      BY <1>10, <1>11 DEF Shifts
  <2> QED BY <1>9, <2>1, ChainShift
<1>13. Order(ShiftC(c, read, last, d), ShiftM(m, read, last, d))'
    BY <1>5, <1>8, <1>12, Zenon DEF Order
<1> QED BY <1>3, <1>5, <1>6, <1>13

\* A misprediction: its version, which is not older than what fails, becomes the
\* current one again.
LEMMA RecoverKept ==
    ASSUME Types, Types', Pipe, Record, Fenced, ~xq, ~xq', mis,
           NEW c, NEW m, NEW b, Renaming(c, m, b), Conserved(fl_ring, rt_commit),
           NEW iq, NEW busy, NEW rrex, NEW ok, NEW brex, NEW fin, NEW memex, NEW done, NEW csrx,
           Clock(iq, busy, rrex, ok, brex, fin, memex, done, csrx)
    PROVE  Conserved(fl_ring', rt_commit') /\ (\E x, y, z : Renaming(x, y, z))'
<1>1. PICK f0, f1, k0, k1 :
          /\ f0 = Freed(1, done, memex, csrx) /\ f1 = Freed(2, done, memex, csrx)
          /\ k0 = Committed(1, done, memex, csrx) /\ k1 = Committed(2, done, memex, csrx)
    OBVIOUS
<1>2. PICK read, last, new, d :
          /\ read = Retire(done, memex) /\ last = Last
          /\ new = Brings(iq, busy, f0, f1) /\ d = DataOf(Renamed(iq, busy, f0, f1))
    OBVIOUS
<1>3. Order(c, m) /\ Versions(c, m, b) /\ Branches(b)
    BY DEF Renaming
<1>4. /\ ~commit_xcpt(memex)
      /\ Conserved(fl_ring', rt_commit')
      /\ FL!Writes(f0, f1) = c[read] /\ fl_tail' = Trunc(fl_tail + c[read], N)
      /\ Order(ShiftC(c, read, last, d), ShiftM(m, read, last, d))'
      /\ read \in 0 .. 2 /\ last \in 0 .. Size /\ read \in 0 .. last
      /\ Size' = last - read + new
    BY <1>1, <1>2, <1>3, OrderAfter
<1>5. PICK w \in wb : w = missed /\ ~w.ok
  <2>1. PICK w \in wb : ~w.ok
      BY DEF mis, Mispredicted
  <2>2. missed \in wb /\ ~missed.ok
      BY <2>1 DEF missed
  <2> QED BY <2>2
<1>6. w.ck /\ VAge(w.chkp) < fl_ck /\ b[w.chkp] = Age(w.index) + 1 /\ last = b[w.chkp]
  <2>1. w.ck
      BY <1>3, <1>5 DEF Branches
  <2>2. VAge(w.chkp) < fl_ck /\ b[w.chkp] = Age(w.index) + 1
      BY <1>3, <2>1 DEF Branches
  <2> QED BY <1>2, <1>5, <2>1, <2>2 DEF Last
<1>7. do_recover /\ delete_checkpoint = 0
  <2>1. do_recover
      BY <1>5, <1>6 DEF do_recover
  <2>2. \A x \in wb : x.ck => ~x.ok
      BY <1>3, <1>5, <1>6 DEF Branches
  <2> QED BY <2>1, <2>2 DEF delete_checkpoint
<1>8. FL!Recover(f0, f1, w.chkp, 0) /\ RT!Recover(k0, k1, Broadcast, w.chkp, 0)
    BY <1>1, <1>5, <1>7, RenameStep
<1>9. /\ fl_vt \in FL!Ckpt /\ fl_ck \in Nat /\ w.chkp \in FL!Ckpt /\ fl_tail \in 0 .. N - 1 /\ Size \in Place
      /\ NC \in Nat /\ NC >= 2 /\ FL!Ckpt = 0 .. NC - 1
  <2>1. fl_vt \in FL!Ckpt /\ fl_ck \in Nat /\ fl_tail \in 0 .. N - 1
      BY Sizes DEF Types, TypeOK, FL!TypeOK
  <2>2. w \in Result
      BY <1>5 DEF Types, TypeOK
  <2>3. w.chkp \in FL!Ckpt
      BY <2>2 DEF Result
  <2> QED BY <2>1, <2>3, Heads, Sizes DEF NC
<1>10. /\ fl_vh' = w.chkp /\ fl_vt' = fl_vt /\ fl_ck' = Dist(fl_vt, w.chkp, NC)
       /\ fl_head' = fl_head /\ rt_map' = rt_map
       /\ \A v \in FL!Ckpt : fl_num'[v] = Trunc(fl_num[v] + c[read], 2 * N)
  <2>1. fl_vh' = w.chkp /\ fl_head' = fl_head /\ rt_map' = rt_map
      BY <1>8 DEF FL!Recover, RT!Recover
  <2>2. fl_vt' = FL!Ver(fl_vt + 0) /\ fl_ck' = FL!Dist(fl_vt, w.chkp, NUM_CHECKPOINTS)
      BY <1>8 DEF FL!Recover
  <2>3. FL!Ver(fl_vt + 0) = Trunc(fl_vt + 0, NC) /\ FL!Dist(fl_vt, w.chkp, NUM_CHECKPOINTS) = Dist(fl_vt, w.chkp, NC)
      BY SameWrap, Zenon DEF FL!Ver, NC
  <2>4. Trunc(fl_vt + 0, NC) = fl_vt
      BY <1>9 DEF Trunc
  <2>5. fl_num' = [v \in FL!Ckpt |-> FL!Num(fl_num[v] + FL!Writes(f0, f1))]
      BY <1>8 DEF FL!Recover
  <2>6. \A x : FL!Num(x) = Trunc(x, 2 * N)
      BY SameWrap, Zenon DEF FL!Num, N
  <2>7. \A v \in FL!Ckpt : fl_num'[v] = Trunc(fl_num[v] + c[read], 2 * N)
      BY <1>4, <2>5, <2>6
  <2> QED BY <2>1, <2>2, <2>3, <2>4, <2>7
<1>11. PICK n, t, vt, ck, vh, num, head, map, s, q, g, v0 :
          /\ n = Size /\ t = fl_tail /\ vt = fl_vt /\ ck = fl_ck /\ vh = fl_vh /\ num = fl_num
          /\ head = fl_head /\ map = rt_map /\ s = Items /\ q = fl_ring /\ g = rt_commit /\ v0 = w.chkp
    OBVIOUS
<1>12. PICK b2, n2, t2, ck2, num2 :
          /\ b2 = [v \in FL!Ckpt |-> b[v] - read] /\ n2 = b[v0] - read /\ t2 = fl_tail'
          /\ ck2 = fl_ck' /\ num2 = fl_num'
    OBVIOUS
<1>13. /\ Marks(c, m, b, n, t, vt, ck, vh, num, head, map) /\ Chain(c, m, s, n, t, q, g)
       /\ \A v \in FL!Ckpt : Dist(vt, v, NC) < ck => Guarded(b[v])
       /\ b \in [FL!Ckpt -> Int]
       /\ \A u, v \in FL!Ckpt : Dist(vt, u, NC) < Dist(vt, v, NC) /\ Dist(vt, v, NC) < ck => b[u] < b[v]
  <2>1. Marks(c, m, b, n, t, vt, ck, vh, num, head, map) /\ Chain(c, m, s, n, t, q, g)
      BY <1>3, <1>11, Zenon DEF Versions, Order
  <2>2. \A v \in FL!Ckpt : Dist(vt, v, NC) < ck => Guarded(b[v])
      BY <1>3, <1>11 DEF Versions, VAge
  <2>3. /\ b \in [FL!Ckpt -> Int]
        /\ \A u, v \in FL!Ckpt : Dist(vt, u, NC) < Dist(vt, v, NC) /\ Dist(vt, v, NC) < ck => b[u] < b[v]
      BY <2>1 DEF Marks
  <2> QED BY <2>1, <2>2, <2>3
<1>14. done => \E u \in units : u.index = gl_head
    BY DEF Clock, Inputs
<1>15. \A v \in FL!Ckpt : Dist(vt, v, NC) < ck => read <= b[v]
  <2> SUFFICES ASSUME NEW v \in FL!Ckpt, Dist(vt, v, NC) < ck PROVE read <= b[v]
      OBVIOUS
  <2>1. b[v] \in Int /\ Guarded(b[v])
      BY <1>13
  <2>2. Retire(done, memex) < b[v]
      BY <1>4, <1>14, <2>1, GuardStays
  <2> QED BY <1>2, <1>4, <2>1, <2>2
<1>16. Recovered(c, b, t, vt, num, v0, read, b2, n2, t2, ck2, num2)
    BY <1>4, <1>10, <1>11, <1>12 DEF Recovered
<1>17. Marks(ShiftC(c, read, b[v0], d), ShiftM(m, read, b[v0], d), b2, n2, t2, vt, ck2, v0, num2, head, map)
  <2>1. /\ n \in Place /\ t \in 0 .. N - 1 /\ vt \in FL!Ckpt /\ ck \in Nat /\ v0 \in FL!Ckpt
        /\ Dist(vt, v0, NC) < ck /\ read \in 0 .. b[v0]
      BY <1>4, <1>6, <1>9, <1>11 DEF VAge
  <2> QED BY <1>13, <1>15, <1>16, <2>1, MarksRecover
<1>18. n2 = Size' /\ last = b[v0]
  <2>1. new = 0
      BY <1>2 DEF Brings
  <2>2. last = b[v0] /\ last \in Int
      BY <1>4, <1>6, <1>9, <1>11 DEF Place
  <2> QED BY <1>4, <1>12, <2>1, <2>2
<1>19. Marks(ShiftC(c, read, last, d), ShiftM(m, read, last, d), b2, Size, fl_tail, fl_vt, fl_ck, fl_vh,
             fl_num, fl_head, rt_map)'
    BY <1>10, <1>11, <1>12, <1>17, <1>18, Zenon
<1>20. ASSUME NEW v \in FL!Ckpt, Dist(fl_vt', v, NC) < fl_ck' PROVE Guarded(b2[v])'
  <2>1. Dist(vt, v, NC) < Dist(vt, v0, NC) /\ Dist(vt, v0, NC) < ck /\ v0 \in FL!Ckpt
      BY <1>6, <1>9, <1>10, <1>11, <1>20 DEF VAge
  <2>2. Dist(vt, v, NC) < ck
    <3>1. Dist(vt, v, NC) \in Int /\ Dist(vt, v0, NC) \in Int
        BY <1>9, <1>11 DEF Dist, Trunc
    <3> QED BY <1>9, <1>11, <2>1, <3>1
  <2>3. b[v] < b[v0] /\ Guarded(b[v]) /\ b[v] \in Int
      BY <1>13, <2>1, <2>2
  <2>4. Age(w.index) \in Int
    <3>1. w.index \in Index
        BY <1>5 DEF Pipe, Owners, Owns
    <3>2. Age(w.index) \in 0 .. N - 1
        BY <3>1, Places DEF Age, Types, TypeOK
    <3> QED BY <3>2, Sizes
  <2>5. b[v] <= Age(w.index) /\ b[v] <= Age(missed.index) + 1
      BY <1>5, <1>6, <1>11, <2>3, <2>4
  <2>6. FailedBefore(b[v])
      BY <1>3, <1>5, <1>6, <2>3, <2>5, OlderGuard
  <2>7. FailedBefore(b[v] - read)'
      BY <1>2, <1>4, <2>3, <2>5, <2>6, FailedKept
  <2>8. b2[v] = b[v] - read
      BY <1>12
  <2> QED BY <2>7, <2>8 DEF FailedBefore, Guarded
<1>21. Branches(b2)'
  <2>1. rr' = None
      BY <1>1, ReadAfter DEF Fenced
  <2>2. exe' = None /\ \A x \in wb' : ~x.ck /\ x.ok
    <3>1. exe' = None
        BY StagesAfter
    <3>2. CASE cq
        BY <3>1, <3>2, StagesAfter
    <3>3. CASE ~cq
      <4>1. ~Executes(busy)
          BY DEF Executes
      <4>2. wb' = {Finished(u, memex) : u \in fin}
          BY <3>3, <4>1, StagesAfter DEF exe_results
      <4>3. \A u : ~Finished(u, memex).ck /\ Finished(u, memex).ok
          BY DEF Finished
      <4> QED BY <3>1, <4>2, <4>3
    <3> QED BY <3>2, <3>3
  <2> QED BY <2>1, <2>2 DEF Branches, None
<1>22. Renaming(ShiftC(c, read, last, d), ShiftM(m, read, last, d), b2)'
  <2>1. Versions(ShiftC(c, read, last, d), ShiftM(m, read, last, d), b2)'
      BY <1>19, <1>20 DEF Versions, VAge, NC, FL!Ckpt
  <2> QED BY <1>4, <1>21, <2>1, Zenon DEF Renaming
<1> QED BY <1>4, <1>22

\* The free list and the rename table in a cycle without recovery.
Taking(read, f0, f1, do, take, one, cur, y) ==
    /\ take = (IF do THEN 1 ELSE 0) /\ one = (IF FL!ReadEnable(read, f0, f1) THEN 1 ELSE 0)
    /\ cur = {fl_vh, Trunc(fl_vh + take, NC)} /\ y = FL!Writes(f0, f1)

LEMMA TablesAdvance ==
    ASSUME Types, NEW read, NEW f0, NEW f1, NEW do, NEW del, NEW write, NEW k0, NEW k1,
           NEW take, NEW one, NEW cur, NEW y,
           FL!Advance(read, f0, f1, do, del), RT!Advance(write, k0, k1, Broadcast, do, del),
           do => fl_ck < NC - 1, del \in {0, 1}, del <= fl_ck, fl_ck < NC,
           Taking(read, f0, f1, do, take, one, cur, y)
    PROVE  /\ take \in {0, 1} /\ one \in {0, 1}
           /\ fl_vh' = Trunc(fl_vh + take, NC) /\ fl_vt' = Trunc(fl_vt + del, NC)
           /\ fl_ck' = fl_ck + take - del
           /\ \A v \in FL!Ckpt : fl_num'[v] = IF v \in cur THEN Trunc(fl_num[fl_vh] + y - one, 2 * N)
                                             ELSE Trunc(fl_num[v] + y, 2 * N)
           /\ \A v \in FL!Ckpt : fl_head'[v] = IF v \in cur THEN Trunc(fl_head[fl_vh] + one, N) ELSE fl_head[v]
           /\ \A r \in Reg, v \in FL!Ckpt :
                rt_map'[r][v] = IF v \in cur THEN (IF RT!Writes(write) /\ write.rd = r THEN write.prd
                                                   ELSE rt_map[r][fl_vh])
                                ELSE rt_map[r][v]
<1> USE DEF Taking
<1>1. /\ fl_vh \in 0 .. NC - 1 /\ fl_ck \in Nat /\ NC \in Nat /\ NC >= 2 /\ FL!Ckpt = 0 .. NC - 1
      /\ rt_vh = fl_vh /\ rt_ck = fl_ck
    BY Sizes DEF Types, TypeOK, FL!TypeOK, VersionsTogether, NC
<1>2. /\ FL!CheckpointEnable(do) <=> do
      /\ RT!CheckpointEnable(do) <=> do
    BY <1>1 DEF FL!CheckpointEnable, RT!CheckpointEnable, NC
<1>3. /\ \A x : FL!Ver(x) = Trunc(x, NC) /\ FL!Ptr(x) = Trunc(x, N) /\ FL!Num(x) = Trunc(x, 2 * N)
      /\ \A x : RT!Ver(x) = Trunc(x, NC)
      /\ \A x : FL!Trunc(x, 2 * NUM_CHECKPOINTS) = Trunc(x, 2 * NC)
    BY SameWrap, Zenon DEF FL!Ver, FL!Ptr, FL!Num, RT!Ver, NC, N
<1>4. Trunc(fl_vh + 0, NC) = fl_vh
    BY <1>1 DEF Trunc
<1>5. /\ {fl_vh} \cup (IF FL!CheckpointEnable(do) THEN {FL!Ver(fl_vh + 1)} ELSE {}) = cur
      /\ {rt_vh} \cup (IF RT!CheckpointEnable(do) THEN {RT!Ver(rt_vh + 1)} ELSE {}) = cur
  <2>1. CASE do
      BY <1>1, <1>2, <1>3, <2>1
  <2>2. CASE ~do
      BY <1>1, <1>2, <1>4, <2>2
  <2> QED BY <2>1, <2>2
<1>6. take \in {0, 1} /\ one \in {0, 1} /\ (take = 1 <=> do)
    OBVIOUS
<1>7. fl_vh' = Trunc(fl_vh + take, NC) /\ fl_vt' = Trunc(fl_vt + del, NC)
  <2>1. fl_vh' = (IF FL!CheckpointEnable(do) THEN FL!Ver(fl_vh + 1) ELSE fl_vh) /\ fl_vt' = FL!Ver(fl_vt + del)
      BY Zenon DEF FL!Advance
  <2>2. CASE do
      BY <1>2, <1>3, <2>1, <2>2
  <2>3. CASE ~do
      BY <1>2, <1>3, <1>4, <2>1, <2>3
  <2> QED BY <2>2, <2>3
<1>8. fl_ck' = fl_ck + take - del
  <2>1. fl_ck' = FL!Trunc(fl_ck + (IF FL!CheckpointEnable(do) THEN 1 ELSE 0) - del, 2 * NUM_CHECKPOINTS)
      BY Zenon DEF FL!Advance
  <2>2. take = IF FL!CheckpointEnable(do) THEN 1 ELSE 0
      BY <1>2
  <2>3. fl_ck' = Trunc(fl_ck + take - del, 2 * NC)
      BY <1>3, <2>1, <2>2
  <2>4. take = 1 => fl_ck < NC - 1
      BY <1>6
  <2>5. Trunc(fl_ck + take - del, 2 * NC) = fl_ck + take - del
      BY <1>1, <1>6, <2>4 DEF Trunc
  <2> QED BY <2>3, <2>5
<1>9. /\ fl_num' = [v \in FL!Ckpt |->
               IF v \in cur THEN FL!Num(fl_num[fl_vh] + y - one) ELSE FL!Num(fl_num[v] + y)]
      /\ fl_head' = [v \in FL!Ckpt |-> IF v \in cur THEN FL!Ptr(fl_head[fl_vh] + one) ELSE fl_head[v]]
    BY <1>5 DEF FL!Advance
<1>10. rt_map' = [r \in RT!Isa |-> [v \in RT!Ckpt |->
           IF v \notin cur THEN rt_map[r][v]
           ELSE IF RT!Writes(write) /\ write.rd = r THEN write.prd ELSE RT!Mapping(r)]]
    BY <1>5 DEF RT!Advance
<1>11. RT!Isa = Reg /\ RT!Ckpt = FL!Ckpt
    BY Sizes
<1>12. /\ \A v \in FL!Ckpt : fl_num'[v] = IF v \in cur THEN Trunc(fl_num[fl_vh] + y - one, 2 * N)
                                          ELSE Trunc(fl_num[v] + y, 2 * N)
       /\ \A v \in FL!Ckpt : fl_head'[v] = IF v \in cur THEN Trunc(fl_head[fl_vh] + one, N) ELSE fl_head[v]
    BY <1>3, <1>9
<1>13. \A r \in Reg, v \in FL!Ckpt :
          rt_map'[r][v] = IF v \in cur THEN (IF RT!Writes(write) /\ write.rd = r THEN write.prd
                                             ELSE rt_map[r][fl_vh])
                          ELSE rt_map[r][v]
    BY <1>1, <1>10, <1>11 DEF RT!Mapping
<1> QED BY <1>6, <1>7, <1>8, <1>12, <1>13

\* The version pointers in such a cycle.
Turned(vt, ck, vh, del, take, cur, vt2, ck2) ==
    /\ vt \in 0 .. NC - 1 /\ ck \in 0 .. NC - 1 /\ del \in {0, 1} /\ take \in {0, 1} /\ del <= ck
    /\ take = 1 => ck < NC - 1
    /\ vh = Trunc(vt + ck, NC) /\ cur = {vh, Trunc(vh + take, NC)}
    /\ vt2 = Trunc(vt + del, NC) /\ ck2 = ck + take - del

\* A version that stays: it is neither deleted nor the current one.
LEMMA VersionStays ==
    ASSUME NEW vt, NEW ck, NEW del, NEW take, NEW vh, NEW v, NEW cur, NEW vt2, NEW ck2,
           Turned(vt, ck, vh, del, take, cur, vt2, ck2), v \in FL!Ckpt
    PROVE  /\ Dist(vt, v, NC) < ck /\ Dist(vt, v, NC) >= del => v \notin cur /\ Dist(vt2, v, NC) < ck2
           /\ v \notin cur /\ Dist(vt2, v, NC) < ck2 => Dist(vt, v, NC) < ck /\ Dist(vt, v, NC) >= del
           /\ v \in cur /\ Dist(vt2, v, NC) < ck2 => v = vh /\ take = 1
           /\ take = 1 => Dist(vt2, vh, NC) < ck2
<1> USE DEF Turned
<1>1. NC \in Nat /\ NC >= 2 /\ v \in 0 .. NC - 1
    BY Sizes DEF NC
<1> DEFINE a == Dist(vt, v, NC)
<1>2. /\ Dist(vt, vh, NC) = ck /\ Dist(vt, Trunc(vh + take, NC), NC) = ck + take
      /\ vh \in 0 .. NC - 1 /\ Trunc(vh + take, NC) \in 0 .. NC - 1
      /\ \A x \in 0 .. NC - 1 :
           /\ Dist(vt, x, NC) \in 0 .. NC - 1
           /\ Dist(vt2, x, NC) = IF Dist(vt, x, NC) >= del THEN Dist(vt, x, NC) - del ELSE NC - 1
      /\ \A u, x \in 0 .. NC - 1 : Dist(vt, u, NC) = Dist(vt, x, NC) => u = x
  <2>1. Dist(vt, vh, NC) = ck /\ vh \in 0 .. NC - 1
      BY <1>1 DEF Trunc, Dist
  <2>2. Trunc(vh + take, NC) \in 0 .. NC - 1 /\ Dist(vt, Trunc(vh + take, NC), NC) = ck + take
      BY <1>1 DEF Trunc, Dist
  <2>3. ASSUME NEW x \in 0 .. NC - 1
        PROVE  /\ Dist(vt, x, NC) \in 0 .. NC - 1
               /\ Dist(vt2, x, NC) = IF Dist(vt, x, NC) >= del THEN Dist(vt, x, NC) - del ELSE NC - 1
      BY <1>1 DEF Trunc, Dist
  <2>4. \A u, x \in 0 .. NC - 1 : Dist(vt, u, NC) = Dist(vt, x, NC) => u = x
      BY <1>1 DEF Trunc, Dist
  <2> QED BY <2>1, <2>2, <2>3, <2>4
<1>3. /\ a \in 0 .. NC - 1 /\ Dist(vt2, v, NC) = IF a >= del THEN a - del ELSE NC - 1
      /\ (v = vh <=> a = ck) /\ (v \in cur <=> a = ck \/ a = ck + take)
      /\ Dist(vt2, vh, NC) = IF ck >= del THEN ck - del ELSE NC - 1
    BY <1>1, <1>2
<1> HIDE DEF a
<1>4. PICK z : z = Dist(vt2, v, NC)
    OBVIOUS
<1>5. z = IF a >= del THEN a - del ELSE NC - 1
    BY <1>3, <1>4
<1>6. /\ a < ck /\ a >= del => ~(a = ck \/ a = ck + take) /\ z < ck2
      /\ ~(a = ck \/ a = ck + take) /\ z < ck2 => a < ck /\ a >= del
      /\ (a = ck \/ a = ck + take) /\ z < ck2 => a = ck /\ take = 1
    BY <1>1, <1>3, <1>5
<1>7. take = 1 => Dist(vt2, vh, NC) < ck2
    BY <1>1, <1>3
<1> QED BY <1>3, <1>4, <1>6, <1>7 DEF a

\* The branches that have not resolved go on with their versions, and the new one
\* has the version that was current.
LEMMA BranchesAfter ==
    ASSUME Types, Types', Pipe, Fenced, ~xq, ~mis,
           NEW c, NEW m, NEW b, Order(c, m), Versions(c, m, b), Branches(b),
           NEW iq, NEW busy, NEW rrex, NEW ok, NEW brex, NEW fin, NEW memex, NEW done, NEW csrx,
           Clock(iq, busy, rrex, ok, brex, fin, memex, done, csrx), ~commit_xcpt(memex),
           NEW f0, NEW f1, f0 = Freed(1, done, memex, csrx), f1 = Freed(2, done, memex, csrx),
           NEW read, NEW new, NEW del, NEW take, NEW cur, NEW b2,
           read = Retire(done, memex), new = Brings(iq, busy, f0, f1), del = delete_checkpoint,
           take = (IF do_checkpoint(iq, busy) THEN 1 ELSE 0),
           Turned(fl_vt, fl_ck, fl_vh, del, take, cur, fl_vt', fl_ck'),
           b2 = [v \in FL!Ckpt |-> IF v \in cur THEN Size - read + new ELSE b[v] - read]
    PROVE  /\ Branches(b2)'
           /\ take = 1 => rr' # None /\ rr'.ck /\ gl_num' + 1 = Size - read + new
<1>1. /\ gl_num \in 0 .. N - 1 /\ N \in Nat /\ N >= 3 /\ gl_tail \in Index /\ gl_head \in Index
      /\ fl_vh \in FL!Ckpt /\ rt_vh = fl_vh
    BY Sizes DEF Types, TypeOK, N, FL!TypeOK, VersionsTogether
<1>2. /\ read \in 0 .. 2 /\ Limit(busy) \in 0 .. N - 1 /\ Age(gl_tail) = gl_num
      /\ gl_num' = Limit(busy) - read
      /\ \A i \in Index : read <= Age(i) => Dist(gl_head', i, N) = Age(i) - read
    BY PlacesAfter
<1>3. /\ b \in [FL!Ckpt -> Int]
      /\ \A u, v \in FL!Ckpt : VAge(u) < VAge(v) /\ VAge(v) < fl_ck => b[u] < b[v]
    BY DEF Versions, Marks, VAge
<1>4. /\ NC \in Nat /\ FL!Ckpt = 0 .. NC - 1 /\ \A v \in FL!Ckpt : VAge(v) \in 0 .. NC - 1
      /\ \A u, v \in FL!Ckpt : VAge(u) = VAge(v) => u = v
      /\ del \in {0, 1} /\ take \in {0, 1}
  <2>1. NC \in Nat /\ FL!Ckpt = 0 .. NC - 1 /\ fl_vt \in 0 .. NC - 1 /\ del \in {0, 1} /\ take \in {0, 1}
      BY Sizes DEF NC, Turned
  <2> QED BY <2>1 DEF VAge, Dist, Trunc
<1>5. ASSUME NEW v \in FL!Ckpt, VAge(v) < fl_ck, VAge(v) >= del
      PROVE  Dist(fl_vt', v, NC) < fl_ck' /\ b2[v] = b[v] - read
  <2>1. v \notin cur /\ Dist(fl_vt', v, NC) < fl_ck'
      BY <1>5, VersionStays DEF VAge
  <2> QED BY <2>1
<1>6. ASSUME NEW v \in FL!Ckpt, VAge(v) < fl_ck, \A w \in wb : w.ck => Age(w.index) + 1 < b[v]
      PROVE  VAge(v) >= del
  <2>1. CASE del = 0
      BY <1>4, <2>1
  <2>2. CASE del = 1
    <3>1. PICK w \in wb : w.ok /\ w.ck
        BY <2>2 DEF delete_checkpoint
    <3>2. VAge(w.chkp) < fl_ck /\ b[w.chkp] = Age(w.index) + 1 /\ w.chkp \in FL!Ckpt
        BY <3>1 DEF Branches, Types, TypeOK, Result
    <3>3. b[w.chkp] < b[v]
        BY <1>6, <3>1, <3>2
    <3>4. b[w.chkp] \in Int /\ b[v] \in Int
        BY <1>3, <3>2
    <3>5. VAge(v) # VAge(w.chkp) /\ ~(VAge(v) < VAge(w.chkp))
      <4>1. VAge(v) = VAge(w.chkp) => v = w.chkp
          BY <1>4, <3>2
      <4>2. VAge(v) < VAge(w.chkp) => b[v] < b[w.chkp]
          BY <1>3, <3>2
      <4> QED BY <3>3, <3>4, <4>1, <4>2
    <3>6. VAge(v) \in 0 .. NC - 1 /\ VAge(w.chkp) \in 0 .. NC - 1
        BY <1>4, <3>2
    <3> QED BY <1>4, <2>2, <3>5, <3>6
  <2> QED BY <1>4, <2>1, <2>2
<1>7. ASSUME NEW w \in wb
      PROVE  Age(w.index) \in 0 .. N - 1 /\ Age(w.index) < gl_num /\ w.index \in Index
  <2>1. w.index \in Index /\ Live(w.index)
      BY DEF Pipe, Owners, Owns
  <2>2. Age(w.index) \in 0 .. N - 1
      BY <1>1, <2>1, Places DEF Age
  <2>3. Age(w.index) < gl_num
      BY <2>1 DEF Live, Age, N
  <2> QED BY <2>1, <2>2, <2>3
<1>8. ASSUME exe # None
      PROVE  /\ Dist(gl_head', exe.index, N) = Age(exe.index) - read
             /\ Dist(gl_head', exe.index, N) \in Int
             /\ exe \in Instr /\ exe.index \in Index
             /\ exe.ck => Dist(fl_vt', exe.chkp, NC) < fl_ck'
                       /\ b2[exe.chkp] = Dist(gl_head', exe.index, N) + 1
  <2>1. exe \in Issued /\ exe \in Instr
      BY <1>8 DEF Issued, Types, TypeOK
  <2>2. exe.index \in Index
      BY <2>1 DEF Pipe, Owners, Owns
  <2>3. Stays(exe.index, busy, done, memex)
      BY <1>8, Inherit
  <2>4. Age(exe.index) \in 0 .. N - 1 /\ Age(exe.index) = gl_num - 1
      BY <1>1, <1>8, <2>2, Places DEF Age, Pipe, InOrderIssue
  <2>5. Dist(gl_head', exe.index, N) = Age(exe.index) - read
      BY <1>2, <2>2, <2>3 DEF Stays
  <2>6. ASSUME exe.ck
        PROVE  Dist(fl_vt', exe.chkp, NC) < fl_ck' /\ b2[exe.chkp] = Dist(gl_head', exe.index, N) + 1
    <3>1. VAge(exe.chkp) < fl_ck /\ b[exe.chkp] = Age(exe.index) + 1 /\ exe.chkp \in FL!Ckpt
        BY <1>8, <2>1, <2>6 DEF Branches, Instr
    <3>2. ASSUME NEW w \in wb PROVE Age(w.index) + 1 < b[exe.chkp]
      <4>1. w.index # exe.index
          BY <1>8 DEF Pipe, OneOwner
      <4>2. Age(w.index) # Age(exe.index)
          BY <1>1, <1>7, <2>2, <4>1, Places DEF Age
      <4> QED BY <1>1, <1>7, <2>4, <3>1, <4>2
    <3>3. VAge(exe.chkp) >= del
        BY <1>6, <3>1, <3>2
    <3>4. Dist(fl_vt', exe.chkp, NC) < fl_ck' /\ b2[exe.chkp] = b[exe.chkp] - read
        BY <1>5, <3>1, <3>3
    <3> QED BY <1>2, <2>4, <2>5, <3>1, <3>4
  <2> QED BY <1>2, <2>1, <2>2, <2>4, <2>5, <2>6
<1>9. ASSUME rr # None, rr.ck
      PROVE  Dist(fl_vt', rr.chkp, NC) < fl_ck' /\ b2[rr.chkp] = gl_num + 1 - read
  <2>1. VAge(rr.chkp) < fl_ck /\ b[rr.chkp] = gl_num + 1 /\ rr.chkp \in FL!Ckpt
      BY <1>9 DEF Branches, Types, TypeOK, Instr
  <2>2. ASSUME NEW w \in wb PROVE Age(w.index) + 1 < b[rr.chkp]
      BY <1>1, <1>7, <2>1
  <2>3. VAge(rr.chkp) >= del
      BY <1>6, <2>1, <2>2
  <2>4. Dist(fl_vt', rr.chkp, NC) < fl_ck' /\ b2[rr.chkp] = b[rr.chkp] - read
      BY <1>5, <2>1, <2>3
  <2> QED BY <1>1, <1>2, <2>1, <2>4
<1> DEFINE e == [index |-> exe.index, rd |-> exe.rd, prd |-> exe.prd, ex |-> brex,
                 ck |-> exe.ck, chkp |-> exe.chkp, ok |-> ok]
<1>10. ASSUME NEW w \in wb'
       PROVE  (~w.ck /\ w.ok) \/ (w = e /\ exe # None /\ (~ok => exe.kind = "BR"))
  <2>1. ~cq
      BY StagesAfter
  <2>2. w \in exe_results(busy, ok, brex) \/ \E u \in fin : w = Finished(u, memex)
      BY <2>1, StagesAfter
  <2>3. CASE \E u \in fin : w = Finished(u, memex)
      BY <2>3 DEF Finished
  <2>4. CASE w \in exe_results(busy, ok, brex)
    <3>1. Executes(busy) /\ w = e
        BY <2>4 DEF exe_results
    <3>2. ~ok => exe.kind = "BR"
        BY DEF Clock, Inputs
    <3> QED BY <3>1, <3>2 DEF Executes
  <2> QED BY <2>2, <2>3, <2>4
<1>11. e.index = exe.index /\ e.ck = exe.ck /\ e.chkp = exe.chkp /\ e.ok = ok
    OBVIOUS
<1> HIDE DEF e
<1>12. /\ \A w \in wb' : w.ck => Dist(fl_vt', w.chkp, NC) < fl_ck' /\ b2[w.chkp] = Dist(gl_head', w.index, N) + 1
       /\ \A w \in wb' : ~w.ok => w.ck
       /\ \A w, x \in wb' : w.ck /\ x.ck => w = x
  <2>1. ASSUME NEW w \in wb', w.ck
        PROVE  Dist(fl_vt', w.chkp, NC) < fl_ck' /\ b2[w.chkp] = Dist(gl_head', w.index, N) + 1
      BY <1>8, <1>10, <1>11, <2>1
  <2>2. ASSUME NEW w \in wb', ~w.ok PROVE w.ck
      BY <1>10, <1>11, <2>2 DEF Branches
  <2>3. \A w, x \in wb' : w.ck /\ x.ck => w = x
      BY <1>10
  <2> QED BY <2>1, <2>2, <2>3
<1>13. ASSUME exe' # None
       PROVE  /\ exe'.ck <=> exe'.kind = "BR"
              /\ exe'.ck => /\ Dist(fl_vt', exe'.chkp, NC) < fl_ck'
                            /\ b2[exe'.chkp] = Dist(gl_head', exe'.index, N) + 1
  <2>1. \/ exe # None /\ exe' = Snoop(exe)
        \/ Enters(busy) /\ exe' = [Snoop(rr) EXCEPT !.index = gl_tail]
      BY <1>13, StagesAfter
  <2>2. CASE exe # None /\ exe' = Snoop(exe)
    <3>1. exe'.ck = exe.ck /\ exe'.kind = exe.kind /\ exe'.chkp = exe.chkp /\ exe'.index = exe.index
        BY <1>8, <2>2, SnoopCarries
    <3>2. exe.ck <=> exe.kind = "BR"
        BY <2>2 DEF Branches
    <3> QED BY <1>8, <2>2, <3>1, <3>2
  <2>3. CASE Enters(busy) /\ exe' = [Snoop(rr) EXCEPT !.index = gl_tail]
    <3>1. rr \in Instr /\ rr # None
        BY <2>3 DEF Enters, Types, TypeOK
    <3>2. exe'.ck = rr.ck /\ exe'.kind = rr.kind /\ exe'.chkp = rr.chkp /\ exe'.index = gl_tail
        BY <2>3, <3>1, SnoopCarries
    <3>3. rr.ck <=> rr.kind = "BR"
        BY <3>1 DEF Branches
    <3>4. Dist(gl_head', gl_tail, N) = gl_num - read
      <4>1. read <= gl_num
          BY RetiresFinished
      <4> QED BY <1>1, <1>2, <4>1
    <3>5. rr.ck => b2[rr.chkp] = Dist(gl_head', gl_tail, N) + 1
        BY <1>1, <1>2, <1>9, <3>1, <3>4
    <3> QED BY <1>9, <3>1, <3>2, <3>3, <3>5
  <2> QED BY <2>1, <2>2, <2>3
<1>14. /\ mis \/ cq => rr' = None
       /\ renames(iq, busy, f0, f1) => iq # None /\ ~stall_rr(busy) /\ ~cq
       /\ ~mis /\ stall_rr(busy) => rr' = Snoop(rr)
       /\ ~mis /\ ~stall_rr(busy) => rr' = IF renames(iq, busy, f0, f1) THEN Renamed(iq, busy, f0, f1)
                                           ELSE None
    BY ReadAfter DEF Fenced
<1>15. iq \in QueueHead(busy)
    BY DEF Clock
<1>16. do_checkpoint(iq, busy) <=> renames(iq, busy, f0, f1) /\ iq.kind = "BR"
    BY <1>15, NewItem
<1>17. ASSUME renames(iq, busy, f0, f1)
       PROVE  /\ rr' # None /\ rr'.kind = iq.kind /\ rr'.ck = do_checkpoint(iq, busy) /\ rr'.chkp = fl_vh
              /\ gl_num' = Size - read /\ new = 1 /\ Size \in Int
  <2>1. rr' = Renamed(iq, busy, f0, f1) /\ iq # None
      BY <1>14, <1>17
  <2>2. LET i == Renamed(iq, busy, f0, f1) IN
        i # None /\ i.kind = iq.kind /\ i.ck = do_checkpoint(iq, busy) /\ i.chkp = rt_vh
      BY <1>15, <2>1, RenamedFields
  <2>3. new = 1
      BY <1>17 DEF Brings
  <2>4. PICK last : last = Last
      OBVIOUS
  <2>5. new = 1 => gl_num' = Size - read
      BY <2>4, ItemsAfter
  <2>6. Size \in Int
      BY Heads, Sizes DEF Place
  <2> QED BY <1>1, <2>1, <2>2, <2>3, <2>5, <2>6
<1>18. ASSUME take = 1
       PROVE  /\ renames(iq, busy, f0, f1) /\ rr' # None /\ rr'.ck /\ gl_num' + 1 = Size - read + new
              /\ Dist(fl_vt', rr'.chkp, NC) < fl_ck' /\ b2[rr'.chkp] = gl_num' + 1
  <2>1. do_checkpoint(iq, busy) /\ renames(iq, busy, f0, f1)
      BY <1>16, <1>18
  <2>2. rr' # None /\ rr'.ck /\ rr'.chkp = fl_vh /\ gl_num' + 1 = Size - read + new
      BY <1>2, <1>17, <2>1
  <2>3. Dist(fl_vt', fl_vh, NC) < fl_ck'
      BY <1>1, <1>18, VersionStays
  <2>4. b2[fl_vh] = Size - read + new
      BY <1>1 DEF Turned
  <2> QED BY <2>1, <2>2, <2>3, <2>4
<1>19. ASSUME rr' # None
       PROVE  /\ rr'.ck <=> rr'.kind = "BR"
              /\ rr'.ck => Dist(fl_vt', rr'.chkp, NC) < fl_ck' /\ b2[rr'.chkp] = gl_num' + 1
  <2>1. CASE stall_rr(busy)
    <3>1. rr' = Snoop(rr)
        BY <1>14, <2>1
    <3>2. rr # None /\ rr \in Instr
        BY <1>19, <3>1 DEF Snoop, Types, TypeOK
    <3>3. rr'.ck = rr.ck /\ rr'.kind = rr.kind /\ rr'.chkp = rr.chkp
        BY <3>1, <3>2, SnoopCarries
    <3>4. rr.ck <=> rr.kind = "BR"
        BY <3>2 DEF Branches
    <3>5. gl_num' = gl_num - read
        BY <1>1, <1>2, <2>1 DEF Limit, Enters
    <3>6. rr.ck => b2[rr.chkp] = gl_num' + 1
        BY <1>1, <1>2, <1>9, <3>2, <3>5
    <3> QED BY <1>9, <3>2, <3>3, <3>4, <3>6
  <2>2. CASE ~stall_rr(busy)
    <3>1. renames(iq, busy, f0, f1)
        BY <1>14, <1>19, <2>2
    <3>2. rr'.kind = iq.kind /\ rr'.ck = do_checkpoint(iq, busy)
        BY <1>17, <3>1
    <3>3. rr'.ck <=> rr'.kind = "BR"
        BY <1>16, <3>1, <3>2
    <3>4. rr'.ck => take = 1
        BY <3>2
    <3> QED BY <1>18, <3>3, <3>4
  <2> QED BY <2>1, <2>2
<1>20. Branches(b2)'
    BY <1>12, <1>13, <1>19 DEF Branches, VAge, Age, N, NC
<1> QED BY <1>18, <1>20

\* A cycle in which nothing was mispredicted.
LEMMA AdvanceKept ==
    ASSUME Types, Types', Pipe, Record, Fenced, ~xq, ~xq', ~mis,
           NEW c, NEW m, NEW b, Renaming(c, m, b), Conserved(fl_ring, rt_commit),
           NEW iq, NEW busy, NEW rrex, NEW ok, NEW brex, NEW fin, NEW memex, NEW done, NEW csrx,
           Clock(iq, busy, rrex, ok, brex, fin, memex, done, csrx)
    PROVE  Conserved(fl_ring', rt_commit') /\ (\E x, y, z : Renaming(x, y, z))'
<1>1. PICK f0, f1, k0, k1 :
          /\ f0 = Freed(1, done, memex, csrx) /\ f1 = Freed(2, done, memex, csrx)
          /\ k0 = Committed(1, done, memex, csrx) /\ k1 = Committed(2, done, memex, csrx)
    OBVIOUS
<1>2. PICK read, last, new, d :
          /\ read = Retire(done, memex) /\ last = Last
          /\ new = Brings(iq, busy, f0, f1) /\ d = DataOf(Renamed(iq, busy, f0, f1))
    OBVIOUS
<1>3. Order(c, m) /\ Versions(c, m, b) /\ Branches(b)
    BY DEF Renaming
<1>4. /\ ~commit_xcpt(memex)
      /\ Conserved(fl_ring', rt_commit')
      /\ FL!Writes(f0, f1) = c[read] /\ fl_tail' = Trunc(fl_tail + c[read], N)
      /\ Order(ShiftC(c, read, last, d), ShiftM(m, read, last, d))'
      /\ read \in 0 .. 2 /\ last \in 0 .. Size /\ read \in 0 .. last
      /\ new \in {0, 1} /\ Size' = last - read + new
    BY <1>1, <1>2, <1>3, OrderAfter
<1>5. last = Size /\ ~do_recover
    BY <1>2 DEF Last, do_recover
<1>6. PICK do, del, take, one, cur, y, gets, write :
          /\ do = do_checkpoint(iq, busy) /\ del = delete_checkpoint
          /\ gets = reads(iq, busy, f0, f1)
          /\ take = (IF do THEN 1 ELSE 0) /\ one = (IF FL!ReadEnable(gets, f0, f1) THEN 1 ELSE 0)
          /\ cur = {fl_vh, Trunc(fl_vh + take, NC)} /\ y = FL!Writes(f0, f1)
          /\ write = IF renames(iq, busy, f0, f1)
                     THEN [rd |-> iq.rd, prd |-> FL!NewRegister(gets, f0, f1)]
                     ELSE RT!NoReg
    OBVIOUS
<1>7. FL!Advance(gets, f0, f1, do, del) /\ RT!Advance(write, k0, k1, Broadcast, do, del) /\ iq \in QueueHead(busy)
    BY <1>1, <1>5, <1>6, RenameStep
<1>8. /\ fl_vt \in 0 .. NC - 1 /\ fl_ck \in 0 .. NC - 1 /\ fl_tail \in 0 .. N - 1 /\ Size \in Place /\ Size \in Nat
      /\ NC \in Nat /\ NC >= 2 /\ FL!Ckpt = 0 .. NC - 1 /\ fl_vh = Trunc(fl_vt + fl_ck, NC) /\ fl_vh \in FL!Ckpt
      /\ fl_ck < NC
  <2>1. fl_vt \in FL!Ckpt /\ fl_ck \in Nat /\ fl_tail \in 0 .. N - 1 /\ fl_vh \in FL!Ckpt
      BY Sizes DEF Types, TypeOK, FL!TypeOK
  <2>2. fl_ck < NC /\ fl_vh = Trunc(fl_vt + fl_ck, NC)
      BY <1>3 DEF Versions, Marks
  <2>3. NC \in Nat /\ NC >= 2 /\ FL!Ckpt = 0 .. NC - 1
      BY Sizes DEF NC
  <2>4. Size \in Place /\ Size \in Nat
      BY Heads, Sizes DEF Place
  <2> QED BY <2>1, <2>2, <2>3, <2>4
<1>9. del \in {0, 1} /\ del <= fl_ck
  <2>1. CASE \E w \in wb : w.ok /\ w.ck
    <3>1. PICK w \in wb : w.ck
        BY <2>1
    <3>2. VAge(w.chkp) < fl_ck /\ w.chkp \in FL!Ckpt
        BY <1>3, <3>1 DEF Branches, Types, TypeOK, Result
    <3>3. VAge(w.chkp) \in 0 .. NC - 1
        BY <1>8, <3>2 DEF VAge, Dist, Trunc
    <3>4. fl_ck >= 1
        BY <1>8, <3>2, <3>3
    <3> QED BY <1>6, <1>8, <2>1, <3>4 DEF delete_checkpoint
  <2>2. CASE ~\E w \in wb : w.ok /\ w.ck
      BY <1>6, <1>8, <2>2 DEF delete_checkpoint
  <2> QED BY <2>1, <2>2
<1>10. /\ renames(iq, busy, f0, f1) =>
            /\ iq.rd \in Reg /\ c[Size] < N /\ iq # None
       /\ FL!ReadEnable(gets, f0, f1) <=> renames(iq, busy, f0, f1) /\ iq.rd # 0
       /\ do <=> renames(iq, busy, f0, f1) /\ iq.kind = "BR"
       /\ do => fl_ck < NC - 1
  <2>1. /\ renames(iq, busy, f0, f1) => iq.rd \in Reg /\ c[Size] < N
        /\ FL!ReadEnable(reads(iq, busy, f0, f1), f0, f1) <=> renames(iq, busy, f0, f1) /\ iq.rd # 0
        /\ do_checkpoint(iq, busy) <=> renames(iq, busy, f0, f1) /\ iq.kind = "BR"
        /\ do_checkpoint(iq, busy) => fl_ck < NC - 1
      BY <1>3, <1>7, NewItem
  <2>2. renames(iq, busy, f0, f1) => iq # None
      BY DEF renames
  <2> QED BY <1>6, <2>1, <2>2
<1>11. /\ take \in {0, 1} /\ one \in {0, 1}
       /\ fl_vh' = Trunc(fl_vh + take, NC) /\ fl_vt' = Trunc(fl_vt + del, NC)
       /\ fl_ck' = fl_ck + take - del
       /\ \A v \in FL!Ckpt : fl_num'[v] = IF v \in cur THEN Trunc(fl_num[fl_vh] + y - one, 2 * N)
                                          ELSE Trunc(fl_num[v] + y, 2 * N)
       /\ \A v \in FL!Ckpt : fl_head'[v] = IF v \in cur THEN Trunc(fl_head[fl_vh] + one, N) ELSE fl_head[v]
       /\ \A r \in Reg, v \in FL!Ckpt :
             rt_map'[r][v] = IF v \in cur THEN (IF RT!Writes(write) /\ write.rd = r THEN write.prd
                                                ELSE rt_map[r][fl_vh])
                             ELSE rt_map[r][v]
  <2>1. Taking(gets, f0, f1, do, take, one, cur, y)
      BY <1>6 DEF Taking
  <2> QED BY <1>7, <1>8, <1>9, <1>10, <2>1, TablesAdvance
<1>12. Turned(fl_vt, fl_ck, fl_vh, del, take, cur, fl_vt', fl_ck')
    BY <1>6, <1>8, <1>9, <1>10, <1>11 DEF Turned
<1>13. /\ new = 1 <=> renames(iq, busy, f0, f1)
       /\ new = 1 => d.rd = iq.rd /\ d.prd = FL!NewRegister(gets, f0, f1)
       /\ one = IF new = 1 THEN One(d) ELSE 0
       /\ take = 1 => fl_ck < NC - 1 /\ new = 1
       /\ new = 1 => Size < N /\ c[Size] < N
  <2>1. new = 1 <=> renames(iq, busy, f0, f1)
      BY <1>2 DEF Brings
  <2>2. ASSUME new = 1 PROVE d.rd = iq.rd /\ d.prd = FL!NewRegister(gets, f0, f1)
    <3>1. LET i == Renamed(iq, busy, f0, f1) IN
          i.rd = iq.rd /\ i.prd = FL!NewRegister(reads(iq, busy, f0, f1), f0, f1)
        BY <1>7, <1>10, <2>1, <2>2, RenamedFields
    <3> QED BY <1>2, <1>6, <3>1 DEF DataOf
  <2>3. one = IF new = 1 THEN One(d) ELSE 0
      BY <1>6, <1>10, <2>1, <2>2 DEF One
  <2>4. new = 1 => Size < N
      BY <1>1, <1>2, <1>4, ItemsAfter
  <2> QED BY <1>6, <1>10, <2>1, <2>2, <2>3, <2>4
<1>14. \A r \in Reg, v \in FL!Ckpt :
           rt_map'[r][v] = IF v \in cur THEN (IF new = 1 /\ r # 0 /\ d.rd = r THEN d.prd ELSE rt_map[r][fl_vh])
                           ELSE rt_map[r][v]
  <2>1. ASSUME NEW r \in Reg
        PROVE  /\ RT!Writes(write) /\ write.rd = r <=> new = 1 /\ r # 0 /\ d.rd = r
               /\ new = 1 => write.prd = d.prd
    <3>1. CASE new = 1
      <4>1. write = [rd |-> d.rd, prd |-> d.prd] /\ d.rd \in Reg
          BY <1>6, <1>10, <1>13, <3>1
      <4>2. write.rd = d.rd /\ write.prd = d.prd
          BY <4>1
      <4>3. -1 \notin Reg
          BY Sizes
      <4>4. RT!Writes(write) <=> d.rd # 0
          BY <4>1, <4>2, <4>3 DEF RT!Writes, RT!NoReg
      <4> QED BY <3>1, <4>2, <4>4
    <3>2. CASE new # 1
      <4>1. write = RT!NoReg
          BY <1>6, <1>13, <3>2
      <4> QED BY <3>2, <4>1 DEF RT!Writes
    <3> QED BY <3>1, <3>2
  <2> QED BY <1>11, <2>1
<1>15. PICK n, t, vt, ck, vh, num, head, map, s, q, g :
          /\ n = Size /\ t = fl_tail /\ vt = fl_vt /\ ck = fl_ck /\ vh = fl_vh /\ num = fl_num
          /\ head = fl_head /\ map = rt_map /\ s = Items /\ q = fl_ring /\ g = rt_commit
    OBVIOUS
<1>16. PICK b2, num2, head2, map2 :
          /\ b2 = [v \in FL!Ckpt |-> IF v \in cur THEN n - read + new ELSE b[v] - read]
          /\ num2 = fl_num' /\ head2 = fl_head' /\ map2 = rt_map'
    OBVIOUS
<1>17. /\ Marks(c, m, b, n, t, vt, ck, vh, num, head, map) /\ Chain(c, m, s, n, t, q, g)
       /\ \A v \in FL!Ckpt : Dist(vt, v, NC) < ck => Guarded(b[v])
       /\ b \in [FL!Ckpt -> Int]
       /\ \A u, v \in FL!Ckpt : Dist(vt, u, NC) < Dist(vt, v, NC) /\ Dist(vt, v, NC) < ck => b[u] < b[v]
  <2>1. Marks(c, m, b, n, t, vt, ck, vh, num, head, map) /\ Chain(c, m, s, n, t, q, g)
      BY <1>3, <1>15, Zenon DEF Versions, Order
  <2>2. \A v \in FL!Ckpt : Dist(vt, v, NC) < ck => Guarded(b[v])
      BY <1>3, <1>15 DEF Versions, VAge
  <2>3. /\ b \in [FL!Ckpt -> Int]
        /\ \A u, v \in FL!Ckpt : Dist(vt, u, NC) < Dist(vt, v, NC) /\ Dist(vt, v, NC) < ck => b[u] < b[v]
      BY <2>1 DEF Marks
  <2> QED BY <2>1, <2>2, <2>3
<1>18. done => \E u \in units : u.index = gl_head
    BY DEF Clock, Inputs
<1>19. \A v \in FL!Ckpt : Dist(vt, v, NC) < ck => read <= b[v]
  <2> SUFFICES ASSUME NEW v \in FL!Ckpt, Dist(vt, v, NC) < ck PROVE read <= b[v]
      OBVIOUS
  <2>1. b[v] \in Int /\ Guarded(b[v])
      BY <1>17
  <2>2. Retire(done, memex) < b[v]
      BY <1>4, <1>18, <2>1, GuardStays
  <2> QED BY <1>2, <1>4, <2>1, <2>2
<1>20. Advanced(c, b, n, vh, num, head, map, read, d, take, new, one, cur, b2, num2, head2, map2)
  <2>1. y = c[read]
      BY <1>4, <1>6
  <2>2. one = (IF new = 1 THEN One(d) ELSE 0) /\ cur = {vh, Trunc(vh + take, NC)}
      BY <1>6, <1>13, <1>15
  <2>3. /\ \A v \in FL!Ckpt : num2[v] = IF v \in cur THEN Trunc(num[vh] + c[read] - one, 2 * N)
                                       ELSE Trunc(num[v] + c[read], 2 * N)
        /\ \A v \in FL!Ckpt : head2[v] = IF v \in cur THEN Trunc(head[vh] + one, N) ELSE head[v]
      BY <1>11, <1>15, <1>16, <2>1
  <2>4. \A r \in Reg, v \in FL!Ckpt :
          map2[r][v] = IF v \in cur THEN (IF new = 1 /\ r # 0 /\ d.rd = r THEN d.prd ELSE map[r][vh])
                       ELSE map[r][v]
      BY <1>14, <1>15, <1>16
  <2> QED BY <1>16, <2>2, <2>3, <2>4, Zenon DEF Advanced
<1>21. Marks(ShiftC(c, read, n, d), ShiftM(m, read, n, d), b2, n - read + new, Trunc(t + c[read], N),
             Trunc(vt + del, NC), ck + take - del, Trunc(vh + take, NC), num2, head2, map2)
  <2>1. /\ n \in Place /\ t \in 0 .. N - 1 /\ vt \in FL!Ckpt /\ ck \in Nat /\ read \in 0 .. n
        /\ del \in {0, 1} /\ take \in {0, 1} /\ new \in {0, 1} /\ del <= ck
        /\ (take = 1 => ck < NC - 1 /\ new = 1) /\ (new = 1 => n < N /\ c[n] < N)
    <3>1. n \in Place /\ t \in 0 .. N - 1 /\ vt \in FL!Ckpt /\ ck \in Nat
        BY <1>8, <1>15
    <3>2. read \in 0 .. n
        BY <1>4, <1>5, <1>15
    <3> QED BY <1>4, <1>9, <1>11, <1>13, <1>15, <3>1, <3>2
  <2> QED BY <1>17, <1>19, <1>20, <2>1, MarksAdvance
<1>22. Marks(ShiftC(c, read, last, d), ShiftM(m, read, last, d), b2, Size, fl_tail, fl_vt, fl_ck, fl_vh,
             fl_num, fl_head, rt_map)'
  <2>1. /\ last = n /\ Size' = n - read + new /\ fl_tail' = Trunc(t + c[read], N)
        /\ fl_vt' = Trunc(vt + del, NC) /\ fl_ck' = ck + take - del /\ fl_vh' = Trunc(vh + take, NC)
      BY <1>4, <1>5, <1>11, <1>15
  <2> QED BY <1>16, <1>21, <2>1, Zenon
<1>23. /\ Branches(b2)'
       /\ take = 1 => rr' # None /\ rr'.ck /\ gl_num' + 1 = Size - read + new
  <2>1. b2 = [v \in FL!Ckpt |-> IF v \in cur THEN Size - read + new ELSE b[v] - read]
      BY <1>15, <1>16
  <2>2. del = delete_checkpoint /\ take = (IF do_checkpoint(iq, busy) THEN 1 ELSE 0)
      BY <1>6
  <2> QED BY <1>1, <1>2, <1>3, <1>4, <1>12, <2>1, <2>2, BranchesAfter
<1>24. ASSUME NEW v \in FL!Ckpt, Dist(fl_vt', v, NC) < fl_ck' PROVE Guarded(b2[v])'
  <2>1. CASE v \in cur
    <3>1. v = fl_vh /\ take = 1
        BY <1>12, <1>24, <2>1, VersionStays
    <3>2. b2[v] = gl_num' + 1
        BY <1>15, <1>16, <1>23, <2>1, <3>1
    <3>3. rr' # None /\ rr'.ck /\ gl_num' + 1 = b2[v]
        BY <1>23, <3>1, <3>2
    <3> QED BY <3>3 DEF Guarded
  <2>2. CASE v \notin cur
    <3>1. Dist(vt, v, NC) < ck /\ Dist(vt, v, NC) >= del
        BY <1>12, <1>15, <1>24, <2>2, VersionStays
    <3>2. Guarded(b[v]) /\ b[v] \in Int
        BY <1>17, <3>1
    <3>3. FailedBefore(b[v]) \/ \A w \in wb : w.ck => Age(w.index) + 1 # b[v]
      <4> SUFFICES ASSUME NEW w \in wb, w.ck, Age(w.index) + 1 = b[v] PROVE FailedBefore(b[v])
          OBVIOUS
      <4>1. del = 1
        <5>1. w.ok
            BY DEF mis, Mispredicted
        <5> QED BY <1>6, <5>1 DEF delete_checkpoint
      <4>2. vt \in FL!Ckpt /\ Dist(vt, vt, NC) = 0 /\ Dist(vt, v, NC) \in Int /\ 0 < ck
          BY <1>8, <1>9, <1>15, <4>1 DEF Dist, Trunc
      <4>3. Dist(vt, vt, NC) < Dist(vt, v, NC)
          BY <3>1, <4>1, <4>2
      <4>4. b[vt] < b[v] /\ b[vt] \in Int /\ Guarded(b[vt])
          BY <1>17, <3>1, <4>2, <4>3
      <4>5. Age(w.index) \in Int
        <5>1. w.index \in Index
            BY DEF Pipe, Owners, Owns
        <5>2. Age(w.index) \in 0 .. N - 1
            BY <5>1, Places DEF Age, Types, TypeOK
        <5> QED BY <5>2, Sizes
      <4>6. b[vt] <= Age(w.index)
          BY <3>2, <4>4, <4>5
      <4>7. FailedBefore(b[vt])
          BY <1>3, <4>4, <4>6, OlderGuard
      <4>8. PICK i \in Index : Live(i) /\ gl_entries[i].ex /\ Age(i) < b[vt]
          BY <4>7 DEF FailedBefore
      <4>9. Age(i) \in 0 .. N - 1
          BY <4>8, Places DEF Age, Types, TypeOK
      <4>10. Age(i) < b[v]
          BY <3>2, <4>4, <4>8, <4>9
      <4> QED BY <4>8, <4>10 DEF FailedBefore
    <3>4. Guarded(b[v] - read)'
        BY <1>2, <1>3, <1>4, <3>2, <3>3, GuardKept
    <3>5. b2[v] = b[v] - read
        BY <1>16, <2>2
    <3> QED BY <3>4, <3>5 DEF Guarded
  <2> QED BY <2>1, <2>2
<1>25. Renaming(ShiftC(c, read, last, d), ShiftM(m, read, last, d), b2)'
  <2>1. Versions(ShiftC(c, read, last, d), ShiftM(m, read, last, d), b2)'
      BY <1>22, <1>24 DEF Versions, VAge, NC, FL!Ckpt
  <2> QED BY <1>4, <1>23, <2>1, Zenon DEF Renaming
<1> QED BY <1>4, <1>25
-----------------------------------------------------------------------------
(* Nothing in flight: after reset, and after an exception.                   *)

Fresh ==
    /\ gl_num = 0 /\ rr = None /\ exe = None /\ wb = {}
    /\ fl_ck = 0 /\ fl_vh = 0 /\ fl_vt = 0 /\ fl_tail \in 0 .. N - 1
    /\ fl_num[0] = N /\ fl_head[0] = fl_tail
    /\ \A r \in Reg : rt_map[r][0] = rt_commit[r]

LEMMA FreshRenames == Fresh => \E c, m, b : Renaming(c, m, b)
<1> SUFFICES ASSUME Fresh PROVE \E c, m, b : Renaming(c, m, b)
    OBVIOUS
<1> DEFINE c == [k \in Place |-> 0]
           m == [k \in Place |-> rt_commit]
           b == [v \in FL!Ckpt |-> 0]
<1>1. /\ N \in Nat /\ NC \in Nat /\ NC >= 2 /\ FL!Ckpt = 0 .. NC - 1 /\ 0 \in Place /\ 0 \in FL!Ckpt
      /\ \A k \in 0 .. 0 : k = 0
    BY Sizes DEF NC, Place
<1>2. /\ c \in [Place -> Int] /\ c[0] = 0 /\ m[0] = rt_commit /\ b \in [FL!Ckpt -> Int]
      /\ \A v \in FL!Ckpt : b[v] = 0
    BY <1>1
<1> HIDE DEF c, m, b
<1>3. Size = 0
    BY DEF Size, Fresh
<1>4. Order(c, m)
  <2>1. \A k \in 0 .. 0 - 1 : FALSE
      OBVIOUS
  <2>2. Chain(c, m, Items, 0, fl_tail, fl_ring, rt_commit)
      BY <1>1, <1>2, <2>1 DEF Chain
  <2> QED BY <1>3, <2>2 DEF Order
<1>5. Marks(c, m, b, 0, fl_tail, 0, 0, 0, fl_num, fl_head, rt_map)
  <2>1. Trunc(0 + 0, NC) = 0 /\ Trunc(fl_tail + 0, N) = fl_tail
      BY <1>1 DEF Trunc, Fresh
  <2>2. \A v \in FL!Ckpt : Dist(0, v, NC) \in Nat /\ (Dist(0, v, NC) <= 0 => v = 0)
      BY <1>1 DEF Dist, Trunc
  <2>3. N - 0 = N
      BY <1>1
  <2>4. ASSUME NEW v \in FL!Ckpt, Dist(0, v, NC) <= 0
        PROVE  /\ b[v] \in 0 .. 0 /\ fl_num[v] = N - c[b[v]] /\ fl_head[v] = Trunc(fl_tail + c[b[v]], N)
               /\ \A r \in Reg : rt_map[r][v] = m[b[v]][r]
      BY <1>1, <1>2, <2>1, <2>2, <2>3, <2>4 DEF Fresh
  <2>5. \A u, v \in FL!Ckpt : ~(Dist(0, u, NC) < Dist(0, v, NC) /\ Dist(0, v, NC) < 0)
      BY <2>2
  <2> QED BY <1>1, <1>2, <2>1, <2>4, <2>5 DEF Marks
<1>6. Versions(c, m, b)
  <2>1. \A v \in FL!Ckpt : ~(VAge(v) < fl_ck)
      BY <1>1 DEF Fresh, VAge, Dist, Trunc
  <2>2. fl_vt = 0 /\ fl_ck = 0 /\ fl_vh = 0
      BY DEF Fresh
  <2> QED BY <1>3, <1>5, <2>1, <2>2 DEF Versions
<1>7. Branches(b)
    BY DEF Branches, Fresh
<1> QED BY <1>4, <1>6, <1>7 DEF Renaming

LEMMA InitNInv == Init => NInv
<1> SUFFICES ASSUME Init PROVE NInv
    OBVIOUS
<1>1. /\ gl_num = 0 /\ rr = None /\ exe = None /\ wb = {}
      /\ fl_ck = 0 /\ fl_vh = 0 /\ fl_vt = 0 /\ fl_tail = 0
      /\ fl_num = [v \in FL!Ckpt |-> NUM_ENTRIES] /\ fl_head = [v \in FL!Ckpt |-> 0]
      /\ fl_ring = [i \in FL!Entry |-> NUM_ISA_REGISTERS + i]
      /\ rt_map = [r \in Reg |-> [v \in FL!Ckpt |-> r]] /\ rt_commit = [r \in Reg |-> r]
    BY Sizes, Zenon DEF Init, FL!Init, RT!Init, GL!GlInit
<1>2. 0 \in FL!Ckpt /\ 0 \in 0 .. N - 1 /\ 0 \in Reg
    BY Sizes
<1>3. Fresh
    BY <1>1, <1>2 DEF Fresh, N
<1>4. Conserved(fl_ring, rt_commit)
  <2>1. /\ \A i \in FL!Entry : NUM_ISA_REGISTERS + i \in FL!Phys /\ NUM_ISA_REGISTERS + i # 0
        /\ \A r \in Reg : r \in FL!Phys
      BY Sizes
  <2>2. ASSUME NEW p \in FL!Phys PROVE (\E i \in FL!Entry : fl_ring[i] = p) \/ (\E r \in Reg : rt_commit[r] = p)
    <3>1. CASE p < NUM_ISA_REGISTERS
      <4>1. p \in Reg
          BY <3>1, Sizes
      <4> QED BY <1>1, <4>1
    <3>2. CASE p >= NUM_ISA_REGISTERS
      <4>1. p - NUM_ISA_REGISTERS \in FL!Entry /\ NUM_ISA_REGISTERS + (p - NUM_ISA_REGISTERS) = p
          BY <3>2, Sizes
      <4>2. fl_ring[p - NUM_ISA_REGISTERS] = p
          BY <1>1, <4>1
      <4> QED BY <4>1, <4>2
    <3> QED BY <3>1, <3>2, Sizes
  <2>3. Distinct(fl_ring, rt_commit)
    <3>1. /\ \A i, j \in FL!Entry : NUM_ISA_REGISTERS + i = NUM_ISA_REGISTERS + j => i = j
          /\ \A i \in FL!Entry, r \in Reg : NUM_ISA_REGISTERS + i # r
        BY Sizes
    <3> QED BY <1>1, <3>1 DEF Distinct
  <2> QED BY <1>1, <1>2, <2>1, <2>2, <2>3 DEF Conserved
<1> QED BY <1>3, <1>4, FreshRenames DEF NInv

\* The cycle of the roll-back leaves nothing in flight.
LEMMA FreshAfter ==
    ASSUME Types, Types', xq, Conserved(fl_ring, rt_commit),
           NEW iq, NEW busy, NEW rrex, NEW ok, NEW brex, NEW fin, NEW memex, NEW done, NEW csrx,
           Clock(iq, busy, rrex, ok, brex, fin, memex, done, csrx)
    PROVE  Conserved(fl_ring', rt_commit') /\ Fresh'
<1>1. FL!RollBack /\ RT!RecoverCommit
    BY Zenon DEF Clock, Cycle, Rename
<1>2. wb' = {} /\ exe' = None
    BY StagesAfter
<1>3. rr' = None
    BY Zenon DEF Clock, Cycle, NextRR, flush_ir
<1>4. gl_num' = 0
    BY ListAfter
<1>5. fl_ring' = fl_ring /\ rt_commit' = rt_commit /\ fl_tail' = fl_tail
      /\ fl_ck' = 0 /\ fl_vh' = 0 /\ fl_vt' = 0
      /\ fl_num' = [fl_num EXCEPT ![0] = N] /\ fl_head' = [fl_head EXCEPT ![0] = fl_tail]
      /\ rt_map' = [r \in Reg |-> [rt_map[r] EXCEPT ![0] = rt_commit[r]]]
  <2>1. RT!Isa = Reg
      BY DEF RT!Isa, Reg
  <2> QED BY <1>1, <2>1, Zenon DEF FL!RollBack, RT!RecoverCommit, N
<1>6. /\ fl_tail \in 0 .. N - 1 /\ 0 \in FL!Ckpt
      /\ fl_num \in [FL!Ckpt -> 0 .. 2 * NUM_ENTRIES - 1] /\ fl_head \in [FL!Ckpt -> FL!Entry]
      /\ rt_map \in [Reg -> [FL!Ckpt -> FL!Phys]]
  <2>1. fl_tail \in FL!Entry /\ FL!Entry = 0 .. N - 1 /\ 0 \in FL!Ckpt
      BY Sizes DEF Types, TypeOK, FL!TypeOK
  <2> QED BY <2>1, Zenon DEF Types, TypeOK, FL!TypeOK
<1>7. fl_num'[0] = N /\ fl_head'[0] = fl_tail /\ \A r \in Reg : rt_map'[r][0] = rt_commit[r]
    BY <1>5, <1>6
<1>8. Fresh'
    BY <1>2, <1>3, <1>4, <1>5, <1>6, <1>7 DEF Fresh, N
<1> QED BY <1>5, <1>8

\* The cycle that takes an exception frees and commits nothing.
LEMMA TrapKeeps ==
    ASSUME Types, ~xq, xq', Conserved(fl_ring, rt_commit), NEW c, NEW m, Order(c, m),
           NEW iq, NEW busy, NEW rrex, NEW ok, NEW brex, NEW fin, NEW memex, NEW done, NEW csrx,
           Clock(iq, busy, rrex, ok, brex, fin, memex, done, csrx)
    PROVE  Conserved(fl_ring', rt_commit')
<1>1. PICK f0, f1, k0, k1 :
          /\ f0 = Freed(1, done, memex, csrx) /\ f1 = Freed(2, done, memex, csrx)
          /\ k0 = Committed(1, done, memex, csrx) /\ k1 = Committed(2, done, memex, csrx)
    OBVIOUS
<1>2. exception_enable_d(memex, csrx) /\ FL!WriteFreed(f0, f1) /\ RT!Commit(k0, k1)
    BY <1>1, RenameStep
<1>3. Ports(0, f0, f1, k0, k1)
    BY <1>1, <1>2, PortsOf
<1>4. 0 \in 0 .. 2 /\ 0 <= gl_num
    BY DEF Types, TypeOK
<1> QED BY <1>2, <1>3, <1>4, CommitAfter

LEMMA NInvStutters ==
    ASSUME NInv, UNCHANGED vars
    PROVE  NInv'
<1>1. UNCHANGED <<fl_head, fl_tail, fl_num, fl_ring, fl_vh, fl_vt, fl_ck, rt_map, rt_ready, rt_commit,
                  rt_vh, rt_vt, rt_ck, gl_head, gl_tail, gl_num, gl_valid, gl_entries, gl_ex,
                  rr, exe, units, wb, xq, cq, fence>>
    BY DEF vars, flVars, rtVars, glVars
<1>2. Conserved(fl_ring', rt_commit')
    BY <1>1 DEF NInv
<1>3. ASSUME ~xq' PROVE (\E c, m, b : Renaming(c, m, b))'
  <2>1. PICK c, m, b : Renaming(c, m, b)
      BY <1>1, <1>3 DEF NInv
  <2>2. Items' = Items /\ Size' = Size
      BY <1>1, Zenon DEF Items, Item, Size, Taken
  <2>3. Order(c, m)'
      BY <1>1, <2>1, <2>2, Zenon DEF Renaming, Order
  <2>4. Versions(c, m, b)'
      BY <1>1, <2>1, <2>2, Zenon DEF Renaming, Versions, Guarded, VAge, Age, Live
  <2>5. Branches(b)'
      BY <1>1, <2>1, Zenon DEF Renaming, Branches, VAge, Age
  <2> QED BY <2>3, <2>4, <2>5, Zenon DEF Renaming
<1> QED BY <1>2, <1>3 DEF NInv

LEMMA NInvKept == BInv /\ NInv /\ [Next]_vars => NInv'
<1> SUFFICES ASSUME BInv, NInv, [Next]_vars PROVE NInv'
    OBVIOUS
<1>1. CASE UNCHANGED vars
    BY <1>1, NInvStutters
<1>2. CASE Next
  <2>1. PICK iq, busy, rrex, ok, brex, fin, memex, done, csrx :
           Clock(iq, busy, rrex, ok, brex, fin, memex, done, csrx)
      BY <1>2, NextIsClock
  <2>2. Types /\ Types' /\ Conserved(fl_ring, rt_commit)
      BY IInvKept DEF BInv, IInv, NInv
  <2>3. CASE xq
    <3>1. Conserved(fl_ring', rt_commit') /\ Fresh'
        BY <2>1, <2>2, <2>3, FreshAfter
    <3>2. (\E c, m, b : Renaming(c, m, b))'
        BY <3>1, FreshRenames, PTL
    <3> QED BY <3>1, <3>2 DEF NInv
  <2>4. CASE ~xq
    <3>1. Pipe /\ Record /\ Fenced
        BY <2>4 DEF BInv, IInv, RInv, FInv
    <3>2. PICK c, m, b : Renaming(c, m, b)
        BY <2>4 DEF NInv
    <3>3. CASE xq'
      <4>1. Order(c, m)
          BY <3>2 DEF Renaming
      <4>2. Conserved(fl_ring', rt_commit')
          BY <2>1, <2>2, <2>4, <3>3, <4>1, TrapKeeps
      <4> QED BY <3>3, <4>2 DEF NInv
    <3>4. CASE ~xq'
      <4>1. Conserved(fl_ring', rt_commit') /\ (\E x, y, z : Renaming(x, y, z))'
        <5>1. CASE mis
            BY <2>1, <2>2, <2>4, <3>1, <3>2, <3>4, <5>1, RecoverKept
        <5>2. CASE ~mis
            BY <2>1, <2>2, <2>4, <3>1, <3>2, <3>4, <5>2, AdvanceKept
        <5> QED BY <5>1, <5>2
      <4> QED BY <4>1 DEF NInv
    <3> QED BY <3>3, <3>4
  <2> QED BY <2>3, <2>4
<1> QED BY <1>1, <1>2

LEMMA BInvKept == (Init => BInv) /\ (BInv /\ [Next]_vars => BInv')
BY InitIInv, IInvKept, InitRInv, RInvKept, InitFInv, FInvKept DEF BInv
-----------------------------------------------------------------------------
(* The chain and the definitions of the properties.                          *)

LEMMA InFlightIs ==
    ASSUME Types
    PROVE  Len(InFlight) = Size /\ Size \in Place /\ \A j \in 1 .. Size : InFlight[j] = Items[j - 1]
<1> DEFINE old == [n \in 1 .. gl_num |-> gl_entries[GL!GlPtr(gl_head + n - 1)].data]
           new == IF rr = None THEN <<>> ELSE <<Taken>>
<1>1. gl_num \in Nat /\ gl_num \in 0 .. N - 1 /\ gl_head \in 0 .. N - 1 /\ N \in Nat
    BY Sizes DEF Types, TypeOK, N
<1>2. InFlight = old \o new
    BY Zenon DEF InFlight, Taken
<1>3. \A k \in 0 .. gl_num - 1 : Item(k) = old[k + 1] /\ k + 1 \in 1 .. gl_num
  <2> SUFFICES ASSUME NEW k \in 0 .. gl_num - 1 PROVE Item(k) = old[k + 1] /\ k + 1 \in 1 .. gl_num
      OBVIOUS
  <2>1. k < gl_num /\ k + 1 \in 1 .. gl_num /\ gl_head + (k + 1) - 1 = gl_head + k
      BY <1>1
  <2>2. GL!GlPtr(gl_head + (k + 1) - 1) = Trunc(gl_head + k, N)
      BY <2>1, SameWrap, Zenon DEF GL!GlPtr, N
  <2> QED BY <2>1, <2>2 DEF Item
<1>4. PICK S : old \in Seq(S) /\ Len(old) = gl_num /\ Taken \in S
  <2>1. \A S : \A n \in Nat : \A f \in [1 .. n -> S] : f \in Seq(S) /\ Len(f) = n
      OBVIOUS
  <2>2. PICK S : S = {old[j] : j \in 1 .. gl_num} \cup {Taken}
      OBVIOUS
  <2>3. old \in [1 .. gl_num -> S] /\ Taken \in S
      BY <2>2
  <2> HIDE DEF old
  <2>4. old \in Seq(S) /\ Len(old) = gl_num
      BY <1>1, <2>1, <2>3, Zenon
  <2> QED BY <2>3, <2>4, Zenon
<1>5. new \in Seq(S) /\ Len(new) = IF rr = None THEN 0 ELSE 1
  <2>1. CASE rr = None
      BY <2>1
  <2>2. CASE rr # None
    <3>1. PICK x \in S : x = Taken
        BY <1>4
    <3>2. <<x>> \in Seq(S) /\ Len(<<x>>) = 1
        OBVIOUS
    <3> QED BY <2>2, <3>1, <3>2
  <2> QED BY <2>1, <2>2
<1>6. Size \in Place /\ \A k \in Place : Items[k] = Item(k)
    BY Heads
<1>7. rr # None => new[1] = Taken
    OBVIOUS
<1> HIDE DEF old, new
<1>9. /\ Len(InFlight) = Len(old) + Len(new)
      /\ \A j \in 1 .. Len(old) + Len(new) : InFlight[j] = IF j <= Len(old) THEN old[j] ELSE new[j - Len(old)]
    BY <1>2, <1>4, <1>5
<1>10. Len(InFlight) = Size
    BY <1>4, <1>5, <1>9 DEF Size
<1>11. ASSUME NEW j \in 1 .. Size PROVE InFlight[j] = Items[j - 1]
  <2>1. j - 1 \in Place /\ j \in 1 .. Len(old) + Len(new) /\ Size \in Nat
      BY <1>1, <1>6, <1>9, <1>10, Sizes DEF Place
  <2>2. CASE j <= gl_num
    <3>1. j - 1 \in 0 .. gl_num - 1 /\ j - 1 + 1 = j
        BY <1>1, <2>1, <2>2
    <3>2. Item(j - 1) = old[j]
        BY <1>3, <3>1
    <3> QED BY <1>4, <1>6, <1>9, <2>1, <2>2, <3>2
  <2>3. CASE ~(j <= gl_num)
    <3>1. rr # None /\ j = gl_num + 1
        BY <1>1, <2>1, <2>3 DEF Size
    <3>2. j - Len(old) = 1 /\ ~(j - 1 < gl_num)
        BY <1>1, <1>4, <3>1
    <3>3. InFlight[j] = new[1]
        BY <1>4, <1>9, <2>1, <2>3, <3>2
    <3> QED BY <1>6, <1>7, <2>1, <3>1, <3>2, <3>3 DEF Item
  <2> QED BY <2>2, <2>3
<1> QED BY <1>6, <1>10, <1>11

\* A set of places has a first and a last.
LEMMA FirstPlace ==
    ASSUME NEW T, T \subseteq Nat, T # {}
    PROVE  \E j \in T : \A k \in T : j <= k
<1> DEFINE R == {ss \in Nat \X Nat : ss[1] < ss[2]}
<1>1. IsWellFoundedOn(R, Nat)
    BY NatLessThanWellFounded, Zenon DEF OpToRel
<1>2. PICK j \in T : \A k \in T : <<k, j>> \notin R
    BY <1>1, WFMin, Zenon
<1>3. ASSUME NEW k \in T PROVE j <= k
  <2>1. k \in Nat /\ j \in Nat
      OBVIOUS
  <2>2. k < j => <<k, j>> \in R
      BY <2>1
  <2> QED BY <1>2, <2>1, <2>2
<1> QED BY <1>3

LEMMA LastPlace ==
    ASSUME NEW n, n \in Nat, NEW T, T \subseteq 1 .. n, T # {}
    PROVE  \E j \in T : \A k \in T : k <= j
<1> DEFINE U == {n - j : j \in T}
<1>1. U \subseteq Nat /\ U # {}
  <2>1. \A j \in T : n - j \in Nat
      OBVIOUS
  <2> QED BY <2>1
<1>2. PICK u \in U : \A k \in U : u <= k
    BY <1>1, FirstPlace, Zenon
<1>3. PICK j \in T : u = n - j
    OBVIOUS
<1>4. ASSUME NEW k \in T PROVE k <= j
  <2>1. u <= n - k
      BY <1>2
  <2> QED BY <1>3, <2>1
<1> QED BY <1>4

\* The map behind the first n is the one of in-order execution.
LEMMA MapIs ==
    ASSUME Types, NEW c, NEW m, Order(c, m), NEW n, n \in 0 .. Size, NEW r, r \in Reg
    PROVE  MapAfter(n)[r] = m[n][r]
<1> DEFINE writers == {j \in 1 .. n : InFlight[j].rd = r /\ r # 0}
<1>1. MapAfter(n)[r] = IF writers = {} THEN rt_commit[r]
                       ELSE InFlight[CHOOSE j \in writers : \A k \in writers : k <= j].prd
    BY DEF MapAfter
<1>2. Size \in Nat /\ n \in Nat /\ \A j \in 1 .. Size : InFlight[j] = Items[j - 1]
    BY InFlightIs, Sizes DEF Place
<1>3. Chain(c, m, Items, Size, fl_tail, fl_ring, rt_commit)
    BY DEF Order
<1>4. \A j \in 1 .. n : j \in 1 .. Size /\ j - 1 \in 0 .. Size - 1 /\ (j - 1) + 1 = j
    BY <1>2
<1>5. CASE writers = {}
  <2>1. ASSUME NEW k \in 0 .. n - 1, r # 0 PROVE Items[k].rd # r
    <3>1. k + 1 \in 1 .. n /\ (k + 1) - 1 = k
        BY <1>2
    <3>2. InFlight[k + 1] = Items[k]
        BY <1>2, <1>4, <3>1
    <3> QED BY <1>5, <2>1, <3>1, <3>2
  <2>2. 0 \in 0 .. Size /\ 0 <= n
      BY <1>2
  <2>3. m[n][r] = m[0][r]
      BY <1>3, <2>1, <2>2 DEF Chain
  <2> QED BY <1>1, <1>3, <1>5, <2>3 DEF Chain
<1>6. CASE writers # {}
  <2>1. \E j \in writers : \A k \in writers : k <= j
      BY <1>2, <1>6, LastPlace
  <2>2. PICK j : /\ j = CHOOSE i \in writers : \A k \in writers : k <= i
                 /\ j \in writers /\ \A k \in writers : k <= j
      BY <2>1
  <2>3. MapAfter(n)[r] = InFlight[j].prd
      BY <1>1, <1>6, <2>2
  <2>4. j \in 1 .. n /\ InFlight[j].rd = r /\ r # 0 /\ \A k \in 1 .. n : InFlight[k].rd = r => k <= j
      BY <2>2
  <2> HIDE DEF writers
  <2>5. InFlight[j] = Items[j - 1] /\ j - 1 \in 0 .. Size - 1 /\ (j - 1) + 1 = j /\ j \in Nat
      BY <1>2, <1>4, <2>4
  <2>6. m[j][r] = Items[j - 1].prd
      BY <1>3, <2>4, <2>5 DEF Chain
  <2>7. ASSUME NEW k \in j .. n - 1 PROVE Items[k].rd # r
    <3>1. k + 1 \in 1 .. n /\ (k + 1) - 1 = k /\ ~(k + 1 <= j)
        BY <1>2, <2>5
    <3>2. InFlight[k + 1] = Items[k]
        BY <1>2, <1>4, <3>1
    <3> QED BY <2>4, <3>1, <3>2
  <2>8. j \in 0 .. Size /\ j <= n
      BY <1>2, <2>4
  <2>9. m[n][r] = m[j][r]
      BY <1>3, <2>7, <2>8 DEF Chain
  <2> QED BY <2>3, <2>5, <2>6, <2>9
<1> QED BY <1>5, <1>6

\* So many registers were given to the first n.
LEMMA GivenIs ==
    ASSUME Types, NEW c, NEW m, Order(c, m)
    PROVE  \A n \in 0 .. Size : Given(n) = c[n]
<1> DEFINE with(n) == {j \in 1 .. n : InFlight[j].rd # 0}
           T == {n \in 0 .. Size : Given(n) # c[n]}
<1>1. Size \in Nat /\ \A j \in 1 .. Size : InFlight[j] = Items[j - 1]
    BY InFlightIs, Sizes DEF Place
<1>2. Chain(c, m, Items, Size, fl_tail, fl_ring, rt_commit)
    BY DEF Order
<1>3. \A n : Given(n) = Cardinality(with(n))
    BY DEF Given
<1>4. Given(0) = c[0]
  <2>1. with(0) = {}
      OBVIOUS
  <2>2. Given(0) = 0
      BY <1>3, <2>1, FS_EmptySet, Zenon
  <2> QED BY <1>2, <2>2 DEF Chain
<1>5. ASSUME NEW n \in 0 .. Size - 1, Given(n) = c[n] PROVE Given(n + 1) = c[n + 1]
  <2>1. n \in Nat /\ n + 1 \in 1 .. Size /\ (n + 1) - 1 = n
      BY <1>1
  <2>2. InFlight[n + 1] = Items[n] /\ c[n + 1] = c[n] + One(Items[n])
      BY <1>1, <1>2, <1>5, <2>1 DEF Chain
  <2>3. IsFiniteSet(with(n)) /\ Cardinality(with(n)) \in Nat
    <3>1. 1 \in Int /\ n \in Int /\ with(n) \in SUBSET (1 .. n)
        BY <2>1
    <3>2. IsFiniteSet(1 .. n)
        BY <3>1, FS_Interval
    <3> HIDE DEF with
    <3>3. IsFiniteSet(with(n))
        BY <3>1, <3>2, FS_Subset
    <3> QED BY <3>3, FS_CardinalityType
  <2>4. n + 1 \notin with(n)
      BY <2>1
  <2>5. CASE Items[n].rd = 0
    <3>1. with(n + 1) = with(n)
        BY <2>1, <2>2, <2>5
    <3> HIDE DEF with
    <3>2. Given(n + 1) = Given(n) + 0
        BY <1>3, <2>3, <3>1
    <3> QED BY <1>5, <2>2, <2>5, <3>2 DEF One
  <2>6. CASE Items[n].rd # 0
    <3>1. with(n + 1) = with(n) \cup {n + 1}
        BY <2>1, <2>2, <2>6
    <3> HIDE DEF with
    <3>2. Cardinality(with(n) \cup {n + 1}) = Cardinality(with(n)) + 1
        BY <2>3, <2>4, FS_AddElement, Zenon
    <3>3. Given(n + 1) = Given(n) + 1
        BY <1>3, <3>1, <3>2
    <3> QED BY <1>5, <2>2, <2>6, <3>3 DEF One
  <2> QED BY <2>5, <2>6
<1>6. T = {}
  <2> SUFFICES ASSUME T # {} PROVE FALSE
      OBVIOUS
  <2>1. T \subseteq Nat
      BY <1>1
  <2>2. PICK n \in T : \A k \in T : n <= k
      BY <2>1, FirstPlace, Zenon
  <2>3. n \in 0 .. Size /\ n # 0 /\ Given(n) # c[n]
      BY <1>4, <2>2
  <2>4. n - 1 \in 0 .. Size - 1 /\ n - 1 \in 0 .. Size /\ ~(n <= n - 1) /\ (n - 1) + 1 = n
      BY <1>1, <2>3
  <2>5. Given(n - 1) = c[n - 1]
      BY <2>2, <2>4
  <2>6. Given((n - 1) + 1) = c[(n - 1) + 1]
      BY <1>5, <2>4, <2>5
  <2> QED BY <2>3, <2>4, <2>6
<1> QED BY <1>6
-----------------------------------------------------------------------------
(* The theorems.                                                             *)

LEMMA Invariant == Spec => [](BInv /\ NInv)
BY BInvKept, InitNInv, NInvKept, PTL DEF Spec

\* Whatever was renamed, committed, recovered and rolled back, the free list and
\* the committed map together hold every physical register.
THEOREM RegistersNeverLost == Spec => []RegistersConserved
<1>1. BInv /\ NInv => RegistersConserved
  <2> SUFFICES ASSUME Conserved(fl_ring, rt_commit) PROVE RegistersConserved
      BY DEF NInv
  <2> QED BY DEF RegistersConserved, Conserved
<1> QED BY <1>1, Invariant, PTL

\* A free list without a free register means a full graduation list.
THEOREM ListFullBeforeEmpty == Spec => []FullBeforeEmpty
<1>1. BInv /\ NInv => FullBeforeEmpty
  <2> SUFFICES ASSUME Types, ~xq, fl_num[fl_vh] = 0, NInv PROVE GL!Full
      BY DEF BInv, IInv, FullBeforeEmpty
  <2>1. PICK c, m, b : Renaming(c, m, b)
      BY DEF NInv
  <2>2. c[Size] \in 0 .. Size /\ fl_num[fl_vh] = N - c[Size]
      BY <2>1, CurrentVersion DEF Renaming
  <2>3. gl_num \in 0 .. N - 1 /\ N \in Nat /\ Size <= gl_num + 1 /\ Size \in Int
      BY Sizes DEF Types, TypeOK, Size, N
  <2>4. gl_num = N - 1
      BY <2>2, <2>3
  <2> QED BY <2>4 DEF GL!Full, N
<1> QED BY <1>1, Invariant, PTL

\* The map is that of in-order execution, and every instruction frees at commit
\* the register that its destination had before it.
THEOREM RenamingExact == Spec => []RenameExact
<1>1. BInv /\ NInv => RenameExact
  <2> SUFFICES ASSUME Types, ~xq, NInv PROVE RenameExact
      BY DEF BInv, IInv, RenameExact
  <2>1. PICK c, m, b : Renaming(c, m, b)
      BY DEF NInv
  <2>2. Order(c, m) /\ Versions(c, m, b)
      BY <2>1 DEF Renaming
  <2>3. Len(InFlight) = Size /\ Size \in Nat /\ \A j \in 1 .. Size : InFlight[j] = Items[j - 1]
      BY InFlightIs, Sizes DEF Place
  <2>4. rt_vh = fl_vh
      BY DEF Types, VersionsTogether
  <2>5. \A r \in Reg : RT!Mapping(r) = MapAfter(Len(InFlight))[r]
    <3> SUFFICES ASSUME NEW r \in Reg PROVE RT!Mapping(r) = MapAfter(Size)[r]
        BY <2>3
    <3>1. RT!Mapping(r) = m[Size][r]
        BY <2>2, <2>4, CurrentVersion DEF RT!Mapping
    <3>2. Size \in 0 .. Size
        BY <2>3
    <3>3. MapAfter(Size)[r] = m[Size][r]
        BY <2>2, <3>2, MapIs
    <3> QED BY <3>1, <3>3
  <2>6. ASSUME NEW n \in 1 .. Size PROVE InFlight[n].old = MapAfter(n - 1)[InFlight[n].rd]
    <3>1. n - 1 \in 0 .. Size - 1 /\ n - 1 \in 0 .. Size
        BY <2>3
    <3>2. Items[n - 1].rd \in Reg /\ Items[n - 1].old = m[n - 1][Items[n - 1].rd]
        BY <2>2, <3>1 DEF Order, Chain
    <3>3. MapAfter(n - 1)[Items[n - 1].rd] = m[n - 1][Items[n - 1].rd]
        BY <2>2, <3>1, <3>2, MapIs
    <3> QED BY <2>3, <3>2, <3>3
  <2> QED BY <2>3, <2>5, <2>6 DEF RenameExact
<1> QED BY <1>1, Invariant, PTL

\* The checkpoint of every unresolved branch is the state just behind it, and the
\* registers given out lie in the ring in program order.
THEOREM CheckpointsAreExact == Spec => []CheckpointsExact
<1>1. BInv /\ NInv => CheckpointsExact
  <2> SUFFICES ASSUME Types, ~xq, NInv, Pipe PROVE CheckpointsExact
      BY DEF BInv, IInv, CheckpointsExact
  <2>1. PICK c, m, b : Renaming(c, m, b)
      BY DEF NInv
  <2>2. Order(c, m) /\ Versions(c, m, b) /\ Branches(b)
      BY <2>1 DEF Renaming
  <2>3. Len(InFlight) = Size /\ Size \in Nat /\ \A j \in 1 .. Size : InFlight[j] = Items[j - 1]
      BY InFlightIs, Sizes DEF Place
  <2> DEFINE holds(v, n) == /\ FL!Live(v)
                            /\ \A r \in Reg : rt_map[r][v] = MapAfter(n)[r]
                            /\ NUM_ENTRIES - fl_num[v] = Given(n)
  <2>4. ASSUME NEW v \in FL!Ckpt, VAge(v) <= fl_ck PROVE holds(v, b[v])
    <3>1. /\ b[v] \in 0 .. Size /\ fl_num[v] = N - c[b[v]]
          /\ \A r \in Reg : rt_map[r][v] = m[b[v]][r]
        BY <2>2, <2>4 DEF Versions, Marks, VAge
    <3>2. FL!Live(v)
        BY <2>4, SameWrap, Zenon DEF FL!Live, FL!Age, VAge, NC
    <3>3. \A r \in Reg : MapAfter(b[v])[r] = m[b[v]][r]
        BY <2>2, <3>1, MapIs
    <3>4. Given(b[v]) = c[b[v]]
        BY <2>2, <3>1, GivenIs
    <3>5. c[b[v]] \in Int /\ N \in Int
      <4>1. Size \in Place /\ Chain(c, m, Items, Size, fl_tail, fl_ring, rt_commit)
          BY <2>2, Heads DEF Order
      <4> QED BY <3>1, <4>1, ChainBounds, Sizes
    <3>6. N - fl_num[v] = Given(b[v])
        BY <3>1, <3>4, <3>5
    <3> QED BY <3>1, <3>2, <3>3, <3>6 DEF N
  <2>5. holds(fl_vh, Size)
    <3>1. fl_vh \in FL!Ckpt /\ VAge(fl_vh) = fl_ck /\ b[fl_vh] = Size /\ fl_ck \in Int
        BY <2>2, CurrentVersion DEF Types, TypeOK, FL!TypeOK
    <3>2. VAge(fl_vh) <= fl_ck
        BY <3>1
    <3> QED BY <2>4, <3>1, <3>2
  <2> HIDE DEF holds
  <2>6. ASSUME NEW u \in Unresolved PROVE holds(u.chkp, u.at)
    <3>1. u.chkp \in FL!Ckpt /\ VAge(u.chkp) < fl_ck /\ b[u.chkp] = u.at
      <4>1. CASE u \in {[chkp |-> w.chkp, at |-> Position(w.index)] : w \in {w \in wb : w.ck}}
        <5>1. PICK w \in wb : w.ck /\ u.chkp = w.chkp /\ u.at = Position(w.index)
            BY <4>1
        <5>2. w.chkp \in FL!Ckpt
            BY DEF Types, TypeOK, Result
        <5>3. VAge(w.chkp) < fl_ck /\ b[w.chkp] = Age(w.index) + 1
            BY <2>2, <5>1 DEF Branches
        <5> QED BY <5>1, <5>2, <5>3 DEF Position, Age, N
      <4>2. CASE u \in {[chkp |-> i.chkp, at |-> IF i = rr THEN gl_num + 1 ELSE Position(i.index)] :
                          i \in {i \in {rr, exe} : i # None /\ i.kind = "BR" /\ i.ck}}
        <5>1. PICK i \in {rr, exe} : /\ i # None /\ i.ck /\ u.chkp = i.chkp
                                     /\ u.at = IF i = rr THEN gl_num + 1 ELSE Position(i.index)
            BY <4>2
        <5>2. i.chkp \in FL!Ckpt
            BY <5>1 DEF Types, TypeOK, Instr
        <5>3. CASE i = rr
          <6>1. VAge(rr.chkp) < fl_ck /\ b[rr.chkp] = gl_num + 1
              BY <2>2, <5>1, <5>3 DEF Branches
          <6> QED BY <5>1, <5>2, <5>3, <6>1
        <5>4. CASE i # rr
          <6>1. VAge(exe.chkp) < fl_ck /\ b[exe.chkp] = Age(exe.index) + 1
              BY <2>2, <5>1, <5>4 DEF Branches
          <6> QED BY <5>1, <5>2, <5>4, <6>1 DEF Position, Age, N
        <5> QED BY <5>3, <5>4
      <4> QED BY <4>1, <4>2, Zenon DEF Unresolved
    <3>2. VAge(u.chkp) <= fl_ck
      <4>1. fl_ck \in Int /\ fl_vt \in FL!Ckpt
          BY DEF Types, TypeOK, FL!TypeOK
      <4>2. fl_vt \in Int /\ u.chkp \in Int /\ NC \in Int
          BY <3>1, <4>1, Sizes DEF NC
      <4>3. VAge(u.chkp) \in Int
          BY <4>2 DEF VAge, Dist, Trunc
      <4> QED BY <3>1, <4>1, <4>3
    <3> QED BY <2>4, <3>1, <3>2
  <2>7. ASSUME NEW n \in 1 .. Size, InFlight[n].rd # 0
        PROVE  InFlight[n].prd = fl_ring[FL!Ptr(fl_tail + Given(n - 1))]
    <3>1. n - 1 \in 0 .. Size - 1 /\ n - 1 \in 0 .. Size
        BY <2>3
    <3>2. Items[n - 1].prd = fl_ring[Trunc(fl_tail + c[n - 1], N)]
        BY <2>2, <2>3, <2>7, <3>1 DEF Order, Chain
    <3>3. Given(n - 1) = c[n - 1]
        BY <2>2, <3>1, GivenIs
    <3>4. FL!Ptr(fl_tail + Given(n - 1)) = Trunc(fl_tail + c[n - 1], N)
        BY <3>3, SameWrap, Zenon DEF FL!Ptr, N
    <3> QED BY <2>3, <3>2, <3>4
  <2> QED BY <2>3, <2>5, <2>6, <2>7 DEF CheckpointsExact, holds
<1> QED BY <1>1, Invariant, PTL
-----------------------------------------------------------------------------
(* The protocol of the free list.                                            *)

\* No more registers come back than the oldest version has given out: what it
\* was taken behind has not left.
LEMMA ReturnsGiven ==
    ASSUME Types, Pipe, Record, ~xq, NEW c, NEW m, NEW b, Renaming(c, m, b), Conserved(fl_ring, rt_commit),
           NEW iq, NEW busy, NEW rrex, NEW ok, NEW brex, NEW fin, NEW memex, NEW done, NEW csrx,
           Clock(iq, busy, rrex, ok, brex, fin, memex, done, csrx),
           NEW f0, NEW f1, f0 = Freed(1, done, memex, csrx), f1 = Freed(2, done, memex, csrx)
    PROVE  FL!Writes(f0, f1) <= FL!Returnable
<1>1. PICK k0, k1, read :
          /\ k0 = Committed(1, done, memex, csrx) /\ k1 = Committed(2, done, memex, csrx)
          /\ read = IF exception_enable_d(memex, csrx) THEN 0 ELSE Retire(done, memex)
    OBVIOUS
<1>2. Order(c, m) /\ Versions(c, m, b)
    BY DEF Renaming
<1>3. Ports(read, f0, f1, k0, k1)
    BY <1>1, PortsOf
<1>4. FL!WriteFreed(f0, f1) /\ RT!Commit(k0, k1)
    BY <1>1, RenameStep
<1>5. read \in 0 .. 2 /\ read <= gl_num /\ gl_num \in Nat
  <2>1. gl_num \in Nat
      BY DEF Types, TypeOK
  <2>2. Retire(done, memex) \in 0 .. 2 /\ Retire(done, memex) <= gl_num
      BY RetiresFinished
  <2>3. CASE exception_enable_d(memex, csrx)
      BY <1>1, <2>1, <2>3
  <2>4. CASE ~exception_enable_d(memex, csrx)
      BY <1>1, <2>1, <2>2, <2>4
  <2> QED BY <2>3, <2>4
<1>6. FL!Writes(f0, f1) = c[read]
    BY <1>2, <1>3, <1>4, <1>5, CommitAfter
<1>7. fl_vt \in FL!Ckpt /\ fl_ck \in Nat /\ VAge(fl_vt) = 0
  <2>1. fl_vt \in FL!Ckpt /\ fl_ck \in 0 .. 2 * NUM_CHECKPOINTS - 1
      BY DEF Types, TypeOK, FL!TypeOK
  <2>2. fl_vt \in 0 .. NC - 1 /\ NC \in Nat
      BY <2>1, Sizes DEF NC
  <2>3. VAge(fl_vt) = 0
      BY <2>2 DEF VAge, Dist, Trunc
  <2> QED BY <2>1, <2>3
<1>8. b[fl_vt] \in 0 .. Size /\ fl_num[fl_vt] = N - c[b[fl_vt]]
  <2>1. VAge(fl_vt) <= fl_ck
      BY <1>7
  <2> QED BY <1>2, <1>7, <2>1 DEF Versions, Marks, VAge
<1>9. Size \in Nat /\ Size \in Place /\ gl_num <= Size
    BY Heads, Sizes DEF Place
<1>10. read <= b[fl_vt]
  <2>1. CASE read = 0
      BY <1>8, <1>9, <2>1
  <2>2. CASE read # 0 /\ fl_ck = 0
    <3>1. fl_vh = fl_vt
      <4>1. fl_vh = Trunc(fl_vt + 0, NC)
          BY <1>2, <2>2 DEF Versions, Marks
      <4>2. fl_vt \in 0 .. NC - 1 /\ NC \in Nat
          BY <1>7, Sizes DEF NC
      <4> QED BY <4>1, <4>2 DEF Trunc
    <3>2. b[fl_vt] = Size
        BY <1>2, <3>1 DEF Versions, Marks
    <3> QED BY <1>5, <1>9, <3>2
  <2>3. CASE read # 0 /\ fl_ck # 0
    <3>1. VAge(fl_vt) < fl_ck
        BY <1>7, <2>3
    <3>2. Guarded(b[fl_vt]) /\ b[fl_vt] \in Int
        BY <1>2, <1>7, <1>8, <3>1 DEF Versions
    <3>3. ~commit_xcpt(memex) /\ read = Retire(done, memex)
        BY <1>1, <2>3 DEF exception_enable_d
    <3>4. done => \E u \in units : u.index = gl_head
        BY DEF Clock, Inputs
    <3>5. Retire(done, memex) < b[fl_vt]
        BY <3>2, <3>3, <3>4, GuardStays
    <3> QED BY <1>5, <3>2, <3>3, <3>5
  <2> QED BY <2>1, <2>2, <2>3
<1>11. c[read] <= c[b[fl_vt]] /\ c[read] \in Int /\ c[b[fl_vt]] \in Int
  <2>1. read \in 0 .. Size
      BY <1>5, <1>9
  <2>2. read \in Place /\ b[fl_vt] \in Place
      BY <1>8, <1>9, <2>1, Sizes DEF Place
  <2> QED BY <1>2, <1>8, <1>10, <2>1, <2>2 DEF Order, Chain
<1>12. N - fl_num[fl_vt] = c[b[fl_vt]]
    BY <1>8, <1>11, Sizes
<1> QED BY <1>6, <1>11, <1>12 DEF FL!Returnable, N

LEMMA FreeListStep == BInv /\ NInv /\ [Next]_vars => [FL!Next]_(FL!vars)
<1> SUFFICES ASSUME BInv, NInv, [Next]_vars PROVE FL!Next \/ UNCHANGED FL!vars
    OBVIOUS
<1>1. CASE UNCHANGED vars
    BY <1>1 DEF vars, flVars, FL!vars
<1>2. CASE Next
  <2>1. PICK iq, busy, rrex, ok, brex, fin, memex, done, csrx :
           Clock(iq, busy, rrex, ok, brex, fin, memex, done, csrx)
      BY <1>2, NextIsClock
  <2>2. Types /\ (~xq => Pipe) /\ Conserved(fl_ring, rt_commit)
      BY DEF BInv, IInv, NInv
  <2>3. CASE xq
    <3>1. FL!RollBack
        BY <2>1, <2>3, Zenon DEF Clock, Cycle, Rename
    <3> QED BY <3>1 DEF FL!Next
  <2>4. CASE ~xq
    <3>1. Pipe /\ Record
        BY <2>4 DEF BInv, IInv, RInv
    <3>2. PICK c, m, b : Renaming(c, m, b)
        BY <2>4 DEF NInv
    <3>3. PICK f0, f1, k0, k1 :
            /\ f0 = Freed(1, done, memex, csrx) /\ f1 = Freed(2, done, memex, csrx)
            /\ k0 = Committed(1, done, memex, csrx) /\ k1 = Committed(2, done, memex, csrx)
        OBVIOUS
    <3>4. f0 \in FL!Port /\ f1 \in FL!Port
        BY <2>2, <3>3, CommitPorts
    <3>5. FL!Writes(f0, f1) <= FL!Returnable
        BY <2>1, <2>2, <2>4, <3>1, <3>2, <3>3, ReturnsGiven
    <3>6. Branches(b)
        BY <3>2 DEF Renaming
    <3>7. CASE do_recover
      <4>1. FL!Recover(f0, f1, missed.chkp, delete_checkpoint)
          BY <2>1, <2>4, <3>3, <3>7, RenameStep
      <4>2. missed \in wb /\ ~missed.ok /\ missed.ck
          BY <3>7 DEF do_recover, mis, Mispredicted, missed
      <4>3. delete_checkpoint = 0
          BY <3>6, <4>2 DEF delete_checkpoint, Branches
      <4>4. missed.chkp \in FL!Ckpt /\ VAge(missed.chkp) < fl_ck
          BY <2>2, <3>6, <4>2 DEF Branches, Types, TypeOK, Result
      <4>5. FL!Age(missed.chkp) < fl_ck
          BY <4>4, SameWrap, Zenon DEF FL!Age, VAge, NC
      <4> QED BY <3>4, <3>5, <4>1, <4>3, <4>4, <4>5, Zenon DEF FL!Next
    <3>8. CASE ~do_recover
      <4>1. PICK do, del, gets :
              /\ do = do_checkpoint(iq, busy) /\ del = delete_checkpoint /\ gets = reads(iq, busy, f0, f1)
          OBVIOUS
      <4>2. FL!Advance(gets, f0, f1, do, del)
          BY <2>1, <2>4, <3>3, <3>8, <4>1, RenameStep
      <4>3. do \in BOOLEAN /\ gets \in BOOLEAN
          BY <4>1 DEF do_checkpoint, reads
      <4>4. del \in FL!Deletes
        <5>1. CASE \E w \in wb : w.ok /\ w.ck
          <6>1. PICK w \in wb : w.ck
              BY <5>1
          <6>2. VAge(w.chkp) < fl_ck /\ w.chkp \in FL!Ckpt
              BY <2>2, <3>6, <6>1 DEF Branches, Types, TypeOK, Result
          <6>3. fl_vt \in FL!Ckpt /\ fl_ck \in Nat
              BY <2>2 DEF Types, TypeOK, FL!TypeOK
          <6>4. fl_vt \in 0 .. NC - 1 /\ w.chkp \in 0 .. NC - 1 /\ NC \in Nat
              BY <6>2, <6>3, Sizes DEF NC
          <6>5. VAge(w.chkp) >= 0 /\ VAge(w.chkp) \in Int
              BY <6>4 DEF VAge, Dist, Trunc
          <6>6. fl_ck > 0
              BY <6>2, <6>3, <6>5
          <6> QED BY <4>1, <5>1, <6>6 DEF FL!Deletes, delete_checkpoint
        <5>2. CASE ~(\E w \in wb : w.ok /\ w.ck)
            BY <4>1, <5>2 DEF FL!Deletes, delete_checkpoint
        <5> QED BY <5>1, <5>2
      <4> QED BY <3>4, <3>5, <4>2, <4>3, <4>4, Zenon DEF FL!Next
    <3> QED BY <3>7, <3>8
  <2> QED BY <2>3, <2>4
<1> QED BY <1>1, <1>2

\* The back end is a client under which the free list is proved correct: it
\* returns only what every live version has given out, recovers live checkpoints
\* and deletes existing ones, whatever mispredicts, fails and retires.
THEOREM FreeListClient == Spec => FreeListProtocol
<1>1. Init => FL!Init
    BY DEF Init
<1>2. FreeListProtocol <=> FL!Init /\ [][FL!Next]_(FL!vars)
    BY DEF FreeListProtocol, FL!Spec
<1> QED BY <1>1, <1>2, Invariant, FreeListStep, PTL DEF Spec

\* The ring and the committed map hold each register once: none is given out twice.
THEOREM RegistersHeldOnce == Spec => []Distinct(fl_ring, rt_commit)
<1>1. BInv /\ NInv => Distinct(fl_ring, rt_commit)
    BY DEF NInv, Conserved
<1> QED BY <1>1, Invariant, PTL

(* Every instruction in the list that has not finished is in a stage that    *)
(* will finish it.                                                           *)
Driven == \A i \in Index : Live(i) /\ ~gl_valid[i] => \E p \in wb \cup Issued : p.index = i

LEMMA DrivenKept ==
    ASSUME Types, Pipe, Fenced, Driven, ~xq,
           NEW iq, NEW busy, NEW rrex, NEW ok, NEW brex, NEW fin, NEW memex, NEW done, NEW csrx,
           Clock(iq, busy, rrex, ok, brex, fin, memex, done, csrx), ~commit_xcpt(memex)
    PROVE  Driven'
<1>1. Inputs(busy, rrex, ok, brex, fin, memex, done)
    BY DEF Clock
<1>2. SUFFICES ASSUME NEW i \in Index, Live(i)', ~gl_valid'[i]
               PROVE  \E p \in wb' \cup Issued' : p.index = i
    BY DEF Driven
<1>3. Stays(i, busy, done, memex)
    BY <1>2, PlacesAfter DEF Live, N
<1>4. /\ gl_head \in Index /\ gl_num \in 0 .. N - 1 /\ gl_tail \in Index
      /\ Age(gl_tail) = gl_num /\ Age(i) \in 0 .. N - 1
      /\ Limit(busy) \in 0 .. N - 1 /\ (mis => Limit(busy) <= gl_num)
  <2>1. gl_head \in Index /\ gl_num \in 0 .. N - 1 /\ gl_tail \in Index
      BY DEF Types, TypeOK, N
  <2> QED BY <2>1, PlacesAfter, Places DEF Age
<1>5. /\ ~\E w \in wb : w.index = i
      /\ Enters(busy) /\ i = gl_tail => ~(rr.kind = "STORE" \/ rrex)
      /\ ~(Enters(busy) /\ i = gl_tail) => ~gl_valid[i]
    BY <1>2, ListAfter
<1>6. CASE Enters(busy) /\ i = gl_tail
  <2>1. ~cq /\ ~mis /\ ~rrex /\ rr \in Instr /\ rr # None
      BY <1>5, <1>6 DEF Fenced, Enters, Types, TypeOK
  <2>2. exe' = [Snoop(rr) EXCEPT !.index = gl_tail]
      BY <1>6, <2>1, ExeAfter
  <2>3. exe'.index = gl_tail /\ exe' # None
      BY <2>1, <2>2, SnoopKeeps
  <2> QED BY <1>6, <2>3 DEF Issued
<1>7. CASE ~(Enters(busy) /\ i = gl_tail)
  <2>1. Age(i) < gl_num
    <3>1. Age(i) < Limit(busy)
        BY <1>3 DEF Stays
    <3>2. CASE mis
        BY <1>4, <3>1, <3>2
    <3>3. CASE ~mis /\ ~Enters(busy)
        BY <1>4, <3>1, <3>3 DEF Limit
    <3>4. CASE ~mis /\ Enters(busy)
      <4>1. Age(i) # gl_num
          BY <1>4, <1>7, <3>4, Places DEF Age
      <4> QED BY <1>4, <3>1, <3>4, <4>1 DEF Limit
    <3> QED BY <3>2, <3>3, <3>4
  <2>2. PICK p \in wb \cup Issued : p.index = i
    <3>1. Live(i) /\ ~gl_valid[i]
        BY <1>5, <1>7, <2>1 DEF Live, Age, N
    <3> QED BY <3>1 DEF Driven
  <2>3. p \notin wb /\ p \in Issued
      BY <1>5, <2>2
  <2>4. ~cq
      BY <1>4, <2>1 DEF Fenced
  <2>5. /\ wb' = exe_results(busy, ok, brex) \cup {Finished(u, memex) : u \in fin}
        /\ units' = (units \ Leaves(fin, done))
                    \cup (IF Executes(busy) /\ ~Single(exe) THEN {exe} ELSE {})
      BY <2>4, StagesAfter
  <2>6. CASE p \in units
    <3>1. CASE p \in fin
      <4>1. Finished(p, memex) \in wb' /\ Finished(p, memex).index = i
          BY <2>2, <2>5, <3>1 DEF Finished
      <4> QED BY <4>1
    <3>2. CASE p \notin fin
      <4>1. ~(done /\ CommitsStore /\ p.index = gl_head)
        <5>1. CommitsStore => gl_valid[gl_head]
            BY <1>4 DEF CommitsStore, Offered, GL!Offered
        <5> QED BY <1>5, <1>7, <2>2, <5>1
      <4>2. p \in units'
          BY <2>5, <2>6, <3>2, <4>1 DEF Leaves
      <4> QED BY <2>2, <4>2 DEF Issued
    <3> QED BY <3>1, <3>2
  <2>7. CASE p = exe /\ exe # None
    <3>1. ~mis
      <4> SUFFICES ASSUME mis PROVE FALSE
          OBVIOUS
      <4>1. missed \in wb /\ ~missed.ok
          BY DEF mis, missed, Mispredicted
      <4>2. missed.index \in Index /\ Age(missed.index) < gl_num /\ missed.index # exe.index /\ exe.index \in Index
          BY <2>7, <4>1 DEF Pipe, Owners, OneOwner, Owns, Live, Age, N, Issued
      <4>3. Age(exe.index) = gl_num - 1
          BY <2>7 DEF Pipe, InOrderIssue
      <4>4. Age(missed.index) # Age(exe.index) /\ Age(missed.index) \in 0 .. N - 1
          BY <1>4, <4>2, Places DEF Age
      <4>5. Age(i) < Age(missed.index) + 1
          BY <1>3 DEF Stays, Limit
      <4> QED BY <1>4, <2>2, <2>7, <4>2, <4>3, <4>4, <4>5
    <3>2. CASE Executes(busy) /\ Single(exe)
      <4> DEFINE w == [index |-> exe.index, rd |-> exe.rd, prd |-> exe.prd, ex |-> brex,
                       ck |-> exe.ck, chkp |-> exe.chkp, ok |-> ok]
      <4>1. w \in wb' /\ w.index = i
          BY <2>2, <2>5, <2>7, <3>2 DEF exe_results
      <4> QED BY <4>1
    <3>3. CASE Executes(busy) /\ ~Single(exe)
        BY <2>2, <2>5, <2>7, <3>3 DEF Issued
    <3>4. CASE ~Executes(busy)
      <4>1. exe' = Snoop(exe) /\ exe \in Instr
          BY <2>4, <2>7, <3>1, <3>4, ExeAfter DEF Types, TypeOK
      <4>2. exe'.index = i /\ exe' # None
          BY <2>2, <2>7, <4>1, SnoopKeeps
      <4> QED BY <4>2 DEF Issued
    <3> QED BY <3>2, <3>3, <3>4
  <2> QED BY <2>3, <2>6, <2>7 DEF Issued
<1> QED BY <1>6, <1>7

-----------------------------------------------------------------------------
(* The third part: operands.                                                *)
(*                                                                          *)
(* The producer of a register: at most one instruction in flight has it as   *)
(* its destination, and none has a register of the committed map.            *)

LEMMA ChainOnce ==
    ASSUME NEW c, NEW m, NEW s, NEW n, NEW t, NEW q, NEW g, n \in Place, t \in 0 .. N - 1,
           Chain(c, m, s, n, t, q, g), Distinct(q, g)
    PROVE  /\ \A k \in 0 .. n - 1 : s[k].rd # 0 => /\ \A r \in Reg : s[k].prd # g[r]
                                                   /\ c[n] < N => s[k].prd # q[Trunc(t + c[n], N)]
           /\ \A j, k \in 0 .. n - 1 : s[j].rd # 0 /\ s[k].rd # 0 /\ s[j].prd = s[k].prd => j = k
           /\ c[n] < N => \A r \in Reg : g[r] # q[Trunc(t + c[n], N)]
<1>1. N \in Nat /\ n \in 0 .. N /\ FL!Entry = 0 .. N - 1 /\ n \in 0 .. n
    BY Sizes DEF Place
<1>2. /\ \A x \in 0 .. N : Trunc(t + x, N) \in FL!Entry
      /\ \A x, y \in 0 .. N - 1 : Trunc(t + x, N) = Trunc(t + y, N) => x = y
    BY <1>1, TruncSum
<1>3. /\ \A i, j \in FL!Entry : q[i] = q[j] => i = j
      /\ \A i \in FL!Entry, r \in Reg : q[i] # g[r]
    BY DEF Distinct
<1>4. c[n] \in 0 .. N
    BY <1>1, ChainBounds
<1>5. ASSUME NEW k \in 0 .. n - 1, s[k].rd # 0
      PROVE  /\ s[k].prd = q[Trunc(t + c[k], N)] /\ c[k] \in 0 .. N - 1
             /\ \A j \in 0 .. n : k < j => c[k] < c[j]
  <2>1. s[k].prd = q[Trunc(t + c[k], N)] /\ c[k + 1] = c[k] + 1
      BY <1>5 DEF Chain, One
  <2>2. c[k] \in 0 .. N - 1
      BY <1>5, ChainBounds
  <2>3. ASSUME NEW j \in 0 .. n, k < j PROVE c[k] < c[j]
    <3>1. k + 1 \in 0 .. n /\ k + 1 <= j
        BY <1>1, <2>3
    <3>2. c[k + 1] <= c[j]
        BY <3>1 DEF Chain
    <3>3. c[j] \in 0 .. N
        BY ChainBounds
    <3> QED BY <2>1, <2>2, <3>2, <3>3
  <2> QED BY <2>1, <2>2, <2>3
<1>6. ASSUME NEW k \in 0 .. n - 1, s[k].rd # 0
      PROVE  /\ \A r \in Reg : s[k].prd # g[r]
             /\ c[n] < N => s[k].prd # q[Trunc(t + c[n], N)]
  <2>1. s[k].prd = q[Trunc(t + c[k], N)] /\ c[k] \in 0 .. N - 1 /\ c[k] \in 0 .. N /\ c[k] < c[n]
    <3>1. k < n
        BY <1>1
    <3> QED BY <1>1, <1>5, <1>6, <3>1
  <2>2. Trunc(t + c[k], N) \in FL!Entry /\ Trunc(t + c[n], N) \in FL!Entry
      BY <1>2, <1>4, <2>1
  <2>3. c[n] < N => Trunc(t + c[k], N) # Trunc(t + c[n], N)
    <3>1. c[n] < N => c[n] \in 0 .. N - 1 /\ c[n] # c[k]
        BY <1>1, <1>4, <2>1
    <3> QED BY <1>2, <2>1, <3>1
  <2> QED BY <1>3, <2>1, <2>2, <2>3
<1>7. ASSUME NEW j \in 0 .. n - 1, NEW k \in 0 .. n - 1, s[j].rd # 0, s[k].rd # 0, s[j].prd = s[k].prd
      PROVE  j = k
  <2>1. /\ s[k].prd = q[Trunc(t + c[k], N)] /\ c[k] \in 0 .. N - 1
        /\ s[j].prd = q[Trunc(t + c[j], N)] /\ c[j] \in 0 .. N - 1
        /\ (k < j => c[k] < c[j]) /\ (j < k => c[j] < c[k])
    <3>1. j \in 0 .. n /\ k \in 0 .. n
        BY <1>1
    <3> QED BY <1>5, <1>7, <3>1
  <2>2. c[j] \in 0 .. N /\ c[k] \in 0 .. N
      BY <1>1, <2>1
  <2>3. Trunc(t + c[k], N) = Trunc(t + c[j], N)
      BY <1>2, <1>3, <1>7, <2>1, <2>2
  <2>4. c[j] = c[k]
      BY <1>2, <2>1, <2>3
  <2> QED BY <1>1, <2>1, <2>4
<1>8. ASSUME c[n] < N, NEW r \in Reg PROVE g[r] # q[Trunc(t + c[n], N)]
    BY <1>2, <1>3, <1>4
<1> QED BY <1>6, <1>7, <1>8

\* Where the map behind the first k has a register from.
LEMMA ChainOrigin ==
    ASSUME NEW c, NEW m, NEW s, NEW n, NEW t, NEW q, NEW g, n \in Place,
           Chain(c, m, s, n, t, q, g), NEW k \in 0 .. n, NEW r \in Reg
    PROVE  \/ m[k][r] = g[r]
           \/ \E j \in 0 .. k - 1 : s[j].rd = r /\ r # 0 /\ m[k][r] = s[j].prd
<1> DEFINE T == {j \in 1 .. k : s[j - 1].rd = r}
<1>1. n \in Nat /\ k \in Nat /\ 0 \in 0 .. n /\ 0 <= k
    BY Sizes DEF Place
<1>2. CASE r = 0 \/ T = {}
  <2>1. r = 0 \/ \A j \in 0 .. k - 1 : s[j].rd # r
    <3> SUFFICES ASSUME T = {}, NEW j \in 0 .. k - 1 PROVE s[j].rd # r
        BY <1>2
    <3>1. j + 1 \in 1 .. k /\ (j + 1) - 1 = j
        BY <1>1
    <3> QED BY <3>1
  <2>2. m[k][r] = m[0][r] /\ m[0][r] = g[r]
      BY <1>1, <2>1 DEF Chain
  <2> QED BY <2>2
<1>3. CASE r # 0 /\ T # {}
  <2>1. PICK j \in T : \A i \in T : i <= j
      BY <1>1, <1>3, LastPlace
  <2>2. j \in 1 .. k /\ s[j - 1].rd = r /\ j - 1 \in 0 .. k - 1 /\ j - 1 \in 0 .. n - 1
        /\ (j - 1) + 1 = j /\ j \in 0 .. n /\ j <= k
      BY <1>1
  <2>3. m[j][r] = s[j - 1].prd
      BY <1>3, <2>2 DEF Chain
  <2>4. \A i \in j .. k - 1 : s[i].rd # r
    <3> SUFFICES ASSUME NEW i \in j .. k - 1, s[i].rd = r PROVE FALSE
        OBVIOUS
    <3>1. i + 1 \in 1 .. k /\ (i + 1) - 1 = i /\ ~(i + 1 <= j)
        BY <1>1, <2>2
    <3> QED BY <2>1, <3>1
  <2>5. m[k][r] = m[j][r]
      BY <2>2, <2>4 DEF Chain
  <2> QED BY <1>3, <2>2, <2>3, <2>5
<1> QED BY <1>2, <1>3

\* Who writes a register of the map behind the first k: one of them, for the same
\* architectural register.  The next register to be given out is not in the map.
LEMMA ChainProducer ==
    ASSUME NEW c, NEW m, NEW s, NEW n, NEW t, NEW q, NEW g, n \in Place, t \in 0 .. N - 1,
           Chain(c, m, s, n, t, q, g), Distinct(q, g), NEW k \in 0 .. n, NEW r \in Reg
    PROVE  /\ \A j \in 0 .. n - 1 : s[j].rd # 0 /\ s[j].prd = m[k][r] => j < k /\ s[j].rd = r
           /\ c[n] < N => m[k][r] # q[Trunc(t + c[n], N)]
<1>1. /\ \A j \in 0 .. n - 1 : s[j].rd # 0 => /\ \A z \in Reg : s[j].prd # g[z]
                                              /\ c[n] < N => s[j].prd # q[Trunc(t + c[n], N)]
      /\ \A i, j \in 0 .. n - 1 : s[i].rd # 0 /\ s[j].rd # 0 /\ s[i].prd = s[j].prd => i = j
      /\ c[n] < N => \A z \in Reg : g[z] # q[Trunc(t + c[n], N)]
    BY ChainOnce
<1>2. CASE m[k][r] = g[r]
    BY <1>1, <1>2
<1>3. CASE \E j \in 0 .. k - 1 : s[j].rd = r /\ r # 0 /\ m[k][r] = s[j].prd
  <2>1. PICK j \in 0 .. k - 1 : s[j].rd = r /\ r # 0 /\ m[k][r] = s[j].prd
      BY <1>3
  <2>2. j \in 0 .. n - 1 /\ j < k
      BY Sizes DEF Place
  <2> QED BY <1>1, <2>1, <2>2
<1> QED BY <1>2, <1>3, ChainOrigin
-----------------------------------------------------------------------------
(* Operands.                                                                 *)

\* Instruction k in flight has register p as its destination, has not finished,
\* has failed.
Makes(k, p) == Items[k].rd # 0 /\ Items[k].prd = p
Unfinished(k) == k < gl_num => ~gl_valid[Trunc(gl_head + k, N)]
Failed(k) == k < gl_num /\ gl_entries[Trunc(gl_head + k, N)].ex

\* y is what a reader of p may believe: p has its value when its producer has
\* finished, and is missing only while the producer has not or has failed.
Heard(p, y) ==
    /\ y => \A k \in 0 .. Size - 1 : Makes(k, p) => ~Unfinished(k)
    /\ ~y => \E k \in 0 .. Size - 1 : Makes(k, p) /\ (Unfinished(k) \/ Failed(k))

\* i, with n instructions before it, reads the register of the map behind them.
Reads(i, n) ==
    /\ i.rs = 0 => i.rdy
    /\ i.rs # 0 => i.prs = MapAfter(n)[i.rs] /\ Heard(i.prs, i.rdy)

\* Every version of the ready table, RR and EXE have heard of all producers.
Operands ==
    /\ \A r \in Reg, v \in FL!Ckpt : r # 0 /\ VAge(v) <= fl_ck => Heard(rt_map[r][v], rt_ready[r][v])
    /\ rr # None => Reads(rr, gl_num) /\ (rr.kind = "STORE" => rr.rd = 0)
    /\ exe # None => Reads(exe, Age(exe.index))

OInv == ~xq => Driven /\ Operands

\* What becomes of the instruction at place j, if it stays.
LEMMA StatusAfter ==
    ASSUME Types, Types', Pipe, Fenced, ~xq,
           NEW iq, NEW busy, NEW rrex, NEW ok, NEW brex, NEW fin, NEW memex, NEW done, NEW csrx,
           Clock(iq, busy, rrex, ok, brex, fin, memex, done, csrx), ~commit_xcpt(memex),
           NEW read, NEW last, read = Retire(done, memex), last = Last,
           NEW j, j \in read .. last - 1
    PROVE  /\ j < gl_num =>
                /\ Unfinished(j - read)' <=> Unfinished(j) /\ ~\E w \in wb : Age(w.index) = j
                /\ Failed(j) => Failed(j - read)'
           /\ j >= gl_num => /\ rr # None /\ j = gl_num
                             /\ rr.kind = "STORE" \/ Unfinished(j - read)' \/ Failed(j - read)'
<1>1. /\ gl_num \in 0 .. N - 1 /\ gl_head \in Index /\ gl_tail \in Index /\ N \in Nat /\ N >= 3
      /\ Index = 0 .. N - 1 /\ gl_tail = Trunc(gl_head + gl_num, N)
    BY Sizes DEF Types, TypeOK, N, Pipe, Occupied
<1>2. /\ read \in 0 .. 2 /\ read <= gl_num
      /\ gl_num > 0 \/ ~mis => gl_head' = Trunc(gl_head + read, N)
      /\ \A i \in Index :
           LET new == Enters(busy) /\ i = gl_tail IN
           /\ gl_valid'[i] <=> \/ IF new THEN rr.kind = "STORE" \/ rrex ELSE gl_valid[i]
                               \/ \E w \in wb : w.index = i
           /\ gl_entries'[i].ex <=> IF \E w \in wb : w.index = i
                                    THEN gl_entries[i].ex \/ \E w \in wb : w.index = i /\ w.ex
                                    ELSE IF new THEN rrex ELSE gl_entries[i].ex
      /\ Enters(busy) => gl_num < N - 1
    BY ListAfter, RetiresFinished
<1>3. /\ Limit(busy) \in 0 .. N - 1 /\ read <= Limit(busy) /\ (mis => Limit(busy) <= gl_num)
      /\ gl_num' = Limit(busy) - read
    BY PlacesAfter
<1>4. \A w \in wb : w.index \in Index /\ Age(w.index) \in 0 .. N - 1 /\ Age(w.index) < gl_num
  <2>1. \A w \in wb : w.index \in Index /\ Age(w.index) < gl_num
      BY DEF Pipe, Owners, Owns, Live, Age, N
  <2> QED BY <1>1, <2>1, Places DEF Age
<1>5. /\ last = IF mis THEN Limit(busy) ELSE Size
      /\ Size \in Nat /\ Size = gl_num + (IF rr = None THEN 0 ELSE 1)
      /\ ~mis => Limit(busy) = gl_num + (IF Enters(busy) THEN 1 ELSE 0)
  <2>1. last = IF mis THEN Limit(busy) ELSE Size
      BY DEF Last, Limit
  <2>2. ~mis => Limit(busy) = gl_num + (IF Enters(busy) THEN 1 ELSE 0)
      BY DEF Limit
  <2>3. Size \in Nat
      BY Heads, Sizes DEF Place
  <2> QED BY <2>1, <2>2, <2>3 DEF Size
<1>6. /\ j \in 0 .. N - 1 /\ j <= gl_num /\ (j = gl_num => ~mis /\ rr # None)
      /\ (mis => gl_num > 0)
    BY <1>1, <1>2, <1>3, <1>5
<1>7. PICK i : i = Trunc(gl_head + j, N)
    OBVIOUS
<1>8. i \in Index /\ Age(i) = j /\ Trunc(gl_head' + (j - read), N) = i /\ (i = gl_tail <=> j = gl_num)
  <2>1. Trunc(gl_head + j, N) \in Index /\ Dist(gl_head, Trunc(gl_head + j, N), N) = j
    <3>1. j \in 0 .. N
        BY <1>1, <1>6
    <3> QED BY <1>1, <1>6, <3>1, Places
  <2>2. Trunc(Trunc(gl_head + read, N) + (j - read), N) = Trunc(gl_head + j, N)
    <3>1. j \in read .. N - 1
        BY <1>1, <1>2, <1>6
    <3> QED BY <1>1, <1>2, <3>1, PlacesShift
  <2>3. Dist(gl_head, gl_tail, N) = gl_num
      BY <1>1, Places
  <2>4. i = gl_tail <=> j = gl_num
      BY <1>1, <1>7, <2>1, <2>3
  <2> QED BY <1>2, <1>6, <1>7, <2>1, <2>2, <2>4 DEF Age
<1>9. \A w \in wb : w.index = i <=> Age(w.index) = j
    BY <1>1, <1>4, <1>8, Places DEF Age
<1>10. /\ Unfinished(j - read)' <=> (j - read < gl_num' => ~gl_valid'[i])
       /\ Failed(j - read)' <=> j - read < gl_num' /\ gl_entries'[i].ex
       /\ Unfinished(j) <=> (j < gl_num => ~gl_valid[i])
       /\ Failed(j) <=> j < gl_num /\ gl_entries[i].ex
    BY <1>7, <1>8 DEF Unfinished, Failed, N
<1>11. CASE j < gl_num
  <2>1. j - read < gl_num' /\ i # gl_tail
      BY <1>1, <1>2, <1>3, <1>5, <1>6, <1>8, <1>11
  <2>2. /\ gl_valid'[i] <=> gl_valid[i] \/ \E w \in wb : w.index = i
        /\ gl_entries[i].ex => gl_entries'[i].ex
      BY <1>2, <1>8, <2>1
  <2>3. ~(j >= gl_num)
      BY <1>1, <1>6, <1>11
  <2> QED BY <1>9, <1>10, <1>11, <2>1, <2>2, <2>3
<1>12. CASE j >= gl_num
  <2>1. j = gl_num /\ ~mis /\ rr # None /\ i = gl_tail /\ ~(j < gl_num)
      BY <1>1, <1>6, <1>8, <1>12
  <2>2. ASSUME j - read < gl_num', rr.kind # "STORE", gl_valid'[i] PROVE gl_entries'[i].ex
    <3>1. Enters(busy)
        BY <1>1, <1>2, <1>3, <1>5, <2>1, <2>2
    <3>2. ~\E w \in wb : w.index = i
        BY <1>1, <1>4, <1>9, <2>1
    <3> QED BY <1>2, <1>8, <2>1, <2>2, <3>1, <3>2
  <2> QED BY <1>10, <2>1, <2>2
<1> QED BY <1>1, <1>6, <1>11, <1>12

\* Who is in the write-back stage makes the register that it writes.
LEMMA WriterMakes ==
    ASSUME Types, Pipe, NEW w \in wb, w.rd # 0
    PROVE  /\ Age(w.index) \in 0 .. gl_num - 1 /\ Age(w.index) \in 0 .. Size - 1
           /\ Makes(Age(w.index), w.prd) /\ Items[Age(w.index)].rd = w.rd
<1>1. gl_num \in 0 .. N - 1 /\ gl_head \in Index /\ N \in Nat
    BY Sizes DEF Types, TypeOK, N
<1>2. /\ w.index \in Index /\ Age(w.index) < gl_num
      /\ gl_entries[w.index].data.rd = w.rd /\ gl_entries[w.index].data.prd = w.prd
    BY DEF Pipe, Owners, Owns, Live, Age, N
<1>3. Age(w.index) \in 0 .. N - 1 /\ Trunc(gl_head + Age(w.index), N) = w.index
    BY <1>1, <1>2, Places DEF Age
<1>4. Age(w.index) \in Place /\ Size >= gl_num /\ Size \in Nat
    BY <1>1, <1>3, Heads DEF Place
<1>5. Items[Age(w.index)] = gl_entries[w.index].data
    BY <1>2, <1>3, <1>4 DEF Items, Item
<1>6. Age(w.index) \in 0 .. gl_num - 1 /\ Age(w.index) \in 0 .. Size - 1
    BY <1>1, <1>2, <1>3, <1>4
<1> QED BY <1>2, <1>5, <1>6 DEF Makes

\* A reader that hears the write-backs of the cycle, and whose producer is not
\* killed, goes on knowing what it may know.
LEMMA HeardKept ==
    ASSUME Types, Types', Pipe, Record, Fenced, ~xq, rr # None /\ rr.kind = "STORE" => rr.rd = 0,
           NEW c, NEW m, Order(c, m), Distinct(fl_ring, rt_commit),
           NEW iq, NEW busy, NEW rrex, NEW ok, NEW brex, NEW fin, NEW memex, NEW done, NEW csrx,
           Clock(iq, busy, rrex, ok, brex, fin, memex, done, csrx), ~commit_xcpt(memex),
           NEW f0, NEW f1, f0 = Freed(1, done, memex, csrx), f1 = Freed(2, done, memex, csrx),
           NEW read, NEW last, NEW new, read = Retire(done, memex), last = Last,
           new = Brings(iq, busy, f0, f1),
           NEW p, NEW y, NEW y2, Heard(p, y), y \in BOOLEAN,
           y2 <=> y \/ \E w \in wb : w.rd # 0 /\ w.prd = p,
           \A k \in 0 .. Size - 1 : Makes(k, p) => k < last,
           new = 1 => ~Makes(last - read, p)'
    PROVE  Heard(p, y2)'
<1>1. /\ read \in 0 .. 2 /\ read <= gl_num /\ last \in 0 .. Size /\ read \in 0 .. last
      /\ new \in {0, 1} /\ Size' = last - read + new
      /\ \A k \in 0 .. last - read - 1 : Items'[k] = Items[k + read]
    BY ItemsAfter
<1>2. Size \in Place /\ Size \in Nat /\ gl_num \in 0 .. N - 1 /\ gl_head \in Index /\ Size >= gl_num
    BY Heads, Sizes DEF Place, Types, TypeOK, N
<1>3. \A j, k \in 0 .. Size - 1 : Makes(j, p) /\ Makes(k, p) => j = k
  <2>1. Chain(c, m, Items, Size, fl_tail, fl_ring, rt_commit) /\ fl_tail \in 0 .. N - 1
      BY Sizes DEF Order, Types, TypeOK, FL!TypeOK
  <2> QED BY <1>2, <2>1, ChainOnce DEF Makes
<1>4. ASSUME NEW k \in 0 .. Size' - 1, Makes(k, p)'
      PROVE  /\ k + read \in 0 .. Size - 1 /\ Makes(k + read, p)
             /\ k + read \in read .. last - 1 /\ (k + read) - read = k
  <2>1. k # last - read \/ new = 0
      BY <1>1, <1>4
  <2>2. k \in 0 .. last - read - 1
      BY <1>1, <1>2, <2>1
  <2>3. Items'[k] = Items[k + read]
      BY <1>1, <2>2
  <2>4. Makes(k + read, p)
      BY <1>4, <2>3 DEF Makes
  <2> QED BY <1>1, <1>2, <2>2, <2>4
<1>5. \A j \in read .. last - 1 :
         /\ j < gl_num =>
                /\ Unfinished(j - read)' <=> Unfinished(j) /\ ~\E w \in wb : Age(w.index) = j
                /\ Failed(j) => Failed(j - read)'
         /\ j >= gl_num => /\ rr # None /\ j = gl_num
                           /\ rr.kind = "STORE" \/ Unfinished(j - read)' \/ Failed(j - read)'
    BY StatusAfter
<1>6. ASSUME y2, NEW k \in 0 .. Size' - 1, Makes(k, p)' PROVE ~Unfinished(k)'
  <2> DEFINE j == k + read
  <2>1. j \in 0 .. Size - 1 /\ Makes(j, p) /\ j \in read .. last - 1 /\ j - read = k
      BY <1>4, <1>6
  <2> HIDE DEF j
  <2>2. CASE y
    <3>1. ~Unfinished(j)
        BY <2>1, <2>2 DEF Heard
    <3>2. j < gl_num
        BY <3>1 DEF Unfinished
    <3> QED BY <1>5, <2>1, <3>1, <3>2
  <2>3. CASE \E w \in wb : w.rd # 0 /\ w.prd = p
    <3>1. PICK w \in wb : w.rd # 0 /\ w.prd = p
        BY <2>3
    <3>2. Age(w.index) \in 0 .. gl_num - 1 /\ Age(w.index) \in 0 .. Size - 1 /\ Makes(Age(w.index), p)
        BY <3>1, WriterMakes
    <3>3. Age(w.index) = j /\ j < gl_num
        BY <1>2, <1>3, <2>1, <3>2
    <3> QED BY <1>5, <2>1, <3>3
  <2> QED BY <1>6, <2>2, <2>3
<1>7. ASSUME ~y2 PROVE \E k \in 0 .. Size' - 1 : Makes(k, p)' /\ (Unfinished(k)' \/ Failed(k)')
  <2>1. ~y /\ ~\E w \in wb : w.rd # 0 /\ w.prd = p
      BY <1>7
  <2>2. PICK j \in 0 .. Size - 1 : Makes(j, p) /\ (Unfinished(j) \/ Failed(j))
      BY <2>1 DEF Heard
  <2>3. j \in 0 .. N - 1 \/ j >= gl_num
      BY <1>2, Sizes
  <2>4. read <= j
    <3> SUFFICES ASSUME j < read PROVE FALSE
        BY <1>1, <1>2
    <3>1. j < gl_num /\ j \in 0 .. N - 1 /\ j \in 0 .. N /\ j \in 0 .. 1
        BY <1>1, <1>2, Sizes
    <3>2. PICK i : i = Trunc(gl_head + j, N)
        OBVIOUS
    <3>3. i \in Index /\ Age(i) = j
        BY <1>2, <3>1, <3>2, Places DEF Age
    <3>4. CASE Failed(j)
      <4>1. i \in Failing
        <5>1. gl_entries[i].ex /\ Live(i)
            BY <3>1, <3>2, <3>3, <3>4 DEF Failed, Live, Age, N
        <5> QED BY <3>3, <5>1 DEF Failing
      <4>2. done => \E u \in units : u.index = gl_head
          BY DEF Clock, Inputs
      <4>3. read <= Age(i)
          BY <4>1, <4>2, FailingStay
      <4> QED BY <1>1, <3>1, <3>3, <4>3
    <3>5. CASE Unfinished(j)
      <4>1. ~gl_valid[i]
          BY <3>1, <3>2, <3>5 DEF Unfinished
      <4>2. read >= 1 /\ (j = 1 => read = 2)
          BY <1>1, <3>1
      <4>3. gl_valid[gl_head] /\ (j = 1 => gl_valid[Trunc(gl_head + 1, N)])
          BY <4>2, RetiresFinished
      <4>4. j = 0 => i = gl_head
          BY <1>2, <3>2, Sizes DEF Trunc
      <4> QED BY <3>1, <3>2, <4>1, <4>3, <4>4
    <3> QED BY <2>2, <3>4, <3>5
  <2>5. j \in read .. last - 1 /\ j - read \in 0 .. last - read - 1 /\ j - read \in 0 .. Size' - 1
        /\ (j - read) + read = j
    <3>1. j < last
        BY <2>2
    <3> QED BY <1>1, <1>2, <2>4, <3>1
  <2>6. Makes(j - read, p)'
    <3>1. Items'[j - read] = Items[j]
        BY <1>1, <2>5
    <3> QED BY <2>2, <3>1 DEF Makes
  <2>7. Unfinished(j - read)' \/ Failed(j - read)'
    <3>1. CASE j < gl_num
      <4>1. \A w \in wb : Age(w.index) # j
        <5> SUFFICES ASSUME NEW w \in wb, Age(w.index) = j PROVE FALSE
            OBVIOUS
        <5>1. w.index \in Index /\ gl_entries[w.index].data.rd = w.rd /\ gl_entries[w.index].data.prd = w.prd
            BY DEF Pipe, Owners, Owns
        <5>2. Trunc(gl_head + j, N) = w.index /\ j \in Place
          <6>1. Trunc(gl_head + Age(w.index), N) = w.index /\ Age(w.index) \in 0 .. N - 1
              BY <1>2, <5>1, Places DEF Age
          <6>2. \A k \in 0 .. N - 1 : k \in Place
              BY Sizes DEF Place
          <6> QED BY <6>1, <6>2
        <5>3. Items[j] = gl_entries[w.index].data
            BY <3>1, <5>2 DEF Items, Item
        <5> QED BY <2>1, <2>2, <5>1, <5>3 DEF Makes
      <4> QED BY <1>5, <2>2, <2>5, <3>1, <4>1
    <3>2. CASE j >= gl_num
      <4>1. /\ rr # None /\ j = gl_num
            /\ rr.kind = "STORE" \/ Unfinished(j - read)' \/ Failed(j - read)'
          BY <1>5, <2>5, <3>2
      <4>2. Items[j].rd = rr.rd
        <5>1. j \in Place /\ ~(j < gl_num)
            BY <1>2, <2>2, <3>2, Sizes DEF Place
        <5> QED BY <5>1 DEF Items, Item, Taken
      <4> QED BY <2>2, <4>1, <4>2 DEF Makes
    <3> QED BY <1>2, <3>1, <3>2
  <2> QED BY <2>5, <2>6, <2>7
<1> QED BY <1>6, <1>7 DEF Heard

\* The new instruction is given a register that no map in flight has.
LEMMA NewRegister ==
    ASSUME Types, Types', Pipe, Fenced, ~xq, ~xq',
           NEW c, NEW m, NEW b, Order(c, m), Versions(c, m, b),
           NEW iq, NEW busy, NEW rrex, NEW ok, NEW brex, NEW fin, NEW memex, NEW done, NEW csrx,
           Clock(iq, busy, rrex, ok, brex, fin, memex, done, csrx), ~commit_xcpt(memex),
           NEW f0, NEW f1, f0 = Freed(1, done, memex, csrx), f1 = Freed(2, done, memex, csrx),
           NEW read, NEW last, read = Retire(done, memex), last = Last, Brings(iq, busy, f0, f1) = 1
    PROVE  /\ ~mis /\ iq # None /\ iq \in QueueHead(busy) /\ renames(iq, busy, f0, f1)
           /\ last = Size /\ Size < N /\ Size' = Size - read + 1 /\ gl_num' = Size - read
           /\ Items'[last - read].rd = iq.rd /\ iq.rd \in Reg
           /\ Items'[last - read].prd = FL!NewRegister(reads(iq, busy, f0, f1), f0, f1)
           /\ iq.rd # 0 => Items'[last - read].prd = fl_ring[Trunc(fl_tail + c[Size], N)] /\ c[Size] < N
<1>1. /\ last = Size /\ Size < N /\ Size' = last - read + 1 /\ gl_num' = Size - read
      /\ Items'[last - read] = DataOf(Renamed(iq, busy, f0, f1))
  <2>1. PICK new : new = Brings(iq, busy, f0, f1) /\ new = 1
      OBVIOUS
  <2>2. /\ new = 1 => last = Size /\ Size < N
        /\ Size' = last - read + new
        /\ new = 1 => Items'[last - read] = DataOf(Renamed(iq, busy, f0, f1)) /\ gl_num' = Size - read
      BY <2>1, ItemsAfter
  <2> QED BY <2>1, <2>2
<1>2. ~mis /\ renames(iq, busy, f0, f1)
  <2>1. 0 # 1
      OBVIOUS
  <2> QED BY <2>1 DEF Brings
<1>3. iq # None /\ iq \in QueueHead(busy)
    BY <1>2 DEF renames, Clock
<1>4. /\ iq.rd \in Reg /\ c[Size] < N
      /\ iq.rd # 0 => FL!NewRegister(reads(iq, busy, f0, f1), f0, f1) = fl_ring[Trunc(fl_tail + c[Size], N)]
    BY <1>2, <1>3, NewItem
<1>5. LET i == Renamed(iq, busy, f0, f1) IN
      i.rd = iq.rd /\ i.prd = FL!NewRegister(reads(iq, busy, f0, f1), f0, f1)
    BY <1>3, RenamedFields
<1>6. \A i : DataOf(i).rd = i.rd /\ DataOf(i).prd = i.prd
    BY DEF DataOf
<1> QED BY <1>1, <1>2, <1>3, <1>4, <1>5, <1>6

\* A reader of a register of the map behind the first n, all of which stay.
LEMMA MapHeard ==
    ASSUME Types, Types', Pipe, Record, Fenced, ~xq, ~xq',
           rr # None /\ rr.kind = "STORE" => rr.rd = 0,
           NEW c, NEW m, NEW b, Order(c, m), Versions(c, m, b), Conserved(fl_ring, rt_commit),
           NEW iq, NEW busy, NEW rrex, NEW ok, NEW brex, NEW fin, NEW memex, NEW done, NEW csrx,
           Clock(iq, busy, rrex, ok, brex, fin, memex, done, csrx), ~commit_xcpt(memex),
           NEW f0, NEW f1, f0 = Freed(1, done, memex, csrx), f1 = Freed(2, done, memex, csrx),
           NEW read, NEW last, read = Retire(done, memex), last = Last,
           NEW n, n \in 0 .. last, NEW r \in Reg, NEW p, p = m[n][r],
           NEW y, y \in BOOLEAN, Heard(p, y)
    PROVE  /\ \A y2 : (y2 <=> y \/ \E w \in wb : w.rd # 0 /\ w.prd = p) => Heard(p, y2)'
           /\ \A w \in wb : w.rd # 0 /\ w.prd = p => w.rd = r
<1>1. PICK new : new = Brings(iq, busy, f0, f1)
    OBVIOUS
<1>2. last \in 0 .. Size /\ Size \in Place /\ Size \in Nat /\ n \in 0 .. Size /\ n <= last
  <2>1. last \in 0 .. Size
      BY <1>1, ItemsAfter
  <2> QED BY <2>1, Heads, Sizes DEF Place
<1>3. Distinct(fl_ring, rt_commit)
    BY DEF Conserved
<1>4. /\ \A j \in 0 .. Size - 1 : Items[j].rd # 0 /\ Items[j].prd = p => j < n /\ Items[j].rd = r
      /\ c[Size] < N => p # fl_ring[Trunc(fl_tail + c[Size], N)]
  <2>1. Chain(c, m, Items, Size, fl_tail, fl_ring, rt_commit) /\ fl_tail \in 0 .. N - 1
      BY Sizes DEF Order, Types, TypeOK, FL!TypeOK
  <2> QED BY <1>2, <1>3, <2>1, ChainProducer
<1>5. \A k \in 0 .. Size - 1 : Makes(k, p) => k < last
  <2>1. \A k \in 0 .. Size - 1 : Makes(k, p) => k < n
      BY <1>4 DEF Makes
  <2> QED BY <1>2, <2>1
<1>6. new = 1 => ~Makes(last - read, p)'
  <2> SUFFICES ASSUME new = 1 PROVE ~(Items'[last - read].rd # 0 /\ Items'[last - read].prd = p)
      BY DEF Makes
  <2>1. /\ Items'[last - read].rd = iq.rd
        /\ iq.rd # 0 => Items'[last - read].prd = fl_ring[Trunc(fl_tail + c[Size], N)] /\ c[Size] < N
      BY <1>1, NewRegister
  <2> QED BY <1>4, <2>1
<1>7. ASSUME NEW y2, y2 <=> y \/ \E w \in wb : w.rd # 0 /\ w.prd = p PROVE Heard(p, y2)'
    BY <1>1, <1>3, <1>5, <1>6, <1>7, HeardKept
<1>8. ASSUME NEW w \in wb, w.rd # 0, w.prd = p PROVE w.rd = r
  <2>1. Age(w.index) \in 0 .. Size - 1 /\ Makes(Age(w.index), w.prd) /\ Items[Age(w.index)].rd = w.rd
      BY <1>8, WriterMakes
  <2> QED BY <1>4, <1>8, <2>1 DEF Makes
<1> QED BY <1>7, <1>8

\* What the ready table and a waiting source hear.
LEMMA BroadcastIs ==
    /\ \A p : (\E x \in Broadcast : x[2] = p) <=> \E w \in wb : w.rd # 0 /\ w.prd = p
    /\ \A r, p : <<r, p>> \in Broadcast <=> \E w \in wb : w.rd # 0 /\ w.rd = r /\ w.prd = p
<1>1. \A x : x \in Broadcast <=> \E w \in wb : w.rd # 0 /\ x = <<w.rd, w.prd>>
    BY DEF Broadcast
<1>2. \A a, p : <<a, p>>[1] = a /\ <<a, p>>[2] = p
    OBVIOUS
<1>3. ASSUME NEW p
      PROVE  (\E x \in Broadcast : x[2] = p) <=> \E w \in wb : w.rd # 0 /\ w.prd = p
  <2>1. ASSUME NEW x \in Broadcast, x[2] = p PROVE \E w \in wb : w.rd # 0 /\ w.prd = p
    <3>1. PICK w \in wb : w.rd # 0 /\ x = <<w.rd, w.prd>>
        BY <1>1
    <3> QED BY <1>2, <2>1, <3>1
  <2>2. ASSUME NEW w \in wb, w.rd # 0, w.prd = p PROVE \E x \in Broadcast : x[2] = p
    <3>1. <<w.rd, w.prd>> \in Broadcast /\ <<w.rd, w.prd>>[2] = p
        BY <1>1, <1>2, <2>2
    <3> QED BY <3>1
  <2> QED BY <2>1, <2>2
<1>4. ASSUME NEW r, NEW p
      PROVE  <<r, p>> \in Broadcast <=> \E w \in wb : w.rd # 0 /\ w.rd = r /\ w.prd = p
  <2>1. \A a, q : <<r, p>> = <<a, q>> <=> r = a /\ p = q
      OBVIOUS
  <2> QED BY <1>1, <2>1, Zenon
<1> QED BY <1>3, <1>4

Hears(p) == \E w \in wb : w.rd # 0 /\ w.prd = p

LEMMA SnoopHears ==
    ASSUME NEW i \in Instr
    PROVE  /\ Snoop(i).rs = i.rs /\ Snoop(i).prs = i.prs
           /\ Snoop(i).rdy <=> i.rdy \/ (i.rs # 0 /\ Hears(i.prs))
           /\ LET j == [Snoop(i) EXCEPT !.index = gl_tail] IN
              j.rs = i.rs /\ j.prs = i.prs /\ j.rdy = Snoop(i).rdy
<1> DEFINE b == i.rdy \/ (i.rs # 0 /\ \E x \in Broadcast : x[2] = i.prs)
           s == [i EXCEPT !.rdy = b]
           j == [s EXCEPT !.index = gl_tail]
<1>0. i # None
    BY DEF Instr, None, AllKinds
<1>1. Snoop(i) = s
    BY <1>0 DEF Snoop
<1>2. b \in BOOLEAN /\ (b <=> i.rdy \/ (i.rs # 0 /\ Hears(i.prs)))
  <2>1. (\E x \in Broadcast : x[2] = i.prs) <=> Hears(i.prs)
      BY BroadcastIs DEF Hears
  <2> QED BY <2>1
<1> HIDE DEF b
<1>3. /\ s \in Instr /\ s.rs = i.rs /\ s.prs = i.prs /\ s.rdy = b
    BY <1>2 DEF Instr
<1>4. j.rs = s.rs /\ j.prs = s.prs /\ j.rdy = s.rdy
    BY <1>3 DEF Instr
<1> QED BY <1>1, <1>2, <1>3, <1>4

LEMMA RenamedReads ==
    ASSUME NEW iq, NEW busy, NEW f0, NEW f1, iq \in QueueHead(busy), iq # None
    PROVE  /\ iq.rs \in Reg /\ (iq.kind = "STORE" => iq.rd = 0)
           /\ LET i == Renamed(iq, busy, f0, f1) IN
              /\ i.rs = iq.rs /\ i.prs = RT!Mapping(iq.rs)
              /\ i.rdy <=> iq.rs = 0 \/ RT!Rdy(iq.rs, Broadcast)
<1>1. iq \in Fetched
    BY DEF QueueHead
<1>2. PICK k \in Kinds : iq \in [kind : {k}, rd : Destination(k), rs : Sources]
    BY <1>1 DEF Fetched
<1>3. Sources \subseteq Reg
    BY BackendConstants DEF Reg
<1>4. iq.rs \in Reg /\ iq.kind = k /\ iq.rd \in Destination(k)
    BY <1>2, <1>3
<1>5. iq.kind = "STORE" => iq.rd = 0
    BY <1>4 DEF Destination
<1> DEFINE i == Renamed(iq, busy, f0, f1)
           y == iq.rs = 0 \/ RT!Rdy(iq.rs, Broadcast)
           new == FL!NewRegister(reads(iq, busy, f0, f1), f0, f1)
           ck == do_checkpoint(iq, busy)
<1>6. i = [kind |-> iq.kind, rd |-> iq.rd, rs |-> iq.rs, prd |-> new,
           old |-> RT!Mapping(iq.rd), prs |-> RT!Mapping(iq.rs), rdy |-> y, ck |-> ck,
           chkp |-> rt_vh, index |-> NoIndex]
    BY Zenon DEF Renamed
<1> HIDE DEF i, y, new, ck
<1>7. i.rs = iq.rs /\ i.prs = RT!Mapping(iq.rs) /\ i.rdy = y
    BY <1>6
<1> QED BY <1>4, <1>5, <1>7 DEF i, y

\* The map behind the first k of those that stay.
MapsRight == \A c, m : Order(c, m) => \A n \in 0 .. Size, r \in Reg : MapAfter(n)[r] = m[n][r]

LEMMA MapsAre == Types => MapsRight
BY MapIs DEF MapsRight

LEMMA MapsMove ==
    ASSUME Types, Types', Pipe, Fenced, ~xq, ~xq',
           NEW c, NEW m, NEW b, Order(c, m), Versions(c, m, b), Conserved(fl_ring, rt_commit),
           NEW iq, NEW busy, NEW rrex, NEW ok, NEW brex, NEW fin, NEW memex, NEW done, NEW csrx,
           Clock(iq, busy, rrex, ok, brex, fin, memex, done, csrx),
           NEW read, NEW last, read = Retire(done, memex), last = Last,
           NEW k, k \in 0 .. last - read, NEW r \in Reg
    PROVE  /\ k + read \in 0 .. last /\ k + read \in 0 .. Size
           /\ MapAfter(k)'[r] = MapAfter(k + read)[r] /\ MapAfter(k)'[r] = m[k + read][r]
<1>1. PICK f0, f1, new, d :
          /\ f0 = Freed(1, done, memex, csrx) /\ f1 = Freed(2, done, memex, csrx)
          /\ new = Brings(iq, busy, f0, f1) /\ d = DataOf(Renamed(iq, busy, f0, f1))
    OBVIOUS
<1>2. PICK c2, m2 : c2 = ShiftC(c, read, last, d) /\ m2 = ShiftM(m, read, last, d)
    OBVIOUS
<1>3. /\ Order(ShiftC(c, read, last, d), ShiftM(m, read, last, d))'
      /\ read \in 0 .. 2 /\ last \in 0 .. Size /\ read \in 0 .. last
      /\ new \in {0, 1} /\ Size' = last - read + new
    BY <1>1, OrderAfter
<1>4. Order(c2, m2)'
    BY <1>2, <1>3
<1>5. Size \in 0 .. N /\ N \in Nat
    BY Heads, Sizes DEF Place
<1>6. k \in 0 .. Size' /\ k \in Place /\ k + read <= last /\ k + read \in 0 .. last /\ k + read \in 0 .. Size
    BY <1>3, <1>5 DEF Place
<1>7. m2[k] = m[k + read]
    BY <1>2, <1>6 DEF ShiftM
<1>8. MapAfter(k)'[r] = m2[k][r]
  <2>1. MapsRight'
      BY MapsAre, PTL
  <2> QED BY <1>4, <1>6, <2>1 DEF MapsRight
<1>9. MapAfter(k + read)[r] = m[k + read][r]
    BY <1>6, MapIs
<1> QED BY <1>6, <1>7, <1>8, <1>9

\* A reader with n instructions before it, all of which stay or retire.
LEMMA ReaderMoves ==
    ASSUME Types, Types', Pipe, Record, Fenced, ~xq, ~xq',
           rr # None /\ rr.kind = "STORE" => rr.rd = 0,
           NEW c, NEW m, NEW b, Order(c, m), Versions(c, m, b), Conserved(fl_ring, rt_commit),
           NEW iq, NEW busy, NEW rrex, NEW ok, NEW brex, NEW fin, NEW memex, NEW done, NEW csrx,
           Clock(iq, busy, rrex, ok, brex, fin, memex, done, csrx), ~commit_xcpt(memex),
           NEW read, NEW last, read = Retire(done, memex), last = Last,
           NEW n, n \in read .. last, NEW x, x.rs \in Reg, x.rdy \in BOOLEAN, Reads(x, n),
           NEW x2, x2.rs = x.rs, x2.prs = x.prs, x2.rdy <=> x.rdy \/ (x.rs # 0 /\ Hears(x.prs))
    PROVE  Reads(x2, n - read)'
<1>1. PICK f0, f1, new :
          /\ f0 = Freed(1, done, memex, csrx) /\ f1 = Freed(2, done, memex, csrx)
          /\ new = Brings(iq, busy, f0, f1)
    OBVIOUS
<1>2. read \in 0 .. 2 /\ last \in 0 .. Size /\ Size \in Nat
  <2>1. read \in 0 .. 2 /\ last \in 0 .. Size
      BY <1>1, ItemsAfter
  <2> QED BY <2>1, Heads, Sizes DEF Place
<1>3. n \in 0 .. last /\ n \in 0 .. Size /\ n - read \in 0 .. last - read /\ (n - read) + read = n
    BY <1>2
<1>4. CASE x.rs = 0
  <2>1. x2.rs = 0 /\ x2.rdy
      BY <1>4 DEF Reads
  <2> QED BY <2>1 DEF Reads
<1>5. CASE x.rs # 0
  <2>1. x.prs = MapAfter(n)[x.rs] /\ Heard(x.prs, x.rdy)
      BY <1>5 DEF Reads
  <2>2. MapAfter(n - read)'[x.rs] = MapAfter(n)[x.rs] /\ MapAfter(n - read)'[x.rs] = m[n][x.rs]
    <3>1. /\ MapAfter(n - read)'[x.rs] = MapAfter((n - read) + read)[x.rs]
          /\ MapAfter(n - read)'[x.rs] = m[(n - read) + read][x.rs]
        BY <1>3, MapsMove
    <3> QED BY <1>3, <3>1
  <2>3. PICK p, y, y2 : p = x.prs /\ y = x.rdy /\ y2 = x2.rdy
      OBVIOUS
  <2>4. p = m[n][x.rs] /\ Heard(p, y) /\ y \in BOOLEAN /\ (y2 <=> y \/ \E w \in wb : w.rd # 0 /\ w.prd = p)
      BY <1>5, <2>1, <2>2, <2>3 DEF Hears
  <2>5. Heard(p, y2)'
      BY <1>1, <1>3, <2>4, MapHeard
  <2>6. (x2.prs = MapAfter(n - read)[x2.rs])'
      BY <2>1, <2>2
  <2>7. Heard(x2.prs, x2.rdy)'
      BY <2>3, <2>5
  <2> QED BY <1>5, <2>6, <2>7 DEF Reads
<1> QED BY <1>4, <1>5

\* The source of a new instruction.
LEMMA NewReader ==
    ASSUME Types, Types', Pipe, Record, Fenced, ~xq, ~xq', Operands,
           NEW c, NEW m, NEW b, Order(c, m), Versions(c, m, b), Conserved(fl_ring, rt_commit),
           NEW iq, NEW busy, NEW rrex, NEW ok, NEW brex, NEW fin, NEW memex, NEW done, NEW csrx,
           Clock(iq, busy, rrex, ok, brex, fin, memex, done, csrx), ~commit_xcpt(memex),
           NEW f0, NEW f1, f0 = Freed(1, done, memex, csrx), f1 = Freed(2, done, memex, csrx),
           NEW read, NEW last, read = Retire(done, memex), last = Last, ~mis, renames(iq, busy, f0, f1),
           NEW x, x = Renamed(iq, busy, f0, f1), NEW z, z = Size - read
    PROVE  Reads(x, z)' /\ (x.kind = "STORE" => x.rd = 0)
<1>1. last = Size
    BY DEF Last
<1>2. iq # None /\ iq \in QueueHead(busy)
    BY DEF renames, Clock
<1>3. /\ iq.rs \in Reg /\ (iq.kind = "STORE" => iq.rd = 0)
      /\ x.rs = iq.rs /\ x.prs = RT!Mapping(iq.rs)
      /\ x.rdy <=> iq.rs = 0 \/ RT!Rdy(iq.rs, Broadcast)
      /\ x.kind = iq.kind /\ x.rd = iq.rd
    BY <1>2, RenamedReads, RenamedFields
<1>4. /\ fl_vh \in FL!Ckpt /\ VAge(fl_vh) = fl_ck /\ fl_ck \in Nat /\ rt_vh = fl_vh
      /\ \A r \in Reg : rt_map[r][fl_vh] = m[Size][r]
  <2>1. fl_ck \in Nat /\ rt_vh = fl_vh
      BY Sizes DEF Types, TypeOK, FL!TypeOK, VersionsTogether
  <2> QED BY <2>1, CurrentVersion
<1>5. Size \in Nat /\ Size \in 0 .. Size /\ read \in 0 .. 2 /\ read <= gl_num /\ read \in 0 .. Size /\ gl_num <= Size
  <2>0. gl_num \in 0 .. N - 1 /\ N \in Nat
      BY Sizes DEF Types, TypeOK, N
  <2>1. read \in 0 .. 2 /\ read <= gl_num /\ gl_num \in Nat
      BY <2>0, RetiresFinished
  <2>2. Size \in Nat /\ gl_num <= Size
      BY <2>1, Heads, Sizes DEF Place
  <2> QED BY <2>1, <2>2
<1>6. CASE iq.rs = 0
  <2>1. x.rs = 0 /\ x.rdy
      BY <1>3, <1>6
  <2> QED BY <1>3, <2>1 DEF Reads
<1>7. CASE iq.rs # 0
  <2>1. PICK r, p, y, y2 : r = iq.rs /\ p = rt_map[r][fl_vh] /\ y = rt_ready[r][fl_vh] /\ y2 = x.rdy
      OBVIOUS
  <2>2. r \in Reg /\ r # 0 /\ p = m[Size][r] /\ y \in BOOLEAN /\ x.prs = p /\ Heard(p, y)
    <3>1. r \in Reg /\ r # 0 /\ p = m[Size][r]
        BY <1>3, <1>4, <1>7, <2>1
    <3>2. y \in BOOLEAN
        BY <1>4, <2>1, <3>1 DEF Types, TypeOK
    <3>3. x.prs = p
        BY <1>3, <1>4, <2>1 DEF RT!Mapping
    <3>4. VAge(fl_vh) <= fl_ck
        BY <1>4
    <3>5. Heard(p, y)
        BY <1>4, <2>1, <3>1, <3>4 DEF Operands
    <3> QED BY <3>1, <3>2, <3>3, <3>5
  <2>3. rr # None /\ rr.kind = "STORE" => rr.rd = 0
      BY DEF Operands
  <2>4. /\ \A u : (u <=> y \/ \E w \in wb : w.rd # 0 /\ w.prd = p) => Heard(p, u)'
        /\ \A w \in wb : w.rd # 0 /\ w.prd = p => w.rd = r
      BY <1>1, <1>5, <2>2, <2>3, MapHeard
  <2>5. y2 <=> y \/ \E w \in wb : w.rd # 0 /\ w.prd = p
    <3>1. y2 <=> rt_ready[r][fl_vh] \/ <<r, rt_map[r][fl_vh]>> \in Broadcast
        BY <1>3, <1>4, <1>7, <2>1 DEF RT!Rdy, RT!Mapping
    <3>2. <<r, p>> \in Broadcast <=> \E w \in wb : w.rd # 0 /\ w.rd = r /\ w.prd = p
        BY BroadcastIs
    <3> QED BY <2>1, <2>4, <3>1, <3>2
  <2>6. Heard(p, y2)'
      BY <2>4, <2>5
  <2>7. MapAfter(z)'[r] = m[Size][r]
    <3>1. z \in 0 .. last - read /\ z + read = Size
        BY <1>1, <1>5
    <3>2. MapAfter(z)'[r] = m[z + read][r]
        BY <2>2, <3>1, MapsMove
    <3> QED BY <3>1, <3>2
  <2>8. x.rs = r /\ x.prs = MapAfter(z)'[x.rs] /\ Heard(x.prs, x.rdy)'
      BY <1>3, <2>1, <2>2, <2>6, <2>7
  <2>9. Reads(x, z)'
      BY <2>2, <2>8 DEF Reads
  <2> QED BY <1>3, <2>9
<1> QED BY <1>6, <1>7

\* RR and EXE go on knowing what they may know.
LEMMA ReadersKept ==
    ASSUME Types, Types', Pipe, Record, Fenced, ~xq, ~xq', Operands,
           NEW c, NEW m, NEW b, Order(c, m), Versions(c, m, b), Conserved(fl_ring, rt_commit),
           NEW iq, NEW busy, NEW rrex, NEW ok, NEW brex, NEW fin, NEW memex, NEW done, NEW csrx,
           Clock(iq, busy, rrex, ok, brex, fin, memex, done, csrx), ~commit_xcpt(memex)
    PROVE  /\ (rr # None => Reads(rr, gl_num) /\ (rr.kind = "STORE" => rr.rd = 0))'
           /\ (exe # None => Reads(exe, Age(exe.index)))'
<1>1. PICK f0, f1, read, last :
          /\ f0 = Freed(1, done, memex, csrx) /\ f1 = Freed(2, done, memex, csrx)
          /\ read = Retire(done, memex) /\ last = Last
    OBVIOUS
<1>2. /\ mis \/ cq => rr' = None
      /\ ~mis /\ stall_rr(busy) => rr' = Snoop(rr)
      /\ ~mis /\ ~stall_rr(busy) => rr' = IF renames(iq, busy, f0, f1) THEN Renamed(iq, busy, f0, f1)
                                          ELSE None
    BY <1>1, ReadAfter DEF Fenced
<1>3. exe' # None =>
        /\ ~mis
        /\ \/ exe # None /\ exe' = Snoop(exe)
           \/ Enters(busy) /\ exe' = [Snoop(rr) EXCEPT !.index = gl_tail]
    BY StagesAfter
<1>4. /\ read \in 0 .. 2 /\ read <= gl_num /\ gl_num \in 0 .. N - 1 /\ N \in Nat
      /\ gl_head \in Index /\ gl_tail \in Index /\ Age(gl_tail) = gl_num
      /\ \A i \in Index : read <= Age(i) => Dist(gl_head', i, N) = Age(i) - read
      /\ Size \in Nat /\ Size >= gl_num
  <2>1. gl_num \in 0 .. N - 1 /\ N \in Nat /\ gl_head \in Index /\ gl_tail \in Index
      BY Sizes DEF Types, TypeOK, N
  <2>2. read \in 0 .. 2 /\ read <= gl_num
      BY <1>1, RetiresFinished
  <2>3. /\ Age(gl_tail) = gl_num
        /\ \A i \in Index : read <= Age(i) => Dist(gl_head', i, N) = Age(i) - read
      BY <1>1, PlacesAfter
  <2> QED BY <2>1, <2>2, <2>3, Heads, Sizes DEF Place
<1>5. rr # None /\ rr.kind = "STORE" => rr.rd = 0
    BY DEF Operands
<1>6. \A x : x \in Instr \cup {None} /\ x # None => x \in Instr /\ x.rs \in Reg /\ x.rdy \in BOOLEAN
    BY DEF Instr
<1>7. ASSUME NEW x, NEW x2, NEW n, n \in read .. last, x \in Instr, x.rs \in Reg, x.rdy \in BOOLEAN, Reads(x, n),
             x2.rs = x.rs, x2.prs = x.prs, x2.rdy <=> x.rdy \/ (x.rs # 0 /\ Hears(x.prs))
      PROVE  Reads(x2, n - read)'
    BY <1>1, <1>5, <1>7, ReaderMoves
<1>8. ASSUME rr' # None PROVE (Reads(rr, gl_num) /\ (rr.kind = "STORE" => rr.rd = 0))'
  <2>1. ~mis /\ last = Size
      BY <1>1, <1>2, <1>8 DEF Last
  <2>2. CASE stall_rr(busy)
    <3>1. PICK x, x2, n : x = rr /\ x2 = rr' /\ n = gl_num
        OBVIOUS
    <3>2. x2 = Snoop(x) /\ x \in Instr /\ x.rs \in Reg /\ x.rdy \in BOOLEAN /\ rr # None
      <4>1. rr \in Instr \cup {None}
          BY DEF Types, TypeOK
      <4>2. rr' = Snoop(rr) /\ rr # None
          BY <1>2, <1>8, <2>1, <2>2, <4>1, SnoopKeeps
      <4> QED BY <1>6, <3>1, <4>1, <4>2
    <3>3. /\ x2.rs = x.rs /\ x2.prs = x.prs /\ x2.kind = x.kind /\ x2.rd = x.rd
          /\ x2.rdy <=> x.rdy \/ (x.rs # 0 /\ Hears(x.prs))
        BY <3>2, SnoopHears, SnoopCarries
    <3>4. n \in read .. last /\ Reads(x, n)
      <4>1. Reads(rr, gl_num)
          BY <3>2 DEF Operands
      <4> QED BY <1>4, <2>1, <3>1, <4>1
    <3>5. Reads(x2, n - read)'
        BY <1>7, <3>2, <3>3, <3>4
    <3>6. gl_num' = n - read
      <4>1. ~Enters(busy)
          BY <2>2 DEF Enters
      <4>2. gl_num' = gl_num + 0 - read
          BY <1>1, <2>1, <4>1, ListAfter
      <4> QED BY <1>4, <3>1, <4>2
    <3> QED BY <1>5, <3>1, <3>2, <3>3, <3>5, <3>6
  <2>3. CASE ~stall_rr(busy)
    <3>1. renames(iq, busy, f0, f1) /\ rr' = Renamed(iq, busy, f0, f1)
        BY <1>2, <1>8, <2>1, <2>3
    <3>2. PICK x, z : x = Renamed(iq, busy, f0, f1) /\ z = Size - read
        OBVIOUS
    <3>3. Reads(x, z)' /\ (x.kind = "STORE" => x.rd = 0)
        BY <1>1, <2>1, <3>1, <3>2, NewReader
    <3>4. gl_num' = z
      <4>1. Brings(iq, busy, f0, f1) = 1
          BY <2>1, <3>1 DEF Brings
      <4> QED BY <1>1, <3>2, <4>1, NewRegister
    <3> QED BY <3>1, <3>2, <3>3, <3>4
  <2> QED BY <2>2, <2>3
<1>9. ASSUME exe' # None PROVE Reads(exe, Age(exe.index))'
  <2>1. ~mis /\ last = Size
      BY <1>1, <1>3, <1>9 DEF Last
  <2>2. CASE exe # None /\ exe' = Snoop(exe)
    <3>1. PICK x, x2, n : x = exe /\ x2 = exe' /\ n = Age(exe.index)
        OBVIOUS
    <3>2. x2 = Snoop(x) /\ x \in Instr /\ x.rs \in Reg /\ x.rdy \in BOOLEAN
      <4>1. exe \in Instr \cup {None}
          BY DEF Types, TypeOK
      <4> QED BY <1>6, <2>2, <3>1, <4>1
    <3>3. /\ x2.rs = x.rs /\ x2.prs = x.prs /\ x2.index = x.index
          /\ x2.rdy <=> x.rdy \/ (x.rs # 0 /\ Hears(x.prs))
        BY <3>2, SnoopHears, SnoopCarries
    <3>4. x.index \in Index /\ n = gl_num - 1 /\ n \in 0 .. N - 1 /\ n = Age(x.index)
      <4>1. exe.index \in Index /\ Age(exe.index) = gl_num - 1
          BY <2>2 DEF Pipe, Owners, Owns, InOrderIssue, Issued
      <4>2. Age(exe.index) \in 0 .. N - 1
          BY <1>4, <4>1, Places DEF Age
      <4> QED BY <3>1, <4>1, <4>2
    <3>5. read <= n
      <4> SUFFICES ASSUME n < read PROVE FALSE
          BY <1>4, <3>4
      <4>1. done => \E u \in units : u.index = gl_head
          BY DEF Clock, Inputs
      <4>2. exe \in wb \cup Issued
          BY <2>2 DEF Issued
      <4>3. exe # exe
          BY <1>1, <3>1, <4>1, <4>2, UnfinishedStay
      <4> QED BY <4>3
    <3>6. n \in read .. last /\ Reads(x, n)
      <4>1. Reads(exe, Age(exe.index))
          BY <2>2 DEF Operands
      <4> QED BY <1>4, <2>1, <3>1, <3>4, <3>5, <4>1
    <3>7. Reads(x2, n - read)'
        BY <1>7, <3>2, <3>3, <3>6
    <3>8. Age(exe.index)' = n - read
        BY <1>4, <3>1, <3>3, <3>4, <3>5 DEF Age
    <3> QED BY <3>1, <3>7, <3>8
  <2>3. CASE Enters(busy) /\ exe' = [Snoop(rr) EXCEPT !.index = gl_tail]
    <3>1. PICK x, x2, n : x = rr /\ x2 = exe' /\ n = gl_num
        OBVIOUS
    <3>2. /\ x2 = [Snoop(x) EXCEPT !.index = gl_tail] /\ rr # None
          /\ x \in Instr /\ x.rs \in Reg /\ x.rdy \in BOOLEAN
      <4>1. rr \in Instr \cup {None} /\ rr # None
          BY <2>3 DEF Types, TypeOK, Enters
      <4> QED BY <1>6, <2>3, <3>1, <4>1
    <3>3. /\ x2.rs = x.rs /\ x2.prs = x.prs /\ x2.index = gl_tail
          /\ x2.rdy <=> x.rdy \/ (x.rs # 0 /\ Hears(x.prs))
        BY <3>2, SnoopHears, SnoopCarries
    <3>4. n \in read .. last /\ Reads(x, n)
      <4>1. Reads(rr, gl_num)
          BY <3>2 DEF Operands
      <4> QED BY <1>4, <2>1, <3>1, <4>1
    <3>5. Reads(x2, n - read)'
        BY <1>7, <3>2, <3>3, <3>4
    <3>6. Age(exe.index)' = n - read
        BY <1>4, <3>1, <3>3 DEF Age
    <3> QED BY <3>1, <3>5, <3>6
  <2> QED BY <1>3, <1>9, <2>2, <2>3
<1> QED BY <1>8, <1>9

\* A version of the table behind instructions that all stay.
LEMMA VersionHeard ==
    ASSUME Types, Types', Pipe, Record, Fenced, ~xq, ~xq', Operands,
           NEW c, NEW m, NEW b, Order(c, m), Versions(c, m, b), Conserved(fl_ring, rt_commit),
           NEW iq, NEW busy, NEW rrex, NEW ok, NEW brex, NEW fin, NEW memex, NEW done, NEW csrx,
           Clock(iq, busy, rrex, ok, brex, fin, memex, done, csrx), ~commit_xcpt(memex),
           NEW last, last = Last,
           NEW v \in FL!Ckpt, VAge(v) <= fl_ck, b[v] <= last, NEW r \in Reg, r # 0,
           NEW p, p = rt_map[r][v], NEW y2, y2 <=> RT!Marked(r, v, Broadcast)
    PROVE  Heard(p, y2)'
<1>1. PICK f0, f1, read, new :
          /\ f0 = Freed(1, done, memex, csrx) /\ f1 = Freed(2, done, memex, csrx)
          /\ read = Retire(done, memex) /\ new = Brings(iq, busy, f0, f1)
    OBVIOUS
<1>2. last \in 0 .. Size /\ Size \in Nat
    BY <1>1, ItemsAfter, Heads, Sizes DEF Place
<1>3. PICK n, y : n = b[v] /\ y = rt_ready[r][v]
    OBVIOUS
<1>4. n \in 0 .. last /\ p = m[n][r]
  <2>1. b[v] \in 0 .. Size /\ rt_map[r][v] = m[b[v]][r]
      BY DEF Versions, Marks, VAge
  <2> QED BY <1>2, <1>3, <2>1
<1>5. y \in BOOLEAN /\ Heard(p, y)
  <2>1. y \in BOOLEAN
      BY <1>3 DEF Types, TypeOK
  <2> QED BY <1>3, <2>1 DEF Operands
<1>6. rr # None /\ rr.kind = "STORE" => rr.rd = 0
    BY DEF Operands
<1>7. /\ \A z : (z <=> y \/ \E w \in wb : w.rd # 0 /\ w.prd = p) => Heard(p, z)'
      /\ \A w \in wb : w.rd # 0 /\ w.prd = p => w.rd = r
    BY <1>1, <1>4, <1>5, <1>6, MapHeard
<1>8. y2 <=> y \/ \E w \in wb : w.rd # 0 /\ w.prd = p
  <2>1. y2 <=> y \/ <<r, p>> \in Broadcast
      BY <1>3 DEF RT!Marked
  <2>2. <<r, p>> \in Broadcast <=> \E w \in wb : w.rd # 0 /\ w.rd = r /\ w.prd = p
      BY BroadcastIs
  <2> QED BY <1>7, <2>1, <2>2
<1> QED BY <1>7, <1>8

TablesHeard == \A r \in Reg, v \in FL!Ckpt : r # 0 /\ VAge(v) <= fl_ck => Heard(rt_map[r][v], rt_ready[r][v])

LEMMA TablesRecovered ==
    ASSUME Types, Types', Pipe, Record, Fenced, ~xq, ~xq', Operands, mis,
           NEW c, NEW m, NEW b, Renaming(c, m, b), Conserved(fl_ring, rt_commit),
           NEW iq, NEW busy, NEW rrex, NEW ok, NEW brex, NEW fin, NEW memex, NEW done, NEW csrx,
           Clock(iq, busy, rrex, ok, brex, fin, memex, done, csrx), ~commit_xcpt(memex)
    PROVE  TablesHeard'
<1>1. PICK f0, f1, k0, k1, last :
          /\ f0 = Freed(1, done, memex, csrx) /\ f1 = Freed(2, done, memex, csrx)
          /\ k0 = Committed(1, done, memex, csrx) /\ k1 = Committed(2, done, memex, csrx)
          /\ last = Last
    OBVIOUS
<1>2. Order(c, m) /\ Versions(c, m, b) /\ Branches(b)
    BY DEF Renaming
<1>3. missed \in wb /\ ~missed.ok
    BY DEF mis, missed, Mispredicted
<1>4. PICK v0 : v0 = missed.chkp
    OBVIOUS
<1>5. missed.ck /\ VAge(v0) < fl_ck /\ last = b[v0] /\ v0 \in FL!Ckpt
  <2>1. missed.ck
      BY <1>2, <1>3 DEF Branches
  <2>2. VAge(missed.chkp) < fl_ck /\ b[missed.chkp] = Age(missed.index) + 1
      BY <1>2, <1>3, <2>1 DEF Branches
  <2>3. missed.chkp \in FL!Ckpt
      BY <1>3 DEF Types, TypeOK, Result
  <2> QED BY <1>1, <1>4, <2>1, <2>2, <2>3 DEF Last
<1>6. do_recover /\ delete_checkpoint = 0
  <2>1. do_recover
      BY <1>5 DEF do_recover
  <2>2. \A x \in wb : x.ck => ~x.ok
      BY <1>2, <1>3, <1>5 DEF Branches
  <2> QED BY <2>1, <2>2 DEF delete_checkpoint
<1>7. FL!Recover(f0, f1, v0, 0) /\ RT!Recover(k0, k1, Broadcast, v0, 0)
    BY <1>1, <1>4, <1>6, RenameStep
<1>8. /\ fl_vt \in FL!Ckpt /\ fl_ck \in Nat /\ NC \in Nat /\ NC >= 2 /\ FL!Ckpt = 0 .. NC - 1
    BY Sizes DEF Types, TypeOK, FL!TypeOK, NC
<1>9. /\ fl_vt' = fl_vt /\ fl_ck' = VAge(v0) /\ rt_map' = rt_map
      /\ \A r \in Reg, v \in FL!Ckpt : rt_ready'[r][v] = RT!Marked(r, v, Broadcast)
  <2>1. /\ rt_map' = rt_map
        /\ rt_ready' = [r \in RT!Isa |-> [v \in RT!Ckpt |-> RT!Marked(r, v, Broadcast)]]
      BY <1>7 DEF RT!Recover
  <2>2. RT!Isa = Reg /\ RT!Ckpt = FL!Ckpt
      BY Sizes
  <2>3. fl_vt' = FL!Ver(fl_vt + 0) /\ fl_ck' = FL!Dist(fl_vt, v0, NUM_CHECKPOINTS)
      BY <1>7 DEF FL!Recover
  <2>4. FL!Ver(fl_vt + 0) = Trunc(fl_vt + 0, NC) /\ FL!Dist(fl_vt, v0, NUM_CHECKPOINTS) = Dist(fl_vt, v0, NC)
      BY SameWrap, Zenon DEF FL!Ver, NC
  <2>5. Trunc(fl_vt + 0, NC) = fl_vt
      BY <1>8 DEF Trunc
  <2> QED BY <2>1, <2>2, <2>3, <2>4, <2>5 DEF VAge
<1>10. \A v \in FL!Ckpt : VAge(v) \in 0 .. NC - 1
    BY <1>8 DEF VAge, Dist, Trunc
<1>11. \A v \in FL!Ckpt : VAge(v) = VAge(v0) => v = v0
    BY <1>5, <1>8 DEF VAge, Dist, Trunc
<1>12. ASSUME NEW r \in Reg, NEW v \in FL!Ckpt, r # 0, VAge(v) <= VAge(v0)
       PROVE  Heard(rt_map[r][v], rt_ready[r][v])'
  <2>1. VAge(v) < fl_ck /\ VAge(v) <= fl_ck /\ b[v] <= last
    <3>1. VAge(v) < fl_ck /\ VAge(v) <= fl_ck
        BY <1>5, <1>8, <1>10, <1>12
    <3>2. b[v] \in 0 .. Size /\ b[v0] \in Int
        BY <1>2, <1>5, <3>1 DEF Versions, Marks, VAge
    <3>3. VAge(v) < VAge(v0) => b[v] < b[v0]
        BY <1>2, <1>5 DEF Versions, Marks, VAge
    <3>4. Size \in Nat
        BY Heads, Sizes DEF Place
    <3> QED BY <1>5, <1>10, <1>11, <1>12, <3>1, <3>2, <3>3, <3>4
  <2>2. PICK p, y2 : p = rt_map[r][v] /\ y2 = rt_ready'[r][v]
      OBVIOUS
  <2>3. y2 <=> RT!Marked(r, v, Broadcast)
      BY <1>9, <2>2
  <2>4. Heard(p, y2)'
      BY <1>1, <1>2, <1>12, <2>1, <2>2, <2>3, VersionHeard
  <2> QED BY <1>9, <2>2, <2>4
<1>13. \A v : VAge(v)' = VAge(v)
    BY <1>9 DEF VAge
<1> QED BY <1>9, <1>12, <1>13 DEF TablesHeard

\* A version that is not written is not the current one afterwards.
LEMMA VersionPast ==
    ASSUME NEW vt, NEW ck, NEW del, NEW take, NEW vh, NEW v, NEW cur, NEW vt2, NEW ck2,
           Turned(vt, ck, vh, del, take, cur, vt2, ck2), v \in FL!Ckpt, v \notin cur, Dist(vt2, v, NC) <= ck2
    PROVE  Dist(vt, v, NC) < ck
<1>1. NC \in Nat /\ NC >= 2 /\ v \in 0 .. NC - 1
    BY Sizes DEF NC
<1>2. Trunc(vh + take, NC) = Trunc(vt2 + ck2, NC)
  <2>1. /\ vt \in 0 .. NC - 1 /\ ck \in 0 .. NC - 1 /\ del \in {0, 1} /\ take \in {0, 1} /\ del <= ck
        /\ take = 1 => ck < NC - 1
      BY DEF Turned
  <2>2. Trunc(Trunc(vt + ck, NC) + take, NC) = Trunc(Trunc(vt + del, NC) + (ck + take - del), NC)
      BY <1>1, <2>1 DEF Trunc
  <2> QED BY <2>2, Zenon DEF Turned
<1>3. vt2 \in 0 .. NC - 1 /\ ck2 \in 0 .. NC - 1
    BY <1>1 DEF Turned, Trunc
<1>4. Dist(vt2, v, NC) \in 0 .. NC - 1 /\ (Dist(vt2, v, NC) = ck2 => v = Trunc(vt2 + ck2, NC))
    BY <1>1, <1>3 DEF Dist, Trunc
<1>5. Trunc(vh + take, NC) \in cur
    BY DEF Turned
<1>6. Dist(vt2, v, NC) < ck2
    BY <1>2, <1>3, <1>4, <1>5
<1> QED BY <1>6, VersionStays

LEMMA TablesAdvanced ==
    ASSUME Types, Types', Pipe, Record, Fenced, ~xq, ~xq', Operands, ~mis,
           NEW c, NEW m, NEW b, Renaming(c, m, b), Conserved(fl_ring, rt_commit),
           NEW iq, NEW busy, NEW rrex, NEW ok, NEW brex, NEW fin, NEW memex, NEW done, NEW csrx,
           Clock(iq, busy, rrex, ok, brex, fin, memex, done, csrx), ~commit_xcpt(memex)
    PROVE  TablesHeard'
<1>1. PICK f0, f1, k0, k1, read, last :
          /\ f0 = Freed(1, done, memex, csrx) /\ f1 = Freed(2, done, memex, csrx)
          /\ k0 = Committed(1, done, memex, csrx) /\ k1 = Committed(2, done, memex, csrx)
          /\ read = Retire(done, memex) /\ last = Last
    OBVIOUS
<1>2. Order(c, m) /\ Versions(c, m, b) /\ Branches(b)
    BY DEF Renaming
<1>3. last = Size /\ ~do_recover
    BY <1>1 DEF Last, do_recover
<1>4. PICK do, del, take, one, cur, y, gets, write :
          /\ do = do_checkpoint(iq, busy) /\ del = delete_checkpoint
          /\ gets = reads(iq, busy, f0, f1)
          /\ take = (IF do THEN 1 ELSE 0) /\ one = (IF FL!ReadEnable(gets, f0, f1) THEN 1 ELSE 0)
          /\ cur = {fl_vh, Trunc(fl_vh + take, NC)} /\ y = FL!Writes(f0, f1)
          /\ write = IF renames(iq, busy, f0, f1)
                     THEN [rd |-> iq.rd, prd |-> FL!NewRegister(gets, f0, f1)]
                     ELSE RT!NoReg
    OBVIOUS
<1>5. FL!Advance(gets, f0, f1, do, del) /\ RT!Advance(write, k0, k1, Broadcast, do, del) /\ iq \in QueueHead(busy)
    BY <1>1, <1>3, <1>4, RenameStep
<1>6. /\ fl_vt \in 0 .. NC - 1 /\ fl_ck \in 0 .. NC - 1 /\ Size \in Nat
      /\ NC \in Nat /\ NC >= 2 /\ FL!Ckpt = 0 .. NC - 1 /\ fl_vh = Trunc(fl_vt + fl_ck, NC) /\ fl_vh \in FL!Ckpt
      /\ fl_ck < NC /\ rt_vh = fl_vh /\ rt_ck = fl_ck
  <2>1. fl_vt \in FL!Ckpt /\ fl_ck \in Nat /\ fl_vh \in FL!Ckpt /\ rt_vh = fl_vh /\ rt_ck = fl_ck
      BY Sizes DEF Types, TypeOK, FL!TypeOK, VersionsTogether
  <2>2. fl_ck < NC /\ fl_vh = Trunc(fl_vt + fl_ck, NC)
      BY <1>2 DEF Versions, Marks
  <2>3. NC \in Nat /\ NC >= 2 /\ FL!Ckpt = 0 .. NC - 1
      BY Sizes DEF NC
  <2>4. Size \in Nat
      BY Heads, Sizes DEF Place
  <2> QED BY <2>1, <2>2, <2>3, <2>4
<1>7. del \in {0, 1} /\ del <= fl_ck
  <2>1. CASE \E w \in wb : w.ok /\ w.ck
    <3>1. PICK w \in wb : w.ck
        BY <2>1
    <3>2. VAge(w.chkp) < fl_ck /\ w.chkp \in FL!Ckpt
        BY <1>2, <3>1 DEF Branches, Types, TypeOK, Result
    <3>3. VAge(w.chkp) \in 0 .. NC - 1
        BY <1>6, <3>2 DEF VAge, Dist, Trunc
    <3>4. fl_ck >= 1
        BY <1>6, <3>2, <3>3
    <3> QED BY <1>4, <1>6, <2>1, <3>4 DEF delete_checkpoint
  <2>2. CASE ~\E w \in wb : w.ok /\ w.ck
      BY <1>4, <1>6, <2>2 DEF delete_checkpoint
  <2> QED BY <2>1, <2>2
<1>8. /\ renames(iq, busy, f0, f1) => iq.rd \in Reg
      /\ do => fl_ck < NC - 1
    BY <1>2, <1>4, <1>5, NewItem
<1>9. /\ take \in {0, 1}
      /\ fl_vt' = Trunc(fl_vt + del, NC) /\ fl_ck' = fl_ck + take - del
      /\ \A r \in Reg, v \in FL!Ckpt :
            rt_map'[r][v] = IF v \in cur THEN (IF RT!Writes(write) /\ write.rd = r THEN write.prd
                                               ELSE rt_map[r][fl_vh])
                            ELSE rt_map[r][v]
  <2>1. Taking(gets, f0, f1, do, take, one, cur, y)
      BY <1>4 DEF Taking
  <2> QED BY <1>5, <1>6, <1>7, <1>8, <2>1, TablesAdvance
<1>10. Turned(fl_vt, fl_ck, fl_vh, del, take, cur, fl_vt', fl_ck')
    BY <1>4, <1>6, <1>7, <1>8, <1>9 DEF Turned
<1>11. \A r \in Reg, v \in FL!Ckpt :
           rt_ready'[r][v] <=> IF v \in cur THEN ~(RT!Writes(write) /\ write.rd = r) /\ RT!Marked(r, fl_vh, Broadcast)
                               ELSE RT!Marked(r, v, Broadcast)
  <2>1. {rt_vh} \cup (IF RT!CheckpointEnable(do) THEN {RT!Ver(rt_vh + 1)} ELSE {}) = cur
    <3>1. RT!CheckpointEnable(do) <=> do
        BY <1>6, <1>8 DEF RT!CheckpointEnable, NC
    <3>2. \A x : RT!Ver(x) = Trunc(x, NC)
        BY SameWrap, Zenon DEF RT!Ver, NC
    <3>3. Trunc(fl_vh + 0, NC) = fl_vh
        BY <1>6 DEF Trunc
    <3>4. CASE do
        BY <1>4, <1>6, <3>1, <3>2, <3>4
    <3>5. CASE ~do
        BY <1>4, <1>6, <3>1, <3>3, <3>5
    <3> QED BY <3>4, <3>5
  <2>2. rt_ready' = [r \in RT!Isa |-> [v \in RT!Ckpt |->
            IF v \notin cur THEN RT!Marked(r, v, Broadcast)
            ELSE ~(RT!Writes(write) /\ write.rd = r) /\ RT!Marked(r, rt_vh, Broadcast)]]
      BY <1>5, <2>1 DEF RT!Advance
  <2>3. RT!Isa = Reg /\ RT!Ckpt = FL!Ckpt
      BY Sizes
  <2> QED BY <1>6, <2>2, <2>3
<1>12. ASSUME NEW r \in Reg, NEW v \in FL!Ckpt, r # 0, Dist(fl_vt', v, NC) <= fl_ck'
       PROVE  Heard(rt_map[r][v], rt_ready[r][v])'
  <2>1. PICK p, y2 : p = rt_map'[r][v] /\ y2 = rt_ready'[r][v]
      OBVIOUS
  <2> SUFFICES Heard(p, y2)'
      BY <2>1
  <2>2. CASE v \in cur /\ RT!Writes(write) /\ write.rd = r
    <3>1. ~y2 /\ p = write.prd
        BY <1>9, <1>11, <2>1, <2>2
    <3>2. renames(iq, busy, f0, f1)
        BY <1>4, <2>2 DEF RT!Writes
    <3>3. write.rd = iq.rd /\ write.prd = FL!NewRegister(gets, f0, f1)
        BY <1>4, <3>2
    <3>4. PICK k : k = last - read
        OBVIOUS
    <3>5. /\ Size' = Size - read + 1 /\ gl_num' = Size - read
          /\ Items'[k].rd = iq.rd /\ Items'[k].prd = FL!NewRegister(gets, f0, f1)
      <4>1. Brings(iq, busy, f0, f1) = 1
          BY <3>2 DEF Brings
      <4>2. /\ Size' = Size - read + 1 /\ gl_num' = Size - read
            /\ Items'[last - read].rd = iq.rd
            /\ Items'[last - read].prd = FL!NewRegister(reads(iq, busy, f0, f1), f0, f1)
          BY <1>1, <1>2, <4>1, NewRegister
      <4> QED BY <1>4, <3>4, <4>2
    <3>6. Makes(k, p)'
        BY <1>12, <2>2, <3>1, <3>3, <3>5 DEF Makes
    <3>7. k \in 0 .. Size' - 1 /\ ~(k < gl_num')
      <4>1. read \in 0 .. 2 /\ read <= gl_num
          BY <1>1, RetiresFinished
      <4>2. gl_num \in 0 .. N - 1 /\ N \in Nat
          BY Sizes DEF Types, TypeOK, N
      <4>3. Size >= gl_num
          BY Heads
      <4> QED BY <1>3, <1>6, <3>4, <3>5, <4>1, <4>2, <4>3
    <3>8. Unfinished(k)'
        BY <3>7 DEF Unfinished
    <3> QED BY <3>1, <3>6, <3>7, <3>8 DEF Heard
  <2>3. CASE v \in cur /\ ~(RT!Writes(write) /\ write.rd = r)
    <3>1. p = rt_map[r][fl_vh] /\ (y2 <=> RT!Marked(r, fl_vh, Broadcast))
        BY <1>9, <1>11, <2>1, <2>3
    <3>2. VAge(fl_vh) = fl_ck /\ b[fl_vh] = Size
        BY <1>2, CurrentVersion
    <3>3. VAge(fl_vh) <= fl_ck /\ b[fl_vh] <= last
        BY <1>3, <1>6, <3>2
    <3> QED BY <1>1, <1>2, <1>6, <1>12, <3>1, <3>3, VersionHeard
  <2>4. CASE v \notin cur
    <3>1. p = rt_map[r][v] /\ (y2 <=> RT!Marked(r, v, Broadcast))
        BY <1>9, <1>11, <2>1, <2>4
    <3>2. VAge(v) < fl_ck
        BY <1>10, <1>12, <2>4, VersionPast DEF VAge
    <3>3. VAge(v) <= fl_ck
      <4>1. VAge(v) \in 0 .. NC - 1
          BY <1>6 DEF VAge, Dist, Trunc
      <4> QED BY <1>6, <3>2, <4>1
    <3>4. b[v] <= last
      <4>1. b[v] \in 0 .. Size
          BY <1>2, <3>3 DEF Versions, Marks, VAge
      <4> QED BY <1>3, <1>6, <4>1
    <3> QED BY <1>1, <1>2, <1>12, <3>1, <3>3, <3>4, VersionHeard
  <2> QED BY <2>2, <2>3, <2>4
<1> QED BY <1>12 DEF TablesHeard, VAge

\* A cycle that takes no exception.
LEMMA OperandsKept ==
    ASSUME Types, Types', Pipe, Record, Fenced, ~xq, ~xq', Operands, NInv,
           NEW iq, NEW busy, NEW rrex, NEW ok, NEW brex, NEW fin, NEW memex, NEW done, NEW csrx,
           Clock(iq, busy, rrex, ok, brex, fin, memex, done, csrx), ~commit_xcpt(memex)
    PROVE  Operands'
<1>1. PICK c, m, b : Renaming(c, m, b)
    BY DEF NInv
<1>2. Order(c, m) /\ Versions(c, m, b) /\ Conserved(fl_ring, rt_commit)
    BY <1>1 DEF Renaming, NInv
<1>3. /\ (rr # None => Reads(rr, gl_num) /\ (rr.kind = "STORE" => rr.rd = 0))'
      /\ (exe # None => Reads(exe, Age(exe.index)))'
    BY <1>2, ReadersKept
<1>4. TablesHeard'
    BY <1>1, <1>2, TablesRecovered, TablesAdvanced
<1> QED BY <1>3, <1>4 DEF Operands, TablesHeard

\* Nothing in flight, and everything ready: after reset, and after an exception.
Still == Fresh /\ gl_head \in Index /\ \A r \in Reg : rt_ready[r][0] = TRUE

LEMMA StillOperands == Still => OInv
<1> SUFFICES ASSUME Still PROVE OInv
    OBVIOUS
<1>1. Size = 0 /\ gl_num = 0
    BY DEF Still, Fresh, Size
<1>2. /\ NC \in Nat /\ NC >= 2 /\ FL!Ckpt = 0 .. NC - 1
    BY Sizes DEF NC
<1>3. \A v \in FL!Ckpt : VAge(v) <= fl_ck => v = 0
    BY <1>2 DEF Still, Fresh, VAge, Dist, Trunc
<1>4. \A p, y : y => Heard(p, y)
    BY <1>1 DEF Heard
<1>5. ASSUME NEW i \in Index PROVE ~Live(i)
  <2>1. Dist(gl_head, i, N) \in 0 .. N - 1 /\ N \in Nat
      BY Places, Sizes DEF Still
  <2> QED BY <1>1, <2>1 DEF Live, N
<1>6. Driven
    BY <1>5 DEF Driven
<1>7. rr = None /\ exe = None
    BY DEF Still, Fresh
<1> QED BY <1>3, <1>4, <1>6, <1>7 DEF OInv, Operands, Still

LEMMA InitOInv == Init => OInv
<1> SUFFICES ASSUME Init PROVE Still
    BY StillOperands
<1>1. /\ gl_num = 0 /\ gl_head = 0 /\ rr = None /\ exe = None /\ wb = {}
      /\ fl_ck = 0 /\ fl_vh = 0 /\ fl_vt = 0 /\ fl_tail = 0
      /\ fl_num = [v \in FL!Ckpt |-> NUM_ENTRIES] /\ fl_head = [v \in FL!Ckpt |-> 0]
      /\ rt_map = [r \in Reg |-> [v \in FL!Ckpt |-> r]] /\ rt_commit = [r \in Reg |-> r]
      /\ rt_ready = [r \in Reg |-> [v \in FL!Ckpt |-> TRUE]]
    BY Sizes, Zenon DEF Init, FL!Init, RT!Init, GL!GlInit
<1>2. 0 \in FL!Ckpt /\ 0 \in 0 .. N - 1 /\ 0 \in Index
    BY Sizes
<1> QED BY <1>1, <1>2 DEF Still, Fresh, N

LEMMA StillAfter ==
    ASSUME Types, Types', xq, Conserved(fl_ring, rt_commit),
           NEW iq, NEW busy, NEW rrex, NEW ok, NEW brex, NEW fin, NEW memex, NEW done, NEW csrx,
           Clock(iq, busy, rrex, ok, brex, fin, memex, done, csrx)
    PROVE  Still'
<1>1. Fresh'
    BY FreshAfter
<1>2. RT!RecoverCommit
    BY Zenon DEF Clock, Cycle, Rename
<1>3. rt_ready' = [r \in Reg |-> [rt_ready[r] EXCEPT ![0] = TRUE]]
  <2>1. RT!Isa = Reg
      BY DEF RT!Isa, Reg
  <2> QED BY <1>2, <2>1, Zenon DEF RT!RecoverCommit
<1>4. rt_ready \in [Reg -> [FL!Ckpt -> BOOLEAN]] /\ 0 \in FL!Ckpt
  <2>1. 0 \in FL!Ckpt
      BY Sizes
  <2> QED BY <2>1, Zenon DEF Types, TypeOK
<1>5. \A r \in Reg : rt_ready'[r][0] = TRUE
    BY <1>3, <1>4
<1>6. gl_head' \in Index
    BY DEF Types, TypeOK
<1> QED BY <1>1, <1>5, <1>6 DEF Still

LEMMA OInvStutters ==
    ASSUME OInv, UNCHANGED vars
    PROVE  OInv'
<1>1. UNCHANGED <<fl_head, fl_tail, fl_num, fl_ring, fl_vh, fl_vt, fl_ck, rt_map, rt_ready, rt_commit,
                  rt_vh, rt_vt, rt_ck, gl_head, gl_tail, gl_num, gl_valid, gl_entries, gl_ex,
                  rr, exe, units, wb, xq, cq, fence>>
    BY DEF vars, flVars, rtVars, glVars
<1>2. Items' = Items /\ Size' = Size
    BY <1>1, Zenon DEF Items, Item, Size, Taken
<1>3. \A n : MapAfter(n)' = MapAfter(n)
  <2>1. InFlight' = InFlight
      BY <1>1, Zenon DEF InFlight
  <2>2. rt_commit' = rt_commit
      BY <1>1
  <2>3. ASSUME NEW n PROVE MapAfter(n)' = MapAfter(n)
    <3>1. PICK f, g : f = InFlight /\ g = rt_commit
        OBVIOUS
    <3> DEFINE M == [r \in Reg |->
                      LET writers == {j \in 1 .. n : f[j].rd = r /\ r # 0} IN
                      IF writers = {} THEN g[r]
                      ELSE f[CHOOSE j \in writers : \A k \in writers : k <= j].prd]
    <3>2. MapAfter(n) = M
        BY <3>1 DEF MapAfter
    <3>3. MapAfter(n)' = M
        BY <2>1, <2>2, <3>1 DEF MapAfter
    <3> QED BY <3>2, <3>3
  <2> QED BY <2>3
<1>4. \A p, y : Heard(p, y)' = Heard(p, y)
    BY <1>1, <1>2, Zenon DEF Heard, Makes, Unfinished, Failed
<1>5. \A i, n : Reads(i, n)' = Reads(i, n)
    BY <1>3, <1>4, Zenon DEF Reads
<1>6. Driven' = Driven
    BY <1>1, Zenon DEF Driven, Live, Issued
<1>7. Operands' = Operands
    BY <1>1, <1>4, <1>5, Zenon DEF Operands, VAge, Age
<1> QED BY <1>1, <1>6, <1>7, Zenon DEF OInv

LEMMA OInvKept == BInv /\ NInv /\ OInv /\ [Next]_vars => OInv'
<1> SUFFICES ASSUME BInv, NInv, OInv, [Next]_vars PROVE OInv'
    OBVIOUS
<1>1. CASE UNCHANGED vars
    BY <1>1, OInvStutters
<1>2. CASE Next
  <2>1. PICK iq, busy, rrex, ok, brex, fin, memex, done, csrx :
           Clock(iq, busy, rrex, ok, brex, fin, memex, done, csrx)
      BY <1>2, NextIsClock
  <2>2. Types /\ Types' /\ Conserved(fl_ring, rt_commit)
      BY IInvKept DEF BInv, IInv, NInv
  <2>3. CASE xq
    <3>1. Still'
        BY <2>1, <2>2, <2>3, StillAfter
    <3> QED BY <3>1, StillOperands, PTL
  <2>4. CASE ~xq /\ xq'
      BY <2>4 DEF OInv
  <2>5. CASE ~xq /\ ~xq'
    <3>1. Pipe /\ Record /\ Fenced /\ Driven /\ Operands
        BY <2>5 DEF BInv, IInv, RInv, FInv, OInv
    <3>2. ~commit_xcpt(memex)
      <4>1. xq' = exception_enable_d(memex, csrx)
          BY <2>1, Zenon DEF Clock, Cycle
      <4> QED BY <2>5, <4>1 DEF exception_enable_d
    <3>3. Driven'
        BY <2>1, <2>2, <2>5, <3>1, <3>2, DrivenKept
    <3>4. Operands'
        BY <2>1, <2>2, <2>5, <3>1, <3>2, OperandsKept
    <3> QED BY <3>3, <3>4 DEF OInv
  <2> QED BY <2>3, <2>4, <2>5
<1> QED BY <1>1, <1>2

LEMMA Operating == Spec => [](BInv /\ NInv /\ OInv)
BY BInvKept, InitNInv, NInvKept, InitOInv, OInvKept, PTL DEF Spec
-----------------------------------------------------------------------------
(* The theorems about operands and about waiting.                            *)

\* What a reader with n instructions before it knows of them.
LEMMA ReaderKnows ==
    ASSUME Types, NInv, ~xq, NEW n, n \in 0 .. gl_num, NEW i, i.rs \in Reg, i.rs # 0, Reads(i, n)
    PROVE  LET producers == {j \in 1 .. n : InFlight[j].rd # 0 /\ InFlight[j].prd = i.prs}
               waits(j) == ~gl_valid[GL!GlPtr(gl_head + j - 1)]
               fails(j) == gl_entries[GL!GlPtr(gl_head + j - 1)].ex
           IN /\ i.prs = MapAfter(n)[i.rs]
              /\ i.rdy => \A j \in producers : ~waits(j)
              /\ ~i.rdy => \E j \in producers : waits(j) \/ fails(j)
<1> DEFINE producers == {j \in 1 .. n : InFlight[j].rd # 0 /\ InFlight[j].prd = i.prs}
           waits(j) == ~gl_valid[GL!GlPtr(gl_head + j - 1)]
           fails(j) == gl_entries[GL!GlPtr(gl_head + j - 1)].ex
<1>1. PICK c, m, b : Renaming(c, m, b)
    BY DEF NInv
<1>2. /\ Chain(c, m, Items, Size, fl_tail, fl_ring, rt_commit) /\ Order(c, m)
      /\ Distinct(fl_ring, rt_commit) /\ fl_tail \in 0 .. N - 1
    BY <1>1, Sizes DEF Renaming, Order, NInv, Conserved, Types, TypeOK, FL!TypeOK
<1>3. /\ Size \in Place /\ Size \in Nat /\ gl_num <= Size /\ gl_num \in Nat /\ gl_head \in Int
      /\ n \in 0 .. Size /\ \A j \in 1 .. Size : InFlight[j] = Items[j - 1]
  <2>1. gl_num \in 0 .. N - 1 /\ N \in Nat /\ gl_head \in Int
      BY Sizes DEF Types, TypeOK, N
  <2>2. Size \in Place /\ Size \in Nat /\ gl_num <= Size
      BY <2>1, Heads, Sizes DEF Place
  <2>3. \A j \in 1 .. Size : InFlight[j] = Items[j - 1]
      BY InFlightIs
  <2> QED BY <2>1, <2>2, <2>3
<1>4. i.prs = MapAfter(n)[i.rs] /\ Heard(i.prs, i.rdy)
    BY DEF Reads
<1>5. i.prs = m[n][i.rs]
    BY <1>2, <1>3, <1>4, MapIs
<1>6. \A k \in 0 .. Size - 1 : Makes(k, i.prs) => k < n
    BY <1>2, <1>3, <1>5, ChainProducer DEF Makes
<1>7. ASSUME NEW k, k \in 0 .. n - 1
      PROVE  /\ k + 1 \in producers <=> Makes(k, i.prs)
             /\ waits(k + 1) <=> Unfinished(k)
             /\ fails(k + 1) <=> Failed(k)
  <2>1. k + 1 \in 1 .. n /\ k + 1 \in 1 .. Size /\ (k + 1) - 1 = k /\ k < gl_num
        /\ gl_head + (k + 1) - 1 = gl_head + k
      BY <1>3, <1>7
  <2>2. GL!GlPtr(gl_head + (k + 1) - 1) = Trunc(gl_head + k, N)
      BY <2>1, SameWrap, Zenon DEF GL!GlPtr, N
  <2>3. InFlight[k + 1] = Items[k]
      BY <1>3, <2>1
  <2>4. k + 1 \in producers <=> Makes(k, i.prs)
      BY <2>1, <2>3 DEF Makes
  <2> QED BY <2>1, <2>2, <2>4 DEF Unfinished, Failed
<1>8. ASSUME i.rdy, NEW j \in producers PROVE ~waits(j)
  <2>1. j \in 1 .. n
      OBVIOUS
  <2>2. j - 1 \in 0 .. n - 1 /\ (j - 1) + 1 = j /\ j - 1 \in 0 .. Size - 1
      BY <1>3, <2>1
  <2>3. Makes(j - 1, i.prs) /\ (waits(j) <=> Unfinished(j - 1))
      BY <1>7, <1>8, <2>2
  <2> QED BY <1>4, <1>8, <2>2, <2>3 DEF Heard
<1>9. ASSUME ~i.rdy PROVE \E j \in producers : waits(j) \/ fails(j)
  <2>1. PICK k \in 0 .. Size - 1 : Makes(k, i.prs) /\ (Unfinished(k) \/ Failed(k))
      BY <1>4, <1>9 DEF Heard
  <2>2. k \in 0 .. n - 1
      BY <1>3, <1>6, <2>1
  <2>3. k + 1 \in producers /\ (waits(k + 1) \/ fails(k + 1))
      BY <1>7, <2>1, <2>2
  <2> QED BY <2>3
<1> QED BY <1>4, <1>8, <1>9

\* A source names the register of its youngest older writer, is ready only when
\* that writer has finished, and waits only while it has not or has failed: no
\* wake-up of snoop_rr_rdy, snoop_exe_rdy or the ready table is missed or false,
\* whatever stalls, flushes and recoveries came in between.
THEOREM OperandsAreExact == Spec => []OperandsExact
<1>1. BInv /\ NInv /\ OInv => OperandsExact
  <2> SUFFICES ASSUME Types, NInv, BInv, OInv, ~xq, NEW i \in {rr, exe}, i # None, i.rs # 0
               PROVE  LET before == (IF i = rr THEN gl_num + 1 ELSE Position(i.index)) - 1
                          producers == {n \in 1 .. before : InFlight[n].rd # 0 /\ InFlight[n].prd = i.prs}
                          waits(n) == ~gl_valid[GL!GlPtr(gl_head + n - 1)]
                          fails(n) == gl_entries[GL!GlPtr(gl_head + n - 1)].ex
                      IN /\ i.prs = MapAfter(before)[i.rs]
                         /\ i.rdy => \A n \in producers : ~waits(n)
                         /\ ~i.rdy => \E n \in producers : waits(n) \/ fails(n)
      BY Zenon DEF BInv, IInv, OperandsExact
  <2>1. PICK n : n = (IF i = rr THEN gl_num + 1 ELSE Position(i.index)) - 1
      OBVIOUS
  <2>2. gl_num \in 0 .. N - 1 /\ N \in Nat /\ gl_head \in Index
      BY Sizes DEF Types, TypeOK, N
  <2>3. Pipe /\ Operands
      BY DEF BInv, IInv, OInv
  <2>4. n \in 0 .. gl_num /\ Reads(i, n)
    <3>1. CASE i = rr
      <4>1. n = gl_num
          BY <2>1, <2>2, <3>1
      <4> QED BY <2>2, <2>3, <3>1, <4>1 DEF Operands
    <3>2. CASE i # rr
      <4>1. i = exe /\ exe # None
          BY <3>2
      <4>2. exe.index \in Index /\ Age(exe.index) = gl_num - 1
          BY <2>3, <4>1 DEF Pipe, Owners, Owns, InOrderIssue, Issued
      <4>3. Age(exe.index) \in 0 .. N - 1
          BY <2>2, <4>2, Places DEF Age
      <4>4. n = Age(exe.index)
        <5>1. n = (Age(exe.index) + 1) - 1
            BY <2>1, <3>2, <4>1 DEF Position, Age, N
        <5> QED BY <4>3, <5>1
      <4> QED BY <2>2, <2>3, <4>1, <4>2, <4>3, <4>4 DEF Operands
    <3> QED BY <3>1, <3>2
  <2>5. i.rs \in Reg
      BY DEF Types, TypeOK, Instr
  <2>6. LET producers == {j \in 1 .. n : InFlight[j].rd # 0 /\ InFlight[j].prd = i.prs}
            waits(j) == ~gl_valid[GL!GlPtr(gl_head + j - 1)]
            fails(j) == gl_entries[GL!GlPtr(gl_head + j - 1)].ex
        IN /\ i.prs = MapAfter(n)[i.rs]
           /\ i.rdy => \A j \in producers : ~waits(j)
           /\ ~i.rdy => \E j \in producers : waits(j) \/ fails(j)
      BY <2>4, <2>5, ReaderKnows
  <2> QED BY <2>1, <2>6, Zenon
<1> QED BY <1>1, Operating, PTL

\* Whatever the head of the graduation list waits for is on its way, or it is the
\* instruction in EXE, which has its operands.
THEOREM NobodyWaitsForItself == Spec => []NoCircularWait
<1>1. BInv /\ NInv /\ OInv => NoCircularWait
  <2> SUFFICES ASSUME BInv, NInv, OInv, gl_num > 0, ~xq, units = {}, wb = {}, ~gl_valid[gl_head]
               PROVE  exe # None /\ exe.rdy
      BY DEF NoCircularWait
  <2>1. Types /\ Pipe /\ Driven /\ Operands
      BY DEF BInv, IInv, OInv
  <2>2. gl_num \in 0 .. N - 1 /\ N \in Nat /\ gl_head \in Index
      BY <2>1, Sizes DEF Types, TypeOK, N
  <2>3. Age(gl_head) = 0 /\ Live(gl_head)
    <3>1. Dist(gl_head, gl_head, N) = 0
        BY <2>2, Sizes DEF Dist, Trunc
    <3> QED BY <2>2, <3>1 DEF Age, Live, N
  <2>4. exe # None /\ exe.index = gl_head
      BY <2>1, <2>2, <2>3 DEF Driven, Issued
  <2>5. Reads(exe, 0)
      BY <2>1, <2>3, <2>4 DEF Operands
  <2>6. CASE exe.rs = 0
      BY <2>4, <2>5, <2>6 DEF Reads
  <2>7. CASE exe.rs # 0
    <3>1. exe.rs \in Reg /\ 0 \in 0 .. gl_num
        BY <2>1, <2>2, <2>4 DEF Types, TypeOK, Instr
    <3>2. ~exe.rdy => \E j \in {j \in 1 .. 0 : InFlight[j].rd # 0 /\ InFlight[j].prd = exe.prs} : TRUE
        BY <2>1, <2>5, <2>7, <3>1, ReaderKnows
    <3> QED BY <2>4, <3>2
  <2> QED BY <2>6, <2>7
<1> QED BY <1>1, Operating, PTL

\* The invariants of control_unit.sv together.
THEOREM ControlKept == Spec => []ControlInv
BY BackendTyped, CsrCommitsAlone, NobodyWaitsForItself, ListFullBeforeEmpty, PTL DEF ControlInv
=============================================================================
