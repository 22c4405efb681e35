------------------------ MODULE LoadStoreQueueProofs ------------------------
(***************************************************************************)
(* Proofs about the load/store queue, for every length of the ring and of  *)
(* the store buffer, every set of addresses and every program.             *)
(***************************************************************************)
EXTENDS LoadStoreQueue, SequenceTheorems, TLAPS

N == NumEntries
Index == 0 .. N - 1

\* The entry k places behind the head, and how many there are.
Pos(k) == Trunc(head + k, N)
Count == num_to_exe + num_to_translate

Entry == [id : Nat, kind : {"LOAD", "STORE", "OTHER"}, addr : Addrs \union {None},
          translated : BOOLEAN, ex : BOOLEAN]

Kinds ==
    /\ head \in Index /\ tail \in Index /\ tlb_tail \in Index
    /\ num_to_exe \in Nat /\ num_to_translate \in Nat /\ Count <= N
    /\ control_table \in [Index -> Entry]
    /\ store_buffer \in Seq(Entry) /\ Len(store_buffer) < StBufEntries
    /\ prog \in Seq(MemInstr \union {Other})
    /\ finished \in Seq({"no", "ok", "faulty"}) /\ Len(finished) = Len(prog)
    /\ commit \in 1 .. Len(prog) + 1
    /\ left \in Seq(Nat) /\ excepted \subseteq Nat
    /\ flushed \subseteq 1 .. commit - 1

Pointers == tail = Pos(Count) /\ tlb_tail = Pos(num_to_exe)

\* An entry is the record of a memory instruction of p that has not retired.
Describes(e, p, oldest) ==
    /\ e.id \in oldest .. Len(p)
    /\ e.kind = p[e.id].kind /\ e.addr = p[e.id].addr
    /\ e.kind \in {"LOAD", "STORE"}

\* Ring and store buffer are each in program order, and the buffer is older.
RingEntries ==
    \A k \in 0 .. Count - 1 :
        /\ Describes(Slot(k), prog, commit)
        /\ Slot(k).translated <=> k < num_to_exe
        /\ \A m \in 0 .. Count - 1 : k < m => Slot(k).id < Slot(m).id

BufferEntries ==
    \A k \in DOMAIN store_buffer :
        /\ Describes(store_buffer[k], prog, commit) /\ store_buffer[k].kind = "STORE"
        /\ \A m \in DOMAIN store_buffer : k < m => store_buffer[k].id < store_buffer[m].id
        /\ \A m \in 0 .. Count - 1 : store_buffer[k].id < Slot(m).id

RingIds == {Slot(k).id : k \in 0 .. Count - 1}
BufIds == {store_buffer[k].id : k \in DOMAIN store_buffer}
HeldIds == BufIds \union RingIds
Sent == {left[k] : k \in DOMAIN left}
MemIds == {i \in DOMAIN prog : prog[i].kind # "OTHER"}

Accounts ==
    /\ \A j, k \in DOMAIN left : j # k => left[j] # left[k]
    /\ HeldIds \cap Sent = {}
    /\ Sent \subseteq MemIds
    /\ MemIds \ flushed \subseteq HeldIds \union Sent

(* A store reports when it enters the queue, a load not before it has left. *)
Reports ==
    \A i \in DOMAIN prog :
        /\ IsStore(i) => finished[i] = "ok"
        /\ prog[i].kind = "LOAD" /\ finished[i] # "no" => i \in Sent

(* A store that was taken is older than whatever is still held, and nothing up *)
(* to it can raise an exception any more, but for the store right before it.   *)
SentStores ==
    \A s \in Sent : IsStore(s) =>
        /\ \A h \in HeldIds : s < h
        /\ \A i \in commit .. s : finished[i] = "ok"
        /\ \A i \in commit .. s - 1 : IsStore(i) /\ i \in excepted => i = s - 1

IInv ==
    /\ Kinds /\ Pointers /\ RingEntries /\ BufferEntries /\ Accounts
    /\ Reports /\ SentStores /\ LoadsSeeOlderStores /\ StoresFinal
-----------------------------------------------------------------------------
(* Pointer arithmetic.                                                       *)

\* The remainder of a sum of two pointers is its truncation.
LEMMA SumIsTrunc ==
    ASSUME NEW x \in 0 .. 2 * N - 1
    PROVE  x % N = Trunc(x, N)
<1>1. N \in Nat \ {0}
    BY LsqAssumption DEF N
<1> DEFINE q == x \div N
           r == x % N
<1>2. x = N * q + r /\ r \in 0 .. N - 1 /\ q \in Int
    BY <1>1
<1> HIDE DEF q, r
<1>3. q >= 0 /\ q < 2
  <2>1. q >= 2 => N * q >= N * 2
      BY <1>1, <1>2
  <2>2. q < 0 => N * q <= N * (-1)
      BY <1>1, <1>2
  <2> QED BY <1>1, <1>2, <2>1, <2>2
<1>4. q = 0 \/ q = 1
    BY <1>2, <1>3
<1>5. r = Trunc(x, N)
    BY <1>1, <1>2, <1>4 DEF Trunc
<1> QED BY <1>5 DEF r

LEMMA PlaceOf ==
    ASSUME NEW h \in Index, NEW k \in Index
    PROVE  (h + k) % NumEntries = Trunc(h + k, N) /\ Trunc(h + k, N) \in Index
<1>1. h + k \in 0 .. 2 * N - 1
    BY LsqAssumption DEF N, Index
<1> QED BY <1>1, SumIsTrunc, LsqAssumption DEF N, Index, Trunc

\* Places are distinct, and the head may move on.
LEMMA PlacesDiffer ==
    ASSUME NEW h \in Index, NEW k \in Index, NEW m \in Index, Trunc(h + k, N) = Trunc(h + m, N)
    PROVE  k = m
BY LsqAssumption DEF N, Index, Trunc

LEMMA HeadMoves ==
    ASSUME NEW h \in Index, NEW k \in 0 .. N - 2
    PROVE  Trunc(Trunc(h + 1, N) + k, N) = Trunc(h + (k + 1), N)
BY LsqAssumption DEF N, Index, Trunc

\* The oldest entry of the ring is the one the queue looks at.
LEMMA HeadSlot ==
    ASSUME IInv, Count > 0
    PROVE  Slot(0) = Next1 /\ Describes(Next1, prog, commit) /\ Next1 \in Entry
<1>1. head \in Index /\ 0 \in Index /\ N \in Nat /\ Count \in Nat
    BY LsqAssumption DEF IInv, Kinds, Index, N, Count
<1>2. head + 0 = head /\ Trunc(head, N) = head
    BY <1>1 DEF Index, Trunc
<1>3. Slot(0) = Next1
    BY <1>1, <1>2, PlaceOf DEF Slot, Next1
<1>4. 0 \in 0 .. Count - 1
    BY <1>1
<1>5. Describes(Slot(0), prog, commit)
    BY <1>4 DEF IInv, RingEntries
<1> QED BY <1>1, <1>3, <1>5 DEF IInv, Kinds, Next1

\* Reset establishes the invariant.
LEMMA InitInv == Init => IInv
<1> SUFFICES ASSUME Init PROVE IInv
    OBVIOUS
<1> USE DEF Init
<1>1. Kinds
  <2>1. EmptyEntry \in Entry
      BY DEF Entry, EmptyEntry
  <2>2. control_table \in [Index -> Entry]
      BY <2>1 DEF Index, N
  <2>3. 0 \in Index /\ Count = 0 /\ 0 <= N /\ 0 < StBufEntries
      BY LsqAssumption DEF Index, N, Count
  <2> QED BY <2>2, <2>3 DEF Kinds
<1>2. Pointers
    BY LsqAssumption DEF Pointers, Pos, Trunc, N, Count
<1>3. RingEntries /\ BufferEntries
    BY DEF RingEntries, BufferEntries, Count
<1>4. Accounts /\ Reports /\ SentStores
    BY DEF Accounts, Reports, SentStores, Sent, HeldIds, BufIds, RingIds, MemIds, Count
<1>5. LoadsSeeOlderStores /\ StoresFinal
    BY DEF LoadsSeeOlderStores, StoresFinal
<1> QED BY <1>1, <1>2, <1>3, <1>4, <1>5 DEF IInv
-----------------------------------------------------------------------------
(* The three chains of conditions agree.  In a clock nothing leaves, or the  *)
(* store at the head is parked in the store buffer, or one instruction goes  *)
(* to the cache: the load at the head, the oldest store of the buffer, the   *)
(* store at the head while the buffer is empty, or, while both are empty,    *)
(* the load that arrives, which then is not written into the ring.           *)

Idles(read) ==
    /\ ~read /\ ~ReadFromLsq(read) /\ ~ReadFromStBuf(read) /\ ~MovesToStBuf(read)

Parks(read) ==
    /\ ~read /\ ReadFromLsq(read) /\ ~ReadFromStBuf(read) /\ MovesToStBuf(read)
    /\ num_to_exe > 0 /\ Next1.kind = "STORE" /\ ~StBufFull

LoadGoes(in, tlb, read) ==
    /\ read /\ ReadFromLsq(read) /\ ~ReadFromStBuf(read) /\ ~MovesToStBuf(read)
    /\ num_to_exe > 0 /\ Next1.kind = "LOAD" /\ NextInstrExe(in, tlb) = Next1
    /\ ~StBufCollision /\ (Next1.addr \in IoAddrs => StBufEmpty)

BufferedGoes(in, tlb, read) ==
    /\ read /\ ~ReadFromLsq(read) /\ ReadFromStBuf(read) /\ ~MovesToStBuf(read)
    /\ ~StBufEmpty /\ Matches(store_buffer[1].id) /\ NextInstrExe(in, tlb) = store_buffer[1]

StoreGoes(in, tlb, read) ==
    /\ read /\ ReadFromLsq(read) /\ ~ReadFromStBuf(read) /\ ~MovesToStBuf(read)
    /\ num_to_exe > 0 /\ Next1.kind = "STORE" /\ NextInstrExe(in, tlb) = Next1
    /\ StBufEmpty /\ Matches(Next1.id)

IncomingGoes(in, tlb, read) ==
    /\ read /\ ~ReadFromLsq(read) /\ ~ReadFromStBuf(read) /\ ~MovesToStBuf(read)
    /\ num_to_exe = 0 /\ num_to_translate = 0 /\ StBufEmpty
    /\ in # None /\ in.kind = "LOAD" /\ NextInstrExe(in, tlb) = NewEntry(in, tlb)

LEMMA OneDeparture ==
    ASSUME IInv, NEW in, NEW tlb, NEW read \in BOOLEAN, read => CanRead(in, tlb)
    PROVE  \/ Idles(read) \/ Parks(read) \/ LoadGoes(in, tlb, read)
           \/ BufferedGoes(in, tlb, read) \/ StoreGoes(in, tlb, read)
           \/ IncomingGoes(in, tlb, read)
<1>1. num_to_exe \in Nat /\ num_to_translate \in Nat
    BY DEF IInv, Kinds
<1>2. num_to_exe > 0 => Next1.translated
  <2> SUFFICES ASSUME num_to_exe > 0 PROVE Next1.translated
      OBVIOUS
  <2>1. Count > 0 /\ 0 \in 0 .. Count - 1 /\ 0 < num_to_exe
      BY <1>1 DEF Count
  <2> QED BY <2>1, HeadSlot DEF IInv, RingEntries
<1>3. CASE ~read
    BY <1>3 DEF Idles, Parks, ReadFromLsq, ReadFromStBuf, MovesToStBuf, IsNextStore
<1>4. CASE read /\ Bypass(in, tlb)
  <2>1. num_to_exe = 0 /\ num_to_translate = 0 /\ StBufEmpty /\ in # None /\ in.kind = "LOAD"
      BY <1>4 DEF Bypass, EmptyInt, TranslateIncoming
  <2>2. ~IsNextLoad /\ ~IsNextStore /\ ~StBufMatches
      BY <2>1 DEF IsNextLoad, IsNextStore, StBufMatches
  <2>3. NextInstrExe(in, tlb) = NewEntry(in, tlb)
      BY <1>4, <2>2 DEF NextInstrExe
  <2>4. ~ReadFromLsq(read) /\ ~ReadFromStBuf(read) /\ ~MovesToStBuf(read)
      BY <2>2 DEF ReadFromLsq, ReadFromStBuf, MovesToStBuf
  <2> QED BY <1>4, <2>1, <2>3, <2>4 DEF IncomingGoes
<1>5. CASE read /\ ~Bypass(in, tlb)
  <2>1. ~BlockedStore(in, tlb)
      BY <1>5 DEF CanRead
  <2>2. CASE IsNextLoad /\ ~StBufCollision /\ ~IoAddressSpace
    <3>1. NextInstrExe(in, tlb) = Next1
        BY <1>5, <2>2 DEF NextInstrExe
    <3> QED BY <1>5, <2>2, <3>1
            DEF LoadGoes, ReadFromLsq, ReadFromStBuf, MovesToStBuf, IsNextLoad, IsNextStore,
                IoAddressSpace
  <2>3. CASE ~(IsNextLoad /\ ~StBufCollision /\ ~IoAddressSpace) /\ StBufMatches
    <3>1. NextInstrExe(in, tlb) = store_buffer[1]
        BY <1>5, <2>3 DEF NextInstrExe
    <3> QED BY <1>5, <2>3, <3>1
            DEF BufferedGoes, ReadFromLsq, ReadFromStBuf, MovesToStBuf, StBufMatches
  <2>4. CASE /\ ~(IsNextLoad /\ ~StBufCollision /\ ~IoAddressSpace) /\ ~StBufMatches
             /\ IsNextStore
    <3>1. StBufEmpty /\ Matches(Next1.id)
        BY <1>5, <2>1, <2>4 DEF BlockedStore, IsNextLoad, IsNextStore
    <3>2. NextInstrExe(in, tlb) = Next1
        BY <1>2, <1>5, <2>4, <3>1 DEF NextInstrExe, IsNextStore
    <3> QED BY <1>5, <2>4, <3>1, <3>2
            DEF StoreGoes, ReadFromLsq, ReadFromStBuf, MovesToStBuf, IsNextStore
  <2>5. CASE /\ ~(IsNextLoad /\ ~StBufCollision /\ ~IoAddressSpace) /\ ~StBufMatches
             /\ ~IsNextStore
    <3>1. IsNextLoad /\ StBufEmpty /\ IoAddressSpace
        BY <1>5, <2>1, <2>5 DEF BlockedStore
    <3>2. ~StBufCollision
        BY <3>1 DEF StBufCollision, StBufEmpty
    <3>3. NextInstrExe(in, tlb) = Next1
        BY <1>5, <2>5, <3>1, <3>2 DEF NextInstrExe
    <3> QED BY <1>5, <2>5, <3>1, <3>2, <3>3
            DEF LoadGoes, ReadFromLsq, ReadFromStBuf, MovesToStBuf, IsNextLoad, IsNextStore,
                IoAddressSpace
  <2> QED BY <2>2, <2>3, <2>4, <2>5
<1> QED BY <1>3, <1>4, <1>5
-----------------------------------------------------------------------------
(* One clock of the ring.                                                    *)

\* x is the entry e, translated or not by now.
SameInstr(x, e) == x.id = e.id /\ x.kind = e.kind /\ x.addr = e.addr

Incoming(x, in, n) == x.id = n /\ x.kind = in.kind /\ x.addr = in.addr

\* What arrives is written into the ring unless it leaves at once.
LEMMA Written ==
    ASSUME NEW in, NEW tlb, NEW read \in BOOLEAN, read => CanRead(in, tlb),
           num_to_exe < NumEntries
    PROVE  /\ WriteEnable(in, read) => in # None /\ ~(read /\ Bypass(in, tlb))
           /\ in # None /\ ~WriteEnable(in, read) => read /\ Bypass(in, tlb)
           /\ IncomingGoes(in, tlb, read) => ~WriteEnable(in, read)
           /\ ~read => (WriteEnable(in, read) <=> in # None)
BY DEF WriteEnable, CanRead, Bypass, IncomingGoes, EmptyInt

\* The counters: what enters was let in, and what leaves was ready.
LEMMA Counters ==
    ASSUME IInv, NEW in \in MemInstr \union {None}, NEW tlb \in TlbAnswers, NEW read \in BOOLEAN,
           Cycle(in, tlb, read)
    PROVE  LET wr == WriteEnable(in, read) IN
           /\ ReadFromLsq(read) => num_to_exe > 0
           /\ wr => in # None /\ Count < N /\ ~(read /\ Bypass(in, tlb))
           /\ in # None /\ ~wr => read /\ Bypass(in, tlb)
           /\ Translates(in, tlb, read) => Count + Bit(wr) > num_to_exe
           /\ TranslateIncoming(in) => in # None /\ num_to_exe = Count
           /\ num_to_exe' = num_to_exe + Bit(Translates(in, tlb, read)) - Bit(ReadFromLsq(read))
           /\ num_to_translate' = num_to_translate + Bit(wr) - Bit(Translates(in, tlb, read))
           /\ num_to_exe' \in Nat /\ num_to_translate' \in Nat
           /\ Count' = Count + Bit(wr) - Bit(ReadFromLsq(read))
           /\ Count' <= N
<1>1. num_to_exe \in Nat /\ num_to_translate \in Nat /\ Count <= N /\ N \in Nat
    BY LsqAssumption DEF IInv, Kinds, N
<1>2. ReadFromLsq(read) => num_to_exe > 0
    BY DEF ReadFromLsq, MovesToStBuf, IsNextLoad, IsNextStore
<1>3. in # None => Count < N /\ num_to_exe < NumEntries
    BY <1>1 DEF Cycle, Full, Count, N
<1>4. TranslateIncoming(in) => in # None /\ num_to_translate = 0 /\ num_to_exe = Count
    BY <1>1 DEF TranslateIncoming, Count
<1>5. /\ WriteEnable(in, read) => in # None /\ Count < N /\ ~(read /\ Bypass(in, tlb))
      /\ in # None /\ ~WriteEnable(in, read) => read /\ Bypass(in, tlb)
  <2>1. read => CanRead(in, tlb)
      BY DEF Cycle
  <2>2. in = None => ~WriteEnable(in, read)
      BY DEF WriteEnable
  <2> QED BY <1>3, <2>1, <2>2, Written
<1>6. Translates(in, tlb, read) => Count + Bit(WriteEnable(in, read)) > num_to_exe
  <2>1. Translates(in, tlb, read) => WriteEnable(in, read) \/ num_to_translate > 0
      BY <1>4, <1>5 DEF Translates
  <2> QED BY <1>1, <2>1 DEF Bit, Count
<1>7. /\ num_to_exe' = num_to_exe + Bit(Translates(in, tlb, read)) - Bit(ReadFromLsq(read))
      /\ num_to_translate' = num_to_translate
           + Bit(WriteEnable(in, read)) - Bit(Translates(in, tlb, read))
    BY DEF Cycle, Ring
<1> DEFINE tr == Bit(Translates(in, tlb, read))
           rd == Bit(ReadFromLsq(read))
           wr == Bit(WriteEnable(in, read))
<1>8. tr \in {0, 1} /\ rd \in {0, 1} /\ wr \in {0, 1}
    BY DEF Bit
<1>9. /\ rd = 1 => num_to_exe > 0
      /\ tr = 1 => num_to_translate + wr > 0
      /\ wr = 1 => Count < N
    BY <1>1, <1>2, <1>5, <1>6 DEF Bit, Count
<1>10. Count' = num_to_exe' + num_to_translate'
    BY DEF Count
<1> HIDE DEF tr, rd, wr
<1>11. /\ num_to_exe' \in Nat /\ num_to_translate' \in Nat
       /\ Count' = Count + wr - rd /\ Count' <= N
    BY <1>1, <1>7, <1>8, <1>9, <1>10 DEF Count, tr, rd, wr
<1> QED BY <1>2, <1>4, <1>5, <1>6, <1>7, <1>11 DEF rd, wr

\* The ring after a clock: the entries move up by one when the head leaves, the
\* incoming instruction is the last, and the TLB has answered for the first
\* entry that was waiting.
LEMMA RingAfter ==
    ASSUME IInv, NEW in \in MemInstr \union {None}, NEW tlb \in TlbAnswers, NEW read \in BOOLEAN,
           Cycle(in, tlb, read)
    PROVE  /\ head' \in Index /\ tail' \in Index /\ tlb_tail' \in Index
           /\ control_table' \in [Index -> Entry]
           /\ Pointers'
           /\ \A k \in 0 .. Count' - 1 :
                 LET j == k + Bit(ReadFromLsq(read)) IN
                 /\ (Slot(k)').translated <=> k < num_to_exe'
                 /\ \/ j \in 0 .. Count - 1 /\ SameInstr(Slot(k)', Slot(j))
                    \/ WriteEnable(in, read) /\ j = Count /\ Incoming(Slot(k)', in, Len(prog) + 1)
<1> DEFINE rd == ReadFromLsq(read)
           tr == Translates(in, tlb, read)
           wr == WriteEnable(in, read)
<1>1. /\ head \in Index /\ tail \in Index /\ tlb_tail \in Index
      /\ num_to_exe \in Nat /\ num_to_translate \in Nat /\ Count \in 0 .. N /\ N \in Nat \ {0}
      /\ control_table \in [Index -> Entry] /\ DOMAIN control_table = Index
      /\ num_to_exe <= Count
    BY LsqAssumption DEF IInv, Kinds, N, Count
<1>2. /\ rd => num_to_exe > 0
      /\ wr => in # None /\ Count < N /\ ~(read /\ Bypass(in, tlb))
      /\ tr => Count + Bit(wr) > num_to_exe
      /\ TranslateIncoming(in) => num_to_exe = Count
      /\ num_to_exe' = num_to_exe + Bit(tr) - Bit(rd) /\ num_to_exe' \in Nat
      /\ num_to_translate' \in Nat
      /\ Count' = Count + Bit(wr) - Bit(rd) /\ Count' <= N
    BY Counters
<1>3. Count' \in 0 .. N
    BY <1>1, <1>2 DEF Count
<1>4. /\ control_table' = [i \in Index |->
            IF wr /\ i = tail THEN NewEntry(in, tlb)
            ELSE IF tr /\ ~TranslateIncoming(in) /\ i = tlb_tail
            THEN [control_table[i] EXCEPT !.translated = TRUE, !.ex = (tlb = "xcpt")]
            ELSE control_table[i]]
      /\ head' = Trunc(head + Bit(rd), N)
      /\ tail' = Trunc(tail + Bit(wr), N)
      /\ tlb_tail' = Trunc(tlb_tail + Bit(tr), N)
  <2>1. tr /\ ~TranslateIncoming(in) <=>
           TranslateEnable(tlb) /\ ~TranslateIncoming(in) /\ num_to_translate > 0
      BY DEF Translates
  <2> QED BY <1>1, <2>1 DEF Cycle, Ring, Plus, N
<1>5. wr => NewEntry(in, tlb) \in Entry /\ Incoming(NewEntry(in, tlb), in, Len(prog) + 1)
            /\ (NewEntry(in, tlb).translated <=> tr /\ TranslateIncoming(in))
  <2>1. wr => in.kind \in {"LOAD", "STORE"} /\ in.addr \in Addrs
      BY <1>2 DEF MemInstr
  <2>2. Len(prog) + 1 \in Nat
      BY DEF IInv, Kinds
  <2>3. wr => (TranslateIncoming(in) /\ TranslateEnable(tlb) <=> tr /\ TranslateIncoming(in))
      BY <1>2 DEF Translates
  <2>4. /\ (TranslateIncoming(in) /\ TranslateEnable(tlb)) \in BOOLEAN
        /\ (TranslateIncoming(in) /\ tlb = "xcpt") \in BOOLEAN
      OBVIOUS
  <2> QED BY <2>1, <2>2, <2>3, <2>4 DEF NewEntry, Entry, Incoming
<1>6. tail = Pos(Count) /\ tlb_tail = Pos(num_to_exe)
    BY DEF IInv, Pointers
<1>7. ASSUME NEW e \in Entry
      PROVE  LET x == [e EXCEPT !.translated = TRUE, !.ex = (tlb = "xcpt")]
             IN  x \in Entry /\ SameInstr(x, e) /\ x.translated = TRUE
    BY DEF Entry, SameInstr
<1> HIDE DEF rd, tr, wr
<1>8. head' \in Index /\ tail' \in Index /\ tlb_tail' \in Index
  <2>1. Bit(rd) \in {0, 1} /\ Bit(tr) \in {0, 1} /\ Bit(wr) \in {0, 1}
      BY DEF Bit
  <2>2. ASSUME NEW h \in Index, NEW a \in {0, 1} PROVE Trunc(h + a, N) \in Index
      BY <1>1 DEF Index, Trunc
  <2> QED BY <1>1, <1>4, <2>1, <2>2
<1>9. control_table' \in [Index -> Entry]
    BY <1>1, <1>4, <1>5, <1>7
<1>10. Pointers'
  <2>1. Bit(rd) \in {0, 1} /\ Bit(tr) \in {0, 1} /\ Bit(wr) \in {0, 1}
      BY DEF Bit
  <2>2. num_to_exe \in 0 .. N /\ num_to_exe' \in 0 .. N
      BY <1>1, <1>2, <1>3 DEF Count
  <2>3. tail' = Trunc(head' + Count', N)
    <3>1. Count' = Count + Bit(wr) - Bit(rd) /\ tail' = Trunc(Trunc(head + Count, N) + Bit(wr), N)
        BY <1>2, <1>4, <1>6 DEF Pos
    <3>2. Count + Bit(wr) - Bit(rd) \in 0 .. N
        BY <1>3, <3>1
    <3>3. Trunc(Trunc(head + Count, N) + Bit(wr), N)
             = Trunc(Trunc(head + Bit(rd), N) + (Count + Bit(wr) - Bit(rd)), N)
        BY <1>1, <2>1, <3>2 DEF Index, Trunc
    <3> QED BY <1>4, <3>1, <3>3
  <2>4. tlb_tail' = Trunc(head' + num_to_exe', N)
    <3>1. /\ num_to_exe' = num_to_exe + Bit(tr) - Bit(rd)
          /\ tlb_tail' = Trunc(Trunc(head + num_to_exe, N) + Bit(tr), N)
        BY <1>2, <1>4, <1>6 DEF Pos
    <3>2. num_to_exe + Bit(tr) - Bit(rd) \in 0 .. N
        BY <2>2, <3>1
    <3>3. Trunc(Trunc(head + num_to_exe, N) + Bit(tr), N)
             = Trunc(Trunc(head + Bit(rd), N) + (num_to_exe + Bit(tr) - Bit(rd)), N)
        BY <1>1, <2>1, <2>2, <3>2 DEF Index, Trunc
    <3> QED BY <1>4, <3>1, <3>3
  <2> QED BY <2>3, <2>4 DEF Pointers, Pos
<1>11. ASSUME NEW j \in 0 .. Count - 1
       PROVE  LET x == control_table'[Pos(j)] IN
              /\ SameInstr(x, Slot(j))
              /\ x.translated <=> j < num_to_exe + Bit(tr)
  <2>1. j \in Index /\ Slot(j) = control_table[Pos(j)] /\ Pos(j) \in Index
      BY <1>1, PlaceOf DEF Index, Slot, Pos
  <2>2. wr => Pos(j) # tail
    <3>1. wr => Count \in Index
        BY <1>1, <1>2 DEF Index
    <3> QED BY <1>1, <1>6, <2>1, <3>1, PlacesDiffer DEF Pos
  <2>3. tr /\ ~TranslateIncoming(in) => num_to_exe \in 0 .. Count - 1
    <3>1. tr /\ ~TranslateIncoming(in) => num_to_translate > 0
        BY DEF tr, Translates
    <3> QED BY <1>1, <3>1 DEF Count
  <2>4. tr /\ ~TranslateIncoming(in) => (Pos(j) = tlb_tail <=> j = num_to_exe)
    <3>1. tr /\ ~TranslateIncoming(in) => num_to_exe \in Index
        BY <1>1, <2>3 DEF Index
    <3> QED BY <1>1, <1>6, <2>1, <3>1, PlacesDiffer DEF Pos
  <2>5. Slot(j) \in Entry /\ (Slot(j).translated <=> j < num_to_exe)
      BY <1>1, <2>1 DEF IInv, RingEntries
  <2>6. CASE tr /\ ~TranslateIncoming(in) /\ j = num_to_exe
    <3>1. control_table'[Pos(j)] = [Slot(j) EXCEPT !.translated = TRUE, !.ex = (tlb = "xcpt")]
        BY <1>4, <2>1, <2>2, <2>4, <2>6
    <3>2. SameInstr(control_table'[Pos(j)], Slot(j)) /\ control_table'[Pos(j)].translated
        BY <1>7, <2>5, <3>1
    <3>3. j < num_to_exe + Bit(tr)
        BY <1>1, <2>6 DEF Bit
    <3> QED BY <3>2, <3>3
  <2>7. CASE ~(tr /\ ~TranslateIncoming(in) /\ j = num_to_exe)
    <3>1. control_table'[Pos(j)] = Slot(j)
        BY <1>4, <2>1, <2>2, <2>4, <2>7
    <3>2. j < num_to_exe <=> j < num_to_exe + Bit(tr)
        BY <1>1, <1>2, <2>7 DEF Bit
    <3> QED BY <2>5, <3>1, <3>2 DEF SameInstr
  <2> QED BY <2>6, <2>7
<1>12. ASSUME wr
       PROVE  LET x == control_table'[Pos(Count)] IN
              /\ Incoming(x, in, Len(prog) + 1)
              /\ x.translated <=> Count < num_to_exe + Bit(tr)
  <2>1. control_table'[Pos(Count)] = NewEntry(in, tlb)
      BY <1>1, <1>4, <1>6, <1>12
  <2>2. tr /\ TranslateIncoming(in) <=> Count < num_to_exe + Bit(tr)
    <3>1. tr /\ ~TranslateIncoming(in) => num_to_translate > 0
        BY DEF tr, Translates
    <3> QED BY <1>1, <1>2, <3>1 DEF Bit, Count
  <2> QED BY <1>5, <1>12, <2>1, <2>2
<1>13. ASSUME NEW k \in 0 .. Count' - 1
       PROVE  LET j == k + Bit(rd) IN
              /\ Slot(k)' = control_table'[Pos(j)]
              /\ j \in 0 .. Count - 1 \/ (wr /\ j = Count)
              /\ j < num_to_exe + Bit(tr) <=> k < num_to_exe'
  <2> DEFINE j == k + Bit(rd)
  <2>1. /\ k \in Index /\ (j \in 0 .. Count - 1 \/ (wr /\ j = Count))
        /\ j < num_to_exe + Bit(tr) <=> k < num_to_exe'
      BY <1>1, <1>2, <1>3 DEF Index, Bit
  <2>2. Slot(k)' = control_table'[Trunc(head' + k, N)]
      BY <1>8, <2>1, PlaceOf DEF Slot
  <2>3. Trunc(head' + k, N) = Pos(j)
    <3>1. CASE rd
      <4>1. k \in 0 .. N - 2
          BY <1>1, <1>2, <1>3, <3>1 DEF Bit
      <4> QED BY <1>1, <1>4, <3>1, <4>1, HeadMoves DEF Pos, Bit
    <3>2. CASE ~rd
      <4>1. Bit(rd) = 0 /\ j = k /\ head' = Trunc(head, N)
        <5>1. Bit(rd) = 0
            BY <3>2 DEF Bit
        <5>2. head + 0 = head /\ k + 0 = k
            BY <1>1 DEF Index
        <5> QED BY <1>4, <5>1, <5>2
      <4>2. head' = head
          BY <1>1, <4>1 DEF Index, Trunc
      <4> QED BY <4>1, <4>2 DEF Pos
    <3> QED BY <3>1, <3>2
  <2> QED BY <2>1, <2>2, <2>3
<1>14. ASSUME NEW k \in 0 .. Count' - 1
       PROVE  LET j == k + Bit(rd) IN
              /\ (Slot(k)').translated <=> k < num_to_exe'
              /\ \/ j \in 0 .. Count - 1 /\ SameInstr(Slot(k)', Slot(j))
                 \/ wr /\ j = Count /\ Incoming(Slot(k)', in, Len(prog) + 1)
    BY <1>11, <1>12, <1>13
<1> QED BY <1>8, <1>9, <1>10, <1>14 DEF rd, wr
-----------------------------------------------------------------------------
(* One clock of the queue.                                                   *)

\* The program grows at its end.
LEMMA ProgramGrows ==
    ASSUME IInv, NEW in \in MemInstr \union {None}, NEW tlb \in TlbAnswers, NEW read \in BOOLEAN,
           Cycle(in, tlb, read)
    PROVE  /\ prog' \in Seq(MemInstr \union {Other})
           /\ finished' \in Seq({"no", "ok", "faulty"}) /\ Len(finished') = Len(prog')
           /\ Len(prog') = Len(prog) + Bit(in # None)
           /\ \A i \in 1 .. Len(prog) : prog'[i] = prog[i] /\ finished'[i] = finished[i]
           /\ in # None => prog'[Len(prog) + 1] = in
           /\ in # None => finished'[Len(prog) + 1] = IF in.kind = "STORE" THEN "ok" ELSE "no"
           /\ commit' = commit /\ flushed' = flushed
<1>1. /\ prog \in Seq(MemInstr \union {Other})
      /\ finished \in Seq({"no", "ok", "faulty"}) /\ Len(finished) = Len(prog)
    BY DEF IInv, Kinds
<1>2. CASE in = None
    BY <1>1, <1>2 DEF Cycle, Bit
<1>3. CASE in # None
  <2>1. /\ in \in MemInstr /\ prog' = Append(prog, in)
        /\ finished' = Append(finished, IF in.kind = "STORE" THEN "ok" ELSE "no")
      BY <1>3 DEF Cycle
  <2> QED BY <1>1, <1>3, <2>1 DEF Cycle, Bit
<1> QED BY <1>2, <1>3

\* What is held has not retired, and the buffer holds what is older.
LEMMA HeldIsInFlight ==
    ASSUME IInv
    PROVE  /\ HeldIds \subseteq commit .. Len(prog) /\ HeldIds \subseteq MemIds
           /\ commit \in Nat \ {0} /\ Len(prog) \in Nat /\ DOMAIN prog = 1 .. Len(prog)
           /\ store_buffer \in Seq(Entry) /\ DOMAIN store_buffer = 1 .. Len(store_buffer)
           /\ Count \in 0 .. N /\ N \in Nat
<1>1. /\ commit \in Nat \ {0} /\ Len(prog) \in Nat /\ DOMAIN prog = 1 .. Len(prog)
      /\ store_buffer \in Seq(Entry) /\ DOMAIN store_buffer = 1 .. Len(store_buffer)
      /\ Count \in 0 .. N /\ N \in Nat
    BY LsqAssumption DEF IInv, Kinds, Count, N
<1>2. ASSUME NEW e, Describes(e, prog, commit)
      PROVE  e.id \in commit .. Len(prog) /\ e.id \in MemIds
    BY <1>1, <1>2 DEF Describes, MemIds
<1>3. HeldIds \subseteq commit .. Len(prog) /\ HeldIds \subseteq MemIds
    BY <1>2 DEF HeldIds, RingIds, BufIds, IInv, RingEntries, BufferEntries
<1> QED BY <1>1, <1>3

\* The ring stays in program order, and keeps all but its head.
LEMMA RingInv ==
    ASSUME IInv, NEW in \in MemInstr \union {None}, NEW tlb \in TlbAnswers, NEW read \in BOOLEAN,
           Cycle(in, tlb, read)
    PROVE  /\ RingEntries'
           /\ RingIds' = (RingIds \ (IF ReadFromLsq(read) THEN {Next1.id} ELSE {}))
                            \union (IF WriteEnable(in, read) THEN {Len(prog) + 1} ELSE {})
           /\ ReadFromLsq(read) => \A h \in RingIds' : Next1.id < h
<1> DEFINE rd == Bit(ReadFromLsq(read))
           new == Len(prog) + 1
           wr == WriteEnable(in, read)
<1>1. /\ HeldIds \subseteq commit .. Len(prog)
      /\ commit \in Nat \ {0} /\ Len(prog) \in Nat /\ Count \in 0 .. N /\ N \in Nat
      /\ commit <= new
  <2>1. commit <= new
      BY DEF IInv, Kinds
  <2> QED BY <2>1, HeldIsInFlight
<1>2. /\ ReadFromLsq(read) => Count > 0
      /\ Count' = Count + Bit(wr) - rd /\ (wr => in # None)
      /\ Count' \in Int
  <2>1. num_to_exe \in Nat /\ num_to_translate \in Nat
      BY DEF IInv, Kinds
  <2>2. num_to_exe > 0 => Count > 0
      BY <2>1 DEF Count
  <2>3. Count' \in Int
    <3>1. num_to_exe' \in Nat /\ num_to_translate' \in Nat
        BY Counters
    <3> QED BY <3>1 DEF Count
  <2> QED BY <2>2, <2>3, Counters
<1>3. rd \in {0, 1} /\ (rd = 1 <=> ReadFromLsq(read))
    BY DEF Bit
<1>4. \A k \in 0 .. Count' - 1 :
         LET j == k + rd IN
         /\ (Slot(k)').translated <=> k < num_to_exe'
         /\ \/ j \in 0 .. Count - 1 /\ SameInstr(Slot(k)', Slot(j))
            \/ wr /\ j = Count /\ Incoming(Slot(k)', in, new)
    BY RingAfter
<1>5. /\ Len(prog') = Len(prog) + Bit(in # None)
      /\ \A i \in 1 .. Len(prog) : prog'[i] = prog[i]
      /\ in # None => prog'[new] = in
      /\ commit' = commit
    BY ProgramGrows
<1>6. ReadFromLsq(read) => Slot(0) = Next1
    BY <1>2, HeadSlot
<1>7. \A k \in 0 .. Count - 1 :
         /\ Describes(Slot(k), prog, commit) /\ Slot(k).id \in commit .. Len(prog)
         /\ \A m \in 0 .. Count - 1 : k < m => Slot(k).id < Slot(m).id
    BY DEF IInv, RingEntries, Describes
<1> HIDE DEF rd, wr
<1>8. ASSUME NEW k \in 0 .. Count' - 1
      PROVE  Describes(Slot(k)', prog', commit')
  <2>1. CASE k + rd \in 0 .. Count - 1 /\ SameInstr(Slot(k)', Slot(k + rd))
    <3>1. Describes(Slot(k + rd), prog, commit)
        BY <1>7, <2>1
    <3>2. Slot(k + rd).id \in 1 .. Len(prog) /\ Slot(k + rd).id \in commit .. Len(prog')
        BY <1>1, <1>5, <3>1 DEF Describes, Bit
    <3> QED BY <1>5, <2>1, <3>1, <3>2 DEF Describes, SameInstr
  <2>2. CASE wr /\ k + rd = Count /\ Incoming(Slot(k)', in, new)
    <3>1. in # None /\ in.kind \in {"LOAD", "STORE"}
        BY <1>2, <2>2 DEF MemInstr
    <3>2. new \in commit .. Len(prog')
        BY <1>1, <1>5, <3>1 DEF Bit
    <3> QED BY <1>5, <2>2, <3>1, <3>2 DEF Describes, Incoming
  <2> QED BY <1>4, <2>1, <2>2
<1>9. ASSUME NEW k \in 0 .. Count' - 1, NEW m \in 0 .. Count' - 1, k < m
      PROVE  (Slot(k)').id < (Slot(m)').id
  <2>1. k + rd < m + rd
      BY <1>2, <1>3, <1>9
  <2>2. k + rd \in 0 .. Count - 1 /\ (Slot(k)').id = Slot(k + rd).id
      BY <1>1, <1>2, <1>3, <1>4, <1>9 DEF SameInstr, Incoming
  <2>3. CASE m + rd \in 0 .. Count - 1 /\ SameInstr(Slot(m)', Slot(m + rd))
      BY <1>7, <2>1, <2>2, <2>3 DEF SameInstr
  <2>4. CASE wr /\ m + rd = Count /\ Incoming(Slot(m)', in, new)
      BY <1>1, <1>7, <2>2, <2>4 DEF Incoming
  <2> QED BY <1>4, <2>3, <2>4
<1>10. RingEntries'
    BY <1>4, <1>8, <1>9 DEF RingEntries
<1> DEFINE Stay == RingIds \ (IF ReadFromLsq(read) THEN {Next1.id} ELSE {})
           New == IF wr THEN {new} ELSE {}
<1>11. ASSUME NEW k \in 0 .. Count' - 1 PROVE (Slot(k)').id \in Stay \union New
  <2>1. CASE k + rd \in 0 .. Count - 1 /\ SameInstr(Slot(k)', Slot(k + rd))
    <3>1. Slot(k + rd).id \in RingIds
        BY <2>1 DEF RingIds
    <3>2. ReadFromLsq(read) => Slot(0).id < Slot(k + rd).id /\ Slot(0).id \in Nat
        BY <1>1, <1>2, <1>3, <1>7, <2>1
    <3> QED BY <1>1, <1>6, <1>7, <2>1, <3>1, <3>2 DEF SameInstr
  <2>2. CASE wr /\ k + rd = Count /\ Incoming(Slot(k)', in, new)
      BY <2>2 DEF Incoming
  <2> QED BY <1>4, <2>1, <2>2
<1>12. ASSUME NEW h \in Stay \union New
       PROVE  \E k \in 0 .. Count' - 1 : (Slot(k)').id = h
  <2>1. CASE h \in Stay
    <3>1. PICK j \in 0 .. Count - 1 : Slot(j).id = h
        BY <2>1 DEF RingIds
    <3>2. ReadFromLsq(read) => j # 0
        BY <1>6, <2>1, <3>1
    <3>3. PICK k \in 0 .. Count' - 1 : k + rd = j
      <4>1. j - rd \in 0 .. Count' - 1 /\ (j - rd) + rd = j
          BY <1>1, <1>2, <1>3, <3>2 DEF Bit
      <4> QED BY <4>1
    <3>4. (Slot(k)').id = h
        BY <1>1, <1>4, <3>1, <3>3 DEF SameInstr
    <3> QED BY <3>4
  <2>2. CASE h \in New
    <3>1. PICK k \in 0 .. Count' - 1 : k + rd = Count
      <4>1. Count - rd \in 0 .. Count' - 1 /\ (Count - rd) + rd = Count
          BY <1>1, <1>2, <1>3, <2>2 DEF Bit
      <4> QED BY <4>1
    <3>2. (Slot(k)').id = new
        BY <1>1, <1>4, <3>1 DEF Incoming
    <3> QED BY <2>2, <3>2
  <2> QED BY <2>1, <2>2
<1>13. RingIds' = Stay \union New
    BY <1>11, <1>12 DEF RingIds
<1>14. ReadFromLsq(read) => \A h \in Stay \union New : Next1.id < h
  <2> SUFFICES ASSUME ReadFromLsq(read), NEW h \in Stay \union New PROVE Next1.id < h
      OBVIOUS
  <2>1. 0 \in 0 .. Count - 1
      BY <1>1, <1>2
  <2>2. CASE h \in Stay
    <3>1. PICK j \in 0 .. Count - 1 : Slot(j).id = h
        BY <2>2 DEF RingIds
    <3>2. j # 0
        BY <1>6, <2>2, <3>1
    <3> QED BY <1>1, <1>6, <1>7, <2>1, <3>1, <3>2
  <2>3. CASE h \in New
      BY <1>1, <1>6, <1>7, <2>1, <2>3
  <2> QED BY <2>2, <2>3
<1> QED BY <1>10, <1>13, <1>14 DEF wr

\* The store buffer after a clock.
Kept(in, tlb, read) ==
    \/ Idles(read) \/ LoadGoes(in, tlb, read) \/ StoreGoes(in, tlb, read)
    \/ IncomingGoes(in, tlb, read)

LEMMA BufferAfter ==
    ASSUME IInv, NEW in \in MemInstr \union {None}, NEW tlb \in TlbAnswers, NEW read \in BOOLEAN,
           Cycle(in, tlb, read)
    PROVE  /\ Kept(in, tlb, read) => store_buffer' = store_buffer
           /\ BufferedGoes(in, tlb, read) => store_buffer' = Tail(store_buffer)
           /\ Parks(read) => store_buffer' = Append(store_buffer, Next1)
<1>1. store_buffer \in Seq(Entry)
    BY DEF IInv, Kinds
<1>2. store_buffer' = (IF ReadFromStBuf(read) THEN Tail(store_buffer) ELSE store_buffer)
                         \o (IF MovesToStBuf(read) THEN <<Next1>> ELSE <<>>)
    BY DEF Cycle, StoreBuffer
<1>3. CASE Kept(in, tlb, read)
  <2>1. store_buffer' = store_buffer \o <<>>
      BY <1>2, <1>3 DEF Kept, Idles, LoadGoes, StoreGoes, IncomingGoes
  <2> QED BY <1>1, <1>3, <2>1, ConcatEmptySeq DEF Kept, Idles, LoadGoes, StoreGoes, IncomingGoes, BufferedGoes, Parks
<1>4. CASE BufferedGoes(in, tlb, read)
  <2>1. store_buffer' = Tail(store_buffer) \o <<>>
      BY <1>2, <1>4 DEF BufferedGoes
  <2>2. Tail(store_buffer) \in Seq(Entry)
      BY <1>1, <1>4 DEF BufferedGoes, StBufEmpty
  <2> QED BY <1>4, <2>1, <2>2, ConcatEmptySeq DEF Kept, Idles, LoadGoes, StoreGoes, IncomingGoes, BufferedGoes, Parks
<1>5. CASE Parks(read)
  <2>1. store_buffer' = store_buffer \o <<Next1>>
      BY <1>2, <1>5 DEF Parks
  <2>2. Next1 \in Entry
      BY DEF IInv, Kinds, Next1
  <2> QED BY <1>1, <1>5, <2>1, <2>2, AppendIsConcat
          DEF Kept, Idles, LoadGoes, StoreGoes, IncomingGoes, BufferedGoes, Parks
<1> QED BY <1>3, <1>4, <1>5

\* The store buffer stays in program order and older than the ring.
LEMMA BufferInv ==
    ASSUME IInv, NEW in \in MemInstr \union {None}, NEW tlb \in TlbAnswers, NEW read \in BOOLEAN,
           Cycle(in, tlb, read)
    PROVE  /\ store_buffer' \in Seq(Entry) /\ Len(store_buffer') < StBufEntries
           /\ BufferEntries'
           /\ Kept(in, tlb, read) => BufIds' = BufIds
           /\ Parks(read) => BufIds' = BufIds \union {Next1.id}
           /\ BufferedGoes(in, tlb, read) => /\ BufIds' = BufIds \ {store_buffer[1].id}
                                    /\ \A h \in BufIds' : store_buffer[1].id < h
<1>1. /\ HeldIds \subseteq commit .. Len(prog)
      /\ commit \in Nat \ {0} /\ Len(prog) \in Nat
      /\ store_buffer \in Seq(Entry) /\ DOMAIN store_buffer = 1 .. Len(store_buffer)
    BY HeldIsInFlight
<1>2. Len(store_buffer) < StBufEntries /\ StBufEntries \in Nat
    BY LsqAssumption DEF IInv, Kinds
<1>3. /\ Len(prog') = Len(prog) + Bit(in # None)
      /\ \A i \in 1 .. Len(prog) : prog'[i] = prog[i]
      /\ commit' = commit
    BY ProgramGrows
<1>4. ASSUME NEW e, Describes(e, prog, commit) PROVE Describes(e, prog', commit')
  <2>1. e.id \in 1 .. Len(prog) /\ e.id \in commit .. Len(prog')
      BY <1>1, <1>3, <1>4 DEF Describes, Bit
  <2> QED BY <1>3, <1>4, <2>1 DEF Describes
<1>5. \A k \in DOMAIN store_buffer :
        /\ Describes(store_buffer[k], prog, commit) /\ store_buffer[k].kind = "STORE"
        /\ store_buffer[k].id \in commit .. Len(prog)
        /\ \A m \in DOMAIN store_buffer : k < m => store_buffer[k].id < store_buffer[m].id
        /\ \A h \in RingIds : store_buffer[k].id < h
    BY DEF IInv, BufferEntries, RingIds, Describes
<1>6. \A k \in DOMAIN store_buffer : \A h \in RingIds' : store_buffer[k].id < h
  <2>1. RingIds' \subseteq RingIds \union {Len(prog) + 1}
      BY RingInv
  <2> QED BY <1>1, <1>5, <2>1
<1>7. ASSUME \A k \in DOMAIN store_buffer' :
                /\ Describes(store_buffer'[k], prog, commit) /\ store_buffer'[k].kind = "STORE"
                /\ \A m \in DOMAIN store_buffer' : k < m => store_buffer'[k].id < store_buffer'[m].id
                /\ \A h \in RingIds' : store_buffer'[k].id < h
      PROVE  BufferEntries'
  <2>1. \A k \in DOMAIN store_buffer' : Describes(store_buffer'[k], prog', commit')
      BY <1>4, <1>7
  <2>2. \A k \in DOMAIN store_buffer' : \A m \in 0 .. Count' - 1 : store_buffer'[k].id < (Slot(m)').id
      BY <1>7 DEF RingIds
  <2> QED BY <1>7, <2>1, <2>2 DEF BufferEntries
<1>8. CASE Kept(in, tlb, read)
  <2>1. store_buffer' = store_buffer
      BY <1>8, BufferAfter
  <2>2. BufferEntries'
      BY <1>5, <1>6, <1>7, <2>1
  <2>3. BufIds' = BufIds
      BY <2>1 DEF BufIds
  <2> QED BY <1>1, <1>2, <1>8, <2>1, <2>2, <2>3
          DEF Kept, Idles, LoadGoes, StoreGoes, IncomingGoes, BufferedGoes, Parks
<1>9. CASE BufferedGoes(in, tlb, read)
  <2>1. /\ store_buffer' = Tail(store_buffer) /\ Len(store_buffer) \in Nat \ {0}
        /\ 1 \in DOMAIN store_buffer
    <3>1. store_buffer # <<>>
        BY <1>9 DEF BufferedGoes, StBufEmpty
    <3>2. Len(store_buffer) \in Nat \ {0}
        BY <1>1, <3>1, EmptySeq
    <3>3. 1 \in DOMAIN store_buffer
        BY <1>1, <3>2
    <3> QED BY <1>9, <3>2, <3>3, BufferAfter
  <2>2. /\ store_buffer' \in Seq(Entry) /\ Len(store_buffer') = Len(store_buffer) - 1
        /\ DOMAIN store_buffer' = 1 .. Len(store_buffer) - 1
        /\ \A k \in 1 .. Len(store_buffer) - 1 :
               k + 1 \in DOMAIN store_buffer /\ store_buffer'[k] = store_buffer[k + 1]
      BY <1>1, <2>1
  <2>3. BufferEntries'
      BY <1>1, <1>5, <1>6, <1>7, <2>1, <2>2
  <2>4. \A h \in BufIds' : h \in BufIds /\ store_buffer[1].id < h
      BY <1>1, <1>5, <2>1, <2>2 DEF BufIds
  <2>5. ASSUME NEW h \in BufIds, h # store_buffer[1].id PROVE h \in BufIds'
    <3>1. PICK k \in DOMAIN store_buffer : store_buffer[k].id = h
        BY DEF BufIds
    <3>2. k # 1
        BY <2>5, <3>1
    <3>3. k - 1 \in 1 .. Len(store_buffer) - 1 /\ (k - 1) + 1 = k
        BY <1>1, <2>1, <3>2
    <3> QED BY <2>2, <3>1, <3>3 DEF BufIds
  <2>6. store_buffer[1].id \in commit .. Len(prog) /\ BufIds \subseteq Int
      BY <1>1, <1>5, <2>1 DEF BufIds
  <2>7. BufIds' = BufIds \ {store_buffer[1].id}
    <3>1. store_buffer[1].id \notin BufIds'
        BY <1>1, <2>4, <2>6
    <3> QED BY <2>4, <2>5, <3>1
  <2>8. ~Kept(in, tlb, read) /\ ~Parks(read)
      BY <1>9 DEF Kept, Idles, LoadGoes, StoreGoes, IncomingGoes, BufferedGoes, Parks
  <2>9. Len(store_buffer') < StBufEntries
      BY <1>2, <2>1, <2>2
  <2> QED BY <2>2, <2>3, <2>4, <2>7, <2>8, <2>9
<1>10. CASE Parks(read)
  <2>1. store_buffer' = Append(store_buffer, Next1)
      BY <1>10, BufferAfter
  <2>2. /\ num_to_exe > 0 /\ Next1.kind = "STORE" /\ ~StBufFull /\ ReadFromLsq(read)
      BY <1>10 DEF Parks
  <2>3. Count > 0
      BY <2>2 DEF IInv, Kinds, Count
  <2>4. Slot(0) = Next1 /\ Describes(Next1, prog, commit) /\ Next1 \in Entry
      BY <2>3, HeadSlot
  <2>5. Next1.id \in RingIds /\ \A h \in RingIds' : Next1.id < h
    <3>1. 0 \in 0 .. Count - 1
        BY <2>3, HeldIsInFlight
    <3> QED BY <2>2, <2>4, <3>1, RingInv DEF RingIds
  <2>6. /\ store_buffer' \in Seq(Entry) /\ Len(store_buffer') = Len(store_buffer) + 1
        /\ DOMAIN store_buffer' = 1 .. Len(store_buffer) + 1
        /\ \A k \in DOMAIN store_buffer : store_buffer'[k] = store_buffer[k]
        /\ store_buffer'[Len(store_buffer) + 1] = Next1
      BY <1>1, <2>1, <2>4
  <2>7. Len(store_buffer') < StBufEntries
      BY <1>1, <1>2, <2>2, <2>6 DEF StBufFull
  <2>8. \A k \in DOMAIN store_buffer' :
           k \in DOMAIN store_buffer \/ k = Len(store_buffer) + 1
      BY <1>1, <2>6
  <2>9. BufferEntries'
    <3>1. ASSUME NEW k \in DOMAIN store_buffer'
          PROVE  /\ Describes(store_buffer'[k], prog, commit) /\ store_buffer'[k].kind = "STORE"
                 /\ \A h \in RingIds' : store_buffer'[k].id < h
        BY <1>5, <1>6, <2>2, <2>4, <2>5, <2>6, <2>8
    <3>2. ASSUME NEW k \in DOMAIN store_buffer', NEW m \in DOMAIN store_buffer', k < m
          PROVE  store_buffer'[k].id < store_buffer'[m].id
      <4>1. k \in DOMAIN store_buffer
          BY <1>1, <2>6, <3>2
      <4>2. CASE m \in DOMAIN store_buffer
          BY <1>5, <2>6, <3>2, <4>1, <4>2
      <4>3. CASE m = Len(store_buffer) + 1
          BY <1>5, <2>5, <2>6, <4>1, <4>3
      <4> QED BY <2>8, <4>2, <4>3
    <3> QED BY <1>7, <3>1, <3>2
  <2>10. BufIds' = BufIds \union {Next1.id}
    <3>1. \A k \in DOMAIN store_buffer : k \in DOMAIN store_buffer'
        BY <1>1, <2>6
    <3>2. Len(store_buffer) + 1 \in DOMAIN store_buffer'
        BY <1>1, <2>6
    <3> QED BY <2>6, <2>8, <3>1, <3>2 DEF BufIds
  <2> QED BY <1>10, <2>6, <2>7, <2>9, <2>10
          DEF Kept, Idles, LoadGoes, StoreGoes, IncomingGoes, BufferedGoes, Parks
<1>11. read => CanRead(in, tlb)
    BY DEF Cycle
<1> QED BY <1>8, <1>9, <1>10, <1>11, OneDeparture DEF Kept

\* What leaves in a clock was held or has just arrived at an empty queue, and
\* nothing else is lost.  A store leaves
\* only as the oldest of all, when the commit stage matches it; a load passes no
\* older store to its address, and no older store at all when it is I/O.
PassesNone(x) ==
    prog[x].kind = "LOAD" =>
        \A h \in HeldIds : IsStore(h) /\ h < x =>
            prog[h].addr # prog[x].addr /\ prog[x].addr \notin IoAddrs

LEMMA HeldAfter ==
    ASSUME IInv, NEW in \in MemInstr \union {None}, NEW tlb \in TlbAnswers, NEW read \in BOOLEAN,
           Cycle(in, tlb, read)
    PROVE  LET x == NextInstrExe(in, tlb).id IN
           /\ HeldIds' = (HeldIds \ (IF read THEN {x} ELSE {}))
                            \union (IF WriteEnable(in, read) THEN {Len(prog) + 1} ELSE {})
           /\ WriteEnable(in, read) => in # None
           /\ in # None /\ ~WriteEnable(in, read) => read /\ x = Len(prog) + 1
           /\ read => \/ /\ x \in HeldIds
                         /\ prog[x].kind \in {"LOAD", "STORE"}
                         /\ IsStore(x) => Matches(x) /\ \A h \in HeldIds' : x < h
                         /\ PassesNone(x)
                      \/ /\ HeldIds = {} /\ x = Len(prog) + 1
                         /\ in # None /\ in.kind = "LOAD" /\ ~WriteEnable(in, read)
<1> DEFINE x == NextInstrExe(in, tlb).id
           n == Next1.id
           New == IF WriteEnable(in, read) THEN {Len(prog) + 1} ELSE {}
           Known == /\ x \in HeldIds
                    /\ prog[x].kind \in {"LOAD", "STORE"}
                    /\ IsStore(x) => Matches(x) /\ \A h \in HeldIds' : x < h
                    /\ PassesNone(x)
           Fresh == /\ HeldIds = {} /\ x = Len(prog) + 1
                    /\ in # None /\ in.kind = "LOAD" /\ ~WriteEnable(in, read)
<1>1. /\ HeldIds \subseteq commit .. Len(prog)
      /\ commit \in Nat \ {0} /\ Len(prog) \in Nat /\ Count \in 0 .. N
      /\ DOMAIN store_buffer = 1 .. Len(store_buffer)
      /\ HeldIds = BufIds \union RingIds /\ HeldIds' = BufIds' \union RingIds'
    BY HeldIsInFlight DEF HeldIds
<1>2. \A b \in BufIds : \A r \in RingIds : b < r
    BY DEF IInv, BufferEntries, BufIds, RingIds
<1>3. /\ RingIds' = (RingIds \ (IF ReadFromLsq(read) THEN {n} ELSE {})) \union New
      /\ ReadFromLsq(read) => \A h \in RingIds' : n < h
    BY RingInv
<1>4. ASSUME num_to_exe > 0
      PROVE  /\ n \in RingIds /\ n \in HeldIds /\ n \notin BufIds
             /\ Next1.kind = prog[n].kind /\ Next1.addr = prog[n].addr
  <2>1. Count > 0
      BY <1>4 DEF IInv, Kinds, Count
  <2>2. Slot(0) = Next1 /\ Describes(Next1, prog, commit) /\ 0 \in 0 .. Count - 1
      BY <1>1, <2>1, HeadSlot
  <2>3. n \in RingIds
      BY <2>2 DEF RingIds
  <2>4. n \notin BufIds
      BY <1>1, <1>2, <2>3
  <2> QED BY <1>1, <2>2, <2>3, <2>4 DEF Describes
<1>5. \A b \in BufIds : \E k \in DOMAIN store_buffer :
         /\ b = store_buffer[k].id /\ store_buffer[k].addr = prog[b].addr /\ IsStore(b)
    BY DEF BufIds, IInv, BufferEntries, Describes, IsStore
<1>6. WriteEnable(in, read) => in # None
    BY Counters
<1>7. in # None /\ ~WriteEnable(in, read) => read /\ x = Len(prog) + 1
  <2>1. in # None /\ ~WriteEnable(in, read) => read /\ Bypass(in, tlb)
      BY Counters
  <2> QED BY <2>1 DEF NextInstrExe, NewEntry, Bypass, EmptyInt, StBufMatches, IsNextStore, IsNextLoad
<1> SUFFICES /\ HeldIds' = (HeldIds \ (IF read THEN {x} ELSE {})) \union New
             /\ read => Known \/ Fresh
    BY <1>6, <1>7
<1>8. CASE Idles(read)
  <2>1. ~read /\ ~ReadFromLsq(read)
      BY <1>8 DEF Idles
  <2>2. BufIds' = BufIds
      BY <1>8, BufferInv DEF Kept
  <2> QED BY <1>1, <1>3, <2>1, <2>2
<1>9. CASE Parks(read)
  <2>1. ~read /\ ReadFromLsq(read) /\ num_to_exe > 0
      BY <1>9 DEF Parks
  <2>2. BufIds' = BufIds \union {n}
      BY <1>9, BufferInv
  <2> QED BY <1>1, <1>3, <1>4, <2>1, <2>2
<1>10. CASE LoadGoes(in, tlb, read)
  <2>1. /\ read /\ ReadFromLsq(read) /\ num_to_exe > 0 /\ x = n /\ prog[n].kind = "LOAD"
        /\ ~StBufCollision /\ (Next1.addr \in IoAddrs => StBufEmpty)
      BY <1>4, <1>10 DEF LoadGoes
  <2>2. BufIds' = BufIds
      BY <1>10, BufferInv DEF Kept
  <2>3. HeldIds' = (HeldIds \ {x}) \union New
      BY <1>1, <1>3, <1>4, <2>1, <2>2
  <2>4. ASSUME NEW h \in HeldIds, h < x
        PROVE  prog[h].addr # prog[x].addr /\ prog[x].addr \notin IoAddrs
    <3>1. h \in BufIds
      <4>1. h \in RingIds => h = n \/ h \in RingIds'
          BY <1>3
      <4>2. n \in Int /\ h \in Int
          BY <1>1, <1>4, <2>1
      <4>3. ReadFromLsq(read) /\ h \in RingIds' => n < h
          BY <1>3
      <4>4. h < n /\ ReadFromLsq(read)
          BY <2>1, <2>4
      <4> HIDE DEF n, x
      <4>5. h \notin RingIds
          BY <4>1, <4>2, <4>3, <4>4
      <4> QED BY <1>1, <4>5
    <3>2. PICK k \in DOMAIN store_buffer :
             h = store_buffer[k].id /\ store_buffer[k].addr = prog[h].addr
        BY <1>5, <3>1
    <3>3. store_buffer[k].addr # Next1.addr
        BY <2>1 DEF StBufCollision
    <3>4. store_buffer # <<>>
        BY <3>2
    <3> QED BY <1>4, <2>1, <3>2, <3>3, <3>4 DEF StBufEmpty
  <2> QED BY <1>4, <2>1, <2>3, <2>4 DEF IsStore, PassesNone
<1>11. CASE BufferedGoes(in, tlb, read)
  <2>1. /\ read /\ ~ReadFromLsq(read) /\ x = store_buffer[1].id /\ Matches(x)
        /\ store_buffer # <<>>
      BY <1>11 DEF BufferedGoes, StBufEmpty
  <2>2. BufIds' = BufIds \ {x} /\ \A h \in BufIds' : x < h
      BY <1>11, <2>1, BufferInv
  <2>3. 1 \in DOMAIN store_buffer
    <3>1. Len(store_buffer) \in Nat \ {0}
        BY <2>1, HeldIsInFlight, EmptySeq
    <3> QED BY <1>1, <3>1
  <2>4. x \in BufIds /\ prog[x].kind = "STORE"
      BY <2>1, <2>3 DEF BufIds, IInv, BufferEntries, Describes
  <2>5. x \notin RingIds /\ \A h \in RingIds' : x < h
    <3>1. \A h \in RingIds' : h \in RingIds \/ h = Len(prog) + 1
        BY <1>3
    <3>2. x \in Int /\ x < Len(prog) + 1
        BY <1>1, <2>4
    <3> QED BY <1>2, <2>4, <3>1, <3>2
  <2> QED BY <1>1, <1>3, <2>1, <2>2, <2>4, <2>5 DEF IsStore, PassesNone
<1>12. CASE StoreGoes(in, tlb, read)
  <2>1. /\ read /\ ReadFromLsq(read) /\ num_to_exe > 0 /\ x = n /\ prog[n].kind = "STORE"
        /\ Matches(n) /\ store_buffer = <<>>
      BY <1>4, <1>12 DEF StoreGoes, StBufEmpty
  <2>2. BufIds' = BufIds /\ BufIds = {}
    <3>1. BufIds' = BufIds
        BY <1>12, BufferInv DEF Kept
    <3>2. DOMAIN store_buffer = {}
        BY <1>1, <2>1
    <3> QED BY <3>1, <3>2 DEF BufIds
  <2>3. HeldIds' = RingIds' /\ HeldIds = RingIds
      BY <1>1, <2>2
  <2>4. HeldIds' = (HeldIds \ {x}) \union New
    <3> HIDE DEF New
    <3>1. RingIds' = (RingIds \ {n}) \union New
        BY <1>3, <2>1
    <3> QED BY <2>1, <2>3, <3>1
  <2>5. \A h \in HeldIds' : x < h
    <3>1. \A h \in RingIds' : n < h
        BY <1>3, <2>1
    <3> QED BY <2>1, <2>3, <3>1
  <2> QED BY <1>4, <2>1, <2>4, <2>5 DEF IsStore, PassesNone
<1>13. CASE IncomingGoes(in, tlb, read)
  <2>1. /\ read /\ ~ReadFromLsq(read) /\ Count = 0 /\ store_buffer = <<>>
        /\ in # None /\ in.kind = "LOAD" /\ x = Len(prog) + 1
    <3>1. NewEntry(in, tlb).id = Len(prog) + 1
        BY DEF NewEntry
    <3>2. x = Len(prog) + 1 /\ num_to_exe = 0 /\ num_to_translate = 0
        BY <1>13, <3>1 DEF IncomingGoes
    <3>3. Count = 0
        BY <3>2 DEF Count
    <3> QED BY <1>13, <3>2, <3>3 DEF IncomingGoes, StBufEmpty
  <2>2. ~WriteEnable(in, read)
      BY <1>13 DEF IncomingGoes, WriteEnable, EmptyInt
  <2>3. HeldIds = {}
    <3>1. DOMAIN store_buffer = {}
        BY <1>1, <2>1
    <3> QED BY <1>1, <2>1, <3>1 DEF BufIds, RingIds
  <2>4. BufIds' = BufIds
      BY <1>13, BufferInv DEF Kept
  <2> QED BY <1>1, <1>3, <2>1, <2>2, <2>3, <2>4
<1>14. read => CanRead(in, tlb)
    BY DEF Cycle
<1> QED BY <1>8, <1>9, <1>10, <1>11, <1>12, <1>13, <1>14, OneDeparture

\* What the commit stage lets go is preceded by nothing that can still fault,
\* except a store right before it, which has been reported finished all the same.
LEMMA MatchedIsSafe ==
    ASSUME IInv, NEW s \in HeldIds, IsStore(s), Matches(s)
    PROVE  /\ \A i \in commit .. s : finished[i] = "ok"
           /\ \A i \in commit .. s - 1 : IsStore(i) => i = s - 1
<1>1. /\ s \in commit .. Len(prog) /\ commit \in Nat \ {0} /\ Len(prog) \in Nat
      /\ DOMAIN prog = 1 .. Len(prog)
    BY HeldIsInFlight
<1>2. /\ Len(finished) = Len(prog)
      /\ \A i \in 1 .. Len(prog) : finished[i] \in {"no", "ok", "faulty"}
      /\ \A i \in 1 .. Len(prog) : IsStore(i) => finished[i] = "ok"
  <2>1. finished \in Seq({"no", "ok", "faulty"}) /\ Len(finished) = Len(prog)
      BY DEF IInv, Kinds
  <2>2. \A i \in 1 .. Len(prog) : finished[i] \in {"no", "ok", "faulty"}
      BY <2>1
  <2> QED BY <1>1, <2>1, <2>2 DEF IInv, Reports
<1>3. CASE CommitStore0
  <2>1. s \in {commit, commit + 1} /\ IsStore(commit)
      BY <1>3 DEF Matches, RobStoreIdx, CommitStore0
  <2> QED BY <1>1, <1>2, <2>1
<1>4. CASE ~CommitStore0 /\ CommitStore1
  <2>1. s \in {commit + 1, (commit + 1) + 1}
      BY <1>4 DEF Matches, RobStoreIdx
  <2>2. finished[commit] = "ok" /\ IsStore(commit + 1) /\ ~IsStore(commit)
      BY <1>1, <1>2, <1>4 DEF CommitStore0, CommitStore1, Offered
  <2> QED BY <1>1, <1>2, <2>1, <2>2
<1> QED BY <1>3, <1>4 DEF Matches, RobStoreAck

\* What is sent is appended, after everything that was sent before.
LEMMA SentAfter ==
    ASSUME IInv, NEW in \in MemInstr \union {None}, NEW tlb \in TlbAnswers, NEW read \in BOOLEAN,
           Cycle(in, tlb, read)
    PROVE  /\ left' \in Seq(Nat)
           /\ \A k \in DOMAIN left : k \in DOMAIN left' /\ left'[k] = left[k]
           /\ \A k \in DOMAIN left' : \/ k \in DOMAIN left
                                      \/ /\ read /\ left'[k] = NextInstrExe(in, tlb).id
                                         /\ k \notin DOMAIN left
                                         /\ \A m \in DOMAIN left : m < k
                                         /\ \A m \in DOMAIN left' : m # k => m \in DOMAIN left
           /\ Sent' = Sent \union (IF read THEN {NextInstrExe(in, tlb).id} ELSE {})
           /\ DOMAIN left \subseteq Nat /\ DOMAIN left' \subseteq Nat
<1>1. left \in Seq(Nat)
    BY DEF IInv, Kinds
<1>2. CASE ~read
  <2>1. left' = left
      BY <1>2 DEF Cycle
  <2> QED BY <1>1, <1>2, <2>1 DEF Sent
<1>3. CASE read
  <2> DEFINE x == NextInstrExe(in, tlb).id
  <2>1. x \in Nat
    <3>1. x \in HeldIds \/ x = Len(prog) + 1
        BY <1>3, HeldAfter
    <3>2. HeldIds \subseteq commit .. Len(prog) /\ commit \in Nat \ {0} /\ Len(prog) \in Nat
        BY HeldIsInFlight
    <3>3. \A h \in HeldIds : h \in Nat
        BY <3>2
    <3>4. Len(prog) + 1 \in Nat
        BY <3>2
    <3> HIDE DEF x
    <3> QED BY <3>1, <3>3, <3>4
  <2>2. left' = Append(left, x)
      BY <1>3 DEF Cycle
  <2> HIDE DEF x
  <2>3. /\ left' \in Seq(Nat) /\ DOMAIN left = 1 .. Len(left) /\ Len(left) \in Nat
        /\ DOMAIN left' = 1 .. Len(left) + 1 /\ left'[Len(left) + 1] = x
        /\ \A k \in 1 .. Len(left) : left'[k] = left[k]
      BY <1>1, <2>1, <2>2
  <2>4. \A k \in DOMAIN left' : k \in DOMAIN left \/ k = Len(left) + 1
      BY <2>3
  <2>5. \A k \in DOMAIN left : k \in DOMAIN left' /\ k < Len(left) + 1
      BY <2>3
  <2>6. Len(left) + 1 \in DOMAIN left' /\ Len(left) + 1 \notin DOMAIN left
      BY <2>3
  <2>7. Sent' = Sent \union {x}
      BY <2>3, <2>4, <2>5, <2>6 DEF Sent
  <2> QED BY <1>3, <2>3, <2>4, <2>5, <2>6, <2>7 DEF x
<1> QED BY <1>2, <1>3

\* The ledger, the reports and the order of the stores that were sent.
LEMMA CycleAccounts ==
    ASSUME IInv, NEW in \in MemInstr \union {None}, NEW tlb \in TlbAnswers, NEW read \in BOOLEAN,
           Cycle(in, tlb, read)
    PROVE  Accounts' /\ Reports' /\ SentStores'
<1> DEFINE x == NextInstrExe(in, tlb).id
           new == Len(prog) + 1
           Gone == IF read THEN {x} ELSE {}
           New == IF WriteEnable(in, read) THEN {new} ELSE {}
           Added == IF in # None THEN {new} ELSE {}
<1>1. /\ HeldIds \subseteq commit .. Len(prog) /\ HeldIds \subseteq MemIds
      /\ commit \in Nat \ {0} /\ Len(prog) \in Nat /\ DOMAIN prog = 1 .. Len(prog)
    BY HeldIsInFlight
<1>2. /\ HeldIds' = (HeldIds \ Gone) \union New
      /\ read => \/ /\ x \in HeldIds
                    /\ IsStore(x) => Matches(x) /\ \A h \in HeldIds' : x < h
                 \/ x = new /\ in # None /\ in.kind = "LOAD" /\ ~WriteEnable(in, read)
      /\ WriteEnable(in, read) => in # None
      /\ in # None /\ ~WriteEnable(in, read) => read /\ x = new
    BY HeldAfter
<1>3. /\ \A k \in DOMAIN left : k \in DOMAIN left' /\ left'[k] = left[k]
      /\ \A k \in DOMAIN left' : \/ k \in DOMAIN left
                                 \/ /\ read /\ left'[k] = x
                                    /\ k \notin DOMAIN left
                                    /\ \A m \in DOMAIN left' : m # k => m \in DOMAIN left
      /\ Sent' = Sent \union Gone
    BY SentAfter
<1>4. /\ prog' \in Seq(MemInstr \union {Other}) /\ DOMAIN prog' = 1 .. Len(prog')
      /\ Len(prog') = Len(prog) + Bit(in # None)
      /\ \A i \in 1 .. Len(prog) : prog'[i] = prog[i] /\ finished'[i] = finished[i]
      /\ in # None => prog'[new] = in
      /\ in # None => finished'[new] = IF in.kind = "STORE" THEN "ok" ELSE "no"
      /\ commit' = commit /\ flushed' = flushed
    BY ProgramGrows
<1>5. /\ \A j, k \in DOMAIN left : j # k => left[j] # left[k]
      /\ HeldIds \cap Sent = {} /\ Sent \subseteq MemIds
      /\ MemIds \ flushed \subseteq HeldIds \union Sent
    BY DEF IInv, Accounts
<1>6. /\ DOMAIN prog' = (1 .. Len(prog)) \union Added
      /\ new \notin 1 .. Len(prog)
  <2>1. 1 .. Len(prog) + 1 = (1 .. Len(prog)) \union {new} /\ new \notin 1 .. Len(prog)
      BY <1>1
  <2>2. in = None => DOMAIN prog' = 1 .. Len(prog)
      BY <1>1, <1>4 DEF Bit
  <2>3. in # None => DOMAIN prog' = 1 .. Len(prog) + 1
      BY <1>1, <1>4 DEF Bit
  <2> QED BY <2>1, <2>2, <2>3
<1>7. MemIds' = MemIds \union Added
  <2>1. in # None => in.kind # "OTHER"
      BY DEF MemInstr
  <2> QED BY <1>1, <1>4, <1>6, <2>1 DEF MemIds
<1>8. /\ MemIds \subseteq 1 .. Len(prog) /\ new \notin MemIds
      /\ Gone \subseteq HeldIds \union Added /\ New \subseteq Added
      /\ Added \subseteq New \union Gone /\ Gone \cap New = {}
  <2>1. MemIds \subseteq 1 .. Len(prog) /\ new \notin MemIds
      BY <1>1, <1>6 DEF MemIds
  <2>2. Gone \subseteq HeldIds \union Added /\ New \subseteq Added /\ Added \subseteq New \union Gone
      BY <1>2
  <2>3. Gone \cap New = {}
      BY <1>1, <1>2, <2>1
  <2> QED BY <2>1, <2>2, <2>3
<1>9. ASSUME NEW j \in DOMAIN left', NEW k \in DOMAIN left', j # k PROVE left'[j] # left'[k]
  <2>1. \A m \in DOMAIN left : left[m] \in Sent
      BY DEF Sent
  <2>2. read => x \notin Sent
      BY <1>2, <1>5, <1>8
  <2> QED BY <1>3, <1>5, <1>9, <2>1, <2>2
<1> HIDE DEF Gone, New, Added, x, new
<1>10. Accounts'
  <2>1. Added \cap MemIds = {}
      BY <1>8 DEF Added
  <2>2. HeldIds' \cap Sent' = {}
      BY <1>1, <1>2, <1>3, <1>5, <1>8, <2>1
  <2>3. Sent' \subseteq MemIds'
      BY <1>1, <1>3, <1>5, <1>7, <1>8
  <2>4. MemIds' \ flushed' \subseteq HeldIds' \union Sent'
      BY <1>2, <1>3, <1>4, <1>5, <1>7, <1>8
  <2> QED BY <1>9, <2>2, <2>3, <2>4 DEF Accounts
<1>11. Reports'
  <2> SUFFICES ASSUME NEW i \in DOMAIN prog'
               PROVE  /\ prog'[i].kind = "STORE" => finished'[i] = "ok"
                      /\ prog'[i].kind = "LOAD" /\ finished'[i] # "no" => i \in Sent'
      BY DEF Reports, IsStore
  <2>1. CASE i \in 1 .. Len(prog)
      BY <1>1, <1>3, <1>4, <2>1 DEF IInv, Reports, IsStore
  <2>2. CASE in # None /\ i = new
      BY <1>4, <2>2
  <2> QED BY <1>6, <2>1, <2>2 DEF Added
<1>12. excepted' = excepted \/ (read /\ excepted' = excepted \union {x})
    BY DEF Cycle, x
<1>13. SentStores'
  <2> SUFFICES ASSUME NEW s \in Sent', prog'[s].kind = "STORE"
               PROVE  /\ \A h \in HeldIds' : s < h
                      /\ \A i \in commit' .. s : finished'[i] = "ok"
                      /\ \A i \in commit' .. s - 1 :
                            prog'[i].kind = "STORE" /\ i \in excepted' => i = s - 1
      BY DEF SentStores, IsStore
  <2>1. s \in 1 .. Len(prog)
    <3>1. s \in MemIds \/ (in # None /\ s = new)
        BY <1>1, <1>3, <1>5, <1>8 DEF Added
    <3>2. CASE in # None /\ s = new
      <4>1. prog'[new] = in
          BY <1>4, <3>2
      <4>2. s \in Gone
          BY <1>3, <1>5, <1>8, <3>2
      <4>3. read /\ x = new
          BY <3>2, <4>2 DEF Gone
      <4>4. x \notin HeldIds
          BY <1>1, <1>8, <4>3
      <4> QED BY <1>2, <3>2, <4>1, <4>3, <4>4
    <3> QED BY <1>8, <3>1, <3>2
  <2>2. IsStore(s)
      BY <1>4, <2>1 DEF IsStore
  <2>3. \A i \in commit .. s : finished'[i] = finished[i] /\ prog'[i] = prog[i]
      BY <1>1, <1>4, <2>1
  <2>4. \A i \in commit .. s - 1 : i \in commit .. s
      BY <1>1, <2>1
  <2>5. CASE s \in Sent
    <3>1. /\ \A h \in HeldIds : s < h
          /\ \A i \in commit .. s : finished[i] = "ok"
          /\ \A i \in commit .. s - 1 : IsStore(i) /\ i \in excepted => i = s - 1
        BY <2>2, <2>5 DEF IInv, SentStores
    <3>2. s < new
        BY <1>1, <2>1 DEF new
    <3>3. \A h \in HeldIds' : s < h
        BY <1>2, <3>1, <3>2 DEF New
    <3>4. ASSUME NEW i \in commit .. s - 1, read, i = x PROVE FALSE
      <4>1. x \in HeldIds \/ x = new
          BY <1>2, <3>4
      <4>2. s < x
          BY <3>1, <3>2, <4>1
      <4> QED BY <1>1, <2>1, <3>4, <4>2
    <3>5. \A i \in commit .. s - 1 : i \in excepted' => i \in excepted
        BY <1>12, <3>4
    <3> QED BY <1>4, <2>3, <2>4, <3>1, <3>3, <3>5 DEF IsStore
  <2>6. CASE s = x /\ read
    <3>1. x \in HeldIds
      <4>1. x # new
          BY <1>1, <2>1, <2>6 DEF new
      <4> QED BY <1>2, <2>6, <4>1
    <3>2. IsStore(x) => Matches(x) /\ \A h \in HeldIds' : x < h
      <4>1. x # new
          BY <1>1, <1>8, <3>1
      <4> QED BY <1>2, <2>6, <4>1
    <3>3. /\ \A i \in commit .. s : finished[i] = "ok"
          /\ \A i \in commit .. s - 1 : IsStore(i) => i = s - 1
        BY <2>2, <2>6, <3>1, <3>2, MatchedIsSafe
    <3> QED BY <1>4, <2>2, <2>3, <2>4, <2>6, <3>2, <3>3 DEF IsStore
  <2> QED BY <1>3, <2>5, <2>6 DEF Gone
<1> QED BY <1>10, <1>11, <1>13

\* The order at the cache: a load leaves after the older stores it depends on,
\* which are neither held nor flushed; a store leaves after all older ones.
LEMMA CycleOrder ==
    ASSUME IInv, NEW in \in MemInstr \union {None}, NEW tlb \in TlbAnswers, NEW read \in BOOLEAN,
           Cycle(in, tlb, read)
    PROVE  LoadsSeeOlderStores' /\ StoresFinal'
<1> DEFINE x == NextInstrExe(in, tlb).id
<1>1. /\ HeldIds \subseteq commit .. Len(prog) /\ HeldIds \subseteq MemIds
      /\ commit \in Nat \ {0} /\ Len(prog) \in Nat /\ DOMAIN prog = 1 .. Len(prog)
      /\ MemIds \subseteq 1 .. Len(prog)
    BY HeldIsInFlight DEF MemIds
<1> DEFINE new == Len(prog) + 1
<1>2. read => \/ /\ x \in HeldIds
                 /\ PassesNone(x)
              \/ HeldIds = {} /\ x = new /\ in # None /\ in.kind = "LOAD"
  <2>1. read => \/ /\ x \in HeldIds
                   /\ prog[x].kind \in {"LOAD", "STORE"}
                   /\ IsStore(x) => Matches(x) /\ \A h \in HeldIds' : x < h
                   /\ PassesNone(x)
                \/ /\ HeldIds = {} /\ x = new
                   /\ in # None /\ in.kind = "LOAD" /\ ~WriteEnable(in, read)
      BY HeldAfter
  <2> HIDE DEF x, new
  <2> QED BY <2>1
<1>3. /\ \A k \in DOMAIN left : k \in DOMAIN left' /\ left'[k] = left[k]
      /\ \A k \in DOMAIN left' : \/ k \in DOMAIN left
                                 \/ /\ read /\ left'[k] = x
                                    /\ k \notin DOMAIN left
                                    /\ \A m \in DOMAIN left : m < k
                                    /\ \A m \in DOMAIN left' : m # k => m \in DOMAIN left
      /\ DOMAIN left \subseteq Nat /\ DOMAIN left' \subseteq Nat
  <2>1. \A k \in DOMAIN left : k \in DOMAIN left' /\ left'[k] = left[k]
      BY SentAfter
  <2>2. \A k \in DOMAIN left' : \/ k \in DOMAIN left
                                \/ /\ read /\ left'[k] = x
                                   /\ k \notin DOMAIN left
                                   /\ \A m \in DOMAIN left : m < k
                                   /\ \A m \in DOMAIN left' : m # k => m \in DOMAIN left
      BY SentAfter
  <2>3. DOMAIN left \subseteq Nat /\ DOMAIN left' \subseteq Nat
      BY SentAfter
  <2> QED BY <2>1, <2>2, <2>3
<1>4. /\ \A i \in 1 .. Len(prog) : prog'[i] = prog[i]
      /\ flushed' = flushed /\ (in # None => prog'[new] = in)
    BY ProgramGrows
<1>5. /\ HeldIds \cap Sent = {} /\ Sent \subseteq 1 .. Len(prog)
      /\ MemIds \ flushed \subseteq HeldIds \union Sent
    BY <1>1 DEF IInv, Accounts
<1>6. \A k \in DOMAIN left : left[k] \in Sent
    BY DEF Sent
<1>7. \A k \in DOMAIN left' : \/ left'[k] \in 1 .. Len(prog)
                              \/ left'[k] = new /\ prog'[new].kind = "LOAD" /\ HeldIds = {}
    BY <1>1, <1>2, <1>3, <1>4, <1>5, <1>6
<1> HIDE DEF x
<1>8. LoadsSeeOlderStores'
  <2> SUFFICES ASSUME NEW b \in DOMAIN left', NEW i \in 1 .. left'[b] - 1,
                      prog'[left'[b]].kind = "LOAD", prog'[i].kind = "STORE", i \notin flushed',
                      \/ prog'[i].addr = prog'[left'[b]].addr
                      \/ prog'[left'[b]].addr \in IoAddrs
               PROVE  \E a, c \in DOMAIN left' : a < c /\ left'[a] = i /\ left'[c] = left'[b]
      BY DEF LoadsSeeOlderStores, Before, IsStore
  <2>1. /\ i \in 1 .. Len(prog) /\ left'[b] \in 1 .. new /\ i < left'[b]
        /\ prog'[i] = prog[i]
        /\ left'[b] \in 1 .. Len(prog) => prog'[left'[b]] = prog[left'[b]]
      BY <1>1, <1>4, <1>7
  <2>2. CASE b \in DOMAIN left
    <3>1. left'[b] = left[b] /\ left[b] \in 1 .. Len(prog)
        BY <1>3, <1>5, <1>6, <2>2
    <3>2. Before(i, left[b])
        BY <1>4, <2>1, <2>2, <3>1 DEF IInv, LoadsSeeOlderStores, IsStore
    <3>3. PICK a \in DOMAIN left, c \in DOMAIN left : a < c /\ left[a] = i /\ left[c] = left[b]
        BY <3>2 DEF Before
    <3> QED BY <1>3, <3>1, <3>3
  <2>3. CASE b \notin DOMAIN left
    <3>1. read /\ left'[b] = x /\ \A m \in DOMAIN left : m < b
        BY <1>3, <2>3
    <3>2. i \notin HeldIds
      <4>1. CASE x \in HeldIds
        <5>1. x \in 1 .. Len(prog) /\ x # new
            BY <1>1, <4>1
        <5> QED BY <1>2, <2>1, <3>1, <5>1 DEF IsStore, PassesNone
      <4> QED BY <1>2, <3>1, <4>1
    <3>3. i \in MemIds
        BY <1>1, <2>1 DEF MemIds
    <3>4. i \in Sent
        BY <1>4, <1>5, <3>2, <3>3
    <3>5. PICK a \in DOMAIN left : left[a] = i
        BY <3>4 DEF Sent
    <3> QED BY <1>3, <3>1, <3>5
  <2> QED BY <2>2, <2>3
<1>9. ASSUME NEW a \in DOMAIN left', NEW b \in DOMAIN left', a < b,
             prog'[left'[a]].kind = "STORE", prog'[left'[b]].kind = "STORE"
      PROVE  left'[a] < left'[b]
  <2>1. prog'[left'[a]] = prog[left'[a]] /\ prog'[left'[b]] = prog[left'[b]]
      BY <1>4, <1>7, <1>9
  <2>2. a \in DOMAIN left
      BY <1>3, <1>9
  <2>3. CASE b \in DOMAIN left
      BY <1>3, <1>9, <2>1, <2>2, <2>3 DEF IInv, StoresFinal, IsStore
  <2>4. CASE b \notin DOMAIN left
    <3>1. read /\ left'[b] = x
        BY <1>3, <2>4
    <3>2. left[a] \in Sent /\ IsStore(left[a]) /\ left'[a] = left[a]
        BY <1>3, <1>6, <1>9, <2>1, <2>2 DEF IsStore
    <3>3. x \in HeldIds
        BY <1>2, <1>4, <1>9, <3>1
    <3> QED BY <3>1, <3>2, <3>3 DEF IInv, SentStores
  <2> QED BY <2>3, <2>4
<1>10. flushed \subseteq 1 .. commit - 1 /\ flushed \subseteq 1 .. Len(prog)
  <2>1. flushed \subseteq 1 .. commit - 1 /\ commit <= Len(prog) + 1
      BY DEF IInv, Kinds
  <2> QED BY <1>1, <2>1
<1>11. excepted' = excepted \/ (read /\ excepted' = excepted \union {x})
    BY DEF Cycle, x
<1>12. ASSUME NEW i \in flushed', prog'[i].kind = "STORE", i \notin excepted',
              NEW k \in DOMAIN left', left'[k] = i
       PROVE  i > 1 /\ prog'[i - 1].kind = "STORE" /\ i - 1 \in excepted'
  <2>1. prog'[i] = prog[i] /\ i \in 1 .. Len(prog)
      BY <1>4, <1>10, <1>12
  <2>2. k \in DOMAIN left
    <3> SUFFICES ASSUME k \notin DOMAIN left PROVE FALSE
        OBVIOUS
    <3>1. i = x /\ read
        BY <1>3, <1>12
    <3>2. i \in HeldIds
        BY <1>1, <1>2, <2>1, <3>1
    <3> QED BY <1>1, <1>4, <1>10, <3>2
  <2>3. IsStore(i) /\ Requested(i)
      BY <1>3, <1>11, <1>12, <2>1, <2>2 DEF IsStore, Requested, HasLeft
  <2>4. i > 1 /\ IsStore(i - 1) /\ i - 1 \in excepted
      BY <1>4, <2>3 DEF IInv, StoresFinal
  <2>5. prog'[i - 1] = prog[i - 1]
    <3>1. i - 1 \in 1 .. Len(prog)
        BY <1>1, <2>1, <2>4
    <3> QED BY <1>4, <3>1
  <2> QED BY <1>11, <2>4, <2>5 DEF IsStore
<1>13. StoresFinal'
    BY <1>9, <1>12 DEF StoresFinal, Requested, HasLeft, IsStore
<1> QED BY <1>8, <1>13

LEMMA CycleInv ==
    ASSUME IInv, NEW in \in MemInstr \union {None}, NEW tlb \in TlbAnswers, NEW read \in BOOLEAN,
           Cycle(in, tlb, read)
    PROVE  IInv'
<1>1. Kinds'
  <2>1. /\ num_to_exe' \in Nat /\ num_to_translate' \in Nat /\ Count' <= N
      BY Counters
  <2>2. /\ head' \in Index /\ tail' \in Index /\ tlb_tail' \in Index
        /\ control_table' \in [Index -> Entry]
      BY RingAfter
  <2>3. store_buffer' \in Seq(Entry) /\ Len(store_buffer') < StBufEntries
      BY BufferInv
  <2>4. /\ prog' \in Seq(MemInstr \union {Other})
        /\ finished' \in Seq({"no", "ok", "faulty"}) /\ Len(finished') = Len(prog')
        /\ Len(prog') = Len(prog) + Bit(in # None)
        /\ commit' = commit /\ flushed' = flushed
      BY ProgramGrows
  <2>5. commit' \in 1 .. Len(prog') + 1
      BY <2>4 DEF IInv, Kinds, Bit
  <2>6. left' \in Seq(Nat) /\ excepted' \subseteq Nat
    <3>1. Sent' \subseteq Nat
        BY SentAfter DEF Sent
    <3>2. excepted' \subseteq excepted \union Sent'
      <4>1. read => NextInstrExe(in, tlb).id \in Sent'
        <5>1. Sent' = Sent \union (IF read THEN {NextInstrExe(in, tlb).id} ELSE {})
            BY SentAfter
        <5> QED BY <5>1
      <4>2. \/ excepted' = excepted
            \/ read /\ excepted' = excepted \union {NextInstrExe(in, tlb).id}
          BY DEF Cycle
      <4> QED BY <4>1, <4>2
    <3> QED BY <3>1, <3>2, SentAfter DEF IInv, Kinds
  <2>7. flushed' \subseteq 1 .. commit' - 1
      BY <2>4 DEF IInv, Kinds
  <2> QED BY <2>1, <2>2, <2>3, <2>4, <2>5, <2>6, <2>7 DEF Kinds
<1> QED BY <1>1, RingAfter, RingInv, BufferInv, CycleAccounts, CycleOrder DEF IInv
-----------------------------------------------------------------------------
(* The commit stage.                                                         *)

\* The ring, the store buffer and what they hold do not change.
LEMMA QueueKept ==
    ASSUME UNCHANGED queue
    PROVE  /\ Count' = Count /\ (\A k : Slot(k)' = Slot(k)) /\ HeldIds' = HeldIds
           /\ (Pointers => Pointers')
<1>1. Count' = Count /\ \A k : Slot(k)' = Slot(k)
    BY DEF queue, Count, Slot
<1>2. RingIds' = RingIds /\ BufIds' = BufIds
    BY <1>1 DEF queue, RingIds, BufIds
<1>3. Pointers => Pointers'
    BY <1>1 DEF Pointers, Pos, queue
<1> QED BY <1>1, <1>2, <1>3 DEF HeldIds

\* An exception at the head of the graduation list: everything held is given up,
\* and with it at most one store that was sent, the one behind a store that left
\* with an exception.
LEMMA FlushInv == ASSUME IInv, Flush PROVE IInv'
<1>1. /\ head' = 0 /\ tail' = 0 /\ tlb_tail' = 0 /\ num_to_exe' = 0 /\ num_to_translate' = 0
      /\ store_buffer' = <<>> /\ flushed' = flushed \union (commit .. Len(prog))
      /\ commit' = Len(prog) + 1 /\ commit <= Len(prog)
      /\ finished[commit] = "faulty" \/ (IsStore(commit) /\ commit \in excepted)
      /\ UNCHANGED <<control_table, prog, finished, left, excepted>>
    BY DEF Flush, CommitXcpt, Offered
<1>2. Count' = 0 /\ N \in Nat \ {0} /\ StBufEntries \in Nat \ {0} /\ Len(<<>>) = 0
    BY <1>1, LsqAssumption DEF Count, N
<1>3. Len(prog) \in Nat /\ DOMAIN prog = 1 .. Len(prog) /\ commit \in Nat \ {0}
    BY HeldIsInFlight
<1>4. Kinds'
  <2>1. 0 \in Index /\ 0 <= N /\ 0 < StBufEntries
      BY <1>2 DEF Index
  <2>2. commit' \in 1 .. Len(prog') + 1
      BY <1>1, <1>3
  <2>3. flushed' \subseteq 1 .. commit' - 1
    <3>1. flushed \subseteq 1 .. commit - 1
        BY DEF IInv, Kinds
    <3>2. (1 .. commit - 1) \union (commit .. Len(prog)) \subseteq 1 .. Len(prog)
        BY <1>1, <1>3
    <3>3. 1 .. commit' - 1 = 1 .. Len(prog)
        BY <1>1, <1>3
    <3> QED BY <1>1, <3>1, <3>2, <3>3
  <2> QED BY <1>1, <1>2, <2>1, <2>2, <2>3 DEF Kinds, IInv
<1>5. Pointers'
    BY <1>1, <1>2 DEF Pointers, Pos, Trunc
<1>6. RingEntries' /\ BufferEntries'
    BY <1>1, <1>2 DEF RingEntries, BufferEntries
<1>7. HeldIds' = {}
    BY <1>1, <1>2 DEF HeldIds, RingIds, BufIds
<1>8. Sent' = Sent /\ MemIds' = MemIds
    BY <1>1 DEF Sent, MemIds
<1>9. Accounts'
  <2>1. MemIds \ flushed' \subseteq Sent
    <3>1. \A h \in HeldIds : h \in flushed'
        BY <1>1, HeldIsInFlight
    <3> QED BY <1>1, <3>1 DEF IInv, Accounts
  <2> QED BY <1>1, <1>7, <1>8, <2>1 DEF IInv, Accounts
<1>10. Reports'
    BY <1>1, <1>8 DEF IInv, Reports, IsStore
<1>11. Sent \subseteq 1 .. Len(prog)
    BY <1>3 DEF IInv, Accounts, MemIds
<1>12. SentStores'
    BY <1>1, <1>3, <1>7, <1>8, <1>11 DEF SentStores
<1>13. LoadsSeeOlderStores'
    BY <1>1 DEF IInv, LoadsSeeOlderStores, Before, IsStore
<1>14. ASSUME NEW i \in flushed', IsStore(i), Requested(i)
       PROVE  i > 1 /\ IsStore(i - 1) /\ i - 1 \in excepted
  <2>1. i \in Sent /\ i \notin excepted
      BY <1>14 DEF Requested, HasLeft, Sent
  <2>2. CASE i \in flushed
      BY <1>14, <2>2 DEF IInv, StoresFinal
  <2>3. CASE i \in commit .. Len(prog)
    <3>1. /\ \A h \in commit .. i : finished[h] = "ok"
          /\ \A h \in commit .. i - 1 : IsStore(h) /\ h \in excepted => h = i - 1
        BY <1>14, <2>1 DEF IInv, SentStores
    <3>2. commit \in commit .. i
        BY <1>3, <2>3
    <3>3. IsStore(commit) /\ commit \in excepted /\ commit # i
        BY <1>1, <2>1, <3>1, <3>2
    <3>4. commit \in commit .. i - 1
        BY <1>3, <2>3, <3>3
    <3>5. commit = i - 1
        BY <3>1, <3>3, <3>4
    <3> QED BY <1>3, <2>3, <3>3, <3>5
  <2> QED BY <1>1, <2>2, <2>3
<1>15. StoresFinal'
    BY <1>1, <1>14 DEF IInv, StoresFinal, IsStore, Requested, HasLeft
<1> QED BY <1>4, <1>5, <1>6, <1>9, <1>10, <1>12, <1>13, <1>15 DEF IInv

LEMMA DispatchInv == ASSUME IInv, Dispatch PROVE IInv'
<1>1. /\ prog' = Append(prog, Other) /\ finished' = Append(finished, "no")
      /\ UNCHANGED queue /\ UNCHANGED <<commit, left, excepted, flushed>>
    BY DEF Dispatch
<1>2. /\ prog \in Seq(MemInstr \union {Other}) /\ finished \in Seq({"no", "ok", "faulty"})
      /\ Len(finished) = Len(prog) /\ commit \in 1 .. Len(prog) + 1
    BY DEF IInv, Kinds
<1>3. /\ prog' \in Seq(MemInstr \union {Other}) /\ finished' \in Seq({"no", "ok", "faulty"})
      /\ Len(finished') = Len(prog') /\ Len(prog') = Len(prog) + 1
      /\ \A i \in 1 .. Len(prog) : prog'[i] = prog[i] /\ finished'[i] = finished[i]
      /\ prog'[Len(prog) + 1] = Other /\ finished'[Len(prog) + 1] = "no"
      /\ DOMAIN prog' = 1 .. Len(prog) + 1
    BY <1>1, <1>2
<1>4. Len(prog) \in Nat /\ DOMAIN prog = 1 .. Len(prog) /\ commit \in Nat \ {0}
    BY HeldIsInFlight
<1>5. /\ Count' = Count /\ (\A k : Slot(k)' = Slot(k)) /\ HeldIds' = HeldIds
      /\ Pointers'
    BY <1>1, QueueKept DEF IInv
<1>6. Kinds'
  <2>1. commit' \in 1 .. Len(prog') + 1
      BY <1>1, <1>2, <1>3, <1>4
  <2> QED BY <1>1, <1>3, <1>5, <2>1 DEF Kinds, IInv, queue
<1>7. ASSUME NEW e, Describes(e, prog, commit) PROVE Describes(e, prog', commit')
  <2>1. e.id \in 1 .. Len(prog) /\ e.id \in commit' .. Len(prog')
      BY <1>1, <1>3, <1>4, <1>7 DEF Describes
  <2> QED BY <1>3, <1>7, <2>1 DEF Describes
<1>8. RingEntries'
  <2>1. num_to_exe' = num_to_exe
      BY <1>1 DEF queue
  <2> QED BY <1>5, <1>7, <2>1 DEF IInv, RingEntries
<1>9. BufferEntries'
  <2>1. store_buffer' = store_buffer
      BY <1>1 DEF queue
  <2> QED BY <1>5, <1>7, <2>1 DEF IInv, BufferEntries
<1>10. Sent' = Sent /\ MemIds' = MemIds
  <2>1. Other.kind = "OTHER"
      BY DEF Other
  <2>2. \A i \in 1 .. Len(prog) + 1 : i \in 1 .. Len(prog) \/ i = Len(prog) + 1
      BY <1>4
  <2>3. 1 .. Len(prog) \subseteq 1 .. Len(prog) + 1
      BY <1>4
  <2> QED BY <1>1, <1>3, <1>4, <2>1, <2>2, <2>3 DEF Sent, MemIds
<1>11. Sent \subseteq 1 .. Len(prog) /\ flushed \subseteq 1 .. Len(prog)
  <2>1. Sent \subseteq 1 .. Len(prog)
      BY <1>4 DEF IInv, Accounts, MemIds
  <2>2. flushed \subseteq 1 .. Len(prog)
      BY <1>2, <1>4 DEF IInv, Kinds
  <2> QED BY <2>1, <2>2
<1>12. Accounts'
    BY <1>1, <1>5, <1>10 DEF IInv, Accounts
<1>13. Reports'
  <2> SUFFICES ASSUME NEW i \in 1 .. Len(prog) + 1
               PROVE  /\ prog'[i].kind = "STORE" => finished'[i] = "ok"
                      /\ prog'[i].kind = "LOAD" /\ finished'[i] # "no" => i \in Sent
      BY <1>3, <1>10 DEF Reports, IsStore
  <2>1. CASE i \in 1 .. Len(prog)
      BY <1>3, <1>4, <2>1 DEF IInv, Reports, IsStore
  <2>2. CASE i = Len(prog) + 1
      BY <1>3, <2>2 DEF Other
  <2> QED BY <1>4, <2>1, <2>2
<1>14. SentStores'
  <2>1. ASSUME NEW s \in Sent
        PROVE  /\ prog'[s] = prog[s]
               /\ \A i \in commit .. s : finished'[i] = finished[i]
               /\ \A i \in commit .. s - 1 : prog'[i] = prog[i]
      BY <1>3, <1>4, <1>11
  <2> SUFFICES ASSUME NEW s \in Sent, IsStore(s)
               PROVE  /\ \A h \in HeldIds : s < h
                      /\ \A i \in commit .. s : finished'[i] = "ok"
                      /\ \A i \in commit .. s - 1 :
                            prog'[i].kind = "STORE" /\ i \in excepted => i = s - 1
      BY <1>1, <1>5, <1>10, <2>1 DEF SentStores, IsStore
  <2>2. /\ \A h \in HeldIds : s < h
        /\ \A i \in commit .. s : finished[i] = "ok"
        /\ \A i \in commit .. s - 1 : IsStore(i) /\ i \in excepted => i = s - 1
      BY DEF IInv, SentStores
  <2> QED BY <2>1, <2>2 DEF IsStore
<1>15. ASSUME NEW k \in DOMAIN left
       PROVE  /\ left[k] \in 1 .. Len(prog) /\ prog'[left[k]] = prog[left[k]]
              /\ \A i \in 1 .. left[k] - 1 : prog'[i] = prog[i]
  <2>1. left[k] \in 1 .. Len(prog)
      BY <1>11 DEF Sent
  <2> QED BY <1>3, <1>4, <2>1
<1>16. LoadsSeeOlderStores'
    BY <1>1, <1>15 DEF IInv, LoadsSeeOlderStores, Before, IsStore
<1>17. StoresFinal'
  <2>1. \A i \in flushed : prog'[i] = prog[i] /\ (i > 1 => prog'[i - 1] = prog[i - 1])
    <3>1. \A i \in 1 .. Len(prog) : i > 1 => i - 1 \in 1 .. Len(prog)
        BY <1>4
    <3> QED BY <1>3, <1>11, <3>1
  <2> QED BY <1>1, <1>15, <2>1 DEF IInv, StoresFinal, IsStore, Requested, HasLeft
<1> QED BY <1>5, <1>6, <1>8, <1>9, <1>12, <1>13, <1>14, <1>16, <1>17 DEF IInv

LEMMA FinishInv ==
    ASSUME IInv, NEW i, NEW how \in {"ok", "faulty"}, Finish(i, how)
    PROVE  IInv'
<1>1. /\ i \in commit .. Len(prog) /\ finished[i] = "no"
      /\ prog[i].kind = "LOAD" => HasLeft(i)
      /\ finished' = [finished EXCEPT ![i] = how]
      /\ UNCHANGED queue /\ UNCHANGED <<prog, commit, left, excepted, flushed>>
    BY DEF Finish
<1>2. finished \in Seq({"no", "ok", "faulty"}) /\ Len(finished) = Len(prog)
    BY DEF IInv, Kinds
<1>3. Len(prog) \in Nat /\ DOMAIN prog = 1 .. Len(prog) /\ commit \in Nat \ {0}
    BY HeldIsInFlight
<1>4. /\ finished' \in Seq({"no", "ok", "faulty"}) /\ Len(finished') = Len(prog)
      /\ \A j \in 1 .. Len(prog) : finished'[j] = IF j = i THEN how ELSE finished[j]
    BY <1>1, <1>2, <1>3
<1>5. /\ Count' = Count /\ (\A k : Slot(k)' = Slot(k)) /\ HeldIds' = HeldIds
      /\ Pointers'
    BY <1>1, QueueKept DEF IInv
<1>6. Kinds'
    BY <1>1, <1>4, <1>5 DEF Kinds, IInv, queue
<1>7. RingEntries' /\ BufferEntries'
    BY <1>1, <1>5 DEF IInv, RingEntries, BufferEntries, queue
<1>8. Sent' = Sent /\ MemIds' = MemIds
    BY <1>1 DEF Sent, MemIds
<1>9. Accounts'
    BY <1>1, <1>5, <1>8 DEF IInv, Accounts
<1>10. Reports'
  <2> SUFFICES ASSUME NEW j \in 1 .. Len(prog)
               PROVE  /\ IsStore(j) => finished'[j] = "ok"
                      /\ prog[j].kind = "LOAD" /\ finished'[j] # "no" => j \in Sent
      BY <1>1, <1>3, <1>8 DEF Reports, IsStore
  <2>1. /\ IsStore(j) => finished[j] = "ok"
        /\ prog[j].kind = "LOAD" /\ finished[j] # "no" => j \in Sent
      BY <1>3 DEF IInv, Reports
  <2>2. CASE j = i
      BY <1>1, <2>1, <2>2 DEF HasLeft, Sent
  <2>3. CASE j # i
      BY <1>4, <2>1, <2>3
  <2> QED BY <2>2, <2>3
<1>11. SentStores'
  <2> SUFFICES ASSUME NEW s \in Sent, IsStore(s)
               PROVE  /\ \A h \in HeldIds : s < h
                      /\ \A j \in commit .. s : finished'[j] = "ok"
                      /\ \A j \in commit .. s - 1 : IsStore(j) /\ j \in excepted => j = s - 1
      BY <1>1, <1>5, <1>8 DEF SentStores, IsStore
  <2>1. /\ \A h \in HeldIds : s < h
        /\ \A j \in commit .. s : finished[j] = "ok"
        /\ \A j \in commit .. s - 1 : IsStore(j) /\ j \in excepted => j = s - 1
      BY DEF IInv, SentStores
  <2>2. s \in 1 .. Len(prog)
      BY <1>3 DEF IInv, Accounts, MemIds
  <2>3. \A j \in commit .. s : j \in 1 .. Len(prog)
      BY <1>3, <2>2
  <2> QED BY <1>1, <1>4, <2>1, <2>3
<1>12. LoadsSeeOlderStores' /\ StoresFinal'
    BY <1>1 DEF IInv, LoadsSeeOlderStores, StoresFinal, Before, IsStore, Requested, HasLeft
<1> QED BY <1>5, <1>6, <1>7, <1>9, <1>10, <1>11, <1>12 DEF IInv

\* An instruction that retires is not held any more: a store has been sent, a
\* load has been answered.
LEMMA RetireInv == ASSUME IInv, Retire PROVE IInv'
<1>1. /\ commit <= Len(prog) /\ finished[commit] = "ok"
      /\ IsStore(commit) => HasLeft(commit)
      /\ commit' = commit + 1
      /\ UNCHANGED queue /\ UNCHANGED <<prog, finished, left, excepted, flushed>>
  <2>1. commit <= Len(prog) /\ finished[commit] # "no" /\ finished[commit] # "faulty"
      BY DEF Retire, CommitXcpt, Offered
  <2>2. finished[commit] \in {"no", "ok", "faulty"}
      BY <2>1 DEF IInv, Kinds
  <2> QED BY <2>1, <2>2 DEF Retire
<1>2. /\ Len(prog) \in Nat /\ DOMAIN prog = 1 .. Len(prog) /\ commit \in Nat \ {0}
      /\ HeldIds \subseteq commit .. Len(prog) /\ HeldIds \subseteq MemIds
    BY HeldIsInFlight
<1>3. commit \notin HeldIds
  <2> SUFFICES ASSUME commit \in HeldIds PROVE FALSE
      OBVIOUS
  <2>1. commit \in 1 .. Len(prog) /\ commit \notin Sent
      BY <1>1, <1>2 DEF IInv, Accounts
  <2>2. prog[commit].kind \in {"LOAD", "STORE"}
    <3>1. prog[commit] \in MemInstr \union {Other} /\ prog[commit].kind # "OTHER"
        BY <1>2, <2>1 DEF IInv, Kinds, MemIds
    <3> QED BY <3>1 DEF MemInstr, Other
  <2>3. CASE prog[commit].kind = "LOAD"
      BY <1>1, <1>2, <2>1, <2>3 DEF IInv, Reports
  <2>4. CASE prog[commit].kind = "STORE"
      BY <1>1, <2>1, <2>4 DEF IsStore, HasLeft, Sent
  <2> QED BY <2>2, <2>3, <2>4
<1>4. /\ Count' = Count /\ (\A k : Slot(k)' = Slot(k)) /\ HeldIds' = HeldIds
      /\ Pointers'
    BY <1>1, QueueKept DEF IInv
<1>5. Kinds'
  <2>1. commit' \in 1 .. Len(prog') + 1
      BY <1>1, <1>2
  <2>2. flushed' \subseteq 1 .. commit' - 1
    <3>1. 1 .. commit - 1 \subseteq 1 .. (commit + 1) - 1
        BY <1>2
    <3> QED BY <1>1, <3>1 DEF IInv, Kinds
  <2> QED BY <1>1, <1>4, <2>1, <2>2 DEF Kinds, IInv, queue
<1>6. ASSUME NEW e, e.id \in HeldIds, Describes(e, prog, commit)
      PROVE  Describes(e, prog', commit')
  <2>1. \A h \in HeldIds : h \in commit' .. Len(prog')
      BY <1>1, <1>2, <1>3
  <2> QED BY <1>1, <1>6, <2>1 DEF Describes
<1>7. RingEntries'
  <2>1. \A k \in 0 .. Count - 1 : Slot(k).id \in HeldIds
      BY DEF HeldIds, RingIds
  <2>2. num_to_exe' = num_to_exe
      BY <1>1 DEF queue
  <2> QED BY <1>4, <1>6, <2>1, <2>2 DEF IInv, RingEntries
<1>8. BufferEntries'
  <2>1. \A k \in DOMAIN store_buffer : store_buffer[k].id \in HeldIds
      BY DEF HeldIds, BufIds
  <2>2. store_buffer' = store_buffer
      BY <1>1 DEF queue
  <2> QED BY <1>4, <1>6, <2>1, <2>2 DEF IInv, BufferEntries
<1>9. Sent' = Sent /\ MemIds' = MemIds
    BY <1>1 DEF Sent, MemIds
<1>10. Accounts' /\ Reports'
    BY <1>1, <1>4, <1>9 DEF IInv, Accounts, Reports, IsStore
<1>11. SentStores'
  <2>1. \A s : \A i \in commit' .. s : i \in commit .. s
      BY <1>1, <1>2
  <2> QED BY <1>1, <1>4, <1>9, <2>1 DEF IInv, SentStores, IsStore
<1>12. LoadsSeeOlderStores' /\ StoresFinal'
    BY <1>1 DEF IInv, LoadsSeeOlderStores, StoresFinal, Before, IsStore, Requested, HasLeft
<1> QED BY <1>4, <1>5, <1>7, <1>8, <1>10, <1>11, <1>12 DEF IInv

LEMMA NextInv == IInv /\ [Next]_vars => IInv'
<1> SUFFICES ASSUME IInv, [Next]_vars PROVE IInv'
    OBVIOUS
<1>1. ASSUME NEW in \in MemInstr \union {None}, NEW tlb \in TlbAnswers, NEW read \in BOOLEAN,
             Cycle(in, tlb, read)
      PROVE  IInv'
    BY <1>1, CycleInv
<1>2. CASE Flush
    BY <1>2, FlushInv
<1>3. CASE Dispatch
    BY <1>3, DispatchInv
<1>4. ASSUME NEW i \in Ids, NEW how \in {"ok", "faulty"}, Finish(i, how) PROVE IInv'
    BY <1>4, FinishInv
<1>5. CASE Retire
    BY <1>5, RetireInv
<1>6. CASE UNCHANGED vars
  <2>1. /\ UNCHANGED queue /\ UNCHANGED <<prog, finished, commit, left, excepted, flushed>>
      BY <1>6 DEF vars
  <2>2. /\ Count' = Count /\ (\A k : Slot(k)' = Slot(k)) /\ HeldIds' = HeldIds
        /\ Pointers' /\ Sent' = Sent /\ MemIds' = MemIds
      BY <2>1, QueueKept DEF IInv, Sent, MemIds
  <2>3. Kinds' /\ RingEntries' /\ BufferEntries'
      BY <2>1, <2>2 DEF IInv, Kinds, RingEntries, BufferEntries, queue
  <2>4. Accounts' /\ Reports' /\ SentStores'
      BY <2>1, <2>2 DEF IInv, Accounts, Reports, SentStores, IsStore
  <2>5. LoadsSeeOlderStores' /\ StoresFinal'
      BY <2>1 DEF IInv, LoadsSeeOlderStores, StoresFinal, Before, IsStore, Requested, HasLeft
  <2> QED BY <2>2, <2>3, <2>4, <2>5 DEF IInv
<1> QED BY <1>1, <1>2, <1>3, <1>4, <1>5, <1>6 DEF Next
-----------------------------------------------------------------------------
\* Buffer and ring, read one behind the other, are what is held, in order.
LEMMA HeldInOrder ==
    ASSUME IInv
    PROVE  /\ \A j, k \in DOMAIN Held : j < k => Held[j] < Held[k]
           /\ Elements(Held) = HeldIds
<1> DEFINE b == Len(store_buffer)
<1>1. /\ b \in Nat /\ DOMAIN store_buffer = 1 .. b /\ Count \in Nat
      /\ HeldIds \subseteq Nat
  <2>1. /\ HeldIds \subseteq commit .. Len(prog) /\ commit \in Nat \ {0} /\ Len(prog) \in Nat
        /\ store_buffer \in Seq(Entry) /\ DOMAIN store_buffer = 1 .. b /\ Count \in 0 .. N
        /\ N \in Nat
      BY HeldIsInFlight
  <2> QED BY <2>1
<1> HIDE DEF b
<1>2. ASSUME NEW k \in 1 .. Count
      PROVE  k - 1 \in 0 .. Count - 1 /\ Slot(k - 1).id \in HeldIds
  <2>1. k - 1 \in 0 .. Count - 1
      BY <1>1
  <2> QED BY <2>1 DEF HeldIds, RingIds
<1>3. Queued \in Seq(Nat) /\ Len(Queued) = Count /\ \A k \in 1 .. Count : Queued[k] = Slot(k - 1).id
  <2>1. Queued = [k \in 1 .. Count |-> Slot(k - 1).id]
      BY DEF Queued, Count
  <2>2. \A k \in 1 .. Count : Slot(k - 1).id \in Nat
      BY <1>1, <1>2
  <2>3. Queued \in [1 .. Count -> Nat]
      BY <2>1, <2>2
  <2>4. Queued \in Seq(Nat)
      BY <1>1, <2>3, IsASeq
  <2>5. Len(Queued) = Count
      BY <1>1, <2>3, <2>4, LenProperties
  <2> QED BY <2>1, <2>4, <2>5
<1>4. Buffered \in Seq(Nat) /\ Len(Buffered) = b /\ \A k \in 1 .. b : Buffered[k] = store_buffer[k].id
  <2>1. Buffered = [k \in 1 .. b |-> store_buffer[k].id]
      BY <1>1 DEF Buffered
  <2>2. \A k \in 1 .. b : store_buffer[k].id \in HeldIds
      BY <1>1 DEF HeldIds, BufIds
  <2>3. Buffered \in [1 .. b -> Nat]
      BY <1>1, <2>1, <2>2
  <2>4. Buffered \in Seq(Nat)
      BY <1>1, <2>3, IsASeq
  <2>5. Len(Buffered) = b
      BY <1>1, <2>3, <2>4, LenProperties
  <2> QED BY <2>1, <2>4, <2>5
<1>5. /\ DOMAIN Held = 1 .. b + Count
      /\ \A k \in 1 .. b + Count : Held[k] = IF k <= b THEN store_buffer[k].id
                                                  ELSE Slot((k - b) - 1).id
  <2>1. Held \in Seq(Nat) /\ Len(Held) = b + Count
      BY <1>1, <1>3, <1>4, ConcatProperties DEF Held
  <2>2. DOMAIN Held = 1 .. b + Count
      BY <2>1, LenProperties
  <2>3. ASSUME NEW k \in 1 .. b + Count
        PROVE  Held[k] = IF k <= b THEN Buffered[k] ELSE Queued[k - b]
      BY <1>1, <1>3, <1>4, ConcatProperties DEF Held
  <2>4. ASSUME NEW k \in 1 .. b + Count
        PROVE  IF k <= b THEN k \in 1 .. b ELSE k - b \in 1 .. Count
      BY <1>1
  <2> QED BY <1>3, <1>4, <2>2, <2>3, <2>4
<1>6. ASSUME NEW k \in 1 .. b + Count
      PROVE  IF k <= b THEN k \in 1 .. b ELSE (k - b) - 1 \in 0 .. Count - 1
    BY <1>1
<1>7. \A j \in 1 .. b, k \in 1 .. b : j < k => store_buffer[j].id < store_buffer[k].id
    BY <1>1 DEF IInv, BufferEntries
<1>8. \A j \in 1 .. b, k \in 0 .. Count - 1 : store_buffer[j].id < Slot(k).id
    BY <1>1 DEF IInv, BufferEntries
<1>9. \A j, k \in 0 .. Count - 1 : j < k => Slot(j).id < Slot(k).id
    BY DEF IInv, RingEntries
<1>10. ASSUME NEW j \in DOMAIN Held, NEW k \in DOMAIN Held, j < k
       PROVE  Held[j] < Held[k]
  <2>1. (j - b) - 1 < (k - b) - 1 /\ (k <= b => j <= b)
      BY <1>1, <1>5, <1>10
  <2>2. CASE k <= b
      BY <1>5, <1>6, <1>7, <1>10, <2>1, <2>2
  <2>3. CASE j <= b /\ ~(k <= b)
      BY <1>5, <1>6, <1>8, <2>3
  <2>4. CASE ~(j <= b)
      BY <1>5, <1>6, <1>9, <2>1, <2>4
  <2> QED BY <2>2, <2>3, <2>4
<1>11. ASSUME NEW k \in DOMAIN Held PROVE Held[k] \in HeldIds
  <2>1. CASE k <= b
      BY <1>1, <1>5, <1>6, <2>1 DEF HeldIds, BufIds
  <2>2. CASE ~(k <= b)
      BY <1>5, <1>6, <2>2 DEF HeldIds, RingIds
  <2> QED BY <2>1, <2>2
<1>12. ASSUME NEW h \in HeldIds PROVE \E k \in DOMAIN Held : Held[k] = h
  <2>1. CASE h \in BufIds
    <3>1. PICK k \in 1 .. b : store_buffer[k].id = h
        BY <1>1, <2>1 DEF BufIds
    <3>2. k \in 1 .. b + Count /\ k <= b
        BY <1>1
    <3> QED BY <1>5, <3>1, <3>2
  <2>2. CASE h \in RingIds
    <3>1. PICK k \in 0 .. Count - 1 : Slot(k).id = h
        BY <2>2 DEF RingIds
    <3>2. b + k + 1 \in 1 .. b + Count /\ ~(b + k + 1 <= b) /\ ((b + k + 1) - b) - 1 = k
        BY <1>1
    <3> QED BY <1>5, <3>1, <3>2
  <2> QED BY <2>1, <2>2 DEF HeldIds
<1> QED BY <1>10, <1>11, <1>12 DEF Elements

\* Nothing is lost or sent twice, whatever the three decisions about a departure
\* and the two populations of the ring do, for every size of ring and buffer.
THEOREM QueueCorrect == Spec => []QueueInv
<1>1. IInv => QueueInv
  <2> SUFFICES ASSUME IInv PROVE QueueInv
      OBVIOUS
  <2>1. TypeOK
      BY LsqAssumption DEF IInv, Kinds, TypeOK, Count, N, Index
  <2>2. num_to_exe \in Nat /\ num_to_translate \in Nat /\ Count \in Nat
      BY DEF IInv, Kinds, Count
  <2>3. TranslatedPrefix
    <3> SUFFICES ASSUME NEW k \in 1 .. Count
                 PROVE  Slot(k - 1).translated <=> k <= num_to_exe
        BY DEF TranslatedPrefix, Count
    <3>1. k - 1 \in 0 .. Count - 1 /\ (k - 1 < num_to_exe <=> k <= num_to_exe)
        BY <2>2
    <3> QED BY <3>1 DEF IInv, RingEntries
  <2>4. NothingLost
    <3>1. Elements(left) = Sent /\ {i \in DOMAIN prog : prog[i].kind # "OTHER"} = MemIds
        BY DEF Elements, Sent, MemIds
    <3>2. HeldIds \cap flushed = {}
      <4>1. flushed \subseteq 1 .. commit - 1
          BY DEF IInv, Kinds
      <4>2. HeldIds \subseteq commit .. Len(prog) /\ commit \in Nat \ {0} /\ Len(prog) \in Nat
          BY HeldIsInFlight
      <4> QED BY <4>1, <4>2
    <3>3. HeldIds \subseteq MemIds
        BY HeldIsInFlight
    <3> QED BY <3>1, <3>2, <3>3, HeldInOrder DEF NothingLost, IInv, Accounts
  <2> QED BY <2>1, <2>3, <2>4 DEF QueueInv
<1> QED BY <1>1, InitInv, NextInv, PTL DEF Spec

\* A load never passes an older store to its address, nor an I/O load any older
\* store, although stores wait in a buffer that loads overtake.
THEOREM LoadsInOrder == Spec => []LoadsSeeOlderStores
<1>1. IInv => LoadsSeeOlderStores
    BY DEF IInv
<1> QED BY <1>1, InitInv, NextInv, PTL DEF Spec

\* Stores reach the cache in program order, and what the two commit ports match
\* has nothing before it that can still fault, but for one case: a store that was
\* sent is flushed only behind a store that left with an exception.
THEOREM StoresAreFinal == Spec => []StoresFinal
<1>1. IInv => StoresFinal
    BY DEF IInv
<1> QED BY <1>1, InitInv, NextInv, PTL DEF Spec
=============================================================================
