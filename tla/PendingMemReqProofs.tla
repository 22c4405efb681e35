------------------------ MODULE PendingMemReqProofs -------------------------
(***************************************************************************)
(* Proofs about the pending memory request queue, for every length of the  *)
(* queue, every number of tags and every number of loads.                  *)
(***************************************************************************)
EXTENDS PendingMemReq, TLAPS

N == NumEntries
Index == 0 .. N - 1

\* The entry k places behind the head.
Pos(k) == Trunc(pmr_head + k, N)

Entry == [id : Nat, tag : Nat \union {None}, finish : BOOLEAN, data : Nat]

Kinds ==
    /\ sent \in 0 .. MaxLoads
    /\ waiting \in BOOLEAN /\ killed \in BOOLEAN /\ stall \in BOOLEAN
    /\ full_pmrq_q \in BOOLEAN
    /\ pmr_head \in Index /\ pmr_tail \in Index /\ pmr_num \in Nat
    /\ table \in [Index -> Entry]

\* Every request in flight was sent, with the tag of its number; the load in the
\* register is one of them.
InFlight ==
    /\ \A r \in in_flight : r = Request(r.id) /\ r.id \in 1 .. sent
    /\ s1 # None => s1 \in in_flight
    /\ NoTransactionTwice

(* The full flag is registered, and what is sent under it is one clock in the *)
(* register: both are paid for by the three entries Full keeps back.          *)
Occupancy ==
    /\ pmr_num + Bit(s1 # None) <= N - 1
    /\ ~full_pmrq_q => pmr_num + Bit(s1 # None) <= N - 2

Ring == pmr_tail = Pos(pmr_num)

(* An entry waits for the answer to its own request, which is in flight, or it *)
(* has that answer and no tag any more.                                        *)
Waits(e, flight) == e.tag = Tag(e.id) /\ Request(e.id) \in flight
Has(e) == e.tag = None /\ e.data = e.id

Entries ==
    /\ \A k \in 0 .. pmr_num - 1 :
          /\ IF Slot(k).finish THEN Has(Slot(k)) ELSE Waits(Slot(k), in_flight)
          /\ s1 # None => Slot(k).id # s1.id
    /\ \A k, m \in 0 .. pmr_num - 1 : Slot(k).id = Slot(m).id => k = m

Accounts ==
    /\ NoneDropped /\ AnswersOwnLoad
    /\ flushed \subseteq 1 .. sent

IInv == Kinds /\ InFlight /\ Occupancy /\ Ring /\ Entries /\ Accounts
-----------------------------------------------------------------------------
\* The remainder of a sum of two pointers is its truncation.
LEMMA ModIsTrunc ==
    ASSUME NEW x \in 0 .. 2 * N - 1
    PROVE  x % N = Trunc(x, N)
<1>1. N \in Nat \ {0}
    BY PmrqAssumption DEF N
<1> DEFINE q == x \div N
           r == x % N
<1>2. x = N * q + r /\ r \in 0 .. N - 1 /\ q \in Int
    BY <1>1
<1> HIDE DEF q, r
<1>3. q >= 0 /\ q < 2
  <2>1. q >= 2 => N * q >= N * 2
      BY <1>1, <1>2
  <2>2. q < 0 => N * q <= N * (-1)
      BY <1>1, <1>2
  <2> QED BY <1>1, <1>2, <2>1, <2>2
<1>4. q = 0 \/ q = 1
    BY <1>2, <1>3
<1>5. r = Trunc(x, N)
    BY <1>1, <1>2, <1>4 DEF Trunc
<1> QED BY <1>5 DEF r

\* An entry of the queue is in its place.
LEMMA SlotPos ==
    ASSUME NEW h \in Index, NEW k \in Index
    PROVE  (h + k) % NumEntries = Trunc(h + k, N) /\ Trunc(h + k, N) \in Index
<1>1. h + k \in 0 .. 2 * N - 1
    BY PmrqAssumption DEF N, Index
<1> QED BY <1>1, ModIsTrunc, PmrqAssumption DEF N, Index, Trunc

\* Pointer arithmetic: places are distinct, and the head may move on.
LEMMA PosDistinct ==
    ASSUME NEW h \in Index, NEW k \in Index, NEW m \in Index, Trunc(h + k, N) = Trunc(h + m, N)
    PROVE  k = m
BY PmrqAssumption DEF N, Index, Trunc

LEMMA PosMoves ==
    ASSUME NEW h \in Index, NEW k \in 0 .. N - 2
    PROVE  Trunc(Trunc(h + 1, N) + k, N) = Trunc(h + (k + 1), N)
BY PmrqAssumption DEF N, Index, Trunc

\* A tag is a number, so None is no tag, and a request is not None.
LEMMA Requests ==
    ASSUME NEW i \in Nat \ {0}
    PROVE  /\ Request(i) \in [id : Nat, tag : Nat] /\ Request(i) # None
           /\ Request(i).id = i /\ Request(i).tag = Tag(i)
           /\ Tag(i) \in 0 .. NumTags - 1 /\ Tag(i) # None
<1>1. Tag(i) \in 0 .. NumTags - 1
    BY PmrqAssumption DEF Tag
<1> QED BY <1>1, PmrqAssumption DEF Request

\* Reset establishes the invariant.
LEMMA InitInv == PmrInit => IInv
<1> SUFFICES ASSUME PmrInit PROVE IInv
    OBVIOUS
<1> USE DEF PmrInit
<1>1. Kinds
  <2>1. EmptyEntry \in Entry
      BY DEF Entry, EmptyEntry
  <2>2. table \in [Index -> Entry]
      BY <2>1 DEF Index, N
  <2>3. 0 \in Index /\ 0 \in 0 .. MaxLoads
      BY PmrqAssumption DEF Index, N
  <2> QED BY <2>2, <2>3 DEF Kinds
<1>2. InFlight
    BY DEF InFlight, NoTransactionTwice
<1>3. Occupancy
    BY PmrqAssumption DEF Occupancy, Bit, N
<1>4. Ring
    BY PmrqAssumption DEF Ring, Pos, Trunc, N
<1>5. Entries
    BY DEF Entries
<1>6. Accounts
    BY DEF Accounts, NoneDropped, AnswersOwnLoad, Held, WrittenBack
<1> QED BY <1>1, <1>2, <1>3, <1>4, <1>5, <1>6 DEF IInv

-----------------------------------------------------------------------------
(* The transactions.  The transaction table refuses a tag that is pending,   *)
(* so two requests in flight never share one.                                *)

\* What the offer does to the requests in flight.
LEMMA OfferInv ==
    ASSUME IInv, NEW try \in BOOLEAN, NEW cache \in BOOLEAN, NEW flush \in BOOLEAN,
           NEW resp \in in_flight \union {None},
           sent < MaxLoads \/ ~Valid(try), Offer(try, cache, resp, flush)
    PROVE  /\ sent' \in 0 .. MaxLoads
           /\ waiting' \in BOOLEAN /\ killed' \in BOOLEAN /\ stall' \in BOOLEAN
           /\ sent' = sent + Bit(Taken(try, cache))
           /\ \A r \in in_flight' : r = Request(r.id) /\ r.id \in 1 .. sent'
           /\ NoTransactionTwice'
           /\ in_flight \ {resp} \subseteq in_flight'
           /\ Taken(try, cache) => Request(sent + 1) \in in_flight'
           /\ resp # None => resp = Request(resp.id) /\ resp.id \in 1 .. sent
<1> DEFINE taken == Taken(try, cache)
           new == Request(sent + 1)
<1>1. sent \in 0 .. MaxLoads /\ MaxLoads \in Nat
    BY PmrqAssumption DEF IInv, Kinds
<1>2. taken => sent < MaxLoads
    BY DEF Taken
<1>3. sent' = sent + Bit(taken) /\ sent' \in 0 .. MaxLoads /\ sent <= sent'
    BY <1>1, <1>2 DEF Offer, Bit
<1>4. /\ waiting' \in BOOLEAN /\ killed' \in BOOLEAN /\ stall' \in BOOLEAN
    BY DEF Offer, IInv, Kinds
<1>5. \A r \in in_flight : r = Request(r.id) /\ r.id \in 1 .. sent
    BY DEF IInv, InFlight
<1>6. None \notin in_flight
    BY <1>1, <1>5, Requests
<1>7. /\ in_flight' = (in_flight \ {resp}) \union (IF taken THEN {new} ELSE {})
      /\ transaction_table' = (transaction_table \union (IF taken THEN {new.tag} ELSE {}))
                                 \ (IF resp = None THEN {} ELSE {resp.tag})
    BY DEF Offer
<1>8. new.id = sent + 1 /\ new = Request(new.id) /\ new.tag = Tag(sent + 1)
    BY <1>1, Requests
<1>9. \A r \in in_flight' : r = Request(r.id) /\ r.id \in 1 .. sent'
    BY <1>1, <1>3, <1>5, <1>7, <1>8 DEF Bit
<1>10. taken => \A r \in in_flight : r.tag # new.tag
    BY <1>8 DEF Taken, ReadyForTag, IInv, InFlight, NoTransactionTwice
<1>11. \A r, q \in in_flight : r.tag = q.tag => r = q
    BY DEF IInv, InFlight, NoTransactionTwice
<1>12. \A r, q \in in_flight' : r.tag = q.tag => r = q
    BY <1>7, <1>10, <1>11
<1>13. transaction_table' = {r.tag : r \in in_flight'}
  <2>1. transaction_table = {r.tag : r \in in_flight}
      BY DEF IInv, InFlight, NoTransactionTwice
  <2>2. CASE resp = None
      BY <1>6, <1>7, <2>1, <2>2
  <2>3. CASE resp # None
      BY <1>7, <1>10, <1>11, <2>1, <2>3
  <2> QED BY <2>2, <2>3
<1>14. NoTransactionTwice'
    BY <1>12, <1>13 DEF NoTransactionTwice
<1>15. resp # None => resp = Request(resp.id) /\ resp.id \in 1 .. sent
    BY <1>5
<1> QED BY <1>3, <1>4, <1>7, <1>9, <1>14, <1>15
-----------------------------------------------------------------------------
(* The queue.                                                                *)

\* What is held was sent and is neither written back nor flushed.
LEMMA HeldWasSent ==
    ASSUME IInv
    PROVE  /\ \A k \in 0 .. pmr_num - 1 : Slot(k).id \in 1 .. sent
           /\ s1 # None => s1.id \in 1 .. sent /\ s1 = Request(s1.id)
           /\ Held \subseteq 1 .. sent
           /\ WrittenBack \subseteq 1 .. sent
<1>1. Held \subseteq 1 .. sent /\ WrittenBack \subseteq 1 .. sent
    BY DEF IInv, Accounts, NoneDropped, AnswersOwnLoad, WrittenBack
<1>2. \A k \in 0 .. pmr_num - 1 : Slot(k).id \in Held
    BY DEF Held
<1>3. s1 # None => s1.id \in 1 .. sent /\ s1 = Request(s1.id)
    BY DEF IInv, InFlight
<1> QED BY <1>1, <1>2, <1>3

\* The registered load always finds a free entry.
LEMMA RoomForS1 ==
    ASSUME IInv, NEW resp \in in_flight \union {None}
    PROVE  /\ PmrWriteEnable(resp) <=> (s1 # None /\ ~Answered(resp))
           /\ pmr_num \in 0 .. N - 1
           /\ s1 # None => pmr_num \in 0 .. N - 2
BY PmrqAssumption DEF IInv, Kinds, Occupancy, PmrWriteEnable, ToPmrq, Bit, N

\* The entry j places behind the old head, after an answer and a write.
After(resp, j) == Table(resp)[Pos(j)]

Last(resp) == pmr_num - 1 + Bit(PmrWriteEnable(resp))

\* x is the entry e with the answer in it.
Answers(resp, e, x) == x.id = e.id /\ x.tag = None /\ x.finish = TRUE /\ x.data = resp.id

LEMMA AfterIs ==
    ASSUME IInv, NEW resp \in in_flight \union {None}
    PROVE  /\ \A j \in 0 .. pmr_num - 1 : Slot(j) = table[Pos(j)] /\ Slot(j) \in Entry
           /\ \A j \in 0 .. pmr_num - 1 : IF Replay(resp) /\ Slot(j).tag = resp.tag
                 THEN Answers(resp, Slot(j), After(resp, j))
                 ELSE After(resp, j) = Slot(j)
           /\ PmrWriteEnable(resp) => After(resp, pmr_num) =
                 [id |-> s1.id, tag |-> s1.tag, finish |-> FALSE, data |-> 0]
<1>1. pmr_head \in Index /\ pmr_tail \in Index /\ pmr_num \in 0 .. N - 1 /\ N \in Nat /\ pmr_tail = Pos(pmr_num)
      /\ table \in [Index -> Entry]
    BY RoomForS1, PmrqAssumption DEF IInv, Kinds, Ring, N
<1>2. ASSUME NEW j \in 0 .. pmr_num - 1
      PROVE  /\ Slot(j) = table[Pos(j)] /\ Pos(j) \in Index /\ Pos(j) # pmr_tail
  <2>1. j \in Index /\ pmr_num \in Index /\ j # pmr_num
      BY <1>1 DEF Index
  <2> QED BY <1>1, <2>1, SlotPos, PosDistinct DEF Slot, Pos
<1>3. DOMAIN table = Index
    BY <1>1
<1>4. ASSUME NEW e \in Entry, NEW d
      PROVE  LET x == [e EXCEPT !.finish = TRUE, !.data = d, !.tag = None]
             IN  x.id = e.id /\ x.tag = None /\ x.finish = TRUE /\ x.data = d
    BY DEF Entry
<1>5. ASSUME NEW j \in 0 .. pmr_num - 1
      PROVE  IF Replay(resp) /\ Slot(j).tag = resp.tag
                 THEN Answers(resp, Slot(j), After(resp, j))
                 ELSE After(resp, j) = Slot(j)
  <2>1. table[Pos(j)] \in Entry
      BY <1>1, <1>2
  <2>2. CASE Replay(resp) /\ Slot(j).tag = resp.tag
    <3>1. After(resp, j) =
             [table[Pos(j)] EXCEPT !.finish = TRUE, !.data = resp.id, !.tag = None]
        BY <1>2, <1>3, <2>2 DEF After, Table
    <3> QED BY <1>2, <1>4, <2>1, <2>2, <3>1 DEF Answers
  <2>3. CASE ~(Replay(resp) /\ Slot(j).tag = resp.tag)
      BY <1>2, <1>3, <2>3 DEF After, Table
  <2> QED BY <2>2, <2>3
<1>6. PmrWriteEnable(resp) => After(resp, pmr_num) =
                 [id |-> s1.id, tag |-> s1.tag, finish |-> FALSE, data |-> 0]
    BY <1>1, <1>3 DEF After, Table
<1> QED BY <1>1, <1>2, <1>5, <1>6

\* The entries of the queue after the answer: each has its own answer or still
\* waits for it, and their loads stay distinct.
LEMMA AfterEntries ==
    ASSUME IInv, NEW try \in BOOLEAN, NEW cache \in BOOLEAN, NEW flush \in BOOLEAN,
           NEW resp \in in_flight \union {None},
           sent < MaxLoads \/ ~Valid(try), Offer(try, cache, resp, flush)
    PROVE  /\ \A j \in 0 .. pmr_num - 1 : After(resp, j).id = Slot(j).id
           /\ \A j \in 0 .. Last(resp) : /\ After(resp, j).id \in 1 .. sent
                                   /\ IF After(resp, j).finish THEN Has(After(resp, j))
                                      ELSE Waits(After(resp, j), in_flight')
           /\ \A j, m \in 0 .. Last(resp) : After(resp, j).id = After(resp, m).id => j = m
<1>1. pmr_num \in Nat
    BY DEF IInv, Kinds
<1>2. /\ \A j \in 0 .. pmr_num - 1 : Slot(j) \in Entry
      /\ \A j \in 0 .. pmr_num - 1 : IF Replay(resp) /\ Slot(j).tag = resp.tag
                 THEN Answers(resp, Slot(j), After(resp, j))
                 ELSE After(resp, j) = Slot(j)
      /\ PmrWriteEnable(resp) => After(resp, pmr_num) =
                 [id |-> s1.id, tag |-> s1.tag, finish |-> FALSE, data |-> 0]
    BY AfterIs
<1>3. /\ in_flight \ {resp} \subseteq in_flight'
      /\ resp # None => resp = Request(resp.id) /\ resp.id \in 1 .. sent
    BY OfferInv
<1>4. /\ \A k \in 0 .. pmr_num - 1 : Slot(k).id \in 1 .. sent
      /\ s1 # None => s1.id \in 1 .. sent /\ s1 = Request(s1.id)
    BY HeldWasSent
<1>5. \A r, q \in in_flight : r.tag = q.tag => r = q
    BY DEF IInv, InFlight, NoTransactionTwice
<1>6. sent \in Nat
    BY DEF IInv, Kinds
<1>7. ASSUME NEW j \in 0 .. pmr_num - 1
      PROVE  /\ After(resp, j).id = Slot(j).id
             /\ IF After(resp, j).finish THEN Has(After(resp, j)) ELSE Waits(After(resp, j), in_flight')
  <2>1. Slot(j) \in Entry /\ Slot(j).id \in 1 .. sent
      BY <1>2, <1>4
  <2>2. IF Slot(j).finish THEN Has(Slot(j)) ELSE Waits(Slot(j), in_flight)
      BY DEF IInv, Entries
  <2>3. Request(Slot(j).id).id = Slot(j).id /\ Request(Slot(j).id).tag = Tag(Slot(j).id)
      BY <1>6, <2>1, Requests
  <2>4. resp # None => resp.tag # None /\ Request(resp.id).id = resp.id
      BY <1>3, <1>6, Requests
  <2>5. CASE Replay(resp) /\ Slot(j).tag = resp.tag
    <3>1. resp # None
        BY <2>5 DEF Replay
    <3>2. ~Slot(j).finish
        BY <2>2, <2>4, <2>5, <3>1 DEF Has
    <3>3. Request(Slot(j).id) = resp
        BY <1>5, <2>2, <2>3, <2>5, <3>1, <3>2 DEF Waits
    <3>4. resp.id = Slot(j).id
        BY <2>3, <3>3
    <3>5. Answers(resp, Slot(j), After(resp, j))
        BY <1>2, <2>5
    <3> QED BY <3>4, <3>5 DEF Has, Answers
  <2>6. CASE ~(Replay(resp) /\ Slot(j).tag = resp.tag)
    <3>1. After(resp, j) = Slot(j)
        BY <1>2, <2>6
    <3>2. ASSUME ~Slot(j).finish PROVE Waits(Slot(j), in_flight')
      <4>1. Slot(j).tag = Tag(Slot(j).id) /\ Request(Slot(j).id) \in in_flight
          BY <2>2, <3>2 DEF Waits
      <4>2. Request(Slot(j).id) # resp
        <5>1. CASE resp = None
            BY <1>6, <2>1, <5>1, Requests
        <5>2. CASE resp # None /\ ~Answered(resp)
            BY <2>3, <2>6, <4>1, <5>2 DEF Replay
        <5>3. CASE Answered(resp)
          <6>1. resp = s1
              BY <1>5, <5>3 DEF Answered, IInv, InFlight
          <6> QED BY <2>3, <5>3, <6>1 DEF Answered, IInv, Entries
        <5> QED BY <5>1, <5>2, <5>3 DEF Answered
      <4>3. Request(Slot(j).id) \in in_flight'
          BY <1>3, <4>1, <4>2
      <4> QED BY <4>1, <4>3 DEF Waits
    <3> QED BY <2>2, <3>1, <3>2
  <2> QED BY <2>5, <2>6
<1>8. ASSUME PmrWriteEnable(resp)
      PROVE  /\ After(resp, pmr_num).id = s1.id /\ s1.id \in 1 .. sent
             /\ ~After(resp, pmr_num).finish /\ Waits(After(resp, pmr_num), in_flight')
             /\ \A j \in 0 .. pmr_num - 1 : After(resp, j).id # s1.id
  <2>1. s1 # None /\ ~Answered(resp) /\ s1 \in in_flight
      BY <1>8 DEF PmrWriteEnable, ToPmrq, IInv, InFlight
  <2>2. s1 # resp
      BY <2>1 DEF Answered
  <2>3. s1 \in in_flight' /\ s1 = Request(s1.id) /\ s1.tag = Tag(s1.id)
      BY <1>3, <1>4, <1>6, <2>1, <2>2, Requests
  <2>4. \A j \in 0 .. pmr_num - 1 : Slot(j).id # s1.id
      BY <2>1 DEF IInv, Entries
  <2>5. /\ After(resp, pmr_num).id = s1.id /\ After(resp, pmr_num).tag = s1.tag
        /\ After(resp, pmr_num).finish = FALSE
    <3>1. After(resp, pmr_num) = [id |-> s1.id, tag |-> s1.tag, finish |-> FALSE, data |-> 0]
        BY <1>2, <1>8
    <3> QED BY <3>1
  <2>6. Waits(After(resp, pmr_num), in_flight')
      BY <2>3, <2>5 DEF Waits
  <2> QED BY <1>4, <1>7, <2>1, <2>4, <2>5, <2>6
<1>9. \A j \in 0 .. Last(resp) : j \in 0 .. pmr_num - 1 \/ (j = pmr_num /\ PmrWriteEnable(resp))
    BY <1>1 DEF Last, Bit
<1>10. \A j, m \in 0 .. pmr_num - 1 : Slot(j).id = Slot(m).id => j = m
    BY DEF IInv, Entries
<1> QED BY <1>4, <1>7, <1>8, <1>9, <1>10

\* The table keeps its type.
LEMMA TableType ==
    ASSUME IInv, NEW resp \in in_flight \union {None}
    PROVE  Table(resp) \in [Index -> Entry]
<1>1. sent \in Nat /\ table \in [Index -> Entry]
    BY DEF IInv, Kinds
<1>2. resp # None => resp.id \in Nat
    BY <1>1 DEF IInv, InFlight
<1>3. s1 # None => s1.id \in Nat /\ s1.tag \in Nat
  <2>1. s1 # None => s1 = Request(s1.id) /\ s1.id \in 1 .. sent
      BY HeldWasSent
  <2> QED BY <1>1, <2>1, Requests
<1>4. ASSUME NEW j \in Index PROVE Table(resp)[j] \in Entry
  <2>1. table[j] \in Entry /\ DOMAIN table = Index
      BY <1>1
  <2>2. CASE PmrWriteEnable(resp) /\ j = pmr_tail
    <3>1. Table(resp)[j] = [id |-> s1.id, tag |-> s1.tag, finish |-> FALSE, data |-> 0]
        BY <2>1, <2>2 DEF Table
    <3>2. s1 # None
        BY <2>2 DEF PmrWriteEnable, ToPmrq
    <3> QED BY <1>3, <3>1, <3>2 DEF Entry
  <2>3. CASE ~(PmrWriteEnable(resp) /\ j = pmr_tail) /\ Replay(resp) /\ table[j].tag = resp.tag
    <3>1. Table(resp)[j] = [table[j] EXCEPT !.finish = TRUE, !.data = resp.id, !.tag = None]
        BY <2>1, <2>3 DEF Table
    <3>2. resp # None
        BY <2>3 DEF Replay
    <3> QED BY <1>2, <2>1, <3>1, <3>2 DEF Entry
  <2>4. CASE ~(PmrWriteEnable(resp) /\ j = pmr_tail) /\ ~(Replay(resp) /\ table[j].tag = resp.tag)
      BY <2>1, <2>4 DEF Table
  <2> QED BY <2>2, <2>3, <2>4
<1> QED BY <1>1, <1>4 DEF Table

\* One clock.
LEMMA CycleInv ==
    ASSUME IInv, NEW try \in BOOLEAN, NEW cache \in BOOLEAN,
           NEW resp \in in_flight \union {None}, Cycle(try, cache, resp)
    PROVE  IInv'
<1> DEFINE taken == Taken(try, cache)
           wr == PmrWriteEnable(resp)
           adv == AdvanceHead(resp)
           new == Request(sent + 1)
<1>a. FALSE \in BOOLEAN /\ Offer(try, cache, resp, FALSE) /\ (sent < MaxLoads \/ ~Valid(try))
    BY DEF Cycle
<1>1. /\ sent' \in 0 .. MaxLoads
      /\ waiting' \in BOOLEAN /\ killed' \in BOOLEAN /\ stall' \in BOOLEAN
      /\ sent' = sent + Bit(taken)
      /\ \A r \in in_flight' : r = Request(r.id) /\ r.id \in 1 .. sent'
      /\ NoTransactionTwice'
      /\ taken => new \in in_flight'
    BY <1>a, OfferInv
<1>2. /\ N \in Nat /\ N >= 4 /\ pmr_head \in Index /\ pmr_tail \in Index /\ pmr_num \in 0 .. N - 1
      /\ sent \in Nat /\ (s1 # None => pmr_num <= N - 2) /\ pmr_tail = Pos(pmr_num)
      /\ (wr <=> s1 # None /\ ~Answered(resp))
    BY RoomForS1, PmrqAssumption DEF IInv, Kinds, Ring, N
<1>3. adv => pmr_num > 0 /\ ~Answered(resp) /\ Slot(0) = table[pmr_head] /\ table[pmr_head].finish
  <2>1. 0 \in Index /\ pmr_head + 0 = pmr_head /\ Trunc(pmr_head, N) = pmr_head
      BY <1>2 DEF Index, Trunc
  <2>2. Slot(0) = table[pmr_head]
      BY <1>2, <2>1, SlotPos DEF Slot, N
  <2> QED BY <2>2 DEF AdvanceHead, FinishInstr
<1>4. /\ pmr_num' = pmr_num + Bit(wr) - Bit(adv)
      /\ pmr_head' = Trunc(pmr_head + Bit(adv), N) /\ pmr_tail' = Trunc(pmr_tail + Bit(wr), N)
      /\ table' = Table(resp)
    BY DEF Cycle, Plus, N
<1>5. s1' = IF taken /\ try THEN new ELSE None
    BY DEF Cycle, Taken, Valid
<1>6. new # None /\ new.id = sent + 1
    BY <1>2, Requests
<1>7. /\ \A j \in 0 .. pmr_num - 1 : After(resp, j).id = Slot(j).id
      /\ \A j \in 0 .. Last(resp) : /\ After(resp, j).id \in 1 .. sent
                              /\ IF After(resp, j).finish THEN Has(After(resp, j))
                                 ELSE Waits(After(resp, j), in_flight')
      /\ \A j, m \in 0 .. Last(resp) : After(resp, j).id = After(resp, m).id => j = m
    BY <1>a, AfterEntries
<1>8. wr => After(resp, pmr_num).id = s1.id
  <2>1. wr => After(resp, pmr_num) = [id |-> s1.id, tag |-> s1.tag, finish |-> FALSE, data |-> 0]
      BY AfterIs
  <2> QED BY <2>1
<1>last. Last(resp) = pmr_num - 1 + Bit(wr)
    BY DEF Last
<1>9. pmr_num' \in 0 .. N - 1
    BY <1>2, <1>3, <1>4 DEF Bit
<1> HIDE DEF taken, wr, adv, new
<1>10. Kinds'
  <2>1. pmr_head' \in Index /\ pmr_tail' \in Index
      BY <1>2, <1>4 DEF Bit, Index, Trunc
  <2>2. full_pmrq_q' \in BOOLEAN
    <3>1. PmrFull \in BOOLEAN /\ full_pmrq_q \in BOOLEAN
        BY DEF PmrFull, IInv, Kinds
    <3>2. full_pmrq_q' = PmrFull \/ full_pmrq_q' = full_pmrq_q
        BY DEF Cycle
    <3> QED BY <3>1, <3>2
  <2> QED BY <1>1, <1>4, <1>9, <2>1, <2>2, TableType DEF Kinds
<1>11. InFlight'
    BY <1>1, <1>5 DEF InFlight
<1>12. Occupancy'
  <2>1. full_pmrq_q' = IF ReadyForTag(cache) \/ ~PmrFull THEN PmrFull ELSE full_pmrq_q
      BY DEF Cycle
  <2>2. try => ~full_pmrq_q
      BY DEF Cycle
  <2>3. s1' # None => try /\ ReadyForTag(cache)
      BY <1>5 DEF taken, Taken
  <2>4. pmr_num' <= pmr_num + Bit(s1 # None)
      BY <1>2, <1>4 DEF Bit
  <2>5. PmrFull <=> pmr_num >= N - 3
      BY DEF PmrFull, N
  <2>6. /\ pmr_num + Bit(s1 # None) <= N - 1
        /\ ~full_pmrq_q => pmr_num + Bit(s1 # None) <= N - 2
      BY DEF IInv, Occupancy
  <2>7. CASE s1' = None
    <3>1. pmr_num' <= N - 1 /\ (~full_pmrq_q' => pmr_num' <= N - 2)
      <4>1. CASE full_pmrq_q'
          BY <1>9, <4>1
      <4>2. CASE ~full_pmrq_q' /\ ~PmrFull
          BY <1>2, <1>9, <2>4, <2>5, <4>2 DEF Bit
      <4>3. CASE ~full_pmrq_q' /\ PmrFull
          BY <1>2, <1>9, <2>1, <2>4, <2>6, <4>3 DEF Bit
      <4> QED BY <4>1, <4>2, <4>3
    <3> QED BY <1>9, <2>7, <3>1 DEF Occupancy, Bit
  <2>8. CASE s1' # None
    <3>1. full_pmrq_q' = PmrFull /\ ~full_pmrq_q
        BY <2>1, <2>2, <2>3, <2>8
    <3>2. pmr_num + (IF s1 # None THEN 1 ELSE 0) <= N - 2
        BY <2>6, <3>1 DEF Bit
    <3>3. pmr_num' <= pmr_num + (IF s1 # None THEN 1 ELSE 0)
        BY <2>4 DEF Bit
    <3>0. pmr_num \in Nat /\ pmr_num' \in Nat /\ N \in Nat
        BY <1>2, <1>9
    <3>4. pmr_num' < N - 1
        BY <3>0, <3>2, <3>3
    <3>5. pmr_num >= N - 3 \/ pmr_num' < N - 2
        BY <3>0, <3>3
    <3>6. ~full_pmrq_q' => pmr_num' < N - 2
        BY <2>5, <3>1, <3>5
    <3>7. \A x \in Nat : /\ x < N - 1 => x + Bit(TRUE) <= N - 1
                         /\ x < N - 2 => x + Bit(TRUE) <= N - 2
        BY <3>0 DEF Bit
    <3>8. Bit(s1' # None) = Bit(TRUE)
        BY <2>8 DEF Bit
    <3> QED BY <3>0, <3>4, <3>6, <3>7, <3>8, Zenon DEF Occupancy
  <2> QED BY <2>7, <2>8
<1>13. Ring'
    BY <1>2, <1>3, <1>4, <1>9 DEF Ring, Pos, Bit, Trunc, Index
<1>14. ASSUME NEW k \in 0 .. pmr_num' - 1
       PROVE  Slot(k)' = After(resp, k + Bit(adv)) /\ k + Bit(adv) \in 0 .. Last(resp)
  <2>1. k \in Index /\ pmr_head' \in Index /\ k + Bit(adv) \in 0 .. Last(resp)
      BY <1>2, <1>4, <1>9, <1>10, <1>last DEF Index, Kinds, Bit
  <2>2. Slot(k)' = table'[Trunc(pmr_head' + k, N)]
      BY <2>1, SlotPos DEF Slot, N
  <2>3. Trunc(pmr_head' + k, N) = Pos(k + Bit(adv))
    <3>1. CASE adv
      <4>1. k \in 0 .. N - 2
          BY <1>2, <1>3, <1>4, <1>9, <3>1 DEF Bit
      <4> QED BY <1>2, <1>4, <3>1, <4>1, PosMoves DEF Pos, Bit
    <3>2. CASE ~adv
        BY <1>2, <1>4, <3>2 DEF Pos, Bit, Index, Trunc
    <3> QED BY <3>1, <3>2
  <2> QED BY <1>4, <2>1, <2>2, <2>3 DEF After
<1>15. Entries'
  <2>1. \A k \in 0 .. pmr_num' - 1 :
           IF (Slot(k)').finish THEN Has(Slot(k)') ELSE Waits(Slot(k)', in_flight')
      BY <1>7, <1>14
  <2>2. \A k \in 0 .. pmr_num' - 1 : s1' # None => (Slot(k)').id # s1'.id
      BY <1>2, <1>5, <1>6, <1>7, <1>14
  <2>3. ASSUME NEW k \in 0 .. pmr_num' - 1, NEW m \in 0 .. pmr_num' - 1, (Slot(k)').id = (Slot(m)').id
        PROVE  k = m
    <3>1. k + Bit(adv) = m + Bit(adv)
        BY <1>7, <1>14, <2>3
    <3> QED BY <1>9, <3>1 DEF Bit
  <2> QED BY <2>1, <2>2, <2>3 DEF Entries, Has, Waits
<1>16. Accounts'
  <2> DEFINE O == {w.id : w \in PmrWriteBack(resp)}
             n == sent + 1
             Stays == Held \ O
  <2>1. /\ \A k \in 0 .. pmr_num - 1 : Slot(k).id \in 1 .. sent
        /\ s1 # None => s1.id \in 1 .. sent /\ s1 = Request(s1.id)
        /\ Held \subseteq 1 .. sent /\ WrittenBack \subseteq 1 .. sent
      BY HeldWasSent
  <2>2. /\ \A k \in 0 .. pmr_num - 1 : s1 # None => Slot(k).id # s1.id
        /\ \A k, m \in 0 .. pmr_num - 1 : Slot(k).id = Slot(m).id => k = m
        /\ \A k \in 0 .. pmr_num - 1 : Slot(k).finish => Slot(k).data = Slot(k).id
      BY DEF IInv, Entries, Has
  <2>3. Answered(resp) => resp = s1 /\ s1 # None
      BY DEF Answered, IInv, InFlight, NoTransactionTwice
  <2>4. /\ Answered(resp) => PmrWriteBack(resp) = {[id |-> s1.id, data |-> s1.id]}
        /\ adv => PmrWriteBack(resp) = {[id |-> Slot(0).id, data |-> Slot(0).id]}
        /\ ~Answered(resp) /\ ~adv => PmrWriteBack(resp) = {}
    <3>1. adv => 0 \in 0 .. pmr_num - 1
        BY <1>2, <1>3
    <3> QED BY <1>3, <2>2, <2>3, <3>1 DEF PmrWriteBack, AdvanceHead, adv
  <2>5. /\ Answered(resp) => O = {s1.id}
        /\ adv => O = {Slot(0).id}
        /\ ~Answered(resp) /\ ~adv => O = {}
        /\ \A w \in PmrWriteBack(resp) : w.data = w.id
    <3>1. ASSUME NEW a, PmrWriteBack(resp) = {[id |-> a, data |-> a]}
          PROVE  O = {a} /\ \A w \in PmrWriteBack(resp) : w.data = w.id
        BY <3>1
    <3>2. CASE Answered(resp)
        BY <1>3, <2>4, <3>1, <3>2
    <3>3. CASE adv
        BY <1>3, <2>4, <3>1, <3>3
    <3>4. CASE ~Answered(resp) /\ ~adv
        BY <2>4, <3>4
    <3> QED BY <3>2, <3>3, <3>4
  <2> HIDE DEF O
  <2>6. \A i : i \in Held <=> (\E k \in 0 .. pmr_num - 1 : Slot(k).id = i)
                                  \/ (s1 # None /\ s1.id = i)
      BY DEF Held
  <2>7. \A i : i \in Held' <=> (\E k \in 0 .. pmr_num' - 1 : (Slot(k)').id = i)
                                   \/ (s1' # None /\ s1'.id = i)
      BY DEF Held
  <2>8. O \subseteq Held
      BY <1>2, <1>3, <2>3, <2>5, <2>6
  <2>9. ASSUME NEW i
        PROVE  i \in Stays <=> \E k \in 0 .. pmr_num' - 1 : (Slot(k)').id = i
    <3>1. ASSUME NEW k \in 0 .. pmr_num' - 1 PROVE (Slot(k)').id \in Stays
      <4> DEFINE j == k + Bit(adv)
      <4>1. Slot(k)' = After(resp, j) /\ j \in 0 .. Last(resp)
          BY <1>14
      <4>2. adv => j # 0
          BY <1>9 DEF Bit
      <4>3. CASE j \in 0 .. pmr_num - 1
        <5>1. (Slot(k)').id = Slot(j).id
            BY <1>7, <4>1, <4>3
        <5>2. Slot(j).id \notin O
            BY <1>2, <1>3, <2>2, <2>3, <2>5, <4>2, <4>3
        <5> QED BY <2>6, <4>3, <5>1, <5>2
      <4>4. CASE j = pmr_num /\ wr
        <5>1. (Slot(k)').id = s1.id /\ s1 # None /\ ~Answered(resp)
            BY <1>2, <1>8, <4>1, <4>4
        <5>2. s1.id \notin O
            BY <1>2, <1>3, <2>2, <2>5, <5>1
        <5> QED BY <2>6, <5>1, <5>2
      <4> QED BY <1>2, <1>last, <4>1, <4>3, <4>4 DEF Bit
    <3>2. ASSUME i \in Stays PROVE \E k \in 0 .. pmr_num' - 1 : (Slot(k)').id = i
      <4>1. PICK j \in Bit(adv) .. Last(resp) : After(resp, j).id = i
        <5>1. CASE \E j \in 0 .. pmr_num - 1 : Slot(j).id = i
          <6>1. PICK j \in 0 .. pmr_num - 1 : Slot(j).id = i
              BY <5>1
          <6>2. ~(adv /\ j = 0)
              BY <2>5, <3>2, <6>1
          <6>3. j \in Bit(adv) .. Last(resp)
              BY <1>2, <1>last, <6>2 DEF Bit
          <6> QED BY <1>7, <6>1, <6>3
        <5>2. CASE s1 # None /\ s1.id = i
          <6>1. wr
              BY <1>2, <2>5, <3>2, <5>2
          <6>2. pmr_num \in Bit(adv) .. Last(resp)
              BY <1>2, <1>3, <1>last, <6>1 DEF Bit
          <6> QED BY <1>8, <5>2, <6>1, <6>2
        <5> QED BY <2>6, <3>2, <5>1, <5>2
      <4>2. PICK k \in 0 .. pmr_num' - 1 : k + Bit(adv) = j
        <5>1. j - Bit(adv) \in 0 .. pmr_num' - 1 /\ (j - Bit(adv)) + Bit(adv) = j
            BY <1>2, <1>4, <1>last, <4>1 DEF Bit
        <5> QED BY <5>1
      <4>3. Slot(k)' = After(resp, j)
          BY <1>14, <4>2
      <4> QED BY <4>1, <4>2, <4>3
    <3> QED BY <3>1, <3>2
  <2>10. Held' = Stays \union (IF taken /\ try THEN {n} ELSE {})
      BY <1>5, <1>6, <2>7, <2>9
  <2>11. WrittenBack' = WrittenBack \union O
      BY DEF Cycle, WrittenBack, O
  <2>12. flushed' = flushed \union (IF ~try /\ taken THEN {n} ELSE {})
      BY DEF Cycle, taken
  <2>13. n \notin 1 .. sent /\ 1 .. sent' = (1 .. sent) \union (IF taken THEN {n} ELSE {})
      BY <1>1, <1>2 DEF Bit
  <2>14. /\ (1 .. sent) \ flushed = (Held \union WrittenBack) \ flushed
         /\ Held \cap (WrittenBack \union flushed) = {}
         /\ flushed \subseteq 1 .. sent
      BY DEF IInv, Accounts, NoneDropped
  <2> HIDE DEF n
  <2>15. (1 .. sent') \ flushed' = (Held' \union WrittenBack') \ flushed'
      BY <2>1, <2>8, <2>10, <2>11, <2>12, <2>13, <2>14
  <2>16. Held' \cap (WrittenBack' \union flushed') = {}
      BY <2>1, <2>8, <2>10, <2>11, <2>12, <2>13, <2>14
  <2>17. flushed' \subseteq 1 .. sent'
      BY <2>12, <2>13, <2>14
  <2>18. AnswersOwnLoad'
    <3> SUFFICES ASSUME NEW w \in done' PROVE w.data = w.id /\ w.id \notin flushed'
        BY DEF AnswersOwnLoad
    <3>1. CASE w \in done
      <4>1. w.data = w.id /\ w.id \notin flushed /\ w.id \in WrittenBack
          BY <3>1 DEF IInv, Accounts, AnswersOwnLoad, WrittenBack
      <4> QED BY <2>1, <2>12, <2>13, <4>1
    <3>2. CASE w \in PmrWriteBack(resp)
      <4>1. w.data = w.id /\ w.id \in O
          BY <2>5, <3>2 DEF O
      <4> QED BY <2>1, <2>8, <2>12, <2>13, <2>14, <4>1
    <3> QED BY <3>1, <3>2 DEF Cycle
  <2> QED BY <2>15, <2>16, <2>17, <2>18 DEF Accounts, NoneDropped
<1> QED BY <1>10, <1>11, <1>12, <1>13, <1>15, <1>16 DEF IInv

\* A flush gives up everything that is not written back, what is taken in the
\* same cycle included; its answers still leave the cache.
LEMMA FlushInv ==
    ASSUME IInv, NEW cache \in BOOLEAN, NEW resp \in in_flight \union {None}, PmrFlush(cache, resp)
    PROVE  IInv'
<1>a. /\ FALSE \in BOOLEAN /\ TRUE \in BOOLEAN /\ Offer(FALSE, cache, resp, TRUE)
      /\ sent < MaxLoads \/ ~Valid(FALSE)
    BY DEF PmrFlush
<1>1. /\ sent' \in 0 .. MaxLoads
      /\ waiting' \in BOOLEAN /\ killed' \in BOOLEAN /\ stall' \in BOOLEAN
      /\ sent' = sent + Bit(Taken(FALSE, cache))
      /\ \A r \in in_flight' : r = Request(r.id) /\ r.id \in 1 .. sent'
      /\ NoTransactionTwice'
    BY <1>a, OfferInv
<1>2. /\ pmr_head' = 0 /\ pmr_tail' = 0 /\ pmr_num' = 0 /\ s1' = None /\ full_pmrq_q' = FALSE
      /\ table' = Table(resp) /\ done' = done
      /\ flushed' = flushed \union ((1 .. sent') \ WrittenBack)
    BY DEF PmrFlush, WrittenBack
<1>3. N \in Nat /\ N >= 4 /\ sent \in Nat /\ sent' \in Nat /\ sent <= sent'
  <2>1. Bit(Taken(FALSE, cache)) = 0 \/ Bit(Taken(FALSE, cache)) = 1
      BY DEF Bit
  <2>2. sent' = sent + 0 \/ sent' = sent + 1
      BY <1>1, <2>1, Zenon
  <2>3. sent' \in 0 .. MaxLoads
      BY <1>1, Zenon
  <2> QED BY <2>2, <2>3, PmrqAssumption DEF N, IInv, Kinds
<1>4. Kinds'
  <2>1. 0 \in Index /\ 0 \in Nat
      BY <1>3 DEF Index
  <2>2. table' \in [Index -> Entry]
      BY <1>2, TableType
  <2> QED BY <1>1, <1>2, <2>1, <2>2 DEF Kinds
<1>5. InFlight'
    BY <1>1, <1>2 DEF InFlight
<1>6. Occupancy' /\ Ring' /\ Entries'
    BY <1>2, <1>3 DEF Occupancy, Ring, Entries, Bit, Pos, Trunc
<1>7. Accounts'
  <2>1. WrittenBack \subseteq 1 .. sent /\ flushed \subseteq 1 .. sent
      BY HeldWasSent DEF IInv, Accounts
  <2>2. Held' = {} /\ WrittenBack' = WrittenBack
      BY <1>2 DEF Held, WrittenBack
  <2>3. 1 .. sent \subseteq 1 .. sent'
      BY <1>3
  <2>4. \A w \in done : w.data = w.id /\ w.id \notin flushed /\ w.id \in WrittenBack
      BY DEF IInv, Accounts, AnswersOwnLoad, WrittenBack
  <2>5. NoneDropped'
      BY <1>2, <2>1, <2>2, <2>3 DEF NoneDropped
  <2>6. AnswersOwnLoad'
      BY <1>2, <2>4 DEF AnswersOwnLoad
  <2> QED BY <1>2, <2>1, <2>3, <2>5, <2>6 DEF Accounts
<1> QED BY <1>4, <1>5, <1>6, <1>7 DEF IInv

LEMMA NextInv == IInv /\ [PmrNext]_pmr_vars => IInv'
<1> SUFFICES ASSUME IInv, [PmrNext]_pmr_vars PROVE IInv'
    OBVIOUS
<1>1. ASSUME NEW resp \in in_flight \union {None}, NEW try \in BOOLEAN, NEW cache \in BOOLEAN,
             Cycle(try, cache, resp)
      PROVE  IInv'
    BY <1>1, CycleInv
<1>2. ASSUME NEW resp \in in_flight \union {None}, NEW cache \in BOOLEAN, PmrFlush(cache, resp)
      PROVE  IInv'
    BY <1>2, FlushInv
<1>3. CASE UNCHANGED pmr_vars
  <2>1. Slot(0)' = Slot(0) /\ \A k : Slot(k)' = Slot(k)
      BY <1>3 DEF pmr_vars, Slot
  <2> QED BY <1>3, <2>1
          DEF pmr_vars, offer, IInv, Kinds, InFlight, NoTransactionTwice, Occupancy, Ring, Pos,
              Entries, Accounts, NoneDropped, AnswersOwnLoad, Held, WrittenBack
<1> QED BY <1>1, <1>2, <1>3 DEF PmrNext

\* The queue keeps every load that was sent, although the full flag comes late:
\* its pointers stay in range, and each load is held, written back or flushed,
\* one of the three.
THEOREM QueueCorrect == PmrSpec => []QueueInv
<1>1. IInv => QueueInv
  <2> SUFFICES ASSUME IInv PROVE QueueInv
      OBVIOUS
  <2>1. pmr_num \in 0 .. NumEntries /\ pmr_head \in 0 .. NumEntries - 1 /\ pmr_tail \in 0 .. NumEntries - 1
      BY PmrqAssumption DEF IInv, Kinds, Occupancy, Bit, N, Index
  <2>2. \A r \in in_flight : r.tag \in 0 .. NumTags - 1
      BY Requests DEF IInv, InFlight, Kinds
  <2>3. PmrTypeOK
      BY <2>1, <2>2 DEF PmrTypeOK, IInv, InFlight, NoTransactionTwice
  <2> QED BY <2>3 DEF QueueInv, IInv, Accounts
<1> QED BY <1>1, InitInv, NextInv, PTL DEF PmrSpec

\* Every load gets the answer to its own request, and no tag is pending twice,
\* whatever was flushed or withdrawn before: for every number of tags, also when
\* there are fewer tags than entries.
THEOREM TransactionsCorrect == PmrSpec => []TransactionsExact
<1>1. IInv => TransactionsExact
    BY DEF IInv, InFlight, Accounts, TransactionsExact
<1> QED BY <1>1, InitInv, NextInv, PTL DEF PmrSpec
=============================================================================
