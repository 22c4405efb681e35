---------------------------- MODULE PendingMemReq ----------------------------
(***************************************************************************)
(* The back half of the memory unit: the pipeline register behind the data *)
(* cache request and the pending memory request queue (PMRQ) where a load  *)
(* waits when the cache does not answer at once.  Requests carry a 7-bit   *)
(* tag that counts up; answers come in any order and are matched by tag,   *)
(* against the pipeline register first and the tags of the queue second;   *)
(* queued loads are written back in order.                                 *)
(*                                                                         *)
(* A flush empties the register and the queue, not the cache: answers to   *)
(* flushed loads still arrive, and a request that was offered and not      *)
(* taken stays on the wires until the cache takes it.  What keeps an old   *)
(* answer from a new load with its tag is the transaction table of the     *)
(* data cache interface, which refuses a request whose tag is pending.     *)
(* Loads only: a store leaves the register without entering the queue.     *)
(***************************************************************************)
EXTENDS Wrap, Sequences, FiniteSets

CONSTANTS
    NumEntries,  \* PMRQ_NUM_ENTRIES
    NumTags,     \* tags, 2^7
    None,        \* no load
    MaxLoads     \* bound on the requests sent

ASSUME PmrqAssumption ==
    /\ NumEntries \in Nat /\ NumEntries >= 4
    /\ NumTags \in Nat \ {0} /\ MaxLoads \in Nat
    /\ None \notin Nat \union [id : Nat, tag : Nat]

VARIABLES
    sent,         \* the number of requests the cache took; tag_id counts them
    waiting,      \* reg_valid_req without reg_ready_resp
    killed,       \* killed_dcache_req_q
    stall,        \* stall_after_flush_lsq
    transaction_table,  \* the tags PENDING in the data cache interface
    s1,           \* instruction_s1_q with tag_id_s1_q
    full_pmrq_q,  \* the registered full flag
    table,        \* instruction_table, tag_table and finish_bit_table
    pmr_head, pmr_tail, pmr_num,
    in_flight,    \* the requests the cache has not answered
    done,         \* what was written back: load and the load answered
    flushed       \* requests discarded by a flush or withdrawn before they were taken

offer == <<waiting, killed, stall>>
pmr_vars == <<sent, offer, transaction_table, s1, full_pmrq_q, table, pmr_head, pmr_tail, pmr_num,
          in_flight, done, flushed>>

Loads == 1 .. MaxLoads
Tag(i) == (i - 1) % NumTags
Request(i) == [id |-> i, tag |-> Tag(i)]
EmptyEntry == [id |-> 0, tag |-> None, finish |-> FALSE, data |-> 0]

PmrInit ==
    /\ sent = 0 /\ s1 = None /\ full_pmrq_q = FALSE
    /\ waiting = FALSE /\ killed = FALSE /\ stall = FALSE
    /\ transaction_table = {}
    /\ table = [j \in 0 .. NumEntries - 1 |-> EmptyEntry]
    /\ pmr_head = 0 /\ pmr_tail = 0 /\ pmr_num = 0
    /\ in_flight = {} /\ done = {} /\ flushed = {}
-----------------------------------------------------------------------------
\* Mutant: any answer belongs to the load in the register.
AnsweredAny(resp) == s1 # None /\ resp # None

\* The load in the register is answered in its own cycle.
Answered(resp) == s1 # None /\ resp # None /\ resp.tag = s1.tag
Replay(resp) == resp # None /\ ~Answered(resp)
ToPmrq(resp) == s1 # None /\ ~Answered(resp)
PmrWriteEnable(resp) == ToPmrq(resp) /\ pmr_num < NumEntries
\* Mutant: the flag rises one entry before the end.
PmrFullLate == pmr_num >= NumEntries - 1

PmrFull == pmr_num >= NumEntries - 3
\* Mutant: nothing finishes while the queue is full.
FinishInstrNotFull == pmr_num > 0 /\ table[pmr_head].finish /\ ~full_pmrq_q

FinishInstr == pmr_num > 0 /\ table[pmr_head].finish
AdvanceHead(resp) == ~Answered(resp) /\ FinishInstr

Plus(ptr, b) == Trunc(ptr + Bit(b), NumEntries)

\* An answer marks the entries that carry its tag; the load in the register
\* is written at the tail.
Table(resp) ==
    [j \in DOMAIN table |->
        IF PmrWriteEnable(resp) /\ j = pmr_tail
        THEN [id |-> s1.id, tag |-> s1.tag, finish |-> FALSE, data |-> 0]
        ELSE IF Replay(resp) /\ table[j].tag = resp.tag
        THEN [table[j] EXCEPT !.finish = TRUE, !.data = resp.id, !.tag = None]
        ELSE table[j]]

\* The instruction sent to write-back.
PmrWriteBack(resp) ==
    IF Answered(resp) THEN {[id |-> s1.id, data |-> resp.id]}
    ELSE IF FinishInstr THEN {[id |-> table[pmr_head].id, data |-> table[pmr_head].data]}
    ELSE {}

\* ready of the interface: the cache takes a request unless its tag is pending
\* (wait_resp_same_tag).
ReadyForTag(cache) == cache /\ Tag(sent + 1) \notin transaction_table

\* A request that was offered and not taken is withdrawn.
KilledNow(try) == waiting /\ ~try
Valid(try) == try \/ KilledNow(try) \/ killed
Taken(try, cache) == Valid(try) /\ ReadyForTag(cache)

\* The wires to the cache, the tag counter and the transaction table; an offer
\* stays valid until it is taken, with or without its load.
Offer(try, cache, resp, flush) ==
    LET taken == Taken(try, cache)
        new == Request(sent + 1)
    IN  /\ sent' = sent + Bit(taken)
        /\ waiting' = (Valid(try) /\ ~ReadyForTag(cache))
        /\ killed' = (~taken /\ (KilledNow(try) \/ killed))
        /\ stall' = (~taken /\ (IF KilledNow(try) THEN flush ELSE stall))
        /\ transaction_table' = (transaction_table \cup (IF taken THEN {new.tag} ELSE {}))
                                  \ (IF resp = None THEN {} ELSE {resp.tag})
        /\ in_flight' = (in_flight \ {resp}) \cup (IF taken THEN {new} ELSE {})

\* One clock.  A load that finds the registered full flag down, and no killed
\* request of a flush before it, is offered; the cache may take it, and may
\* answer a request.
Cycle(try, cache, resp) ==
    /\ sent < MaxLoads \/ ~Valid(try)
    /\ try => ~full_pmrq_q /\ ~stall
    /\ Offer(try, cache, resp, FALSE)
    /\ s1' = IF try /\ ReadyForTag(cache) THEN Request(sent + 1) ELSE None
    /\ full_pmrq_q' = IF ReadyForTag(cache) \/ ~PmrFull THEN PmrFull ELSE full_pmrq_q
    /\ table' = Table(resp)
    /\ pmr_head' = Plus(pmr_head, AdvanceHead(resp))
    /\ pmr_tail' = Plus(pmr_tail, PmrWriteEnable(resp))
    /\ pmr_num' = pmr_num + Bit(PmrWriteEnable(resp)) - Bit(AdvanceHead(resp))
    /\ done' = done \cup PmrWriteBack(resp)
    /\ flushed' = flushed \cup (IF ~try /\ Taken(try, cache) THEN {sent + 1} ELSE {})

\* flush_to_lsq: nothing is offered, the counters and the register are cleared,
\* the tables are not, and an answer of the same cycle still marks them.
PmrFlush(cache, resp) ==
    /\ sent < MaxLoads \/ ~Valid(FALSE)
    /\ Offer(FALSE, cache, resp, TRUE)
    /\ table' = Table(resp)
    /\ pmr_head' = 0 /\ pmr_tail' = 0 /\ pmr_num' = 0
    /\ s1' = None /\ full_pmrq_q' = FALSE
    /\ flushed' = flushed \cup ((1 .. sent') \ {w.id : w \in done})
    /\ UNCHANGED done

PmrNext ==
    \E resp \in in_flight \cup {None}, cache \in BOOLEAN :
        \/ \E try \in BOOLEAN : Cycle(try, cache, resp)
        \/ PmrFlush(cache, resp)

Clock == \E try, cache \in BOOLEAN, resp \in in_flight \cup {None} : Cycle(try, cache, resp)

\* The cache answers every request.
Served == \A i \in Loads : []<>(Request(i) \notin in_flight)

PmrSpec == PmrInit /\ [][PmrNext]_pmr_vars
-----------------------------------------------------------------------------
\* Every variable stays in its range.
PmrTypeOK ==
    /\ pmr_head \in 0 .. NumEntries - 1 /\ pmr_tail \in 0 .. NumEntries - 1
    /\ pmr_num \in 0 .. NumEntries
    /\ s1 \in in_flight \cup {None}
    /\ transaction_table \subseteq 0 .. NumTags - 1

Slot(k) == table[(pmr_head + k) % NumEntries]
Held == {Slot(k).id : k \in 0 .. pmr_num - 1} \cup (IF s1 = None THEN {} ELSE {s1.id})
WrittenBack == {w.id : w \in done}

\* The full flag reaches the sender two clocks late, yet no load that was sent
\* finds the queue full: each is in the register, in the queue or written back.
NoneDropped ==
    /\ (1 .. sent) \ flushed = (Held \cup WrittenBack) \ flushed
    /\ Held \cap (WrittenBack \cup flushed) = {}

\* Every load is written back with the answer to its own request, although
\* tags repeat, answers come out of order, some belong to flushed loads and
\* the tables keep the tags of flushed loads.
AnswersOwnLoad == \A w \in done : w.data = w.id /\ w.id \notin flushed

\* Neither check of the data cache interface fails ("requested twice",
\* "responded twice"): two requests in flight never share a tag, and the table
\* says PENDING of exactly the tags the cache still owes an answer for, flushed
\* and withdrawn requests included.
NoTransactionTwice ==
    /\ transaction_table = {r.tag : r \in in_flight}
    /\ \A r, q \in in_flight : r.tag = q.tag => r = q

\* A load that was sent is written back or flushed, although loads answered at
\* once take the write-back port before the queue.
LoadsComplete == \A i \in Loads :
    (sent >= i) ~> (i \in WrittenBack \cup flushed)

\* The queue: its pointers fit and no load that was sent is dropped.
QueueInv == PmrTypeOK /\ NoneDropped

\* The transactions: a load gets its own answer, and the data cache interface
\* never sees one tag twice.
TransactionsExact == AnswersOwnLoad /\ NoTransactionTwice
=============================================================================
