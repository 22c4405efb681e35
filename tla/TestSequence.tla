---------------------------- MODULE TestSequence ----------------------------
(***************************************************************************)
(* The stimulus side of the HPDcache testbench: a sequence fills           *)
(* transaction objects from a pool and hands them to the driver, which     *)
(* drives the core request wires, acknowledges the sequence and copies the *)
(* object to the scoreboard.  Ids are taken when a transaction is made and *)
(* given back by the scoreboard.                                           *)
(***************************************************************************)
EXTENDS Transaction, Sequences, FiniteSets

CONSTANTS Tids,             \* 0 .. HPDCACHE_REQ_MAX_TRANS_ID - 1
          SeqKind,          \* "random", "single_addr", "read" or "write"
          Segs,             \* [base, length, uncached, amo_supported, wr_policy]
          Ops,              \* the operations a run draws from
          Data,             \* the words written
          MaxTransactions,  \* max_transactions
          MaxBetween,       \* most transactions between LR and SC (10)
          Bundle,           \* trans_bundle_sz
          SbDepth           \* the depth of the fifo to the scoreboard

ASSUME SequenceAssumption ==
    /\ SeqKind \in {"random", "single_addr", "read", "write"}
    /\ {MaxTransactions, MaxBetween} \subseteq Nat
    /\ {Bundle, SbDepth} \subseteq Nat \ {0}
    /\ None \notin 0 .. Bundle /\ None \notin [obj : 0 .. Bundle, acked : BOOLEAN]

Null == 0           \* the null pointer that ends the test; objects count from 1

VARIABLES
    ids,            \* the ids in use
    n,              \* transactions left in the loop of run()
    addr,           \* the address of the single-address sequence
    lrsc,           \* after a LR: transactions left before its SC
    between,        \* lrsc_inbetween_instrs
    seq_t,          \* the object being sent, None between transactions
    pool, object,   \* the free objects, and what every object holds
    transaction_fifo, transaction_ret,
    drv,            \* drive_request: the object it holds
    core_req,       \* the request on the wires
    sb_core_req,
    finished        \* Verilated::gotFinish

seqVars == <<n, addr, lrsc, between, seq_t, pool, object>>
drvVars == <<transaction_fifo, transaction_ret, drv, core_req, finished>>
stimVars == <<ids, seqVars, drvVars, sb_core_req>>

Objects == 1 .. Bundle
Addresses(s) == s.base .. (s.base + s.length - 1)

\* The write policy hints of a segment.  A request that ignores its hint gets
\* AUTO, whatever it says.
Hints(s) == IF s.wr_policy = "RANDOM" THEN {"AUTO", "WB", "WT"} ELSE {s.wr_policy}
Hint(s, op, h) ==
    IF op = "CMO_PREFETCH" \/ (op \in {"LOAD", "STORE"} /\ ~s.uncached) THEN h ELSE "AUTO"

\* Any of the operations at any address of a segment, aligned to the size.
Accesses(s, ops, xs, hints, cmo_rsp) ==
    { Request(op, x - (x % sz), sz, d, s.uncached /\ op \notin CmoOps,
              op \notin CmoOps \/ cmo_rsp, Hint(s, op, h)) :
        op \in ops, x \in xs, sz \in {1, 2}, d \in Data, h \in hints }

\* op_amo or op: what a segment may be asked for
SegOps(s) == IF s.amo_supported THEN Ops ELSE Ops \ (AmoOps \union {"AMO_LR", "AMO_SC"})

\* create_random_transaction of the four sequences.  The random sequence asks
\* for an answer to its CMOs; the single-address sequence does not, and keeps
\* the address it drew first.  The read and write sequences give no hint.
RandomRequests == UNION {Accesses(s, SegOps(s), Addresses(s), Hints(s), TRUE) : s \in Segs}
SingleAddrRequests == UNION {Accesses(s, SegOps(s), {addr}, Hints(s), FALSE) : s \in Segs}
ReadRequests == UNION {Accesses(s, {"LOAD"}, Addresses(s), {"AUTO"}, TRUE) : s \in Segs}
WriteRequests == UNION {Accesses(s, {"STORE"}, Addresses(s), {"AUTO"}, TRUE) : s \in Segs}

Requests == CASE SeqKind = "random" -> RandomRequests
              [] SeqKind = "single_addr" -> SingleAddrRequests
              [] SeqKind = "read" -> ReadRequests
              [] SeqKind = "write" -> WriteRequests

\* Requests that differ only in what their operation ignores are one.
Canonical(S) == {r \in S : /\ is_cmo(r) => r.sz = 1
                           /\ r.op \in CmoOps \union {"LOAD", "AMO_LR"} =>
                                r.wdata = CHOOSE d \in Data : TRUE}

\* create_sc_transaction: the address of the LR, aligned to a size of its own.
ScRequests ==
    { Request("AMO_SC", lrsc.addr - (lrsc.addr % sz), sz, d, lrsc.uncacheable, TRUE, "AUTO") :
        sz \in {1, 2}, d \in Data }

NoTransaction == Request("LOAD", 0, 1, [g \in Granule |-> 0], FALSE, FALSE, "AUTO")

InitStim ==
    /\ ids = {}
    /\ n = MaxTransactions
    /\ addr \in IF SeqKind = "single_addr" THEN UNION {Addresses(s) : s \in Segs} ELSE {0}
    /\ lrsc = None
    /\ between \in 0 .. MaxBetween
    /\ seq_t = None
    /\ pool = <<>>
    /\ object = [o \in Objects |-> NoTransaction]
    /\ transaction_fifo = <<>> /\ transaction_ret = <<>>
    /\ drv = None /\ core_req = None
    /\ finished = FALSE

\* Mutant: the object released last is taken first.
FreeLast == IF pool = <<>> THEN [i \in Objects |-> i]
            ELSE [i \in DOMAIN pool |-> pool[Len(pool) + 1 - i]]

\* acquire_transaction: the first free object, after a bundle is made if there
\* is none.  The sequence holds one object at a time, so one bundle is enough.
Free == IF pool = <<>> THEN [i \in Objects |-> i] ELSE pool

Tagged(r, id) ==
    [op |-> r.op, addr |-> r.addr, sz |-> r.sz, wdata |-> r.wdata,
     uncacheable |-> r.uncacheable, need_rsp |-> r.need_rsp, wr_policy |-> r.wr_policy,
     tid |-> id]

\* Fill an object with a request and a free id (allocate_id starts at a random
\* id and probes upwards) and write it to the fifo of the driver.
Create(r) ==
    /\ \E id \in Tids \ ids :
         /\ ids' = ids \union {id}
         /\ object' = [object EXCEPT ![Head(Free)] = Tagged(r, id)]
    /\ seq_t' = Head(Free)
    /\ pool' = Tail(Free)
    /\ transaction_fifo' = Append(transaction_fifo, Head(Free))
    /\ UNCHANGED <<addr, transaction_ret, drv, core_req, finished, sb_core_req>>

Idle == seq_t = None /\ n > 0

\* The body of the loop of run(), up to the acknowledgement.  After a LR that is
\* to get its SC, between other transactions come first.
create_random_transaction ==
    /\ Idle
    /\ lrsc # None => lrsc.left > 0
    /\ \E r \in Canonical(Requests) :
         /\ Create(r)
         /\ IF lrsc # None
            THEN lrsc' = [lrsc EXCEPT !.left = @ - 1] /\ UNCHANGED n
            ELSE IF is_amo_lr(r)
            THEN \/ /\ lrsc' = [addr |-> r.addr, uncacheable |-> r.uncacheable, left |-> between]
                    /\ UNCHANGED n
                 \/ n' = n - 1 /\ UNCHANGED lrsc
            ELSE n' = n - 1 /\ UNCHANGED lrsc
    /\ UNCHANGED between

create_sc_transaction ==
    /\ Idle
    /\ lrsc # None /\ lrsc.left = 0
    /\ \E r \in ScRequests : Create(r)
    /\ lrsc' = None
    /\ between' \in IF SeqKind = "single_addr" THEN 0 .. MaxBetween ELSE {between}
    /\ n' = n - 1

\* send_transaction, after the blocking read of the acknowledgement.
release_transaction ==
    /\ seq_t # None /\ transaction_ret # <<>>
    /\ transaction_ret' = Tail(transaction_ret)
    /\ pool' = Append(pool, seq_t)
    /\ seq_t' = None
    /\ UNCHANGED <<ids, n, addr, lrsc, between, object, transaction_fifo, drv, core_req,
                   finished, sb_core_req>>

\* run() ends with a null transaction.
stop ==
    /\ seq_t = None /\ n = 0
    /\ transaction_fifo' = Append(transaction_fifo, Null)
    /\ seq_t' = Null
    /\ UNCHANGED <<ids, n, addr, lrsc, between, pool, object, transaction_ret, drv, core_req,
                   finished, sb_core_req>>
-----------------------------------------------------------------------------
\* drive_request takes a transaction and drives the wires.
drive_request ==
    /\ drv = None /\ transaction_fifo # <<>>
    /\ transaction_fifo' = Tail(transaction_fifo)
    /\ drv' = [obj |-> Head(transaction_fifo), acked |-> FALSE]
    /\ core_req' = IF Head(transaction_fifo) = Null THEN None ELSE object[Head(transaction_fifo)]
    /\ UNCHANGED <<ids, seqVars, transaction_ret, finished, sb_core_req>>

\* The cache is ready: acknowledge the sequence, then copy the object to the
\* scoreboard, in the same instant unless its fifo is full.
request_accepted ==
    /\ core_req # None
    /\ core_req' = None
    /\ transaction_ret' = Append(transaction_ret, 0)
    /\ IF Len(sb_core_req) < SbDepth
       THEN /\ sb_core_req' = Append(sb_core_req, object[drv.obj])
            /\ drv' = None
       ELSE /\ drv' = [drv EXCEPT !.acked = TRUE]
            /\ UNCHANGED sb_core_req
    /\ UNCHANGED <<ids, seqVars, transaction_fifo, finished>>

\* The fifo has room again.
request_copied ==
    /\ drv # None /\ drv.acked /\ Len(sb_core_req) < SbDepth
    /\ sb_core_req' = Append(sb_core_req, object[drv.obj])
    /\ drv' = None
    /\ UNCHANGED <<ids, seqVars, transaction_fifo, transaction_ret, core_req, finished>>

\* After the null transaction the driver waits 10000 cycles and ends the run.
finish ==
    /\ drv # None /\ drv.obj = Null /\ ~finished
    /\ finished' = TRUE
    /\ UNCHANGED <<ids, seqVars, transaction_fifo, transaction_ret, drv, core_req, sb_core_req>>

NextSeq == \/ create_random_transaction \/ create_sc_transaction
           \/ release_transaction \/ stop

\* All but request_accepted and finish, which the composition times.
NextStim == NextSeq \/ drive_request \/ request_copied
=============================================================================
