----------------------------- MODULE Testbench -----------------------------
(***************************************************************************)
(* The testbench of the HPDcache: stimulus, cache, memory and scoreboard   *)
(* connected as hpdcache_tb.cpp connects them.  The scoreboard, and what    *)
(* the sequence and the driver do without waiting, run in the delta cycles *)
(* of one instant; the cache and the memory, which need the clock, move    *)
(* only when that is over.  Requests are taken at the rising edge and      *)
(* answers at the falling edge, never in the same instant.                 *)
(***************************************************************************)
EXTENDS MemRespModel

CONSTANTS Tids, AmoDepth,                       \* scoreboard
          SeqKind, Segs, Ops, Data, MaxTransactions, MaxBetween, Bundle, SbDepth,
          LineWords, RtabEntries, WbufIds, FlushIds,  \* cache
          ErrorLimit,                           \* sb_error_limit_m
          Faults,                               \* what a faulty cache may do
          LrscGarbage                           \* what lrsc_buf_m may hold at first

\* write_process: "this model currently supports single flit transactions".
ASSUME FlitAssumption ==
    (\E s \in Segs : s.wr_policy \in {"WB", "RANDOM"}) => LineWords <= NocWords

VARIABLES
    inflight, inflight_mem_read, inflight_mem_write, inflight_amo_req, lrsc_buf, ram,
    sc_is_atomic, nb_error, nb_core_req_need_rsp, nb_core_resp, seq_error,
    ids, n, addr, lrsc, between, seq_t, pool, object, transaction_fifo, transaction_ret,
    drv, core_req, sb_core_req, sb_core_resp, finished,
    cached, held, mshr, wbuf, uc, rsrv,
    fault       \* the fault the cache has committed, None if none

SB == INSTANCE Scoreboard WITH IsErrorRegion <- within_error_region
SEQ == INSTANCE TestSequence
DUT == INSTANCE Hpdcache

memOwn == <<memArray, rd, wr, read_resp_fifo, write_req_fifo, write_req_data_fifo, write_resp_fifo>>
sbCounts == <<nb_core_req_need_rsp, nb_core_resp>>
sbTables == <<inflight, inflight_mem_read, inflight_mem_write, inflight_amo_req, lrsc_buf,
              ram, sc_is_atomic, sbCounts>>
sbOwn == <<sbTables, nb_error>>
seqOwn == <<n, addr, lrsc, between, seq_t, pool, object>>
stimOwn == <<seqOwn, transaction_fifo, transaction_ret, drv, core_req, finished>>
dutOwn == <<cached, held, mshr, wbuf, uc, rsrv>>
wires == <<readWires, writeWires>>
vars == <<memVars, sbOwn, ids, seq_error, sb_core_req, sb_core_resp, stimOwn, dutOwn, fault>>

Init ==
    /\ InitMem({NoReservation})
    /\ SB!InitSb(LrscGarbage)
    /\ SEQ!InitStim
    /\ DUT!InitDut
    /\ seq_error = FALSE
    /\ fault = None

\* print_error ends the program at the limit.
Running == ~finished /\ nb_error < ErrorLimit

\* Nothing is left to do in the delta cycles of this instant.
Settled ==
    /\ SB!Quiet /\ transaction_ret = <<>>
    /\ transaction_fifo # <<>> => drv # None

Check ==
    /\ Running
    /\ SB!NextSb
    /\ UNCHANGED <<memOwn, dutOwn, wires, stimOwn, fault>>

Memory ==
    /\ Running /\ Settled
    /\ NextMem
    /\ UNCHANGED <<sbOwn, ids, seq_error, sb_core_req, sb_core_resp, stimOwn,
                   dutOwn, fault>>

CacheStep(A) ==
    /\ Running /\ Settled
    /\ A
    /\ UNCHANGED <<memOwn, sbOwn, sbMem, ids, seq_error, sb_core_req, stimOwn, fault>>

Cache == CacheStep(DUT!NextDut)

\* The sequence, and the driver up to the wires.
Stimulate ==
    /\ Running /\ SB!Quiet
    /\ SEQ!NextStim
    /\ UNCHANGED <<memVars, sbOwn, seq_error, sb_core_resp, dutOwn, fault>>

\* The handshake of the core request.
Handshake ==
    /\ Running /\ Settled /\ core_req # None
    /\ DUT!Accept(core_req)
    /\ SEQ!request_accepted
    /\ UNCHANGED <<memOwn, sbOwn, sbMem, seq_error, fault>>

MemIdle ==
    /\ mem_req_read = None /\ mem_resp_read = None /\ rd = None
    /\ mem_req_write = None /\ mem_req_write_data = None /\ mem_resp_write = None
    /\ wr = None /\ read_resp_fifo = <<>> /\ write_resp_fifo = <<>>
    /\ write_req_fifo = <<>> /\ write_req_data_fifo = <<>>

\* 10000 cycles after the last request, long enough for everything to be
\* answered, the simulation ends and the scoreboard is destroyed.
Finish ==
    /\ Running /\ SB!Quiet /\ DUT!DutIdle /\ MemIdle
    /\ SEQ!finish
    /\ nb_error' = nb_error + SB!FinalErrors
    /\ UNCHANGED <<memVars, sbTables, seq_error,
                   sb_core_resp, dutOwn, fault>>

\* A sequence that waits for an id that never comes back is cut off by
\* max_cycles, and the scoreboard is destroyed all the same.
MaxCycles ==
    /\ Running /\ SB!Quiet /\ DUT!DutIdle /\ MemIdle
    /\ seq_t = None /\ n > 0 /\ ids = Tids
    /\ finished' = TRUE
    /\ nb_error' = nb_error + SB!FinalErrors
    /\ UNCHANGED <<memVars, sbTables, seq_error,
                   ids, seqOwn, transaction_fifo, transaction_ret, drv, core_req,
                   sb_core_req, sb_core_resp, dutOwn, fault>>

\* A fault of the cache: answers are not given, one is given to another id, or
\* comes again later, when its id may have been given to a new transaction.
Fault ==
    /\ Running /\ sb_core_resp # <<>>
    /\ \/ /\ "lose" \in Faults /\ fault \in {None, [kind |-> "lose"]}
          /\ sb_core_resp' = <<>>
          /\ fault' = [kind |-> "lose"]
       \/ /\ "swap" \in Faults /\ fault = None
          /\ \E t \in Tids \ {sb_core_resp[1].tid} :
               sb_core_resp' = [sb_core_resp EXCEPT ![1].tid = t]
          /\ fault' = [kind |-> "swap"]
       \/ /\ "again" \in Faults /\ fault = None
          /\ fault' = [kind |-> "again", resp |-> sb_core_resp[1]]
          /\ UNCHANGED sb_core_resp
    /\ UNCHANGED <<memVars, sbOwn, ids, seq_error, sb_core_req, stimOwn, dutOwn>>

Again ==
    /\ Running /\ Settled /\ fault # None /\ fault.kind = "again"
    /\ sb_core_resp' = <<fault.resp>>
    /\ fault' = [kind |-> "repeated"]
    /\ UNCHANGED <<memVars, sbOwn, ids, seq_error, sb_core_req, stimOwn, dutOwn>>

Ended == ~Running /\ UNCHANGED vars

Next == \/ Check \/ Memory \/ Cache \/ Stimulate \/ Handshake \/ Finish \/ MaxCycles
        \/ Fault \/ Again \/ Ended

\* The clock goes on and every thread gets its turn; nothing obliges the cache
\* to fail.
Fairness == WF_vars(Check \/ Memory \/ Cache \/ Stimulate \/ Handshake \/ Finish \/ MaxCycles)

Spec == Init /\ [][Next]_vars /\ Fairness
-----------------------------------------------------------------------------
\* The tables, fifos and counters of the bench keep their types and their depths.
TypeOK ==
    /\ MemTypeOK
    /\ ids \subseteq Tids
    /\ nb_error \in Nat /\ nb_core_resp \in Nat /\ nb_core_req_need_rsp \in Nat
    /\ Len(held) <= RtabEntries
    /\ finished \in BOOLEAN /\ seq_error \in BOOLEAN

\* A cache that works is never reported: whatever the order of answers, of
\* memory traffic and of the threads, the predictions made from the RAM, the
\* reservation and the table of atomics are those of the cache and the memory,
\* and the counts agree at the end (print_error of the scoreboard).
NoFalseAlarm == fault = None => nb_error = 0

UncachedWords == {w \in Words : \E s \in Segs :
                    s.uncached /\ within_region(2 * w, 2 * w + 2, s.base, s.base + s.length)}

\* The value of a word: that of its line if the line is dirty, else the memory's.
Current(w) ==
    LET l == w \div LineWords
    IN  IF DUT!Dirty(l) THEN cached[l].words[w] ELSE memory[w]

\* Between transactions the copies of a byte agree: what the scoreboard believes
\* (learnt from answers, changed by accepted stores and answered atomics) is what
\* a dirty line holds, or else the memory; and a line that is not dirty holds what
\* the memory does, whatever was written back, replaced or flushed on the way (a
\* prefetch may fetch a line of an uncached segment, which nobody reads).
ReferencesAgree ==
    (DUT!DutIdle /\ MemIdle /\ SB!Quiet) =>
        \A w \in Words :
            /\ \A i \in Granule :
                  ram[w][i] # None => Current(w) # None /\ Current(w)[i] = ram[w][i]
            /\ LET l == w \div LineWords
               IN  DUT!Hit(l) /\ ~DUT!Dirty(l) /\ w \notin UncachedWords =>
                      cached[l].words[w] = memory[w]

\* An id is in use from the request until the scoreboard has seen the answer,
\* and by one transaction: the sequence never frees an id twice (SEQ_ERROR) and
\* the scoreboard's table holds only ids in use.
IdsExact ==
    /\ ~seq_error
    /\ \A t \in Tids : inflight[t] # None => t \in ids /\ inflight[t].r.tid = t
    /\ \A i \in DOMAIN held : held[i].tid \in ids \/ ~held[i].need_rsp

\* An atomic operation is announced to the memory threads when its request is
\* accepted and taken off when it reaches the memory: never more than one is
\* announced ("there shall be a single inflight atomic operation").
SingleAtomic == Len(inflight_amo_req) <= 1

\* The memory threads raise ready before a write to a fifo that can block: a
\* flit presented while it does would be taken and lost.  There is always room.
FlitsKept ==
    /\ mem_req_write # None => Len(write_req_fifo) < FifoDepth
    /\ mem_req_write_data # None => Len(write_req_data_fifo) < FifoDepth

\* Addresses and data travel on channels of their own and are joined by order
\* of arrival: the pair that write_process executes is one that was sent.
FlitsPaired ==
    wr # None => \/ uc # None /\ wr.req.id = DUT!UcId /\ wr.req.addr = uc.r.addr
                 \/ \E k \in DOMAIN wbuf : wbuf[k].req = wr.req /\ wbuf[k].w = wr.w

\* A fault of the cache does not stay unnoticed: when the test is over, an
\* answer that was lost, went to another id, or came twice (even after its id
\* was reused) has been reported.
FaultsReported == finished => (fault # None /\ fault.kind # "again" => nb_error > 0)

\* The test comes to its end.
Terminates == <>~Running

\* The tables of the bench: they stay typed, write flits are joined as they were
\* sent, a single atomic is announced, and ids are freed once.
BenchInv == TypeOK /\ FlitsPaired /\ SingleAtomic /\ IdsExact
=============================================================================
