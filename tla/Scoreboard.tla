----------------------------- MODULE Scoreboard -----------------------------
(***************************************************************************)
(* The scoreboard of the HPDcache testbench: six threads, one per fifo of  *)
(* observed transactions, which predict what a correct cache answers.  A   *)
(* load or an atomic is predicted from the RAM when its request is         *)
(* accepted; a store changes the RAM then, an atomic only when it is       *)
(* answered; a byte never written is learnt from the first answer.         *)
(* Directory checking (ENABLE_CACHE_DIR_VERIF) is off, as in the code.     *)
(***************************************************************************)
EXTENDS Transaction, Sequences, FiniteSets

CONSTANTS Words, MemIds,
          Tids,                 \* transaction ids of the core interface
          AmoDepth,             \* the depth of the fifo of atomics
          IsErrorRegion(_, _)   \* within_error_region of the memory model

VARIABLES
    inflight,           \* inflight_m
    inflight_mem_read, inflight_mem_write,
    inflight_amo_req,   \* inflight_amo_req_m: the is_atomic flag of each atomic
    lrsc_buf,           \* lrsc_buf_m
    ram,                \* ram_m: None where the bitmap is clear
    sc_is_atomic,
    nb_error, nb_core_req_need_rsp, nb_core_resp,
    ids, seq_error,     \* the ids of the sequence, and SEQ_ERROR
    sb_core_req, sb_core_resp,
    sb_mem_read_req, sb_mem_read_resp, sb_mem_write_req, sb_mem_write_resp

sbTables == <<inflight_mem_read, inflight_mem_write>>
sbCounts == <<nb_core_req_need_rsp, nb_core_resp>>
sbFifos == <<sb_core_req, sb_core_resp, sb_mem_read_req, sb_mem_read_resp,
             sb_mem_write_req, sb_mem_write_resp>>
sbState == <<inflight, sbTables, inflight_amo_req, lrsc_buf, ram, sc_is_atomic,
             nb_error, sbCounts>>
sbVars == <<sbState, ids, seq_error, sbFifos>>

\* Nothing is waiting for the scoreboard: its threads run in the delta cycles
\* of the instant in which they are written to, before time goes on.
Quiet == \A q \in {sb_core_req, sb_core_resp, sb_mem_read_req, sb_mem_read_resp,
                   sb_mem_write_req, sb_mem_write_resp} : q = <<>>

Unknown == [i \in Granule |-> None]

\* lrsc_buf_m is not initialized: Garbage is what it may hold.
InitSb(Garbage) ==
    /\ inflight = [t \in Tids |-> None]
    /\ inflight_mem_read = {} /\ inflight_mem_write = {}
    /\ inflight_amo_req = <<>>
    /\ lrsc_buf \in Garbage
    /\ ram = [w \in Words |-> Unknown]
    /\ sc_is_atomic = FALSE
    /\ nb_error = 0 /\ nb_core_req_need_rsp = 0 /\ nb_core_resp = 0
    /\ sb_core_req = <<>> /\ sb_core_resp = <<>>

print_error(n) == nb_error' = nb_error + n

\* seq->deallocate_id
deallocate_id(id) ==
    /\ ids' = ids \ {id}
    /\ seq_error' = (seq_error \/ id \notin ids)

\* ram_m->write
WriteRam(w, data, be) == ram' = [ram EXCEPT ![w] = Merge(@, data, be)]

\* An address is reserved by the 8 bytes that hold it.
AddrMatch(r) == lrsc_buf.valid /\ WordOf(r.addr) = WordOf(lrsc_buf.base)

\* Prefetches can meet an error segment, other CMOs cannot.
IsError(r) ==
    /\ is_cmo(r) => is_cmo_prefetch(r)
    /\ IsErrorRegion(r.addr, r.addr + IF is_cmo(r) THEN 1 ELSE r.sz)

\* The prediction for a request: SC fails without error unless it matches the
\* reservation.
Entry(r) ==
    LET error == IsError(r) /\ (is_amo_sc(r) => AddrMatch(r))
        reads == is_load(r) \/ is_amo_lr(r) \/ is_amo(r)
    IN  [r |-> r, is_error |-> error,
         is_atomic |-> is_amo_sc(r) /\ AddrMatch(r),
         rdata |-> IF reads /\ ~error THEN ram[WordOf(r.addr)] ELSE Unknown]

\* The reservation after a request: a LR takes it (or drops it in an error
\* segment), a SC always drops it, a store or an AMO drops it if it matches.
NextLrsc(r) ==
    CASE is_amo_lr(r) ->
           IF IsError(r) THEN [lrsc_buf EXCEPT !.valid = FALSE]
           ELSE [valid |-> TRUE, base |-> r.addr]
      [] is_amo_sc(r) \/ ((is_amo(r) \/ is_store(r)) /\ AddrMatch(r)) ->
           [lrsc_buf EXCEPT !.valid = FALSE]
      [] OTHER -> lrsc_buf

\* Atomics that must reach the memory are announced to the memory threads.
Announced(r) == is_amo(r) \/ is_amo_lr(r) \/ (is_amo_sc(r) /\ AddrMatch(r))

\* Mutant: no CMO is waited for.
NoAnswerCmo(r) == is_cmo(r)

\* A CMO that asks for no answer is over when it is accepted.
NoAnswer(r) == is_cmo(r) /\ ~r.need_rsp

core_req_process ==
    /\ sb_core_req # <<>>
    /\ sb_core_req' = Tail(sb_core_req)
    /\ LET r == Head(sb_core_req)
           e == Entry(r)
           full == Announced(r) /\ Len(inflight_amo_req) = AmoDepth
       IN  /\ nb_core_req_need_rsp' = nb_core_req_need_rsp + (IF r.need_rsp THEN 1 ELSE 0)
           /\ IF inflight[r.tid] # None
              THEN /\ print_error(1)
                   /\ UNCHANGED <<inflight, inflight_amo_req, lrsc_buf, ram, ids, seq_error>>
              ELSE IF NoAnswer(r)
              THEN /\ deallocate_id(r.tid)
                   /\ UNCHANGED <<inflight, inflight_amo_req, lrsc_buf, ram, nb_error>>
              ELSE
                /\ lrsc_buf' = NextLrsc(r)
                /\ IF full
                   THEN /\ print_error(1)
                        /\ UNCHANGED <<inflight, inflight_amo_req, ram>>
                   ELSE /\ inflight' = [inflight EXCEPT ![r.tid] = e]
                        /\ inflight_amo_req' = IF Announced(r)
                             THEN Append(inflight_amo_req, e.is_atomic)
                             ELSE inflight_amo_req
                        /\ IF is_store(r) /\ ~e.is_error
                           THEN WriteRam(WordOf(r.addr), r.wdata, ByteEnable(r))
                           ELSE UNCHANGED ram
                        /\ UNCHANGED nb_error
                /\ UNCHANGED <<ids, seq_error>>
    /\ UNCHANGED <<sbTables, sc_is_atomic, nb_core_resp, sb_core_resp, sb_mem_read_req,
                   sb_mem_read_resp, sb_mem_write_req, sb_mem_write_resp>>

\* The bytes of an answer that contradict the prediction.
WrongData(e, resp) ==
    {i \in ByteEnable(e.r) : e.rdata[i] # None /\ e.rdata[i] # resp.rdata[i]}

\* A SC succeeded iff it was announced and the last write answer of the memory
\* was atomic; its answer, read from the low end of its word whatever the offset
\* of the access, is 0 for success and 1 for failure.
ScOk(e) == e.is_atomic /\ sc_is_atomic
ScWrong(e, resp) == Extract(resp.rdata, 0, e.r.sz) # (IF ScOk(e) THEN 0 ELSE 1)

\* What an answer without error does to the RAM: a SC or an AMO writes its word,
\* a load or LR only fills in the bytes that are still unknown.
RamAfter(e, resp) ==
    LET r == e.r
        w == WordOf(r.addr)
    IN  CASE is_amo_sc(r) /\ ScOk(e) ->
               [ram EXCEPT ![w] = Merge(@, r.wdata, ByteEnable(r))]
          [] is_amo(r) ->
               [ram EXCEPT ![w] = Merge(@,
                   ScoreboardWord(r.op, resp.rdata, r.wdata, r.addr % 2, r.sz), ByteEnable(r))]
          [] is_load(r) \/ is_amo_lr(r) ->
               [ram EXCEPT ![w] = Merge(@, resp.rdata, {i \in ByteEnable(r) : ram[w][i] = None})]
          [] OTHER -> ram

core_resp_process ==
    /\ sb_core_resp # <<>>
    /\ sb_core_resp' = Tail(sb_core_resp)
    /\ nb_core_resp' = nb_core_resp + 1
    /\ LET resp == Head(sb_core_resp)
           e == inflight[resp.tid]
       IN  IF e = None \/ (~is_store(e.r) /\ resp.error # e.is_error)
           THEN /\ print_error(1)
                /\ UNCHANGED <<inflight, ram, ids, seq_error>>
           ELSE /\ IF e.is_error
                   THEN UNCHANGED <<nb_error, ram>>
                   ELSE /\ print_error(
                             (IF is_amo_sc(e.r) /\ ScWrong(e, resp) THEN 1 ELSE 0)
                             + Cardinality(WrongData(e, resp)))
                        /\ ram' = RamAfter(e, resp)
                /\ inflight' = [inflight EXCEPT ![resp.tid] = None]
                /\ deallocate_id(resp.tid)
    /\ UNCHANGED <<sbTables, inflight_amo_req, lrsc_buf, sc_is_atomic, nb_core_req_need_rsp,
                   sb_core_req, sb_mem_read_req, sb_mem_read_resp, sb_mem_write_req,
                   sb_mem_write_resp>>
-----------------------------------------------------------------------------
sbCore == <<inflight, lrsc_buf, ram, sbCounts, ids, seq_error, sb_core_req, sb_core_resp>>

\* An atomic arrives at the memory: it must be the only one announced.
TakeAtomic == inflight_amo_req' = IF inflight_amo_req = <<>> THEN <<>> ELSE Tail(inflight_amo_req)
AtomicErrors(wants) ==
    (IF Len(inflight_amo_req) > 1 THEN 1 ELSE 0)
    + (IF inflight_amo_req = <<>> \/ (wants /\ ~Head(inflight_amo_req)) THEN 1 ELSE 0)

mem_read_req_process ==
    /\ sb_mem_read_req # <<>>
    /\ sb_mem_read_req' = Tail(sb_mem_read_req)
    /\ LET req == Head(sb_mem_read_req)
       IN  IF req.id \in inflight_mem_read
           THEN print_error(1) /\ UNCHANGED <<inflight_mem_read, inflight_amo_req>>
           ELSE /\ inflight_mem_read' = inflight_mem_read \union {req.id}
                /\ IF is_mem_ldex(req)
                   THEN print_error(AtomicErrors(FALSE)) /\ TakeAtomic
                   ELSE UNCHANGED <<nb_error, inflight_amo_req>>
    /\ UNCHANGED <<sbCore, inflight_mem_write, sc_is_atomic, sb_mem_read_resp,
                   sb_mem_write_req, sb_mem_write_resp>>

mem_read_resp_process ==
    /\ sb_mem_read_resp # <<>>
    /\ sb_mem_read_resp' = Tail(sb_mem_read_resp)
    /\ LET resp == Head(sb_mem_read_resp)
       IN  /\ print_error(IF resp.id \in inflight_mem_read THEN 0 ELSE 1)
           /\ inflight_mem_read' =
                IF resp.last THEN inflight_mem_read \ {resp.id} ELSE inflight_mem_read
    /\ UNCHANGED <<sbCore, inflight_mem_write, inflight_amo_req, sc_is_atomic,
                   sb_mem_read_req, sb_mem_write_req, sb_mem_write_resp>>

\* An AMO also expects its old data on the read channel.
mem_write_req_process ==
    /\ sb_mem_write_req # <<>>
    /\ sb_mem_write_req' = Tail(sb_mem_write_req)
    /\ LET req == Head(sb_mem_write_req)
       IN  IF req.id \in inflight_mem_write
           THEN print_error(1) /\ UNCHANGED <<sbTables, inflight_amo_req>>
           ELSE /\ inflight_mem_write' = inflight_mem_write \union {req.id}
                /\ inflight_mem_read' = IF is_mem_amo(req) /\ inflight_amo_req # <<>>
                     THEN inflight_mem_read \union {req.id} ELSE inflight_mem_read
                /\ IF is_mem_amo(req) \/ is_mem_stex(req)
                   THEN print_error(AtomicErrors(is_mem_stex(req))) /\ TakeAtomic
                   ELSE UNCHANGED <<nb_error, inflight_amo_req>>
    /\ UNCHANGED <<sbCore, sc_is_atomic, sb_mem_read_req, sb_mem_read_resp, sb_mem_write_resp>>

\* Every write answer, not only that of a SC, sets sc_is_atomic.
mem_write_resp_process ==
    /\ sb_mem_write_resp # <<>>
    /\ sb_mem_write_resp' = Tail(sb_mem_write_resp)
    /\ LET resp == Head(sb_mem_write_resp)
       IN  IF resp.id \in inflight_mem_write
           THEN /\ sc_is_atomic' = resp.is_atomic
                /\ inflight_mem_write' = inflight_mem_write \ {resp.id}
                /\ UNCHANGED nb_error
           ELSE print_error(1) /\ UNCHANGED <<sc_is_atomic, inflight_mem_write>>
    /\ UNCHANGED <<sbCore, inflight_mem_read, inflight_amo_req,
                   sb_mem_read_req, sb_mem_read_resp, sb_mem_write_req>>

NextSb ==
    \/ core_req_process \/ core_resp_process
    \/ mem_read_req_process \/ mem_read_resp_process
    \/ mem_write_req_process \/ mem_write_resp_process

\* Mutant: nothing is checked at the end.
FinalErrorsNone == 0

\* The checks of the destructor, at the end of the test, but for the two that
\* compare the performance counters of misses and requests.
FinalErrors ==
    (IF nb_core_resp # nb_core_req_need_rsp THEN 1 ELSE 0) + (IF ids # {} THEN 1 ELSE 0)
=============================================================================
