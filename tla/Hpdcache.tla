------------------------------ MODULE Hpdcache ------------------------------
(***************************************************************************)
(* The data cache as its testbench sees it: what may be accepted, in which *)
(* order requests take effect, what goes to the memory and when an answer  *)
(* is due.  The pipeline and the replay table are one bag of requests on   *)
(* hold, served out of order across lines and in order within a line; the  *)
(* replacement policy is "any line, or a way that is free".  Both write    *)
(* policies are enabled, and a request without a hint that misses is       *)
(* write-through (cfg_default_wb is 0).                                    *)
(***************************************************************************)
EXTENDS Transaction, Sequences, FiniteSets

CONSTANTS Words, MemIds,
          LineWords,    \* words in a cache line
          RtabEntries,  \* requests on hold
          WbufIds,      \* the entries of the write buffer, which are its ids
          FlushIds      \* the entries of the flush controller, likewise

VARIABLES
    cached,     \* every line present: [words, wback, dirty, fetch]
    held,       \* accepted and not served, oldest first
    mshr,       \* lines being fetched: [id, r, wback, victim, words]
    wbuf,       \* writes of the write buffer and of the flush controller that
                \* are not acknowledged: those sent, in order, then the others
    uc,         \* the request of the uncached unit
    rsrv,       \* the LR/SC reservation: a word, or None
    mem_req_read, mem_req_write, mem_req_write_data, mem_resp_read, mem_resp_write,
    sb_core_resp

dutState == <<cached, held, mshr, wbuf, uc, rsrv>>
dutWires == <<mem_req_read, mem_req_write, mem_req_write_data, mem_resp_read, mem_resp_write>>
dutVars == <<dutState, dutWires, sb_core_resp>>

LineOf(addr) == WordOf(addr) \div LineWords
Lines == {w \div LineWords : w \in Words}

\* HPDCACHE_UC_READ_ID, HPDCACHE_UC_WRITE_ID: all ones
UcId == Max(MemIds)
FreeIds(used) == MemIds \ (used \union {UcId})

InitDut ==
    /\ cached = [l \in Lines |-> None]
    /\ held = <<>> /\ mshr = {} /\ wbuf = <<>>
    /\ uc = None /\ rsrv = None
    /\ sb_core_resp = <<>>

Uncached(r) == r.uncacheable \/ is_amo(r) \/ is_amo_lr(r) \/ is_amo_sc(r)
Fence(r) == Uncached(r) \/ (is_cmo(r) /\ ~is_cmo_prefetch(r))

\* monitor_response of the driver hands every answer to the scoreboard.
Respond(resps) == sb_core_resp' = sb_core_resp \o resps
Answer(r, data, error) ==
    Respond(IF r.need_rsp THEN <<Response(r.tid, data, error)>> ELSE <<>>)
Zero == [i \in Granule |-> 0]

\* prepare_amo_data_result: a code of 4 bytes is in both halves of the word.
ScData(code, sz) == [i \in Granule |-> IF i = 0 \/ sz = 1 THEN code ELSE 0]

\* core_req_ready_o: not behind a request that must be alone, and not with a
\* full replay table.  A store drops a reservation on its word (lrsc_snoop).
Accept(r) ==
    /\ uc = None /\ Len(held) < RtabEntries
    /\ \A i \in DOMAIN held : ~Fence(held[i])
    /\ held' = Append(held, r)
    /\ rsrv' = IF is_store(r) /\ rsrv = WordOf(r.addr) THEN None ELSE rsrv
    /\ UNCHANGED <<cached, mshr, wbuf, uc, dutWires, sb_core_resp>>

Without(s, i) == SubSeq(s, 1, i - 1) \o SubSeq(s, i + 1, Len(s))
RemoveHeld(i) == held' = Without(held, i)
First(S) == {k \in S : \A j \in S : k <= j}

\* Nothing older on hold touches the line, and nobody is fetching it.
Turn(i) ==
    /\ i \in DOMAIN held
    /\ \A j \in 1 .. (i - 1) : LineOf(held[j].addr) # LineOf(held[i].addr)
    /\ \A m \in mshr : LineOf(m.r.addr) # LineOf(held[i].addr)

\* The directory state of a line that is present.
Hit(l) == cached[l] # None
Dirty(l) == Hit(l) /\ cached[l].dirty
Clean(l) == [cached EXCEPT ![l].dirty = FALSE]

\* The writes of the flush controller.
IsFlush(e) == e.req.id \in FlushIds
FlushPending == \E k \in DOMAIN wbuf : IsFlush(wbuf[k])

\* flush_check_hit and wbuf_read_hit
FlushOn(l) == \E k \in DOMAIN wbuf : IsFlush(wbuf[k]) /\ LineOf(wbuf[k].req.addr) = l
WriteOn(l) == \E k \in DOMAIN wbuf : ~IsFlush(wbuf[k]) /\ LineOf(wbuf[k].req.addr) = l

\* Mutant: an entry more than the directory has.
WriteIdsMore(ids) == (MemIds \ {UcId}) \ {wbuf[k].req.id : k \in DOMAIN wbuf}

\* The entries of a directory that are not in use.
WriteIds(ids) == ids \ {wbuf[k].req.id : k \in DOMAIN wbuf}

\* A write takes an entry of its directory.
Write(ids, addr, sz, data, be) ==
    /\ WriteIds(ids) # {}
    /\ wbuf' = Append(wbuf,
           [req |-> MemWriteReq(CHOOSE x \in WriteIds(ids) : TRUE, addr, sz, None),
            w |-> MemWriteData(data, be), aw |-> FALSE, dw |-> FALSE])

\* Mutant: a flush leaves out the first granule of a word.
FlushPart(l) == Write(FlushIds, 2 * l * LineWords, 2 * LineWords, cached[l].words, {1})

\* The flush controller reads the line and writes it to the memory.
Flush(l) == Write(FlushIds, 2 * l * LineWords, 2 * LineWords, cached[l].words, Granule)

\* The way that a miss will replace, its line flushed if it is dirty: None if it
\* is empty.  The line stays readable until the refill.
Victims == {None} \union {v \in Lines : Hit(v) /\ ~cached[v].fetch}

\* A miss on the line of r: not while a write to the line is under way.
Miss(r) ==
    LET l == LineOf(r.addr)
        free == FreeIds({m.id : m \in mshr})
        id == CHOOSE x \in free : TRUE
    IN  /\ ~WriteOn(l) /\ ~FlushOn(l)
        /\ free # {} /\ mem_req_read = None
        /\ mem_req_read' = MemReadReq(id, 2 * l * LineWords, 2 * LineWords, None)
        /\ \E v \in Victims :
             /\ IF v # None /\ cached[v].dirty THEN Flush(v) ELSE UNCHANGED wbuf
             /\ cached' = IF v = None THEN cached
                  ELSE [cached EXCEPT ![v].dirty = FALSE, ![v].fetch = TRUE]
             /\ mshr' = mshr \union {[id |-> id, r |-> r, wback |-> r.wr_policy = "WB",
                                      victim |-> v, words |-> <<>>]}
    /\ UNCHANGED <<uc, rsrv, mem_req_write, mem_req_write_data, mem_resp_read,
                   mem_resp_write, sb_core_resp>>

\* A hint changes the policy of the line, unless the line is being replaced: WT
\* flushes it if it is dirty, WB leaves it clean.
LoadHit(i) ==
    LET r == held[i]
        l == LineOf(r.addr)
        wt == r.wr_policy = "WT" /\ cached[l].wback
        wb == r.wr_policy = "WB" /\ ~cached[l].wback
    IN  /\ Hit(l)
        /\ IF wt /\ cached[l].dirty THEN Flush(l) ELSE UNCHANGED wbuf
        /\ cached' = IF (wt \/ wb) /\ ~cached[l].fetch
             THEN [cached EXCEPT ![l].wback = wb, ![l].dirty = FALSE] ELSE cached
        /\ Answer(r, IF is_load(r) THEN cached[l].words[WordOf(r.addr)] ELSE Zero, FALSE)
        /\ RemoveHeld(i)
    /\ UNCHANGED <<mshr, uc, rsrv, dutWires>>

LoadMiss(i) ==
    /\ ~Hit(LineOf(held[i].addr))
    /\ Miss(held[i])
    /\ RemoveHeld(i)

\* A load or a prefetch.
ServeLoad(i) ==
    /\ Turn(i) /\ ~Fence(held[i]) /\ ~is_store(held[i])
    /\ LoadHit(i) \/ LoadMiss(i)

StoreIn(r) == [cached EXCEPT ![LineOf(r.addr)].words[WordOf(r.addr)] = Merge(@, r.wdata, ByteEnable(r))]

\* A write-back store that misses fetches its line and stays on hold.
StoreMiss(i) ==
    /\ ~Hit(LineOf(held[i].addr)) /\ held[i].wr_policy = "WB"
    /\ Miss(held[i])
    /\ UNCHANGED held

\* Is a store that hits a write-back one?
WriteBack(r) == r.wr_policy = "WB" \/ (r.wr_policy = "AUTO" /\ cached[LineOf(r.addr)].wback)

\* A write-back store that hits makes its line dirty, once no write to the line is
\* in the write buffer.
StoreBack(i) ==
    LET r == held[i]
        l == LineOf(r.addr)
    IN  /\ Hit(l) /\ ~cached[l].fetch /\ WriteBack(r)
        /\ ~WriteOn(l)
        /\ cached' = [StoreIn(r) EXCEPT ![l].wback = TRUE, ![l].dirty = TRUE]
        /\ Answer(r, Zero, FALSE)
        /\ RemoveHeld(i)
    /\ UNCHANGED <<mshr, wbuf, uc, rsrv, dutWires>>

\* A write-through store flushes a dirty line first, and stays on hold.
StoreFlush(i) ==
    LET l == LineOf(held[i].addr)
    IN  /\ Dirty(l) /\ ~cached[l].fetch /\ ~WriteBack(held[i])
        /\ Flush(l)
        /\ cached' = [Clean(l) EXCEPT ![l].wback = FALSE]
    /\ UNCHANGED <<held, mshr, uc, rsrv, dutWires, sb_core_resp>>

\* A write-through store updates the line if it is present and goes to the
\* memory; it is answered without waiting for that.
StoreThrough(i) ==
    LET r == held[i]
        l == LineOf(r.addr)
    IN  /\ IF Hit(l) THEN ~cached[l].fetch /\ ~cached[l].dirty /\ ~WriteBack(r)
                     ELSE r.wr_policy # "WB"
        /\ Write(WbufIds, r.addr, r.sz, [w \in {WordOf(r.addr)} |-> r.wdata], ByteEnable(r))
        /\ cached' = IF Hit(l) THEN StoreIn(r) ELSE cached
        /\ Answer(r, Zero, FALSE)
        /\ RemoveHeld(i)
    /\ UNCHANGED <<mshr, uc, rsrv, dutWires>>

\* A store waits for a flush of its line.
ServeStore(i) ==
    /\ Turn(i) /\ ~Fence(held[i]) /\ is_store(held[i])
    /\ ~FlushOn(LineOf(held[i].addr))
    /\ StoreMiss(i) \/ StoreBack(i) \/ StoreFlush(i) \/ StoreThrough(i)

\* The lines a CMO is about, and what it does to them.
Targets(r) == CASE r.op \in {"CMO_INVAL_NLINE", "CMO_FLUSH_NLINE", "CMO_FLUSH_INVAL_NLINE"} ->
                     {LineOf(r.addr)}
                [] r.op \in {"CMO_INVAL_ALL", "CMO_FLUSH_ALL", "CMO_FLUSH_INVAL_ALL"} -> Lines
                [] OTHER -> {}
Flushes(r) == r.op \in {"CMO_FLUSH_NLINE", "CMO_FLUSH_ALL", "CMO_FLUSH_INVAL_NLINE",
                        "CMO_FLUSH_INVAL_ALL"}
Invalidates(r) == r.op \in {"CMO_INVAL_NLINE", "CMO_INVAL_ALL", "CMO_FLUSH_INVAL_NLINE",
                            "CMO_FLUSH_INVAL_ALL"}

\* The CMO handler flushes the dirty lines one by one.
FlushCmo ==
    LET r == held[1]
    IN  /\ Len(held) = 1 /\ Flushes(r) /\ mshr = {}
        /\ \E l \in Targets(r) :
             /\ Dirty(l)
             /\ Flush(l)
             /\ cached' = IF Invalidates(r) THEN [cached EXCEPT ![l] = None] ELSE Clean(l)
    /\ UNCHANGED <<held, mshr, uc, rsrv, dutWires, sb_core_resp>>

\* The CMO handler: a fence waits for the write buffer, the others for the
\* pending misses, a flush for the flush controller; an invalidation drops its
\* lines.
ServeCmo ==
    LET r == held[1]
    IN  /\ Len(held) = 1 /\ is_cmo(r) /\ Fence(r)
        /\ IF r.op = "CMO_FENCE" THEN \A k \in DOMAIN wbuf : IsFlush(wbuf[k]) ELSE mshr = {}
        /\ Flushes(r) => ~FlushPending /\ \A l \in Targets(r) : ~Dirty(l)
        /\ cached' = [l \in Lines |-> IF l \in Targets(r) /\ Invalidates(r) THEN None ELSE cached[l]]
        /\ Answer(r, Zero, FALSE)
        /\ held' = <<>>
    /\ UNCHANGED <<mshr, wbuf, uc, rsrv, dutWires>>
-----------------------------------------------------------------------------
Join(f, g) == [w \in DOMAIN f \union DOMAIN g |-> IF w \in DOMAIN g THEN g[w] ELSE f[w]]

\* The lines after a fetch: the victim is gone, and an error leaves no line.
Installed(m, words, error) ==
    [l \in Lines |->
        IF l = LineOf(m.r.addr) /\ ~error
        THEN [words |-> words, wback |-> m.wback, dirty |-> FALSE, fetch |-> FALSE]
        ELSE IF l = m.victim THEN None ELSE cached[l]]

\* The miss handler takes one beat; the last one installs the line, unless it
\* is an error, and answers.  A store that waits for the line is replayed; an
\* error ends it.
Refill ==
    /\ mem_resp_read # None /\ mem_resp_read.id # UcId
    /\ mem_resp_read' = None
    /\ \E m \in mshr :
         /\ m.id = mem_resp_read.id
         /\ LET words == Join(m.words, mem_resp_read.data)
                error == mem_resp_read.error
            IN  IF ~mem_resp_read.last
                THEN /\ mshr' = (mshr \ {m}) \union {[m EXCEPT !.words = words]}
                     /\ UNCHANGED <<cached, held, sb_core_resp>>
                ELSE /\ mshr' = mshr \ {m}
                     /\ cached' = Installed(m, words, error)
                     /\ IF is_store(m.r) /\ error
                        THEN \E i \in First({j \in DOMAIN held : held[j] = m.r}) : RemoveHeld(i)
                        ELSE UNCHANGED held
                     /\ IF is_store(m.r) /\ ~error
                        THEN UNCHANGED sb_core_resp
                        ELSE Answer(m.r, IF is_load(m.r) THEN words[WordOf(m.r.addr)] ELSE Zero, error)
    /\ UNCHANGED <<wbuf, uc, rsrv, mem_req_read, mem_req_write, mem_req_write_data, mem_resp_write>>

\* The writes under way are sent on two channels, addresses and data.  The
\* arbiters take the entries in any order across lines, and the data follow in
\* the order of the addresses.  An entry stays until the memory acknowledges it.
Unsent == {j \in DOMAIN wbuf : ~wbuf[j].aw}

\* Entry k goes behind those that were sent, the first of the others being f.
Granted(f, k) ==
    [j \in DOMAIN wbuf |->
        IF j = f THEN [wbuf[k] EXCEPT !.aw = TRUE]
        ELSE IF f < j /\ j <= k THEN wbuf[j - 1] ELSE wbuf[j]]

SendAddress ==
    /\ mem_req_write = None
    /\ \E f \in First(Unsent), k \in Unsent :
         /\ \A j \in Unsent : j < k => LineOf(wbuf[j].req.addr) # LineOf(wbuf[k].req.addr)
         /\ mem_req_write' = wbuf[k].req
         /\ wbuf' = Granted(f, k)
    /\ UNCHANGED <<cached, held, mshr, uc, rsrv, mem_req_read, mem_req_write_data,
                   mem_resp_read, mem_resp_write, sb_core_resp>>

SendData ==
    /\ mem_req_write_data = None
    /\ \E k \in First({j \in DOMAIN wbuf : ~wbuf[j].dw}) :
         /\ wbuf[k].aw
         /\ mem_req_write_data' = wbuf[k].w
         /\ wbuf' = [wbuf EXCEPT ![k].dw = TRUE]
    /\ UNCHANGED <<cached, held, mshr, uc, rsrv, mem_req_read, mem_req_write,
                   mem_resp_read, mem_resp_write, sb_core_resp>>

\* Mutant: the entry is not freed.
WriteAcknowledgedKept ==
    /\ mem_resp_write # None /\ mem_resp_write.id # UcId
    /\ mem_resp_write' = None
    /\ UNCHANGED <<cached, held, mshr, wbuf, uc, rsrv, mem_req_read, mem_req_write,
                   mem_req_write_data, mem_resp_read, sb_core_resp>>

WriteAcknowledged ==
    /\ mem_resp_write # None /\ mem_resp_write.id # UcId
    /\ mem_resp_write' = None
    /\ \E k \in DOMAIN wbuf :
         /\ wbuf[k].req.id = mem_resp_write.id
         /\ wbuf' = Without(wbuf, k)
    /\ UNCHANGED <<cached, held, mshr, uc, rsrv, mem_req_read, mem_req_write,
                   mem_req_write_data, mem_resp_read, sb_core_resp>>
-----------------------------------------------------------------------------
\* no_pend_trans
Alone == Len(held) = 1 /\ mshr = {} /\ wbuf = <<>>

\* Mutant: a dirty line is not flushed for an atomic.
AtomicTurnDirty(i) ==
    held[i].uncacheable
    \/ \A j \in 1 .. (i - 1) : LineOf(held[j].addr) # LineOf(held[i].addr)

\* A cacheable atomic waits for older requests to its line, and for its line to be
\* flushed if it is dirty.
AtomicTurn(i) ==
    held[i].uncacheable
    \/ /\ \A j \in 1 .. (i - 1) : LineOf(held[j].addr) # LineOf(held[i].addr)
       /\ ~Dirty(LineOf(held[i].addr))

FlushAtomic(i) ==
    LET l == LineOf(held[i].addr)
    IN  /\ Uncached(held[i]) /\ ~held[i].uncacheable
        /\ \A j \in 1 .. (i - 1) : LineOf(held[j].addr) # l
        /\ Dirty(l)
        /\ Flush(l)
        /\ cached' = Clean(l)
    /\ UNCHANGED <<held, mshr, uc, rsrv, dutWires, sb_core_resp>>

\* UC_IDLE: a SC without a reservation fails at once.
FailSc(i) ==
    LET r == held[i]
    IN  /\ uc = None /\ is_amo_sc(r) /\ rsrv # WordOf(r.addr)
        /\ AtomicTurn(i)
        /\ rsrv' = None
        /\ Answer(r, ScData(1, r.sz), FALSE)
        /\ RemoveHeld(i)
    /\ UNCHANGED <<cached, mshr, wbuf, uc, dutWires>>

\* UC_IDLE to UC_MEM_REQ: the others go to the memory.  A SC uses up the
\* reservation, an AMO on it drops it.
StartUncached ==
    LET r == held[1]
        w == WordOf(r.addr)
    IN  /\ Alone /\ uc = None /\ Uncached(r)
        /\ AtomicTurn(1)
        /\ is_amo_sc(r) => rsrv = w
        /\ mem_req_read = None /\ mem_req_write = None /\ mem_req_write_data = None
        /\ held' = <<>>
        /\ rsrv' = IF is_amo_sc(r) \/ (is_amo(r) /\ rsrv = w) THEN None ELSE rsrv
        /\ uc' = [r |-> r, rd |-> None, wr |-> None]
        /\ IF is_load(r) \/ is_amo_lr(r)
           THEN /\ mem_req_read' = MemReadReq(UcId, r.addr, r.sz,
                                        IF is_amo_lr(r) THEN "LDEX" ELSE None)
                /\ UNCHANGED <<mem_req_write, mem_req_write_data>>
           ELSE /\ mem_req_write' = MemWriteReq(UcId, r.addr, r.sz,
                       CASE is_amo_sc(r) -> "STEX" [] is_store(r) -> None
                         [] OTHER -> Atop(r.op))
                /\ mem_req_write_data' =
                     MemWriteData([x \in {w} |-> AtopData(r.op, r.wdata)], ByteEnable(r))
                /\ UNCHANGED mem_req_read
    /\ UNCHANGED <<cached, mshr, wbuf, mem_resp_read, mem_resp_write, sb_core_resp>>

\* UC_MEM_WAIT_RSP takes the answers of the memory.
TakeUncachedRead ==
    /\ uc # None
    /\ mem_resp_read # None /\ mem_resp_read.id = UcId
    /\ uc' = [uc EXCEPT !.rd = mem_resp_read]
    /\ mem_resp_read' = None
    /\ UNCHANGED <<cached, held, mshr, wbuf, rsrv, mem_req_read, mem_req_write,
                   mem_req_write_data, mem_resp_write, sb_core_resp>>

TakeUncachedWrite ==
    /\ uc # None
    /\ mem_resp_write # None /\ mem_resp_write.id = UcId
    /\ uc' = [uc EXCEPT !.wr = mem_resp_write]
    /\ mem_resp_write' = None
    /\ UNCHANGED <<cached, held, mshr, wbuf, rsrv, mem_req_read, mem_req_write,
                   mem_req_write_data, mem_resp_read, sb_core_resp>>

\* UC_CORE_RSP, after the line of a cacheable atomic is updated if present.  An
\* AMO waits for both answers.  A LR leaves its reservation unless it failed.
FinishUncached ==
    LET r == uc.r
        w == WordOf(r.addr)
        l == LineOf(r.addr)
        reads == is_load(r) \/ is_amo_lr(r) \/ is_amo(r)
        writes == ~is_load(r) /\ ~is_amo_lr(r)
        error == (reads /\ uc.rd.error) \/ (writes /\ uc.wr.error)
        ok == uc.wr.is_atomic /\ ~error
        new == IF is_amo(r) THEN ScoreboardWord(r.op, uc.rd.data[w], r.wdata, r.addr % 2, r.sz)
               ELSE r.wdata
        update == (is_amo(r) \/ (is_amo_sc(r) /\ ok)) /\ ~r.uncacheable /\ ~error
    IN  /\ uc # None
        /\ reads => uc.rd # None
        /\ writes => uc.wr # None
        /\ cached' = IF update /\ Hit(l)
             THEN [cached EXCEPT ![l].words[w] = Merge(@, new, ByteEnable(r))] ELSE cached
        /\ rsrv' = IF is_amo_lr(r) THEN (IF error THEN None ELSE w) ELSE rsrv
        /\ Answer(r, IF is_amo_sc(r) THEN ScData(IF ok THEN 0 ELSE 1, r.sz)
                     ELSE IF reads THEN uc.rd.data[w] ELSE Zero, error)
        /\ uc' = None
    /\ UNCHANGED <<held, mshr, wbuf, dutWires>>

NextDut ==
    \/ \E i \in DOMAIN held : ServeLoad(i) \/ ServeStore(i) \/ FlushAtomic(i) \/ FailSc(i)
    \/ FlushCmo \/ ServeCmo
    \/ Refill \/ SendAddress \/ SendData \/ WriteAcknowledged
    \/ StartUncached \/ TakeUncachedRead \/ TakeUncachedWrite \/ FinishUncached

DutIdle == held = <<>> /\ mshr = {} /\ wbuf = <<>> /\ uc = None
=============================================================================
