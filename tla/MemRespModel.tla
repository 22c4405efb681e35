---------------------------- MODULE MemRespModel ----------------------------
(***************************************************************************)
(* The memory behind the HPDcache in its testbench: six threads between    *)
(* the memory interface of the cache (the mem_* wires), fifos, the memory  *)
(* array and the scoreboard.  The random delays of the threads are the     *)
(* freedom of when an action is taken.  A wire holds a transaction from    *)
(* valid until the ready that takes it.                                    *)
(***************************************************************************)
EXTENDS Transaction, Sequences

CONSTANTS Words,          \* the words of memory
          MemIds,         \* the ids of the memory interface
          NocWords,       \* MEM_NOC_DATA_WORDS: words in a flit
          ErrorSegs,      \* errorsegs: <<[base, end, error], ...>>
          ReadRespDepth,  \* HPDCACHE_MSHR_SETS * HPDCACHE_MSHR_WAYS
          WriteRespDepth, \* HPDCACHE_WBUF_DIR_ENTRIES
          FifoDepth       \* the depth of an sc_fifo made without a size

ASSUME MemAssumption ==
    /\ Words \subseteq Nat
    /\ {NocWords, ReadRespDepth, WriteRespDepth, FifoDepth} \subseteq Nat \ {0}

VARIABLES
    memory,             \* memory_m: the words accessed so far
    excl_buf,           \* excl_buf_m: one exclusive reservation per id
    mem_req_read, mem_req_write, mem_req_write_data,    \* from the cache
    mem_resp_read, mem_resp_write,                      \* to the cache
    rd,                 \* read_process: the request of readOperation and its beat
    wr,                 \* write_process: the joined address and data flits
    read_resp_fifo, write_req_fifo, write_req_data_fifo, write_resp_fifo,
    sb_mem_read_req, sb_mem_read_resp, sb_mem_write_req, sb_mem_write_resp

memArray == <<memory, excl_buf>>
readWires == <<mem_req_read, mem_resp_read>>
writeWires == <<mem_req_write, mem_req_write_data, mem_resp_write>>
sbMem == <<sb_mem_read_req, sb_mem_read_resp, sb_mem_write_req, sb_mem_write_resp>>
memVars == <<memArray, readWires, writeWires, rd, wr, read_resp_fifo,
             write_req_fifo, write_req_data_fifo, write_resp_fifo, sbMem>>

\* Two half-open ranges of addresses overlap.
within_region(base0, end0, base1, end1) == ~(end0 <= base1 \/ base0 >= end1)

\* The first segment that the range touches decides.
within_error_region(base, end) ==
    LET hits == {i \in DOMAIN ErrorSegs :
                   within_region(ErrorSegs[i].base, ErrorSegs[i].end, base, end)}
    IN  hits # {} /\ ErrorSegs[Min(hits)].error

\* readMemory: a word never accessed gets a random value, and keeps it.
ReadMemory(ws) ==
    {f \in [ws -> Word] : \A w \in ws : memory[w] # None => f[w] = memory[w]}

\* Mutant: the byte enables are ignored.
WriteMemoryWhole(d, data, be) == data

\* writeMemory under beToMask: the word after a write of some of its bytes.
WriteMemory(d, data, be) == Merge(d, data, be)

NoReservation == [valid |-> FALSE, base |-> 0, end |-> 0]

\* The array is filled on first access.  excl_buf_m is not initialized, so
\* each reservation may hold anything.
InitMem(Garbage) ==
    /\ memory = [w \in Words |-> None]
    /\ excl_buf \in [MemIds -> Garbage]
    /\ mem_req_read = None /\ mem_resp_read = None
    /\ mem_req_write = None /\ mem_req_write_data = None /\ mem_resp_write = None
    /\ rd = None /\ wr = None
    /\ read_resp_fifo = <<>> /\ write_resp_fifo = <<>>
    /\ write_req_fifo = <<>> /\ write_req_data_fifo = <<>>
    /\ sb_mem_read_req = <<>> /\ sb_mem_read_resp = <<>>
    /\ sb_mem_write_req = <<>> /\ sb_mem_write_resp = <<>>
-----------------------------------------------------------------------------
\* read_process sees valid and tells the scoreboard before it answers ready.
read_process ==
    /\ rd = None /\ mem_req_read # None
    /\ sb_mem_read_req' = Append(sb_mem_read_req, mem_req_read)
    /\ rd' = [req |-> mem_req_read, beat |-> None]
    /\ UNCHANGED <<memArray, readWires, writeWires, wr, read_resp_fifo, write_req_fifo,
                   write_req_data_fifo, write_resp_fifo,
                   sb_mem_read_resp, sb_mem_write_req, sb_mem_write_resp>>

\* The ready pulse, after ra_ready_delay.
readReady ==
    /\ rd # None /\ rd.beat = None
    /\ mem_req_read' = None
    /\ rd' = [rd EXCEPT !.beat = 0]
    /\ UNCHANGED <<memArray, mem_resp_read, writeWires, wr, read_resp_fifo, write_req_fifo,
                   write_req_data_fifo, write_resp_fifo, sbMem>>

\* The words that an access touches.
WordsOf(req) == WordOf(req.addr) .. WordOf(req.addr + req.sz - 1)

\* Beats of a read: len + 1 of them; and the words of one.
Beats(req) == IF req.sz <= 2 * NocWords THEN 1 ELSE req.sz \div (2 * NocWords)
BeatWords(req, beat) ==
    LET first == WordOf(req.addr) + beat * NocWords
    IN  {w \in WordsOf(req) : first <= w /\ w < first + NocWords}

\* readOperation: one response of the read.  A LDEX leaves its reservation with
\* the first; a read of an error segment gets error beats and reads nothing.
readOperation ==
    /\ rd # None /\ rd.beat # None
    /\ Len(read_resp_fifo) < ReadRespDepth
    /\ LET req == rd.req
           words == BeatWords(req, rd.beat)
           last == rd.beat + 1 = Beats(req)
           error == within_error_region(req.addr, req.addr + req.sz)
           Push(d) == read_resp_fifo' =
               Append(read_resp_fifo, MemReadResp(req.id, d, error, last))
       IN  /\ IF error
              THEN /\ Push([w \in words |-> [i \in Granule |-> 0]])
                   /\ UNCHANGED memArray
              ELSE \E d \in ReadMemory(words) :
                   /\ Push(d)
                   /\ memory' = [w \in Words |-> IF w \in words THEN d[w] ELSE memory[w]]
                   /\ excl_buf' = IF is_mem_ldex(req)
                        THEN [excl_buf EXCEPT ![req.id] =
                               [valid |-> TRUE, base |-> req.addr, end |-> req.addr + req.sz]]
                        ELSE excl_buf
           /\ rd' = IF last THEN None ELSE [rd EXCEPT !.beat = @ + 1]
    /\ UNCHANGED <<readWires, writeWires, wr, write_req_fifo, write_req_data_fifo,
                   write_resp_fifo, sbMem>>

\* read_response_process: the scoreboard is told when valid rises.
read_response_process ==
    /\ mem_resp_read = None /\ read_resp_fifo # <<>>
    /\ mem_resp_read' = Head(read_resp_fifo)
    /\ sb_mem_read_resp' = Append(sb_mem_read_resp, Head(read_resp_fifo))
    /\ read_resp_fifo' = Tail(read_resp_fifo)
    /\ UNCHANGED <<memArray, mem_req_read, writeWires, rd, wr, write_req_fifo,
                   write_req_data_fifo, write_resp_fifo,
                   sb_mem_read_req, sb_mem_write_req, sb_mem_write_resp>>
-----------------------------------------------------------------------------
write_address_process ==
    /\ mem_req_write # None /\ Len(write_req_fifo) < FifoDepth
    /\ write_req_fifo' = Append(write_req_fifo, mem_req_write)
    /\ mem_req_write' = None
    /\ UNCHANGED <<memArray, readWires, mem_req_write_data, mem_resp_write, rd, wr,
                   read_resp_fifo, write_req_data_fifo, write_resp_fifo, sbMem>>

write_data_process ==
    /\ mem_req_write_data # None /\ Len(write_req_data_fifo) < FifoDepth
    /\ write_req_data_fifo' = Append(write_req_data_fifo, mem_req_write_data)
    /\ mem_req_write_data' = None
    /\ UNCHANGED <<memArray, readWires, mem_req_write, mem_resp_write, rd, wr,
                   read_resp_fifo, write_req_fifo, write_resp_fifo, sbMem>>

\* write_process pairs the oldest address with the oldest data.
write_process ==
    /\ wr = None /\ write_req_fifo # <<>> /\ write_req_data_fifo # <<>>
    /\ wr' = [req |-> Head(write_req_fifo), w |-> Head(write_req_data_fifo)]
    /\ write_req_fifo' = Tail(write_req_fifo)
    /\ write_req_data_fifo' = Tail(write_req_data_fifo)
    /\ UNCHANGED <<memArray, readWires, writeWires, rd, read_resp_fifo, write_resp_fifo, sbMem>>

\* writeOperation, after telling the scoreboard.  In an error segment an AMO is
\* answered on the read channel without the error flag, and on the write
\* channel with it.  A store exclusive uses up the reservation of its id and
\* writes only if the reservation covers it.  A write of a line is one flit.
writeOperation ==
    /\ wr # None
    /\ Len(write_resp_fifo) < WriteRespDepth
    /\ is_mem_amo(wr.req) => Len(read_resp_fifo) < ReadRespDepth
    /\ LET req == wr.req
           word == WordOf(req.addr)
           words == WordsOf(req)
           end == req.addr + req.sz
           g == req.addr % 2
           error == within_error_region(req.addr, end)
           e == excl_buf[req.id]
           excl_ok == e.valid /\ within_region(req.addr, end, e.base, e.end)
           Answer(is_atomic) == write_resp_fifo' =
               Append(write_resp_fifo, MemWriteResp(req.id, is_atomic, error))
           Old(d) == read_resp_fifo' = IF is_mem_amo(req)
               THEN Append(read_resp_fifo, MemReadResp(req.id, [w \in words |-> d], FALSE, TRUE))
               ELSE read_resp_fifo
       IN  /\ sb_mem_write_req' = Append(sb_mem_write_req, req)
           /\ IF error
              THEN /\ Answer(FALSE)
                   /\ Old([i \in Granule |-> 0])
                   /\ UNCHANGED memArray
              ELSE /\ Answer(is_mem_stex(req) /\ excl_ok)
                   /\ excl_buf' = IF is_mem_stex(req)
                        THEN [excl_buf EXCEPT ![req.id].valid = FALSE]
                        ELSE excl_buf
                   /\ \E d \in ReadMemory(words) :
                        /\ Old(ShiftIn(Extract(d[word], g, req.sz), g))
                        /\ memory' = [w \in Words |->
                             CASE w \notin words \/ (is_mem_stex(req) /\ ~excl_ok) -> memory[w]
                               [] is_mem_amo(req) ->
                                    WriteMemory(d[w], MemoryWord(req.atomic, d[w], wr.w.data[w], g, req.sz), wr.w.be)
                               [] OTHER -> WriteMemory(d[w], wr.w.data[w], wr.w.be)]
    /\ wr' = None
    /\ UNCHANGED <<readWires, writeWires, rd, write_req_fifo, write_req_data_fifo,
                   sb_mem_read_req, sb_mem_read_resp, sb_mem_write_resp>>

\* write_response_process: the scoreboard is told when valid rises.
write_response_process ==
    /\ mem_resp_write = None /\ write_resp_fifo # <<>>
    /\ mem_resp_write' = Head(write_resp_fifo)
    /\ sb_mem_write_resp' = Append(sb_mem_write_resp, Head(write_resp_fifo))
    /\ write_resp_fifo' = Tail(write_resp_fifo)
    /\ UNCHANGED <<memArray, readWires, mem_req_write, mem_req_write_data, rd, wr,
                   read_resp_fifo, write_req_fifo, write_req_data_fifo,
                   sb_mem_read_req, sb_mem_read_resp, sb_mem_write_req>>

NextMem ==
    \/ read_process \/ readReady \/ readOperation \/ read_response_process
    \/ write_address_process \/ write_data_process \/ write_process
    \/ writeOperation \/ write_response_process
-----------------------------------------------------------------------------
\* The wires and threads hold transactions of the memory interface.
MemTypeOK ==
    /\ memory \in [Words -> Word \union {None}]
    /\ \A i \in MemIds : excl_buf[i].valid \in BOOLEAN
    /\ Len(read_resp_fifo) <= ReadRespDepth
    /\ Len(write_resp_fifo) <= WriteRespDepth
=============================================================================
