---------------------------- MODULE Transaction ----------------------------
(***************************************************************************)
(* The transactions of the HPDcache testbench: requests and responses on   *)
(* the core interface, and requests and responses on the memory interface. *)
(* Addresses count granules of 4 bytes, so a word of 8 bytes is two of     *)
(* them; sz is the size of an access in granules.                          *)
(***************************************************************************)
EXTENDS Amo

CONSTANT None       \* no transaction, no value

CmoOps == {"CMO_FENCE", "CMO_PREFETCH", "CMO_INVAL_NLINE", "CMO_INVAL_ALL",
           "CMO_FLUSH_NLINE", "CMO_FLUSH_ALL", "CMO_FLUSH_INVAL_NLINE",
           "CMO_FLUSH_INVAL_ALL"}

is_load(r) == r.op = "LOAD"
is_store(r) == r.op = "STORE"
is_amo(r) == r.op \in AmoOps
is_amo_lr(r) == r.op = "AMO_LR"
is_amo_sc(r) == r.op = "AMO_SC"
is_cmo(r) == r.op \in CmoOps
is_cmo_prefetch(r) == r.op = "CMO_PREFETCH"

WordOf(addr) == addr \div 2
\* req_be: the granules of its word that an access names; a CMO names none
ByteEnable(r) == IF is_cmo(r) THEN {} ELSE (r.addr % 2) .. ((r.addr % 2) + r.sz - 1)

\* A core request: what a sequence fills in.  The hint wr_policy asks for a
\* write-back line ("WB"), a write-through one ("WT") or neither ("AUTO").
Request(op, addr, sz, data, uncacheable, need_rsp, wr_policy) ==
    [op |-> op, addr |-> addr, sz |-> sz, wdata |-> data,
     uncacheable |-> uncacheable, need_rsp |-> need_rsp, wr_policy |-> wr_policy]

Response(tid, data, error) == [tid |-> tid, rdata |-> data, error |-> error]

\* Memory requests: command READ, WRITE or ATOMIC, with the atomic code.  The
\* data of a flit is a function of the words it carries.
MemReadReq(id, addr, sz, atomic) ==
    [id |-> id, addr |-> addr, sz |-> sz, atomic |-> atomic]
MemWriteReq(id, addr, sz, atomic) ==
    [id |-> id, addr |-> addr, sz |-> sz, atomic |-> atomic]
MemWriteData(data, be) == [data |-> data, be |-> be]
MemReadResp(id, data, error, last) ==
    [id |-> id, data |-> data, error |-> error, last |-> last]
MemWriteResp(id, is_atomic, error) ==
    [id |-> id, is_atomic |-> is_atomic, error |-> error]

is_mem_ldex(r) == r.atomic = "LDEX"
is_mem_stex(r) == r.atomic = "STEX"
is_mem_amo(r) == r.atomic \notin {None, "LDEX", "STEX"}
=============================================================================
