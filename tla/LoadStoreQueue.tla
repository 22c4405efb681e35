--------------------------- MODULE LoadStoreQueue ---------------------------
(***************************************************************************)
(* The load/store queue of the memory unit and the store buffer behind it. *)
(*                                                                         *)
(* One ring holds two populations: the entries head .. tlb_tail-1 are      *)
(* translated and wait to be executed (num_to_exe), the entries tlb_tail   *)
(* .. tail-1 wait for the data TLB (num_to_translate).  A load leaves from *)
(* the head of the ring; a store that the commit stage does not let go yet *)
(* moves to the store buffer, so that younger loads can pass it.  Three    *)
(* chains of conditions decide about the same departure: what is presented *)
(* to the data cache (next_instr_exe_o), whether the memory unit may take  *)
(* it (blocked_store_o) and what is dequeued (read_enable_lsq, _sb).  In   *)
(* an empty queue an incoming load that hits in the TLB is presented in    *)
(* its first cycle (SARG_BYPASS_LSQ, which every build defines) and enters *)
(* the ring only if it is not taken.                                       *)
(*                                                                         *)
(* Translation may find an exception.  Such an instruction is taken too,   *)
(* without a request to the cache: a load reports it to the graduation     *)
(* list like any result, a store, which has long been reported finished,   *)
(* straight to the commit stage, and the flush comes later still.          *)
(*                                                                         *)
(* Instructions are numbered in program order; the number stands for the   *)
(* index in the graduation list, of which no two are in flight at once.    *)
(* The commit stage is the part of the back end the queue listens to: the  *)
(* oldest instruction in flight and whether it has finished.  An AMO is a  *)
(* STORE here: the queue does not tell them apart.                         *)
(***************************************************************************)
EXTENDS Wrap, Sequences, FiniteSets

CONSTANTS
    NumEntries,    \* LSQ_NUM_ENTRIES
    StBufEntries,  \* ST_BUF_NUM_ENTRIES
    Addrs,         \* addresses, told apart as the collision detector does
    IoAddrs,       \* the addresses of the I/O sections
    None,          \* no instruction
    MaxInstr       \* bound on the instructions dispatched

ASSUME LsqAssumption ==
    /\ NumEntries \in Nat \ {0}
    /\ StBufEntries \in Nat \ {0, 1}
    /\ IoAddrs \subseteq Addrs

VARIABLES
    control_table, head, tail, tlb_tail, num_to_exe, num_to_translate,
    store_buffer,  \* the stores in the store buffer, oldest first
    prog,          \* the instructions dispatched so far, in program order
    finished,      \* what each has reported: "no", "ok" or "faulty"
    commit,        \* the oldest instruction that has not retired
    left,          \* the instructions the memory unit has taken, in order
    excepted,      \* those of them taken with an exception, without a request
    flushed        \* the instructions discarded by a flush

queue == <<control_table, head, tail, tlb_tail, num_to_exe, num_to_translate,
           store_buffer>>
vars == <<queue, prog, finished, commit, left, excepted, flushed>>

Ids == 1 .. MaxInstr
MemInstr == [kind : {"LOAD", "STORE"}, addr : Addrs]
Other == [kind |-> "OTHER", addr |-> None]
EmptyEntry == [id |-> 0, kind |-> "OTHER", addr |-> None,
               translated |-> FALSE, ex |-> FALSE]
TlbAnswers == {"miss", "hit", "xcpt"}

Init ==
    /\ control_table = [i \in 0 .. NumEntries - 1 |-> EmptyEntry]
    /\ head = 0 /\ tail = 0 /\ tlb_tail = 0
    /\ num_to_exe = 0 /\ num_to_translate = 0
    /\ store_buffer = <<>>
    /\ prog = <<>> /\ finished = <<>> /\ commit = 1
    /\ left = <<>> /\ excepted = {} /\ flushed = {}
-----------------------------------------------------------------------------
(* The commit stage: which stores may go.                                  *)

Offered(i) == i <= Len(prog) /\ finished[i] # "no"
IsStore(i) == prog[i].kind = "STORE"

\* commit_store_or_amo_int: the oldest instruction, or the second one when
\* the graduation list offers both and the first raises no exception.
CommitStore0 == Offered(commit) /\ IsStore(commit)
\* Mutant: the second instruction may go although the first has an exception.
CommitStore1Any ==
    /\ Offered(commit)
    /\ Offered(commit + 1) /\ IsStore(commit + 1)

CommitStore1 ==
    /\ Offered(commit) /\ finished[commit] # "faulty"
    /\ Offered(commit + 1) /\ IsStore(commit + 1)

RobStoreAck == CommitStore0 \/ CommitStore1
RobStoreIdx == IF CommitStore0 THEN commit ELSE commit + 1
Matches(i) == RobStoreAck /\ i \in {RobStoreIdx, RobStoreIdx + 1}
-----------------------------------------------------------------------------
(* The combinational signals of the queue.                                 *)

Next1 == control_table[head]

StBufEmpty == store_buffer = <<>>

StBufFull == Len(store_buffer) >= StBufEntries - 1
StBufCollision ==
    \E k \in DOMAIN store_buffer : store_buffer[k].addr = Next1.addr
StBufMatches == ~StBufEmpty /\ Matches(store_buffer[1].id)

IsNextLoad == num_to_exe > 0 /\ Next1.kind = "LOAD"
IsNextStore == num_to_exe > 0 /\ Next1.kind = "STORE"
IoAddressSpace == Next1.addr \in IoAddrs

Full == num_to_exe + num_to_translate = NumEntries
EmptyInt == num_to_exe = 0 /\ StBufEmpty /\ num_to_translate = 0

TranslateIncoming(in) == in # None /\ num_to_translate = 0 /\ ~Full
TranslateEnable(tlb) == tlb # "miss"

\* Mutant: the store buffer does not keep an incoming load back.
BypassAnyStores(in, tlb) ==
    /\ num_to_exe = 0 /\ num_to_translate = 0
    /\ TranslateIncoming(in) /\ in.kind = "LOAD" /\ TranslateEnable(tlb)

\* bypass_lsq: the incoming load need not enter the queue.
Bypass(in, tlb) ==
    /\ EmptyInt
    /\ TranslateIncoming(in) /\ in.kind = "LOAD" /\ TranslateEnable(tlb)

Empty(in, tlb) == EmptyInt /\ ~Bypass(in, tlb)

NewEntry(in, tlb) ==
    [id |-> Len(prog) + 1, kind |-> in.kind, addr |-> in.addr,
     translated |-> TranslateIncoming(in) /\ TranslateEnable(tlb),
     ex |-> TranslateIncoming(in) /\ tlb = "xcpt"]

NextInstrExe(in, tlb) ==
    CASE Bypass(in, tlb) -> NewEntry(in, tlb)
      [] ~Bypass(in, tlb) /\ IsNextLoad /\ ~StBufCollision /\ ~IoAddressSpace
           -> Next1
      [] ~Bypass(in, tlb) /\ ~(IsNextLoad /\ ~StBufCollision /\ ~IoAddressSpace)
           /\ StBufMatches -> store_buffer[1]
      [] ~StBufMatches /\ IsNextStore /\ Matches(Next1.id)
           /\ Next1.translated -> Next1
      [] ~StBufMatches /\ IsNextLoad /\ ~StBufCollision /\ IoAddressSpace
           -> Next1
      [] OTHER -> EmptyEntry

\* Mutant: the store buffer waits for the load at the head.
BlockedStoreByLoad(in, tlb) ==
    ~ \/ Bypass(in, tlb)
      \/ IsNextLoad /\ ~StBufCollision /\ ~IoAddressSpace
      \/ StBufMatches /\ ~IsNextLoad
      \/ StBufEmpty /\ IsNextStore /\ Matches(Next1.id)
      \/ IsNextLoad /\ StBufEmpty /\ IoAddressSpace

BlockedStore(in, tlb) ==
    ~ \/ Bypass(in, tlb)
      \/ IsNextLoad /\ ~StBufCollision /\ ~IoAddressSpace
      \/ StBufMatches
      \/ StBufEmpty /\ IsNextStore /\ Matches(Next1.id)
      \/ IsNextLoad /\ StBufEmpty /\ IoAddressSpace

\* The memory unit takes the instruction presented (read_next_i), and the queue
\* gives it (read_enable).
CanRead(in, tlb) ==
    /\ ~Empty(in, tlb) /\ ~BlockedStore(in, tlb)
    /\ NextInstrExe(in, tlb).id # 0
    /\ ~EmptyInt \/ Bypass(in, tlb)

ReadFromStBuf(read) ==
    /\ read /\ StBufMatches
    /\ ~(IsNextLoad /\ ~StBufCollision /\ ~IoAddressSpace)

\* A store that may not go yet moves to the store buffer.
MovesToStBuf(read) ==
    /\ ~(read /\ StBufMatches)
    /\ ~(read /\ Matches(Next1.id))
    /\ IsNextStore /\ ~StBufFull

ReadFromLsq(read) ==
    \/ read /\ IsNextLoad /\ ~StBufCollision
         /\ (IoAddressSpace => ~StBufMatches)
    \/ read /\ ~StBufMatches /\ IsNextStore /\ Matches(Next1.id)
    \/ MovesToStBuf(read)

\* Mutant: a load that bypassed the queue is written into it as well.
WriteEnableAlways(in, read) == in # None /\ num_to_exe < NumEntries

WriteEnable(in, read) ==
    /\ in # None /\ num_to_exe < NumEntries
    /\ ~(EmptyInt /\ in.kind = "LOAD" /\ read)

\* The entry at tlb_tail, or the incoming one, becomes ready to execute.
Translates(in, tlb, read) ==
    /\ TranslateEnable(tlb)
    /\ \/ TranslateIncoming(in) /\ ~(Bypass(in, tlb) /\ read)
       \/ num_to_translate > 0
-----------------------------------------------------------------------------
Plus(ptr, b) == Trunc(ptr + Bit(b), NumEntries)

\* The ring: the incoming instruction is written at the tail, the entry the
\* TLB answers for is marked, and the head advances.
Ring(in, tlb, read) ==
    /\ control_table' =
         [i \in DOMAIN control_table |->
            IF WriteEnable(in, read) /\ i = tail THEN NewEntry(in, tlb)
            ELSE IF /\ TranslateEnable(tlb) /\ ~TranslateIncoming(in)
                    /\ num_to_translate > 0 /\ i = tlb_tail
            THEN [control_table[i] EXCEPT !.translated = TRUE, !.ex = (tlb = "xcpt")]
            ELSE control_table[i]]
    /\ head' = Plus(head, ReadFromLsq(read))
    /\ tail' = Plus(tail, WriteEnable(in, read))
    /\ tlb_tail' = Plus(tlb_tail, Translates(in, tlb, read))
    /\ num_to_translate' = num_to_translate
         + Bit(WriteEnable(in, read)) - Bit(Translates(in, tlb, read))
    /\ num_to_exe' = num_to_exe
         + Bit(Translates(in, tlb, read)) - Bit(ReadFromLsq(read))

StoreBuffer(read) ==
    store_buffer' =
        (IF ReadFromStBuf(read) THEN Tail(store_buffer) ELSE store_buffer)
        \o (IF MovesToStBuf(read) THEN <<Next1>> ELSE <<>>)

\* One clock of the queue: an instruction may arrive from the execution stage
\* (which masks it while the queue is full), the TLB may answer, and the memory
\* unit may take what is presented.
Cycle(in, tlb, read) ==
    /\ in # None => ~Full /\ Len(prog) < MaxInstr
    /\ read => CanRead(in, tlb)
    /\ Ring(in, tlb, read)
    /\ StoreBuffer(read)
    /\ left' = IF read THEN Append(left, NextInstrExe(in, tlb).id) ELSE left
    /\ excepted' = IF read /\ NextInstrExe(in, tlb).ex
                   THEN excepted \cup {NextInstrExe(in, tlb).id} ELSE excepted
    /\ prog' = IF in = None THEN prog ELSE Append(prog, in)
    /\ finished' = IF in = None THEN finished
                   ELSE Append(finished, IF in.kind = "STORE" THEN "ok" ELSE "no")
    /\ UNCHANGED <<commit, flushed>>

\* commit_xcpt: the exception record of the graduation list, or, for a store,
\* exception_mem_commit of the memory unit.
CommitXcpt ==
    /\ Offered(commit)
    /\ finished[commit] = "faulty" \/ (IsStore(commit) /\ commit \in excepted)

\* flush_to_lsq: the oldest instruction raises its exception at commit.  The
\* control unit delays it by a cycle, so that cycles of the queue come between.
Flush ==
    /\ CommitXcpt
    /\ head' = 0 /\ tail' = 0 /\ tlb_tail' = 0
    /\ num_to_exe' = 0 /\ num_to_translate' = 0
    /\ store_buffer' = <<>>
    /\ flushed' = flushed \cup (commit .. Len(prog))
    /\ commit' = Len(prog) + 1
    /\ UNCHANGED <<control_table, prog, finished, left, excepted>>

\* An instruction of another unit is dispatched.
Dispatch ==
    /\ Len(prog) < MaxInstr
    /\ prog' = Append(prog, Other)
    /\ finished' = Append(finished, "no")
    /\ UNCHANGED <<queue, commit, left, excepted, flushed>>

HasLeft(i) == \E k \in DOMAIN left : left[k] = i

\* An instruction of another unit, or a load that was taken, reports to the
\* graduation list, a load with the exception it was taken with.
Finish(i, how) ==
    /\ i \in commit .. Len(prog) /\ finished[i] = "no"
    /\ prog[i].kind = "LOAD" => HasLeft(i) /\ (how = "faulty" <=> i \in excepted)
    /\ finished' = [finished EXCEPT ![i] = how]
    /\ UNCHANGED <<queue, prog, commit, left, excepted, flushed>>

\* The oldest instruction retires; a store only once it has been sent.
Retire ==
    /\ Offered(commit) /\ ~CommitXcpt
    /\ IsStore(commit) => HasLeft(commit)
    /\ commit' = commit + 1
    /\ UNCHANGED <<queue, prog, finished, left, excepted, flushed>>

Next ==
    \/ \E in \in MemInstr \cup {None}, tlb \in TlbAnswers, read \in BOOLEAN :
         Cycle(in, tlb, read)
    \/ Flush
    \/ Dispatch
    \/ \E i \in Ids, how \in {"ok", "faulty"} : Finish(i, how)
    \/ Retire

\* The TLB answers, the cache accepts, units finish and the commit stage runs;
\* no instruction need ever arrive.
Fairness ==
    /\ \A read \in BOOLEAN : WF_vars(\E tlb \in {"hit", "xcpt"} : Cycle(None, tlb, read))
    /\ WF_vars(Flush)
    /\ WF_vars(Retire)
    /\ \A i \in Ids : WF_vars(\E how \in {"ok", "faulty"} : Finish(i, how))

Spec == Init /\ [][Next]_vars
FairSpec == Spec /\ Fairness
-----------------------------------------------------------------------------
\* Every variable stays in its range: each counter within the ring, the store
\* buffer one short of its size (its full flag is raised one entry early).
TypeOK ==
    /\ {head, tail, tlb_tail} \subseteq 0 .. NumEntries - 1
    /\ {num_to_exe, num_to_translate} \subseteq 0 .. NumEntries
    /\ num_to_exe + num_to_translate <= NumEntries
    /\ Len(store_buffer) < StBufEntries
    /\ Len(finished) = Len(prog) /\ commit \in 1 .. Len(prog) + 1

Slot(k) == control_table[(head + k) % NumEntries]
Queued == [k \in 1 .. num_to_exe + num_to_translate |-> Slot(k - 1).id]
Buffered == [k \in DOMAIN store_buffer |-> store_buffer[k].id]
Held == Buffered \o Queued
Elements(s) == {s[k] : k \in DOMAIN s}

\* Nothing is lost, duplicated or sent twice: the instructions that entered
\* are the ones that left and the ones the store buffer and the ring hold
\* (in program order, each once), although presenting, permitting and
\* dequeuing are three separate decisions and two counters share the ring.
NothingLost ==
    /\ \A j, k \in DOMAIN Held : j < k => Held[j] < Held[k]
    /\ \A j, k \in DOMAIN left : j # k => left[j] # left[k]
    /\ Elements(Held) \cap Elements(left) = {}
    /\ {i \in DOMAIN prog : prog[i].kind # "OTHER"} \ flushed
         = (Elements(Held) \cup Elements(left)) \ flushed
    /\ Elements(Held) \cap flushed = {}

\* The boundary the second pointer draws: an entry of the ring is translated
\* exactly when it is counted as ready to execute.
TranslatedPrefix ==
    \A k \in 1 .. num_to_exe + num_to_translate :
        Slot(k - 1).translated <=> k <= num_to_exe

Before(i, j) == \E a, b \in DOMAIN left : a < b /\ left[a] = i /\ left[b] = j

\* Program order at one address, and everywhere for I/O: a load that has left
\* the queue left after every older store to its address; an I/O load left
\* after every older store.
LoadsSeeOlderStores ==
    \A b \in DOMAIN left : \A i \in 1 .. left[b] - 1 :
        /\ prog[left[b]].kind = "LOAD" /\ IsStore(i) /\ i \notin flushed
        /\ prog[i].addr = prog[left[b]].addr \/ prog[left[b]].addr \in IoAddrs
        => Before(i, left[b])

Requested(i) == HasLeft(i) /\ i \notin excepted

\* Stores reach the cache in program order, and a store that was sent is final
\* although the commit window opens on the second instruction of the list: it
\* is flushed only when the instruction right before it is a store that left
\* with an exception.
StoresFinal ==
    /\ \A a, b \in DOMAIN left :
         IsStore(left[a]) /\ IsStore(left[b]) /\ a < b => left[a] < left[b]
    /\ \A i \in flushed :
         IsStore(i) /\ Requested(i) => i > 1 /\ IsStore(i - 1) /\ i - 1 \in excepted

\* A load that waits for a store in the buffer, an I/O load that waits for the
\* buffer to drain, and a store that waits for commit do not wait for each
\* other: whatever enters the queue leaves it or is flushed.
Drains == \A i \in Ids :
    (i <= Len(prog) /\ prog[i].kind # "OTHER") ~> (HasLeft(i) \/ i \in flushed)

\* The ring and the store buffer together: the counters fit, they draw the line
\* between translated and waiting entries, and every instruction is somewhere
\* exactly once.
QueueInv == TypeOK /\ TranslatedPrefix /\ NothingLost
=============================================================================
