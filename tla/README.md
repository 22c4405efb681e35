# The Sargantana tile in TLA+

The repository is the Sargantana tile: a 64-bit RISC-V core that issues in
order, completes out of order and commits in order, with its caches, MMU and
adapters, the testbench of its data cache and the simulator it is run with.
This directory holds TLA+ modules of three parts, with the TLC configurations
that check them and the TLAPS proofs about them:

- the core: the back end from rename to commit, the load/store queue and the
  pending memory requests;
- the SystemC testbench of the data cache (`src/rtl/dcache/rtl/tb`), composed
  with the cache as the testbench sees it;
- the C++ models of the simulator (`src/simulator`): memory, loader and host,
  commit log, checkpoints, remote JTAG.

Paths of the core are relative to `src/rtl/core/sargantana/rtl`, those of the
testbench to `src/rtl/dcache/rtl/tb`, those of the simulator to `src/simulator`.

## Inventory

| component | state | operations | talks to | what is hard | correct when |
|---|---|---|---|---|---|
| free list (`datapath/rtl/ir_stage/rtl/free_list.sv`) | ring of register names, one tail, a head and a count per checkpoint, version pointers | take a register, free up to two, checkpoint, delete a checkpoint, recover, roll back | rename (IR), commit, control unit | all operations of a cycle at once; counters and pointers updated side by side and never compared | no register is lost or handed out twice, whatever is recovered |
| rename table (`.../rename_table.sv`) | map and ready bits per checkpoint, committed map | rename, checkpoint, delete, recover, commit two, mark ready, recover from commit | the same, and write-back | its checkpoint counter is a second copy of the free list's | the current map is that of in-order execution |
| graduation list (`datapath/rtl/wb_stage/rtl/graduation_list.sv`) | ring of instructions in flight, finished bits, one exception record | insert, mark finished from eight ports, retire two, flush behind a branch, flush all | RR, WB, EXE exceptions, commit | wrap-around age comparisons, flush with retirement | instructions retire in order, the oldest exception is the one taken |
| control unit (`control_unit/rtl/control_unit.sv`) | exception and CSR delay registers, CSR fence, debug state | stall, flush, checkpoint, recover, commit enable | every stage | priorities between exception, CSR flush, misprediction, stalls | no flush or stall loses or repeats an instruction |
| datapath (`datapath/rtl/datapath.sv`) | pipeline registers, stall multiplexers | move instructions between stages, snoop results | every unit | a result that arrives while its reader is stalled | every operand hears its producer |
| execution stage (`datapath/rtl/exe_stage/rtl/exe_stage.sv`), branch unit | none of its own besides the units | dispatch, kill, select results and exceptions | units, WB, graduation list | a killed instruction inside a unit; two exceptions in a cycle | no result of a killed instruction survives |
| CSR interface (`datapath/rtl/interface_csr/rtl/csr_interface.sv`) | none | retire one or two, send the CSR command | graduation list, CSRs | what may retire together | CSR and store instructions retire alone and once |
| instruction queue, decoder, fetch, branch predictor | queue, predictor tables, PC | fetch, decode, predict | icache, control unit | redirection against fetches under way | the head of the queue is the next instruction in program order |
| memory unit, load/store queue, store buffer, pending request queue | queues, tags, state machine | translate, issue, replay, commit stores | TLB, dcache, commit | late answers after a flush, early full flags, tag reuse | each load is answered once, stores leave in order |
| score boards, mul, div, FPU, SIMD, vagu | pipelines | arithmetic | EXE, WB | two results for one port in one cycle | arithmetic; one result per port |
| CSRs, debug | privileged state, debug state machine | commands at commit, halt, resume | commit, control unit | halting while instructions are under way | architectural |
| MMU, icache, adapters | TLBs, walker, cache | translate, refill, protocol conversion | core, memory | flush against a walk or refill under way | answers match requests |
| HPDCache (`src/rtl/dcache/rtl/src`), dcache interface | directory, misses, write buffer, flush controller, uncached unit, replay table; transaction table | load, write-through and write-back store, eviction, atomics, CMOs | core, memory | order within a line, dirty lines on their way out, reservations, errors | every request has one answer, that of an in-order memory |
| sequences, pool, driver (`hpdcache_test_sequence.h`, `sequence_lib/`, `sc_verif_lib/include`, `hpdcache_test_driver.h`) | ids in use, pooled objects, a fifo | create, hand over, drive, acknowledge | scoreboard (gives ids back), cache | an object reused before it is copied, ids that run out | every transaction is driven once, as created |
| scoreboard (`hpdcache_test_scoreboard.h`) | requests in flight, learnt RAM, reservation, table of atomics, counters | six processes, one per fifo | driver, memory model, sequence | predictions made in one order and checked in another | reports a wrong cache and no other |
| memory response model (`hpdcache_test_mem_resp_model*.h`) | sparse memory, exclusive reservations, fifos | six threads: take, execute, answer | cache, scoreboard | two write channels joined by order; ready before a blocking write | the memory is that of the accepted writes |
| models of atomics (`hpdcache_test_amo.h`, the above, `models/cxx/dpi_perfect_memory.cpp`) | none | compute | each other, through comparisons | sign, carry, inverted operand of 4-byte operations | all three agree |
| cache directory (`sc_verif_lib/modules/generic_cache`) | tags, valid and PLRU bits | access, replace, invalidate, reset | (directory check, compiled out) | stale tags, PLRU at its limit | a set of lines |
| remote bitbang (`bsc-dm/SimJTAG`) | connection, pins, quit | accept, execute one command a tick | a client, the TAP | a silent client, a second connection, errors of the socket | replies show the TAP after the commands before them |
| commit log (`models/cxx/dpi_commit_log.cpp`) | stream, CSR changes, last fflags | log a commit, an exception, a CSR change | core (two commits a cycle) | two commits share one report | one complete line per instruction |
| checkpoints (`models/cxx/dpi_checkpoint.*`, `sim_top.sv`) | model, memory, time, two files | start, restore, save | file system | crash in a save, resumed toggles | a checkpoint survives |
| memory, loader, host (`models/cxx/dpi_perfect_memory.cpp`, `loadelf.cpp`, `dpi_host.cpp`) | words by address, symbols | load, read, write, host call | core, ELF file | blocks that start or end inside a word | every defined byte is right |

In the core everything runs on one clock; what a test hardly reaches is the coincidence of
events of several stages in one cycle: a misprediction in WB with two
retirements, an exception detected while a branch recovers, a result that
arrives as its reader is stalled, wrapped pointers in all of these. In the
testbench it is the order of threads that share fifos and objects, and in the
simulator what happens around a crash, a restore or a client that stops. The
`hazards` list of `PROJECT.json` names the lines.

## Modules

| module | models | notes |
|---|---|---|
| `Wrap` | the `trunc_*` functions | registers of m values, sums truncated to them |
| `FreeList` | `free_list.sv` | every register and input; `Spec` is the list under every client that keeps its protocol |
| `RenameTable` | `rename_table.sv` | every register and input; used by `Backend` |
| `GraduationList` | `graduation_list.sv` | what an entry remembers is the constant `Payload`; `GlSpec` as above |
| `Backend` | `datapath.sv` from IR to commit, `control_unit.sv`, `exe_stage.sv`, `csr_interface.sv` | composes the three with INSTANCE |
| `LoadStoreQueue` | `load_store_queue.sv` with `SARG_BYPASS_LSQ`, `store_buffer_sarg.sv`, the commit window and commit exceptions of `datapath.sv` and `mem_unit.sv` | the graduation list around it is a program with finished bits; a translation hits, misses or raises an exception |
| `PendingMemReq` | `pending_mem_req_queue.sv`, tags, withdrawn requests and register S1 of `mem_unit.sv`, transaction table of `dcache_interface.sv` | the cache is the set of requests not answered |
| `Amo` | the three implementations of atomics, and the codes the cache sends | words of two granules of `Bits` bits stand for 2 x 32 bits |
| `Transaction` | requests and answers of core and memory | records and their classification |
| `TestSequence` | sequences, ids, pool, driver | used by `Testbench` and `Stimulus` |
| `Stimulus` | the stimulus side alone | `TestSequence` with a cache that accepts at any time and a scoreboard that takes its copies and gives ids back late |
| `MemRespModel` | the memory response model | one action per thread and wait |
| `Scoreboard` | the scoreboard | one action per process |
| `Hpdcache` | the cache, from its RTL, at the level of accepted requests and memory traffic | lines with their `wback`, `dirty` and `fetch` bits, write buffer and flush controller; the pipeline and the replay table are one list of requests on hold; the victim of a miss is any line or a free way |
| `Testbench` | `hpdcache_tb.cpp`, the agent | composes `TestSequence`, `MemRespModel`, `Scoreboard` and `Hpdcache` with INSTANCE; also the faults of a wrong cache |
| `CacheDirectory`, `LineSet` | the generic directory, and the set of lines it implements | `LineSet` is the abstract specification |
| `RemoteBitbang` | `remote_bitbang.cc`, `SimJTAG.cc`, `SimJTAG.sv` | the TAP shows any bit on TDO in any tick; the client is on the other side of a socket |
| `CommitLog` | `dpi_commit_log.cpp`, and which commits and CSR reports the core sends it together | |
| `Checkpoint` | `dpi_checkpoint.*`, the save block of `sim_top.sv` | crash at any point, restore from either file |
| `SimMemory` | memory, loader, host call | words of 4 bytes at small addresses |
| `FreeListProofs`, `GraduationListProofs`, `LoadStoreQueueProofs`, `PendingMemReqProofs` | theorems about the module of that name | checked by TLAPS |
| `TbLibraryProofs` | theorems about `CacheDirectory` and `Stimulus` | checked by TLAPS |
| `SimulatorProofs` | theorems about `Checkpoint`, `RemoteBitbang`, `CommitLog` and `SimMemory` | checked by TLAPS |
| `BackendProofs` | theorems about `Backend` in three parts: typing, ownership, exceptions, CSRs and the protocol of the graduation list; renaming and the protocol of the free list; operands | checked by TLAPS, about ten minutes |
| `TestbenchProofs` | theorem about the write path of `Testbench` | checked by TLAPS |
| `MC_*` | instances for TLC | `MC_Backend` has the VIEW, `MC_BackendLive` the clock and its fairness, `MC_Testbench` the address segments; in `MC_Lists` and `MC_Parts` a behaviour picks one of several parts that share no state |

A step of the core's modules is a clock cycle. A component's signals are operators
with the inputs of the cycle as parameters (`ReadEnable`, `Empty`, `Full`,
`Older`), and each branch of its clocked block is an action (`RollBack`,
`Recover`, `Advance`; `FlushCommit`, `Flush`, `Advance`). In `Backend` one
action, `Cycle`, is the conjunction of the next states of all stages, as in the
RTL; `Step` chooses its inputs: the head of the instruction queue, whether the
unit of EXE is busy, which long operations end, which of them fails, the
outcome of the branch in EXE, whether the store at the head is accepted,
whether the CSRs answer with an exception, whether an interrupt or front-end
exception enters with the instruction in RR. The names are those of the RTL
where TLA+ permits (`flush_rr`, `commit_2_blocked`, `exception_enable_d`).

Kinds of instruction: `ALU` (one cycle), `BR` (branch or JALR, one cycle, takes a checkpoint),
`LONG` (load, multiplication, division, FP, SIMD: any number of cycles),
`STORE` (finished for commit when inserted, executed at commit), `CSR` (any
instruction with `stall_csr_fence`, alone in the pipeline, executed at commit).

### What `Backend` leaves out

- Values: an operand is the physical register it names and whether it is ready.
  One source operand stands for two; a second one adds no new kind of wait.
- The FP and SIMD register files: three copies of the same free list and rename
  table driven by the same control signals. What differs, their unconnected
  `empty_o`, is what `FullBeforeEmpty` is about.
- AMOs (a store that also writes a register), WFI (`csr_stall` freezes every
  stage) and vector instructions of length 0 (finished when inserted).
- The debug state machine and debug register access.
- The instruction queue: any instruction, or none, is at its head, except that
  nothing follows a CSR instruction until it has left the pipeline (the rule of
  `csr_fence_in_pipeline`, which stops fetch); `fence` is kept from the moment
  the instruction leaves the queue.
- The front end's exceptions are attached in RR, where the interrupt is: an
  instruction that enters the graduation list with an exception is not sent to
  EXE, and its checkpoint, if it is a branch, stays until the roll-back.
- The cycle in which a store's exception reaches the head (`exception_mem_commit`)
  is the one in which the memory unit reports it.

## Runs

The passing runs reach their whole state space, each in less than four
minutes with two workers. The last three are violations, each with a finding.

| run | instance | checks |
|---|---|---|
| `lists` | free list: ring of 2, 4 checkpoints; graduation list: ring of 5; request queue of 4, 5 tags, 6 loads (114,000 states) | `PointersAgree`, `VersionsAgree`; `GlTypeOK`, `Occupancy`, `RecordOldest`, `ExceptionAtHead`; `QueueInv`, `TransactionsExact`, `LoadsComplete` |
| `backend` | 3 entries, 3 checkpoints, 2 registers; BR, LONG, STORE, CSR with an operand, and every exception | `RegistersConserved`, `RenameExact`, `OldestException`, `OperandsExact`, `VersionsTogether`, `ControlInv`, `GraduationListProtocol` |
| `backend_speculation` | 4 entries, 3 checkpoints, 2 registers; BR, LONG, memory exceptions | `CheckpointsExact`, `ResultsOwnTheirEntry`, `FreeListProtocol` |
| `backend_live` | 3 entries, 2 checkpoints, 2 registers; BR, LONG, STORE, CSR with an operand, front-end and memory exceptions | `HeadRetires` |
| `lsq` | queue of 2, store buffer of 3, 3 instructions, a memory and an I/O address | `QueueInv`, `LoadsSeeOlderStores`, `StoresFinal`, `Drains` |
| `testbench` | 2 transactions of 8 kinds with every write policy to a cached, an uncached and a failing line, one entry each in write buffer and flush controller (3.6 million states) | `NoFalseAlarm`, `ReferencesAgree`, `BenchInv` |
| `testbench_faults` | 3 loads and stores with 2 ids, fifos and write buffer of 1; the cache loses answers, swaps or repeats one (0.9 million states) | `FlitsKept`, `FaultsReported`, `Terminates` |
| `testbench_writeback` | 3 loads and stores on two lines, write-back, write-through or by default, with evictions (3.6 million states) | `ReferencesAgree` |
| `parts` | 3 transactions with 3 ids; 3 ways, 2 sets, 6 lines; all atomics on words of 2 x 2 bits; 3 JTAG commands in each of 2 sessions; 3 commits; 3 starts, 3 saves; 2 ELF segments, a store, a host call (0.7 million states) | `StimulusInv`; `DirectoryInv`, `RefinesLineSet`; `AmoExact`; `BitbangInv`, `CommandsServed`; `LogExact`; `ResumeExact`; `MemoryInv` |
| `testbench_uninit` | as `testbench`, one word, the reservation of the scoreboard uninitialised | `SingleAtomic`: violated |
| `log_flags` | the log of `parts`, alone | `FlagsTaken`: violated |
| `resumed_checkpoint` | the checkpoints of `parts`, alone | `OldestOverwritten`: violated |

An invariant named `...Inv` is the conjunction of the named parts above it in
its module, each with its own comment: `ControlInv` of the types, `CsrAlone`,
`NoCircularWait` and `FullBeforeEmpty`, for example.

What the runs of the core show:

- The assertions that `datapath.sv` 734-740 has commented out hold
  (`VersionsTogether`), the comment at 1379 that CSR instructions never share
  write port 0 holds (`CsrAlone`), and so does the one in `exe_stage.sv` that a
  memory exception is older than a branch exception of the same cycle
  (`OldestException`, `GraduationListProtocol`).
- The free lists whose `empty_o` is unconnected never run empty before the
  graduation list stops rename (`FullBeforeEmpty`).
- The decision chains of the load/store queue agree, also when a load bypasses
  the empty queue; a load waits for every older store to its address that is
  still in the buffer. A store is sent while the one before it has yet to
  retire. If that one turns out to have failed its translation, the store behind
  it has already reached the cache and is flushed: the exception is known a cycle
  after the second store is sent (`load_store_queue.sv` 245-275, `mem_unit.sv`
  365-374 and 1071). `StoresFinal` says that this is the only way a store that was
  sent is undone, and `StoresAreFinal` proves it.
- Three entries of slack in the pending request queue are enough for the two
  cycles its full flag is late, with a cache that takes requests withdrawn by a
  flush; a tag is never in flight twice, however late the answers to flushed
  loads are.

What the runs of the testbench show: a correct cache is never reported, in any
order of the threads, with errors, reservations, atomics, dirty lines, evictions
and flushes; the reference RAM agrees with the dirty line or else the memory, and
a clean line with the memory; each of the
three faults of a cache is reported by the end of the test, and the test ends.
The directory implements `LineSet`, although `inval` compares tags without
valid bits: no way below a valid one keeps its tag.

### Findings

`testbench_uninit`: `lrsc_buf_m` of the scoreboard has no initial value
(`hpdcache_test_scoreboard.h`:333). If the memory it is allocated in looks like
a valid reservation, the first SC is announced to the memory side, the cache
fails it at once without sending it, and the next atomic makes two entries
where the code's own check says there is a single one (:961, :973). The other
runs take the reservation as zeroed.

`log_flags`: the comment in `dpi_commit_log.cpp` 206-209 says that changes of
`fflags` left in the list "will be deleted once that instruction performs the
dump". That holds of the changes that floating-point instructions report. A CSR
instruction that writes `fflags` reports them as well (`csr_bsc.sv` 2015), its line
does not take them (`fflags_wr_valid`, :113), and they stay until a later
floating-point instruction prints them before its own. `LogExact` holds all the
same: the flags printed last on a line are those in force.

`resumed_checkpoint`: `src/README.md`:91 says that the simulation "saves the last 2
checkpoints" and "overwrites the oldest one when creating a third one".
`checkpointFile1` is part of the model that is saved and is toggled behind the save
(`sim_top.sv` 553-567), so the model in a file names that file: a resumed
simulation first overwrites the file it came from, and a crash in that save may
leave none. `CheckpointSurvives` (in `ResumeExact`) states what does hold: from the
first save that a process completes, one file is always complete.

Observed while modelling, with no run of their own:

- `remote_bitbang.cc`:142 says a read without data is tried again in the next
  call; the loop around it tries again in the same call, so a client that stays
  connected and silent holds the simulation. `CommandsServed` is stated for a
  server that keeps trying.
- `quit` is never cleared, so after one `Q` every later client is closed after
  its first command and the rest of what it sent is discarded (:221). `CommandsServed`
  promises only the first command then.
- The constructor of the PLRU directory admits one way, for which replacement
  finds no way after the first access (`generic_cache_directory_plru.h`:122).
  `DirectoryCorrect` takes two ways or more as a hypothesis.
- `hpc_config.mk` has 16 entries in the write buffer and 8 in the flush controller,
  more than the 16 flits the fifos of the memory model hold: the hypothesis of
  `WritesArriveWhole` fails there. `default_config.mk` meets it.

## Bounds

Core. In the RTL the graduation list and the free list have 32 entries each,
and there are 4 checkpoints. In the model they share `NUM_ENTRIES` too: 31
instructions in the graduation list and one in RR use the 32 registers exactly,
which is the case `FullBeforeEmpty` turns on. Three checkpoints are the fewest
with which an instruction can follow an unresolved branch (with two,
`out_of_checkpoints` stops rename right behind it). Four entries are the fewest
that hold an older instruction, a branch and a younger one together, which
`backend_speculation` has. `backend_live` has two checkpoints, so that rename stops
behind every branch until it resolves. Two architectural registers give x0 and one renamed
register, so that every write is to the same register; the free list shrinks with
each instruction in flight that has a destination, and operands wait for the
long operation before them. It never empties before the graduation list is full,
which is `FullBeforeEmpty`. `Sources` bounds which
registers are read: only x0, which means no operand, in `backend_speculation`,
whose properties are not about operands. The number of cycles is not bounded.

The load/store queue of two entries wraps with three instructions, and the third
entry of the store buffer is the one its early full flag keeps free. The
pending request queue of four entries is the smallest with one usable entry,
its full flag being three early; five tags and six loads make the first tag
come round again while late answers are out.

Testbench. Two transactions are the fewest that can be in the wrong order;
every pair of kinds, lines and answers occurs, with every order of the
threads. A word has two granules of one bit: masks, merges and partial writes
happen, and the values of a store and of the memory differ. With three
transactions and two ids, in `testbench_faults`, lost answers use up the ids and
the sequence is cut off by `max_cycles`. Three transactions on two lines, in
`testbench_writeback`, are the fewest that make a line dirty, replace it and ask for
it again while its flush is under way. `ErrorLimit` is the
number of scoreboard errors that stops the simulation. In `parts` there are more ids
than objects in the pool, so that objects are refilled while ids are in use;
six lines in sets of three ways make every set overflow; granules of two bits
distinguish the sign from the carry.

Simulator. Two sessions show state that outlives a connection; three commits
hold a double commit with changes before, between and behind; three starts
and three saves let each file be overwritten after a resume; segments start and
end at every offset in a word, within one word and across several.
`MaxCommands`, `MaxCommits`, `MaxCycles`, `MaxSaves`, `MaxStarts`, `MaxStores`,
`MaxCalls` and `MaxLength` are these bounds.

VIEW (`MC_Backend`). Physical registers are interchangeable: the RTL moves and
compares them and never computes with them, except that p0 is never freed.
`View` names a register by its place (distance from tail in the ring, or
architectural register in the committed map) and leaves out dead entries and
dead versions, which are overwritten before they are read. It does so only for
states in which each register has one place and the head pointers are where the
counters say; any other state is kept as it is, so a violation of
`RegistersConserved` is not hidden. No property depends on names or on dead
entries. `backend_live` adds the clock and the busy unit
to it (`LiveView`): states that differ in names have the same steps, and neither the
fairness nor `HeadRetires` reads a name. SYMMETRY: transaction ids of the
testbench are interchangeable; the run with a liveness property does not use it.

## Fairness

- `backend_live`: the clock runs; the unit EXE needs is not busy for ever
  (`ready_div_unit`, `stall_mem` and the like are released by results leaving
  the units); an operation inside a unit ends and the store at the head of the
  graduation list is accepted (`Answerable`), which is what the memory system
  owes the core. Nothing is assumed of the pipeline itself: its stalls and
  flushes are a function of the state.
- `lsq`: the clock runs, a translation is answered and the cache accepts in the end
  (the page table walker fills the TLB, the cache's replay table drains),
  operations in the units end, commit retires what has finished.
- `lists`: the clock of the request queue runs, and the cache answers every request it has taken.
- `testbench_faults`: SystemC runs every thread that can run. The faults and
  the evictions of the cache owe nothing.
- `parts`: the server is called in every tick, and may still fail with an error
  of the socket at any time; the client owes nothing, except that `CommandsServed` is about the commands it has sent.

## Proofs

Each module of proofs extends the module it is about. Every theorem is about
`Spec` and holds for every value of the constants that the module's ASSUME
admits; the sizes in the RTL are powers of two, which no proof needs, since
truncation to a register of m values is arithmetic modulo m.

`FreeListProofs`: for every ring size and number of checkpoints of at
least 2, `Inv` (types, `VersionsAgree`, `PointersAgree`, `OlderHasMore`)
is inductive. `PointersAgree` alone is not: a checkpoint copies head and count
into the next version, which must be dead for this to be harmless
(`VersionsAgree`), and a freed register raises the counts of all live versions,
which stay within the ring only because the oldest has the most
(`OlderHasMore`) and the client returns no more than it gave out (`Returnable`).

`GraduationListProofs` first proves `OlderIsAge`: the three-case comparison
written three times in the RTL is the comparison of distances from head. With
it, `IInv` (`GlTypeOK`, `Occupancy`, `RecordOldest`) is inductive for every size
of at least 3. `RecordOldest` needs `Occupancy` (a new entry is younger than
all live ones) and the client's rule that a result fails only after EXE has
reported it. `ExceptionAtHead`, what commit relies on, follows from it.

Both are proved of the component under a client that keeps a protocol (`Next`, `GlNext`).
That the back end is such a client is proved too (`FreeListClient`,
`GraduationListClient`), so the results hold of the lists inside the core. For
the graduation list the cycles around a recovery at commit are left out of the
protocol: the first retires the failing instruction, the second empties the list.

`BackendProofs`. A step of `Next` is first put into the form `Clock(...)`: inputs
that satisfy `Inputs`, and `Cycle`. The invariant has three layers, each of
which uses the one before.

- `IInv`: types, and outside the cycle of a roll-back `Pipe`: the list is
  occupied from head on (`Occupied`); what is in the units, in EXE and in WB
  owns its entry (`Owners`), alone (`OneOwner`); EXE holds the youngest entry and
  a mispredicted branch is the youngest but for it (`InOrderIssue`). Types are not
  inductive alone: what commit sends to the free list is a register only
  because a live entry holds an instruction. Ownership needs the order: a flush
  behind a branch spares the entries of what survives because nothing younger
  than the branch is in the units. Retirement spares them because they have not
  finished, except a store, which the memory unit lets go in the same cycle.
  `EntriesOwned` is `ResultsOwnTheirEntry`.
- `RInv`: the exception record names the oldest of `Failing`. A write-back with
  an exception marks the entry a cycle after the record has it, so `Failing` counts
  the results in WB. `OldestExceptionTaken` is `OldestException`.
- `FInv`: a CSR instruction in flight is the youngest and the fence is up.
  `CsrCommitsAlone` is `CsrAlone`.

`CheckpointsTogether` (`VersionsTogether`) needs none of them: the two counters
see the same signals.

The second part of `BackendProofs`. The invariant `NInv` has two parts. `Conserved`: every physical
register is in the ring or in the committed map, in one place (`Distinct`), and p0
is the mapping of x0 only. `Renaming(c, m, b)`, outside the cycle of a roll-back, for some c, m and b:

- `Order`: the instructions in flight are a chain. c[k] counts the registers given
  to the k oldest, m[k] is the map behind them, from m[0], the committed map;
  each instruction has the register at tail + c[k] in the ring, and the old
  register of m[k]. The chain also states what follows by induction along it
  (counts grow by at most one per instruction, a map entry changes only where
  its register is written), so that no proof needs an induction over places.
- `Versions`: version v was taken behind the first b[v] instructions: its count,
  pointer and map are those behind them; older versions have smaller places.
  Every version but the current one is guarded: its branch has not
  resolved, or an instruction before the place has failed. This is what no
  property says and the proof turns on: `delete_checkpoint` always drops the
  oldest version, whichever branch resolved. Branches resolve in order, unless
  one entered the list with an exception and never executes. Then its version
  is dropped in place of a later branch's, which stays without a branch; but the
  failed instruction is before its place, so nothing retires past that place,
  and the counts of the version stay right, until the roll-back removes it.
- `Branches`: every unresolved branch has its version.

A cycle retires `read` instructions, keeps the first `last` (all, or those up to
the mispredicted branch) and brings at most one: `ChainShift`, `MarksRecover`
and `MarksAdvance` say that chain and versions shift with them, `CommitAfter` that
what the commit ports do to ring and map is one swap per instruction, which
conserves registers. `RegistersNeverLost`, `RenamingExact`,
`CheckpointsAreExact` and `ListFullBeforeEmpty` follow from the invariant;
for the properties that count (`Given`) or take the last writer (`MapAfter`), by a
least counterexample. `FreeListClient` follows with `GuardStays`: what a version was
taken behind has not left, so no more registers come back than it has given out.
`RegistersHeldOnce` is `Distinct`.

The third part: the invariant `OInv` rests on `NInv` and is about operands. `Driven`: every
entry of the list that has not finished has its instruction in EXE, in a unit
or in WB, so something will finish it. `Operands`: in every live
version of the ready table, and for the sources held in RR and EXE, a register is
missing exactly while its producer is under way or has failed (`Heard`), and RR
and EXE read the register that the map behind their predecessors has. The property
alone, which is about RR and EXE, is not inductive: a recovery brings back the
ready bits of an old version, which are right only because every version, and not
only the current one, hears every write-back. That a write-back wakes nobody else
is `Distinct` along the chain: no two instructions in flight have the same
destination register, and a register is given out again only when its last reader
cannot be in RR or EXE. `OperandsAreExact` is `OperandsExact`. With `Driven` it
gives `NobodyWaitsForItself`: when no unit works and nothing is written back, the
unfinished head is in EXE, its producers have all retired, and so it has its operands.
`ControlKept` joins the parts of `ControlInv`.

`LoadStoreQueueProofs`: `QueueInv`, `LoadsSeeOlderStores` and `StoresFinal` for every size of
queue and buffer and every program, with the bypass and with translations that fail. The
invariant adds that ring and buffer are each in program order with the buffer older
(`RingEntries`, `BufferEntries`), that each memory instruction is held or sent, once
(`Accounts`), that stores have reported and loads report only after they leave
(`Reports`), and that a store that was sent is older than all that is held, with
nothing up to it that can still fail but the store right before it
(`SentStores`): this is why the window that opens on the second instruction
undoes no more than that one store. A load bypasses only an empty ring and an empty
buffer, so all older stores have left.

`PendingMemReqProofs`: `QueueInv` and `TransactionsExact` for every queue of at
least four entries. The invariant counts the load in register S1 and the late full
flag against the entries that `Full` keeps back (`Occupancy`), and says of each
entry that it waits for its own request, which is in flight, or has that
answer and no tag any more (`Entries`).

`TbLibraryProofs` has two parts.

- `DirectorySafe` (types, no stale tag below a valid way, the way used last stays
  marked) and the refinement of `LineSet` for every number of ways; that replacement
  finds a way (`DirectoryCorrect`) for two ways or more, a hypothesis of the
  theorem.
- `StimulusIsSound`: `StimulusInv` for any number of transactions, ids and objects.
  The invariant `StimulusIInv` says how far sequence and driver are apart
  (`Stage`): the sequence is at most one object ahead of the copy, and while a
  copy is still to be made its object is the last of the pool or not in it, so with
  another object free it is not the next to be filled (`Pool`). Hypothesis: two
  objects or more; the constructor's default is 10 (`trans_bundle_sz`), and with a
  single object the copy could be of the next request.

`TestbenchProofs`: `WritesArriveWhole` is `FlitsKept` and `FlitsPaired` for every size
and every behaviour of `Testbench`, the scoreboard and a faulty cache included. The
invariant `WritesInv` lays the write path out as one line: the answer on the wires,
the answers queued, the write being executed, the fifos, and the flits on the
wires are, in this order, the writes under way of write buffer and flush controller,
in the order in which the arbiters let them go, and
addresses and data each reach as far as the marks of its entries say (`Path`, `Buffer`);
during an uncached access the line is its own write or empty. Hence the answers come
in the order of the entries, so `WriteAcknowledged` removes the oldest, and no more
flits are on their way than the two have entries. Hypotheses (`SizesFit`): write
buffer and flush controller together have no more entries than the fifos are deep
(8 and 4 in `default_config.mk`, and an `sc_fifo` made without a size holds 16),
and the id of the uncached unit is none of theirs; `NoneApart`: the mark of nothing
is no record. A flush is one flit of data, as in every configuration of the bench
that enables write-back (lines and memory data of 512 bits).

`SimulatorProofs` has four parts that share nothing.

- `ResumeIsExact`: `ResumeExact` for every number of starts, saves and cycles. The
  invariant adds that a save happens past the reset (`PastReset`), that what a complete
  file holds can be resumed from (`FilesSound`), and that once a process has completed
  a save, the file that is not its next one is complete (`TakeTurns`).
- `BitbangIsExact`: `BitbangInv` for every number of commands and connections and
  whatever the TAP shows. The invariant adds `Lockstep`: between two ticks the pins
  are those of the commands executed, inside one the TAP has been looked at under
  these pins, and the histories are not begun anew under a client that is served.
- `LogIsExact`: `LogExact` for any number of commits and whichever CSRs are written,
  `fflags` included. The invariant is that between two cycles the list holds nothing
  but changes of `fflags` and the stream is open; each of the
  cycles (one instruction, an exception, two instructions) restores it, which is
  where the second of two floating-point instructions needs `last_fflags`. A change
  left in the list comes before the current one, so a line still ends with the
  flags in force.
- `MemoryIsExact`: `MemoryInv` for every size of memory and of a line and any number
  of stores and calls. `WriteBlock` is the lemma about `write_block`: every byte
  of the block is written and no byte before it; behind its end anything may
  happen. Hence `Ahead` in the invariant: nothing is defined at or behind a header
  that is still to be loaded. Hypothesis: the headers of the file ascend, do not overlap
  and lie in memory (`Headers`), as linkers write them and as the instance has them.

Only checked by TLC, besides liveness:

- The rest of the testbench (`NoFalseAlarm`, `ReferencesAgree`, `FaultsReported`, and of
  `BenchInv` all but `FlitsPaired`). What the scoreboard predicts is a function of the
  order in which requests and memory traffic reached it; an inductive invariant
  has to relate its tables, the cache and the memory to a history of
  transactions, word by word.
- `AmoExact`: the atomics are computations on words of a few bits, enumerated whole.
- Liveness (`HeadRetires`, `Drains`, `LoadsComplete`, `Terminates`,
  `CommandsServed`) is out of the prover's reach, and with it what the fairness
  conditions owe.

## Plan

1. Done: free list, rename table, graduation list, their composition; load/store
   queue and pending requests; the testbench of the data cache with its library;
   the simulator's models. Proofs of the safety of the two lists, of the back
   end's renaming, operands, ownership, exceptions and control, of the memory
   queues, of the directory, of the stimulus side, of the write path of the
   testbench and of all four parts of the simulator.
2. Proofs next: the rest of `BenchInv`, as the first layer of an invariant for
   `NoFalseAlarm`.
3. Modules next: the instruction queue with the fetch side of the CSR fence,
   composed with `Backend` to replace `QueueHead`; the debug state machine
   against RR and the queue; the page table walker and TLB against flushes; the
   icache interface (kill against refill).

## Not modelled

- Core: arithmetic (ALU, multiplier, divider, FPU, SIMD), decoder tables and CSR
  contents are functions without a protocol. Score boards, fetch, predictor,
  debug, MMU and icache are left to the plan; `Backend` and `LoadStoreQueue`
  let what they decide happen in any cycle. In `LoadStoreQueue`: vector
  elements. In `PendingMemReq`: stores and atomics on the fly,
  the vector merge.
- HPDCache: the prefetcher, pipeline timing, the replacement policies (any victim
  is possible), the merging of stores inside an entry of the write buffer, and the
  data arrays.
- Testbench: the `HPDCACHE_OPENPITON` invalidations, aborted requests (no
  sequence sets the bit), the directory check that is compiled out, the random
  delays (any delay is possible), messages, the miss counters compared in the
  destructor, `generic_cache_data.h`, which nothing uses.
- Simulator: the TAP and debug transport module (`bsc-dm/rtl`), of which
  `RemoteBitbang` assumes nothing; the Konata trace and the layout of log lines are output only; the
  rename checker is compiled with `CHECK_RENAME`, which no build file defines;
  `commit_log_dump_amo_write` has no live caller; the exit code of `tohost`;
  `svdpi.h` and `elf.h` are standard headers.
- Vendored cells and their ECC tests, AXI and OpenPiton adapters, tile wiring,
  FPGA files and scripts.
