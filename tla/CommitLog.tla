----------------------------- MODULE CommitLog -----------------------------
(***************************************************************************)
(* The commit log of the simulator (dpi_commit_log.cpp): a line for every  *)
(* instruction that commits, compared later with the log of an instruction *)
(* set simulator.  The CSR file reports its changes at the falling edge of *)
(* the clock (csr_change), the datapath the one or two instructions of the *)
(* cycle at the rising edge (commit_log), so the log has to work out which *)
(* change belongs to which line.  Registers, memory accesses and the       *)
(* disassembly on a line are copies of the inputs and are left out.        *)
(***************************************************************************)
EXTENDS Naturals, Sequences

CONSTANTS Flags,        \* floating-point exception flags
          Csrs,         \* registers that CSR instructions write
          MaxCommits,   \* bound: instructions that commit
          Garbage       \* what last_fflags holds before it is assigned

VARIABLES csr_changes,  \* reported and not yet logged: the values of fflags, and the other
                        \* changes as <<register, value>>; no loop mixes the two
          last_fflags,
          stream,       \* signatureFile: "open", "closed" or "failed"
          lines,        \* the lines of the file
          shown,        \* the changes on these lines, fflags left out
          fflags,       \* the fflags field of the core
          truth,        \* history: what committed, with the flags then in force
          made          \* history: the changes to log, fflags left out

logVars == <<csr_changes, last_fflags, stream, lines, shown, fflags, truth, made>>

\* Instructions: fp sets a nonempty set of flags (fflags_wr_valid); csr writes
\* a register; csr_trap is refused by the CSR file; trap and ecall are
\* exceptions that were found earlier.
Plain == [kind |-> "plain"]
Fp(f) == [kind |-> "fp", flags |-> f]
Csr(a, v) == [kind |-> "csr", addr |-> a, value |-> v]
Trap(k) == [kind |-> k]

Flagged(i) == i.kind = "fp"

NoChange == [fflags |-> <<>>, others |-> <<>>]

InitLog ==
    /\ csr_changes = NoChange /\ last_fflags = Garbage
    /\ stream = "open" /\ lines = <<>> /\ shown = <<>>
    /\ fflags = {} /\ truth = <<>> /\ made = <<>>

\* The log while a cycle is logged, with what was reported in it.
State(reports) ==
    [changes |-> [fflags |-> csr_changes.fflags \o reports.fflags,
                  others |-> csr_changes.others \o reports.others],
     last |-> last_fflags, stream |-> stream, lines |-> lines, shown |-> shown]

\* std::ofstream: open fails on an open stream, which then drops its output.
Open(s) == [s EXCEPT !.stream = IF @ = "closed" THEN "open" ELSE "failed"]
Close(s) == [s EXCEPT !.stream = IF @ = "open" THEN "closed" ELSE @]
Emit(s, l, changes) ==
    IF s.stream = "open"
    THEN [s EXCEPT !.lines = Append(@, l), !.shown = @ \o changes] ELSE s

\* The loop "Print fflags" and the fallback after it.
FlagsFound(s, i) == IF Flagged(i) THEN s.changes.fflags ELSE <<>>
PrintedFlags(s, i) ==
    IF Flagged(i) /\ FlagsFound(s, i) = <<>> THEN <<s.last>> ELSE FlagsFound(s, i)

\* The loop "Print CSR changes", which ignores fflags.
PrintedCsrs(s) == s.changes.others

\* The fflags that nobody has printed.
LeftFlags(s, i) == IF Flagged(i) THEN <<>> ELSE s.changes.fflags

\* Mutant: no change is deleted.
LeftAll(s, i) == [fflags |-> LeftFlags(s, i), others |-> s.changes.others]

\* What is left for the lines after this one: fflags only.
Left(s, i) == [fflags |-> LeftFlags(s, i), others |-> <<>>]

dump_commit(s, i) ==
    LET flags == PrintedFlags(s, i)
    IN  [Emit(s, [kind |-> i.kind, flags |-> flags], PrintedCsrs(s))
         EXCEPT !.changes = Left(s, i),
                !.last = IF flags = <<>> THEN @ ELSE flags[Len(flags)]]

\* dump_xcpt appends to the file by itself: the value of tval is left out for
\* an ecall.
dump_xcpt(s, k) ==
    Close(Emit(Open(s), [kind |-> k, tval |-> k # "ecall"], <<>>))

dump_file(s, i) ==
    IF i.kind \in {"trap", "ecall"} THEN Open(dump_xcpt(Close(s), i.kind))
    ELSE IF i.kind = "csr_trap"
    THEN [Open(dump_xcpt(Close(s), i.kind)) EXCEPT !.changes = NoChange]
    ELSE dump_commit(s, i)

\* The falling edge of csr_bsc.sv: what is reported when something retires
\* without an exception.  Flags are reported as they are after the cycle.
Reports(is, status, new) ==
    LET retires == \A n \in DOMAIN is : is[n].kind \notin {"trap", "ecall"}
        written == is[1].kind = "csr"
    IN  IF ~retires THEN NoChange
        ELSE [fflags |-> IF \E n \in DOMAIN is : Flagged(is[n]) THEN <<new>>
                         ELSE IF written /\ is[1].addr = "fflags" THEN <<is[1].value>> ELSE <<>>,
              others |-> status \o IF written /\ is[1].addr # "fflags"
                                   THEN <<<<is[1].addr, is[1].value>>>> ELSE <<>>]

NewFlags(is) ==
    IF is[1].kind = "csr"
    THEN IF is[1].addr \in {"fflags", "fcsr"} THEN is[1].value ELSE fflags
    ELSE fflags \union UNION {IF Flagged(is[n]) THEN is[n].flags ELSE {} : n \in DOMAIN is}

\* One cycle in which the instructions is commit; status is the change of
\* mstatus that they cause, if any.
Commit(is, status) ==
    LET new == NewFlags(is)
        reports == Reports(is, status, new)
        first == dump_file(State(reports), is[1])
        s == IF Len(is) = 1 THEN first ELSE dump_file(first, is[2])
        refused == is[1].kind = "csr_trap"
    IN  /\ Len(truth) + Len(is) <= MaxCommits
        /\ csr_changes' = s.changes /\ last_fflags' = s.last
        /\ stream' = s.stream /\ lines' = s.lines /\ shown' = s.shown
        /\ fflags' = new
        /\ truth' = truth \o [n \in DOMAIN is |->
                        [kind |-> is[n].kind,
                         flags |-> IF Flagged(is[n]) THEN <<new>> ELSE <<>>]]
        /\ made' = made \o IF refused THEN <<>> ELSE reports.others

\* CSR instructions and exceptions commit alone (commit_2_blocked).
Pairable == {Plain} \union {Fp(f) : f \in (SUBSET Flags) \ {{}}}
Alone == {Trap("trap"), Trap("ecall"), Trap("csr_trap")}
         \union {Csr(a, v) : a \in Csrs, v \in SUBSET Flags}
Bundles == {<<i>> : i \in Pairable \union Alone} \union (Pairable \X Pairable)

Status == {<<>>, <<<<"mstatus", {}>>>>}

NextLog == \E is \in Bundles, status \in Status : Commit(is, status)

LogSpec == InitLog /\ [][NextLog]_logVars

-----------------------------------------------------------------------------
\* The state of the logger keeps its types.
LogTypeOK ==
    /\ csr_changes \in [fflags : Seq(SUBSET Flags),
                       others : Seq(({"mstatus"} \union Csrs) \X SUBSET Flags)]
    /\ last_fflags \in (SUBSET Flags) \union {Garbage}
    /\ stream \in {"open", "closed", "failed"}
    /\ fflags \in SUBSET Flags

\* Every instruction that commits has its line, in program order: no path of
\* dump_file leaves the stream in a state in which later lines are lost.
LinesComplete ==
    /\ Len(lines) = Len(truth)
    /\ \A n \in DOMAIN lines : lines[n].kind = truth[n].kind

\* The last flags on the line of a floating-point instruction that raises some
\* are those in force after its cycle, also when two of them commit together and
\* the first takes the only report, and whatever an earlier write of fflags left
\* in the list; the other lines show none.
FlagsCurrent ==
    \A n \in DOMAIN lines :
        lines[n].kind \in {"plain", "fp", "csr"} =>
            IF truth[n].flags = <<>> THEN lines[n].flags = <<>>
            ELSE lines[n].flags # <<>> /\ lines[n].flags[Len(lines[n].flags)] = truth[n].flags[1]

\* Every other change is logged once and in order, and a change that belongs to
\* a refused CSR instruction never shows up on a later line.
ChangesOnce == shown = made

\* The log tells the truth: every commit has its line, which ends with the flags
\* in force, and every other change is on one line.
LogExact == LogTypeOK /\ LinesComplete /\ FlagsCurrent /\ ChangesOnce

\* The comment on the deletion in dump_commit: fflags that stay in the list are
\* those of the next instruction of the same cycle and "will be deleted once that
\* instruction performs the dump", so none outlives its cycle.  A CSR instruction
\* that writes fflags reports them too, and nobody deletes those.
FlagsTaken == csr_changes.fflags = <<>>
=============================================================================
