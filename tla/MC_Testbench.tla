---------------------------- MODULE MC_Testbench ----------------------------
EXTENDS Testbench, TLC

TidSymmetry == Permutations(Tids)

W(a, b) == [i \in Granule |-> IF i = 0 THEN a ELSE b]

Segment(base, length, uncached, amo_supported, wr_policy) ==
    [base |-> base, length |-> length, uncached |-> uncached, amo_supported |-> amo_supported,
     wr_policy |-> wr_policy]

\* Two cacheable words.
PlainSegs == {Segment(0, 4, FALSE, FALSE, "AUTO")}
\* One word that supports atomics.
AtomicSegs == {Segment(0, 2, FALSE, TRUE, "AUTO")}
\* Half of a word, so that all accesses are alike.
HalfSegs == {Segment(0, 1, FALSE, TRUE, "AUTO")}
\* Half of a word in each of two lines.
BackSegs == {Segment(0, 1, FALSE, FALSE, "RANDOM"), Segment(2, 1, FALSE, FALSE, "AUTO")}
\* A word of a cacheable line, a word of a line that answers errors, and a word
\* of an uncached line.
MixedSegs == {Segment(0, 2, FALSE, TRUE, "RANDOM"), Segment(4, 2, FALSE, TRUE, "WB"),
              Segment(8, 1, TRUE, TRUE, "AUTO")}

NoErrors == <<>>
\* The second line of two words answers errors.
SecondFails == <<[base |-> 4, end |-> 8, error |-> TRUE]>>

OneData == {W(0, 1)}
TwoData == {W(0, 1), W(1, 0)}

Zeroed == {[valid |-> FALSE, base |-> 0]}
Anything == {[valid |-> v, base |-> 0] : v \in BOOLEAN}
=============================================================================
