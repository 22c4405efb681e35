-------------------------- MODULE MC_BackendLive ---------------------------
(***************************************************************************)
(* The back end with its clock, for liveness.  busyq remembers whether the *)
(* unit that EXE needed was busy in the last cycle.                        *)
(***************************************************************************)
EXTENDS MC_Backend

VARIABLES clk, busyq

\* The clock never stops, no unit is busy for ever, and the world answers.
Fairness ==
    /\ []<>(clk = 0) /\ []<>(clk = 1)
    /\ []<>~busyq
    /\ \A i \in Index : []<>~Answerable(i)

Tick == \E busy \in MayBeBusy : Step(busy) /\ clk' = 1 - clk /\ busyq' = busy

FairSpec ==
    /\ Init /\ clk = 0 /\ busyq = FALSE
    /\ [][Tick]_<<vars, clk, busyq>>
    /\ Fairness

\* States that differ in the names of physical registers are one: they have the
\* same steps, and neither Fairness nor HeadRetires reads a name.
LiveView == <<View, clk, busyq>>
=============================================================================
