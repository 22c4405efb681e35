------------------------------ MODULE Stimulus ------------------------------
(***************************************************************************)
(* The stimulus side of the HPDcache testbench on its own: the sequence    *)
(* and the driver of TestSequence, a cache that accepts at any time, and a *)
(* scoreboard that may be slow to take its copies and gives ids back in    *)
(* any order.                                                              *)
(***************************************************************************)
EXTENDS TestSequence

VARIABLES sent,     \* what was on the wires when the cache accepted it
          progress  \* ids the scoreboard has seen and not given back

harness == <<sent, progress>>
stimulusVars == <<stimVars, harness>>

InitStimulus == InitStim /\ sb_core_req = <<>> /\ sent = None /\ progress = {}

Stimulate == NextStim /\ UNCHANGED harness
Accept == request_accepted /\ sent' = core_req /\ UNCHANGED progress
Finish == finish /\ UNCHANGED harness

Take ==
    /\ sb_core_req # <<>>
    /\ sb_core_req' = Tail(sb_core_req)
    /\ progress' = progress \union {Head(sb_core_req).tid}
    /\ UNCHANGED <<ids, seqVars, drvVars, sent>>

GiveBack ==
    /\ \E t \in progress :
         /\ progress' = progress \ {t}
         /\ ids' = ids \ {t}
    /\ UNCHANGED <<seqVars, drvVars, sb_core_req, sent>>

NextStimulus == Stimulate \/ Accept \/ Take \/ GiveBack \/ Finish

StimulusSpec == InitStimulus /\ [][NextStimulus]_stimulusVars
-----------------------------------------------------------------------------
\* The driver acknowledges a transaction before the scoreboard's fifo takes its
\* copy, and the write of the copy may block: the object must not be filled
\* anew before the copy is made, or the scoreboard would check a request that
\* was never driven.
CopyIntact ==
    drv # None /\ drv.obj # Null =>
        object[drv.obj] = IF drv.acked THEN sent ELSE core_req

\* The ids on their way: in the fifo to the driver, in the driver, in the fifo to
\* the scoreboard; those in the scoreboard are progress.
Pending == {i \in DOMAIN transaction_fifo : transaction_fifo[i] # Null}
Waiting == {object[transaction_fifo[i]].tid : i \in Pending}
Driving == IF drv # None /\ drv.obj # Null THEN {object[drv.obj].tid} ELSE {}
Copied == {sb_core_req[i].tid : i \in DOMAIN sb_core_req}

\* Every id in use belongs to one transaction on its way and no two share one:
\* the ids of the fifo to the driver, the driver, the scoreboard's fifo and the
\* scoreboard are the ids allocated, each in one place.
IdsConserved ==
    /\ ids = Waiting \union Driving \union Copied \union progress
    /\ Waiting \intersect (Driving \union Copied \union progress) = {}
    /\ Driving \intersect (Copied \union progress) = {}
    /\ Copied \intersect progress = {}
    /\ \A i, j \in DOMAIN sb_core_req : sb_core_req[i].tid = sb_core_req[j].tid => i = j
    /\ \A i, j \in Pending :
          object[transaction_fifo[i]].tid = object[transaction_fifo[j]].tid => i = j

\* The stimulus side: the copy for the scoreboard is the request that was driven,
\* and the ids in use are the ids on their way.
StimulusInv == CopyIntact /\ IdsConserved
=============================================================================
