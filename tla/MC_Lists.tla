------------------------------ MODULE MC_Lists ------------------------------
(***************************************************************************)
(* The free list, the graduation list and the pending memory request queue, *)
(* each alone and driven by every client that keeps its protocol: a        *)
(* behaviour picks one of them and the others stay as they are after reset. *)
(***************************************************************************)
EXTENDS FreeList, GraduationList, PendingMemReq

VARIABLE list       \* "free", "graduation" or "pending"

lists_vars == <<list, vars, gl_vars, pmr_vars>>

ListsInit == list \in {"free", "graduation", "pending"} /\ Init /\ GlInit /\ PmrInit

ListsNext ==
    \/ list = "free" /\ Next /\ UNCHANGED <<list, gl_vars, pmr_vars>>
    \/ list = "graduation" /\ GlNext /\ UNCHANGED <<list, vars, pmr_vars>>
    \/ list = "pending" /\ PmrNext /\ UNCHANGED <<list, vars, gl_vars>>

\* The clock of the queue runs, and the cache answers every request.
ListsSpec ==
    /\ ListsInit /\ [][ListsNext]_lists_vars
    /\ WF_lists_vars(list = "pending" /\ Clock /\ UNCHANGED <<list, vars, gl_vars>>)
    /\ Served
=============================================================================
