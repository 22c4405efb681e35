---------------------------- MODULE MC_Backend ----------------------------
(***************************************************************************)
(* The back end for TLC.  The names of physical registers and the place of *)
(* tail in the ring do not matter: only where a register lies, at which    *)
(* distance from tail or under which architectural register in the         *)
(* committed map.  View writes a state with registers named by their       *)
(* place, and leaves out what the next write overwrites before anything    *)
(* reads it: dead graduation list entries and dead versions.  States in    *)
(* which a register has no place or two, or a read pointer is not where    *)
(* its counter says, are never identified with others.                     *)
(***************************************************************************)
EXTENDS Backend

\* Registers named by their place: 0 .. NUM_ENTRIES-1 from tail, then the map.
Place(p) ==
    IF \E j \in FL!Entry : fl_ring[FL!Ptr(fl_tail + j)] = p
    THEN CHOOSE j \in FL!Entry : fl_ring[FL!Ptr(fl_tail + j)] = p
    ELSE NUM_ENTRIES + CHOOSE r \in Reg : rt_commit[r] = p

Canonical ==
    /\ RegistersConserved
    /\ rt_commit[0] = 0
    /\ \A v \in FL!Ckpt : FL!Live(v) => FL!Ptr(fl_head[v] + fl_num[v]) = fl_tail

View ==
    IF ~Canonical THEN vars
    ELSE LET place == [p \in FL!Phys |-> Place(p)]
             instr(i) == IF i = None THEN i
                         ELSE [i EXCEPT !.prd = place[@], !.old = place[@], !.prs = place[@]]
             entry(i) ==
                 IF ~Live(i) THEN <<>>
                 ELSE <<[gl_entries[i].data EXCEPT !.prd = place[@], !.old = place[@]],
                        gl_entries[i].ex, gl_valid[i]>>
             version(v) ==
                 IF ~FL!Live(v) THEN <<>>
                 ELSE <<fl_num[v], [r \in Reg |-> <<place[rt_map[r][v]], rt_ready[r][v]>>]>>
         IN <<[v \in FL!Ckpt |-> version(v)], fl_vh, fl_vt, fl_ck, rt_vh, rt_vt, rt_ck,
              gl_head, gl_tail, gl_num, [i \in Index |-> entry(i)], gl_ex,
              instr(rr), instr(exe), {instr(u) : u \in units},
              {[w EXCEPT !.prd = place[@]] : w \in wb}, xq, cq, fence>>
=============================================================================
