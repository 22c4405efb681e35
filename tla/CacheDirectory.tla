--------------------------- MODULE CacheDirectory ---------------------------
(***************************************************************************)
(* The cache directory of the verification library with its pseudo-LRU     *)
(* replacement: GenericCacheDirectoryBase and GenericCacheDirectoryPlru.   *)
(* A line number is an address divided by the bytes of a line; its set is  *)
(* the remainder by the number of sets and its tag the quotient.           *)
(***************************************************************************)
EXTENDS Naturals, FiniteSets

CONSTANTS NWays, NSets,
          Lines         \* the lines that are accessed

ASSUME DirectoryAssumption ==
    /\ NWays \in Nat \ {0} /\ NSets \in Nat \ {0}   \* the sc_asserts of the constructor
    /\ Lines \subseteq Nat

VARIABLES val,      \* val_m, by set and way
          tag,      \* tag_m
          plru,     \* plru_m
          last      \* history: the way of every set that was used last, NWays for none

dirVars == <<val, tag, plru, last>>

Ways == 0 .. (NWays - 1)
Sets == 0 .. (NSets - 1)

\* getAddrSet, getAddrTag
SetOf(l) == l % NSets
TagOf(l) == l \div NSets

HitWays(l) == {w \in Ways : val[SetOf(l)][w] /\ tag[SetOf(l)][w] = TagOf(l)}
Hit(l) == HitWays(l) # {}

\* The loops of the code run upwards and stop at the first match.
Lowest(S) == CHOOSE w \in S : \A v \in S : w <= v

InitDirectory ==
    /\ val = [s \in Sets |-> [w \in Ways |-> FALSE]]
    /\ tag = [s \in Sets |-> [w \in Ways |-> 0]]
    /\ plru = [s \in Sets |-> [w \in Ways |-> FALSE]]
    /\ last = [s \in Sets |-> NWays]

\* replUpdate: mark the way; when all are marked, unmark all the others.
Marked(p, w) ==
    LET q == [p EXCEPT ![w] = TRUE]
    IN  IF \A v \in Ways : q[v] THEN [v \in Ways |-> v = w] ELSE q

replUpdate(w, s) ==
    /\ plru' = [plru EXCEPT ![s] = Marked(plru[s], w)]
    /\ last' = [last EXCEPT ![s] = w]

\* access: a hit marks its way, unless the caller asks not to.
access(l, update_repl_flags) ==
    /\ IF Hit(l) /\ update_repl_flags
       THEN replUpdate(Lowest(HitWays(l)), SetOf(l))
       ELSE UNCHANGED <<plru, last>>
    /\ UNCHANGED <<val, tag>>

EmptyWays(s) == {w \in Ways : ~val[s][w]}
UnmarkedWays(s) == {w \in Ways : ~plru[s][w]}

Highest(S) == CHOOSE w \in S : \A v \in S : w >= v

\* Mutant: the last empty way is taken.
VictimLast(s) == IF EmptyWays(s) # {} THEN Highest(EmptyWays(s)) ELSE Lowest(UnmarkedWays(s))

\* The way repl takes: the first empty one, or the first unmarked one.
Victim(s) == Lowest(IF EmptyWays(s) # {} THEN EmptyWays(s) ELSE UnmarkedWays(s))

\* repl, for a line that missed.  Without an empty and an unmarked way the
\* assertion of the code fails, and nothing is replaced.
repl(l) ==
    LET s == SetOf(l)
        w == Victim(s)
    IN  /\ ~Hit(l)
        /\ EmptyWays(s) \union UnmarkedWays(s) # {}
        /\ val' = [val EXCEPT ![s][w] = TRUE]
        /\ tag' = [tag EXCEPT ![s][w] = TagOf(l)]
        /\ replUpdate(w, s)

\* inval(way, set)
inval_way(w, s) ==
    /\ val' = [val EXCEPT ![s][w] = FALSE]
    /\ UNCHANGED <<tag, plru, last>>

\* inval(addr): the first way with the tag, whether it is valid or not.
TagWays(l) == {w \in Ways : tag[SetOf(l)][w] = TagOf(l)}

InvalWay(l) == Lowest(TagWays(l))

inval_line(l) ==
    /\ val' = IF TagWays(l) # {}
              THEN [val EXCEPT ![SetOf(l)][InvalWay(l)] = FALSE]
              ELSE val
    /\ UNCHANGED <<tag, plru, last>>

\* Mutant: the loop over the sets stops one short.
resetShort ==
    LET done == 0 .. (NSets - 2)
    IN  /\ val' = [s \in Sets |-> [w \in Ways |-> s \notin done /\ val[s][w]]]
        /\ tag' = [s \in Sets |-> IF s \in done THEN [w \in Ways |-> 0] ELSE tag[s]]
        /\ plru' = [s \in Sets |-> [w \in Ways |-> s \notin done /\ plru[s][w]]]
        /\ last' = [s \in Sets |-> IF s \in done THEN NWays ELSE last[s]]

reset ==
    /\ val' = [s \in Sets |-> [w \in Ways |-> FALSE]]
    /\ tag' = [s \in Sets |-> [w \in Ways |-> 0]]
    /\ plru' = [s \in Sets |-> [w \in Ways |-> FALSE]]
    /\ last' = [s \in Sets |-> NWays]

NextDirectory ==
    \/ \E l \in Lines : \/ \E update \in BOOLEAN : access(l, update)
                        \/ repl(l)
                        \/ inval_line(l)
    \/ \E w \in Ways, s \in Sets : inval_way(w, s)
    \/ reset

DirectorySpec == InitDirectory /\ [][NextDirectory]_dirVars
-----------------------------------------------------------------------------
\* Every set keeps one valid bit, one tag and one mark for each of its ways.
DirectoryTypeOK ==
    /\ val \in [Sets -> [Ways -> BOOLEAN]]
    /\ tag \in [Sets -> [Ways -> Nat]]
    /\ plru \in [Sets -> [Ways -> BOOLEAN]]
    /\ last \in [Sets -> Ways \union {NWays}]

\* inval(addr) compares tags without looking at the valid bits, so an invalid
\* way that still has the tag could hide the valid one from it.  It cannot: no
\* way below a valid one keeps its tag, because repl fills from below.  So a
\* line is in the directory once, and hit finds it where inval does.
NoTagBelow ==
    \A s \in Sets : \A v, w \in Ways :
        val[s][w] /\ v < w => tag[s][v] # tag[s][w]

\* repl always finds a way ("error: all plru bits are set" never happens): a
\* set of two or more ways keeps an unmarked one through every replUpdate.
VictimExists ==
    \A s \in Sets : EmptyWays(s) = {} => UnmarkedWays(s) # {}

\* The way used last stays marked, so a full set never gives up the line that
\* was used last.
LastKept ==
    \A s \in Sets : last[s] # NWays => plru[s][last[s]]

\* The directory implements a set of lines.
Abs == INSTANCE LineSet WITH present <- {l \in Lines : Hit(l)}
RefinesLineSet == Abs!Spec

\* The directory as the invalidation and the replacement need it: typed, no
\* stale tag below a valid one, a way to replace, the last one used protected.
DirectoryInv == DirectoryTypeOK /\ NoTagBelow /\ VictimExists /\ LastKept
=============================================================================
