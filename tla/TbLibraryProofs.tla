-------------------------- MODULE TbLibraryProofs --------------------------
(***************************************************************************)
(* Proofs about two parts of the HPDcache testbench, each for every value  *)
(* of its constants: the cache directory, which implements a set of lines, *)
(* and the stimulus side, which keeps objects and ids apart.               *)
(***************************************************************************)
EXTENDS Stimulus, CacheDirectory, FiniteSetTheorems, WellFoundedInduction, TLAPS

\* The cache directory.

\* A set and a tag name one line: getAddrSet and getAddrTag lose nothing.
LEMMA SameLine ==
    ASSUME NEW l \in Nat, NEW m \in Nat, SetOf(l) = SetOf(m), TagOf(l) = TagOf(m)
    PROVE  l = m
<1>1. l = NSets * (l \div NSets) + (l % NSets)
    BY DirectoryAssumption
<1>2. m = NSets * (m \div NSets) + (m % NSets)
    BY DirectoryAssumption
<1> QED BY <1>1, <1>2 DEF SetOf, TagOf

\* Every line has a set of the directory and a tag.
LEMMA LineType ==
    ASSUME NEW l \in Lines
    PROVE  l \in Nat /\ SetOf(l) \in Sets /\ TagOf(l) \in Nat
BY DirectoryAssumption DEF SetOf, TagOf, Sets

\* The loops upwards stop at the lowest way that matches, if one does.
LEMMA LowestIsFirst ==
    ASSUME NEW S \in SUBSET Ways, S # {}
    PROVE  Lowest(S) \in S /\ \A v \in S : Lowest(S) <= v
<1> DEFINE R == {ss \in Nat \X Nat : ss[1] < ss[2]}
<1>1. IsWellFoundedOn(R, Nat)
    BY NatLessThanWellFounded, Zenon DEF OpToRel
<1>2. S \subseteq Nat
    BY DirectoryAssumption DEF Ways
<1>3. PICK w \in S : \A v \in S : <<v, w>> \notin R
    BY <1>1, <1>2, WFMin, Zenon
<1>4. ASSUME NEW v \in S PROVE w <= v
  <2>1. v \in Nat /\ w \in Nat
      BY <1>2
  <2>2. v < w => <<v, w>> \in R
      BY <2>1
  <2> QED BY <1>3, <2>1, <2>2
<1> QED BY <1>4 DEF Lowest
-----------------------------------------------------------------------------
(* The inductive invariant.  VictimExists looks at full sets only, but a set *)
(* fills way by way: that it has an unmarked way is kept from the start.     *)
(* What is valid was brought in by repl, so its tag is that of a line.       *)
SomeUnmarked == \A s \in Sets : UnmarkedWays(s) # {}

Inhabited == \A s \in Sets : \A w \in Ways :
    val[s][w] => \E l \in Lines : SetOf(l) = s /\ TagOf(l) = tag[s][w]

IInv == DirectoryTypeOK /\ NoTagBelow /\ LastKept /\ Inhabited

LEMMA InitInv == InitDirectory => IInv
<1> SUFFICES ASSUME InitDirectory PROVE IInv
    OBVIOUS
<1> USE DirectoryAssumption DEF InitDirectory, Ways, Sets
<1>1. DirectoryTypeOK
    BY DEF DirectoryTypeOK
<1>2. NoTagBelow
    BY DEF NoTagBelow
<1>3. LastKept
    BY DEF LastKept
<1>4. Inhabited
    BY DEF Inhabited
<1> QED BY <1>1, <1>2, <1>3, <1>4 DEF IInv

\* replUpdate marks the way it is given and keeps the marks a set of flags.
LEMMA MarkedType ==
    ASSUME NEW p \in [Ways -> BOOLEAN], NEW w \in Ways
    PROVE  Marked(p, w) \in [Ways -> BOOLEAN] /\ Marked(p, w)[w]
BY DEF Marked

\* replUpdate keeps the marks typed and the way used last marked.
LEMMA ReplUpdateInv ==
    ASSUME DirectoryTypeOK, LastKept, NEW s \in Sets, NEW w \in Ways, replUpdate(w, s)
    PROVE  /\ plru' \in [Sets -> [Ways -> BOOLEAN]]
           /\ last' \in [Sets -> Ways \union {NWays}]
           /\ LastKept'
<1>1. Marked(plru[s], w) \in [Ways -> BOOLEAN] /\ Marked(plru[s], w)[w]
    BY MarkedType DEF DirectoryTypeOK
<1>2. plru' \in [Sets -> [Ways -> BOOLEAN]] /\ last' \in [Sets -> Ways \union {NWays}]
    BY <1>1 DEF DirectoryTypeOK, replUpdate
<1>3. LastKept'
    BY <1>1 DEF LastKept, replUpdate, DirectoryTypeOK
<1> QED BY <1>2, <1>3

LEMMA AccessInv ==
    ASSUME IInv, NEW l \in Lines, NEW update \in BOOLEAN, access(l, update)
    PROVE  IInv'
<1> USE DEF IInv
<1>1. SetOf(l) \in Sets
    BY LineType
<1>2. Hit(l) => Lowest(HitWays(l)) \in Ways
    BY LowestIsFirst DEF Hit, HitWays
<1>3. DirectoryTypeOK' /\ LastKept'
  <2>1. CASE Hit(l) /\ update
      BY <1>1, <1>2, <2>1, ReplUpdateInv DEF access, DirectoryTypeOK
  <2>2. CASE ~(Hit(l) /\ update)
      BY <2>2 DEF access, DirectoryTypeOK, LastKept
  <2> QED BY <2>1, <2>2
<1>4. NoTagBelow' /\ Inhabited'
    BY DEF access, NoTagBelow, Inhabited
<1> QED BY <1>3, <1>4

\* The way repl takes: every way below it is valid with another tag.
LEMMA VictimType ==
    ASSUME NEW s \in Sets, EmptyWays(s) \union UnmarkedWays(s) # {}
    PROVE  /\ Victim(s) \in Ways
           /\ \A v \in Ways : v < Victim(s) => val[s][v]
           /\ EmptyWays(s) = {} => ~plru[s][Victim(s)]
           /\ val[s][Victim(s)] => EmptyWays(s) = {}
<1>1. CASE EmptyWays(s) # {}
  <2>1. Victim(s) \in EmptyWays(s) /\ \A v \in EmptyWays(s) : Victim(s) <= v
      BY <1>1, LowestIsFirst DEF Victim, EmptyWays
  <2> QED BY <1>1, <2>1, DirectoryAssumption DEF EmptyWays, Ways
<1>2. CASE EmptyWays(s) = {}
  <2>1. Victim(s) \in UnmarkedWays(s)
      BY <1>2, LowestIsFirst DEF Victim, UnmarkedWays
  <2> QED BY <1>2, <2>1 DEF EmptyWays, UnmarkedWays
<1> QED BY <1>1, <1>2

LEMMA ReplInv == ASSUME IInv, NEW l \in Lines, repl(l) PROVE IInv'
<1> DEFINE s == SetOf(l)
           w == Victim(s)
<1> USE DEF IInv
<1>1. s \in Sets /\ TagOf(l) \in Nat
    BY LineType
<1>2. w \in Ways /\ \A v \in Ways : v < w => val[s][v]
    BY <1>1, VictimType DEF repl
<1>3. /\ val' = [val EXCEPT ![s][w] = TRUE]
      /\ tag' = [tag EXCEPT ![s][w] = TagOf(l)]
      /\ replUpdate(w, s)
    BY DEF repl
<1>4. \A v \in Ways : val[s][v] => tag[s][v] # TagOf(l)
    BY DEF repl, Hit, HitWays
<1> HIDE DEF s, w
<1>5. DirectoryTypeOK' /\ LastKept'
    BY <1>1, <1>2, <1>3, ReplUpdateInv DEF DirectoryTypeOK
<1>6. NoTagBelow'
  <2> SUFFICES ASSUME NEW r \in Sets, NEW v \in Ways, NEW x \in Ways, val'[r][x], v < x
               PROVE  tag'[r][v] # tag'[r][x]
      BY DEF NoTagBelow
  <2>1. CASE r # s
      BY <2>1, <1>1, <1>3 DEF NoTagBelow, DirectoryTypeOK
  <2>2. CASE r = s /\ x = w
      BY <2>2, <1>1, <1>2, <1>3, <1>4, DirectoryAssumption DEF DirectoryTypeOK, Ways
  <2>3. CASE r = s /\ x # w
    <3>1. val[s][x] /\ tag'[s][x] = tag[s][x]
        BY <2>3, <1>1, <1>2, <1>3 DEF DirectoryTypeOK
    <3> QED BY <3>1, <2>3, <1>1, <1>2, <1>3, <1>4 DEF NoTagBelow, DirectoryTypeOK
  <2> QED BY <2>1, <2>2, <2>3
<1>7. Inhabited'
  <2> SUFFICES ASSUME NEW r \in Sets, NEW x \in Ways, val'[r][x]
               PROVE  \E m \in Lines : SetOf(m) = r /\ TagOf(m) = tag'[r][x]
      BY DEF Inhabited
  <2>1. CASE r = s /\ x = w
      BY <2>1, <1>1, <1>2, <1>3 DEF DirectoryTypeOK, s
  <2>2. CASE ~(r = s /\ x = w)
      BY <2>2, <1>1, <1>2, <1>3 DEF DirectoryTypeOK, Inhabited
  <2> QED BY <2>1, <2>2
<1> QED BY <1>5, <1>6, <1>7

\* Taking valid bits away keeps the invariant.
LEMMA FewerValid ==
    ASSUME IInv, NEW s \in Sets, NEW w \in Ways,
           val' = [val EXCEPT ![s][w] = FALSE], UNCHANGED <<tag, plru, last>>
    PROVE  IInv'
<1>1. DirectoryTypeOK' /\ LastKept'
    BY DEF IInv, DirectoryTypeOK, LastKept
<1>2. \A r \in Sets : \A v \in Ways : val'[r][v] => val[r][v]
    BY DEF IInv, DirectoryTypeOK
<1> QED BY <1>1, <1>2 DEF IInv, NoTagBelow, Inhabited

LEMMA NextInv == IInv /\ [NextDirectory]_dirVars => IInv'
<1> SUFFICES ASSUME IInv, [NextDirectory]_dirVars PROVE IInv'
    OBVIOUS
<1>1. ASSUME NEW l \in Lines, NEW update \in BOOLEAN, access(l, update) PROVE IInv'
    BY <1>1, AccessInv
<1>2. ASSUME NEW l \in Lines, repl(l) PROVE IInv'
    BY <1>2, ReplInv
<1>3. ASSUME NEW l \in Lines, inval_line(l) PROVE IInv'
  <2>1. CASE TagWays(l) # {}
    <3>1. InvalWay(l) \in Ways /\ SetOf(l) \in Sets
        BY <2>1, LineType, LowestIsFirst DEF InvalWay, TagWays
    <3> QED BY <1>3, <2>1, <3>1, FewerValid DEF inval_line
  <2>2. CASE TagWays(l) = {}
      BY <1>3, <2>2 DEF inval_line, IInv, DirectoryTypeOK, NoTagBelow, LastKept, Inhabited
  <2> QED BY <2>1, <2>2
<1>4. ASSUME NEW w \in Ways, NEW s \in Sets, inval_way(w, s) PROVE IInv'
    BY <1>4, FewerValid DEF inval_way
<1>5. CASE reset
  <2>1. InitDirectory'
      BY <1>5 DEF reset, InitDirectory
  <2> QED BY <1>5, DirectoryAssumption
          DEF reset, IInv, DirectoryTypeOK, NoTagBelow, LastKept, Inhabited, Ways, Sets
<1>6. CASE UNCHANGED dirVars
    BY <1>6 DEF dirVars, IInv, DirectoryTypeOK, NoTagBelow, LastKept, Inhabited
<1> QED BY <1>1, <1>2, <1>3, <1>4, <1>5, <1>6 DEF NextDirectory

\* A set of two or more ways keeps an unmarked way through replUpdate.
LEMMA MarkedLeavesOne ==
    ASSUME NWays >= 2, NEW p \in [Ways -> BOOLEAN], NEW w \in Ways
    PROVE  \E v \in Ways : ~Marked(p, w)[v]
<1> DEFINE q == [p EXCEPT ![w] = TRUE]
<1>1. CASE \A v \in Ways : q[v]
  <2>1. PICK v \in Ways : v # w
      BY DirectoryAssumption DEF Ways
  <2> QED BY <1>1, <2>1 DEF Marked
<1>2. CASE ~\A v \in Ways : q[v]
    BY <1>2 DEF Marked
<1> QED BY <1>1, <1>2

LEMMA NextUnmarked ==
    ASSUME NWays >= 2, IInv, SomeUnmarked, [NextDirectory]_dirVars
    PROVE  SomeUnmarked'
<1>1. ASSUME NEW s \in Sets, NEW w \in Ways, replUpdate(w, s) PROVE SomeUnmarked'
  <2> SUFFICES ASSUME NEW r \in Sets PROVE \E v \in Ways : ~plru'[r][v]
      BY DEF SomeUnmarked, UnmarkedWays
  <2>1. CASE r = s
    <3>1. plru'[r] = Marked(plru[s], w)
        BY <1>1, <2>1 DEF replUpdate, IInv, DirectoryTypeOK
    <3>2. plru[s] \in [Ways -> BOOLEAN]
        BY DEF IInv, DirectoryTypeOK
    <3> QED BY <3>1, <3>2, MarkedLeavesOne
  <2>2. CASE r # s
      BY <1>1, <2>2 DEF replUpdate, SomeUnmarked, UnmarkedWays, IInv, DirectoryTypeOK
  <2> QED BY <2>1, <2>2
<1>2. CASE UNCHANGED plru
    BY <1>2 DEF SomeUnmarked, UnmarkedWays
<1>3. CASE reset
  <2>1. 0 \in Ways
      BY DirectoryAssumption DEF Ways
  <2> QED BY <1>3, <2>1 DEF reset, SomeUnmarked, UnmarkedWays
<1>4. ASSUME NEW l \in Lines, NEW update \in BOOLEAN, access(l, update) PROVE SomeUnmarked'
  <2>1. Hit(l) => Lowest(HitWays(l)) \in Ways
      BY LowestIsFirst DEF Hit, HitWays
  <2> QED BY <1>1, <1>2, <1>4, <2>1, LineType DEF access
<1>5. ASSUME NEW l \in Lines, repl(l) PROVE SomeUnmarked'
    BY <1>1, <1>5, LineType, VictimType DEF repl
<1> QED BY <1>2, <1>3, <1>4, <1>5 DEF NextDirectory, inval_line, inval_way, dirVars

\* No set of the directory holds a line twice, no invalid way hides a valid
\* one from inval(addr), and the way used last stays marked, for every number
\* of sets and ways, a single one included.
THEOREM DirectorySafe == DirectorySpec => [](DirectoryTypeOK /\ NoTagBelow /\ LastKept)
<1>1. IInv => DirectoryTypeOK /\ NoTagBelow /\ LastKept
    BY DEF IInv
<1> QED BY <1>1, InitInv, NextInv, PTL DEF DirectorySpec

\* With two ways or more repl finds a way to replace, so the whole of
\* DirectoryInv holds: the code's "error: all plru bits are set" is not reached.
THEOREM DirectoryCorrect == NWays >= 2 => (DirectorySpec => []DirectoryInv)
<1> SUFFICES ASSUME NWays >= 2 PROVE DirectorySpec => []DirectoryInv
    OBVIOUS
<1>1. InitDirectory => IInv /\ SomeUnmarked
  <2>1. 0 \in Ways
      BY DirectoryAssumption DEF Ways
  <2>2. InitDirectory => SomeUnmarked
      BY <2>1 DEF InitDirectory, SomeUnmarked, UnmarkedWays
  <2> QED BY <2>2, InitInv
<1>2. IInv /\ SomeUnmarked /\ [NextDirectory]_dirVars => (IInv /\ SomeUnmarked)'
    BY NextInv, NextUnmarked
<1>3. IInv /\ SomeUnmarked => DirectoryInv
    BY DEF IInv, SomeUnmarked, DirectoryInv, VictimExists
<1> QED BY <1>1, <1>2, <1>3, PTL DEF DirectorySpec
-----------------------------------------------------------------------------
(* The refinement: the lines that hit are the set LineSet describes.        *)

Present == {l \in Lines : Hit(l)}

\* A valid tag is in one way of its set.
LEMMA OneWay ==
    ASSUME IInv, NEW s \in Sets, NEW v \in Ways, NEW w \in Ways,
           val[s][v], val[s][w], tag[s][v] = tag[s][w]
    PROVE  v = w
<1>1. ~(v < w) /\ ~(w < v)
    BY DEF IInv, NoTagBelow
<1> QED BY <1>1, DirectoryAssumption DEF Ways

\* When no way is empty there are as many lines present in the set as ways.
LEMMA FullSet ==
    ASSUME IInv, NEW l \in Lines, EmptyWays(SetOf(l)) = {}
    PROVE  Cardinality(Abs!Mates(l)) = NWays
<1> DEFINE s == SetOf(l)
           Same == {m \in Present : SetOf(m) = s}
           Of(w) == CHOOSE m \in Lines : SetOf(m) = s /\ TagOf(m) = tag[s][w]
           f == [w \in Ways |-> Of(w)]
<1>1. s \in Sets
    BY LineType
<1>2. \A w \in Ways : val[s][w]
    BY DEF EmptyWays
<1>3. \A w \in Ways : Of(w) \in Lines /\ SetOf(Of(w)) = s /\ TagOf(Of(w)) = tag[s][w]
    BY <1>1, <1>2 DEF IInv, Inhabited
<1>4. \A w \in Ways : Of(w) \in Same
    BY <1>2, <1>3 DEF Present, Hit, HitWays
<1> HIDE DEF Of
<1>5. ASSUME NEW m \in Same PROVE \E w \in Ways : Of(w) = m
  <2>1. PICK w \in Ways : tag[s][w] = TagOf(m) /\ SetOf(m) = s /\ m \in Lines
      BY DEF Present, Hit, HitWays
  <2> QED BY <2>1, <1>3, SameLine, LineType
<1>6. \A v, w \in Ways : Of(v) = Of(w) => v = w
    BY <1>1, <1>2, <1>3, OneWay
<1>7. f \in [Ways -> Same]
    BY <1>4
<1>8. f \in Bijection(Ways, Same)
    BY <1>5, <1>6, <1>7 DEF Bijection, Injection, IsInjective, Surjection
<1>9. IsFiniteSet(Ways) /\ Cardinality(Ways) = NWays
    BY FS_Interval, DirectoryAssumption DEF Ways
<1>10. Cardinality(Same) = NWays
    BY <1>8, <1>9, FS_Bijection DEF ExistsBijection
<1>11. Abs!Mates(l) = Same
    BY DEF Abs!Mates, Present, SetOf
<1> QED BY <1>10, <1>11

\* Clearing one valid bit takes away its line, and clearing an invalid one
\* takes away nothing.
LEMMA ClearWay ==
    ASSUME IInv, NEW s \in Sets, NEW w \in Ways,
           val' = [val EXCEPT ![s][w] = FALSE], UNCHANGED tag
    PROVE  Present' = Present \ {l \in Lines : SetOf(l) = s /\ val[s][w] /\ tag[s][w] = TagOf(l)}
<1> DEFINE Gone == {l \in Lines : SetOf(l) = s /\ val[s][w] /\ tag[s][w] = TagOf(l)}
<1> SUFFICES ASSUME NEW l \in Lines PROVE Hit(l)' <=> Hit(l) /\ l \notin Gone
    BY DEF Present
<1>1. SetOf(l) \in Sets
    BY LineType
<1>2. \A r \in Sets : \A x \in Ways : val'[r][x] <=> val[r][x] /\ ~(r = s /\ x = w)
    BY DEF IInv, DirectoryTypeOK
<1>3. Hit(l)' <=> \E x \in Ways : /\ val[SetOf(l)][x] /\ tag[SetOf(l)][x] = TagOf(l)
                                  /\ ~(SetOf(l) = s /\ x = w)
    BY <1>1, <1>2 DEF Hit, HitWays
<1>4. Hit(l) <=> \E x \in Ways : val[SetOf(l)][x] /\ tag[SetOf(l)][x] = TagOf(l)
    BY DEF Hit, HitWays
<1>5. CASE l \in Gone
    BY <1>1, <1>3, <1>5, OneWay
<1>6. CASE l \notin Gone
    BY <1>3, <1>4, <1>6
<1> QED BY <1>5, <1>6

\* LineSet counts with the same Cardinality.
LEMMA SameCardinality == \A S : Abs!Cardinality(S) = Cardinality(S)
BY Zenon DEF Abs!Cardinality, Cardinality

\* repl brings its line in; when the set was full it takes one mate away.
LEMMA ReplBrings == ASSUME IInv, NEW l \in Lines, repl(l) PROVE Abs!Bring(l)
<1> DEFINE s == SetOf(l)
           w == Victim(s)
<1>1. s \in Sets /\ l \in Nat
    BY LineType
<1>2. w \in Ways /\ (val[s][w] => EmptyWays(s) = {})
    BY <1>1, VictimType DEF repl
<1>3. /\ val' = [val EXCEPT ![s][w] = TRUE]
      /\ tag' = [tag EXCEPT ![s][w] = TagOf(l)]
      /\ l \notin Present
    BY DEF repl, Present
<1> HIDE DEF w
<1>4. /\ \A r \in Sets : \A x \in Ways : val'[r][x] <=> val[r][x] \/ (r = s /\ x = w)
      /\ \A r \in Sets : \A x \in Ways :
            tag'[r][x] = IF r = s /\ x = w THEN TagOf(l) ELSE tag[r][x]
    BY <1>1, <1>2, <1>3 DEF IInv, DirectoryTypeOK
<1>5. Hit(l)'
    BY <1>1, <1>2, <1>4 DEF Hit, HitWays
<1>6. ASSUME NEW m \in Lines, m # l
      PROVE  Hit(m)' <=> \E x \in Ways : /\ val[SetOf(m)][x] /\ tag[SetOf(m)][x] = TagOf(m)
                                         /\ ~(SetOf(m) = s /\ x = w)
  <2>1. m \in Nat /\ SetOf(m) \in Sets
      BY LineType
  <2>2. SetOf(m) = s => TagOf(m) # TagOf(l)
      BY <1>1, <1>6, <2>1, SameLine
  <2> QED BY <1>4, <2>1, <2>2 DEF Hit, HitWays
<1>7. \A m \in Lines : Hit(m) <=>
         \E x \in Ways : val[SetOf(m)][x] /\ tag[SetOf(m)][x] = TagOf(m)
    BY DEF Hit, HitWays
<1>8. CASE ~val[s][w]
  <2>1. Present' = Present \union {l}
      BY <1>5, <1>6, <1>7, <1>8 DEF Present
  <2> QED BY <1>3, <2>1 DEF Abs!Bring, Present
<1>9. CASE val[s][w]
  <2>1. PICK v \in Lines : SetOf(v) = s /\ TagOf(v) = tag[s][w]
      BY <1>1, <1>2, <1>9 DEF IInv, Inhabited
  <2>2. v \in Abs!Mates(l)
      BY <1>2, <1>7, <1>9, <2>1 DEF Abs!Mates, SetOf
  <2>3. Cardinality(Abs!Mates(l)) = NWays
      BY <1>2, <1>9, FullSet
  <2>4. v # l
      BY <1>2, <1>3, <1>7, <1>9, <2>1 DEF Present
  <2>5. ~Hit(v)'
      BY <1>1, <1>2, <1>6, <1>9, <2>1, <2>4, OneWay
  <2>6. ASSUME NEW m \in Lines, m # l, m # v PROVE Hit(m)' <=> Hit(m)
    <3>1. m \in Nat /\ v \in Nat
        BY LineType
    <3>2. ~(SetOf(m) = s /\ TagOf(m) = tag[s][w])
        BY <2>1, <2>6, <3>1, SameLine
    <3> QED BY <1>6, <1>7, <2>6, <3>2
  <2>7. Present' = (Present \ {v}) \union {l}
      BY <1>5, <2>4, <2>5, <2>6 DEF Present
  <2> QED BY <1>3, <2>2, <2>3, <2>7, SameCardinality DEF Abs!Bring, Present
<1> QED BY <1>8, <1>9

\* inval(addr) removes its line, present or not: the way it finds first is the
\* valid one whenever there is one.
LEMMA InvalRemoves == ASSUME IInv, NEW l \in Lines, inval_line(l) PROVE Abs!Remove(l)
<1> DEFINE s == SetOf(l)
           w == InvalWay(l)
<1>1. s \in Sets /\ l \in Nat
    BY LineType
<1>2. Hit(l) <=> \E x \in Ways : val[s][x] /\ tag[s][x] = TagOf(l)
    BY DEF Hit, HitWays
<1>3. CASE TagWays(l) = {}
  <2>1. ~Hit(l)
      BY <1>2, <1>3 DEF TagWays
  <2>2. Present' = Present
      BY <1>3 DEF inval_line, Present, Hit, HitWays
  <2> QED BY <2>1, <2>2 DEF Abs!Remove, Present
<1>4. CASE TagWays(l) # {}
  <2>1. w \in Ways /\ tag[s][w] = TagOf(l) /\ \A v \in TagWays(l) : w <= v
      BY <1>4, LowestIsFirst DEF InvalWay, TagWays
  <2>2. val' = [val EXCEPT ![s][w] = FALSE] /\ UNCHANGED tag
      BY <1>4 DEF inval_line
  <2> HIDE DEF w
  <2>3. Present' = Present \ {m \in Lines : SetOf(m) = s /\ val[s][w] /\ tag[s][w] = TagOf(m)}
      BY <1>1, <2>1, <2>2, ClearWay
  <2>4. Hit(l) => val[s][w]
    <3>1. ASSUME NEW x \in Ways, val[s][x], tag[s][x] = TagOf(l) PROVE x = w
      <4>1. ~(w < x)
          BY <1>1, <2>1, <3>1 DEF IInv, NoTagBelow
      <4>2. w <= x
          BY <2>1, <3>1 DEF TagWays
      <4> QED BY <2>1, <4>1, <4>2, DirectoryAssumption DEF Ways
    <3> QED BY <1>2, <3>1
  <2>5. {m \in Lines : SetOf(m) = s /\ val[s][w] /\ tag[s][w] = TagOf(m)}
           = IF val[s][w] THEN {l} ELSE {}
      BY <1>1, <2>1, SameLine, LineType
  <2>6. Present' = Present \ {l}
      BY <2>3, <2>4, <2>5 DEF Present
  <2> QED BY <2>6 DEF Abs!Remove, Present
<1> QED BY <1>3, <1>4

\* inval(way, set) removes the line of the way, if it has one.
LEMMA InvalWayRemoves ==
    ASSUME IInv, NEW w \in Ways, NEW s \in Sets, inval_way(w, s)
    PROVE  (\E l \in Lines : Abs!Remove(l)) \/ Present' = Present
<1> DEFINE Gone == {m \in Lines : SetOf(m) = s /\ val[s][w] /\ tag[s][w] = TagOf(m)}
<1>1. Present' = Present \ Gone
    BY ClearWay DEF inval_way
<1>2. CASE Gone = {}
    BY <1>1, <1>2
<1>3. ASSUME NEW l \in Gone PROVE Gone = {l}
    BY SameLine, LineType
<1>4. CASE Gone # {}
  <2>1. PICK l \in Lines : Gone = {l}
      BY <1>3, <1>4
  <2> QED BY <1>1, <2>1 DEF Abs!Remove, Present
<1> QED BY <1>2, <1>4

\* Every operation of the directory is one operation on the set of lines, or
\* none: the pseudo-LRU flags, the ways and the stale tags never show.
THEOREM DirectoryRefinesLineSet == DirectorySpec => RefinesLineSet
<1>1. InitDirectory => Abs!Init
    BY LineType DEF InitDirectory, Abs!Init, Hit, HitWays
<1>2. IInv /\ [NextDirectory]_dirVars => [Abs!Next]_Present
  <2> SUFFICES ASSUME IInv, [NextDirectory]_dirVars PROVE Abs!Next \/ Present' = Present
      OBVIOUS
  <2>1. ASSUME NEW l \in Lines, NEW update \in BOOLEAN, access(l, update)
        PROVE  Present' = Present
      BY <2>1 DEF access, Present, Hit, HitWays
  <2>2. ASSUME NEW l \in Lines, repl(l) PROVE Abs!Next
      BY <2>2, ReplBrings DEF Abs!Next
  <2>3. ASSUME NEW l \in Lines, inval_line(l) PROVE Abs!Next
      BY <2>3, InvalRemoves DEF Abs!Next
  <2>4. ASSUME NEW w \in Ways, NEW s \in Sets, inval_way(w, s)
        PROVE  Abs!Next \/ Present' = Present
      BY <2>4, InvalWayRemoves DEF Abs!Next
  <2>5. CASE reset
    <3>1. Present' = {}
        BY <2>5, LineType DEF reset, Present, Hit, HitWays
    <3> QED BY <3>1 DEF Abs!Next, Abs!Clear, Present
  <2>6. CASE UNCHANGED dirVars
      BY <2>6 DEF dirVars, Present, Hit, HitWays
  <2> QED BY <2>1, <2>2, <2>3, <2>4, <2>5, <2>6 DEF NextDirectory
<1>3. [Abs!Next]_Present => [Abs!Next]_{l \in Lines : Hit(l)}
    BY DEF Present
<1> QED BY <1>1, <1>2, <1>3, InitInv, NextInv, PTL DEF DirectorySpec, RefinesLineSet, Abs!Spec
-----------------------------------------------------------------------------
\* The stimulus side.

\* What the driver holds: nothing, object o, waiting for the cache, or object o,
\* acknowledged and waiting for the scoreboard.
Holds(o) == drv = [obj |-> o, acked |-> FALSE]
Acked(o) == o \in Objects /\ drv = [obj |-> o, acked |-> TRUE] /\ object[o] = sent

\* A transaction on its way round: made, driven, acknowledged, released.  The
\* sequence is at most one object ahead of the copy, and the object that is still
\* to be copied is then the last in the pool.
Ready == /\ seq_t = None /\ transaction_fifo = <<>> /\ transaction_ret = <<>> /\ core_req = None
         /\ drv = None \/ (pool # <<>> /\ Acked(pool[Len(pool)]))
Made == /\ seq_t \in Objects /\ transaction_fifo = <<seq_t>> /\ transaction_ret = <<>> /\ core_req = None
        /\ drv = None \/ \E o \in Objects : o # seq_t /\ Acked(o)
Driven == /\ seq_t \in Objects /\ transaction_fifo = <<>> /\ transaction_ret = <<>>
          /\ Holds(seq_t) /\ core_req = object[seq_t]
Answered == /\ seq_t \in Objects /\ transaction_fifo = <<>> /\ transaction_ret = <<0>> /\ core_req = None
            /\ drv = None \/ Acked(seq_t)
Stopped == /\ seq_t = Null /\ transaction_fifo = <<Null>> /\ transaction_ret = <<>> /\ core_req = None
           /\ drv = None \/ \E o \in Objects : Acked(o)
Ended == /\ seq_t = Null /\ transaction_fifo = <<>> /\ transaction_ret = <<>> /\ core_req = None
         /\ Holds(Null)

Stage == Ready \/ Made \/ Driven \/ Answered \/ Stopped \/ Ended

\* The free objects, each once.
Pool ==
    /\ pool \in Seq(Objects)
    /\ \A i, j \in 1 .. Len(pool) : pool[i] = pool[j] => i = j
    /\ seq_t \in Objects => Len(pool) >= 1 /\ \A i \in 1 .. Len(pool) : pool[i] # seq_t
    /\ seq_t = None /\ pool # <<>> => Len(pool) >= 2

StimulusIInv ==
    /\ Stage /\ Pool /\ IdsConserved
    /\ DOMAIN object = Objects /\ \E T : sb_core_req \in Seq(T)

\* The null pointer and the mark of nothing are neither objects nor what a driver
\* holds.
LEMMA Marks ==
    /\ Null \notin Objects /\ None \notin Objects /\ None # Null /\ Objects \subseteq Nat
    /\ \A o \in Objects \union {Null}, a \in BOOLEAN : [obj |-> o, acked |-> a] # None
<1>1. /\ Objects \subseteq 0 .. Bundle /\ Objects \subseteq Nat
      /\ Null \in 0 .. Bundle /\ Null \notin Objects
    BY SequenceAssumption DEF Objects, Null
<1>2. None \notin 0 .. Bundle /\ None \notin [obj : 0 .. Bundle, acked : BOOLEAN]
    BY SequenceAssumption
<1>3. ASSUME NEW o \in Objects \union {Null}, NEW a \in BOOLEAN PROVE [obj |-> o, acked |-> a] # None
  <2>1. o \in 0 .. Bundle
      BY <1>1
  <2> QED BY <1>2, <2>1
<1> QED BY <1>1, <1>2, <1>3

\* What waits in a fifo f, and what a driver d drives, when the objects hold x.
Entries(f) == {i \in DOMAIN f : f[i] # Null}
WaitIn(f, x) == {x[f[i]].tid : i \in Entries(f)}
DrivenBy(d, x) == IF d # None /\ d.obj # Null THEN {x[d.obj].tid} ELSE {}
Alone(f, x) == \A i, j \in Entries(f) : x[f[i]].tid = x[f[j]].tid => i = j
CopiesIn(q) == {q[i].tid : i \in DOMAIN q}

\* The ids, each in one place: w, d, c and p are those of the four places.
Apart(all, w, d, c, p) ==
    /\ all = w \union d \union c \union p
    /\ w \intersect (d \union c \union p) = {}
    /\ d \intersect (c \union p) = {}
    /\ c \intersect p = {}
Injective(q) == \A i, j \in DOMAIN q : q[i].tid = q[j].tid => i = j

\* IdsConserved by places, now and after a step.
LEMMA IdsAre ==
    IdsConserved <=> /\ Apart(ids, WaitIn(transaction_fifo, object), DrivenBy(drv, object),
                              CopiesIn(sb_core_req), progress)
                     /\ Injective(sb_core_req) /\ Alone(transaction_fifo, object)
BY DEF IdsConserved, Apart, Injective, Alone, Entries, WaitIn, DrivenBy, CopiesIn, Pending,
       Waiting, Driving, Copied

LEMMA IdsAreNext ==
    IdsConserved' <=> /\ Apart(ids', WaitIn(transaction_fifo', object'), DrivenBy(drv', object'),
                               CopiesIn(sb_core_req'), progress')
                      /\ Injective(sb_core_req') /\ Alone(transaction_fifo', object')
BY DEF IdsConserved, Apart, Injective, Alone, Entries, WaitIn, DrivenBy, CopiesIn, Pending,
       Waiting, Driving, Copied

\* A fifo that holds one transaction.
LEMMA OneWaits ==
    ASSUME NEW o, o # Null, NEW x
    PROVE  WaitIn(<<o>>, x) = {x[o].tid} /\ Alone(<<o>>, x)
<1>1. Entries(<<o>>) = {1}
    BY DEF Entries
<1> QED BY <1>1 DEF WaitIn, Alone

\* Nothing waits in a fifo that is empty or ends the test.
LEMMA NoneWaits ==
    ASSUME NEW x
    PROVE  /\ WaitIn(<<>>, x) = {} /\ Alone(<<>>, x)
           /\ WaitIn(<<Null>>, x) = {} /\ Alone(<<Null>>, x)
<1>1. Entries(<<>>) = {}
    BY DEF Entries
<1>2. Entries(<<Null>>) = {}
    BY DEF Entries
<1> QED BY <1>1, <1>2 DEF WaitIn, Alone

\* What the driver drives.
LEMMA Drives ==
    ASSUME NEW x
    PROVE  /\ DrivenBy(None, x) = {}
           /\ \A o \in Objects, a \in BOOLEAN : DrivenBy([obj |-> o, acked |-> a], x) = {x[o].tid}
           /\ DrivenBy([obj |-> Null, acked |-> FALSE], x) = {}
<1>1. DrivenBy(None, x) = {}
    BY DEF DrivenBy
<1>2. ASSUME NEW o \in Objects, NEW a \in BOOLEAN
      PROVE  DrivenBy([obj |-> o, acked |-> a], x) = {x[o].tid}
  <2>1. [obj |-> o, acked |-> a] # None /\ o # Null
      BY Marks
  <2> QED BY <2>1 DEF DrivenBy
<1>3. DrivenBy([obj |-> Null, acked |-> FALSE], x) = {}
    BY DEF DrivenBy
<1> QED BY <1>1, <1>2, <1>3

\* One more copy.
LEMMA CopyJoins ==
    ASSUME NEW q, \E T : q \in Seq(T), Injective(q), NEW r, r.tid \notin CopiesIn(q),
           NEW q2, q2 = Append(q, r)
    PROVE  (\E T : q2 \in Seq(T)) /\ Injective(q2) /\ CopiesIn(q2) = CopiesIn(q) \union {r.tid}
<1>1. PICK T : q \in Seq(T)
    OBVIOUS
<1>2. q \in Seq(T \union {r})
    BY <1>1
<1>3. q2 \in Seq(T \union {r}) /\ Len(q2) = Len(q) + 1 /\ Len(q) \in Nat
      /\ q2[Len(q) + 1] = r /\ (\A i \in 1 .. Len(q) : q2[i] = q[i])
      /\ DOMAIN q2 = 1 .. Len(q) + 1 /\ DOMAIN q = 1 .. Len(q)
    BY <1>2
<1>4. \A i \in 1 .. Len(q) : q[i].tid # r.tid
    BY <1>3 DEF CopiesIn
<1>5. Injective(q2)
    BY <1>3, <1>4 DEF Injective
<1>6. CopiesIn(q2) = CopiesIn(q) \union {r.tid}
    BY <1>3 DEF CopiesIn
<1> QED BY <1>3, <1>5, <1>6

\* One copy fewer.
LEMMA CopyLeaves ==
    ASSUME NEW q, \E T : q \in Seq(T), Injective(q), q # <<>>, NEW q2, q2 = Tail(q)
    PROVE  /\ \E T : q2 \in Seq(T)
           /\ Injective(q2)
           /\ CopiesIn(q) = CopiesIn(q2) \union {Head(q).tid} /\ Head(q).tid \notin CopiesIn(q2)
<1>1. PICK T : q \in Seq(T)
    OBVIOUS
<1>2. /\ q2 \in Seq(T) /\ Len(q2) = Len(q) - 1 /\ Len(q) \in Nat /\ Len(q) >= 1
      /\ q[1] = Head(q) /\ (\A i \in 1 .. Len(q) - 1 : q2[i] = q[i + 1])
      /\ DOMAIN q2 = 1 .. Len(q) - 1 /\ DOMAIN q = 1 .. Len(q)
    BY <1>1
<1>3. Injective(q2)
    BY <1>2 DEF Injective
<1>4. Head(q).tid \notin CopiesIn(q2)
    BY <1>2 DEF Injective, CopiesIn
<1>5. ASSUME NEW t \in CopiesIn(q) PROVE t \in CopiesIn(q2) \union {Head(q).tid}
  <2>1. PICK i \in 1 .. Len(q) : t = q[i].tid
      BY <1>2 DEF CopiesIn
  <2>2. CASE i = 1
      BY <1>2, <2>1, <2>2
  <2>3. CASE i # 1
    <3>1. i - 1 \in 1 .. Len(q) - 1 /\ q2[i - 1] = q[i]
        BY <1>2, <2>3
    <3> QED BY <1>2, <2>1, <3>1 DEF CopiesIn
  <2> QED BY <2>2, <2>3
<1>6. CopiesIn(q2) \union {Head(q).tid} \subseteq CopiesIn(q)
    BY <1>2 DEF CopiesIn
<1> QED BY <1>2, <1>3, <1>4, <1>5, <1>6

\* The sequence fills the first free object, which is not the one that is still to
\* be copied: a bundle has two or more, and that one is the last.
LEMMA CreateInv ==
    ASSUME StimulusIInv, Bundle >= 2, seq_t = None, NEW r, Create(r), UNCHANGED harness
    PROVE  StimulusIInv'
<1>1. PICK h, id : /\ h = Head(Free) /\ id \in Tids \ ids /\ ids' = ids \union {id}
                   /\ object' = [object EXCEPT ![h] = Tagged(r, id)]
    BY DEF Create
<1>2. /\ seq_t' = h /\ pool' = Tail(Free) /\ transaction_fifo' = Append(transaction_fifo, h)
      /\ transaction_ret' = transaction_ret /\ drv' = drv /\ core_req' = core_req
      /\ sb_core_req' = sb_core_req /\ sent' = sent /\ progress' = progress
    BY <1>1 DEF Create, harness
<1>3. Ready
    BY Marks DEF StimulusIInv, Stage, Ready, Made, Driven, Answered, Stopped, Ended
<1>4. /\ Free \in Seq(Objects) /\ Len(Free) >= 2 /\ Len(Free) \in Nat
      /\ \A i, j \in 1 .. Len(Free) : Free[i] = Free[j] => i = j
      /\ pool # <<>> => Free = pool
  <2>1. CASE pool = <<>>
    <3>1. Free = [i \in 1 .. Bundle |-> i] /\ Bundle \in Nat
        BY <2>1, SequenceAssumption DEF Free, Objects
    <3>2. Free \in Seq(Objects) /\ Len(Free) = Bundle
        BY <3>1 DEF Objects
    <3> QED BY <2>1, <3>1, <3>2
  <2>2. CASE pool # <<>>
      BY <2>2 DEF StimulusIInv, Pool, Free
  <2> QED BY <2>1, <2>2
<1>5. /\ h = Free[1] /\ h \in Objects /\ pool' \in Seq(Objects) /\ Len(pool') = Len(Free) - 1
      /\ \A i \in 1 .. Len(Free) - 1 : pool'[i] = Free[i + 1]
    BY <1>1, <1>2, <1>4
<1>6. Pool'
  <2>1. \A i, j \in 1 .. Len(pool') : pool'[i] = pool'[j] => i = j
      BY <1>4, <1>5
  <2>2. Len(pool') >= 1 /\ \A i \in 1 .. Len(pool') : pool'[i] # h
      BY <1>4, <1>5
  <2>3. seq_t' # None
      BY <1>2, <1>5, Marks
  <2> QED BY <1>2, <1>5, <2>1, <2>2, <2>3 DEF Pool
<1>7. /\ DOMAIN object' = Objects /\ object'[h].tid = id
      /\ \A o \in Objects : o # h => object'[o] = object[o]
    BY <1>1, <1>5 DEF StimulusIInv, Tagged
<1>8. transaction_fifo' = <<h>>
    BY <1>2, <1>3 DEF Ready
<1>9. drv = None \/ \E o \in Objects : o # h /\ Acked(o)
  <2>1. SUFFICES ASSUME drv # None PROVE \E o \in Objects : o # h /\ Acked(o)
      OBVIOUS
  <2>2. pool # <<>> /\ Acked(pool[Len(pool)])
      BY <1>3, <2>1 DEF Ready
  <2>3. pool[Len(pool)] # h
      BY <1>4, <1>5, <2>2
  <2> QED BY <2>2, <2>3 DEF Acked
<1>10. drv' = None \/ \E o \in Objects : o # h /\ Acked(o)'
    BY <1>2, <1>7, <1>9 DEF Acked
<1>11. Stage'
    BY <1>2, <1>3, <1>5, <1>8, <1>10 DEF Stage, Made, Ready
<1>12. DrivenBy(drv', object') = DrivenBy(drv, object)
  <2>1. CASE drv = None
      BY <1>2, <2>1, Drives
  <2>2. CASE drv # None
    <3>1. PICK o \in Objects : o # h /\ drv = [obj |-> o, acked |-> TRUE]
        BY <1>9, <2>2 DEF Acked
    <3>2. DrivenBy(drv, object) = {object[o].tid} /\ DrivenBy(drv', object') = {object'[o].tid}
        BY <1>2, <3>1, Drives
    <3> QED BY <1>7, <3>1, <3>2
  <2> QED BY <2>1, <2>2
<1>13. WaitIn(transaction_fifo, object) = {}
    BY <1>3, NoneWaits DEF Ready
<1>14. WaitIn(transaction_fifo', object') = {id} /\ Alone(transaction_fifo', object')
  <2>1. h # Null
      BY <1>5, Marks
  <2> QED BY <1>7, <1>8, <2>1, OneWaits
<1>15. IdsConserved'
  <2>1. Apart(ids, WaitIn(transaction_fifo, object), DrivenBy(drv, object),
              CopiesIn(sb_core_req), progress) /\ Injective(sb_core_req)
      BY IdsAre DEF StimulusIInv
  <2>2. PICK d, c : d = DrivenBy(drv, object) /\ c = CopiesIn(sb_core_req)
      OBVIOUS
  <2>3. Apart(ids, {}, d, c, progress)
      BY <1>13, <2>1, <2>2
  <2>4. Apart(ids', {id}, d, c, progress)
      BY <1>1, <2>3 DEF Apart
  <2>5. CopiesIn(sb_core_req') = c /\ Injective(sb_core_req')
      BY <1>2, <2>1, <2>2
  <2> QED BY <1>2, <1>12, <1>14, <2>2, <2>4, <2>5, IdsAreNext
<1> QED BY <1>2, <1>6, <1>7, <1>11, <1>15 DEF StimulusIInv

\* The acknowledged object goes back to the pool, behind all others.
LEMMA ReleaseInv ==
    ASSUME StimulusIInv, release_transaction, UNCHANGED harness PROVE StimulusIInv'
<1>1. /\ seq_t # None /\ transaction_ret # <<>> /\ transaction_ret' = Tail(transaction_ret)
      /\ pool' = Append(pool, seq_t) /\ seq_t' = None
      /\ ids' = ids /\ object' = object /\ transaction_fifo' = transaction_fifo /\ drv' = drv
      /\ core_req' = core_req /\ sb_core_req' = sb_core_req /\ sent' = sent /\ progress' = progress
    BY DEF release_transaction, harness
<1>2. Answered
    BY <1>1 DEF StimulusIInv, Stage, Ready, Made, Driven, Answered, Stopped, Ended
<1>3. /\ seq_t \in Objects /\ pool \in Seq(Objects) /\ Len(pool) >= 1 /\ Len(pool) \in Nat
      /\ \A i \in 1 .. Len(pool) : pool[i] # seq_t
      /\ \A i, j \in 1 .. Len(pool) : pool[i] = pool[j] => i = j
    BY <1>2 DEF StimulusIInv, Pool, Answered
<1>4. /\ pool' \in Seq(Objects) /\ Len(pool') = Len(pool) + 1 /\ pool'[Len(pool) + 1] = seq_t
      /\ \A i \in 1 .. Len(pool) : pool'[i] = pool[i]
    BY <1>1, <1>3
<1>5. Pool'
  <2>1. \A i, j \in 1 .. Len(pool') : pool'[i] = pool'[j] => i = j
      BY <1>3, <1>4
  <2>2. seq_t' \notin Objects
      BY <1>1, Marks
  <2> QED BY <1>3, <1>4, <2>1, <2>2 DEF Pool
<1>6. Ready'
  <2>1. transaction_ret' = <<>>
      BY <1>1, <1>2 DEF Answered
  <2>2. drv' = None \/ (pool' # <<>> /\ Acked(pool[Len(pool)])')
    <3>1. pool' # <<>>
        BY <1>3, <1>4
    <3>2. pool'[Len(pool')] = seq_t
        BY <1>4
    <3>3. drv = None \/ Acked(seq_t)
        BY <1>2 DEF Answered
    <3> QED BY <1>1, <3>1, <3>2, <3>3 DEF Acked
  <2> QED BY <1>1, <1>2, <2>1, <2>2 DEF Ready, Answered
<1>7. IdsConserved'
    BY <1>1, IdsAre, IdsAreNext DEF StimulusIInv
<1> QED BY <1>1, <1>5, <1>6, <1>7 DEF StimulusIInv, Stage

\* The sequence ends with a null transaction.
LEMMA StopInv ==
    ASSUME StimulusIInv, stop, UNCHANGED harness PROVE StimulusIInv'
<1>1. /\ seq_t = None /\ transaction_fifo' = Append(transaction_fifo, Null) /\ seq_t' = Null
      /\ ids' = ids /\ object' = object /\ transaction_ret' = transaction_ret /\ drv' = drv
      /\ core_req' = core_req /\ sb_core_req' = sb_core_req /\ pool' = pool
      /\ sent' = sent /\ progress' = progress
    BY DEF stop, harness
<1>2. Ready
    BY <1>1, Marks DEF StimulusIInv, Stage, Ready, Made, Driven, Answered, Stopped, Ended
<1>3. transaction_fifo = <<>> /\ transaction_fifo' = <<Null>>
    BY <1>1, <1>2 DEF Ready
<1>4. drv = None \/ \E o \in Objects : Acked(o)
    BY <1>2 DEF Ready, Acked
<1>5. Stopped'
    BY <1>1, <1>2, <1>3, <1>4 DEF Ready, Stopped, Acked
<1>6. Pool'
    BY <1>1, Marks DEF StimulusIInv, Pool
<1>7. IdsConserved'
  <2>1. /\ WaitIn(transaction_fifo', object') = WaitIn(transaction_fifo, object)
        /\ Alone(transaction_fifo', object')
      BY <1>3, NoneWaits
  <2> QED BY <1>1, <2>1, IdsAre, IdsAreNext DEF StimulusIInv
<1> QED BY <1>1, <1>5, <1>6, <1>7 DEF StimulusIInv, Stage

\* The driver takes the next transaction and drives it.
LEMMA DriveInv ==
    ASSUME StimulusIInv, drive_request, UNCHANGED harness PROVE StimulusIInv'
<1>1. PICK h : h = Head(transaction_fifo)
    OBVIOUS
<1>2. /\ drv = None /\ transaction_fifo # <<>> /\ transaction_fifo' = Tail(transaction_fifo)
      /\ drv' = [obj |-> h, acked |-> FALSE]
      /\ core_req' = IF h = Null THEN None ELSE object[h]
      /\ ids' = ids /\ object' = object /\ transaction_ret' = transaction_ret /\ seq_t' = seq_t
      /\ pool' = pool /\ sb_core_req' = sb_core_req /\ sent' = sent /\ progress' = progress
    BY <1>1 DEF drive_request, seqVars, harness
<1>3. Made \/ Stopped
    BY <1>2 DEF StimulusIInv, Stage, Ready, Made, Driven, Answered, Stopped, Ended
<1>4. h = seq_t /\ transaction_fifo = <<h>> /\ transaction_fifo' = <<>>
    BY <1>1, <1>2, <1>3 DEF Made, Stopped
<1>5. Pool'
    BY <1>2 DEF StimulusIInv, Pool
<1>6. Apart(ids, WaitIn(<<h>>, object), {}, CopiesIn(sb_core_req), progress) /\ Injective(sb_core_req)
    BY <1>2, <1>4, IdsAre, Drives DEF StimulusIInv
<1>7. WaitIn(<<>>, object) = {} /\ Alone(<<>>, object)
    BY NoneWaits
<1>8. CASE Made
  <2>1. h \in Objects /\ h # Null
      BY <1>4, <1>8, Marks DEF Made
  <2>2. Driven'
      BY <1>2, <1>4, <1>8, <2>1 DEF Made, Driven, Holds
  <2>3. WaitIn(<<h>>, object) = {object[h].tid} /\ DrivenBy(drv', object) = {object[h].tid}
      BY <1>2, <2>1, OneWaits, Drives
  <2>4. Apart(ids, {}, {object[h].tid}, CopiesIn(sb_core_req), progress)
      BY <1>6, <2>3 DEF Apart
  <2>5. IdsConserved'
      BY <1>2, <1>4, <1>6, <1>7, <2>3, <2>4, IdsAreNext
  <2> QED BY <1>2, <1>5, <2>2, <2>5 DEF StimulusIInv, Stage
<1>9. CASE Stopped
  <2>1. h = Null
      BY <1>4, <1>9 DEF Stopped
  <2>2. Ended'
      BY <1>2, <1>4, <1>9, <2>1 DEF Stopped, Ended, Holds
  <2>3. WaitIn(<<h>>, object) = {} /\ DrivenBy(drv', object) = {}
      BY <1>2, <2>1, NoneWaits, Drives
  <2>4. IdsConserved'
      BY <1>2, <1>4, <1>6, <1>7, <2>3, IdsAreNext
  <2> QED BY <1>2, <1>5, <2>2, <2>4 DEF StimulusIInv, Stage
<1> QED BY <1>3, <1>8, <1>9

\* The copy is made: the driver is free, and the id is in the next fifo.
LEMMA CopyMoves ==
    ASSUME StimulusIInv, NEW o \in Objects, NEW a \in BOOLEAN, drv = [obj |-> o, acked |-> a],
           drv' = None, sb_core_req' = Append(sb_core_req, object[o]),
           ids' = ids, object' = object, transaction_fifo' = transaction_fifo, progress' = progress
    PROVE  IdsConserved' /\ \E T : sb_core_req' \in Seq(T)
<1>1. PICK w, c, t : /\ w = WaitIn(transaction_fifo, object) /\ c = CopiesIn(sb_core_req)
                     /\ t = object[o].tid
    OBVIOUS
<1>2. DrivenBy(drv, object) = {t} /\ DrivenBy(drv', object') = {}
    BY <1>1, Drives
<1>3. Apart(ids, w, {t}, c, progress) /\ Injective(sb_core_req) /\ Alone(transaction_fifo, object)
    BY <1>1, <1>2, IdsAre DEF StimulusIInv
<1>4. t \notin c
    BY <1>3 DEF Apart
<1>5. /\ \E T : sb_core_req' \in Seq(T)
      /\ Injective(sb_core_req') /\ CopiesIn(sb_core_req') = c \union {t}
    BY <1>1, <1>3, <1>4, CopyJoins DEF StimulusIInv
<1>6. Apart(ids, w, {}, c \union {t}, progress)
    BY <1>3 DEF Apart
<1> QED BY <1>1, <1>2, <1>3, <1>5, <1>6, IdsAreNext

\* The cache accepts: the sequence is answered, and the copy is made or waits.
LEMMA AcceptInv == ASSUME StimulusIInv, Accept PROVE StimulusIInv'
<1>1. /\ core_req # None /\ core_req' = None /\ transaction_ret' = Append(transaction_ret, 0)
      /\ ids' = ids /\ object' = object /\ transaction_fifo' = transaction_fifo /\ seq_t' = seq_t
      /\ pool' = pool /\ sent' = core_req /\ progress' = progress
    BY DEF Accept, request_accepted, seqVars
<1>2. Driven
    BY <1>1 DEF StimulusIInv, Stage, Ready, Made, Driven, Answered, Stopped, Ended
<1>3. PICK o : o = seq_t
    OBVIOUS
<1>4. /\ o \in Objects /\ drv = [obj |-> o, acked |-> FALSE] /\ core_req = object[o]
      /\ transaction_fifo' = <<>> /\ transaction_ret' = <<0>>
    BY <1>1, <1>2, <1>3 DEF Driven, Holds
<1>5. Pool'
    BY <1>1 DEF StimulusIInv, Pool
<1>6. CASE Len(sb_core_req) < SbDepth
  <2>1. sb_core_req' = Append(sb_core_req, object[o]) /\ drv' = None
      BY <1>4, <1>6 DEF Accept, request_accepted
  <2>2. IdsConserved' /\ \E T : sb_core_req' \in Seq(T)
      BY <1>1, <1>4, <2>1, CopyMoves
  <2>3. Answered'
      BY <1>1, <1>3, <1>4, <2>1 DEF Answered
  <2> QED BY <1>1, <1>5, <2>2, <2>3 DEF StimulusIInv, Stage
<1>7. CASE ~(Len(sb_core_req) < SbDepth)
  <2>1. sb_core_req' = sb_core_req /\ drv' = [drv EXCEPT !.acked = TRUE]
      BY <1>7 DEF Accept, request_accepted
  <2>2. drv' = [obj |-> o, acked |-> TRUE]
      BY <1>4, <2>1
  <2>3. DrivenBy(drv', object) = DrivenBy(drv, object)
      BY <1>4, <2>2, Drives
  <2>4. IdsConserved'
      BY <1>1, <2>1, <2>3, IdsAre, IdsAreNext DEF StimulusIInv
  <2>5. Answered'
      BY <1>1, <1>3, <1>4, <2>2 DEF Answered, Acked
  <2> QED BY <1>1, <1>5, <2>1, <2>4, <2>5 DEF StimulusIInv, Stage
<1> QED BY <1>6, <1>7

\* The copy that waited is made.
LEMMA CopiedInv ==
    ASSUME StimulusIInv, request_copied, UNCHANGED harness PROVE StimulusIInv'
<1>1. /\ drv # None /\ drv.acked /\ drv' = None
      /\ sb_core_req' = Append(sb_core_req, object[drv.obj])
      /\ ids' = ids /\ object' = object /\ transaction_fifo' = transaction_fifo /\ seq_t' = seq_t
      /\ transaction_ret' = transaction_ret /\ core_req' = core_req
      /\ pool' = pool /\ sent' = sent /\ progress' = progress
    BY DEF request_copied, seqVars, harness
<1>2. (Ready \/ Made \/ Answered \/ Stopped) /\ \E o \in Objects : Acked(o)
  <2>1. ~Driven /\ ~Ended
      BY <1>1 DEF Driven, Ended, Holds
  <2>2. CASE Ready
      BY <1>1, <2>2 DEF Ready, Acked
  <2>3. CASE Made
      BY <1>1, <2>3 DEF Made
  <2>4. CASE Answered
      BY <1>1, <2>4 DEF Answered
  <2>5. CASE Stopped
      BY <1>1, <2>5 DEF Stopped
  <2> QED BY <2>1, <2>2, <2>3, <2>4, <2>5 DEF StimulusIInv, Stage
<1>3. PICK o \in Objects : drv = [obj |-> o, acked |-> TRUE]
    BY <1>2 DEF Acked
<1>4. IdsConserved' /\ \E T : sb_core_req' \in Seq(T)
    BY <1>1, <1>3, CopyMoves
<1>5. Stage'
    BY <1>1, <1>2 DEF Stage, Ready, Made, Answered, Stopped
<1>6. Pool'
    BY <1>1 DEF StimulusIInv, Pool
<1> QED BY <1>1, <1>4, <1>5, <1>6 DEF StimulusIInv

\* What only the scoreboard changes leaves the sequence and the driver where they are.
LEMMA ElsewhereInv ==
    ASSUME StimulusIInv, UNCHANGED <<n, addr, lrsc, between, seq_t, pool, object, transaction_fifo,
                                     transaction_ret, drv, core_req, sent>>
    PROVE  Stage' /\ Pool' /\ DOMAIN object' = Objects
<1>1. Pool' /\ DOMAIN object' = Objects
    BY DEF StimulusIInv, Pool
<1>2. Stage'
    BY DEF StimulusIInv, Stage, Ready, Made, Driven, Answered, Stopped, Ended, Holds, Acked
<1> QED BY <1>1, <1>2

\* The scoreboard takes a copy.
LEMMA TakeInv == ASSUME StimulusIInv, Take PROVE StimulusIInv'
<1>1. /\ sb_core_req # <<>> /\ sb_core_req' = Tail(sb_core_req)
      /\ progress' = progress \union {Head(sb_core_req).tid}
      /\ UNCHANGED <<n, addr, lrsc, between, seq_t, pool, object, transaction_fifo,
                     transaction_ret, drv, core_req, sent>>
      /\ ids' = ids
    BY DEF Take, seqVars, drvVars
<1>2. Stage' /\ Pool' /\ DOMAIN object' = Objects
    BY <1>1, ElsewhereInv
<1>3. PICK w, d, c, t, c2 : /\ w = WaitIn(transaction_fifo, object) /\ d = DrivenBy(drv, object)
                            /\ c = CopiesIn(sb_core_req) /\ t = Head(sb_core_req).tid
                            /\ c2 = CopiesIn(sb_core_req')
    OBVIOUS
<1>4. Apart(ids, w, d, c, progress) /\ Injective(sb_core_req) /\ Alone(transaction_fifo, object)
    BY <1>3, IdsAre DEF StimulusIInv
<1>5. /\ \E T : sb_core_req' \in Seq(T)
      /\ Injective(sb_core_req') /\ c = c2 \union {t} /\ t \notin c2
    BY <1>1, <1>3, <1>4, CopyLeaves DEF StimulusIInv
<1>6. Apart(ids, w, d, c2, progress \union {t})
    BY <1>4, <1>5 DEF Apart
<1>7. IdsConserved'
    BY <1>1, <1>3, <1>4, <1>5, <1>6, IdsAreNext
<1> QED BY <1>2, <1>5, <1>7 DEF StimulusIInv

\* The scoreboard gives an id back.
LEMMA GiveBackInv == ASSUME StimulusIInv, GiveBack PROVE StimulusIInv'
<1>1. PICK t \in progress : progress' = progress \ {t} /\ ids' = ids \ {t}
    BY DEF GiveBack
<1>2. UNCHANGED <<n, addr, lrsc, between, seq_t, pool, object, transaction_fifo,
                  transaction_ret, drv, core_req, sent>> /\ sb_core_req' = sb_core_req
    BY DEF GiveBack, seqVars, drvVars
<1>3. Stage' /\ Pool' /\ DOMAIN object' = Objects
    BY <1>2, ElsewhereInv
<1>4. PICK w, d, c : /\ w = WaitIn(transaction_fifo, object) /\ d = DrivenBy(drv, object)
                     /\ c = CopiesIn(sb_core_req)
    OBVIOUS
<1>5. Apart(ids, w, d, c, progress) /\ Injective(sb_core_req) /\ Alone(transaction_fifo, object)
    BY <1>4, IdsAre DEF StimulusIInv
<1>6. Apart(ids', w, d, c, progress')
    BY <1>1, <1>5 DEF Apart
<1>7. IdsConserved'
    BY <1>2, <1>4, <1>5, <1>6, IdsAreNext
<1> QED BY <1>2, <1>3, <1>7 DEF StimulusIInv

\* A bundle of two objects is enough: the sequence never refills the object that
\* the driver has acknowledged and not yet copied, for every depth of the fifo to the
\* scoreboard and every delay of cache and scoreboard; and every id in use is in one
\* place, so none is given out twice and none is lost.
THEOREM StimulusIsSound == ASSUME Bundle >= 2 PROVE StimulusSpec => []StimulusInv
<1>1. InitStimulus => StimulusIInv
  <2> SUFFICES ASSUME InitStimulus PROVE StimulusIInv
      OBVIOUS
  <2>1. Stage
      BY DEF InitStimulus, InitStim, Stage, Ready
  <2>2. Pool
      BY Marks DEF InitStimulus, InitStim, Pool
  <2>3. WaitIn(transaction_fifo, object) = {} /\ Alone(transaction_fifo, object)
      BY NoneWaits DEF InitStimulus, InitStim
  <2>4. DrivenBy(drv, object) = {}
      BY Drives DEF InitStimulus, InitStim
  <2>5. CopiesIn(sb_core_req) = {} /\ Injective(sb_core_req) /\ sb_core_req \in Seq({})
      BY DEF InitStimulus, CopiesIn, Injective
  <2>6. ids = {} /\ progress = {} /\ DOMAIN object = Objects
      BY DEF InitStimulus, InitStim
  <2>7. Apart({}, {}, {}, {}, {})
      BY DEF Apart
  <2>8. IdsConserved
      BY <2>3, <2>4, <2>5, <2>6, <2>7, IdsAre
  <2> QED BY <2>1, <2>2, <2>5, <2>6, <2>8 DEF StimulusIInv
<1>2. StimulusIInv /\ [NextStimulus]_stimulusVars => StimulusIInv'
  <2> SUFFICES ASSUME StimulusIInv, [NextStimulus]_stimulusVars PROVE StimulusIInv'
      OBVIOUS
  <2>1. CASE create_random_transaction /\ UNCHANGED harness
      BY <2>1, CreateInv DEF create_random_transaction, Idle
  <2>2. CASE create_sc_transaction /\ UNCHANGED harness
      BY <2>2, CreateInv DEF create_sc_transaction, Idle
  <2>3. CASE release_transaction /\ UNCHANGED harness
      BY <2>3, ReleaseInv
  <2>4. CASE stop /\ UNCHANGED harness
      BY <2>4, StopInv
  <2>5. CASE drive_request /\ UNCHANGED harness
      BY <2>5, DriveInv
  <2>6. CASE request_copied /\ UNCHANGED harness
      BY <2>6, CopiedInv
  <2>7. CASE Accept
      BY <2>7, AcceptInv
  <2>8. CASE Take
      BY <2>8, TakeInv
  <2>9. CASE GiveBack
      BY <2>9, GiveBackInv
  <2>10. CASE Finish \/ UNCHANGED stimulusVars
    <3>1. /\ UNCHANGED <<n, addr, lrsc, between, seq_t, pool, object, transaction_fifo,
                         transaction_ret, drv, core_req, sent>>
          /\ ids' = ids /\ progress' = progress /\ sb_core_req' = sb_core_req
        BY <2>10 DEF Finish, finish, seqVars, drvVars, stimVars, stimulusVars, harness
    <3>2. Stage' /\ Pool' /\ DOMAIN object' = Objects
        BY <3>1, ElsewhereInv
    <3>3. IdsConserved'
        BY <3>1, IdsAre, IdsAreNext DEF StimulusIInv
    <3> QED BY <3>1, <3>2, <3>3 DEF StimulusIInv
  <2> QED BY <2>1, <2>2, <2>3, <2>4, <2>5, <2>6, <2>7, <2>8, <2>9, <2>10
          DEF NextStimulus, Stimulate, NextStim, NextSeq
<1>3. StimulusIInv => StimulusInv
  <2> SUFFICES ASSUME StimulusIInv PROVE CopyIntact
      BY DEF StimulusIInv, StimulusInv
  <2> SUFFICES ASSUME drv # None, drv.obj # Null
               PROVE  object[drv.obj] = IF drv.acked THEN sent ELSE core_req
      BY DEF CopyIntact
  <2>1. CASE \E o \in Objects : Acked(o)
      BY <2>1 DEF Acked
  <2>2. CASE Driven
      BY <2>2 DEF Driven, Holds
  <2>3. ~Ended
      BY DEF Ended, Holds
  <2>4. Driven \/ \E o \in Objects : Acked(o)
    <3>1. Ready => pool[Len(pool)] \in Objects /\ Acked(pool[Len(pool)])
        BY DEF Ready, Acked
    <3>2. Made => \E o \in Objects : Acked(o)
        BY DEF Made
    <3>3. Answered => \E o \in Objects : Acked(o)
        BY DEF Answered
    <3>4. Stopped => \E o \in Objects : Acked(o)
        BY DEF Stopped
    <3> QED BY <2>3, <3>1, <3>2, <3>3, <3>4 DEF StimulusIInv, Stage
  <2> QED BY <2>1, <2>2, <2>4
<1> QED BY <1>1, <1>2, <1>3, PTL DEF StimulusSpec
=============================================================================
