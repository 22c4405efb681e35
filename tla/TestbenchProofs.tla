-------------------------- MODULE TestbenchProofs ---------------------------
(***************************************************************************)
(* Proofs about the write path of the testbench, from the cache through    *)
(* the threads of the memory and back, for every size: address flits and   *)
(* data flits are joined as they were sent, and the fifos of the memory,   *)
(* whose ready does not wait for room, always have room.                   *)
(***************************************************************************)
EXTENDS Testbench, FiniteSetTheorems, TLAPS

(* A sequence, of whatever elements.                                       *)
IsSeq(s) == \E T : s \in Seq(T)

\* The positions of a sequence.
LEMMA SeqFacts ==
    ASSUME NEW s, IsSeq(s)
    PROVE  Len(s) \in Nat /\ DOMAIN s = 1 .. Len(s) /\ (s = <<>> <=> Len(s) = 0)
BY DEF IsSeq

\* The empty sequence.
LEMMA EmptySeq == IsSeq(<<>>) /\ Len(<<>>) = 0
<1>1. <<>> \in Seq({}) BY SMT
<1> QED BY <1>1 DEF IsSeq

\* An element more at the end.
LEMMA AppendSeq ==
    ASSUME NEW s, NEW e, IsSeq(s)
    PROVE  /\ IsSeq(Append(s, e)) /\ Len(Append(s, e)) = Len(s) + 1
           /\ \A i \in 1 .. Len(s) : Append(s, e)[i] = s[i]
           /\ Append(s, e)[Len(s) + 1] = e
<1>1. PICK T : s \in Seq(T) BY DEF IsSeq
<1>2. s \in Seq(T \union {e}) /\ e \in T \union {e} BY <1>1
<1>3. Append(s, e) \in Seq(T \union {e}) BY <1>2
<1> QED BY <1>2, <1>3 DEF IsSeq

\* A function on an initial segment of the naturals is a sequence.
LEMMA FunctionSeq ==
    ASSUME NEW T, NEW z \in Nat, NEW g, g = [j \in 1 .. z |-> g[j]], \A j \in 1 .. z : g[j] \in T
    PROVE  g \in Seq(T)
OBVIOUS

\* An element less at the front.
LEMMA TailSeq ==
    ASSUME NEW s, IsSeq(s), s # <<>>
    PROVE  /\ IsSeq(Tail(s)) /\ Len(Tail(s)) = Len(s) - 1 /\ Len(s) >= 1
           /\ \A i \in 1 .. Len(s) - 1 : Tail(s)[i] = s[i + 1]
           /\ Head(s) = s[1]
<1>1. PICK T : s \in Seq(T) BY DEF IsSeq
<1>2. Tail(s) \in Seq(T) BY <1>1
<1> QED BY <1>1, <1>2 DEF IsSeq
-----------------------------------------------------------------------------
(* The writes under way, oldest first, are L; m is the answer on the wires, *)
(* f the answers behind it, x the write being executed, p and q the fifos   *)
(* of addresses and of data, a and d the wires to the memory.               *)

N1(x) == IF x = None THEN 0 ELSE 1
Acked(m, f) == N1(m) + Len(f)
Joined(m, f, x) == Acked(m, f) + N1(x)
Flits(m, f, x, p, a) == Joined(m, f, x) + Len(p) + N1(a)

Path(L, m, f, x, p, q, a, d) ==
    /\ IsSeq(L) /\ IsSeq(f) /\ IsSeq(p) /\ IsSeq(q)
    /\ Flits(m, f, x, p, a) <= Len(L) /\ Flits(m, f, x, q, d) <= Len(L)
    /\ m # None => m.id = L[1].req.id
    /\ \A i \in 1 .. Len(f) : f[i] # None /\ f[i].id = L[N1(m) + i].req.id
    /\ x # None => x.req = L[Acked(m, f) + 1].req /\ x.w = L[Acked(m, f) + 1].w
    /\ \A i \in 1 .. Len(p) : p[i] = L[Joined(m, f, x) + i].req
    /\ \A i \in 1 .. Len(q) : q[i] = L[Joined(m, f, x) + i].w
    /\ a # None => a = L[Joined(m, f, x) + Len(p) + 1].req
    /\ d # None => d = L[Joined(m, f, x) + Len(q) + 1].w

\* The counts are naturals.
LEMMA Counts ==
    ASSUME NEW m, NEW f, NEW x, NEW p, NEW a, IsSeq(f), IsSeq(p)
    PROVE  /\ N1(m) \in {0, 1} /\ N1(x) \in {0, 1} /\ N1(a) \in {0, 1} /\ N1(None) = 0
           /\ Acked(m, f) \in Nat /\ Joined(m, f, x) \in Nat /\ Flits(m, f, x, p, a) \in Nat
<1>1. N1(m) \in {0, 1} /\ N1(x) \in {0, 1} /\ N1(a) \in {0, 1} /\ N1(None) = 0
    BY DEF N1
<1>2. Len(f) \in Nat /\ Len(p) \in Nat
    BY SeqFacts
<1> QED BY <1>1, <1>2 DEF Acked, Joined, Flits

\* An address flit is taken from the wires.
LEMMA AddressTaken ==
    ASSUME NEW L, NEW m, NEW f, NEW x, NEW p, NEW q, NEW a, NEW d,
           Path(L, m, f, x, p, q, a, d), a # None
    PROVE  /\ Path(L, m, f, x, Append(p, a), q, None, d)
           /\ Flits(m, f, x, Append(p, a), None) = Flits(m, f, x, p, a)
<1>1. IsSeq(L) /\ IsSeq(f) /\ IsSeq(p) /\ IsSeq(q)
    BY DEF Path
<1>2. N1(a) = 1 /\ N1(None) = 0
    BY DEF N1
<1>3. IsSeq(Append(p, a)) /\ Len(Append(p, a)) = Len(p) + 1 /\ Len(p) \in Nat /\ Joined(m, f, x) \in Nat
    BY <1>1, AppendSeq, SeqFacts, Counts
<1>4. Flits(m, f, x, Append(p, a), None) = Flits(m, f, x, p, a)
    BY <1>2, <1>3 DEF Flits
<1>5. ASSUME NEW i \in 1 .. Len(Append(p, a)) PROVE Append(p, a)[i] = L[Joined(m, f, x) + i].req
  <2>1. CASE i \in 1 .. Len(p)
      BY <1>1, <2>1, AppendSeq DEF Path
  <2>2. CASE i = Len(p) + 1
    <3>1. Append(p, a)[i] = a BY <1>1, <2>2, AppendSeq
    <3>2. a = L[Joined(m, f, x) + Len(p) + 1].req BY DEF Path
    <3>3. Joined(m, f, x) + Len(p) + 1 = Joined(m, f, x) + i BY <1>3, <2>2
    <3> QED BY <3>1, <3>2, <3>3
  <2> QED BY <1>3, <2>1, <2>2
<1> QED BY <1>1, <1>3, <1>4, <1>5 DEF Path

\* A data flit is taken from the wires.
LEMMA DataTaken ==
    ASSUME NEW L, NEW m, NEW f, NEW x, NEW p, NEW q, NEW a, NEW d,
           Path(L, m, f, x, p, q, a, d), d # None
    PROVE  /\ Path(L, m, f, x, p, Append(q, d), a, None)
           /\ Flits(m, f, x, Append(q, d), None) = Flits(m, f, x, q, d)
<1>1. IsSeq(L) /\ IsSeq(f) /\ IsSeq(p) /\ IsSeq(q)
    BY DEF Path
<1>2. N1(d) = 1 /\ N1(None) = 0
    BY DEF N1
<1>3. IsSeq(Append(q, d)) /\ Len(Append(q, d)) = Len(q) + 1 /\ Len(q) \in Nat /\ Joined(m, f, x) \in Nat
    BY <1>1, AppendSeq, SeqFacts, Counts
<1>4. Flits(m, f, x, Append(q, d), None) = Flits(m, f, x, q, d)
    BY <1>2, <1>3 DEF Flits
<1>5. ASSUME NEW i \in 1 .. Len(Append(q, d)) PROVE Append(q, d)[i] = L[Joined(m, f, x) + i].w
  <2>1. CASE i \in 1 .. Len(q)
      BY <1>1, <2>1, AppendSeq DEF Path
  <2>2. CASE i = Len(q) + 1
    <3>1. Append(q, d)[i] = d BY <1>1, <2>2, AppendSeq
    <3>2. d = L[Joined(m, f, x) + Len(q) + 1].w BY DEF Path
    <3>3. Joined(m, f, x) + Len(q) + 1 = Joined(m, f, x) + i BY <1>3, <2>2
    <3> QED BY <3>1, <3>2, <3>3
  <2> QED BY <1>3, <2>1, <2>2
<1> QED BY <1>1, <1>3, <1>4, <1>5 DEF Path

\* The oldest address and the oldest data.
Pair(p, q) == [req |-> Head(p), w |-> Head(q)]

\* They are joined, and belong together.
LEMMA FlitsJoined ==
    ASSUME NEW L, NEW m, NEW f, NEW p, NEW q, NEW a, NEW d,
           Path(L, m, f, None, p, q, a, d), p # <<>>, q # <<>>,
           Pair(p, q) # None
    PROVE  /\ Path(L, m, f, Pair(p, q), Tail(p), Tail(q), a, d)
           /\ Flits(m, f, Pair(p, q), Tail(p), a) = Flits(m, f, None, p, a)
           /\ Flits(m, f, Pair(p, q), Tail(q), d) = Flits(m, f, None, q, d)
<1>1. IsSeq(L) /\ IsSeq(f) /\ IsSeq(p) /\ IsSeq(q)
    BY DEF Path
<1>2. N1(Pair(p, q)) = 1 /\ N1(None) = 0 /\ Pair(p, q).req = Head(p) /\ Pair(p, q).w = Head(q)
    BY DEF N1, Pair
<1>3. /\ Acked(m, f) \in Nat /\ Len(p) \in Nat /\ Len(q) \in Nat /\ N1(a) \in {0, 1} /\ N1(d) \in {0, 1}
    BY <1>1, SeqFacts, Counts
<1>4. Joined(m, f, None) = Acked(m, f) /\ Joined(m, f, Pair(p, q)) = Acked(m, f) + 1
    BY <1>2, <1>3 DEF Joined
<1>5. /\ IsSeq(Tail(p)) /\ Len(Tail(p)) = Len(p) - 1 /\ Len(p) >= 1 /\ Head(p) = p[1]
      /\ \A i \in 1 .. Len(p) - 1 : Tail(p)[i] = p[i + 1]
    BY <1>1, TailSeq
<1>6. /\ IsSeq(Tail(q)) /\ Len(Tail(q)) = Len(q) - 1 /\ Len(q) >= 1 /\ Head(q) = q[1]
      /\ \A i \in 1 .. Len(q) - 1 : Tail(q)[i] = q[i + 1]
    BY <1>1, TailSeq
<1>7. Flits(m, f, Pair(p, q), Tail(p), a) = Flits(m, f, None, p, a)
    BY <1>3, <1>4, <1>5 DEF Flits
<1>8. Flits(m, f, Pair(p, q), Tail(q), d) = Flits(m, f, None, q, d)
    BY <1>3, <1>4, <1>6 DEF Flits
<1>9. Pair(p, q).req = L[Acked(m, f) + 1].req /\ Pair(p, q).w = L[Acked(m, f) + 1].w
  <2>1. p[1] = L[Joined(m, f, None) + 1].req /\ q[1] = L[Joined(m, f, None) + 1].w
      BY <1>3, <1>5, <1>6 DEF Path
  <2> QED BY <1>2, <1>4, <1>5, <1>6, <2>1
<1>10. ASSUME NEW i \in 1 .. Len(Tail(p)) PROVE Tail(p)[i] = L[Joined(m, f, Pair(p, q)) + i].req
  <2>1. i + 1 \in 1 .. Len(p) /\ i \in 1 .. Len(p) - 1
      BY <1>3, <1>5
  <2>2. p[i + 1] = L[Joined(m, f, None) + (i + 1)].req
      BY <2>1 DEF Path
  <2>3. Joined(m, f, None) + (i + 1) = Joined(m, f, Pair(p, q)) + i
      BY <1>3, <1>4
  <2> QED BY <1>5, <2>1, <2>2, <2>3
<1>11. ASSUME NEW i \in 1 .. Len(Tail(q)) PROVE Tail(q)[i] = L[Joined(m, f, Pair(p, q)) + i].w
  <2>1. i + 1 \in 1 .. Len(q) /\ i \in 1 .. Len(q) - 1
      BY <1>3, <1>6
  <2>2. q[i + 1] = L[Joined(m, f, None) + (i + 1)].w
      BY <2>1 DEF Path
  <2>3. Joined(m, f, None) + (i + 1) = Joined(m, f, Pair(p, q)) + i
      BY <1>3, <1>4
  <2> QED BY <1>6, <2>1, <2>2, <2>3
<1>12. a # None => a = L[Joined(m, f, Pair(p, q)) + Len(Tail(p)) + 1].req
  <2>1. Joined(m, f, Pair(p, q)) + Len(Tail(p)) + 1 = Joined(m, f, None) + Len(p) + 1
      BY <1>3, <1>4, <1>5
  <2> QED BY <2>1 DEF Path
<1>13. d # None => d = L[Joined(m, f, Pair(p, q)) + Len(Tail(q)) + 1].w
  <2>1. Joined(m, f, Pair(p, q)) + Len(Tail(q)) + 1 = Joined(m, f, None) + Len(q) + 1
      BY <1>3, <1>4, <1>6
  <2> QED BY <2>1 DEF Path
<1>14. /\ Flits(m, f, Pair(p, q), Tail(p), a) <= Len(L) /\ Flits(m, f, Pair(p, q), Tail(q), d) <= Len(L)
       /\ m # None => m.id = L[1].req.id
       /\ \A i \in 1 .. Len(f) : f[i] # None /\ f[i].id = L[N1(m) + i].req.id
    BY <1>7, <1>8 DEF Path
<1>15. Path(L, m, f, Pair(p, q), Tail(p), Tail(q), a, d)
    BY <1>1, <1>5, <1>6, <1>9, <1>10, <1>11, <1>12, <1>13, <1>14 DEF Path
<1> QED BY <1>7, <1>8, <1>15

\* The write is executed and its answer r queued.
LEMMA WriteDone ==
    ASSUME NEW L, NEW m, NEW f, NEW x, NEW p, NEW q, NEW a, NEW d, NEW r,
           Path(L, m, f, x, p, q, a, d), x # None, r # None, r.id = x.req.id
    PROVE  /\ Path(L, m, Append(f, r), None, p, q, a, d)
           /\ Flits(m, Append(f, r), None, p, a) = Flits(m, f, x, p, a)
           /\ Flits(m, Append(f, r), None, q, d) = Flits(m, f, x, q, d)
<1>1. IsSeq(L) /\ IsSeq(f) /\ IsSeq(p) /\ IsSeq(q)
    BY DEF Path
<1>2. N1(x) = 1 /\ N1(None) = 0 /\ N1(m) \in {0, 1} /\ Len(f) \in Nat
    BY <1>1, SeqFacts DEF N1
<1>3. /\ IsSeq(Append(f, r)) /\ Len(Append(f, r)) = Len(f) + 1
      /\ \A i \in 1 .. Len(f) : Append(f, r)[i] = f[i]
      /\ Append(f, r)[Len(f) + 1] = r
    BY <1>1, AppendSeq
<1>4. Joined(m, Append(f, r), None) = Joined(m, f, x)
    BY <1>2, <1>3 DEF Joined, Acked
<1>5. /\ Flits(m, Append(f, r), None, p, a) = Flits(m, f, x, p, a)
      /\ Flits(m, Append(f, r), None, q, d) = Flits(m, f, x, q, d)
    BY <1>4 DEF Flits
<1>6. ASSUME NEW i \in 1 .. Len(Append(f, r))
      PROVE  Append(f, r)[i] # None /\ Append(f, r)[i].id = L[N1(m) + i].req.id
  <2>1. CASE i \in 1 .. Len(f)
      BY <1>3, <2>1 DEF Path
  <2>2. CASE i = Len(f) + 1
    <3>1. x.req = L[Acked(m, f) + 1].req BY DEF Path
    <3>2. Acked(m, f) + 1 = N1(m) + i BY <1>2, <2>2 DEF Acked
    <3> QED BY <1>3, <2>2, <3>1, <3>2
  <2> QED BY <1>2, <1>3, <2>1, <2>2
<1>7. Path(L, m, Append(f, r), None, p, q, a, d)
    BY <1>1, <1>3, <1>4, <1>5, <1>6 DEF Path
<1> QED BY <1>5, <1>7

\* The oldest answer goes to the wires.
LEMMA AnswerShown ==
    ASSUME NEW L, NEW f, NEW x, NEW p, NEW q, NEW a, NEW d,
           Path(L, None, f, x, p, q, a, d), f # <<>>
    PROVE  /\ Path(L, Head(f), Tail(f), x, p, q, a, d)
           /\ Flits(Head(f), Tail(f), x, p, a) = Flits(None, f, x, p, a)
           /\ Flits(Head(f), Tail(f), x, q, d) = Flits(None, f, x, q, d)
<1>1. IsSeq(L) /\ IsSeq(f) /\ IsSeq(p) /\ IsSeq(q)
    BY DEF Path
<1>2. /\ IsSeq(Tail(f)) /\ Len(Tail(f)) = Len(f) - 1 /\ Len(f) >= 1 /\ Head(f) = f[1] /\ Len(f) \in Nat
      /\ \A i \in 1 .. Len(f) - 1 : Tail(f)[i] = f[i + 1]
    BY <1>1, TailSeq, SeqFacts
<1>3. N1(None) = 0
    BY DEF N1
<1>4. \A i \in 1 .. Len(f) : f[i] # None /\ f[i].id = L[i].req.id
  <2> SUFFICES ASSUME NEW i \in 1 .. Len(f) PROVE f[i] # None /\ f[i].id = L[i].req.id
      OBVIOUS
  <2>1. N1(None) + i = i BY <1>2, <1>3
  <2> QED BY <2>1 DEF Path
<1>5. Head(f) # None /\ Head(f).id = L[1].req.id
    BY <1>2, <1>4
<1>6. N1(Head(f)) = 1
    BY <1>5 DEF N1
<1>7. Acked(Head(f), Tail(f)) = Acked(None, f)
    BY <1>2, <1>3, <1>6 DEF Acked
<1>8. Joined(Head(f), Tail(f), x) = Joined(None, f, x)
    BY <1>7 DEF Joined
<1>9. /\ Flits(Head(f), Tail(f), x, p, a) = Flits(None, f, x, p, a)
      /\ Flits(Head(f), Tail(f), x, q, d) = Flits(None, f, x, q, d)
    BY <1>8 DEF Flits
<1>10. ASSUME NEW i \in 1 .. Len(Tail(f))
       PROVE  Tail(f)[i] # None /\ Tail(f)[i].id = L[N1(Head(f)) + i].req.id
  <2>1. i + 1 \in 1 .. Len(f) /\ i \in 1 .. Len(f) - 1 /\ N1(Head(f)) + i = i + 1
      BY <1>2, <1>6
  <2> QED BY <1>2, <1>4, <2>1
<1>11. Path(L, Head(f), Tail(f), x, p, q, a, d)
    BY <1>1, <1>2, <1>5, <1>7, <1>8, <1>9, <1>10 DEF Path
<1> QED BY <1>9, <1>11

\* Only what has been sent matters, and of that only address and data.
LEMMA PathAgrees ==
    ASSUME NEW L, NEW K, NEW m, NEW f, NEW x, NEW p, NEW q, NEW a, NEW d,
           Path(L, m, f, x, p, q, a, d), IsSeq(K), NEW N \in Nat, N <= Len(K),
           Flits(m, f, x, p, a) <= N, Flits(m, f, x, q, d) <= N,
           \A k \in 1 .. N : K[k].req = L[k].req /\ K[k].w = L[k].w
    PROVE  Path(K, m, f, x, p, q, a, d)
<1>1. IsSeq(L) /\ IsSeq(f) /\ IsSeq(p) /\ IsSeq(q)
    BY DEF Path
<1>2. /\ Len(L) \in Nat /\ Len(K) \in Nat /\ Len(f) \in Nat /\ Len(p) \in Nat /\ Len(q) \in Nat
      /\ N1(m) \in {0, 1} /\ N1(x) \in {0, 1} /\ N1(a) \in {0, 1} /\ N1(d) \in {0, 1}
    BY <1>1, SeqFacts DEF N1
<1>3. /\ N1(m) + Len(f) + N1(x) + Len(p) + N1(a) <= N
      /\ N1(m) + Len(f) + N1(x) + Len(q) + N1(d) <= N
    BY <1>2 DEF Flits, Joined, Acked
<1>4. /\ m # None => N1(m) = 1
      /\ x # None => N1(x) = 1
      /\ a # None => N1(a) = 1
      /\ d # None => N1(d) = 1
    BY DEF N1
<1>5. Flits(m, f, x, p, a) <= Len(K) /\ Flits(m, f, x, q, d) <= Len(K)
    BY <1>2, <1>3 DEF Flits, Joined, Acked
<1>6. ASSUME m # None PROVE m.id = K[1].req.id
  <2>1. 1 \in 1 .. N BY <1>2, <1>3, <1>4, <1>6
  <2> QED BY <1>6, <2>1 DEF Path
<1>7. ASSUME NEW i \in 1 .. Len(f) PROVE f[i] # None /\ f[i].id = K[N1(m) + i].req.id
  <2>1. N1(m) + i \in 1 .. N BY <1>2, <1>3
  <2> QED BY <2>1 DEF Path
<1>8. ASSUME x # None PROVE x.req = K[Acked(m, f) + 1].req /\ x.w = K[Acked(m, f) + 1].w
  <2>1. Acked(m, f) + 1 \in 1 .. N BY <1>2, <1>3, <1>4, <1>8 DEF Acked
  <2> QED BY <1>8, <2>1 DEF Path
<1>9. ASSUME NEW i \in 1 .. Len(p) PROVE p[i] = K[Joined(m, f, x) + i].req
  <2>1. Joined(m, f, x) + i \in 1 .. N BY <1>2, <1>3 DEF Joined, Acked
  <2> QED BY <2>1 DEF Path
<1>10. ASSUME NEW i \in 1 .. Len(q) PROVE q[i] = K[Joined(m, f, x) + i].w
  <2>1. Joined(m, f, x) + i \in 1 .. N BY <1>2, <1>3 DEF Joined, Acked
  <2> QED BY <2>1 DEF Path
<1>11. ASSUME a # None PROVE a = K[Joined(m, f, x) + Len(p) + 1].req
  <2>1. Joined(m, f, x) + Len(p) + 1 \in 1 .. N BY <1>2, <1>3, <1>4, <1>11 DEF Joined, Acked
  <2> QED BY <1>11, <2>1 DEF Path
<1>12. ASSUME d # None PROVE d = K[Joined(m, f, x) + Len(q) + 1].w
  <2>1. Joined(m, f, x) + Len(q) + 1 \in 1 .. N BY <1>2, <1>3, <1>4, <1>12 DEF Joined, Acked
  <2> QED BY <1>12, <2>1 DEF Path
<1> QED BY <1>1, <1>5, <1>6, <1>7, <1>8, <1>9, <1>10, <1>11, <1>12 DEF Path

\* The cache shows the address of the first write whose address was not sent.
LEMMA AddressShown ==
    ASSUME NEW L, NEW m, NEW f, NEW x, NEW p, NEW q, NEW d, NEW k,
           Path(L, m, f, x, p, q, None, d), k = Flits(m, f, x, p, None) + 1, k <= Len(L), L[k].req # None
    PROVE  Path(L, m, f, x, p, q, L[k].req, d) /\ Flits(m, f, x, p, L[k].req) = k
<1>1. IsSeq(f) /\ IsSeq(p)
    BY DEF Path
<1>2. N1(None) = 0 /\ N1(L[k].req) = 1 /\ Joined(m, f, x) \in Nat /\ Len(p) \in Nat
    BY <1>1, SeqFacts, Counts DEF N1
<1>3. k = Joined(m, f, x) + Len(p) + 1
    BY <1>2 DEF Flits
<1>4. Flits(m, f, x, p, L[k].req) = k
    BY <1>2, <1>3 DEF Flits
<1>5. Path(L, m, f, x, p, q, L[k].req, d)
    BY <1>3, <1>4 DEF Path
<1> QED BY <1>4, <1>5

\* The cache shows the data of the first write whose data were not sent.
LEMMA DataShown ==
    ASSUME NEW L, NEW m, NEW f, NEW x, NEW p, NEW q, NEW a, NEW k,
           Path(L, m, f, x, p, q, a, None), k = Flits(m, f, x, q, None) + 1, k <= Len(L), L[k].w # None
    PROVE  Path(L, m, f, x, p, q, a, L[k].w) /\ Flits(m, f, x, q, L[k].w) = k
<1>1. IsSeq(f) /\ IsSeq(q)
    BY DEF Path
<1>2. N1(None) = 0 /\ N1(L[k].w) = 1 /\ Joined(m, f, x) \in Nat /\ Len(q) \in Nat
    BY <1>1, SeqFacts, Counts DEF N1
<1>3. k = Joined(m, f, x) + Len(q) + 1
    BY <1>2 DEF Flits
<1>4. Flits(m, f, x, q, L[k].w) = k
    BY <1>2, <1>3 DEF Flits
<1>5. Path(L, m, f, x, p, q, a, L[k].w)
    BY <1>3, <1>4 DEF Path
<1> QED BY <1>4, <1>5

\* The answer on the wires is for the oldest write, which leaves.
LEMMA OldestLeaves ==
    ASSUME NEW L, NEW m, NEW f, NEW x, NEW p, NEW q, NEW a, NEW d,
           Path(L, m, f, x, p, q, a, d), m # None
    PROVE  /\ L # <<>> /\ m.id = L[1].req.id
           /\ Path(Tail(L), None, f, x, p, q, a, d)
           /\ Flits(None, f, x, p, a) = Flits(m, f, x, p, a) - 1
           /\ Flits(None, f, x, q, d) = Flits(m, f, x, q, d) - 1
<1>1. IsSeq(L) /\ IsSeq(f) /\ IsSeq(p) /\ IsSeq(q)
    BY DEF Path
<1>2. /\ Len(L) \in Nat /\ Len(f) \in Nat /\ Len(p) \in Nat /\ Len(q) \in Nat
      /\ N1(m) = 1 /\ N1(None) = 0 /\ N1(x) \in {0, 1} /\ N1(a) \in {0, 1} /\ N1(d) \in {0, 1}
    BY <1>1, SeqFacts DEF N1
<1>3. /\ Len(f) + N1(x) + Len(p) + N1(a) <= Len(L) - 1
      /\ Len(f) + N1(x) + Len(q) + N1(d) <= Len(L) - 1
    BY <1>2 DEF Path, Flits, Joined, Acked
<1>4. L # <<>>
    BY <1>1, <1>2, <1>3, SeqFacts
<1>5. /\ IsSeq(Tail(L)) /\ Len(Tail(L)) = Len(L) - 1
      /\ \A i \in 1 .. Len(L) - 1 : Tail(L)[i] = L[i + 1]
    BY <1>1, <1>4, TailSeq
<1>6. /\ Acked(m, f) = Acked(None, f) + 1 /\ Acked(None, f) \in Nat
      /\ Joined(m, f, x) = Joined(None, f, x) + 1 /\ Joined(None, f, x) \in Nat
      /\ Joined(None, f, x) = Len(f) + N1(x) /\ Acked(None, f) = Len(f)
    BY <1>2 DEF Joined, Acked
<1>7. /\ Flits(None, f, x, p, a) = Flits(m, f, x, p, a) - 1
      /\ Flits(None, f, x, q, d) = Flits(m, f, x, q, d) - 1
  <2>1. PICK j \in Nat : Joined(None, f, x) = j /\ Joined(m, f, x) = j + 1 BY <1>6
  <2>2. PICK u \in Nat, v \in Nat : N1(a) = u /\ N1(d) = v BY <1>2
  <2> QED BY <1>2, <2>1, <2>2 DEF Flits
<1>17. PICK j \in Nat : /\ Joined(None, f, x) = j /\ Joined(m, f, x) = j + 1
                        /\ j + Len(p) + N1(a) <= Len(L) - 1 /\ j + Len(q) + N1(d) <= Len(L) - 1
    BY <1>3, <1>6
<1>8. Flits(None, f, x, p, a) <= Len(Tail(L)) /\ Flits(None, f, x, q, d) <= Len(Tail(L))
    BY <1>2, <1>3, <1>5, <1>6 DEF Flits
<1>9. ASSUME NEW i \in 1 .. Len(f) PROVE f[i] # None /\ f[i].id = Tail(L)[N1(None) + i].req.id
  <2>1. N1(None) + i = i /\ N1(m) + i = i + 1 /\ i \in 1 .. Len(L) - 1 BY <1>2, <1>3
  <2> QED BY <1>5, <2>1 DEF Path
<1>10. ASSUME x # None PROVE x.req = Tail(L)[Acked(None, f) + 1].req /\ x.w = Tail(L)[Acked(None, f) + 1].w
  <2>1. N1(x) = 1 BY <1>10 DEF N1
  <2>2. Acked(None, f) + 1 \in 1 .. Len(L) - 1 /\ Acked(m, f) + 1 = (Acked(None, f) + 1) + 1
      BY <1>2, <1>3, <1>6, <2>1
  <2> QED BY <1>5, <1>10, <2>2 DEF Path
<1>11. ASSUME NEW i \in 1 .. Len(p) PROVE p[i] = Tail(L)[Joined(None, f, x) + i].req
  <2>1. Joined(None, f, x) + i \in 1 .. Len(L) - 1 /\ Joined(m, f, x) + i = (Joined(None, f, x) + i) + 1
      BY <1>2, <1>17
  <2> QED BY <1>5, <2>1 DEF Path
<1>12. ASSUME NEW i \in 1 .. Len(q) PROVE q[i] = Tail(L)[Joined(None, f, x) + i].w
  <2>1. Joined(None, f, x) + i \in 1 .. Len(L) - 1 /\ Joined(m, f, x) + i = (Joined(None, f, x) + i) + 1
      BY <1>2, <1>17
  <2> QED BY <1>5, <2>1 DEF Path
<1>13. ASSUME a # None PROVE a = Tail(L)[Joined(None, f, x) + Len(p) + 1].req
  <2>1. N1(a) = 1 BY <1>13 DEF N1
  <2>2. /\ Joined(None, f, x) + Len(p) + 1 \in 1 .. Len(L) - 1
        /\ Joined(m, f, x) + Len(p) + 1 = (Joined(None, f, x) + Len(p) + 1) + 1
      BY <1>2, <1>17, <2>1
  <2> QED BY <1>5, <1>13, <2>2 DEF Path
<1>14. ASSUME d # None PROVE d = Tail(L)[Joined(None, f, x) + Len(q) + 1].w
  <2>1. N1(d) = 1 BY <1>14 DEF N1
  <2>2. /\ Joined(None, f, x) + Len(q) + 1 \in 1 .. Len(L) - 1
        /\ Joined(m, f, x) + Len(q) + 1 = (Joined(None, f, x) + Len(q) + 1) + 1
      BY <1>2, <1>17, <2>1
  <2> QED BY <1>5, <1>14, <2>2 DEF Path
<1>15. Path(Tail(L), None, f, x, p, q, a, d)
    BY <1>1, <1>5, <1>8, <1>9, <1>10, <1>11, <1>12, <1>13, <1>14 DEF Path
<1>16. m.id = L[1].req.id
    BY DEF Path
<1> QED BY <1>4, <1>7, <1>15, <1>16
-----------------------------------------------------------------------------
(* An entry of the write buffer and its fields.                             *)

Entry(r, w, x, y) == [req |-> r, w |-> w, aw |-> x, dw |-> y]
WithAw(e, z) == [e EXCEPT !.aw = z]
WithDw(e, z) == [e EXCEPT !.dw = z]
IsEntry(e) == \E r, w, x, y : e = Entry(r, w, x, y)

\* The fields of an entry.
LEMMA EntryFields ==
    ASSUME NEW r, NEW w, NEW x, NEW y
    PROVE  /\ Entry(r, w, x, y).req = r /\ Entry(r, w, x, y).w = w
           /\ Entry(r, w, x, y).aw = x /\ Entry(r, w, x, y).dw = y
BY DEF Entry

\* Marking an entry as sent changes nothing else of it.
LEMMA EntrySent ==
    ASSUME NEW e, IsEntry(e), NEW z
    PROVE  /\ IsEntry(WithAw(e, z)) /\ WithAw(e, z).aw = z
           /\ WithAw(e, z).req = e.req /\ WithAw(e, z).w = e.w
           /\ WithAw(e, z).dw = e.dw
           /\ IsEntry(WithDw(e, z)) /\ WithDw(e, z).dw = z
           /\ WithDw(e, z).req = e.req /\ WithDw(e, z).w = e.w
           /\ WithDw(e, z).aw = e.aw
<1>1. PICK r, w, x, y : e = Entry(r, w, x, y)
    BY DEF IsEntry
<1>2. [Entry(r, w, x, y) EXCEPT !.aw = z] = Entry(r, w, z, y)
    BY DEF Entry
<1>3. [Entry(r, w, x, y) EXCEPT !.dw = z] = Entry(r, w, x, z)
    BY DEF Entry
<1>4. WithAw(e, z) = Entry(r, w, z, y)
    BY <1>1, <1>2 DEF WithAw
<1>5. WithDw(e, z) = Entry(r, w, x, z)
    BY <1>1, <1>3 DEF WithDw
<1>6. e.req = r /\ e.w = w /\ e.aw = x /\ e.dw = y
    BY <1>1 DEF Entry
<1>7. IsEntry(Entry(r, w, z, y)) /\ IsEntry(Entry(r, w, x, z))
    BY Zenon DEF IsEntry
<1>8. /\ Entry(r, w, z, y).req = r /\ Entry(r, w, z, y).w = w
      /\ Entry(r, w, z, y).aw = z /\ Entry(r, w, z, y).dw = y
    BY EntryFields
<1>9. /\ Entry(r, w, x, z).req = r /\ Entry(r, w, x, z).w = w
      /\ Entry(r, w, x, z).aw = x /\ Entry(r, w, x, z).dw = z
    BY EntryFields
<1> QED BY Zenon, <1>4, <1>5, <1>6, <1>7, <1>8, <1>9

(* The buffer b of write buffer and flush controller, A addresses and D data *)
(* of which were sent.                                                      *)

EntryIds == WbufIds \union FlushIds

Buffer(b, A, D) ==
    /\ IsSeq(b) /\ D <= A
    /\ \A k \in 1 .. Len(b) :
          /\ IsEntry(b[k])
          /\ b[k].req # None /\ b[k].w # None /\ b[k].req.id \in EntryIds
          /\ b[k].aw = (k <= A) /\ b[k].dw = (k <= D)
    /\ \A j, k \in 1 .. Len(b) : b[j].req.id = b[k].req.id => j = k

\* The fifos of the memory hold as many flits as the write buffer and the flush
\* controller have entries, whose ids are not that of the uncached unit.
SizesFit ==
    /\ IsFiniteSet(EntryIds) /\ Cardinality(EntryIds) <= FifoDepth
    /\ DUT!UcId \notin EntryIds

\* The mark of nothing is no flit, no answer and no state of a thread.
NoneApart ==
    /\ \A i, a, s, t : MemWriteReq(i, a, s, t) # None
    /\ \A x, y : MemWriteData(x, y) # None /\ [req |-> x, w |-> y] # None
    /\ \A i, a, e : MemWriteResp(i, a, e) # None /\ [r |-> i, rd |-> a, wr |-> e] # None

\* Entries have ids of their own, so there are no more of them than ids.
LEMMA BufferFits ==
    ASSUME NEW b, NEW A, NEW D, Buffer(b, A, D), SizesFit
    PROVE  Len(b) \in Nat /\ Len(b) <= FifoDepth
<1> DEFINE I == 1 .. Len(b)
           g == [k \in I |-> b[k].req.id]
<1>1. Len(b) \in Nat
    BY SeqFacts DEF Buffer
<1>2. g \in Injection(I, EntryIds)
    BY DEF Injection, IsInjective, Buffer
<1>3. IsFiniteSet(I) /\ Cardinality(I) = Len(b)
  <2>1. 1 \in Int /\ Len(b) \in Int /\ (1 > Len(b) => Len(b) = 0) /\ Len(b) - 1 + 1 = Len(b)
      BY <1>1
  <2> HIDE DEF I
  <2>2. IsFiniteSet(1 .. Len(b)) /\ Cardinality(1 .. Len(b)) = IF 1 > Len(b) THEN 0 ELSE Len(b) - 1 + 1
      BY <2>1, FS_Interval
  <2> QED BY <2>1, <2>2 DEF I
<1> HIDE DEF I, g
<1>4. Cardinality(I) <= Cardinality(EntryIds) /\ Cardinality(EntryIds) \in Nat
    BY <1>2, FS_Injection, FS_CardinalityType DEF SizesFit
<1>5. FifoDepth \in Nat
    BY MemAssumption
<1> QED BY <1>1, <1>3, <1>4, <1>5 DEF SizesFit

\* An entry of the buffer.
EntryOf(r, w) == Entry(r, w, FALSE, FALSE)

\* A write takes an entry with an id of its own.
LEMMA EntryTaken ==
    ASSUME NEW b, NEW A \in Nat, NEW D \in Nat, NEW r, NEW w, Buffer(b, A, D),
           A <= Len(b), D <= Len(b), r # None, w # None,
           r.id \in EntryIds, \A k \in DOMAIN b : b[k].req.id # r.id
    PROVE  Buffer(Append(b, EntryOf(r, w)), A, D)
<1> DEFINE c == Append(b, EntryOf(r, w))
<1>1. IsSeq(b) /\ Len(b) \in Nat /\ DOMAIN b = 1 .. Len(b)
    BY SeqFacts DEF Buffer
<1>2. /\ IsSeq(c) /\ Len(c) = Len(b) + 1
      /\ \A i \in 1 .. Len(b) : c[i] = b[i]
      /\ c[Len(b) + 1] = EntryOf(r, w)
    BY <1>1, AppendSeq
<1>3. r.id \in EntryIds /\ \A k \in 1 .. Len(b) : b[k].req.id # r.id
    BY <1>1
<1>4. /\ EntryOf(r, w).req = r /\ EntryOf(r, w).w = w
      /\ EntryOf(r, w).aw = FALSE /\ EntryOf(r, w).dw = FALSE
      /\ IsEntry(EntryOf(r, w))
  <2>1. IsEntry(EntryOf(r, w)) BY Zenon DEF EntryOf, IsEntry
  <2> QED BY <2>1 DEF EntryOf, Entry
<1> HIDE DEF c
<1>5. ASSUME NEW k \in 1 .. Len(c)
      PROVE  /\ IsEntry(c[k])
             /\ c[k].req # None /\ c[k].w # None /\ c[k].req.id \in EntryIds
             /\ c[k].aw = (k <= A) /\ c[k].dw = (k <= D)
  <2>1. CASE k \in 1 .. Len(b)
      BY <1>2, <2>1 DEF Buffer
  <2>2. CASE k = Len(b) + 1
    <3>1. (k <= A) = FALSE /\ (k <= D) = FALSE
        BY <1>1, <2>2
    <3>2. c[k] = EntryOf(r, w)
        BY <1>2, <2>2
    <3> QED BY Zenon, <1>3, <1>4, <3>1, <3>2
  <2> QED BY <1>1, <1>2, <2>1, <2>2
<1>6. ASSUME NEW j \in 1 .. Len(c), NEW k \in 1 .. Len(c), c[j].req.id = c[k].req.id
      PROVE  j = k
  <2>1. CASE j \in 1 .. Len(b) /\ k \in 1 .. Len(b)
      BY <1>2, <1>6, <2>1 DEF Buffer
  <2>2. CASE j \in 1 .. Len(b) /\ k = Len(b) + 1
      BY <1>2, <1>3, <1>4, <1>6, <2>2
  <2>3. CASE j = Len(b) + 1 /\ k \in 1 .. Len(b)
      BY <1>2, <1>3, <1>4, <1>6, <2>3
  <2> QED BY <1>1, <1>2, <2>1, <2>2, <2>3
<1>7. D <= A
    BY DEF Buffer
<1> QED BY <1>2, <1>5, <1>6, <1>7 DEF Buffer, c

\* The oldest entry leaves.
LEMMA EntryFreed ==
    ASSUME NEW b, NEW A \in Nat, NEW D \in Nat, Buffer(b, A, D), b # <<>>
    PROVE  Buffer(Tail(b), A - 1, D - 1)
<1>1. IsSeq(b) /\ Len(b) \in Nat
    BY SeqFacts DEF Buffer
<1>2. /\ IsSeq(Tail(b)) /\ Len(Tail(b)) = Len(b) - 1
      /\ \A i \in 1 .. Len(b) - 1 : Tail(b)[i] = b[i + 1]
    BY <1>1, TailSeq
<1>3. D - 1 <= A - 1
    BY DEF Buffer
<1>4. ASSUME NEW k \in 1 .. Len(Tail(b))
      PROVE  k + 1 \in 1 .. Len(b) /\ Tail(b)[k] = b[k + 1] /\ (k + 1 <= A <=> k <= A - 1) /\ (k + 1 <= D <=> k <= D - 1)
    BY <1>1, <1>2
<1>5. ASSUME NEW k \in 1 .. Len(Tail(b))
      PROVE  /\ IsEntry(Tail(b)[k])
             /\ Tail(b)[k].req # None /\ Tail(b)[k].w # None /\ Tail(b)[k].req.id \in EntryIds
             /\ Tail(b)[k].aw = (k <= A - 1) /\ Tail(b)[k].dw = (k <= D - 1)
  <2>1. k + 1 \in 1 .. Len(b) /\ Tail(b)[k] = b[k + 1]
      BY <1>4
  <2>2. /\ IsEntry(b[k + 1])
        /\ b[k + 1].req # None /\ b[k + 1].w # None /\ b[k + 1].req.id \in EntryIds
      BY <2>1 DEF Buffer
  <2>3. b[k + 1].aw = (k + 1 <= A) /\ b[k + 1].dw = (k + 1 <= D)
      BY <2>1 DEF Buffer
  <2>4. (k + 1 <= A) = (k <= A - 1) /\ (k + 1 <= D) = (k <= D - 1)
      BY <1>4
  <2> QED BY <2>1, <2>2, <2>3, <2>4
<1>6. ASSUME NEW j \in 1 .. Len(Tail(b)), NEW k \in 1 .. Len(Tail(b)), Tail(b)[j].req.id = Tail(b)[k].req.id
      PROVE  j = k
  <2>1. j + 1 \in 1 .. Len(b) /\ k + 1 \in 1 .. Len(b) /\ Tail(b)[j] = b[j + 1] /\ Tail(b)[k] = b[k + 1]
      BY <1>4
  <2>2. j + 1 = k + 1
      BY <1>6, <2>1 DEF Buffer
  <2> QED BY <1>1, <2>2
<1> QED BY <1>2, <1>3, <1>5, <1>6 DEF Buffer

\* Removing the first element.
LEMMA WithoutFirst ==
    ASSUME NEW s, IsSeq(s), s # <<>>
    PROVE  DUT!Without(s, 1) = Tail(s)
<1>1. PICK T : s \in Seq(T)
    BY DEF IsSeq
<1>2. Len(s) \in Nat /\ Len(s) >= 1
    BY <1>1
<1>3. SubSeq(s, 1, 1 - 1) = <<>>
    BY <1>1, <1>2
<1>4. SubSeq(s, 1 + 1, Len(s)) = Tail(s)
    BY <1>1, <1>2
<1>5. <<>> \o Tail(s) = Tail(s)
    BY <1>1, <1>2
<1> QED BY <1>3, <1>4, <1>5 DEF DUT!Without

\* The entries not sent are those behind the sent ones, the first of them next to
\* these.
LEMMA FirstUnsent ==
    ASSUME NEW b, NEW A \in Nat, NEW D \in Nat, Buffer(b, A, D)
    PROVE  /\ {j \in DOMAIN b : ~b[j].aw} = {j \in 1 .. Len(b) : j > A}
           /\ \A k \in DUT!First({j \in DOMAIN b : ~b[j].aw}) : k = A + 1 /\ k \in 1 .. Len(b)
           /\ \A k \in DUT!First({j \in DOMAIN b : ~b[j].dw}) : k = D + 1 /\ k \in 1 .. Len(b)
<1>1. IsSeq(b) /\ Len(b) \in Nat /\ DOMAIN b = 1 .. Len(b)
    BY SeqFacts DEF Buffer
<1>2. \A j \in 1 .. Len(b) : (b[j].aw <=> j <= A) /\ (b[j].dw <=> j <= D)
    BY DEF Buffer
<1>3. {j \in DOMAIN b : ~b[j].aw} = {j \in 1 .. Len(b) : j > A}
    BY <1>1, <1>2
<1>4. {j \in DOMAIN b : ~b[j].dw} = {j \in 1 .. Len(b) : j > D}
    BY <1>1, <1>2
<1>5. ASSUME NEW X \in Nat, NEW k \in DUT!First({j \in 1 .. Len(b) : j > X})
      PROVE  k = X + 1 /\ k \in 1 .. Len(b)
  <2>1. k \in 1 .. Len(b) /\ k > X /\ \A j \in 1 .. Len(b) : j > X => k <= j
      BY DEF DUT!First
  <2>2. X + 1 \in 1 .. Len(b)
      BY <1>1, <2>1
  <2> QED BY <1>1, <2>1, <2>2
<1> QED BY <1>3, <1>4, <1>5

\* Entry k is sent behind those sent before, of which f - 1 there are; the others
\* that were before it make room.
AddressSent(b, f, k) ==
    [j \in DOMAIN b |->
        IF j = f THEN WithAw(b[k], TRUE)
        ELSE IF f < j /\ j <= k THEN b[j - 1] ELSE b[j]]

\* The buffer after an address was sent.
LEMMA AddressMarked ==
    ASSUME NEW b, NEW A \in Nat, NEW D \in Nat, NEW f, NEW k, NEW c, Buffer(b, A, D),
           f = A + 1, f \in 1 .. Len(b), k \in 1 .. Len(b), k > A, c = AddressSent(b, f, k)
    PROVE  /\ Buffer(c, f, D)
           /\ Len(c) = Len(b)
           /\ \A j \in 1 .. A : c[j] = b[j]
           /\ c[f].req = b[k].req
<1> DEFINE from(j) == IF j = f THEN k ELSE IF f < j /\ j <= k THEN j - 1 ELSE j
<1>1. IsSeq(b) /\ Len(b) \in Nat /\ DOMAIN b = 1 .. Len(b) /\ D <= A
    BY SeqFacts DEF Buffer
<1>2. /\ IsEntry(WithAw(b[k], TRUE)) /\ WithAw(b[k], TRUE).aw = TRUE
      /\ WithAw(b[k], TRUE).req = b[k].req /\ WithAw(b[k], TRUE).w = b[k].w
      /\ WithAw(b[k], TRUE).dw = b[k].dw
  <2>1. IsEntry(b[k])
      BY DEF Buffer
  <2> QED BY <2>1, EntrySent
<1>3. PICK e : e = WithAw(b[k], TRUE)
    OBVIOUS
<1>4. /\ c = [j \in 1 .. Len(b) |-> c[j]] /\ DOMAIN c = 1 .. Len(b)
      /\ c[f] = e
      /\ \A j \in 1 .. Len(b) : j # f => c[j] = b[from(j)]
    BY <1>1, <1>3 DEF AddressSent
<1>5. /\ \A j \in 1 .. Len(b) : from(j) \in 1 .. Len(b) /\ (j > A => from(j) > A) /\ (j <= A => from(j) = j)
      /\ \A i, j \in 1 .. Len(b) : from(i) = from(j) => i = j
      /\ from(f) = k
    BY <1>1
<1> HIDE DEF from
<1>6. IsSeq(c) /\ Len(c) = Len(b)
  <2>1. PICK T : b \in Seq(T)
      BY <1>1 DEF IsSeq
  <2>2. PICK U : U = T \union {e}
      OBVIOUS
  <2>3. \A j \in 1 .. Len(b) : c[j] \in U
      BY <1>1, <1>4, <1>5, <2>1, <2>2
  <2>4. c \in Seq(U)
      BY <1>1, <1>4, <2>3, FunctionSeq
  <2> QED BY <1>1, <1>4, <2>4 DEF IsSeq
<1>7. ASSUME NEW j \in 1 .. Len(b)
      PROVE  IsEntry(c[j]) /\ c[j].req = b[from(j)].req /\ c[j].w = b[from(j)].w
  <2>1. IsEntry(b[from(j)])
      BY <1>5 DEF Buffer
  <2>2. CASE j = f
      BY <1>2, <1>3, <1>4, <1>5, <2>2
  <2>3. CASE j # f
    <3>1. c[j] = b[from(j)]
        BY <1>4, <2>3
    <3> QED BY <2>1, <3>1
  <2> QED BY <2>2, <2>3
<1>8. ASSUME NEW j \in 1 .. Len(b) PROVE c[j].aw = (j <= f) /\ c[j].dw = (j <= D)
  <2>1. /\ b[from(j)].aw = (from(j) <= A) /\ b[from(j)].dw = (from(j) <= D)
        /\ b[k].dw = (k <= D)
      BY <1>5 DEF Buffer
  <2>2. CASE j = f
    <3>1. (k <= D) = FALSE /\ (j <= D) = FALSE /\ (j <= f) = TRUE
        BY <1>1, <2>2
    <3>2. c[j].aw = TRUE /\ c[j].dw = b[k].dw
        BY <1>2, <1>3, <1>4, <2>2
    <3> QED BY Zenon, <2>1, <3>1, <3>2
  <2>3. CASE j # f
    <3>1. (from(j) <= A) = (j <= f) /\ (from(j) <= D) = (j <= D)
      <4>1. CASE j <= A
          BY <1>1, <1>5, <2>3, <4>1
      <4>2. CASE j > A
        <5>1. from(j) > A /\ from(j) \in Nat
            BY <1>5, <4>2
        <5> QED BY <1>1, <2>3, <4>2, <5>1
      <4> QED BY <4>1, <4>2
    <3> QED BY <1>4, <2>1, <2>3, <3>1
  <2> QED BY <2>2, <2>3
<1>9. ASSUME NEW j \in 1 .. Len(c)
      PROVE  /\ IsEntry(c[j])
             /\ c[j].req # None /\ c[j].w # None /\ c[j].req.id \in EntryIds
             /\ c[j].aw = (j <= f) /\ c[j].dw = (j <= D)
  <2>1. j \in 1 .. Len(b) BY <1>6
  <2>2. /\ b[from(j)].req # None /\ b[from(j)].w # None
        /\ b[from(j)].req.id \in EntryIds
      BY <1>5, <2>1 DEF Buffer
  <2> QED BY <1>7, <1>8, <2>1, <2>2
<1>10. ASSUME NEW i \in 1 .. Len(c), NEW j \in 1 .. Len(c), c[i].req.id = c[j].req.id
       PROVE  i = j
  <2>1. i \in 1 .. Len(b) /\ j \in 1 .. Len(b) BY <1>6
  <2>2. b[from(i)].req.id = b[from(j)].req.id
      BY <1>7, <1>10, <2>1
  <2>3. from(i) = from(j)
      BY <1>5, <2>1, <2>2 DEF Buffer
  <2> QED BY <1>5, <2>1, <2>3
<1>11. D <= f
    BY <1>1
<1>12. Buffer(c, f, D)
    BY <1>6, <1>9, <1>10, <1>11 DEF Buffer
<1>13. \A j \in 1 .. A : c[j] = b[j]
    BY <1>1, <1>4, <1>5
<1> QED BY <1>2, <1>3, <1>4, <1>6, <1>12, <1>13

DataSent(b, k) == [b EXCEPT ![k].dw = TRUE]

\* The buffer after data were sent.
LEMMA DataMarked ==
    ASSUME NEW b, NEW A \in Nat, NEW D \in Nat, NEW k, NEW c, Buffer(b, A, D), k = D + 1, k \in 1 .. Len(b),
           k <= A, c = DataSent(b, k)
    PROVE  /\ Buffer(c, A, k)
           /\ Len(c) = Len(b)
           /\ \A j \in 1 .. Len(b) : c[j].req = b[j].req /\ c[j].w = b[j].w
<1>0. PICK z : z = TRUE /\ c = [b EXCEPT ![k].dw = z]
    BY DEF DataSent
<1>1. IsSeq(b) /\ Len(b) \in Nat /\ DOMAIN b = 1 .. Len(b)
    BY SeqFacts DEF Buffer
<1>2. IsEntry(b[k])
    BY DEF Buffer
<1>3. /\ IsEntry(WithDw(b[k], z)) /\ WithDw(b[k], z).dw = z
      /\ WithDw(b[k], z).req = b[k].req /\ WithDw(b[k], z).w = b[k].w
      /\ WithDw(b[k], z).aw = b[k].aw
    BY <1>2, EntrySent
<1>4. /\ c[k] = WithDw(b[k], z)
      /\ \A j \in 1 .. Len(b) : j # k => c[j] = b[j]
      /\ DOMAIN c = 1 .. Len(b)
    BY <1>0, <1>1 DEF WithAw, WithDw
<1>5. IsSeq(c) /\ Len(c) = Len(b)
  <2>1. PICK T : b \in Seq(T)
      BY <1>1 DEF IsSeq
  <2>2. c \in Seq(T \union {c[k]})
    <3>1. c = [j \in 1 .. Len(b) |-> c[j]]
        BY <1>0, <1>1
    <3>2. \A j \in 1 .. Len(b) : c[j] \in T \union {c[k]}
        BY <1>4, <2>1
    <3>3. PICK U : U = T \union {c[k]}
        OBVIOUS
    <3>4. c \in Seq(U)
        BY <1>1, <3>1, <3>2, <3>3, FunctionSeq
    <3> QED BY <3>3, <3>4
  <2> QED BY <1>1, <1>4, <2>2 DEF IsSeq
<1>6. ASSUME NEW j \in 1 .. Len(b)
      PROVE  /\ IsEntry(c[j])
             /\ c[j].req = b[j].req /\ c[j].w = b[j].w /\ c[j].aw = b[j].aw
             /\ c[j].dw = (j <= k)
  <2>1. CASE j = k
    <3>1. (j <= k) = TRUE
        BY <1>1, <2>1
    <3> QED BY Zenon, <1>0, <1>3, <1>4, <2>1, <3>1
  <2>2. CASE j # k
    <3>1. b[j].dw = (j <= D) BY DEF Buffer
    <3>2. (j <= D) = (j <= k) BY <2>2
    <3>3. IsEntry(b[j]) BY DEF Buffer
    <3> QED BY <1>4, <2>2, <3>1, <3>2, <3>3
  <2> QED BY <2>1, <2>2
<1>8. ASSUME NEW j \in 1 .. Len(c)
      PROVE  /\ IsEntry(c[j])
             /\ c[j].req # None /\ c[j].w # None /\ c[j].req.id \in EntryIds
             /\ c[j].aw = (j <= A) /\ c[j].dw = (j <= k)
  <2>1. j \in 1 .. Len(b) BY <1>5
  <2>2. b[j].req # None /\ b[j].w # None /\ b[j].req.id \in EntryIds /\ b[j].aw = (j <= A)
      BY <2>1 DEF Buffer
  <2> QED BY <1>6, <2>1, <2>2
<1>9. \A i, j \in 1 .. Len(c) : c[i].req.id = c[j].req.id => i = j
    BY <1>5, <1>6 DEF Buffer
<1>10. Buffer(c, A, k)
    BY <1>5, <1>8, <1>9 DEF Buffer
<1> QED BY <1>5, <1>6, <1>10
-----------------------------------------------------------------------------
(* The invariant.  Without an uncached access the writes under way are      *)
(* those of the write buffer; with one they are its own write, if any.      *)

PathOf(L) == Path(L, mem_resp_write, write_resp_fifo, wr, write_req_fifo, write_req_data_fifo,
                  mem_req_write, mem_req_write_data)
AddressFlits == Flits(mem_resp_write, write_resp_fifo, wr, write_req_fifo, mem_req_write)
DataFlits == Flits(mem_resp_write, write_resp_fifo, wr, write_req_data_fifo, mem_req_write_data)

UcState(r, x, y) == [r |-> r, rd |-> x, wr |-> y]
IsUc(u) == \E r, x, y : u = UcState(r, x, y)

\* The write of the uncached access, which waits for its answer.
Sole(e, u) ==
    /\ e.req.id = DUT!UcId /\ e.req.addr = u.r.addr
    /\ u.wr = None /\ ~is_load(u.r) /\ ~is_amo_lr(u.r)

WritesInv ==
    /\ uc = None => PathOf(wbuf) /\ Buffer(wbuf, AddressFlits, DataFlits)
    /\ uc # None => wbuf = <<>> /\ held = <<>> /\ IsUc(uc)
    /\ uc # None => PathOf(<<>>) \/ \E e : Sole(e, uc) /\ PathOf(<<e>>)

\* The fields of the uncached unit.
LEMMA UcFields ==
    ASSUME NEW r, NEW x, NEW y, NEW z
    PROVE  /\ UcState(r, x, y).r = r /\ UcState(r, x, y).rd = x /\ UcState(r, x, y).wr = y
           /\ [UcState(r, x, y) EXCEPT !.rd = z] = UcState(r, z, y)
           /\ [UcState(r, x, y) EXCEPT !.wr = z] = UcState(r, x, z)
BY DEF UcState

\* The variables of the write path.
pathVars == <<mem_resp_write, write_resp_fifo, wr, write_req_fifo, write_req_data_fifo,
              mem_req_write, mem_req_write_data>>

\* The path is a function of its variables.
LEMMA PathUnchanged ==
    ASSUME NEW L, UNCHANGED pathVars, PathOf(L)
    PROVE  PathOf(L)' /\ AddressFlits' = AddressFlits /\ DataFlits' = DataFlits
BY DEF pathVars, PathOf, AddressFlits, DataFlits

\* A step that touches neither the path nor the buffer keeps the invariant.
LEMMA FrameStep ==
    ASSUME WritesInv, UNCHANGED <<pathVars, wbuf, uc>>, uc # None => held' = held
    PROVE  WritesInv'
<1>1. pathVars' = pathVars /\ wbuf' = wbuf /\ uc' = uc
    OBVIOUS
<1>2. AddressFlits' = AddressFlits /\ DataFlits' = DataFlits
    BY <1>1 DEF pathVars, AddressFlits, DataFlits
<1>3. uc = None => PathOf(wbuf)' /\ Buffer(wbuf, AddressFlits, DataFlits)'
  <2>1. uc = None => PathOf(wbuf)'
      BY <1>1 DEF pathVars, PathOf, WritesInv
  <2>2. uc = None => Buffer(wbuf', AddressFlits', DataFlits')
      BY <1>1, <1>2 DEF WritesInv
  <2>3. Buffer(wbuf', AddressFlits', DataFlits') => Buffer(wbuf, AddressFlits, DataFlits)'
      BY DEF Buffer
  <2> QED BY <2>1, <2>2, <2>3
<1>4. uc # None => PathOf(<<>>)' \/ \E e : Sole(e, uc) /\ PathOf(<<e>>)'
    BY <1>1, PathUnchanged DEF WritesInv
<1> QED BY <1>1, <1>3, <1>4 DEF WritesInv

\* Whatever the threads of the memory do, the writes under way stay the same.
LEMMA MemoryPath ==
    ASSUME NextMem, NoneApart, NEW L, PathOf(L)
    PROVE  PathOf(L)' /\ AddressFlits' = AddressFlits /\ DataFlits' = DataFlits
<1>1. CASE read_process \/ readReady \/ readOperation \/ read_response_process
  <2>1. UNCHANGED pathVars
      BY <1>1 DEF read_process, readReady, readOperation, read_response_process, pathVars, writeWires
  <2> QED BY <2>1, PathUnchanged
<1>2. CASE write_address_process
  <2>1. /\ mem_req_write # None
        /\ write_req_fifo' = Append(write_req_fifo, mem_req_write) /\ mem_req_write' = None
        /\ UNCHANGED <<mem_resp_write, write_resp_fifo, wr, write_req_data_fifo, mem_req_write_data>>
      BY <1>2 DEF write_address_process
  <2>2. /\ Path(L, mem_resp_write, write_resp_fifo, wr, Append(write_req_fifo, mem_req_write),
                write_req_data_fifo, None, mem_req_write_data)
        /\ Flits(mem_resp_write, write_resp_fifo, wr, Append(write_req_fifo, mem_req_write), None)
           = AddressFlits
      BY <2>1, AddressTaken DEF PathOf, AddressFlits
  <2> QED BY <2>1, <2>2 DEF PathOf, AddressFlits, DataFlits
<1>3. CASE write_data_process
  <2>1. /\ mem_req_write_data # None
        /\ write_req_data_fifo' = Append(write_req_data_fifo, mem_req_write_data) /\ mem_req_write_data' = None
        /\ UNCHANGED <<mem_resp_write, write_resp_fifo, wr, write_req_fifo, mem_req_write>>
      BY <1>3 DEF write_data_process
  <2>2. /\ Path(L, mem_resp_write, write_resp_fifo, wr, write_req_fifo,
                Append(write_req_data_fifo, mem_req_write_data), mem_req_write, None)
        /\ Flits(mem_resp_write, write_resp_fifo, wr, Append(write_req_data_fifo, mem_req_write_data), None)
           = DataFlits
      BY <2>1, DataTaken DEF PathOf, DataFlits
  <2> QED BY <2>1, <2>2 DEF PathOf, AddressFlits, DataFlits
<1>4. CASE write_process
  <2>1. /\ wr = None /\ write_req_fifo # <<>> /\ write_req_data_fifo # <<>>
        /\ wr' = [req |-> Head(write_req_fifo), w |-> Head(write_req_data_fifo)]
        /\ write_req_fifo' = Tail(write_req_fifo) /\ write_req_data_fifo' = Tail(write_req_data_fifo)
        /\ UNCHANGED <<mem_resp_write, write_resp_fifo, mem_req_write, mem_req_write_data>>
      BY <1>4 DEF write_process, writeWires
  <2>2. wr' = Pair(write_req_fifo, write_req_data_fifo) /\ Pair(write_req_fifo, write_req_data_fifo) # None
      BY <2>1 DEF NoneApart, Pair
  <2>3. PICK y : y = wr'
      OBVIOUS
  <2>4. Path(L, mem_resp_write, write_resp_fifo, None, write_req_fifo, write_req_data_fifo,
             mem_req_write, mem_req_write_data)
      BY <2>1 DEF PathOf
  <2>5. /\ Path(L, mem_resp_write, write_resp_fifo, y, Tail(write_req_fifo), Tail(write_req_data_fifo),
                mem_req_write, mem_req_write_data)
        /\ Flits(mem_resp_write, write_resp_fifo, y, Tail(write_req_fifo), mem_req_write)
           = Flits(mem_resp_write, write_resp_fifo, None, write_req_fifo, mem_req_write)
        /\ Flits(mem_resp_write, write_resp_fifo, y, Tail(write_req_data_fifo), mem_req_write_data)
           = Flits(mem_resp_write, write_resp_fifo, None, write_req_data_fifo, mem_req_write_data)
      BY <2>1, <2>2, <2>3, <2>4, FlitsJoined
  <2> QED BY <2>1, <2>3, <2>5 DEF PathOf, AddressFlits, DataFlits
<1>5. CASE writeOperation
  <2>1. /\ wr # None /\ wr' = None
        /\ UNCHANGED <<mem_resp_write, write_req_fifo, write_req_data_fifo, mem_req_write, mem_req_write_data>>
      BY <1>5 DEF writeOperation, writeWires
  <2>2. \E x, y : write_resp_fifo' = Append(write_resp_fifo, MemWriteResp(wr.req.id, x, y))
      BY <1>5 DEF writeOperation
  <2>3. PICK r : write_resp_fifo' = Append(write_resp_fifo, r) /\ r # None /\ r.id = wr.req.id
    <3>1. PICK x, y : write_resp_fifo' = Append(write_resp_fifo, MemWriteResp(wr.req.id, x, y))
        BY <2>2
    <3>2. MemWriteResp(wr.req.id, x, y) # None /\ MemWriteResp(wr.req.id, x, y).id = wr.req.id
      <4>1. MemWriteResp(wr.req.id, x, y) # None BY DEF NoneApart
      <4>2. MemWriteResp(wr.req.id, x, y).id = wr.req.id BY DEF MemWriteResp
      <4> QED BY <4>1, <4>2
    <3> QED BY <3>1, <3>2
  <2>4. /\ Path(L, mem_resp_write, Append(write_resp_fifo, r), None, write_req_fifo, write_req_data_fifo,
                mem_req_write, mem_req_write_data)
        /\ Flits(mem_resp_write, Append(write_resp_fifo, r), None, write_req_fifo, mem_req_write)
           = AddressFlits
        /\ Flits(mem_resp_write, Append(write_resp_fifo, r), None, write_req_data_fifo, mem_req_write_data)
           = DataFlits
      BY <2>1, <2>3, WriteDone DEF PathOf, AddressFlits, DataFlits
  <2> QED BY <2>1, <2>3, <2>4 DEF PathOf, AddressFlits, DataFlits
<1>6. CASE write_response_process
  <2>1. /\ mem_resp_write = None /\ write_resp_fifo # <<>>
        /\ mem_resp_write' = Head(write_resp_fifo) /\ write_resp_fifo' = Tail(write_resp_fifo)
        /\ UNCHANGED <<wr, write_req_fifo, write_req_data_fifo, mem_req_write, mem_req_write_data>>
      BY <1>6 DEF write_response_process
  <2>2. Path(L, None, write_resp_fifo, wr, write_req_fifo, write_req_data_fifo, mem_req_write, mem_req_write_data)
      BY <2>1 DEF PathOf
  <2>3. /\ Path(L, Head(write_resp_fifo), Tail(write_resp_fifo), wr, write_req_fifo, write_req_data_fifo,
                mem_req_write, mem_req_write_data)
        /\ Flits(Head(write_resp_fifo), Tail(write_resp_fifo), wr, write_req_fifo, mem_req_write)
           = Flits(None, write_resp_fifo, wr, write_req_fifo, mem_req_write)
        /\ Flits(Head(write_resp_fifo), Tail(write_resp_fifo), wr, write_req_data_fifo, mem_req_write_data)
           = Flits(None, write_resp_fifo, wr, write_req_data_fifo, mem_req_write_data)
      BY <2>1, <2>2, AnswerShown
  <2> QED BY <2>1, <2>3 DEF PathOf, AddressFlits, DataFlits
<1> QED BY <1>1, <1>2, <1>3, <1>4, <1>5, <1>6 DEF NextMem

\* The threads of the memory keep the invariant.
LEMMA MemoryKeeps ==
    ASSUME WritesInv, NoneApart, Memory
    PROVE  WritesInv'
<1>1. NextMem /\ UNCHANGED <<wbuf, uc, held>>
    BY DEF Memory, dutOwn
<1>2. uc = None => PathOf(wbuf)' /\ Buffer(wbuf, AddressFlits, DataFlits)'
  <2> SUFFICES ASSUME uc = None PROVE PathOf(wbuf)' /\ Buffer(wbuf, AddressFlits, DataFlits)'
      OBVIOUS
  <2>1. PICK L : L = wbuf
      OBVIOUS
  <2>2. PathOf(L) /\ Buffer(L, AddressFlits, DataFlits)
      BY <2>1 DEF WritesInv
  <2>3. PathOf(L)' /\ AddressFlits' = AddressFlits /\ DataFlits' = DataFlits
      BY <1>1, <2>2, MemoryPath
  <2>4. PathOf(wbuf)'
      BY <1>1, <2>1, <2>3 DEF PathOf
  <2>5. Buffer(wbuf', AddressFlits', DataFlits')
      BY <1>1, <2>1, <2>2, <2>3
  <2>6. Buffer(wbuf', AddressFlits', DataFlits') => Buffer(wbuf, AddressFlits, DataFlits)'
      BY DEF Buffer
  <2> QED BY <2>4, <2>5, <2>6
<1>3. uc # None => PathOf(<<>>)' \/ \E e : Sole(e, uc) /\ PathOf(<<e>>)'
  <2>1. CASE PathOf(<<>>)
      BY <1>1, <2>1, MemoryPath
  <2>2. ASSUME NEW e, Sole(e, uc), PathOf(<<e>>) PROVE PathOf(<<e>>)'
      BY <1>1, <2>2, MemoryPath
  <2> QED BY <2>1, <2>2 DEF WritesInv
<1> QED BY <1>1, <1>2, <1>3 DEF WritesInv

\* Where the writes under way are those of the buffer, the counts are within it.
LEMMA BufferedCounts ==
    ASSUME PathOf(wbuf)
    PROVE  /\ AddressFlits \in Nat /\ DataFlits \in Nat /\ IsSeq(wbuf) /\ Len(wbuf) \in Nat
           /\ AddressFlits <= Len(wbuf) /\ DataFlits <= Len(wbuf)
<1>1. IsSeq(wbuf) /\ IsSeq(write_resp_fifo) /\ IsSeq(write_req_fifo) /\ IsSeq(write_req_data_fifo)
    BY DEF PathOf, Path
<1>2. AddressFlits \in Nat /\ DataFlits \in Nat
    BY <1>1, Counts DEF AddressFlits, DataFlits
<1>3. AddressFlits <= Len(wbuf) /\ DataFlits <= Len(wbuf)
    BY DEF PathOf, Path, AddressFlits, DataFlits
<1> QED BY <1>1, <1>2, <1>3, SeqFacts

\* A step that leaves no uncached access keeps the invariant if it keeps the
\* writes of the buffer.
LEMMA BufferedKeeps ==
    ASSUME uc' = None, NEW L, L = wbuf', NEW A, A = AddressFlits', NEW D, D = DataFlits',
           PathOf(L)', Buffer(L, A, D)
    PROVE  WritesInv'
<1>1. PathOf(wbuf)'
    BY DEF PathOf
<1>2. Buffer(wbuf', AddressFlits', DataFlits')
    OBVIOUS
<1>3. Buffer(wbuf', AddressFlits', DataFlits') => Buffer(wbuf, AddressFlits, DataFlits)'
    BY DEF Buffer
<1> QED BY <1>1, <1>2, <1>3 DEF WritesInv

\* Cache and memory speak of the same transactions.
LEMMA SameFlits ==
    ASSUME NEW i, NEW a, NEW s, NEW t
    PROVE  /\ DUT!MemWriteReq(i, a, s, t) = MemWriteReq(i, a, s, t)
           /\ DUT!MemWriteData(i, a) = MemWriteData(i, a)
           /\ DUT!is_load(i) = is_load(i) /\ DUT!is_amo_lr(i) = is_amo_lr(i)
BY Zenon DEF DUT!MemWriteReq, DUT!MemWriteData, DUT!is_load, DUT!is_amo_lr,
             MemWriteReq, MemWriteData, is_load, is_amo_lr

\* A step of the cache that adds a write to the buffer.
LEMMA WriteKeeps ==
    ASSUME WritesInv, SizesFit, NoneApart, uc = None, uc' = uc, UNCHANGED pathVars,
           NEW ws, ws \subseteq EntryIds, NEW a, NEW z, NEW data, NEW be,
           DUT!Write(ws, a, z, data, be)
    PROVE  WritesInv'
<1>1. PathOf(wbuf) /\ Buffer(wbuf, AddressFlits, DataFlits)
    BY DEF WritesInv
<1>2. PICK id \in DUT!WriteIds(ws) :
        wbuf' = Append(wbuf, EntryOf(DUT!MemWriteReq(id, a, z, None), DUT!MemWriteData(data, be)))
    BY DEF DUT!Write, EntryOf, Entry
<1>3. PICK r, w : wbuf' = Append(wbuf, EntryOf(r, w)) /\ r # None /\ w # None /\ r.id = id
  <2>1. wbuf' = Append(wbuf, EntryOf(MemWriteReq(id, a, z, None), MemWriteData(data, be)))
      BY Zenon, <1>2, SameFlits
  <2>2. MemWriteReq(id, a, z, None) # None /\ MemWriteData(data, be) # None
      BY DEF NoneApart
  <2>3. MemWriteReq(id, a, z, None).id = id
      BY DEF MemWriteReq
  <2> QED BY <2>1, <2>2, <2>3
<1>4. r.id \in EntryIds /\ \A k \in DOMAIN wbuf : wbuf[k].req.id # r.id
    BY <1>3 DEF DUT!WriteIds
<1>5. AddressFlits' = AddressFlits /\ DataFlits' = DataFlits
    BY DEF pathVars, AddressFlits, DataFlits
<1>6. PICK K : K = Append(wbuf, EntryOf(r, w))
    OBVIOUS
<1>7. Buffer(K, AddressFlits, DataFlits)
    BY <1>1, <1>3, <1>4, <1>6, BufferedCounts, EntryTaken
<1>8. PathOf(K)
  <2>1. /\ IsSeq(K) /\ Len(K) = Len(wbuf) + 1 /\ Len(wbuf) \in Nat
        /\ \A k \in 1 .. Len(wbuf) : K[k] = wbuf[k]
      BY <1>1, <1>6, BufferedCounts, AppendSeq
  <2>2. /\ Len(wbuf) <= Len(K) /\ AddressFlits <= Len(wbuf) /\ DataFlits <= Len(wbuf)
        /\ \A k \in 1 .. Len(wbuf) : K[k].req = wbuf[k].req /\ K[k].w = wbuf[k].w
      BY <1>1, <2>1, BufferedCounts
  <2> QED BY <1>1, <2>1, <2>2, PathAgrees DEF PathOf, AddressFlits, DataFlits
<1>9. PathOf(K)'
    BY <1>8, PathUnchanged
<1> QED BY <1>3, <1>5, <1>6, <1>7, <1>9, BufferedKeeps

\* A step that adds a write, a line to be flushed, or nothing.
LEMMA WriteOrNotKeeps ==
    ASSUME WritesInv, SizesFit, NoneApart, uc = None, uc' = uc, UNCHANGED pathVars,
           \/ wbuf' = wbuf
           \/ \E l : DUT!Flush(l)
           \/ \E a, z, data, be : DUT!Write(WbufIds, a, z, data, be)
    PROVE  WritesInv'
<1>1. CASE wbuf' = wbuf
    BY <1>1, FrameStep
<1>2. ASSUME NEW l, DUT!Flush(l) PROVE WritesInv'
  <2>1. FlushIds \subseteq EntryIds
      BY DEF EntryIds
  <2>2. PICK a, z, data, be : DUT!Write(FlushIds, a, z, data, be)
      BY <1>2 DEF DUT!Flush
  <2> QED BY <2>1, <2>2, WriteKeeps
<1>3. ASSUME NEW a, NEW z, NEW data, NEW be, DUT!Write(WbufIds, a, z, data, be) PROVE WritesInv'
  <2>1. WbufIds \subseteq EntryIds
      BY DEF EntryIds
  <2> QED BY <1>3, <2>1, WriteKeeps
<1> QED BY <1>1, <1>2, <1>3

\* The cache sends an address.
LEMMA SendAddressKeeps ==
    ASSUME WritesInv, DUT!SendAddress, UNCHANGED memOwn
    PROVE  WritesInv'
<1>1. PICK f \in DUT!First({j \in DOMAIN wbuf : ~wbuf[j].aw}), k \in {j \in DOMAIN wbuf : ~wbuf[j].aw} :
        mem_req_write' = wbuf[k].req /\ wbuf' = AddressSent(wbuf, f, k)
    BY DEF DUT!SendAddress, DUT!Unsent, DUT!Granted, AddressSent, WithAw
<1>2. /\ mem_req_write = None /\ uc' = uc
      /\ UNCHANGED <<mem_resp_write, write_resp_fifo, wr, write_req_fifo, write_req_data_fifo, mem_req_write_data>>
    BY DEF DUT!SendAddress, memOwn
<1>3. uc = None
  <2>1. k \in DOMAIN wbuf BY <1>1
  <2> QED BY <2>1 DEF WritesInv
<1>4. PathOf(wbuf) /\ Buffer(wbuf, AddressFlits, DataFlits)
    BY <1>3 DEF WritesInv
<1>5. AddressFlits \in Nat /\ DataFlits \in Nat /\ IsSeq(wbuf) /\ Len(wbuf) \in Nat
    BY <1>4, BufferedCounts
<1>6. f = AddressFlits + 1 /\ f \in 1 .. Len(wbuf) /\ k \in 1 .. Len(wbuf) /\ k > AddressFlits
    BY <1>1, <1>4, <1>5, FirstUnsent
<1>7. PICK K : K = AddressSent(wbuf, f, k)
    OBVIOUS
<1>8. /\ Buffer(K, f, DataFlits) /\ Len(K) = Len(wbuf)
      /\ \A j \in 1 .. AddressFlits : K[j] = wbuf[j]
      /\ K[f].req = wbuf[k].req
    BY <1>4, <1>5, <1>6, <1>7, AddressMarked
<1>9. wbuf[k].req # None
    BY <1>4, <1>6 DEF Buffer
<1>10. PathOf(K)
  <2>1. /\ IsSeq(K) /\ AddressFlits <= Len(K) /\ AddressFlits <= AddressFlits /\ DataFlits <= AddressFlits
        /\ \A j \in 1 .. AddressFlits : K[j].req = wbuf[j].req /\ K[j].w = wbuf[j].w
      BY <1>4, <1>5, <1>6, <1>8 DEF Buffer
  <2> QED BY <1>4, <1>5, <2>1, PathAgrees DEF PathOf, AddressFlits, DataFlits
<1>11. /\ Path(K, mem_resp_write, write_resp_fifo, wr, write_req_fifo, write_req_data_fifo,
               K[f].req, mem_req_write_data)
       /\ Flits(mem_resp_write, write_resp_fifo, wr, write_req_fifo, K[f].req) = f
  <2>1. Path(K, mem_resp_write, write_resp_fifo, wr, write_req_fifo, write_req_data_fifo,
             None, mem_req_write_data)
      BY <1>2, <1>10 DEF PathOf
  <2>2. f = Flits(mem_resp_write, write_resp_fifo, wr, write_req_fifo, None) + 1 /\ f <= Len(K)
      BY <1>2, <1>5, <1>6, <1>8 DEF AddressFlits
  <2> QED BY <1>8, <1>9, <2>1, <2>2, AddressShown
<1>12. PathOf(K)'
    BY <1>1, <1>2, <1>8, <1>11 DEF PathOf
<1>13. AddressFlits' = f /\ DataFlits' = DataFlits
    BY <1>1, <1>2, <1>8, <1>11 DEF AddressFlits, DataFlits
<1> QED BY <1>1, <1>2, <1>3, <1>7, <1>8, <1>12, <1>13, BufferedKeeps

\* The cache sends data.
LEMMA SendDataKeeps ==
    ASSUME WritesInv, DUT!SendData, UNCHANGED memOwn
    PROVE  WritesInv'
<1>1. PICK k \in DUT!First({j \in DOMAIN wbuf : ~wbuf[j].dw}) :
        wbuf[k].aw /\ mem_req_write_data' = wbuf[k].w /\ wbuf' = DataSent(wbuf, k)
    BY DEF DUT!SendData, DataSent
<1>2. /\ mem_req_write_data = None /\ uc' = uc
      /\ UNCHANGED <<mem_resp_write, write_resp_fifo, wr, write_req_fifo, write_req_data_fifo, mem_req_write>>
    BY DEF DUT!SendData, memOwn
<1>3. uc = None
  <2>1. k \in DOMAIN wbuf BY <1>1 DEF DUT!First
  <2> QED BY <2>1 DEF WritesInv
<1>4. PathOf(wbuf) /\ Buffer(wbuf, AddressFlits, DataFlits)
    BY <1>3 DEF WritesInv
<1>5. AddressFlits \in Nat /\ DataFlits \in Nat /\ IsSeq(wbuf) /\ Len(wbuf) \in Nat
    BY <1>4, BufferedCounts
<1>6. k = DataFlits + 1 /\ k \in 1 .. Len(wbuf)
    BY <1>1, <1>4, <1>5, FirstUnsent
<1>7. wbuf[k].w # None
    BY <1>4, <1>6 DEF Buffer
<1>8. /\ Path(wbuf, mem_resp_write, write_resp_fifo, wr, write_req_fifo, write_req_data_fifo,
              mem_req_write, wbuf[k].w)
      /\ Flits(mem_resp_write, write_resp_fifo, wr, write_req_data_fifo, wbuf[k].w) = k
  <2>1. Path(wbuf, mem_resp_write, write_resp_fifo, wr, write_req_fifo, write_req_data_fifo,
             mem_req_write, None)
      BY <1>2, <1>4 DEF PathOf
  <2>2. k = Flits(mem_resp_write, write_resp_fifo, wr, write_req_data_fifo, None) + 1 /\ k <= Len(wbuf)
      BY <1>2, <1>5, <1>6 DEF DataFlits
  <2> QED BY <1>7, <2>1, <2>2, DataShown
<1>9. PICK K : K = DataSent(wbuf, k)
    OBVIOUS
<1>10. /\ Buffer(K, AddressFlits, k) /\ Len(K) = Len(wbuf)
       /\ \A j \in 1 .. Len(wbuf) : K[j].req = wbuf[j].req /\ K[j].w = wbuf[j].w
  <2>1. k <= AddressFlits
      BY <1>1, <1>4, <1>6 DEF Buffer
  <2> QED BY <1>4, <1>5, <1>6, <1>9, <2>1, DataMarked
<1>11. /\ IsSeq(K) /\ Len(wbuf) <= Len(K) /\ AddressFlits <= Len(wbuf) /\ k <= Len(wbuf)
    BY <1>4, <1>5, <1>6, <1>10, BufferedCounts DEF Buffer
<1>12. Path(K, mem_resp_write, write_resp_fifo, wr, write_req_fifo, write_req_data_fifo,
            mem_req_write, wbuf[k].w)
    BY <1>5, <1>8, <1>10, <1>11, PathAgrees DEF AddressFlits
<1>13. PathOf(K)'
    BY <1>1, <1>2, <1>12 DEF PathOf
<1>14. AddressFlits' = AddressFlits /\ DataFlits' = k
    BY <1>1, <1>2, <1>8 DEF AddressFlits, DataFlits
<1> QED BY <1>1, <1>2, <1>3, <1>9, <1>10, <1>13, <1>14, BufferedKeeps

\* A sequence of one write.
LEMMA OneWrite ==
    ASSUME NEW e
    PROVE  IsSeq(<<e>>) /\ Len(<<e>>) = 1 /\ <<e>>[1] = e /\ Tail(<<e>>) = <<>> /\ <<e>> # <<>>
<1>1. <<e>> \in Seq({e})
    BY SMT
<1>2. Len(<<e>>) = 1 /\ <<e>>[1] = e /\ <<e>> # <<>>
    BY SMT
<1>3. IsSeq(<<e>>)
    BY <1>1 DEF IsSeq
<1>4. Tail(<<e>>) = <<>>
  <2> SUFFICES ASSUME NEW s, IsSeq(s), Len(s) = 1, s # <<>> PROVE Tail(s) = <<>>
      BY <1>2, <1>3
  <2>1. IsSeq(Tail(s)) /\ Len(Tail(s)) = 0
      BY TailSeq
  <2> QED BY <2>1, SeqFacts
<1> QED BY <1>2, <1>3, <1>4

\* The answer of a buffered write is for the oldest entry.
LEMMA AcknowledgedKeeps ==
    ASSUME WritesInv, DUT!WriteAcknowledged, UNCHANGED memOwn
    PROVE  WritesInv'
<1>1. PICK k \in DOMAIN wbuf : wbuf[k].req.id = mem_resp_write.id /\ wbuf' = DUT!Without(wbuf, k)
    BY DEF DUT!WriteAcknowledged
<1>2. /\ mem_resp_write # None /\ mem_resp_write' = None /\ uc' = uc
      /\ UNCHANGED <<write_resp_fifo, wr, write_req_fifo, write_req_data_fifo, mem_req_write, mem_req_write_data>>
    BY DEF DUT!WriteAcknowledged, memOwn
<1>3. uc = None
    BY <1>1 DEF WritesInv
<1>4. PathOf(wbuf) /\ Buffer(wbuf, AddressFlits, DataFlits)
    BY <1>3 DEF WritesInv
<1>5. AddressFlits \in Nat /\ DataFlits \in Nat /\ IsSeq(wbuf) /\ Len(wbuf) \in Nat
    BY <1>4, BufferedCounts
<1>6. /\ wbuf # <<>> /\ mem_resp_write.id = wbuf[1].req.id
      /\ Path(Tail(wbuf), None, write_resp_fifo, wr, write_req_fifo, write_req_data_fifo,
              mem_req_write, mem_req_write_data)
      /\ Flits(None, write_resp_fifo, wr, write_req_fifo, mem_req_write) = AddressFlits - 1
      /\ Flits(None, write_resp_fifo, wr, write_req_data_fifo, mem_req_write_data) = DataFlits - 1
    BY <1>2, <1>4, OldestLeaves DEF PathOf, AddressFlits, DataFlits
<1>7. k = 1
  <2>1. 1 \in 1 .. Len(wbuf) /\ k \in 1 .. Len(wbuf)
      BY <1>1, <1>5, <1>6, SeqFacts
  <2> QED BY <1>1, <1>4, <1>6, <2>1 DEF Buffer
<1>8. wbuf' = Tail(wbuf)
    BY <1>1, <1>5, <1>6, <1>7, WithoutFirst
<1>9. PICK K : K = Tail(wbuf)
    OBVIOUS
<1>10. Buffer(K, AddressFlits - 1, DataFlits - 1)
    BY <1>4, <1>5, <1>6, <1>9, EntryFreed
<1>11. PathOf(K)'
    BY <1>2, <1>6, <1>9 DEF PathOf
<1>12. AddressFlits' = AddressFlits - 1 /\ DataFlits' = DataFlits - 1
    BY <1>2, <1>6 DEF AddressFlits, DataFlits
<1> QED BY <1>2, <1>3, <1>8, <1>9, <1>10, <1>11, <1>12, BufferedKeeps

\* With an empty buffer nothing is under way.
LEMMA EmptyPath ==
    ASSUME PathOf(<<>>)
    PROVE  /\ mem_resp_write = None /\ write_resp_fifo = <<>> /\ wr = None
           /\ write_req_fifo = <<>> /\ write_req_data_fifo = <<>>
           /\ mem_req_write = None /\ mem_req_write_data = None
<1>1. IsSeq(write_resp_fifo) /\ IsSeq(write_req_fifo) /\ IsSeq(write_req_data_fifo)
    BY DEF PathOf, Path
<1>2. AddressFlits <= 0 /\ DataFlits <= 0
    BY EmptySeq DEF PathOf, Path, AddressFlits, DataFlits
<1>3. /\ Len(write_resp_fifo) \in Nat /\ Len(write_req_fifo) \in Nat /\ Len(write_req_data_fifo) \in Nat
      /\ N1(mem_resp_write) \in {0, 1} /\ N1(wr) \in {0, 1}
      /\ N1(mem_req_write) \in {0, 1} /\ N1(mem_req_write_data) \in {0, 1}
    BY <1>1, SeqFacts DEF N1
<1>4. /\ Len(write_resp_fifo) = 0 /\ Len(write_req_fifo) = 0 /\ Len(write_req_data_fifo) = 0
      /\ N1(mem_resp_write) = 0 /\ N1(wr) = 0 /\ N1(mem_req_write) = 0 /\ N1(mem_req_write_data) = 0
    BY <1>2, <1>3 DEF AddressFlits, DataFlits, Flits, Joined, Acked
<1> QED BY <1>1, <1>4, SeqFacts DEF N1

\* A single write whose two flits are on the wires.
LEMMA SingleWrite ==
    ASSUME NEW r, NEW w, r # None, w # None
    PROVE  \E e : e.req = r /\ Path(<<e>>, None, <<>>, None, <<>>, <<>>, r, w)
<1> DEFINE e == EntryOf(r, w)
<1>1. e.req = r /\ e.w = w
    BY DEF EntryOf, Entry
<1> HIDE DEF e
<1>2. /\ N1(None) = 0 /\ N1(r) = 1 /\ N1(w) = 1 /\ IsSeq(<<>>) /\ Len(<<>>) = 0
      /\ IsSeq(<<e>>) /\ Len(<<e>>) = 1 /\ <<e>>[1] = e
    BY EmptySeq, OneWrite DEF N1
<1>3. Acked(None, <<>>) = 0 /\ Joined(None, <<>>, None) = 0
    BY <1>2 DEF Acked, Joined
<1>4. Flits(None, <<>>, None, <<>>, r) = 1 /\ Flits(None, <<>>, None, <<>>, w) = 1
    BY <1>2, <1>3 DEF Flits
<1>5. Joined(None, <<>>, None) + Len(<<>>) + 1 = 1
    BY <1>2, <1>3
<1>6. \A i \in 1 .. Len(<<>>) : FALSE
    BY <1>2
<1>7. Path(<<e>>, None, <<>>, None, <<>>, <<>>, r, w)
    BY <1>1, <1>2, <1>4, <1>5, <1>6 DEF Path
<1> QED BY <1>1, <1>7

\* Nothing under way, and nothing in the buffer.
LEMMA EmptyFlits == Flits(None, <<>>, None, <<>>, None) = 0
<1>1. Len(<<>>) = 0 /\ N1(None) = 0
    BY EmptySeq DEF N1
<1> QED BY <1>1 DEF Flits, Joined, Acked

LEMMA EmptyBuffer == Buffer(<<>>, 0, 0)
<1>1. \A i \in 1 .. Len(<<>>) : FALSE
    BY EmptySeq
<1> QED BY <1>1, EmptySeq DEF Buffer

\* An uncached access starts with nothing under way, and with its own write or none.
LEMMA StartKeeps ==
    ASSUME WritesInv, NoneApart, DUT!StartUncached, UNCHANGED memOwn
    PROVE  WritesInv'
<1> DEFINE r == held[1]
<1>1. /\ wbuf = <<>> /\ uc = None /\ held' = <<>> /\ wbuf' = wbuf /\ mem_resp_write' = mem_resp_write
      /\ UNCHANGED <<write_resp_fifo, wr, write_req_fifo, write_req_data_fifo>>
    BY DEF DUT!StartUncached, DUT!Alone, memOwn
<1>2. PathOf(<<>>)
    BY <1>1 DEF WritesInv
<1>3. /\ mem_resp_write = None /\ write_resp_fifo = <<>> /\ wr = None
      /\ write_req_fifo = <<>> /\ write_req_data_fifo = <<>>
      /\ mem_req_write = None /\ mem_req_write_data = None
    BY <1>2, EmptyPath
<1>4. CASE UNCHANGED <<uc, mem_req_write, mem_req_write_data>>
  <2>1. UNCHANGED <<pathVars, wbuf, uc>>
      BY <1>1, <1>4 DEF pathVars
  <2> QED BY <1>1, <2>1, FrameStep
<1>5. CASE uc' = UcState(r, None, None) /\ UNCHANGED <<mem_req_write, mem_req_write_data>>
  <2>1. UNCHANGED pathVars
      BY <1>1, <1>5 DEF pathVars
  <2>2. PathOf(<<>>)'
      BY <1>2, <2>1, PathUnchanged
  <2>3. uc' # None /\ IsUc(uc')
      BY <1>5 DEF NoneApart, IsUc, UcState
  <2> QED BY <1>1, <2>2, <2>3 DEF WritesInv
<1>6. ASSUME NEW x, NEW y, uc' = UcState(r, None, None), ~is_load(r), ~is_amo_lr(r),
             mem_req_write' = x, mem_req_write_data' = y, x # None, y # None,
             x.id = DUT!UcId, x.addr = r.addr
      PROVE  WritesInv'
  <2>1. PICK e : e.req = x /\ Path(<<e>>, None, <<>>, None, <<>>, <<>>, x, y)
      BY <1>6, SingleWrite
  <2>2. PathOf(<<e>>)'
      BY <1>1, <1>3, <1>6, <2>1 DEF PathOf
  <2>3. uc' # None /\ IsUc(uc')
      BY <1>6 DEF NoneApart, IsUc, UcState
  <2>4. uc'.r = r /\ uc'.wr = None
      BY <1>6, UcFields
  <2>5. Sole(e, uc')
      BY <1>6, <2>1, <2>4 DEF Sole
  <2>6. Sole(e, uc)'
      BY <2>5 DEF Sole
  <2> QED BY <1>1, <2>2, <2>3, <2>6 DEF WritesInv
<1>7. \/ UNCHANGED <<uc, mem_req_write, mem_req_write_data>>
      \/ uc' = UcState(r, None, None) /\ UNCHANGED <<mem_req_write, mem_req_write_data>>
      \/ /\ uc' = UcState(r, None, None) /\ ~is_load(r) /\ ~is_amo_lr(r)
         /\ \E a, b, c : /\ mem_req_write' = MemWriteReq(DUT!UcId, r.addr, a, b)
                         /\ mem_req_write_data' = MemWriteData([x \in {DUT!WordOf(r.addr)} |-> DUT!AtopData(r.op, r.wdata)], c)
  <2>1. \/ UNCHANGED <<uc, mem_req_write, mem_req_write_data>>
        \/ uc' = UcState(r, None, None) /\ UNCHANGED <<mem_req_write, mem_req_write_data>>
        \/ /\ uc' = UcState(r, None, None) /\ ~DUT!is_load(r) /\ ~DUT!is_amo_lr(r)
           /\ \E a, b, c : /\ mem_req_write' = DUT!MemWriteReq(DUT!UcId, r.addr, a, b)
                           /\ mem_req_write_data' = DUT!MemWriteData([x \in {DUT!WordOf(r.addr)} |-> DUT!AtopData(r.op, r.wdata)], c)
      BY DEF DUT!StartUncached, UcState
  <2>2. DUT!is_load(r) = is_load(r) /\ DUT!is_amo_lr(r) = is_amo_lr(r)
      BY Zenon, SameFlits
  <2>3. ASSUME NEW a, NEW b, NEW c, NEW d
        PROVE  /\ DUT!MemWriteReq(DUT!UcId, r.addr, a, b) = MemWriteReq(DUT!UcId, r.addr, a, b)
               /\ DUT!MemWriteData(d, c) = MemWriteData(d, c)
      BY Zenon, SameFlits
  <2> HIDE DEF r
  <2> QED BY <2>1, <2>2, <2>3
<1>8. ASSUME NEW a, NEW b, NEW c, NEW d
      PROVE  /\ MemWriteReq(DUT!UcId, r.addr, a, b) # None /\ MemWriteData(d, c) # None
             /\ MemWriteReq(DUT!UcId, r.addr, a, b).id = DUT!UcId
             /\ MemWriteReq(DUT!UcId, r.addr, a, b).addr = r.addr
  <2>1. MemWriteReq(DUT!UcId, r.addr, a, b) # None /\ MemWriteData(d, c) # None
      BY DEF NoneApart
  <2>2. /\ MemWriteReq(DUT!UcId, r.addr, a, b).id = DUT!UcId
        /\ MemWriteReq(DUT!UcId, r.addr, a, b).addr = r.addr
      BY DEF MemWriteReq
  <2> QED BY <2>1, <2>2
<1> QED BY <1>4, <1>5, <1>6, <1>7, <1>8

\* The answers of an uncached access are taken; that of its write empties the path.
LEMMA TakeKeeps ==
    ASSUME WritesInv, NoneApart, DUT!TakeUncachedRead \/ DUT!TakeUncachedWrite, UNCHANGED memOwn
    PROVE  WritesInv'
<1>1. uc # None /\ UNCHANGED <<wbuf, held>>
    BY DEF DUT!TakeUncachedRead, DUT!TakeUncachedWrite
<1>2. wbuf' = <<>> /\ held' = <<>>
    BY <1>1 DEF WritesInv
<1>3. PICK r, x, y : uc = UcState(r, x, y)
    BY <1>1 DEF WritesInv, IsUc
<1>4. uc.r = r /\ uc.wr = y
    BY <1>3, UcFields
<1>5. CASE DUT!TakeUncachedRead
  <2>1. uc' = [uc EXCEPT !.rd = mem_resp_read] /\ UNCHANGED pathVars
      BY <1>5 DEF DUT!TakeUncachedRead, memOwn, pathVars
  <2>2. uc' = UcState(r, mem_resp_read, y)
      BY <1>3, <2>1, UcFields
  <2>3. uc' # None /\ IsUc(uc') /\ uc'.r = uc.r /\ uc'.wr = uc.wr
    <3>1. uc' # None /\ IsUc(uc')
        BY <2>2 DEF NoneApart, IsUc, UcState
    <3>2. uc'.r = r /\ uc'.wr = y
        BY <2>2, UcFields
    <3> QED BY <1>4, <3>1, <3>2
  <2>4. CASE PathOf(<<>>)
    <3>1. PathOf(<<>>)'
        BY <2>1, <2>4, PathUnchanged
    <3> QED BY <1>2, <2>3, <3>1 DEF WritesInv
  <2>5. ASSUME NEW e, Sole(e, uc), PathOf(<<e>>) PROVE WritesInv'
    <3>1. PathOf(<<e>>)'
        BY <2>1, <2>5, PathUnchanged
    <3>2. Sole(e, uc)'
        BY <2>3, <2>5 DEF Sole
    <3> QED BY <1>2, <2>3, <3>1, <3>2 DEF WritesInv
  <2> QED BY <1>1, <2>4, <2>5 DEF WritesInv
<1>6. CASE DUT!TakeUncachedWrite
  <2>1. /\ uc' = [uc EXCEPT !.wr = mem_resp_write] /\ mem_resp_write # None /\ mem_resp_write' = None
        /\ UNCHANGED <<write_resp_fifo, wr, write_req_fifo, write_req_data_fifo, mem_req_write, mem_req_write_data>>
      BY <1>6 DEF DUT!TakeUncachedWrite, memOwn
  <2>2. uc' # None /\ IsUc(uc')
    <3>1. uc' = UcState(r, x, mem_resp_write)
        BY <1>3, <2>1, UcFields
    <3> QED BY <3>1 DEF NoneApart, IsUc, UcState
  <2>3. ~PathOf(<<>>)
      BY <2>1, EmptyPath
  <2>4. PICK e : PathOf(<<e>>)
      BY <1>1, <2>3 DEF WritesInv
  <2>5. Path(Tail(<<e>>), None, write_resp_fifo, wr, write_req_fifo, write_req_data_fifo,
             mem_req_write, mem_req_write_data)
    <3> SUFFICES ASSUME NEW L, PathOf(L)
                 PROVE  Path(Tail(L), None, write_resp_fifo, wr, write_req_fifo, write_req_data_fifo,
                             mem_req_write, mem_req_write_data)
        BY <2>4
    <3> QED BY <2>1, OldestLeaves DEF PathOf
  <2>6. PathOf(<<>>)'
      BY <2>1, <2>5, OneWrite DEF PathOf
  <2> QED BY <1>2, <2>2, <2>6 DEF WritesInv
<1> QED BY <1>5, <1>6

\* An uncached access ends when nothing of it is under way.
LEMMA FinishKeeps ==
    ASSUME WritesInv, DUT!FinishUncached, UNCHANGED memOwn
    PROVE  WritesInv'
<1>1. uc # None /\ uc' = None /\ wbuf' = wbuf /\ UNCHANGED pathVars
    BY DEF DUT!FinishUncached, DUT!dutWires, memOwn, pathVars
<1>2. ~DUT!is_load(uc.r) /\ ~DUT!is_amo_lr(uc.r) => uc.wr # None
    BY DEF DUT!FinishUncached
<1>3. \A e : ~Sole(e, uc)
  <2>1. DUT!is_load(uc.r) = is_load(uc.r) /\ DUT!is_amo_lr(uc.r) = is_amo_lr(uc.r)
      BY Zenon, SameFlits
  <2> QED BY <1>2, <2>1 DEF Sole
<1>4. PathOf(<<>>) /\ wbuf = <<>>
    BY <1>1, <1>3 DEF WritesInv
<1>5. PICK L : L = <<>>
    OBVIOUS
<1>6. PathOf(L)' /\ L = wbuf'
    BY <1>1, <1>4, <1>5, PathUnchanged
<1>7. AddressFlits' = 0 /\ DataFlits' = 0
  <2>1. AddressFlits = 0 /\ DataFlits = 0
      BY <1>4, EmptyPath, EmptyFlits DEF AddressFlits, DataFlits
  <2> QED BY <1>1, <1>4, <2>1, PathUnchanged
<1>8. Buffer(L, 0, 0)
    BY <1>5, EmptyBuffer
<1> QED BY <1>1, <1>6, <1>7, <1>8, BufferedKeeps
-----------------------------------------------------------------------------
\* The requests that are served add a write, a flush or nothing.
LEMMA ServeKeeps ==
    ASSUME WritesInv, SizesFit, NoneApart, UNCHANGED memOwn, NEW i \in DOMAIN held,
           DUT!ServeLoad(i) \/ DUT!ServeStore(i) \/ DUT!FlushAtomic(i) \/ DUT!FailSc(i)
    PROVE  WritesInv'
<1>1. uc = None
    BY DEF WritesInv
<1>2. ASSUME NEW r, DUT!Miss(r)
      PROVE  uc' = uc /\ UNCHANGED pathVars /\ (wbuf' = wbuf \/ \E l : DUT!Flush(l))
    BY <1>2 DEF DUT!Miss, memOwn, pathVars
<1>3. CASE DUT!ServeLoad(i)
  <2>1. CASE DUT!LoadHit(i)
    <3>1. uc' = uc /\ UNCHANGED pathVars /\ (wbuf' = wbuf \/ \E l : DUT!Flush(l))
        BY <2>1 DEF DUT!LoadHit, DUT!dutWires, memOwn, pathVars
    <3> QED BY <1>1, <3>1, WriteOrNotKeeps
  <2>2. CASE DUT!LoadMiss(i)
    <3>1. DUT!Miss(held[i])
        BY <2>2 DEF DUT!LoadMiss
    <3> QED BY <1>1, <1>2, <3>1, WriteOrNotKeeps
  <2> QED BY <1>3, <2>1, <2>2 DEF DUT!ServeLoad
<1>4. CASE DUT!ServeStore(i)
  <2>1. CASE DUT!StoreMiss(i)
    <3>1. DUT!Miss(held[i])
        BY <2>1 DEF DUT!StoreMiss
    <3> QED BY <1>1, <1>2, <3>1, WriteOrNotKeeps
  <2>2. CASE DUT!StoreBack(i)
    <3>1. uc' = uc /\ UNCHANGED pathVars /\ wbuf' = wbuf
        BY <2>2 DEF DUT!StoreBack, DUT!dutWires, memOwn, pathVars
    <3> QED BY <1>1, <3>1, WriteOrNotKeeps
  <2>3. CASE DUT!StoreFlush(i)
    <3>1. uc' = uc /\ UNCHANGED pathVars /\ \E l : DUT!Flush(l)
        BY <2>3 DEF DUT!StoreFlush, DUT!dutWires, memOwn, pathVars
    <3> QED BY <1>1, <3>1, WriteOrNotKeeps
  <2>4. CASE DUT!StoreThrough(i)
    <3>1. uc' = uc /\ UNCHANGED pathVars
        BY <2>4 DEF DUT!StoreThrough, DUT!dutWires, memOwn, pathVars
    <3>2. \E a, z, data, be : DUT!Write(WbufIds, a, z, data, be)
        BY <2>4 DEF DUT!StoreThrough
    <3> QED BY <1>1, <3>1, <3>2, WriteOrNotKeeps
  <2> QED BY <1>4, <2>1, <2>2, <2>3, <2>4 DEF DUT!ServeStore
<1>5. CASE DUT!FlushAtomic(i)
  <2>1. uc' = uc /\ UNCHANGED pathVars /\ \E l : DUT!Flush(l)
      BY <1>5 DEF DUT!FlushAtomic, DUT!dutWires, memOwn, pathVars
  <2> QED BY <1>1, <2>1, WriteOrNotKeeps
<1>6. CASE DUT!FailSc(i)
  <2>1. uc' = uc /\ UNCHANGED pathVars /\ wbuf' = wbuf
      BY <1>6 DEF DUT!FailSc, DUT!dutWires, memOwn, pathVars
  <2> QED BY <1>1, <2>1, WriteOrNotKeeps
<1> QED BY <1>3, <1>4, <1>5, <1>6

\* So does the CMO handler.
LEMMA CmoKeeps ==
    ASSUME WritesInv, SizesFit, NoneApart, UNCHANGED memOwn, DUT!FlushCmo \/ DUT!ServeCmo
    PROVE  WritesInv'
<1>1. uc = None
  <2>1. Len(held) = 1
      BY DEF DUT!FlushCmo, DUT!ServeCmo
  <2> QED BY <2>1, EmptySeq DEF WritesInv
<1>2. CASE DUT!FlushCmo
  <2>1. uc' = uc /\ UNCHANGED pathVars /\ \E l : DUT!Flush(l)
      BY <1>2 DEF DUT!FlushCmo, DUT!dutWires, memOwn, pathVars
  <2> QED BY <1>1, <2>1, WriteOrNotKeeps
<1>3. CASE DUT!ServeCmo
  <2>1. uc' = uc /\ UNCHANGED pathVars /\ wbuf' = wbuf
      BY <1>3 DEF DUT!ServeCmo, DUT!dutWires, memOwn, pathVars
  <2> QED BY <1>1, <2>1, WriteOrNotKeeps
<1> QED BY <1>2, <1>3

\* A refill takes at most the store that waited for it off the requests on hold.
LEMMA RefillKeeps ==
    ASSUME WritesInv, UNCHANGED memOwn, DUT!Refill
    PROVE  WritesInv'
<1>1. UNCHANGED <<pathVars, wbuf, uc>>
    BY DEF DUT!Refill, memOwn, pathVars
<1>2. held' = held \/ \E i \in DOMAIN held : DUT!RemoveHeld(i)
    BY DEF DUT!Refill, DUT!First
<1>3. uc # None => held' = held
  <2>1. uc # None => DOMAIN held = {}
      BY EmptySeq, SeqFacts DEF WritesInv
  <2> QED BY <1>2, <2>1
<1> QED BY <1>1, <1>3, FrameStep

\* The cache keeps the invariant.
LEMMA CacheKeeps ==
    ASSUME WritesInv, SizesFit, NoneApart, Cache
    PROVE  WritesInv'
<1>1. UNCHANGED memOwn /\ DUT!NextDut
    BY DEF Cache, CacheStep
<1> QED BY <1>1, ServeKeeps, CmoKeeps, RefillKeeps, SendAddressKeeps, SendDataKeeps,
           AcknowledgedKeeps, StartKeeps, TakeKeeps, FinishKeeps DEF DUT!NextDut

\* At first nothing is under way.
LEMMA InitWrites ==
    ASSUME Init
    PROVE  WritesInv
<1>1. /\ mem_resp_write = None /\ write_resp_fifo = <<>> /\ wr = None
      /\ write_req_fifo = <<>> /\ write_req_data_fifo = <<>>
      /\ mem_req_write = None /\ mem_req_write_data = None
      /\ wbuf = <<>> /\ uc = None
    BY DEF Init, InitMem, DUT!InitDut
<1>2. IsSeq(<<>>) /\ Len(<<>>) = 0 /\ N1(None) = 0
    BY EmptySeq DEF N1
<1>3. \A i \in 1 .. Len(<<>>) : FALSE
    BY <1>2
<1>4. Flits(None, <<>>, None, <<>>, None) = 0
    BY EmptyFlits
<1>5. Path(<<>>, None, <<>>, None, <<>>, <<>>, None, None)
    BY <1>2, <1>3, <1>4 DEF Path
<1>6. Buffer(<<>>, AddressFlits, DataFlits)
    BY <1>1, <1>4, EmptyBuffer DEF AddressFlits, DataFlits
<1> QED BY <1>1, <1>5, <1>6 DEF WritesInv, PathOf

\* Every step keeps the invariant.
LEMMA NextWrites ==
    ASSUME WritesInv, SizesFit, NoneApart, [Next]_vars
    PROVE  WritesInv'
<1>1. CASE Check
  <2>1. UNCHANGED <<pathVars, wbuf, uc>> /\ held' = held
      BY <1>1 DEF Check, memOwn, dutOwn, wires, writeWires, pathVars
  <2> QED BY <2>1, FrameStep
<1>2. CASE Stimulate \/ Finish \/ MaxCycles \/ Fault \/ Again \/ Ended \/ UNCHANGED vars
  <2>1. UNCHANGED <<memVars, dutOwn>>
      BY <1>2 DEF Stimulate, Finish, MaxCycles, Fault, Again, Ended, vars
  <2>2. UNCHANGED <<pathVars, wbuf, uc>> /\ held' = held
      BY <2>1 DEF memVars, writeWires, dutOwn, pathVars
  <2> QED BY <2>2, FrameStep
<1>3. CASE Handshake
  <2>1. UNCHANGED <<pathVars, wbuf, uc>> /\ uc = None
      BY <1>3 DEF Handshake, DUT!Accept, DUT!dutWires, memOwn, pathVars
  <2> QED BY <2>1, FrameStep
<1> QED BY <1>1, <1>2, <1>3, MemoryKeeps, CacheKeeps DEF Next

\* What the invariant says of the flits.
LEMMA WritesSafe ==
    ASSUME WritesInv, SizesFit
    PROVE  FlitsKept /\ FlitsPaired
<1> DEFINE Room(L) ==
             /\ mem_req_write # None => Len(write_req_fifo) < Len(L)
             /\ mem_req_write_data # None => Len(write_req_data_fifo) < Len(L)
           Joint(L) == wr # None => \E k \in 1 .. Len(L) : L[k].req = wr.req /\ L[k].w = wr.w
<1>1. ASSUME NEW L, PathOf(L) PROVE Room(L) /\ Joint(L)
  <2>1. IsSeq(L) /\ IsSeq(write_resp_fifo) /\ IsSeq(write_req_fifo) /\ IsSeq(write_req_data_fifo)
      BY <1>1 DEF PathOf, Path
  <2>2. /\ Len(write_resp_fifo) \in Nat /\ Len(write_req_fifo) \in Nat /\ Len(write_req_data_fifo) \in Nat
        /\ Len(L) \in Nat /\ N1(mem_resp_write) \in {0, 1} /\ N1(wr) \in {0, 1}
        /\ N1(mem_req_write) \in {0, 1} /\ N1(mem_req_write_data) \in {0, 1}
      BY <2>1, SeqFacts DEF N1
  <2>3. /\ N1(mem_resp_write) + Len(write_resp_fifo) + N1(wr) + Len(write_req_fifo) + N1(mem_req_write) <= Len(L)
        /\ N1(mem_resp_write) + Len(write_resp_fifo) + N1(wr) + Len(write_req_data_fifo) + N1(mem_req_write_data)
           <= Len(L)
      BY <1>1, <2>2 DEF PathOf, Path, Flits, Joined, Acked
  <2>4. Room(L)
    <3>1. /\ mem_req_write # None => N1(mem_req_write) = 1
          /\ mem_req_write_data # None => N1(mem_req_write_data) = 1
        BY DEF N1
    <3> QED BY <2>2, <2>3, <3>1
  <2>5. ASSUME wr # None PROVE \E k \in 1 .. Len(L) : L[k].req = wr.req /\ L[k].w = wr.w
    <3>1. N1(wr) = 1
        BY <2>5 DEF N1
    <3>2. Acked(mem_resp_write, write_resp_fifo) + 1 \in 1 .. Len(L)
        BY <2>2, <2>3, <3>1 DEF Acked
    <3> QED BY <1>1, <2>5, <3>2 DEF PathOf, Path
  <2> QED BY <2>4, <2>5
<1>2. FifoDepth \in Nat /\ FifoDepth >= 1
    BY MemAssumption
<1>3. CASE uc = None
  <2>1. PathOf(wbuf) /\ Buffer(wbuf, AddressFlits, DataFlits)
      BY <1>3 DEF WritesInv
  <2>2. Room(wbuf) /\ Joint(wbuf)
      BY <1>1, <2>1
  <2>3. /\ Len(wbuf) \in Nat /\ Len(wbuf) <= FifoDepth
        /\ DOMAIN wbuf = 1 .. Len(wbuf) /\ Len(write_req_fifo) \in Nat /\ Len(write_req_data_fifo) \in Nat
    <3>1. IsSeq(wbuf) /\ IsSeq(write_req_fifo) /\ IsSeq(write_req_data_fifo)
        BY <2>1 DEF PathOf, Path
    <3> QED BY <2>1, <3>1, SeqFacts, BufferFits
  <2>4. FlitsKept
      BY <1>2, <2>2, <2>3 DEF FlitsKept
  <2>5. FlitsPaired
      BY <2>2, <2>3 DEF FlitsPaired
  <2> QED BY <2>4, <2>5
<1>4. CASE uc # None /\ PathOf(<<>>)
  <2>1. wr = None /\ mem_req_write = None /\ mem_req_write_data = None
      BY <1>4, EmptyPath
  <2> QED BY <2>1 DEF FlitsKept, FlitsPaired
<1>5. ASSUME uc # None, NEW e, Sole(e, uc), PathOf(<<e>>) PROVE FlitsKept /\ FlitsPaired
  <2>1. PICK L : L = <<e>> /\ Len(L) = 1 /\ L[1] = e
      BY OneWrite
  <2>2. Room(L) /\ Joint(L)
      BY <1>1, <1>5, <2>1
  <2>3. IsSeq(write_req_fifo) /\ IsSeq(write_req_data_fifo)
      BY <1>5 DEF PathOf, Path
  <2>4. Len(write_req_fifo) \in Nat /\ Len(write_req_data_fifo) \in Nat
      BY <2>3, SeqFacts
  <2>5. FlitsKept
      BY <1>2, <2>1, <2>2, <2>4 DEF FlitsKept
  <2>6. wr # None => wr.req = e.req
      BY <2>1, <2>2
  <2>7. FlitsPaired
      BY <1>5, <2>6 DEF FlitsPaired, Sole
  <2> QED BY <2>5, <2>7
<1> QED BY <1>3, <1>4, <1>5 DEF WritesInv

\* The fifos of the memory, whose ready does not wait for room, always have it,
\* and the address and the data that write_process joins were sent as one
\* write, for every number of entries of the write buffer and of the flush
\* controller that together do not exceed the depth of the fifos, whichever entry
\* the arbiters take next, and for every behaviour of cache, threads and stimulus.
THEOREM WritesArriveWhole ==
    ASSUME SizesFit, NoneApart
    PROVE  Spec => [](FlitsKept /\ FlitsPaired)
<1>1. Init => WritesInv
    BY InitWrites
<1>2. WritesInv /\ [Next]_vars => WritesInv'
    BY NextWrites
<1>3. WritesInv => FlitsKept /\ FlitsPaired
    BY WritesSafe
<1> QED BY <1>1, <1>2, <1>3, PTL DEF Spec
=============================================================================
