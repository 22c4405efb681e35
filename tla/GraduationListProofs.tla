---------------------- MODULE GraduationListProofs -------------------------
(***************************************************************************)
(* Occupancy and the exception record of the graduation list, for every    *)
(* length of the ring.                                                     *)
(***************************************************************************)
EXTENDS GraduationList, TLAPS

(* The index comparison that graduation_list.sv spells out for every       *)
(* wrap-around case is the age order counted from head.                    *)
THEOREM OlderIsAge ==
    ASSUME gl_head \in Index, NEW i \in Index, NEW j \in Index
    PROVE  Older(i, j) <=> GlAge(i) < GlAge(j)
  BY GraduationListConstants DEF Index, Older, GlAge, Dist, Trunc

(* Ages are distances in the ring: bounded, and different for different    *)
(* entries.                                                                *)
LEMMA AgeFacts ==
    ASSUME gl_head \in Index, NEW i \in Index
    PROVE  /\ GlAge(i) \in 0 .. GL_NUM_ENTRIES - 1
           /\ \A j \in Index : GlAge(i) = GlAge(j) => i = j
  BY GraduationListConstants DEF Index, GlAge, Dist, Trunc

(* Retiring moves every age down by the number of retired instructions,    *)
(* wrapping for the retired ones.                                          *)
LEMMA AgeShift ==
    ASSUME gl_head \in Index, NEW read \in 0 .. 2, gl_head' = GlPtr(gl_head + read), NEW i \in Index
    PROVE  /\ gl_head' \in Index
           /\ GlAge(i)' = IF GlAge(i) >= read THEN GlAge(i) - read
                        ELSE GlAge(i) - read + GL_NUM_ENTRIES
  BY GraduationListConstants DEF Index, GlAge, Dist, Trunc, GlPtr

(* The place where the next instruction goes is as old as the occupancy.   *)
LEMMA AgeTail ==
    ASSUME gl_head \in Index, num \in Nat, Occupancy
    PROVE  gl_tail \in Index /\ GlAge(gl_tail) = num
  BY GraduationListConstants DEF Index, GlAge, Dist, Trunc, GlPtr, Occupancy

(* No more instructions retire than the list holds.                        *)
LEMMA RetiredHeld ==
    ASSUME GlTypeOK, NEW read \in 0 .. 2, MayRetire(read)
    PROVE  read <= num
  BY DEF MayRetire, Offered, GlTypeOK

(* What a write-back leaves: only the ports named in done change an entry, *)
(* and only to add an exception that was reported before.                  *)
LEMMA WriteBackFacts ==
    ASSUME GlTypeOK, NEW b \in [Index -> BOOLEAN],
           NEW e \in [Index -> [data : Payload \cup {NoIndex}, ex : BOOLEAN]],
           NEW done \in SUBSET Index, NEW failed \in SUBSET done,
           WriteBack(b, e, Ports(done, failed))
    PROVE  /\ valid_bit' \in [Index -> BOOLEAN]
           /\ entries' \in [Index -> [data : Payload \cup {NoIndex}, ex : BOOLEAN]]
           /\ \A i \in Index : i \notin done => entries'[i] = e[i]
           /\ \A i \in done : entries'[i].ex => entries[i].ex \/ i \in failed
  <1> DEFINE wb == Ports(done, failed)
             touched(i) == \E w \in wb : w.index = i
             failing(i) == \E w \in wb : w.index = i /\ w.ex
  <1>1. \A i \in Index : /\ touched(i) <=> i \in done
                         /\ failing(i) <=> i \in failed
    <2>1. ASSUME NEW i \in Index PROVE touched(i) <=> i \in done
      <3>1. ASSUME NEW k \in done PROVE [index |-> k, ex |-> k \in failed].index = k
        OBVIOUS
      <3>2. touched(i) <=> \E k \in done : [index |-> k, ex |-> k \in failed].index = i
        BY Zenon DEF Ports
      <3> QED BY <3>1, <3>2
    <2>2. ASSUME NEW i \in failed PROVE failing(i)
      <3>1. [index |-> i, ex |-> i \in failed] \in wb
        BY DEF Ports
      <3> QED BY <3>1
    <2>3. ASSUME NEW i \in Index, failing(i) PROVE i \in failed
      <3>1. PICK k \in done : [index |-> k, ex |-> k \in failed].index = i
                              /\ [index |-> k, ex |-> k \in failed].ex
        BY <2>3, Zenon DEF Ports
      <3>2. k = i /\ k \in failed
        BY <3>1, Zenon
      <3> QED BY <3>2
    <2> QED BY <2>1, <2>2, <2>3
  <1>2. valid_bit' = [i \in Index |-> b[i] \/ touched(i)]
    BY DEF WriteBack
  <1>3. entries' = [i \in Index |->
           IF touched(i) THEN [e[i] EXCEPT !.ex = entries[i].ex \/ failing(i)] ELSE e[i]]
    BY DEF WriteBack
  <1> HIDE DEF touched, failing
  <1>4. valid_bit' \in [Index -> BOOLEAN]
    BY <1>1, <1>2
  <1>5. ASSUME NEW i \in Index
        PROVE  /\ entries'[i] \in [data : Payload \cup {NoIndex}, ex : BOOLEAN]
               /\ i \notin done => entries'[i] = e[i]
               /\ i \in done => (entries'[i].ex => entries[i].ex \/ i \in failed)
    <2>1. CASE i \in done
      <3>1. entries'[i] = [e[i] EXCEPT !.ex = entries[i].ex \/ failing(i)]
        BY <1>1, <1>3, <2>1
      <3>2. entries[i].ex \in BOOLEAN /\ failing(i) \in BOOLEAN
        BY DEF GlTypeOK, failing
      <3> QED BY <3>1, <3>2, <2>1, <1>1
    <2>2. CASE i \notin done
      BY <2>2, <1>1, <1>3
    <2> QED BY <2>1, <2>2
  <1> QED BY <1>3, <1>4, <1>5
-----------------------------------------------------------------------------
IInv == GlTypeOK /\ Occupancy /\ RecordOldest

(* The reset state satisfies it.                                           *)
LEMMA InitIInv == GlInit => IInv
  BY GraduationListConstants
  DEF GlInit, IInv, GlTypeOK, Occupancy, RecordOldest, GlLive, GlAge, Dist, Trunc, GlPtr, Index

(* flush_commit_i leaves an empty list without an exception.               *)
LEMMA FlushCommitIInv ==
    ASSUME IInv, NEW done \in SUBSET Index, NEW failed \in SUBSET done,
           FlushCommit(Ports(done, failed))
    PROVE  IInv'
  <1>2. /\ valid_bit' \in [Index -> BOOLEAN]
        /\ entries' \in [Index -> [data : Payload \cup {NoIndex}, ex : BOOLEAN]]
    BY WriteBackFacts DEF IInv, GlTypeOK, FlushCommit
  <1>3. gl_head' = 0 /\ gl_tail' = 0 /\ num' = 0 /\ exception' = [valid |-> FALSE, index |-> 0]
    BY DEF FlushCommit
  <1>4. ASSUME NEW i \in Index PROVE ~GlLive(i)'
    BY <1>3, GraduationListConstants DEF GlLive, GlAge, Dist, Trunc, Index
  <1> QED
    BY <1>2, <1>3, <1>4, GraduationListConstants
    DEF IInv, GlTypeOK, Occupancy, RecordOldest, GlPtr, Trunc, Index

(* What every other cycle leaves of the record and of the entries that     *)
(* stay, given which entries stay.                                         *)
LEMMA RecordStep ==
    ASSUME IInv, NEW read \in 0 .. 2, MayRetire(read),
           NEW done \in SUBSET Staying(read),
           NEW failed \in SUBSET {i \in done : Reported(i)}, gl_head' = GlPtr(gl_head + read),
           NEW exe \in Staying(read) \cup {NoIndex},
           exception' \in [valid : BOOLEAN, index : Index],
           NEW i \in Index, GlLive(i), GlLive(i)',
           entries'[i].ex => entries[i].ex \/ i \in failed,
           entries'[i].ex,
           \/ TakesExe(exe) /\ exception' = [valid |-> TRUE, index |-> exe]
           \/ exception' = exception
    PROVE  Reported(i)'
  <1> USE DEF IInv, GlTypeOK
  <1>1. Reported(i)
    BY DEF RecordOldest
  <1>2. exception.valid /\ GlAge(exception.index) <= GlAge(i) /\ read <= GlAge(exception.index)
    BY <1>1 DEF Reported, MayRetire
  <1>3. exception.index \in Index
    OBVIOUS
  <1>4. /\ GlAge(i) \in Int /\ GlAge(exception.index) \in Int
        /\ GlAge(i)' = GlAge(i) - read
        /\ GlAge(exception.index) >= read
    BY <1>2, <1>3, AgeFacts, AgeShift
  <1>5. CASE exception' = exception
    <2>1. GlAge(exception.index)' = GlAge(exception.index) - read
      BY <1>3, <1>4, <1>5, AgeShift
    <2> QED BY <1>2, <1>4, <1>5, <2>1 DEF Reported
  <1>6. CASE TakesExe(exe) /\ exception' = [valid |-> TRUE, index |-> exe]
    <2>1. exe \in Staying(read) /\ exe \in Index
      BY <1>6 DEF TakesExe, Staying
    <2>2. GlAge(exe) < GlAge(exception.index)
      BY <1>2, <1>3, <1>6, <2>1, OlderIsAge DEF TakesExe
    <2>3. GlAge(exe) \in Int /\ GlAge(exe) >= read
      BY <2>1, AgeFacts DEF Staying
    <2>4. \A k \in Index : GlAge(k)' = IF GlAge(k) >= read THEN GlAge(k) - read
                                    ELSE GlAge(k) - read + GL_NUM_ENTRIES
      BY AgeShift
    <2>5. exception'.index = exe /\ exception'.valid
      BY <1>6
    <2> DEFINE D(k) == Dist(gl_head', k, GL_NUM_ENTRIES)
    <2>6. D(exe) = GlAge(exe) - read /\ D(i) = GlAge(i) - read
      BY <2>1, <2>3, <2>4, <1>4 DEF GlAge
    <2>7. D(exe) <= D(i)
      BY <2>6, <2>2, <2>3, <1>2, <1>4
    <2> QED BY <2>5, <2>7 DEF Reported, GlAge
  <1> QED BY <1>5, <1>6

(* A record that survives a cycle, or that the execution stage brings,     *)
(* still names an entry that has not retired.                              *)
LEMMA RecordStays ==
    ASSUME IInv, NEW read \in 0 .. 2, MayRetire(read), gl_head' = GlPtr(gl_head + read),
           NEW exe \in Staying(read) \cup {NoIndex},
           \/ TakesExe(exe) /\ exception' = [valid |-> TRUE, index |-> exe]
           \/ exception' = exception /\ exception.valid
    PROVE  /\ exception' \in [valid : BOOLEAN, index : Index]
           /\ exception'.valid
           /\ GlLive(exception'.index)
           /\ Dist(gl_head', exception'.index, GL_NUM_ENTRIES) = GlAge(exception'.index) - read
  <1> USE DEF IInv, GlTypeOK
  <1>1. CASE TakesExe(exe) /\ exception' = [valid |-> TRUE, index |-> exe]
    <2>1. exe \in Staying(read) /\ exe \in Index /\ GlLive(exe)
      BY <1>1 DEF TakesExe, Staying
    <2>2. GlAge(exe) \in Int /\ GlAge(exe) >= read
      BY <2>1, AgeFacts DEF Staying
    <2>3. Dist(gl_head', exe, GL_NUM_ENTRIES) = GlAge(exe) - read
      BY <2>1, <2>2, AgeShift DEF GlAge
    <2> QED BY <1>1, <2>1, <2>3
  <1>2. CASE exception' = exception /\ exception.valid
    <2>1. exception.index \in Index /\ GlLive(exception.index) /\ GlAge(exception.index) >= read
      BY <1>2, AgeFacts DEF RecordOldest, MayRetire
    <2>2. Dist(gl_head', exception.index, GL_NUM_ENTRIES) = GlAge(exception.index) - read
      BY <2>1, AgeShift DEF GlAge
    <2> QED BY <1>2, <2>1, <2>2
  <1> QED BY <1>1, <1>2

(* The cycle of a mispredicted branch keeps the invariant.                 *)
LEMMA FlushIInv ==
    ASSUME IInv, NEW read \in 0 .. 2, MayRetire(read),
           NEW done \in SUBSET Staying(read),
           NEW failed \in SUBSET {i \in done : Reported(i)},
           NEW exe \in Staying(read) \cup {NoIndex}, NEW b \in done,
           exe # NoIndex => GlAge(exe) < GlAge(b),
           Flush(b, read, Ports(done, failed), exe)
    PROVE  IInv'
  <1> USE DEF IInv, GlTypeOK
  <1>1. /\ done \in SUBSET Index /\ failed \in SUBSET done
        /\ b \in Index /\ b \in Staying(read) /\ GlLive(b)
        /\ exe # NoIndex => exe \in Index
    BY DEF Staying
  <1>2. GlAge(b) \in 0 .. GL_NUM_ENTRIES - 1 /\ GlAge(b) < num /\ GlAge(b) >= read
    BY <1>1, AgeFacts DEF GlLive, Staying
  <1>3. /\ gl_tail' = GlPtr(b + 1) /\ gl_head' = GlPtr(gl_head + read)
        /\ num' = Dist(GlPtr(gl_head + read), GlPtr(b + 1), GL_NUM_ENTRIES)
    BY <1>2 DEF Flush
  <1>4. /\ valid_bit' \in [Index -> BOOLEAN]
        /\ entries' \in [Index -> [data : Payload \cup {NoIndex}, ex : BOOLEAN]]
        /\ \A i \in Index : entries'[i].ex => entries[i].ex \/ i \in failed
    <2>1. WriteBack(valid_bit, entries, Ports(done, failed))
      BY DEF Flush
    <2>2. /\ valid_bit' \in [Index -> BOOLEAN]
          /\ entries' \in [Index -> [data : Payload \cup {NoIndex}, ex : BOOLEAN]]
          /\ \A i \in Index : i \notin done => entries'[i] = entries[i]
          /\ \A i \in done : entries'[i].ex => entries[i].ex \/ i \in failed
      BY <1>1, <2>1, WriteBackFacts
    <2> QED BY <2>2, Zenon
  <1>5. /\ gl_head' \in Index /\ gl_tail' \in Index
        /\ num' = GlAge(b) - read + 1
    <2>1. GlAge(b) < GL_NUM_ENTRIES - 1
      BY <1>2, GraduationListConstants DEF Occupancy
    <2> QED BY <1>1, <1>2, <1>3, <2>1, GraduationListConstants
            DEF Index, GlPtr, Trunc, GlAge, Dist
  <1>6. Occupancy'
    <2>1. num' < GL_NUM_ENTRIES
      BY <1>2, <1>5, GraduationListConstants DEF Occupancy
    <2>2. gl_tail' = GlPtr(gl_head' + num')
      BY <1>1, <1>2, <1>3, <1>5, GraduationListConstants DEF Index, GlPtr, Trunc, GlAge, Dist
    <2> QED BY <2>1, <2>2 DEF Occupancy, GlPtr
  <1>7. ASSUME NEW i \in Index, GlLive(i)'
        PROVE  GlLive(i) /\ GlAge(i) \in Int /\ GlAge(i) >= read /\ GlAge(i) <= GlAge(b)
    <2>1. GlAge(i) \in 0 .. GL_NUM_ENTRIES - 1
      BY AgeFacts
    <2>2. Dist(gl_head', i, GL_NUM_ENTRIES) = IF GlAge(i) >= read THEN GlAge(i) - read
                                       ELSE GlAge(i) - read + GL_NUM_ENTRIES
      BY <1>3, AgeShift DEF GlAge
    <2>3. Dist(gl_head', i, GL_NUM_ENTRIES) < GlAge(b) - read + 1
      BY <1>5, <1>7 DEF GlLive, GlAge
    <2> QED BY <1>2, <2>1, <2>2, <2>3, GraduationListConstants DEF GlLive, Occupancy
  <1>8. \/ TakesExe(exe) /\ exception' = [valid |-> TRUE, index |-> exe]
        \/ exception' = exception /\ (exception.valid => ~Older(b, exception.index))
        \/ ~TakesExe(exe) /\ exception.valid /\ Older(b, exception.index)
            /\ exception' = [valid |-> FALSE, index |-> 0]
    BY DEF Flush
  <1>9. exception' \in [valid : BOOLEAN, index : Index]
    <2>1. 0 \in Index
      BY GraduationListConstants DEF Index
    <2>2. TakesExe(exe) => exe \in Index
      BY <1>1 DEF TakesExe
    <2>3. CASE exception' = exception
      BY <2>3
    <2>4. CASE TakesExe(exe) /\ exception' = [valid |-> TRUE, index |-> exe]
      BY <2>2, <2>4
    <2>5. CASE exception' = [valid |-> FALSE, index |-> 0]
      BY <2>1, <2>5
    <2> QED BY <1>8, <2>3, <2>4, <2>5
  <1>10. ASSUME exception'.valid PROVE GlLive(exception.index)'
    <2>1. \/ TakesExe(exe) /\ exception' = [valid |-> TRUE, index |-> exe]
          \/ exception' = exception /\ exception.valid /\ ~Older(b, exception.index)
      BY <1>8, <1>10
    <2>2. Dist(gl_head', exception'.index, GL_NUM_ENTRIES) = GlAge(exception'.index) - read
      BY <1>3, <2>1, RecordStays
    <2>3. GlAge(exception'.index) <= GlAge(b) /\ GlAge(exception'.index) \in Int
      <3>1. CASE TakesExe(exe) /\ exception' = [valid |-> TRUE, index |-> exe]
        BY <1>1, <1>2, <3>1, AgeFacts DEF TakesExe
      <3>2. CASE exception' = exception /\ exception.valid /\ ~Older(b, exception.index)
        BY <1>1, <1>2, <3>2, AgeFacts, OlderIsAge
      <3> QED BY <2>1, <3>1, <3>2
    <2>4. Dist(gl_head', exception'.index, GL_NUM_ENTRIES) < num'
      BY <1>2, <1>5, <2>2, <2>3
    <2> QED BY <2>4 DEF GlLive, GlAge
  <1>11. ASSUME NEW i \in Index, GlLive(i)', entries'[i].ex PROVE Reported(i)'
    <2>1. GlLive(i) /\ GlAge(i) \in Int /\ GlAge(i) <= GlAge(b)
      BY <1>7, <1>11
    <2>2. entries[i].ex \/ i \in failed
      BY <1>4, <1>11
    <2>3. exception.valid /\ GlAge(exception.index) <= GlAge(i)
      BY <2>1, <2>2 DEF RecordOldest, Reported
    <2>4. ~Older(b, exception.index)
      BY <1>1, <1>2, <2>1, <2>3, OlderIsAge, AgeFacts
    <2>5. \/ TakesExe(exe) /\ exception' = [valid |-> TRUE, index |-> exe]
          \/ exception' = exception
      BY <1>8, <2>4
    <2> QED BY <1>3, <1>9, <1>11, <2>1, <2>2, <2>5, RecordStep
  <1>12. RecordOldest'
    BY <1>10, <1>11 DEF RecordOldest
  <1>13. num' \in 0 .. 2 * GL_NUM_ENTRIES - 1
    BY <1>2, <1>5, GraduationListConstants
  <1> QED BY <1>4, <1>5, <1>6, <1>9, <1>12, <1>13

\* What can be on the input port in a cycle.
Inputs == {NoInstr} \cup [valid : {TRUE}, data : Payload, ex : BOOLEAN, done : BOOLEAN]

(* An ordinary cycle keeps the invariant: the new instruction goes behind  *)
(* all the others, and its exception is recorded only if none is.          *)
LEMMA AdvanceIInv ==
    ASSUME IInv, NEW read \in 0 .. 2, MayRetire(read),
           NEW done \in SUBSET Staying(read),
           NEW failed \in SUBSET {i \in done : Reported(i)},
           NEW exe \in Staying(read) \cup {NoIndex},
           NEW instr \in Inputs,
           GlAdvance(instr, read, Ports(done, failed), exe)
    PROVE  IInv'
  <1> USE DEF IInv, GlTypeOK
  <1> DEFINE we == GlWriteEnable(instr)
             new == IF we THEN 1 ELSE 0
  <1>0. /\ instr.valid \in BOOLEAN
        /\ instr.valid => /\ instr.data \in Payload
                          /\ instr.ex \in BOOLEAN
                          /\ instr.done \in BOOLEAN
    <2>1. CASE instr = NoInstr
      BY <2>1 DEF NoInstr
    <2>2. CASE instr \in [valid : {TRUE}, data : Payload, ex : BOOLEAN, done : BOOLEAN]
      BY <2>2
    <2> QED BY <2>1, <2>2 DEF Inputs
  <1>1. /\ done \in SUBSET Index /\ failed \in SUBSET done
        /\ exe # NoIndex => exe \in Index
    BY DEF Staying
  <1>2. /\ gl_head' = GlPtr(gl_head + read) /\ gl_tail' = GlPtr(gl_tail + new)
        /\ num' = Trunc(num + new - read, 2 * GL_NUM_ENTRIES)
    BY DEF GlAdvance
  <1>3. read <= num
    BY RetiredHeld
  <1>4. we \in BOOLEAN /\ new \in 0 .. 1 /\ (we => instr.valid /\ num < GL_NUM_ENTRIES - 1)
    BY <1>0 DEF GlWriteEnable
  <1>5. gl_tail \in Index /\ GlAge(gl_tail) = num /\ ~GlLive(gl_tail) /\ gl_tail \notin done
    <2>1. gl_tail \in Index /\ GlAge(gl_tail) = num
      BY AgeTail
    <2>2. ~GlLive(gl_tail)
      BY <2>1 DEF GlLive
    <2> QED BY <2>1, <2>2 DEF Staying
  <1> HIDE DEF we, new
  <1>6. /\ num' = num + new - read
        /\ gl_head' \in Index /\ gl_tail' \in Index
        /\ num' \in 0 .. GL_NUM_ENTRIES - 1
    <2>1. num' = num + new - read /\ num' \in 0 .. GL_NUM_ENTRIES - 1
      BY <1>2, <1>3, <1>4, GraduationListConstants DEF Occupancy, Trunc, new
    <2>2. gl_head' \in Index /\ gl_tail' \in Index
      BY <1>2, <1>4, <1>5, GraduationListConstants DEF Index, GlPtr, Trunc
    <2> QED BY <2>1, <2>2
  <1>7. Occupancy'
    <2>1. gl_tail' = GlPtr(gl_head' + num')
      BY <1>2, <1>3, <1>4, <1>6, GraduationListConstants DEF Index, GlPtr, Trunc, Occupancy
    <2>2. num' < GL_NUM_ENTRIES
      BY <1>6, GraduationListConstants
    <2> QED BY <2>1, <2>2 DEF Occupancy, GlPtr
  <1>8. /\ valid_bit' \in [Index -> BOOLEAN]
        /\ entries' \in [Index -> [data : Payload \cup {NoIndex}, ex : BOOLEAN]]
        /\ \A i \in Index : i # gl_tail \/ ~we => (entries'[i].ex => entries[i].ex \/ i \in failed)
        /\ we => (entries'[gl_tail].ex => instr.ex)
    <2>1. CASE we
      <3> DEFINE b == [valid_bit EXCEPT ![gl_tail] = instr.done \/ instr.ex]
                 e == [entries EXCEPT ![gl_tail] = [data |-> instr.data, ex |-> instr.ex]]
      <3>1. WriteBack(b, e, Ports(done, failed))
        BY <2>1 DEF GlAdvance, we
      <3>2. /\ b \in [Index -> BOOLEAN]
            /\ e \in [Index -> [data : Payload \cup {NoIndex}, ex : BOOLEAN]]
        BY <1>0, <1>4, <2>1
      <3>3. \A i \in Index : e[i] = IF i = gl_tail THEN [data |-> instr.data, ex |-> instr.ex]
                                    ELSE entries[i]
        OBVIOUS
      <3> HIDE DEF b, e
      <3>4. /\ valid_bit' \in [Index -> BOOLEAN]
            /\ entries' \in [Index -> [data : Payload \cup {NoIndex}, ex : BOOLEAN]]
            /\ \A i \in Index : i \notin done => entries'[i] = e[i]
            /\ \A i \in done : entries'[i].ex => entries[i].ex \/ i \in failed
        BY <1>1, <3>1, <3>2, WriteBackFacts
      <3>5. entries'[gl_tail] = [data |-> instr.data, ex |-> instr.ex]
        BY <1>5, <3>3, <3>4
      <3>6. \A i \in Index : i \notin done /\ i # gl_tail => entries'[i] = entries[i]
        BY <3>3, <3>4
      <3>7. entries'[gl_tail].ex = instr.ex
        BY <3>5
      <3> QED BY <2>1, <3>4, <3>6, <3>7, Zenon
    <2>2. CASE ~we
      <3>1. WriteBack(valid_bit, entries, Ports(done, failed))
        BY <2>2 DEF GlAdvance, we
      <3>2. /\ valid_bit' \in [Index -> BOOLEAN]
            /\ entries' \in [Index -> [data : Payload \cup {NoIndex}, ex : BOOLEAN]]
            /\ \A i \in Index : i \notin done => entries'[i] = entries[i]
            /\ \A i \in done : entries'[i].ex => entries[i].ex \/ i \in failed
        BY <1>1, <3>1, WriteBackFacts
      <3> QED BY <2>2, <3>2, Zenon
    <2> QED BY <2>1, <2>2
  <1>9. ASSUME NEW i \in Index, GlLive(i)'
        PROVE  GlAge(i) \in 0 .. GL_NUM_ENTRIES - 1 /\ GlAge(i) >= read
               /\ (GlLive(i) \/ (we /\ i = gl_tail))
    <2>1. GlAge(i) \in 0 .. GL_NUM_ENTRIES - 1 /\ (GlAge(i) = GlAge(gl_tail) => i = gl_tail)
      BY <1>5, AgeFacts
    <2>2. Dist(gl_head', i, GL_NUM_ENTRIES) = IF GlAge(i) >= read THEN GlAge(i) - read
                                       ELSE GlAge(i) - read + GL_NUM_ENTRIES
      BY <1>2, AgeShift DEF GlAge
    <2>3. Dist(gl_head', i, GL_NUM_ENTRIES) < num + new - read
      BY <1>6, <1>9 DEF GlLive, GlAge
    <2>4. num + new <= GL_NUM_ENTRIES
      BY <1>3, <1>4, GraduationListConstants DEF Occupancy
    <2>5. GlAge(i) >= read /\ GlAge(i) < num + new
      BY <1>4, <2>1, <2>2, <2>3, <2>4, GraduationListConstants
    <2> QED BY <1>4, <1>5, <2>1, <2>5 DEF GlLive, new
  <1>10. \/ TakesExe(exe) /\ exception' = [valid |-> TRUE, index |-> exe]
         \/ we /\ instr.ex /\ ~exception.valid /\ exe = NoIndex
             /\ exception' = [valid |-> TRUE, index |-> gl_tail]
         \/ /\ exception' = exception
            /\ ~(we /\ instr.ex /\ ~exception.valid /\ exe = NoIndex)
            /\ ~TakesExe(exe)
    BY DEF GlAdvance, we
  <1>11. exception' \in [valid : BOOLEAN, index : Index]
    <2>1. CASE exception' = exception
      BY <2>1
    <2>2. CASE TakesExe(exe) /\ exception' = [valid |-> TRUE, index |-> exe]
      <3>1. exe \in Index
        BY <1>1, <2>2 DEF TakesExe
      <3> QED BY <2>2, <3>1
    <2>3. CASE exception' = [valid |-> TRUE, index |-> gl_tail]
      BY <1>5, <2>3
    <2> QED BY <1>10, <2>1, <2>2, <2>3
  <1>12. Dist(gl_head', gl_tail, GL_NUM_ENTRIES) = num - read
    BY <1>2, <1>3, <1>5, AgeShift DEF GlAge
  <1>13. ASSUME exception'.valid PROVE GlLive(exception.index)'
    <2>1. CASE we /\ exception' = [valid |-> TRUE, index |-> gl_tail]
      <3>1. Dist(gl_head', exception'.index, GL_NUM_ENTRIES) < num'
        BY <1>6, <1>12, <2>1 DEF new
      <3> QED BY <3>1 DEF GlLive, GlAge
    <2>2. CASE \/ TakesExe(exe) /\ exception' = [valid |-> TRUE, index |-> exe]
               \/ exception' = exception /\ exception.valid
      <3>1. /\ GlLive(exception'.index)
            /\ Dist(gl_head', exception'.index, GL_NUM_ENTRIES) = GlAge(exception'.index) - read
        BY <1>2, <2>2, RecordStays
      <3>2. GlAge(exception'.index) \in Int /\ GlAge(exception'.index) < num
        BY <1>11, <3>1, AgeFacts DEF GlLive
      <3>3. Dist(gl_head', exception'.index, GL_NUM_ENTRIES) < num'
        BY <1>4, <1>6, <3>1, <3>2
      <3> QED BY <3>3 DEF GlLive, GlAge
    <2> QED BY <1>10, <1>13, <2>1, <2>2
  <1>14. ASSUME NEW i \in Index, GlLive(i)', entries'[i].ex PROVE Reported(i)'
    <2>1. CASE GlLive(i)
      <3>1. i # gl_tail
        BY <1>5, <2>1
      <3>2. entries[i].ex \/ i \in failed
        BY <1>8, <1>14, <3>1
      <3>3. exception.valid
        BY <2>1, <3>2 DEF RecordOldest, Reported
      <3>4. \/ TakesExe(exe) /\ exception' = [valid |-> TRUE, index |-> exe]
            \/ exception' = exception
        BY <1>10, <3>3
      <3> QED BY <1>2, <1>11, <1>14, <2>1, <3>2, <3>4, RecordStep
    <2>2. CASE we /\ i = gl_tail
      <3>1. instr.ex
        BY <1>8, <1>14, <2>2
      <3>2. exe # NoIndex /\ ~exception.valid => TakesExe(exe)
        BY DEF TakesExe
      <3>3. exception'.valid
        BY <1>10, <2>2, <3>1, <3>2
      <3>4. Dist(gl_head', exception'.index, GL_NUM_ENTRIES) \in Int
            /\ Dist(gl_head', exception'.index, GL_NUM_ENTRIES) <= num - read
        <4>1. Dist(gl_head', exception'.index, GL_NUM_ENTRIES) < num'
          BY <1>13, <3>3 DEF GlLive, GlAge
        <4>2. Dist(gl_head', exception'.index, GL_NUM_ENTRIES) \in Int
          BY <1>6, <1>11, GraduationListConstants DEF Dist, Trunc, Index
        <4> QED BY <1>4, <1>6, <4>1, <4>2
      <3> QED BY <1>12, <2>2, <3>3, <3>4 DEF Reported, GlAge
    <2> QED BY <1>9, <1>14, <2>1, <2>2
  <1>15. RecordOldest'
    BY <1>13, <1>14 DEF RecordOldest
  <1>16. num' \in 0 .. 2 * GL_NUM_ENTRIES - 1
    BY <1>6, GraduationListConstants
  <1> QED BY <1>6, <1>7, <1>8, <1>11, <1>15, <1>16

(* Every cycle of a client that keeps the protocol keeps the invariant.    *)
LEMMA NextIInv == IInv /\ [GlNext]_gl_vars => IInv'
  <1> SUFFICES ASSUME IInv, [GlNext]_gl_vars PROVE IInv'
    OBVIOUS
  <1>1. CASE UNCHANGED gl_vars
    BY <1>1 DEF gl_vars, IInv, GlTypeOK, Occupancy, RecordOldest, Reported, GlLive, GlAge
  <1>2. CASE GlNext
    <2>1. ASSUME NEW done \in SUBSET Staying(0), NEW failed \in SUBSET done,
                 FlushCommit(Ports(done, failed))
          PROVE  IInv'
      <3>1. done \in SUBSET Index
        BY DEF Staying
      <3> QED BY <2>1, <3>1, FlushCommitIInv
    <2>2. ASSUME NEW read \in 0 .. 2, MayRetire(read), NEW done \in SUBSET Staying(read),
                 NEW failed \in SUBSET {i \in done : Reported(i)},
                 NEW exe \in Staying(read) \cup {NoIndex},
                 CycleOf(read, done, failed, exe)
          PROVE  IInv'
      <3>1. ASSUME NEW i \in done, exe # NoIndex => GlAge(exe) < GlAge(i),
                   Flush(i, read, Ports(done, failed), exe)
            PROVE  IInv'
        BY <2>2, <3>1, FlushIInv
      <3>2. CASE GlAdvance(NoInstr, read, Ports(done, failed), exe)
        <4>1. NoInstr \in Inputs
          BY DEF Inputs
        <4> QED BY <2>2, <3>2, <4>1, AdvanceIInv
      <3>3. ASSUME NEW data \in Payload, NEW ex \in BOOLEAN, NEW ready \in BOOLEAN,
                   GlAdvance([valid |-> TRUE, data |-> data, ex |-> ex, done |-> ready],
                           read, Ports(done, failed), exe)
            PROVE  IInv'
        <4> DEFINE instr == [valid |-> TRUE, data |-> data, ex |-> ex, done |-> ready]
        <4>1. instr \in Inputs
          BY DEF Inputs
        <4>2. GlAdvance(instr, read, Ports(done, failed), exe)
          BY <3>3
        <4> HIDE DEF instr
        <4> QED BY <2>2, <4>1, <4>2, AdvanceIInv
      <3> QED BY <2>2, <3>1, <3>2, <3>3 DEF CycleOf
    <2> QED BY <1>2, <2>1, <2>2 DEF GlNext
  <1> QED BY <1>1, <1>2

(* Every field of the graduation list keeps its range.                     *)
THEOREM GraduationListTypes == GlSpec => []GlTypeOK
  <1>1. IInv => GlTypeOK
    BY DEF IInv
  <1> QED BY <1>1, InitIInv, NextIInv, PTL DEF GlSpec

(* The pointers and the count of graduation_list.sv never disagree, and    *)
(* one entry stays free, in every client behaviour.                        *)
THEOREM GraduationListOccupancy == GlSpec => []Occupancy
  <1>1. IInv => Occupancy
    BY DEF IInv
  <1> QED BY <1>1, InitIInv, NextIInv, PTL DEF GlSpec

(* exception_index_q always names the oldest live instruction's exception. *)
THEOREM GraduationListRecord == GlSpec => []RecordOldest
  <1>1. IInv => RecordOldest
    BY DEF IInv
  <1> QED BY <1>1, InitIInv, NextIInv, PTL DEF GlSpec

(* When the instruction at the head carries an exception, the cause that   *)
(* commit takes from the record is that instruction's own.                 *)
THEOREM GraduationListAtHead == GlSpec => []ExceptionAtHead
  <1>1. ASSUME IInv PROVE ExceptionAtHead
    <2> SUFFICES ASSUME num > 0, entries[gl_head].ex
                 PROVE  exception.valid /\ exception.index = gl_head
      BY DEF ExceptionAtHead
    <2>1. gl_head \in Index /\ exception.index \in Index /\ GlAge(gl_head) = 0 /\ GlLive(gl_head)
      BY <1>1, GraduationListConstants DEF IInv, GlTypeOK, GlLive, GlAge, Dist, Trunc, Index
    <2>2. exception.valid /\ GlAge(exception.index) <= GlAge(gl_head)
      BY <1>1, <2>1 DEF IInv, RecordOldest, Reported
    <2>3. GlAge(exception.index) = GlAge(gl_head)
      BY <2>1, <2>2, AgeFacts
    <2> QED BY <2>1, <2>2, <2>3, AgeFacts
  <1> QED BY <1>1, InitIInv, NextIInv, PTL DEF GlSpec
=============================================================================
